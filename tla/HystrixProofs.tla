---------------------------- MODULE HystrixProofs ----------------------------
(***************************************************************************)
(* Theorems about HystrixCommand and HystrixCircuit, for any number of     *)
(* commands and tickets and any setting of the circuit.                    *)
(***************************************************************************)
EXTENDS HystrixCommand, FiniteSetTheorems, TLAPS

-----------------------------------------------------------------------------
(* The sections of the circuit keep its types, and the single test.        *)

\* openedOrLastTestedTime never goes back, and the times that commands which
\* passed the test have seen are behind it.
Passed(c) == call[c] # "swap" /\ test[c].seen # NoTime
TestInv ==
    /\ openedOrLastTestedTime =< now
    /\ \A c \in Commands :
        /\ test[c].stamp =< now
        /\ call[c] = "swap" => test[c].seen =< openedOrLastTestedTime
                               /\ test[c].stamp > test[c].seen
        /\ Passed(c) => test[c].seen < openedOrLastTestedTime

-----------------------------------------------------------------------------
(* Types.                                                                  *)

\* Increment keeps the shape of a rolling number.
LEMMA IncrementType ==
  ASSUME NEW b \in [Times -> Nat], NEW i \in Nat, now \in Times, Window \in Nat, MaxTime \in Nat
  PROVE  Increment(b, i) \in [Times -> Nat]
<1>1. ASSUME NEW t \in Times
      PROVE  (CASE t = now -> b[t] + i
                [] t + Window <= now -> 0
                [] OTHER -> b[t]) \in Nat
  BY DEF Times
<1> QED
  BY <1>1 DEF Increment

TestRecords == [stamp : Times, seen : Times \cup {NoTime}]

\* A new time stamp in the locals of allowSingleTest.
LEMMA StampType ==
  ASSUME NEW r \in TestRecords, NEW x \in Times
  PROVE  [r EXCEPT !.stamp = x] \in TestRecords
  BY DEF TestRecords

\* The sections of the circuit's methods and what runs beside them.
CircuitStep ==
    \/ \E c \in Commands : \/ AllowRequest(c) \/ setClose(c)
                           \/ \E t \in Types : ReportRead(c, t) \/ ReportSend(c, t)
    \/ Monitor \/ toggleForceOpen \/ Tick

\* They keep the types of the circuit's state.
LEMMA CircuitTypes ==
  ASSUME CircuitTypeOK, CircuitStep
  PROVE  CircuitTypeOK'
<1> USE CircuitAssumption DEF CircuitTypeOK, flags, metrics, clock, Goto, Positions, Times, NoTime,
        NoTest
<1>1. ASSUME NEW c \in Commands,
             \/ AllowRequest(c) \/ setClose(c)
             \/ \E t \in Types : ReportRead(c, t) \/ ReportSend(c, t)
      PROVE  CircuitTypeOK'
  <2>1. CASE IsOpen(c)
    BY <2>1, SMTT(60) DEF IsOpen
  <2>2. CASE CheckVolume(c)
    BY <2>2, SMTT(60) DEF CheckVolume
  <2>3. CASE CheckHealth(c)
    BY <2>3, SMTT(60) DEF CheckHealth
  <2>4. CASE setOpen(c)
    BY <2>4, ZenonT(60) DEF setOpen
  <2>5. CASE TestNow(c)
    BY <2>5, ZenonT(60) DEF TestNow
  <2>6. CASE TestLoad(c)
    <3>1. test' \in [Commands -> TestRecords]
      <4>1. test[c] \in TestRecords /\ test \in [Commands -> TestRecords]
        BY DEF TestRecords
      <4>2. NoTest \in TestRecords
        BY DEF TestRecords
      <4>3. [test[c] EXCEPT !.seen = openedOrLastTestedTime] \in TestRecords
        BY <4>1, ZenonT(60) DEF TestRecords
      <4> QED
        BY <2>6, <4>1, <4>2, <4>3, ZenonT(60) DEF TestLoad
    <3>2. call' \in [Commands -> Positions]
      BY <2>6, ZenonT(60) DEF TestLoad
    <3> QED
      BY <2>6, <3>1, <3>2, ZenonT(60) DEF TestLoad, TestRecords
  <2>7. CASE TestSwap(c)
    <3>1. test' \in [Commands -> TestRecords]
      <4>1. test[c] \in TestRecords /\ test \in [Commands -> TestRecords]
        BY DEF TestRecords
      <4>2. NoTest \in TestRecords
        BY DEF TestRecords
      <4>0. 0 \in Times
        OBVIOUS
      <4>3. [test[c] EXCEPT !.stamp = 0] \in TestRecords
        BY <4>0, <4>1, StampType, ZenonT(60)
      <4>4. \/ test' = [test EXCEPT ![c] = [test[c] EXCEPT !.stamp = 0]]
            \/ test' = [test EXCEPT ![c] = NoTest]
        BY <2>7, SMTT(60) DEF TestSwap
      <4> QED
        BY <4>1, <4>2, <4>3, <4>4, ZenonT(60)
    <3>2. call' \in [Commands -> Positions] /\ openedOrLastTestedTime' \in Times
      BY <2>7, ZenonT(60) DEF TestSwap
    <3> QED
      BY <2>7, <3>1, <3>2, ZenonT(60) DEF TestSwap, TestRecords
  <2>8. CASE setClose(c)
    BY <2>8, ZenonT(60) DEF setClose
  <2>9. ASSUME NEW t \in Types, ReportRead(c, t) PROVE CircuitTypeOK'
    BY <2>9, SMTT(60) DEF ReportRead
  <2>10. ASSUME NEW t \in Types, ReportSend(c, t) PROVE CircuitTypeOK'
    <3>1. Append(updates, t) \in Seq(Types) /\ Len(Append(updates, t)) = Len(updates) + 1
      OBVIOUS
    <3>2. updates' \in Seq(Types) /\ Len(updates') =< UpdatesCap
      BY <2>10, <3>1 DEF ReportSend
    <3> QED
      BY <2>10, <3>2, ZenonT(60) DEF ReportSend
  <2> QED
    BY <1>1, <2>1, <2>2, <2>3, <2>4, <2>5, <2>6, <2>7, <2>8, <2>9, <2>10, ZenonT(60)
       DEF AllowRequest
<1>2. CASE MonitorAttempt
  <2>1. requests' \in [Times -> Nat]
    BY <1>2, IncrementType, ZenonT(60) DEF MonitorAttempt
  <2>2. counting' \in Types /\ updates' \in Seq(Types) /\ Len(updates') =< UpdatesCap
    BY <1>2 DEF MonitorAttempt
  <2> QED
    BY <1>2, <2>1, <2>2, ZenonT(60) DEF MonitorAttempt
<1>3. CASE MonitorError
  <2>1. errors' \in [Times -> Nat]
    BY <1>3, IncrementType, ZenonT(60) DEF MonitorError
  <2> QED
    BY <1>3, <2>1, SMTT(60) DEF MonitorError
<1>4. CASE toggleForceOpen
  <2>1. toggles' \in 0 .. MaxToggles
    BY <1>4 DEF toggleForceOpen
  <2> QED
    BY <1>4, <2>1, ZenonT(60) DEF toggleForceOpen
<1>5. CASE Tick
  BY <1>5, now' \in Times, SMTT(60) DEF Tick
<1> QED
  BY <1>1, <1>2, <1>3, <1>4, <1>5, ZenonT(60) DEF CircuitStep, Monitor

-----------------------------------------------------------------------------
(* The single test.                                                        *)

\* The locals of allowSingleTest are numbers.
LEMMA StampInt ==
  ASSUME CircuitTypeOK, NEW d \in Commands
  PROVE  test[d].stamp \in Int /\ test[d].seen \in Int
<1>1. test[d] \in [stamp : Times, seen : Times \cup {NoTime}]
  BY DEF CircuitTypeOK
<1> QED
  BY <1>1 DEF Times, NoTime

\* Where nobody comes to the swap or leaves it and the time of the last test does
\* not go back, nothing changes for the commands that passed.
LEMMA TestQuiet ==
  ASSUME CircuitTypeOK, CircuitTypeOK', TestInv, OneTestPerWindow, test' = test, now =< now',
         openedOrLastTestedTime =< openedOrLastTestedTime', openedOrLastTestedTime' =< now',
         \A d \in Commands : call'[d] = "swap" <=> call[d] = "swap"
  PROVE  TestInv' /\ OneTestPerWindow'
<1>1. \A d \in Commands : test[d].stamp \in Int /\ test[d].seen \in Int
  BY StampInt
<1>2. {now, now', openedOrLastTestedTime, openedOrLastTestedTime'} \subseteq Int
  BY DEF CircuitTypeOK, Times
<1>3. TestInv'
  BY <1>1, <1>2 DEF TestInv, Passed, NoTime
<1>4. OneTestPerWindow'
  BY DEF OneTestPerWindow
<1> QED
  BY <1>3, <1>4, ZenonT(60)

\* allowSingleTest, in three steps under a shared lock.
LEMMA TestStep ==
  ASSUME CircuitTypeOK, CircuitTypeOK', TestInv, OneTestPerWindow, CircuitStep
  PROVE  TestInv' /\ OneTestPerWindow'
<1>0. /\ \A d \in Commands : test[d].stamp \in Int /\ test[d].seen \in Int
      /\ {now, now', openedOrLastTestedTime, openedOrLastTestedTime'} \subseteq Int
      /\ test \in [Commands -> TestRecords] /\ call \in [Commands -> Positions]
  <2>1. \A d \in Commands : test[d].stamp \in Int /\ test[d].seen \in Int
    BY StampInt
  <2>2. {now, now', openedOrLastTestedTime, openedOrLastTestedTime'} \subseteq Int
    BY DEF CircuitTypeOK, Times
  <2>3. test \in [Commands -> TestRecords] /\ call \in [Commands -> Positions]
    BY ZenonT(60) DEF CircuitTypeOK, TestRecords
  <2> QED
    BY <2>1, <2>2, <2>3
<1>1. ASSUME NEW c \in Commands, TestNow(c)
      PROVE  TestInv' /\ OneTestPerWindow'
  <2>1. /\ UNCHANGED <<now, openedOrLastTestedTime>>
        /\ test'[c].stamp = now /\ test'[c].seen = test[c].seen
        /\ call[c] = "test" /\ call'[c] = "load"
        /\ \A d \in Commands \ {c} : test'[d] = test[d] /\ call'[d] = call[d]
    BY <1>0, <1>1, ZenonT(60) DEF TestNow, Goto, clock, flags, TestRecords
  <2>2. TestInv'
    BY <1>0, <2>1 DEF TestInv, Passed
  <2>3. OneTestPerWindow'
    BY <2>1 DEF OneTestPerWindow
  <2> QED
    BY <2>2, <2>3, ZenonT(60)
<1>2. ASSUME NEW c \in Commands, TestLoad(c)
      PROVE  TestInv' /\ OneTestPerWindow'
  <2>1. /\ UNCHANGED <<now, openedOrLastTestedTime>>
        /\ \A d \in Commands \ {c} : test'[d] = test[d] /\ call'[d] = call[d]
        /\ \/ /\ test'[c].stamp = test[c].stamp /\ test'[c].seen = openedOrLastTestedTime
              /\ test[c].stamp > openedOrLastTestedTime /\ call'[c] = "swap"
           \/ test'[c].stamp = 0 /\ test'[c].seen = NoTime /\ call'[c] = "refused"
    BY <1>0, <1>2, CircuitAssumption DEF TestLoad, Goto, clock, flags, TestRecords, NoTest
  <2>2. now >= 0
    BY DEF CircuitTypeOK, Times
  <2>3. TestInv'
    BY <1>0, <2>1, <2>2 DEF TestInv, Passed
  <2>4. OneTestPerWindow'
    BY <2>1 DEF OneTestPerWindow
  <2> QED
    BY <2>3, <2>4
<1>3. ASSUME NEW c \in Commands, TestSwap(c)
      PROVE  TestInv' /\ OneTestPerWindow'
  <2>1. /\ UNCHANGED now /\ call[c] = "swap"
        /\ \A d \in Commands \ {c} : test'[d] = test[d] /\ call'[d] = call[d]
        /\ \/ /\ test'[c].stamp = 0 /\ test'[c].seen = test[c].seen
              /\ openedOrLastTestedTime = test[c].seen
              /\ openedOrLastTestedTime' = test[c].stamp /\ call'[c] = "allowed"
           \/ /\ test'[c].stamp = 0 /\ test'[c].seen = NoTime /\ call'[c] = "refused"
              /\ UNCHANGED openedOrLastTestedTime
    BY <1>0, <1>3 DEF TestSwap, Goto, clock, TestRecords, NoTest
  <2>2. now >= 0
    BY DEF CircuitTypeOK, Times
  <2>3. TestInv'
    BY <1>0, <2>1, <2>2 DEF TestInv, Passed
  <2>4. OneTestPerWindow'
    BY <1>0, <2>1 DEF OneTestPerWindow, TestInv, Passed
  <2> QED
    BY <2>3, <2>4
<1>4. CASE ~\E c \in Commands : TestNow(c) \/ TestLoad(c) \/ TestSwap(c)
  <2>1. test' = test /\ now =< now' /\ openedOrLastTestedTime =< openedOrLastTestedTime'
        /\ openedOrLastTestedTime' =< now'
    <3>1. /\ test' = test
          /\ \/ now' = now /\ openedOrLastTestedTime' \in {openedOrLastTestedTime, now}
             \/ now' = now + 1 /\ openedOrLastTestedTime' = openedOrLastTestedTime
      BY <1>4, ZenonT(60) DEF CircuitStep, AllowRequest, IsOpen, CheckVolume, CheckHealth, setOpen,
          setClose, ReportRead, ReportSend, Monitor, MonitorAttempt, MonitorError,
          toggleForceOpen, Tick, clock, flags
    <3>2. openedOrLastTestedTime =< now
      BY ZenonT(60) DEF TestInv
    <3> QED
      BY <1>0, <3>1, <3>2
  <2>2. \A d \in Commands : call'[d] = "swap" <=> call[d] = "swap"
    BY <1>0, <1>4, ZenonT(60) DEF CircuitStep, AllowRequest, IsOpen, CheckVolume, CheckHealth, setOpen,
        setClose, ReportRead, ReportSend, Monitor, MonitorAttempt, MonitorError,
        toggleForceOpen, Tick, Goto
  <2> QED
    BY <2>1, <2>2, TestQuiet, ZenonT(60)
<1> QED
  BY <1>1, <1>2, <1>3, <1>4, ZenonT(60)

-----------------------------------------------------------------------------
(* The inductive invariant.                                                *)

\* Who is inside returnOnce.Do, and that it is entered from one place of each
\* goroutine.
OnceOK(c) ==
    /\ once[c] = "free" <=> body[c] = "none"
    /\ once[c] = "over" <=> body[c] = "over"
    /\ once[c] = "run" => run[c] = "once"
    /\ once[c] = "timer" => timer[c] = "once"
    /\ run[c] = "idle" => timer[c] = "idle"

\* The ticket is asked for on the way to the function, and not after returnTicket.
TicketOK(c) ==
    /\ ticketChecked[c] <=> run[c] \notin {"idle", "allow"}
    /\ ticket[c] # "nil" => ticketChecked[c]
    /\ body[c] \in {"verdict", "report", "over"} => ticketChecked[c]
    /\ ticket[c] = "held" <=> ticket[c] # "nil" /\ body[c] \in {"none", "return"}

\* The events a verdict may leave.
Outcome(t) ==
    {<<t>>} \cup IF t = "success" THEN {}
                 ELSE {<<t, "fallback-failure">>, <<t, "fallback-success">>}

\* Nothing is reported and nothing answered before the verdict.
VerdictOK(c) ==
    /\ body[c] \notin {"report", "over"} =>
        events[c] = << >> /\ errChan[c] = 0 /\ caller[c] # "error"
    /\ body[c] \in {"report", "over"} =>
        \E t \in Types :
            /\ events[c] \in Outcome(t)
            /\ t = "success" => errChan[c] = 0 /\ caller[c] # "error"

ProtocolInv == \A c \in Commands : OnceOK(c) /\ TicketOK(c) /\ VerdictOK(c)

HystrixInv == TypeOK /\ ProtocolInv /\ TestInv /\ TicketsConserved /\ OneTestPerWindow

-----------------------------------------------------------------------------
(* Types.                                                                  *)

\* The steps of a command that are not sections of its circuit alone.
StepOf(c) ==
    \/ GoC(c) \/ ShortCircuit(c) \/ TakeTicket(c) \/ RunReturns(c) \/ SendDone(c)
    \/ RunOnce(c) \/ SelectFinished(c) \/ SelectExpired(c) \/ TimerOnce(c)
    \/ returnTicket(c) \/ ReportSuccess(c) \/ errorWithFallback(c)
    \/ reportAllEvent(c) \/ DoReturns(c)

\* Every step of the commands is one of these or leaves their fields alone.
LEMMA StepCases ==
  ASSUME [Next]_vars
  PROVE  UNCHANGED commandVars \/ \E c \in Commands : StepOf(c)
  BY ZenonT(60) DEF Next, vars, RunGoroutine, TimerGoroutine, Body, Background, StepOf, Allow, ReportAll

\* The fields of the commands.
LEMMA CommandTypes ==
  ASSUME CommandTypeOK, [Next]_vars
  PROVE  CommandTypeOK'
<1>1. CASE UNCHANGED commandVars
  BY <1>1, ZenonT(60) DEF commandVars, CommandTypeOK, goroutines, pool, channels
<1>2. ASSUME NEW c \in Commands, StepOf(c)
      PROVE  CommandTypeOK'
  <2> USE DEF goroutines, pool, channels
  <2>0. /\ {"success", "fallback-failure", "fallback-success"} \subseteq EventNames
        /\ Verdict(c) \in EventNames
        /\ \A e \in EventNames : /\ Append(events[c], e) \in Seq(EventNames)
                                  /\ \A f \in EventNames : events[c] \o <<e, f>> \in Seq(EventNames)
    BY DEF CommandTypeOK, EventNames, Types, Verdict
  <2>1. CASE GoC(c)
    BY <2>1, ZenonT(60) DEF CommandTypeOK, GoC, RunSteps
  <2>2. CASE ShortCircuit(c)
    BY <2>2, ZenonT(60) DEF CommandTypeOK, ShortCircuit, RunSteps, Types, ErrorTypes
  <2>3. CASE TakeTicket(c)
    <3>1. ASSUME run \in [Commands -> RunSteps]
          PROVE  run' \in [Commands -> RunSteps]
      BY <2>3, <3>1, ZenonT(60) DEF TakeTicket, RunSteps
    <3>2. ASSUME runErr \in [Commands -> Types]
          PROVE  runErr' \in [Commands -> Types]
      BY <2>3, <3>2, ZenonT(60) DEF TakeTicket, Types, ErrorTypes
    <3>3. ASSUME ticketChecked \in [Commands -> BOOLEAN]
          PROVE  ticketChecked' \in [Commands -> BOOLEAN]
      BY <2>3, <3>3, ZenonT(60) DEF TakeTicket
    <3>4. ASSUME ticket \in [Commands -> {"nil", "held", "returned"}]
          PROVE  ticket' \in [Commands -> {"nil", "held", "returned"}]
      BY <2>3, <3>4, ZenonT(60) DEF TakeTicket
    <3>5. ASSUME tickets \in Nat
          PROVE  tickets' \in Nat
      BY <2>3, <3>5 DEF TakeTicket
    <3>6. UNCHANGED <<timer, timerErr, once, body, events, channels, caller>>
      BY <2>3, ZenonT(60) DEF TakeTicket
    <3> QED
      BY <3>1, <3>2, <3>3, <3>4, <3>5, <3>6, ZenonT(60) DEF CommandTypeOK
  <2>4. CASE RunReturns(c)
    BY <2>4 DEF CommandTypeOK, RunReturns, RunSteps, Types, ErrorTypes
  <2>5. CASE SendDone(c)
    BY <2>5 DEF CommandTypeOK, SendDone, RunSteps
  <2>6. CASE RunOnce(c)
    <3>1. ASSUME run \in [Commands -> RunSteps]
          PROVE  run' \in [Commands -> RunSteps]
      BY <2>6, <3>1, ZenonT(60) DEF RunOnce, RunSteps
    <3>2. ASSUME runErr \in [Commands -> Types]
          PROVE  runErr' \in [Commands -> Types]
      BY <2>6, <3>2, ZenonT(60) DEF RunOnce, Types, ErrorTypes
    <3>3. ASSUME once \in [Commands -> {"free", "run", "timer", "over"}]
          PROVE  once' \in [Commands -> {"free", "run", "timer", "over"}]
      BY <2>6, <3>3, ZenonT(60) DEF RunOnce
    <3>4. ASSUME body \in [Commands -> BodySteps]
          PROVE  body' \in [Commands -> BodySteps]
      BY <2>6, <3>4, ZenonT(60) DEF RunOnce, BodySteps
    <3>5. ASSUME finished \in [Commands -> 0 .. 1]
          PROVE  finished' \in [Commands -> 0 .. 1]
      BY <2>6, <3>5 DEF RunOnce
    <3>6. UNCHANGED <<timer, timerErr, pool, events, errChan, done, caller>>
      BY <2>6, ZenonT(60) DEF RunOnce
    <3> QED
      BY <3>1, <3>2, <3>3, <3>4, <3>5, <3>6, ZenonT(60) DEF CommandTypeOK
  <2>7. CASE SelectFinished(c)
    BY <2>7 DEF CommandTypeOK, SelectFinished
  <2>8. CASE SelectExpired(c)
    BY <2>8 DEF CommandTypeOK, SelectExpired, Types, ErrorTypes
  <2>9. CASE TimerOnce(c)
    <3>1. ASSUME timer \in [Commands -> {"idle", "select", "once", "ended"}]
          PROVE  timer' \in [Commands -> {"idle", "select", "once", "ended"}]
      BY <2>9, <3>1, ZenonT(60) DEF TimerOnce
    <3>2. ASSUME timerErr \in [Commands -> Types]
          PROVE  timerErr' \in [Commands -> Types]
      BY <2>9, <3>2, ZenonT(60) DEF TimerOnce, Types, ErrorTypes
    <3>3. ASSUME once \in [Commands -> {"free", "run", "timer", "over"}]
          PROVE  once' \in [Commands -> {"free", "run", "timer", "over"}]
      BY <2>9, <3>3, ZenonT(60) DEF TimerOnce
    <3>4. ASSUME body \in [Commands -> BodySteps]
          PROVE  body' \in [Commands -> BodySteps]
      BY <2>9, <3>4, ZenonT(60) DEF TimerOnce, BodySteps
    <3>5. UNCHANGED <<run, runErr, pool, events, channels, caller>>
      BY <2>9, ZenonT(60) DEF TimerOnce
    <3> QED
      BY <3>1, <3>2, <3>3, <3>4, <3>5, ZenonT(60) DEF CommandTypeOK
  <2>10. CASE returnTicket(c)
    <3>1. ASSUME body \in [Commands -> BodySteps]
          PROVE  body' \in [Commands -> BodySteps]
      BY <2>10, <3>1, ZenonT(60) DEF returnTicket, BodySteps
    <3>2. ASSUME ticket \in [Commands -> {"nil", "held", "returned"}]
          PROVE  ticket' \in [Commands -> {"nil", "held", "returned"}]
      BY <2>10, <3>2, ZenonT(60) DEF returnTicket
    <3>3. ASSUME tickets \in Nat
          PROVE  tickets' \in Nat
      BY <2>10, <3>3 DEF returnTicket
    <3>4. UNCHANGED <<goroutines, once, ticketChecked, events, channels, caller>>
      BY <2>10, ZenonT(60) DEF returnTicket
    <3> QED
      BY <3>1, <3>2, <3>3, <3>4, ZenonT(60) DEF CommandTypeOK
  <2>11. CASE ReportSuccess(c)
    <3>1. ASSUME body \in [Commands -> BodySteps]
          PROVE  body' \in [Commands -> BodySteps]
      BY <2>11, <3>1, ZenonT(60) DEF ReportSuccess, BodySteps
    <3>2. ASSUME events \in [Commands -> Seq(EventNames)]
          PROVE  events' \in [Commands -> Seq(EventNames)]
      BY <2>11, <3>2, <2>0, ZenonT(60) DEF ReportSuccess
    <3>3. UNCHANGED <<goroutines, once, pool, channels, caller>>
      BY <2>11, ZenonT(60) DEF ReportSuccess
    <3> QED
      BY <3>1, <3>2, <3>3, ZenonT(60) DEF CommandTypeOK
  <2>12. CASE errorWithFallback(c)
    <3>1. ASSUME body \in [Commands -> BodySteps]
          PROVE  body' \in [Commands -> BodySteps]
      BY <2>12, <3>1, ZenonT(60) DEF errorWithFallback, BodySteps
    <3>2. ASSUME events \in [Commands -> Seq(EventNames)]
          PROVE  events' \in [Commands -> Seq(EventNames)]
      <4>1. PICK e \in Seq(EventNames) : events' = [events EXCEPT ![c] = e]
        BY <2>12, <2>0, ZenonT(60) DEF errorWithFallback
      <4> QED
        BY <4>1, <3>2, ZenonT(60)
    <3>3. ASSUME errChan \in [Commands -> 0 .. 1]
          PROVE  errChan' \in [Commands -> 0 .. 1]
      BY <2>12, <3>3 DEF errorWithFallback
    <3>4. ASSUME done \in [Commands -> 0 .. 1]
          PROVE  done' \in [Commands -> 0 .. 1]
      BY <2>12, <3>4 DEF errorWithFallback
    <3>5. UNCHANGED <<goroutines, once, pool, finished, caller>>
      BY <2>12, ZenonT(60) DEF errorWithFallback
    <3> QED
      BY <3>1, <3>2, <3>3, <3>4, <3>5, ZenonT(60) DEF CommandTypeOK
  <2>13. CASE reportAllEvent(c)
    BY <2>13, ZenonT(60) DEF CommandTypeOK, reportAllEvent, BodySteps
  <2>14. CASE DoReturns(c)
    <3>1. ASSUME errChan \in [Commands -> 0 .. 1]
          PROVE  errChan' \in [Commands -> 0 .. 1]
      BY <2>14, <3>1 DEF DoReturns
    <3>2. ASSUME done \in [Commands -> 0 .. 1]
          PROVE  done' \in [Commands -> 0 .. 1]
      BY <2>14, <3>2 DEF DoReturns
    <3>3. ASSUME caller \in [Commands -> {"out", "waiting", "nil", "error"}]
          PROVE  caller' \in [Commands -> {"out", "waiting", "nil", "error"}]
      BY <2>14, <3>3, ZenonT(60) DEF DoReturns
    <3>4. UNCHANGED <<goroutines, once, body, pool, events, finished>>
      BY <2>14 DEF DoReturns
    <3> QED
      BY <3>1, <3>2, <3>3, <3>4, ZenonT(60) DEF CommandTypeOK
  <2> HIDE DEF goroutines, pool, channels
  <2> QED
    BY <1>2, <2>1, <2>2, <2>3, <2>4, <2>5, <2>6, <2>7, <2>8, <2>9,
       <2>10, <2>11, <2>12, <2>13, <2>14, ZenonT(60) DEF StepOf
<1> QED
  BY <1>1, <1>2, StepCases, ZenonT(60)

-----------------------------------------------------------------------------
(* The goroutines of a command.                                            *)

\* A command leaves the fields of the others alone.
LEMMA OthersSame ==
  ASSUME CommandTypeOK, NEW c \in Commands, StepOf(c), NEW d \in Commands, c # d
  PROVE  UNCHANGED <<run[d], timer[d], once[d], body[d], ticketChecked[d], ticket[d],
                     events[d], errChan[d], caller[d]>>
<1>0. /\ DOMAIN run = Commands /\ DOMAIN timer = Commands /\ DOMAIN once = Commands
      /\ DOMAIN body = Commands /\ DOMAIN ticketChecked = Commands
      /\ DOMAIN ticket = Commands /\ DOMAIN events = Commands
      /\ DOMAIN errChan = Commands /\ DOMAIN caller = Commands
  BY SMTT(60) DEF CommandTypeOK
<1> USE <1>0 DEF goroutines, pool, channels
<1>1. CASE GoC(c)
  BY <1>1 DEF GoC
<1>2. CASE ShortCircuit(c)
  BY <1>2, ZenonT(60) DEF ShortCircuit
<1>3. CASE TakeTicket(c)
  BY <1>3, ZenonT(60) DEF TakeTicket
<1>4. CASE RunReturns(c)
  BY <1>4, ZenonT(60) DEF RunReturns
<1>5. CASE SendDone(c)
  BY <1>5, ZenonT(60) DEF SendDone
<1>6. CASE RunOnce(c)
  BY <1>6, ZenonT(60) DEF RunOnce
<1>7. CASE SelectFinished(c)
  BY <1>7, ZenonT(60) DEF SelectFinished
<1>8. CASE SelectExpired(c)
  BY <1>8, ZenonT(60) DEF SelectExpired
<1>9. CASE TimerOnce(c)
  BY <1>9, ZenonT(60) DEF TimerOnce
<1>10. CASE returnTicket(c)
  BY <1>10, ZenonT(60) DEF returnTicket
<1>11. CASE ReportSuccess(c)
  BY <1>11, ZenonT(60) DEF ReportSuccess
<1>12. CASE errorWithFallback(c)
  BY <1>12, ZenonT(60) DEF errorWithFallback
<1>13. CASE reportAllEvent(c)
  BY <1>13, SMTT(60) DEF reportAllEvent
<1>14. CASE DoReturns(c)
  BY <1>14, ZenonT(60) DEF DoReturns
<1> HIDE <1>0 DEF goroutines, pool, channels
<1> QED
  BY <1>1, <1>2, <1>3, <1>4, <1>5, <1>6, <1>7, <1>8, <1>9,
     <1>10, <1>11, <1>12, <1>13, <1>14, ZenonT(60) DEF StepOf

\* The race for returnOnce, the ticket and the verdict.
LEMMA ProtocolStep ==
  ASSUME CommandTypeOK, ProtocolInv, [Next]_vars
  PROVE  ProtocolInv'
<1>1. CASE UNCHANGED commandVars
  BY <1>1, ZenonT(60) DEF commandVars, goroutines, pool, channels, ProtocolInv, OnceOK, TicketOK, VerdictOK
<1>2. ASSUME NEW c \in Commands, StepOf(c), NEW d \in Commands, c # d
      PROVE  OnceOK(d)' /\ TicketOK(d)' /\ VerdictOK(d)'
  <2>1. UNCHANGED <<run[d], timer[d], once[d], body[d], ticketChecked[d], ticket[d],
                    events[d], errChan[d], caller[d]>>
    BY <1>2, OthersSame, ZenonT(60)
  <2>2. OnceOK(d)'
    BY <2>1, ZenonT(60) DEF ProtocolInv, OnceOK
  <2>3. TicketOK(d)'
    BY <2>1, ZenonT(60) DEF ProtocolInv, TicketOK
  <2>4. VerdictOK(d)'
    BY <2>1, ZenonT(60) DEF ProtocolInv, VerdictOK
  <2> QED
    BY <2>2, <2>3, <2>4, ZenonT(60)
<1>3. ASSUME NEW c \in Commands, StepOf(c)
      PROVE  OnceOK(c)' /\ TicketOK(c)' /\ VerdictOK(c)'
  <2> USE DEF goroutines, pool, channels, ProtocolInv, CommandTypeOK
  <2>1. CASE GoC(c)
    <3>1. OnceOK(c)'
      BY <2>1, ZenonT(60) DEF GoC, OnceOK, TicketOK
    <3>2. TicketOK(c)'
      BY <2>1, ZenonT(60) DEF GoC, OnceOK, TicketOK
    <3>3. VerdictOK(c)'
      BY <2>1, ZenonT(60) DEF GoC, OnceOK, VerdictOK
    <3> QED
      BY <3>1, <3>2, <3>3, ZenonT(60)
  <2>2. CASE ShortCircuit(c)
    <3>1. OnceOK(c)'
      BY <2>2, ZenonT(60) DEF ShortCircuit, OnceOK, TicketOK
    <3>2. TicketOK(c)'
      BY <2>2, ZenonT(60) DEF ShortCircuit, OnceOK, TicketOK
    <3>3. VerdictOK(c)'
      BY <2>2, ZenonT(60) DEF ShortCircuit, OnceOK, VerdictOK
    <3> QED
      BY <3>1, <3>2, <3>3
  <2>3. CASE TakeTicket(c)
    <3>1. OnceOK(c)'
      BY <2>3, SMTT(60) DEF TakeTicket, OnceOK, TicketOK
    <3>2. TicketOK(c)'
      <4>1. /\ ticketChecked[c] = FALSE /\ ticket[c] = "nil" /\ body[c] \in {"none", "return"}
        BY <2>3, ZenonT(60) DEF TakeTicket, TicketOK, BodySteps
      <4>2. ticketChecked'[c] = TRUE /\ run'[c] \in {"running", "once"} /\ body' = body
        BY <2>3, ZenonT(60) DEF TakeTicket
      <4>3. ticket'[c] \in {"nil", "held"}
        BY <2>3, <4>1, ZenonT(60) DEF TakeTicket
      <4> QED
        BY <4>1, <4>2, <4>3, ZenonT(60) DEF TicketOK
    <3>3. VerdictOK(c)'
      BY <2>3 DEF TakeTicket, OnceOK, VerdictOK
    <3> QED
      BY <3>1, <3>2, <3>3
  <2>4. CASE RunReturns(c)
    <3>1. OnceOK(c)'
      BY <2>4 DEF RunReturns, OnceOK, TicketOK
    <3>2. TicketOK(c)'
      BY <2>4, ZenonT(60) DEF RunReturns, OnceOK, TicketOK
    <3>3. VerdictOK(c)'
      BY <2>4 DEF RunReturns, OnceOK, VerdictOK
    <3> QED
      BY <3>1, <3>2, <3>3
  <2>5. CASE SendDone(c)
    <3>1. OnceOK(c)'
      BY <2>5 DEF SendDone, OnceOK, TicketOK
    <3>2. TicketOK(c)'
      BY <2>5, ZenonT(60) DEF SendDone, OnceOK, TicketOK
    <3>3. VerdictOK(c)'
      BY <2>5, SMTT(60) DEF SendDone, OnceOK, VerdictOK
    <3> QED
      BY <3>1, <3>2, <3>3
  <2>6. CASE RunOnce(c)
    <3>1. OnceOK(c)'
      BY <2>6 DEF RunOnce, OnceOK, TicketOK
    <3>2. TicketOK(c)'
      BY <2>6 DEF RunOnce, OnceOK, TicketOK
    <3>3. VerdictOK(c)'
      BY <2>6 DEF RunOnce, OnceOK, VerdictOK
    <3> QED
      BY <3>1, <3>2, <3>3
  <2>7. CASE SelectFinished(c)
    <3>1. OnceOK(c)'
      BY <2>7, ZenonT(60) DEF SelectFinished, OnceOK, TicketOK
    <3>2. TicketOK(c)'
      BY <2>7, ZenonT(60) DEF SelectFinished, OnceOK, TicketOK
    <3>3. VerdictOK(c)'
      BY <2>7, ZenonT(60) DEF SelectFinished, OnceOK, VerdictOK
    <3> QED
      BY <3>1, <3>2, <3>3
  <2>8. CASE SelectExpired(c)
    <3>1. OnceOK(c)'
      BY <2>8, ZenonT(60) DEF SelectExpired, OnceOK, TicketOK
    <3>2. TicketOK(c)'
      BY <2>8, ZenonT(60) DEF SelectExpired, OnceOK, TicketOK
    <3>3. VerdictOK(c)'
      BY <2>8, SMTT(60) DEF SelectExpired, OnceOK, VerdictOK
    <3> QED
      BY <3>1, <3>2, <3>3
  <2>9. CASE TimerOnce(c)
    <3>1. OnceOK(c)'
      BY <2>9 DEF TimerOnce, OnceOK, TicketOK
    <3>2. TicketOK(c)'
      BY <2>9, ZenonT(60) DEF TimerOnce, OnceOK, TicketOK
    <3>3. VerdictOK(c)'
      BY <2>9, SMTT(60) DEF TimerOnce, OnceOK, VerdictOK
    <3> QED
      BY <3>1, <3>2, <3>3
  <2>10. CASE returnTicket(c)
    <3>1. OnceOK(c)'
      BY <2>10, ZenonT(60) DEF returnTicket, OnceOK, TicketOK
    <3>2. TicketOK(c)'
      BY <2>10 DEF returnTicket, OnceOK, TicketOK
    <3>3. VerdictOK(c)'
      BY <2>10, ZenonT(60) DEF returnTicket, OnceOK, VerdictOK
    <3> QED
      BY <3>1, <3>2, <3>3
  <2>11. CASE ReportSuccess(c)
    <3>1. OnceOK(c)'
      BY <2>11 DEF ReportSuccess, OnceOK, TicketOK
    <3>2. TicketOK(c)'
      <4>1. body[c] = "verdict" /\ body'[c] = "report" /\ UNCHANGED <<run, ticketChecked, ticket>>
        BY <2>11, ZenonT(60) DEF ReportSuccess
      <4> QED
        BY <4>1, ZenonT(60) DEF TicketOK
    <3>3. VerdictOK(c)'
      <4>1. events[c] = << >> /\ errChan[c] = 0 /\ caller[c] # "error"
        BY <2>11, ZenonT(60) DEF ReportSuccess, VerdictOK
      <4>2. events'[c] = <<"success">> /\ body'[c] = "report" /\ errChan' = errChan /\ caller' = caller
        BY <2>11, <4>1 DEF ReportSuccess
      <4>3. "success" \in Types /\ <<"success">> \in Outcome("success")
        BY ZenonT(60) DEF Types, Outcome
      <4> QED
        BY <4>1, <4>2, <4>3, SMTT(60) DEF VerdictOK
    <3> QED
      BY <3>1, <3>2, <3>3
  <2>12. CASE errorWithFallback(c)
    <3>1. OnceOK(c)'
      BY <2>12 DEF errorWithFallback, OnceOK, TicketOK
    <3>2. TicketOK(c)'
      <4>1. body[c] = "verdict" /\ body'[c] = "report" /\ UNCHANGED <<run, ticketChecked, ticket>>
        BY <2>12, ZenonT(60) DEF errorWithFallback
      <4> QED
        BY <4>1, ZenonT(60) DEF TicketOK
    <3>3. VerdictOK(c)'
      <4>1. events[c] = << >>
        BY <2>12, ZenonT(60) DEF errorWithFallback, VerdictOK
      <4>2. /\ events'[c] \in {<<Verdict(c)>>, <<Verdict(c), "fallback-failure">>,
                               <<Verdict(c), "fallback-success">>}
            /\ body'[c] = "report"
        BY <2>12, <4>1, SMTT(60) DEF errorWithFallback
      <4>3. Verdict(c) \in Types /\ Verdict(c) # "success"
        BY <2>12, SMTT(60) DEF errorWithFallback, Verdict
      <4>4. events'[c] \in Outcome(Verdict(c))
        BY <4>2, <4>3, SMTT(60) DEF Outcome
      <4> QED
        BY <4>2, <4>3, <4>4, SMTT(60) DEF VerdictOK
    <3> QED
      BY <3>1, <3>2, <3>3
  <2>13. CASE reportAllEvent(c)
    <3>1. OnceOK(c)'
      BY <2>13 DEF reportAllEvent, OnceOK, TicketOK
    <3>2. TicketOK(c)'
      <4>1. body[c] = "report" /\ body'[c] = "over" /\ UNCHANGED <<run, ticketChecked, ticket>>
        BY <2>13, ZenonT(60) DEF reportAllEvent
      <4> QED
        BY <4>1, ZenonT(60) DEF TicketOK
    <3>3. VerdictOK(c)'
      BY <2>13, ZenonT(60) DEF reportAllEvent, OnceOK, VerdictOK
    <3> QED
      BY <3>1, <3>2, <3>3
  <2>14. CASE DoReturns(c)
    <3>1. OnceOK(c)'
      BY <2>14, ZenonT(60) DEF DoReturns, OnceOK, TicketOK
    <3>2. TicketOK(c)'
      BY <2>14, SMTT(60) DEF DoReturns, OnceOK, TicketOK
    <3>3. VerdictOK(c)'
      BY <2>14 DEF DoReturns, OnceOK, VerdictOK
    <3> QED
      BY <3>1, <3>2, <3>3
  <2> QED
    BY <1>3, <2>1, <2>2, <2>3, <2>4, <2>5, <2>6, <2>7, <2>8, <2>9, <2>10, <2>11, <2>12,
       <2>13, <2>14, SMTT(60) DEF StepOf
<1> QED
  BY <1>1, <1>2, <1>3, StepCases, ZenonT(60) DEF ProtocolInv

\* A ticket leaves the pool for a command that has none, and comes back from the
\* command that has it.
LEMMA TicketStep ==
  ASSUME CommandTypeOK, ProtocolInv, TicketsConserved, [Next]_vars
  PROVE  TicketsConserved'
<1> DEFINE Held == {c \in Commands : ticket[c] = "held"}
<1>1. IsFiniteSet(Held)
  BY FS_Subset, CommandAssumption
<1>2. CASE UNCHANGED <<ticket, tickets>>
  BY <1>2, ZenonT(60) DEF TicketsConserved
<1>3. ASSUME NEW c \in Commands, TakeTicket(c), tickets > 0
      PROVE  TicketsConserved'
  <2>1. ticket[c] = "nil" /\ ticket \in [Commands -> {"nil", "held", "returned"}] /\ tickets \in Nat
    BY <1>3, SMTT(60) DEF TakeTicket, ProtocolInv, TicketOK, CommandTypeOK
  <2>2. tickets' = tickets - 1 /\ ticket' = [ticket EXCEPT ![c] = "held"]
    BY <1>3 DEF TakeTicket
  <2>3. Held' = Held \cup {c} /\ c \notin Held
    BY <2>1, <2>2, SMTT(60)
  <2>4. Cardinality(Held') = Cardinality(Held) + 1
    BY <1>1, <2>3, FS_AddElement
  <2>5. Cardinality(Held) \in Nat
    BY <1>1, FS_CardinalityType, ZenonT(60)
  <2> QED
    BY <2>1, <2>2, <2>4, <2>5, CommandAssumption, SMTT(60) DEF TicketsConserved
<1>4. ASSUME NEW c \in Commands, returnTicket(c), ticket[c] # "nil"
      PROVE  TicketsConserved'
  <2>1. ticket[c] = "held" /\ ticket \in [Commands -> {"nil", "held", "returned"}] /\ tickets \in Nat
    BY <1>4, ZenonT(60) DEF returnTicket, ProtocolInv, TicketOK, CommandTypeOK
  <2>2. tickets' = tickets + 1 /\ ticket' = [ticket EXCEPT ![c] = "returned"]
    BY <1>4 DEF returnTicket
  <2>3. Held' = Held \ {c} /\ c \in Held
    BY <2>1, <2>2
  <2>4. Cardinality(Held') = Cardinality(Held) - 1
    BY <1>1, <2>3, FS_RemoveElement, ZenonT(60)
  <2>5. Cardinality(Held) \in Nat
    BY <1>1, FS_CardinalityType
  <2> QED
    BY <2>1, <2>2, <2>4, <2>5, CommandAssumption, SMTT(60) DEF TicketsConserved
<1>5. ASSUME NEW c \in Commands, StepOf(c), ~UNCHANGED <<ticket, tickets>>
      PROVE  (TakeTicket(c) /\ tickets > 0) \/ (returnTicket(c) /\ ticket[c] # "nil")
  BY <1>5, ZenonT(60) DEF StepOf, pool, GoC, ShortCircuit, TakeTicket, RunReturns, SendDone, RunOnce,
              SelectFinished, SelectExpired, TimerOnce, returnTicket, ReportSuccess,
              errorWithFallback, reportAllEvent, DoReturns, CommandTypeOK
<1>6. UNCHANGED commandVars => UNCHANGED <<ticket, tickets>>
  BY DEF commandVars, pool
<1> QED
  BY <1>2, <1>3, <1>4, <1>5, <1>6, StepCases, ZenonT(60)

-----------------------------------------------------------------------------
(* The single test.                                                        *)

\* What happens to the circuit is one of its sections; a report is sent with the
\* event of the verdict.
LEMMA CircuitCases ==
  ASSUME CommandTypeOK, ProtocolInv, [Next]_vars
  PROVE  UNCHANGED circuitVars \/ CircuitStep
<1>1. ASSUME NEW c \in Commands, body[c] = "report"
      PROVE  events[c][1] \in Types
  BY <1>1, SMTT(60) DEF ProtocolInv, VerdictOK, Outcome
<1>2. ASSUME NEW c \in Commands, ReportAll(c) \/ reportAllEvent(c)
      PROVE  CircuitStep
  BY <1>1, <1>2 DEF ReportAll, reportAllEvent, CircuitStep
<1>3. ASSUME NEW c \in Commands, Allow(c)
      PROVE  CircuitStep
  BY <1>3 DEF Allow, CircuitStep
<1>4. CASE Background
  BY <1>4, SMTT(60) DEF Background, CircuitStep
<1>5. ASSUME NEW c \in Commands, StepOf(c), ~reportAllEvent(c)
      PROVE  UNCHANGED circuitVars
  BY <1>5, ZenonT(60) DEF StepOf, GoC, ShortCircuit, TakeTicket, RunReturns, SendDone, RunOnce,
              SelectFinished, SelectExpired, TimerOnce, returnTicket, ReportSuccess,
              errorWithFallback, DoReturns
<1> QED
  BY <1>2, <1>3, <1>4, <1>5, SMTT(60) DEF Next, vars, RunGoroutine, TimerGoroutine, Body, StepOf

-----------------------------------------------------------------------------
(* The theorems.                                                           *)

\* A new circuit and commands that were not called satisfy the invariant.
LEMMA HystrixInit == Init => HystrixInv
<1> SUFFICES ASSUME Init PROVE HystrixInv
  BY SMTT(60)
<1>1. CircuitTypeOK
  <2>1. open \in BOOLEAN /\ forceOpen \in BOOLEAN
    BY ZenonT(60) DEF Init, CircuitInit
  <2> QED
    BY <2>1, CircuitAssumption DEF Init, CircuitInit, CircuitTypeOK, Times, NoTest, NoTime, Positions
<1>2. CommandTypeOK
  BY CommandAssumption DEF Init, CommandTypeOK, RunSteps, BodySteps, Types, ErrorTypes
<1>3. ProtocolInv
  BY ZenonT(60) DEF Init, ProtocolInv, OnceOK, TicketOK, VerdictOK
<1>4. TestInv /\ OneTestPerWindow
  BY DEF Init, CircuitInit, TestInv, Passed, OneTestPerWindow, NoTest
<1>5. TicketsConserved
  <2>1. {c \in Commands : ticket[c] = "held"} = {}
    BY DEF Init
  <2> QED
    BY <2>1, FS_EmptySet, CommandAssumption DEF Init, TicketsConserved
<1> QED
  BY <1>1, <1>2, <1>3, <1>4, <1>5 DEF HystrixInv, TypeOK

\* The inductive invariant of the goroutines of GoC and DoC and of the circuit.
THEOREM HystrixInvariant == Spec => []HystrixInv
<1>1. ASSUME HystrixInv, [Next]_vars PROVE HystrixInv'
  <2>1. CommandTypeOK' /\ ProtocolInv' /\ TicketsConserved'
    BY <1>1, CommandTypes, ProtocolStep, TicketStep, SMTT(60) DEF HystrixInv, TypeOK
  <2>2. CASE UNCHANGED circuitVars
    BY <1>1, <2>1, <2>2, ZenonT(60) DEF HystrixInv, TypeOK, CircuitTypeOK, TestInv, Passed, OneTestPerWindow,
       circuitVars, flags, metrics, clock
  <2>3. CASE CircuitStep
    BY <1>1, <2>1, <2>3, CircuitTypes, TestStep DEF HystrixInv, TypeOK
  <2> QED
    BY <1>1, <2>2, <2>3, CircuitCases DEF HystrixInv, TypeOK
<1> QED
  BY HystrixInit, <1>1, PTL DEF Spec

\* The channels done, errChan, finished and Updates stay within their capacities,
\* and every other field keeps its type.
THEOREM HystrixTypes == Spec => []TypeOK
<1>1. HystrixInv => TypeOK
  BY DEF HystrixInv
<1> QED
  BY HystrixInvariant, <1>1, PTL

\* executorPool neither loses a ticket nor gets one back twice, for any number of
\* commands and tickets.
THEOREM NoTicketLost == Spec => []TicketsConserved
<1>1. HystrixInv => TicketsConserved
  BY SMTT(60) DEF HystrixInv
<1> QED
  BY HystrixInvariant, <1>1, PTL

\* returnTicket is through before errorWithFallback answers.
THEOREM TicketFirst == Spec => []TicketBeforeAnswer
<1>1. ASSUME HystrixInv, NEW c \in Commands, errChan[c] = 1 \/ caller[c] = "error"
      PROVE  ticketChecked[c] /\ ticket[c] # "held"
  <2>1. body[c] \in {"report", "over"}
    <3>1. VerdictOK(c)
      BY <1>1, ZenonT(60) DEF HystrixInv, ProtocolInv
    <3>2. body[c] \notin {"report", "over"} => errChan[c] = 0 /\ caller[c] # "error"
      BY <3>1, ZenonT(60) DEF VerdictOK
    <3>3. 0 # 1
      OBVIOUS
    <3> QED
      BY <1>1, <3>2, <3>3, ZenonT(60)
  <2> QED
    BY <1>1, <2>1, ZenonT(60) DEF HystrixInv, ProtocolInv, TicketOK
<1>2. HystrixInv => TicketBeforeAnswer
  BY <1>1, SMTT(60) DEF TicketBeforeAnswer
<1> QED
  BY HystrixInvariant, <1>2, PTL

\* The two goroutines of GoC give one verdict between them.
THEOREM VerdictOnce == Spec => []OneVerdict
<1>1. ASSUME HystrixInv, NEW c \in Commands, NEW t \in Types, events[c] \in Outcome(t)
      PROVE  /\ \A i \in DOMAIN events[c] : events[c][i] \in Types <=> i = 1
             /\ Len(events[c]) =< 2
             /\ events[c] # << >> /\ events[c][1] = t
             /\ t = "success" => Len(events[c]) = 1
  <2>1. "fallback-failure" \notin Types /\ "fallback-success" \notin Types
    BY DEF Types, ErrorTypes
  <2>2. CASE events[c] = <<t>>
    BY <2>2
  <2>3. CASE t # "success" /\ \E f \in {"fallback-failure", "fallback-success"} : events[c] = <<t, f>>
    BY <2>1, <2>3, SMTT(60)
  <2> QED
    BY <1>1, <2>2, <2>3, ZenonT(60) DEF Outcome
<1>2. HystrixInv => OneVerdict
  BY <1>1 DEF HystrixInv, ProtocolInv, VerdictOK, OneVerdict
<1> QED
  BY HystrixInvariant, <1>2, PTL

\* The compare-and-swap of allowSingleTest admits one command per window, however
\* many come at once.
THEOREM SingleTest == Spec => []OneTestPerWindow
<1>1. HystrixInv => OneTestPerWindow
  BY DEF HystrixInv
<1> QED
  BY HystrixInvariant, <1>1, PTL
=============================================================================
