--------------------------- MODULE HystrixCircuit ---------------------------
(***************************************************************************)
(* The circuit breaker of hystrix-go: hystrix/circuit.go, with the metrics *)
(* it decides by (metrics.go, metric_collector, rolling/rolling.go).       *)
(* AllowRequest and ReportEvent are made of several lock sections; each    *)
(* one is an action here, and call[c] says where command c is in them.     *)
(* The goroutines that call them are in HystrixCommand.                    *)
(***************************************************************************)
EXTENDS Integers, Sequences, FiniteSets, Functions

CONSTANTS
    Commands,               \* executions of one named command
    VolumeThreshold,        \* RequestVolumeThreshold
    ErrorPercentThreshold,
    SleepWindow,            \* in ticks of the clock
    Window,                 \* length of the rolling window, 10 seconds in the code
    UpdatesCap,             \* capacity of metrics.Updates, 2000 in the code
    MaxTime,                \* bound on the clock
    MaxToggles              \* bound on the calls of toggleForceOpen

ASSUME CircuitAssumption ==
    {SleepWindow, Window, UpdatesCap, MaxTime, MaxToggles} \subseteq Nat

VARIABLES
    now,                    \* the clock, in seconds
    open, forceOpen,
    openedOrLastTestedTime,
    requests, errors,       \* the rolling numbers: second -> count
    updates,                \* the channel metrics.Updates: first events of executions
    counting,               \* the execution Monitor is recording, or "none"
    call,                   \* where a command is in a method of the circuit
    test,                   \* locals of allowSingleTest: now, and the time it loaded,
                            \* which is kept for a command that passed
    toggles                 \* how often toggleForceOpen was called

flags == <<open, forceOpen, openedOrLastTestedTime>>
metrics == <<requests, errors, updates, counting>>
clock == <<now, toggles>>
circuitVars == <<flags, metrics, clock, call, test>>

Times == 0 .. MaxTime
NoTime == -1
NoTest == [stamp |-> 0, seen |-> NoTime]

\* The first event of an execution, which decides how it is counted. The two
\* events of an ended context are counted alike and are one here.
ErrorTypes == {"failure", "rejected", "short-circuit", "timeout"}
Types == ErrorTypes \cup {"success", "context"}

Positions == {"none", "volume", "health", "setOpen", "test", "load", "swap",
              "allowed", "refused", "close", "enqueue", "reported"}

CircuitTypeOK ==
    /\ now \in Times
    /\ open \in BOOLEAN /\ forceOpen \in BOOLEAN
    /\ openedOrLastTestedTime \in Times
    /\ requests \in [Times -> Nat] /\ errors \in [Times -> Nat]
    /\ updates \in Seq(Types) /\ Len(updates) =< UpdatesCap
    /\ counting \in Types \cup {"none"}
    /\ call \in [Commands -> Positions]
    /\ test \in [Commands -> [stamp : Times, seen : Times \cup {NoTime}]]
    /\ toggles \in 0 .. MaxToggles

\* The circuit is new, or earlier commands opened it and their counts have left
\* the window since.
CircuitInit ==
    /\ now = 0
    /\ open \in BOOLEAN /\ forceOpen = FALSE
    /\ openedOrLastTestedTime = 0
    /\ requests = [t \in Times |-> 0] /\ errors = [t \in Times |-> 0]
    /\ updates = << >> /\ counting = "none"
    /\ call = [c \in Commands |-> "none"]
    /\ test = [c \in Commands |-> NoTest]
    /\ toggles = 0

-----------------------------------------------------------------------------
(* Rolling numbers and health.                                             *)

\* Increment: nothing at all for 0, else the current bucket grows and the
\* buckets of Window seconds ago and older are deleted.
Increment(buckets, i) ==
    IF i = 0 THEN buckets
    ELSE [t \in Times |-> CASE t = now -> buckets[t] + i
                            [] t + Window <= now -> 0
                            [] OTHER -> buckets[t]]

\* Sum still counts a bucket of exactly Window seconds ago.
Sum(buckets) ==
    FoldFunctionOnSet(LAMBDA a, b : a + b, 0, buckets, {t \in Times : t >= now - Window})

\* int(errPct + 0.5)
ErrorPercent ==
    LET reqs == Sum(requests)
    IN  IF reqs > 0 THEN (200 * Sum(errors) + reqs) \div (2 * reqs) ELSE 0

IsHealthy == ErrorPercent < ErrorPercentThreshold

-----------------------------------------------------------------------------
(* AllowRequest == !IsOpen() || allowSingleTest()                          *)

Goto(c, position) == call' = [call EXCEPT ![c] = position]

\* A reader of circuit.mutex: setOpen and setClose wait for it.
ReadLocked == \E c \in Commands : call[c] \in {"load", "swap"}

\* IsOpen: the two flags, under the read lock.
IsOpen(c) ==
    /\ call[c] = "none"
    /\ Goto(c, IF forceOpen \/ open THEN "test" ELSE "volume")
    /\ UNCHANGED <<clock, flags, metrics, test>>

\* Too few requests to judge by: the circuit counts as closed.
CheckVolume(c) ==
    /\ call[c] = "volume"
    /\ Goto(c, IF Sum(requests) < VolumeThreshold THEN "allowed" ELSE "health")
    /\ UNCHANGED <<clock, flags, metrics, test>>

CheckHealth(c) ==
    /\ call[c] = "health"
    /\ Goto(c, IF IsHealthy THEN "allowed" ELSE "setOpen")
    /\ UNCHANGED <<clock, flags, metrics, test>>

setOpen(c) ==
    /\ call[c] = "setOpen"
    /\ ~ReadLocked
    /\ open' = TRUE
    /\ openedOrLastTestedTime' = IF open THEN openedOrLastTestedTime ELSE now
    /\ Goto(c, "test")
    /\ UNCHANGED <<clock, forceOpen, metrics, test>>

\* allowSingleTest reads the clock, then loads the time, then compares and
\* swaps, all under the read lock, which other tests share.
TestNow(c) ==
    /\ call[c] = "test"
    /\ test' = [test EXCEPT ![c].stamp = now]
    /\ Goto(c, "load")
    /\ UNCHANGED <<clock, flags, metrics>>

TestLoad(c) ==
    /\ call[c] = "load"
    /\ IF open /\ test[c].stamp > openedOrLastTestedTime + SleepWindow
       THEN /\ test' = [test EXCEPT ![c].seen = openedOrLastTestedTime]
            /\ Goto(c, "swap")
       ELSE /\ test' = [test EXCEPT ![c] = NoTest]
            /\ Goto(c, "refused")
    /\ UNCHANGED <<clock, flags, metrics>>

\* Mutant: the swap is a plain store.
TestSwapStore(c) ==
    /\ call[c] = "swap"
    /\ openedOrLastTestedTime' = test[c].stamp
    /\ test' = [test EXCEPT ![c].stamp = 0]
    /\ Goto(c, "allowed")
    /\ UNCHANGED <<clock, open, forceOpen, metrics>>

TestSwap(c) ==
    /\ call[c] = "swap"
    /\ \/ /\ openedOrLastTestedTime = test[c].seen
          /\ openedOrLastTestedTime' = test[c].stamp
          /\ test' = [test EXCEPT ![c].stamp = 0]
          /\ Goto(c, "allowed")
       \/ /\ openedOrLastTestedTime # test[c].seen
          /\ test' = [test EXCEPT ![c] = NoTest]
          /\ Goto(c, "refused")
          /\ UNCHANGED openedOrLastTestedTime
    /\ UNCHANGED <<clock, open, forceOpen, metrics>>

-----------------------------------------------------------------------------
(* ReportEvent and what becomes of the report.                             *)

\* A success reported while the circuit is open closes it, whichever command
\* it is from.
ReportRead(c, type) ==
    /\ call[c] \in {"allowed", "refused"}
    /\ Goto(c, IF type = "success" /\ open THEN "close" ELSE "enqueue")
    /\ UNCHANGED <<clock, flags, metrics, test>>

\* setClose and the metrics.Reset in it, which waits for Monitor.
setClose(c) ==
    /\ call[c] = "close"
    /\ ~ReadLocked
    /\ open => counting = "none"
    /\ open' = FALSE
    /\ requests' = IF open THEN [t \in Times |-> 0] ELSE requests
    /\ errors' = IF open THEN [t \in Times |-> 0] ELSE errors
    /\ Goto(c, "enqueue")
    /\ UNCHANGED <<clock, forceOpen, openedOrLastTestedTime, updates, counting, test>>

\* Mutant: the send does not look at the capacity.
ReportSendAlways(c, type) ==
    /\ call[c] = "enqueue"
    /\ updates' = Append(updates, type)
    /\ Goto(c, "reported")
    /\ UNCHANGED <<clock, flags, requests, errors, counting, test>>

\* The send to metrics.Updates gives up when the channel is full.
ReportSend(c, type) ==
    /\ call[c] = "enqueue"
    /\ updates' = IF Len(updates) < UpdatesCap THEN Append(updates, type) ELSE updates
    /\ Goto(c, "reported")
    /\ UNCHANGED <<clock, flags, requests, errors, counting, test>>

\* metrics.Monitor: the collector counts the attempt, then the error if it is one.
MonitorAttempt ==
    /\ updates # << >> /\ counting = "none"
    /\ counting' = Head(updates)
    /\ updates' = Tail(updates)
    /\ requests' = Increment(requests, 1)
    /\ UNCHANGED <<clock, flags, errors, call, test>>

MonitorError ==
    /\ counting # "none"
    /\ errors' = Increment(errors, IF counting \in ErrorTypes THEN 1 ELSE 0)
    /\ counting' = "none"
    /\ UNCHANGED <<clock, flags, requests, updates, call, test>>

\* toggleForceOpen writes the flag without the lock.
toggleForceOpen ==
    /\ toggles < MaxToggles
    /\ forceOpen' = ~forceOpen
    /\ toggles' = toggles + 1
    /\ UNCHANGED <<now, open, openedOrLastTestedTime, metrics, call, test>>

Tick ==
    /\ now < MaxTime
    /\ now' = now + 1
    /\ UNCHANGED <<flags, metrics, call, test, toggles>>

AllowRequest(c) ==
    IsOpen(c) \/ CheckVolume(c) \/ CheckHealth(c) \/ setOpen(c)
        \/ TestNow(c) \/ TestLoad(c) \/ TestSwap(c)

Monitor == MonitorAttempt \/ MonitorError

-----------------------------------------------------------------------------
\* allowSingleTest lets one command through for each time the circuit was opened
\* or last tested: commands that compare and swap at once do not all pass.
OneTestPerWindow ==
    \A c, d \in Commands :
        /\ c # d
        /\ call[c] \notin {"swap"} /\ test[c].seen # NoTime
        /\ call[d] \notin {"swap"}
        => test[c].seen # test[d].seen
=============================================================================
