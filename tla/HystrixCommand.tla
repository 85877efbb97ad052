--------------------------- MODULE HystrixCommand ---------------------------
(***************************************************************************)
(* Commands of hystrix-go: hystrix/hystrix.go (Do, DoC, Go, GoC) with the  *)
(* ticket pool of pool.go, over the circuit of HystrixCircuit.             *)
(*                                                                         *)
(* GoC starts two goroutines. One asks the circuit, takes a ticket and     *)
(* runs the caller's function; the other waits for it, for the time-out or *)
(* for the context. Whichever is first through returnOnce gives the        *)
(* verdict: it returns the ticket, calls the fallback and reports. The     *)
(* steps inside returnOnce.Do are the same for both and are stated once,   *)
(* for the goroutine that won; body[c] says how far they are.              *)
(***************************************************************************)
EXTENDS HystrixCircuit

CONSTANTS
    MaxConcurrentRequests,
    Fallbacks,      \* the commands that have a fallback
    Sync,           \* the commands called by Do or DoC, the others by Go or GoC
    Contexts        \* the commands called by DoC or GoC with a context that may end;
                    \* Do and Go use context.Background()

ASSUME CommandAssumption ==
    MaxConcurrentRequests \in Nat /\ IsFiniteSet(Commands)

VARIABLES
    run,            \* the goroutine that runs the function
    timer,          \* the goroutine that waits for it
    runErr,         \* what the first one brings to returnOnce
    timerErr,       \* what the second one brings to it (both reset when not needed)
    once,           \* returnOnce: "free", the goroutine inside, or "over"
    body,           \* the steps inside returnOnce.Do
    ticketChecked,
    ticket,         \* cmd.ticket: nil, held, or given back (the pointer stays)
    tickets,        \* how many tickets executorPool.Tickets holds
    events,         \* cmd.events
    errChan,        \* how many errors are in cmd.errChan, of capacity 1
    done,           \* how many tokens are in DoC's done, of capacity 1
    finished,       \* how many tokens are in cmd.finished, of capacity 1
    caller          \* the goroutine that called Do or DoC

goroutines == <<run, timer, runErr, timerErr>>
pool == <<ticketChecked, ticket, tickets>>
channels == <<errChan, done, finished>>
commandVars == <<goroutines, once, body, pool, events, channels, caller>>
vars == <<circuitVars, commandVars>>

RunSteps == {"idle", "allow", "running", "done", "once", "ended"}
BodySteps == {"none", "return", "verdict", "report", "over"}
EventNames == Types \cup {"fallback-success", "fallback-failure"}

CommandTypeOK ==
    /\ run \in [Commands -> RunSteps]
    /\ timer \in [Commands -> {"idle", "select", "once", "ended"}]
    /\ runErr \in [Commands -> Types] /\ timerErr \in [Commands -> Types]
    /\ once \in [Commands -> {"free", "run", "timer", "over"}]
    /\ body \in [Commands -> BodySteps]
    /\ ticketChecked \in [Commands -> BOOLEAN]
    /\ ticket \in [Commands -> {"nil", "held", "returned"}]
    /\ tickets \in Nat
    /\ events \in [Commands -> Seq(EventNames)]
    /\ errChan \in [Commands -> 0 .. 1] /\ done \in [Commands -> 0 .. 1]
    /\ finished \in [Commands -> 0 .. 1]
    /\ caller \in [Commands -> {"out", "waiting", "nil", "error"}]

TypeOK == CircuitTypeOK /\ CommandTypeOK

Init ==
    /\ CircuitInit
    /\ run = [c \in Commands |-> "idle"] /\ timer = [c \in Commands |-> "idle"]
    /\ runErr = [c \in Commands |-> "success"]
    /\ timerErr = [c \in Commands |-> "timeout"]
    /\ once = [c \in Commands |-> "free"] /\ body = [c \in Commands |-> "none"]
    /\ ticketChecked = [c \in Commands |-> FALSE] /\ ticket = [c \in Commands |-> "nil"]
    /\ tickets = MaxConcurrentRequests
    /\ events = [c \in Commands |-> << >>]
    /\ errChan = [c \in Commands |-> 0] /\ done = [c \in Commands |-> 0]
    /\ finished = [c \in Commands |-> 0]
    /\ caller = [c \in Commands |-> "out"]

-----------------------------------------------------------------------------
(* The goroutine that runs the function.                                   *)

GoC(c) ==
    /\ run[c] = "idle"
    /\ run' = [run EXCEPT ![c] = "allow"]
    /\ timer' = [timer EXCEPT ![c] = "select"]
    /\ caller' = [caller EXCEPT ![c] = IF c \in Sync THEN "waiting" ELSE "out"]
    /\ UNCHANGED <<circuitVars, runErr, timerErr, once, body, pool, events, channels>>

Allow(c) ==
    /\ run[c] = "allow"
    /\ AllowRequest(c)
    /\ UNCHANGED commandVars

\* Mutant: the other goroutine is not told that no ticket will be taken.
ShortCircuitSilent(c) ==
    /\ run[c] = "allow" /\ call[c] = "refused"
    /\ runErr' = [runErr EXCEPT ![c] = "short-circuit"]
    /\ run' = [run EXCEPT ![c] = "once"]
    /\ UNCHANGED <<circuitVars, timer, timerErr, once, body, pool, events, channels,
                   caller>>

\* The circuit refused: the other goroutine may go ahead with a nil ticket.
ShortCircuit(c) ==
    /\ run[c] = "allow" /\ call[c] = "refused"
    /\ ticketChecked' = [ticketChecked EXCEPT ![c] = TRUE]
    /\ runErr' = [runErr EXCEPT ![c] = "short-circuit"]
    /\ run' = [run EXCEPT ![c] = "once"]
    /\ UNCHANGED <<circuitVars, timer, timerErr, once, body, ticket, tickets, events,
                   channels, caller>>

\* The select on executorPool.Tickets has a default: no ticket, no waiting.
TakeTicket(c) ==
    /\ run[c] = "allow" /\ call[c] = "allowed"
    /\ ticketChecked' = [ticketChecked EXCEPT ![c] = TRUE]
    /\ \/ /\ tickets > 0
          /\ tickets' = tickets - 1
          /\ ticket' = [ticket EXCEPT ![c] = "held"]
          /\ run' = [run EXCEPT ![c] = "running"]
          /\ UNCHANGED runErr
       \/ /\ tickets = 0
          /\ runErr' = [runErr EXCEPT ![c] = "rejected"]
          /\ run' = [run EXCEPT ![c] = "once"]
          /\ UNCHANGED <<ticket, tickets>>
    /\ UNCHANGED <<circuitVars, timer, timerErr, once, body, events, channels, caller>>

\* The caller's function returns, or never does; its error may be that of the
\* context. DoC's wrapper sends to done before it returns nil.
RunReturns(c) ==
    /\ run[c] = "running"
    /\ \E err \in {"success", "failure", "context"} :
        /\ runErr' = [runErr EXCEPT ![c] = err]
        /\ run' = [run EXCEPT ![c] = IF err = "success" /\ c \in Sync THEN "done" ELSE "once"]
    /\ UNCHANGED <<circuitVars, timer, timerErr, once, body, pool, events, channels,
                   caller>>

SendDone(c) ==
    /\ run[c] = "done" /\ done[c] = 0
    /\ done' = [done EXCEPT ![c] = 1]
    /\ run' = [run EXCEPT ![c] = "once"]
    /\ UNCHANGED <<circuitVars, timer, runErr, timerErr, once, body, pool, events,
                   errChan, finished, caller>>

\* Mutant: the goroutine that comes second gives its verdict too.
RunOnceTwice(c) ==
    /\ run[c] = "once" /\ once[c] \in {"free", "over"}
    /\ once' = [once EXCEPT ![c] = "run"]
    /\ body' = [body EXCEPT ![c] = "return"]
    /\ UNCHANGED <<circuitVars, goroutines, pool, events, channels, caller>>

\* returnOnce.Do waits for a Do that is under way and skips one that is over.
\* After it the goroutine ends with the deferred send to cmd.finished.
RunOnce(c) ==
    /\ run[c] = "once"
    /\ \/ /\ once[c] = "free"
          /\ once' = [once EXCEPT ![c] = "run"]
          /\ body' = [body EXCEPT ![c] = "return"]
          /\ UNCHANGED <<run, runErr, finished>>
       \/ /\ once[c] = "over" /\ finished[c] = 0
          /\ finished' = [finished EXCEPT ![c] = 1]
          /\ run' = [run EXCEPT ![c] = "ended"]
          /\ runErr' = [runErr EXCEPT ![c] = "success"]
          /\ UNCHANGED <<once, body>>
    /\ UNCHANGED <<circuitVars, timer, timerErr, pool, events, errChan, done, caller>>

-----------------------------------------------------------------------------
(* The goroutine that waits.                                               *)

SelectFinished(c) ==
    /\ timer[c] = "select" /\ finished[c] = 1
    /\ finished' = [finished EXCEPT ![c] = 0]
    /\ timer' = [timer EXCEPT ![c] = "ended"]
    /\ UNCHANGED <<circuitVars, run, runErr, timerErr, once, body, pool, events,
                   errChan, done, caller>>

\* The timer fires, or the context ends.
SelectExpired(c) ==
    /\ timer[c] = "select"
    /\ \E err \in {"timeout", "context"} :
        /\ err = "context" => c \in Contexts
        /\ timerErr' = [timerErr EXCEPT ![c] = err]
    /\ timer' = [timer EXCEPT ![c] = "once"]
    /\ UNCHANGED <<circuitVars, run, runErr, once, body, pool, events, channels, caller>>

\* Mutant: a time-out after the verdict calls the fallback all the same.
TimerOnceAgain(c) ==
    /\ timer[c] = "once" /\ once[c] \in {"free", "over"}
    /\ once' = [once EXCEPT ![c] = "timer"]
    /\ body' = [body EXCEPT ![c] = IF once[c] = "free" THEN "return" ELSE "verdict"]
    /\ UNCHANGED <<circuitVars, goroutines, pool, events, channels, caller>>

TimerOnce(c) ==
    /\ timer[c] = "once"
    /\ \/ /\ once[c] = "free"
          /\ once' = [once EXCEPT ![c] = "timer"]
          /\ body' = [body EXCEPT ![c] = "return"]
          /\ UNCHANGED <<timer, timerErr>>
       \/ /\ once[c] = "over"
          /\ timer' = [timer EXCEPT ![c] = "ended"]
          /\ timerErr' = [timerErr EXCEPT ![c] = "timeout"]
          /\ UNCHANGED <<once, body>>
    /\ UNCHANGED <<circuitVars, run, runErr, pool, events, channels, caller>>

-----------------------------------------------------------------------------
(* Inside returnOnce.Do.                                                   *)

\* The error of the winner, which is "success" for a run without one.
Verdict(c) == IF once[c] = "run" THEN runErr[c] ELSE timerErr[c]

\* Mutant: nobody waits until the ticket was asked for.
returnTicketEarly(c) ==
    /\ body[c] = "return"
    /\ IF ticket[c] = "nil" THEN UNCHANGED <<tickets, ticket>>
       ELSE /\ tickets' = tickets + 1
            /\ ticket' = [ticket EXCEPT ![c] = "returned"]
    /\ body' = [body EXCEPT ![c] = "verdict"]
    /\ UNCHANGED <<circuitVars, goroutines, once, ticketChecked, events, channels, caller>>

\* returnTicket waits until the ticket was asked for; Return ignores a nil one.
returnTicket(c) ==
    /\ body[c] = "return" /\ ticketChecked[c]
    /\ IF ticket[c] = "nil" THEN UNCHANGED <<tickets, ticket>>
       ELSE /\ tickets' = tickets + 1
            /\ ticket' = [ticket EXCEPT ![c] = "returned"]
    /\ body' = [body EXCEPT ![c] = "verdict"]
    /\ UNCHANGED <<circuitVars, goroutines, once, ticketChecked, events, channels, caller>>

\* A run without error is a "success" event.
ReportSuccess(c) ==
    /\ body[c] = "verdict" /\ Verdict(c) = "success"
    /\ events' = [events EXCEPT ![c] = Append(@, "success")]
    /\ body' = [body EXCEPT ![c] = "report"]
    /\ UNCHANGED <<circuitVars, goroutines, once, pool, channels, caller>>

\* The event of the error, then tryFallback: without a fallback the error itself
\* goes to errChan. DoC's wrapper of a fallback that succeeds sends to done.
errorWithFallback(c) ==
    /\ body[c] = "verdict" /\ Verdict(c) # "success"
    /\ \/ /\ c \notin Fallbacks
          /\ events' = [events EXCEPT ![c] = Append(@, Verdict(c))]
          /\ errChan[c] = 0 /\ errChan' = [errChan EXCEPT ![c] = 1]
          /\ UNCHANGED done
       \/ /\ c \in Fallbacks
          /\ events' = [events EXCEPT ![c] = @ \o <<Verdict(c), "fallback-failure">>]
          /\ errChan[c] = 0 /\ errChan' = [errChan EXCEPT ![c] = 1]
          /\ UNCHANGED done
       \/ /\ c \in Fallbacks
          /\ events' = [events EXCEPT ![c] = @ \o <<Verdict(c), "fallback-success">>]
          /\ c \in Sync => done[c] = 0
          /\ done' = [done EXCEPT ![c] = IF c \in Sync THEN 1 ELSE 0]
          /\ UNCHANGED errChan
    /\ body' = [body EXCEPT ![c] = "report"]
    /\ UNCHANGED <<circuitVars, goroutines, once, pool, finished, caller>>

\* reportAllEvent: the sections of ReportEvent; the last one ends returnOnce.Do.
ReportAll(c) ==
    /\ body[c] = "report"
    /\ ReportRead(c, events[c][1]) \/ setClose(c)
    /\ UNCHANGED commandVars

reportAllEvent(c) ==
    /\ body[c] = "report"
    /\ ReportSend(c, events[c][1])
    /\ body' = [body EXCEPT ![c] = "over"]
    /\ once' = [once EXCEPT ![c] = "over"]
    /\ UNCHANGED <<goroutines, pool, events, channels, caller>>

-----------------------------------------------------------------------------
(* DoC waits for done or for an error.                                     *)

DoReturns(c) ==
    /\ caller[c] = "waiting"
    /\ \/ /\ done[c] = 1 /\ done' = [done EXCEPT ![c] = 0]
          /\ caller' = [caller EXCEPT ![c] = "nil"]
          /\ UNCHANGED errChan
       \/ /\ errChan[c] = 1 /\ errChan' = [errChan EXCEPT ![c] = 0]
          /\ caller' = [caller EXCEPT ![c] = "error"]
          /\ UNCHANGED done
    /\ UNCHANGED <<circuitVars, goroutines, once, body, pool, events, finished>>

RunGoroutine(c) ==
    Allow(c) \/ ShortCircuit(c) \/ TakeTicket(c) \/ SendDone(c) \/ RunOnce(c)
TimerGoroutine(c) == SelectFinished(c) \/ SelectExpired(c) \/ TimerOnce(c)
Body(c) ==
    returnTicket(c) \/ ReportSuccess(c) \/ errorWithFallback(c) \/ ReportAll(c)
        \/ reportAllEvent(c)
Background == (Monitor \/ toggleForceOpen \/ Tick) /\ UNCHANGED commandVars

Next ==
    \/ \E c \in Commands :
        GoC(c) \/ RunGoroutine(c) \/ RunReturns(c) \/ TimerGoroutine(c) \/ Body(c)
            \/ DoReturns(c)
    \/ Background

Spec == Init /\ [][Next]_vars

-----------------------------------------------------------------------------
(* Properties.                                                             *)

\* Every ticket is in the pool or with one command, whichever goroutine returns
\* it and however the time-out races with taking it: none is returned twice, so
\* the pool never admits more than it should and the send in
\* executorPool.Return never blocks.
TicketsConserved ==
    tickets + Cardinality({c \in Commands : ticket[c] = "held"}) = MaxConcurrentRequests

\* When the caller can take an error from errChan, or has, the ticket is back in
\* the pool and the command will not ask for one (the comment above
\* returnTicket in GoC).
TicketBeforeAnswer ==
    \A c \in Commands :
        errChan[c] = 1 \/ caller[c] = "error" => ticketChecked[c] /\ ticket[c] # "held"

\* A command has one verdict although two goroutines reach for it: its event
\* comes first, the fallback runs at most once and only after an error, and a
\* success is reported only by a command that sent no error.
OneVerdict ==
    \A c \in Commands :
        /\ \A i \in DOMAIN events[c] : events[c][i] \in Types <=> i = 1
        /\ Len(events[c]) =< 2
        /\ events[c] # << >> /\ events[c][1] = "success" =>
            /\ Len(events[c]) = 1
            /\ errChan[c] = 0 /\ caller[c] # "error"

\* Nothing can go on except that time passes or the caller's function returns.
Quiet ==
    /\ updates = << >> /\ counting = "none"
    /\ \A c \in Commands :
        ~ENABLED (RunGoroutine(c) \/ TimerGoroutine(c) \/ Body(c) \/ DoReturns(c))

\* Where the goroutines can go no further, every command that was started has
\* its verdict and no ticket, although its function may never return, Do has
\* returned, and a command whose function did return or was never called has
\* left no goroutine behind: not on a full channel (done, errChan, finished), not in returnOnce,
\* not waiting for ticketChecked. Every step of a command is taken once, so this
\* is what the goroutines come to when each of them keeps running.
EndsWell ==
    Quiet => \A c \in Commands :
        run[c] # "idle" =>
            /\ once[c] = "over" /\ caller[c] # "waiting" /\ timer[c] = "ended"
            /\ run[c] \in {"running", "ended"} /\ ticket[c] # "held"
=============================================================================
