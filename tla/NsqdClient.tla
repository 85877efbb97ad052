------------------------------ MODULE NsqdClient ------------------------------
(***************************************************************************)
(* Flow control between one consumer and the channel it subscribed to.     *)
(*                                                                         *)
(* A consumer says with RDY n how many messages it accepts at once.  Its   *)
(* messagePump goroutine decides at the top of its loop, from three values *)
(* that other goroutines store atomically (the channel's paused flag,      *)
(* ReadyCount and InFlightCount), whether its select may take messages.    *)
(* Whoever stores one of them then tries to put a token into               *)
(* ReadyStateChan, a Go channel with a buffer of one, to wake the pump.    *)
(*                                                                         *)
(* A store and the send that follows it are two steps, and the pump reads  *)
(* the three values in three steps.  Messages are counted, not named: what *)
(* happens to each of them is the subject of NsqdChannel.                  *)
(***************************************************************************)
EXTENDS Integers

CONSTANTS
    MaxRdyCount, \* option MaxRdyCount of nsqd
    MaxMsgs,     \* bound: messages queued, in hand and in flight together
    MaxEmpty,    \* bound: calls of Channel.Empty
    MaxFaults,   \* bound: failing puts of a requeued message
    Pausers,     \* goroutines of the HTTP API that pause or unpause the channel
    Sampled      \* the consumer identified with a sample rate

ASSUME ClientConstants ==
    /\ MaxRdyCount \in Nat \ {0}
    /\ MaxMsgs \in Nat
    /\ MaxEmpty \in Nat
    /\ MaxFaults \in Nat
    /\ Sampled \in BOOLEAN

VARIABLES
    ReadyCount,     \* clientV2.ReadyCount
    InFlightCount,  \* clientV2.InFlightCount
    State,          \* clientV2.State
    joined,         \* the client is in the channel's clients map
    readyStateChan, \* tokens in ReadyStateChan
    subEventChan,   \* the channel waits in SubEventChan
    paused,         \* Channel.paused
    depth,          \* messages in memoryMsgChan and the backend
    outstanding,    \* messages of inFlightMessages that have this clientID
    pump,           \* where messagePump stands
    subChannel,     \* messagePump: subChannel # nil
    readyCount,     \* IsReadyForMessages: the ReadyCount it has read
    flushed,        \* messagePump: nothing is left in the write buffer
    io,             \* where IOLoop stands
    scan,           \* where processInFlightQueue stands with one message
    pauser,         \* where each caller of doPause stands
    emptier,        \* where the caller of Channel.Empty stands, under c.Lock
    empties,        \* calls of Channel.Empty so far
    faults,         \* failing puts so far
    resent,         \* some message was delivered and came back to the queue
    maxRdy,         \* history: the largest ReadyCount so far
    late            \* history: messages taken since readiness last changed

counts == <<ReadyCount, InFlightCount, maxRdy, late>>
session == <<State, joined>>
chans == <<readyStateChan, subEventChan>>
queue == <<depth, outstanding, resent, faults>>
pumpVars == <<pump, subChannel, readyCount, flushed>>
admin == <<paused, pauser, emptier, empties>>
vars == <<counts, session, chans, queue, pumpVars, io, scan, admin>>

Init ==
    /\ ReadyCount = 0 /\ InFlightCount = 0 /\ maxRdy = 0 /\ late = 0
    /\ State = "init" /\ joined = FALSE
    /\ readyStateChan = 0 /\ subEventChan = FALSE
    /\ depth = 0 /\ outstanding = 0 /\ resent = FALSE /\ faults = 0
    /\ pump = "top" /\ subChannel = FALSE /\ readyCount = 0 /\ flushed = TRUE
    /\ io = "idle" /\ scan = "idle"
    /\ paused \in BOOLEAN /\ pauser = [p \in Pausers |-> "idle"]
    /\ emptier = "idle" /\ empties = 0

-----------------------------------------------------------------------------
(* The values that decide, and the token that announces a change.          *)

(* What IsReadyForMessages would answer if it read everything at once.     *)
ReadyWith(inFlight) ==
    /\ ~paused
    /\ inFlight < ReadyCount
    /\ ReadyCount > 0
IsReadyForMessages == ReadyWith(InFlightCount)

(* A send to a full channel takes the default branch.                      *)
tryUpdateReadyStateNoDefault == readyStateChan' = readyStateChan + 1
tryUpdateReadyStateUnbuffered ==
    readyStateChan' = IF pump \in {"off", "on"} THEN 1 ELSE readyStateChan
tryUpdateReadyState == readyStateChan' = 1

(* ReadyCount is swapped; no token is sent when it was n already.          *)
SetReadyCount(n, next, signal) ==
    /\ ReadyCount' = n
    /\ maxRdy' = IF n > maxRdy THEN n ELSE maxRdy
    /\ late' = IF n = ReadyCount THEN late ELSE 0
    /\ io' = IF n = ReadyCount THEN next ELSE signal

(* A message of this client is no longer in flight.                        *)
Uncount ==
    /\ InFlightCount' = InFlightCount - 1
    /\ late' = IF ReadyWith(InFlightCount - 1) THEN 0 ELSE late
    /\ UNCHANGED <<ReadyCount, maxRdy>>

-----------------------------------------------------------------------------
(* messagePump: the top of the loop.                                       *)

(* No subscription, or the channel is paused: no messages this round.      *)
PumpTopPaused ==
    /\ pump = "top"
    /\ pump' = IF ~subChannel THEN "flush" ELSE "rdy"
    /\ UNCHANGED <<counts, session, chans, queue, subChannel, readyCount,
                   flushed, io, scan, admin>>
PumpTop ==
    /\ pump = "top"
    /\ pump' = IF ~subChannel \/ paused THEN "flush" ELSE "rdy"
    /\ UNCHANGED <<counts, session, chans, queue, subChannel, readyCount,
                   flushed, io, scan, admin>>

PumpReadReadyCount ==
    /\ pump = "rdy"
    /\ readyCount' = ReadyCount
    /\ pump' = "inflt"
    /\ UNCHANGED <<counts, session, chans, queue, subChannel, flushed, io,
                   scan, admin>>

PumpReadInFlightCountOneMore ==
    /\ pump = "inflt"
    /\ pump' = IF InFlightCount > readyCount \/ readyCount <= 0
               THEN "flush" ELSE "on"
    /\ UNCHANGED <<counts, session, chans, queue, subChannel, readyCount,
                   flushed, io, scan, admin>>
PumpReadInFlightCount ==
    /\ pump = "inflt"
    /\ pump' = IF InFlightCount >= readyCount \/ readyCount <= 0
               THEN "flush" ELSE "on"
    /\ UNCHANGED <<counts, session, chans, queue, subChannel, readyCount,
                   flushed, io, scan, admin>>

(* The client is not ready: force flush, which fails on a broken           *)
(* connection, and select without the message channels.                    *)
PumpFlush ==
    /\ pump = "flush"
    /\ \/ pump' = "off" /\ flushed' = TRUE
       \/ pump' = "exited" /\ UNCHANGED flushed
    /\ UNCHANGED <<counts, session, chans, queue, subChannel, readyCount, io,
                   scan, admin>>

-----------------------------------------------------------------------------
(* messagePump: the select.  "on" has the message channels, "off" has not. *)

Selecting == pump \in {"on", "off"}

SelectReadyState ==
    /\ Selecting
    /\ readyStateChan = 1
    /\ readyStateChan' = 0
    /\ pump' = "top"
    /\ UNCHANGED <<counts, session, subEventChan, queue, subChannel,
                   readyCount, flushed, io, scan, admin>>

SelectSubEvent ==
    /\ Selecting
    /\ subEventChan
    /\ subEventChan' = FALSE
    /\ subChannel' = TRUE
    /\ pump' = "top"
    /\ UNCHANGED <<counts, session, readyStateChan, queue, readyCount,
                   flushed, io, scan, admin>>

(* The ticker of the output buffer, selected on only while data is         *)
(* buffered.                                                               *)
SelectFlusherOff ==
    /\ pump = "off"
    /\ ~flushed
    /\ pump' = "top" /\ flushed' = TRUE
    /\ UNCHANGED <<counts, session, chans, queue, subChannel, readyCount, io,
                   scan, admin>>
SelectFlusher ==
    /\ pump = "on"
    /\ ~flushed
    /\ \/ pump' = "top" /\ flushed' = TRUE
       \/ pump' = "exited" /\ UNCHANGED flushed
    /\ UNCHANGED <<counts, session, chans, queue, subChannel, readyCount, io,
                   scan, admin>>

(* A response is flushed at once, but the pump does not note it.           *)
SelectHeartbeat ==
    /\ Selecting
    /\ pump' \in {"top", "exited"}
    /\ UNCHANGED <<counts, session, chans, queue, subChannel, readyCount,
                   flushed, io, scan, admin>>

(* A message received from the channel; one that the sample rate leaves    *)
(* out is dropped.                                                         *)
SelectMessage ==
    /\ pump = "on"
    /\ depth > 0
    /\ depth' = depth - 1
    /\ pump' = "start"
    /\ late' = IF IsReadyForMessages THEN 0 ELSE late + 1
    /\ UNCHANGED <<ReadyCount, InFlightCount, maxRdy, session, chans,
                   outstanding, resent, faults, subChannel, readyCount, flushed,
                   io, scan, admin>>

SelectSampledOut ==
    /\ Sampled
    /\ pump = "on"
    /\ depth > 0
    /\ depth' = depth - 1
    /\ pump' = "top"
    /\ UNCHANGED <<counts, session, chans, outstanding, resent, faults, subChannel,
                   readyCount, flushed, io, scan, admin>>

StartInFlightTimeout ==
    /\ pump = "start"
    /\ outstanding' = outstanding + 1
    /\ pump' = "sending"
    /\ UNCHANGED <<counts, session, chans, depth, resent, faults, subChannel,
                   readyCount, flushed, io, scan, admin>>

(* SendingMessage counts the message, SendMessage writes it.               *)
SendingMessage ==
    /\ pump = "sending"
    /\ InFlightCount' = InFlightCount + 1
    /\ \/ pump' = "top" /\ flushed' = FALSE
       \/ pump' = "exited" /\ UNCHANGED flushed
    /\ UNCHANGED <<ReadyCount, maxRdy, late, session, chans, queue,
                   subChannel, readyCount, io, scan, admin>>

PumpExit ==
    /\ Selecting
    /\ io \in {"exit", "gone"}
    /\ pump' = "exited"
    /\ UNCHANGED <<counts, session, chans, queue, subChannel, readyCount,
                   flushed, io, scan, admin>>

-----------------------------------------------------------------------------
(* IOLoop: the commands of the consumer, one after the other.              *)

(* AddClient; the subscription is announced to the pump afterwards.        *)
SUB ==
    /\ io = "idle" /\ State = "init" /\ emptier = "idle"
    /\ joined' = TRUE
    /\ io' = "subscribe"
    /\ UNCHANGED <<counts, State, chans, queue, pumpVars, scan, admin>>

SubscribeEvent ==
    /\ io = "subscribe"
    /\ State' = "subscribed"
    /\ subEventChan' = TRUE
    /\ io' = "idle"
    /\ UNCHANGED <<counts, joined, readyStateChan, queue, pumpVars, scan, admin>>

(* Ignored once the client is closing.                                     *)
RDY(n) ==
    /\ io = "idle" /\ State = "subscribed"
    /\ SetReadyCount(n, "idle", "signal")
    /\ UNCHANGED <<InFlightCount, session, chans, queue, pumpVars, scan, admin>>

CLS ==
    /\ io = "idle" /\ State = "subscribed"
    /\ SetReadyCount(0, "closing", "closeSignal")
    /\ UNCHANGED <<InFlightCount, session, chans, queue, pumpVars, scan, admin>>

StartClose ==
    /\ io = "closing"
    /\ State' = "closing"
    /\ io' = "idle"
    /\ UNCHANGED <<counts, joined, chans, queue, pumpVars, scan, admin>>

(* The consumer can name a message it was sent: any in flight but the one  *)
(* the pump has not written yet, unless that one is a redelivery.          *)
Nameable ==
    /\ State \in {"subscribed", "closing"}
    /\ outstanding > (IF pump = "sending" /\ ~resent THEN 1 ELSE 0)

FIN ==
    /\ io = "idle" /\ Nameable
    /\ outstanding' = outstanding - 1
    /\ io' = "count"
    /\ UNCHANGED <<counts, session, chans, depth, resent, faults, pumpVars,
                   scan, admin>>

(* RequeueMessage: back to the queue, or (back = 0) to the deferred        *)
(* messages, which are not counted here.                                   *)
REQ(back) ==
    /\ io = "idle" /\ Nameable
    /\ outstanding' = outstanding - 1
    /\ depth' = depth + back
    /\ resent' = TRUE
    /\ io' = "count"
    /\ UNCHANGED <<counts, session, chans, faults, pumpVars, scan, admin>>

(* RequeueMessage fails after it took the message out of inFlightMessages: *)
(* the error is returned before RequeuedMessage.                           *)
REQFailed ==
    /\ io = "idle" /\ Nameable
    /\ faults < MaxFaults
    /\ faults' = faults + 1
    /\ outstanding' = outstanding - 1
    /\ UNCHANGED <<counts, session, chans, depth, resent, pumpVars, io, scan,
                   admin>>

(* FinishedMessage, RequeuedMessage: first the count, then the token.      *)
IoUncount ==
    /\ io = "count"
    /\ Uncount
    /\ io' = "signal"
    /\ UNCHANGED <<session, chans, queue, pumpVars, scan, admin>>

IoSignal ==
    /\ io \in {"signal", "closeSignal"}
    /\ tryUpdateReadyState
    /\ io' = IF io = "signal" THEN "idle" ELSE "closing"
    /\ UNCHANGED <<counts, session, subEventChan, queue, pumpVars, scan, admin>>

(* A read error or a fatal command: close ExitChan, then RemoveClient.     *)
IoExit ==
    /\ io = "idle"
    /\ io' = "exit"
    /\ UNCHANGED <<counts, session, chans, queue, pumpVars, scan, admin>>

RemoveClient ==
    /\ io = "exit" /\ emptier = "idle"
    /\ joined' = FALSE
    /\ io' = "gone"
    /\ UNCHANGED <<counts, State, chans, queue, pumpVars, scan, admin>>

-----------------------------------------------------------------------------
(* processInFlightQueue with a message of this client that timed out.      *)

ScanPop ==
    /\ scan = "idle" /\ outstanding > 0
    /\ outstanding' = outstanding - 1
    /\ scan' = "lookup"
    /\ UNCHANGED <<counts, session, chans, depth, resent, faults, pumpVars, io,
                   admin>>

ScanLookup ==
    /\ scan = "lookup" /\ emptier = "idle"
    /\ scan' = IF joined THEN "count" ELSE "put"
    /\ UNCHANGED <<counts, session, chans, queue, pumpVars, io, admin>>

(* TimedOutMessage.                                                        *)
ScanUncount ==
    /\ scan = "count"
    /\ Uncount
    /\ scan' = "signal"
    /\ UNCHANGED <<session, chans, queue, pumpVars, io, admin>>

ScanSignal ==
    /\ scan = "signal"
    /\ tryUpdateReadyState
    /\ scan' = "put"
    /\ UNCHANGED <<counts, session, subEventChan, queue, pumpVars, io, admin>>

ScanPut ==
    /\ scan = "put"
    /\ depth' = depth + 1
    /\ resent' = TRUE
    /\ scan' = "idle"
    /\ UNCHANGED <<counts, session, chans, outstanding, faults, pumpVars, io,
                   admin>>

-----------------------------------------------------------------------------
(* The HTTP API: doPause and Empty.                                        *)

(* The flag is stored first, the clients are told under c.RLock.           *)
doPause(p, pause) ==
    /\ pauser[p] = "idle"
    /\ paused' = pause
    /\ late' = 0
    /\ pauser' = [pauser EXCEPT ![p] = "signal"]
    /\ UNCHANGED <<ReadyCount, InFlightCount, maxRdy, session, chans, queue,
                   pumpVars, io, scan, emptier, empties>>

PauseSignalForgotten(p) ==
    /\ pauser[p] = "signal" /\ emptier = "idle"
    /\ IF joined /\ paused THEN tryUpdateReadyState ELSE UNCHANGED readyStateChan
    /\ pauser' = [pauser EXCEPT ![p] = "idle"]
    /\ UNCHANGED <<counts, session, subEventChan, queue, pumpVars, io, scan,
                   paused, emptier, empties>>
PauseSignal(p) ==
    /\ pauser[p] = "signal" /\ emptier = "idle"
    /\ IF joined THEN tryUpdateReadyState ELSE UNCHANGED readyStateChan
    /\ pauser' = [pauser EXCEPT ![p] = "idle"]
    /\ UNCHANGED <<counts, session, subEventChan, queue, pumpVars, io, scan,
                   paused, emptier, empties>>

(* initPQ forgets what is in flight.                                       *)
EmptyStart ==
    /\ emptier = "idle" /\ empties < MaxEmpty
    /\ empties' = empties + 1
    /\ outstanding' = 0
    /\ emptier' = IF joined THEN "count" ELSE "drain"
    /\ UNCHANGED <<counts, session, chans, depth, resent, faults, pumpVars, io,
                   scan, paused, pauser>>

(* clientV2.Empty.                                                         *)
EmptyCount ==
    /\ emptier = "count"
    /\ InFlightCount' = 0
    /\ late' = 0
    /\ emptier' = "signal"
    /\ UNCHANGED <<ReadyCount, maxRdy, session, chans, queue, pumpVars, io,
                   scan, paused, pauser, empties>>

EmptySignal ==
    /\ emptier = "signal"
    /\ tryUpdateReadyState
    /\ emptier' = "drain"
    /\ UNCHANGED <<counts, session, subEventChan, queue, pumpVars, io, scan,
                   paused, pauser, empties>>

EmptyDrain ==
    /\ emptier = "drain"
    /\ depth' = 0
    /\ emptier' = "idle"
    /\ UNCHANGED <<counts, session, chans, outstanding, resent, faults,
                   pumpVars, io, scan, paused, pauser, empties>>

-----------------------------------------------------------------------------
(* The rest of nsqd: the topic and the channel's other consumers.          *)

Held == IF pump = "start" THEN 1 ELSE 0
Returning == IF scan = "idle" THEN 0 ELSE 1

PutMessage ==
    /\ depth + outstanding + Held + Returning < MaxMsgs
    /\ depth' = depth + 1
    /\ UNCHANGED <<counts, session, chans, outstanding, resent, faults,
                   pumpVars, io, scan, admin>>

OtherConsumer ==
    /\ depth > 0
    /\ depth' = depth - 1
    /\ UNCHANGED <<counts, session, chans, outstanding, resent, faults,
                   pumpVars, io, scan, admin>>

-----------------------------------------------------------------------------
messagePump ==
    \/ PumpTop \/ PumpReadReadyCount \/ PumpReadInFlightCount \/ PumpFlush
    \/ SelectReadyState \/ SelectSubEvent \/ SelectFlusher \/ SelectHeartbeat
    \/ SelectMessage \/ SelectSampledOut \/ StartInFlightTimeout
    \/ SendingMessage \/ PumpExit

IOLoop ==
    \/ SUB \/ SubscribeEvent \/ CLS \/ StartClose
    \/ \E n \in 0 .. MaxRdyCount : RDY(n)
    \/ FIN \/ (\E back \in 0 .. 1 : REQ(back)) \/ REQFailed
    \/ IoUncount \/ IoSignal \/ IoExit \/ RemoveClient

processInFlightQueue ==
    ScanPop \/ ScanLookup \/ ScanUncount \/ ScanSignal \/ ScanPut

HttpApi ==
    \/ \E p \in Pausers : \/ \E pause \in BOOLEAN : doPause(p, pause)
                         \/ PauseSignal(p)
    \/ EmptyStart \/ EmptyCount \/ EmptySignal \/ EmptyDrain

Next ==
    \/ messagePump \/ IOLoop \/ processInFlightQueue \/ HttpApi
    \/ PutMessage \/ OtherConsumer

Spec == Init /\ [][Next]_vars

(* Every goroutine finishes the call it is in.  Go's select chooses among  *)
(* the ready cases at random, so a case that is ready again and again is   *)
(* taken.  Nothing is assumed of the heartbeat, of the consumer, of the    *)
(* time-outs or of callers of the HTTP API.                                *)
PumpRuns ==
    \/ PumpTop \/ PumpReadReadyCount \/ PumpReadInFlightCount \/ PumpFlush
    \/ StartInFlightTimeout \/ SendingMessage \/ PumpExit
FairSpec ==
    /\ Spec
    /\ WF_vars(PumpRuns)
    /\ SF_vars(SelectReadyState) /\ SF_vars(SelectSubEvent)
    /\ SF_vars(SelectFlusher) /\ SF_vars(SelectMessage)
    /\ WF_vars(SubscribeEvent \/ StartClose \/ IoUncount \/ IoSignal
                \/ RemoveClient)
    /\ WF_vars(ScanLookup \/ ScanUncount \/ ScanSignal \/ ScanPut)
    /\ \A p \in Pausers : WF_vars(PauseSignal(p))
    /\ WF_vars(EmptyCount \/ EmptySignal \/ EmptyDrain)

-----------------------------------------------------------------------------
(* The values the variables may take.                                      *)
TypeOK ==
    /\ ReadyCount \in 0 .. MaxRdyCount
    /\ InFlightCount \in Int
    /\ State \in {"init", "subscribed", "closing"}
    /\ joined \in BOOLEAN /\ subEventChan \in BOOLEAN /\ paused \in BOOLEAN
    /\ readyStateChan \in 0 .. 1
    /\ depth \in Nat /\ outstanding \in Nat
    /\ pump \in {"top", "rdy", "inflt", "flush", "off", "on", "start",
                 "sending", "exited"}
    /\ subChannel \in BOOLEAN /\ flushed \in BOOLEAN
    /\ readyCount \in 0 .. MaxRdyCount
    /\ io \in {"idle", "subscribe", "count", "signal", "closeSignal",
               "closing", "exit", "gone"}
    /\ scan \in {"idle", "lookup", "count", "signal", "put"}
    /\ pauser \in [Pausers -> {"idle", "signal"}]
    /\ emptier \in {"idle", "count", "signal", "drain"}
    /\ empties \in 0 .. MaxEmpty /\ faults \in 0 .. MaxFaults
    /\ resent \in BOOLEAN
    /\ maxRdy \in 0 .. MaxRdyCount /\ late \in Nat

(* A token is in ReadyStateChan, or a goroutine is about to put one there. *)
WakeUpPending ==
    \/ readyStateChan = 1
    \/ io \in {"signal", "closeSignal"}
    \/ scan = "signal"
    \/ \E p \in Pausers : pauser[p] = "signal"
    \/ emptier = "signal"

(* The pump never sits in a select without the message channels while the  *)
(* client of a live connection is ready for messages, unless a wake-up is  *)
(* on its way: "the buffer of 1 guarantees that in the event there is a    *)
(* race the state update is not lost" (client_v2.go, newClientV2).         *)
NoLostWakeup ==
    (/\ pump \in {"flush", "off"}
     /\ subChannel
     /\ io \notin {"exit", "gone"}
     /\ IsReadyForMessages)
        => WakeUpPending

(* After a consumer lowered RDY, closed, or the channel was paused, its    *)
(* pump takes at most one more message, the one its select was already     *)
(* waiting for; then it must look at the values again.                     *)
AtMostOneLate == late <= 1

(* A consumer is never given more messages at a time than the largest      *)
(* count it ever asked for with RDY, whatever times out or is requeued     *)
(* meanwhile, as long as nobody empties the channel.                       *)
RdyRespected == empties = 0 => outstanding + Held <= maxRdy

(* A subscribed consumer that stays ready while messages are waiting is    *)
(* given one; the heartbeat is not needed for that.                        *)
ReadyConsumerServed ==
    []<>(\/ ~(IsReadyForMessages /\ depth > 0 /\ State = "subscribed")
         \/ pump \in {"start", "exited"}
         \/ io \in {"exit", "gone"})

(* A message written to the buffered connection does not stay there: the   *)
(* ticker flushes it, or the pump does when the client is not ready.       *)
BufferFlushed == (~flushed) ~> (flushed \/ pump = "exited")
=============================================================================
