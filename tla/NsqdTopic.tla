------------------------------ MODULE NsqdTopic ------------------------------
(***************************************************************************)
(* One topic of nsqd: publishers put messages into its memory or disk      *)
(* queue, its messagePump copies each of them to every channel, while      *)
(* channels come and go, the topic is paused, deleted or closed.           *)
(*                                                                         *)
(* The pump works from its own list of channels, chans, which it renews    *)
(* when it is told to over the unbuffered channelUpdateChan.  A channel is *)
(* a pair of a name and a generation: a name deleted and created again     *)
(* denotes another *Channel.                                               *)
(*                                                                         *)
(* Publishers hold the topic's read lock during a call, GetChannel and     *)
(* DeleteExistingChannel its write lock while they change channelMap; exit *)
(* takes it only to delete the channels.                                   *)
(***************************************************************************)
EXTENDS Naturals, FiniteSets

CONSTANTS
    Msgs,         \* messages, each published once
    Deferred,     \* the messages published with DPUB
    Names,        \* channel names
    MaxGen,       \* bound: channels created with one name
    Publishers,   \* goroutines inside PUB, DPUB or MPUB
    Callers,      \* goroutines that create, delete or pause
    MemQueueSize, \* capacity of memoryMsgChan
    DiskFaults,   \* whether writes of the disk queues may fail
    Ephemeral,    \* the topic's name ends in #ephemeral
    NoMsg, NoChan

ASSUME TopicConstants ==
    /\ Deferred \subseteq Msgs
    /\ MaxGen \in Nat /\ MemQueueSize \in Nat
    /\ DiskFaults \in BOOLEAN /\ Ephemeral \in BOOLEAN
    /\ NoMsg \notin Msgs /\ NoChan \notin Names \X (1 .. MaxGen)

Chan == Names \X (1 .. MaxGen)

VARIABLES
    memoryMsgChan, \* SUBSET Msgs: the buffered Go channel (order abstracted)
    backend,       \* SUBSET Msgs: the disk queue
    backendOpen,   \* backend.Close or backend.Delete has not been called
    channelMap,    \* [Names -> 0 .. MaxGen]: the generation, 0 for no channel
    made,          \* [Names -> 0 .. MaxGen]: channels created so far
    closed,        \* SUBSET Chan: channels whose exitFlag is set
    got,           \* [Chan -> SUBSET Msgs]: messages the channel accepted
    paused,        \* Topic.paused
    startChan,     \* whether Start has been called and seen by the pump
    exit,          \* where exit stands
    deleted,       \* exit's argument
    deleter,       \* the deleter of an ephemeral topic has been started
    pump,          \* where messagePump stands
    msg,           \* messagePump: the message in hand
    msgDeferred,   \* its deferred field is not zero
    todo,          \* SUBSET Chan: channels that have yet to get it
    chans,         \* SUBSET Chan: messagePump's list of channels
    on,            \* messagePump selects on the two queues
    pub,           \* [Publishers -> [batch, left]]: the call in progress
    caller,        \* [Callers -> [pc, chan, last]]: the call in progress
    published,     \* SUBSET Msgs: messages handed to a publisher
    acked,         \* history: messages of calls that returned nil
    ackedBefore,   \* history: acked when exit began
    owed,          \* history: [Msgs -> SUBSET Chan]: channels that existed when it
                   \*   was put, less those it failed to reach for a known cause
    established    \* history: channels whose creator saw the pump updated

queues == <<memoryMsgChan, backend, backendOpen>>
channels == <<channelMap, made, closed, established>>
exitVars == <<exit, deleted, deleter, ackedBefore>>
pumpVars == <<pump, msg, msgDeferred, todo, chans, on>>
pubVars == <<pub, published, acked>>
delivery == <<got, owed>>
vars == <<queues, channels, paused, startChan, exitVars, pumpVars, pubVars,
          caller, delivery>>

Idle == [pc |-> "idle", chan |-> NoChan, last |-> FALSE]
NoCall == [batch |-> {}, left |-> {}]

Init ==
    /\ memoryMsgChan = {} /\ backend = {} /\ backendOpen = TRUE
    /\ channelMap = [n \in Names |-> 0] /\ made = [n \in Names |-> 0]
    /\ closed = {} /\ established = {}
    /\ paused = FALSE /\ startChan = "empty"
    /\ exit = "none" /\ deleted = FALSE /\ deleter = FALSE /\ ackedBefore = {}
    /\ pump = "prestart" /\ msg = NoMsg /\ msgDeferred = FALSE /\ todo = {}
    /\ chans = {} /\ on = FALSE
    /\ pub = [p \in Publishers |-> NoCall]
    /\ published = {} /\ acked = {} /\ owed = [m \in Msgs |-> {}]
    /\ caller = [k \in Callers |-> Idle]
    /\ got = [c \in Chan |-> {}]

(* The channels in channelMap.                                             *)
Live == {c \in Chan : channelMap[c[1]] = c[2]}
(* t.RLock is held by no publisher, so that t.Lock can be taken.           *)
LockFree == \A p \in Publishers : pub[p] = NoCall
Exiting == exit # "none"
(* Nobody expects these messages any more: they were dropped on purpose or *)
(* by a failing write.                                                     *)
Discard(S) == [m \in Msgs |-> IF m \in S THEN {} ELSE owed[m]]
exitChanClosedLate == exit \notin {"none", "flag", "wait"}
exitChanClosed == exit \notin {"none", "flag"}

-----------------------------------------------------------------------------
(* PutMessage and PutMessages: a call publishes a batch.  DPUB takes one   *)
(* message.                                                                *)
PutMessages(p, batch) ==
    /\ pub[p] = NoCall
    /\ batch # {} /\ batch \cap published = {}
    /\ batch \cap Deferred = {} \/ Cardinality(batch) = 1
    /\ published' = published \cup batch
    /\ pub' = IF Exiting THEN pub
              ELSE [pub EXCEPT ![p] = [batch |-> batch, left |-> batch]]
    /\ UNCHANGED <<queues, channels, paused, startChan, exitVars, pumpVars,
                   acked, caller, delivery>>

(* put succeeded: the call returns nil after its last message.             *)
PutOk(p, m) ==
    /\ pub' = [pub EXCEPT ![p] = IF @.left = {m} THEN NoCall
                                 ELSE [batch |-> @.batch, left |-> @.left \ {m}]]
    /\ acked' = IF pub[p].left = {m} THEN acked \cup pub[p].batch ELSE acked
    /\ UNCHANGED got

putUnbounded(p, m) ==
    /\ m \in pub[p].left
    /\ memoryMsgChan' = memoryMsgChan \cup {m}
    /\ owed' = [owed EXCEPT ![m] = Live \cap established]
    /\ PutOk(p, m)
    /\ UNCHANGED <<backend, backendOpen, channels, paused, startChan, exitVars,
                   pumpVars, published, caller>>
put(p, m) ==
    /\ m \in pub[p].left
    /\ Cardinality(memoryMsgChan) < MemQueueSize
    /\ memoryMsgChan' = memoryMsgChan \cup {m}
    /\ owed' = [owed EXCEPT ![m] = Live \cap established]
    /\ PutOk(p, m)
    /\ UNCHANGED <<backend, backendOpen, channels, paused, startChan, exitVars,
                   pumpVars, published, caller>>

(* The memory queue is full.  The queue of an ephemeral topic drops the    *)
(* message and reports no error.                                           *)
putBackend(p, m) ==
    /\ m \in pub[p].left
    /\ Cardinality(memoryMsgChan) >= MemQueueSize
    /\ \/ /\ Ephemeral
          /\ UNCHANGED <<backend, owed>>
       \/ /\ ~Ephemeral /\ backendOpen
          /\ backend' = backend \cup {m}
          /\ owed' = [owed EXCEPT ![m] = Live \cap established]
    /\ PutOk(p, m)
    /\ UNCHANGED <<memoryMsgChan, backendOpen, channels, paused, startChan,
                   exitVars, pumpVars, published, caller>>

(* The disk queue refuses the message: the rest of the batch is not put.   *)
putFails(p, m) ==
    /\ m \in pub[p].left
    /\ Cardinality(memoryMsgChan) >= MemQueueSize
    /\ ~Ephemeral
    /\ ~backendOpen \/ DiskFaults
    /\ pub' = [pub EXCEPT ![p] = NoCall]
    /\ UNCHANGED <<queues, channels, paused, startChan, exitVars, pumpVars,
                   published, acked, caller, delivery>>

-----------------------------------------------------------------------------
(* messagePump.                                                            *)

Start ==
    /\ startChan = "empty"
    /\ startChan' = "full"
    /\ UNCHANGED <<queues, channels, paused, exitVars, pumpVars, pubVars,
                   caller, delivery>>

PumpStart ==
    /\ pump = "prestart" /\ startChan = "full"
    /\ startChan' = "read"
    /\ pump' = "refresh"
    /\ UNCHANGED <<queues, channels, paused, exitVars, msg, msgDeferred, todo,
                   chans, on, pubVars, caller, delivery>>

(* chans is renewed under the read lock ...                                *)
PumpRefresh ==
    /\ pump = "refresh"
    /\ chans' = Live
    /\ pump' = "gate"
    /\ UNCHANGED <<queues, channels, paused, startChan, exitVars, msg,
                   msgDeferred, todo, on, pubVars, caller, delivery>>

(* ... and then the pump decides whether to read the queues.               *)
PumpGateOpen ==
    /\ pump = "gate"
    /\ on' = (chans # {} /\ (on \/ ~paused))
    /\ pump' = "select"
    /\ UNCHANGED <<queues, channels, paused, startChan, exitVars, msg,
                   msgDeferred, todo, chans, pubVars, caller, delivery>>
PumpGate ==
    /\ pump = "gate"
    /\ on' = (chans # {} /\ ~paused)
    /\ pump' = "select"
    /\ UNCHANGED <<queues, channels, paused, startChan, exitVars, msg,
                   msgDeferred, todo, chans, pubVars, caller, delivery>>

PumpTake(m, isDeferred) ==
    /\ pump = "select" /\ on
    /\ pump' = "deliver"
    /\ msg' = m /\ msgDeferred' = isDeferred /\ todo' = chans
    /\ UNCHANGED <<backendOpen, channels, paused, startChan, exitVars, chans,
                   on, pubVars, caller, delivery>>

PumpTakeMemory(m) ==
    /\ m \in memoryMsgChan
    /\ memoryMsgChan' = memoryMsgChan \ {m}
    /\ UNCHANGED backend
    /\ PumpTake(m, m \in Deferred)

(* The encoding of a message on disk has no deferred field.                *)
PumpPeekBackend(m) ==
    /\ m \in backend
    /\ UNCHANGED <<memoryMsgChan, backend>>
    /\ PumpTake(m, FALSE)
PumpTakeBackend(m) ==
    /\ m \in backend
    /\ backend' = backend \ {m}
    /\ UNCHANGED memoryMsgChan
    /\ PumpTake(m, FALSE)

(* One round of the loop over chans: PutMessageDeferred does not look at   *)
(* the channel's exitFlag, an error of PutMessage is only logged.          *)
PumpDeliver(c) ==
    /\ pump = "deliver" /\ c \in todo
    /\ \/ /\ msgDeferred \/ c \notin closed
          /\ got' = [got EXCEPT ![c] = @ \cup {msg}]
          /\ UNCHANGED owed
       \/ /\ ~msgDeferred /\ c \in closed
          /\ UNCHANGED delivery
       \/ /\ ~msgDeferred /\ c \notin closed /\ DiskFaults
          /\ owed' = [owed EXCEPT ![msg] = @ \ {c}]
          /\ UNCHANGED got
    /\ todo' = todo \ {c}
    /\ UNCHANGED <<queues, channels, paused, startChan, exitVars, pump, msg,
                   msgDeferred, chans, on, pubVars, caller>>

PumpDelivered ==
    /\ pump = "deliver" /\ todo = {}
    /\ pump' = "select" /\ msg' = NoMsg /\ msgDeferred' = FALSE
    /\ UNCHANGED <<queues, channels, paused, startChan, exitVars, todo, chans,
                   on, pubVars, caller, delivery>>

PumpExit ==
    /\ pump \in {"prestart", "select"} /\ exitChanClosed
    /\ pump' = "exited"
    /\ UNCHANGED <<queues, channels, paused, startChan, exitVars, msg,
                   msgDeferred, todo, chans, on, pubVars, caller, delivery>>

-----------------------------------------------------------------------------
(* GetChannel, DeleteExistingChannel, doPause, Empty.                      *)

(* Under t.Lock.  Only the caller that creates the channel goes on to tell *)
(* the pump; one that finds it returns at once.                            *)
GetChannel(k, n) ==
    /\ caller[k].pc = "idle" /\ LockFree
    /\ channelMap[n] = 0 /\ made[n] < MaxGen
    /\ made' = [made EXCEPT ![n] = @ + 1]
    /\ channelMap' = [channelMap EXCEPT ![n] = made[n] + 1]
    /\ caller' = [caller EXCEPT ![k] =
                    [pc |-> "created", chan |-> <<n, made[n] + 1>>, last |-> FALSE]]
    /\ UNCHANGED <<queues, closed, established, paused, startChan, exitVars,
                   pumpVars, pubVars, delivery>>

DeleteExistingChannel(k, n) ==
    /\ caller[k].pc = "idle" /\ LockFree
    /\ channelMap[n] # 0
    /\ channelMap' = [channelMap EXCEPT ![n] = 0]
    /\ caller' = [caller EXCEPT ![k] =
                    [pc |-> "delete", chan |-> <<n, channelMap[n]>>,
                     last |-> \A x \in Names \ {n} : channelMap[x] = 0]]
    /\ UNCHANGED <<queues, made, closed, established, paused, startChan,
                   exitVars, pumpVars, pubVars, delivery>>

(* channel.Delete(), without the lock.                                     *)
ChannelDelete(k) ==
    /\ caller[k].pc = "delete"
    /\ closed' = closed \cup {caller[k].chan}
    /\ caller' = [caller EXCEPT ![k].pc = "deleted"]
    /\ UNCHANGED <<queues, channelMap, made, established, paused, startChan,
                   exitVars, pumpVars, pubVars, delivery>>

doPause(k, pause) ==
    /\ caller[k].pc = "idle"
    /\ paused' = pause
    /\ caller' = [caller EXCEPT ![k].pc = "paused"]
    /\ UNCHANGED <<queues, channels, startChan, exitVars, pumpVars, pubVars,
                   delivery>>

(* Empty, called by the HTTP API without the lock: first the memory queue, *)
(* then the disk queue.                                                    *)
EmptyMemory(k) ==
    /\ caller[k].pc = "idle"
    /\ memoryMsgChan' = {}
    /\ owed' = Discard(memoryMsgChan)
    /\ caller' = [caller EXCEPT ![k].pc = "emptied"]
    /\ UNCHANGED <<backend, backendOpen, channels, paused, startChan, exitVars,
                   pumpVars, pubVars, got>>

EmptyBackend(k) ==
    /\ caller[k].pc = "emptied"
    /\ backend' = IF backendOpen THEN {} ELSE backend
    /\ owed' = IF backendOpen THEN Discard(backend) ELSE owed
    /\ caller' = [caller EXCEPT ![k] = Idle]
    /\ UNCHANGED <<memoryMsgChan, backendOpen, channels, paused, startChan,
                   exitVars, pumpVars, pubVars, got>>

(* The call returns; the last channel of an ephemeral topic starts the     *)
(* topic's deleter.                                                        *)
Return(k) ==
    /\ caller' = [caller EXCEPT ![k] = Idle]
    /\ deleter' = (deleter \/ (caller[k].last /\ Ephemeral))
    /\ UNCHANGED <<exit, deleted, ackedBefore>>

(* A send on the unbuffered channelUpdateChan or pauseChan meets the       *)
(* pump's select.  Before Start the pump takes the token and ignores it.   *)
ToldStale(k) ==
    /\ caller[k].pc \in {"created", "deleted", "paused"}
    /\ \/ pump = "prestart" /\ UNCHANGED pump
       \/ pump = "select" /\ pump' = "gate"
    /\ established' = IF caller[k].pc = "created"
                      THEN established \cup {caller[k].chan} ELSE established
    /\ Return(k)
    /\ UNCHANGED <<queues, channelMap, made, closed, paused, startChan, msg,
                   msgDeferred, todo, chans, on, pubVars, delivery>>
Told(k) ==
    /\ caller[k].pc \in {"created", "deleted", "paused"}
    /\ \/ pump = "prestart" /\ UNCHANGED pump
       \/ /\ pump = "select"
          /\ pump' = IF caller[k].pc = "paused" THEN "gate" ELSE "refresh"
    /\ established' = IF caller[k].pc = "created"
                      THEN established \cup {caller[k].chan} ELSE established
    /\ Return(k)
    /\ UNCHANGED <<queues, channelMap, made, closed, paused, startChan, msg,
                   msgDeferred, todo, chans, on, pubVars, delivery>>

(* The other case of that select.                                          *)
ToldNobodyNever(k) ==
    /\ caller[k].pc = "created"
    /\ exitChanClosed
    /\ Return(k)
    /\ UNCHANGED <<queues, channels, paused, startChan, pumpVars, pubVars,
                   delivery>>
ToldNobody(k) ==
    /\ caller[k].pc \in {"created", "deleted", "paused"}
    /\ exitChanClosed
    /\ Return(k)
    /\ UNCHANGED <<queues, channels, paused, startChan, pumpVars, pubVars,
                   delivery>>

-----------------------------------------------------------------------------
(* exit.                                                                   *)

ExitFlag(isDelete) ==
    /\ exit = "none"
    /\ exit' = "flag" /\ deleted' = isDelete
    /\ ackedBefore' = acked
    /\ UNCHANGED <<queues, channels, paused, startChan, deleter, pumpVars,
                   pubVars, caller, delivery>>

ExitCloseChan ==
    /\ exit = "flag"
    /\ exit' = "wait"
    /\ UNCHANGED <<queues, channels, paused, startChan, deleted, deleter,
                   ackedBefore, pumpVars, pubVars, caller, delivery>>

(* waitGroup.Wait(), then the channels: deleted under t.Lock, or closed    *)
(* without it.                                                             *)
ExitChannelsNoFlush ==
    /\ exit = "wait" /\ pump = "exited"
    /\ deleted => LockFree
    /\ closed' = closed \cup Live
    /\ channelMap' = IF deleted THEN [n \in Names |-> 0] ELSE channelMap
    /\ exit' = IF deleted THEN "empty" ELSE "close"
    /\ UNCHANGED <<queues, made, established, paused, startChan, deleted,
                   deleter, ackedBefore, pumpVars, pubVars, caller, delivery>>
ExitChannels ==
    /\ exit = "wait" /\ pump = "exited"
    /\ deleted => LockFree
    /\ closed' = closed \cup Live
    /\ channelMap' = IF deleted THEN [n \in Names |-> 0] ELSE channelMap
    /\ exit' = IF deleted THEN "empty" ELSE "flush"
    /\ UNCHANGED <<queues, made, established, paused, startChan, deleted,
                   deleter, ackedBefore, pumpVars, pubVars, caller, delivery>>

(* Empty and backend.Delete.                                               *)
ExitEmpty ==
    /\ exit = "empty"
    /\ memoryMsgChan' = {} /\ backend' = {} /\ backendOpen' = FALSE
    /\ owed' = Discard(memoryMsgChan \cup backend)
    /\ exit' = "done"
    /\ UNCHANGED <<channels, paused, startChan, deleted, deleter, ackedBefore,
                   pumpVars, pubVars, caller, got>>

(* flush writes the memory queue to disk, message by message.              *)
ExitFlush(m) ==
    /\ exit = "flush" /\ m \in memoryMsgChan
    /\ memoryMsgChan' = memoryMsgChan \ {m}
    /\ \/ ~Ephemeral /\ backend' = backend \cup {m} /\ UNCHANGED owed
       \/ (Ephemeral \/ DiskFaults) /\ owed' = Discard({m}) /\ UNCHANGED backend
    /\ UNCHANGED <<backendOpen, channels, paused, startChan, exitVars, pumpVars,
                   pubVars, caller, got>>

ExitFlushed ==
    /\ exit = "flush" /\ memoryMsgChan = {}
    /\ exit' = "close"
    /\ UNCHANGED <<queues, channels, paused, startChan, deleted, deleter,
                   ackedBefore, pumpVars, pubVars, caller, delivery>>

ExitBackend ==
    /\ exit = "close"
    /\ backendOpen' = FALSE
    /\ exit' = "done"
    /\ UNCHANGED <<memoryMsgChan, backend, channels, paused, startChan, deleted,
                   deleter, ackedBefore, pumpVars, pubVars, caller, delivery>>

-----------------------------------------------------------------------------
Publish ==
    \E p \in Publishers :
        \/ \E batch \in SUBSET Msgs : PutMessages(p, batch)
        \/ \E m \in Msgs : put(p, m) \/ putBackend(p, m) \/ putFails(p, m)

messagePump ==
    \/ PumpStart \/ PumpRefresh \/ PumpGate \/ PumpDelivered \/ PumpExit
    \/ \E m \in Msgs : PumpTakeMemory(m) \/ PumpTakeBackend(m)
    \/ \E c \in Chan : PumpDeliver(c)

Call(k) ==
    \/ \E n \in Names : GetChannel(k, n) \/ DeleteExistingChannel(k, n)
    \/ \E pause \in BOOLEAN : doPause(k, pause)
    \/ ChannelDelete(k) \/ EmptyMemory(k) \/ EmptyBackend(k)
    \/ Told(k) \/ ToldNobody(k)

Exit ==
    \/ \E isDelete \in BOOLEAN : ExitFlag(isDelete)
    \/ ExitCloseChan \/ ExitChannels \/ ExitEmpty
    \/ (\E m \in Msgs : ExitFlush(m)) \/ ExitFlushed \/ ExitBackend

Next ==
    \/ Publish \/ Start \/ messagePump
    \/ \E k \in Callers : Call(k)
    \/ Exit

Spec == Init /\ [][Next]_vars

(* Every goroutine finishes the call it is in, and nsqd starts the topics  *)
(* it creates.  Go's select chooses among the ready cases at random, and   *)
(* its RWMutex lets no writer starve, hence strong fairness where a case   *)
(* or a lock may be taken away again.                                      *)
PumpRuns ==
    \/ PumpStart \/ PumpRefresh \/ PumpGate \/ PumpDelivered
    \/ \E c \in Chan : PumpDeliver(c)
FairSpec ==
    /\ Spec
    /\ WF_vars(Start) /\ WF_vars(PumpRuns)
    /\ SF_vars(\E m \in Msgs : PumpTakeMemory(m) \/ PumpTakeBackend(m))
    /\ SF_vars(PumpExit)
    /\ \A p \in Publishers : WF_vars(\E m \in Msgs : \/ put(p, m)
                                                     \/ putBackend(p, m)
                                                     \/ putFails(p, m))
    /\ \A k \in Callers : /\ WF_vars(ChannelDelete(k) \/ EmptyBackend(k))
                          /\ SF_vars(Told(k) \/ ToldNobody(k))
    /\ WF_vars(ExitCloseChan \/ ExitEmpty \/ (\E m \in Msgs : ExitFlush(m))
                \/ ExitFlushed \/ ExitBackend)
    /\ SF_vars(ExitChannels)
    /\ WF_vars(deleter /\ ExitFlag(TRUE))

-----------------------------------------------------------------------------
(* The values the variables may take; the memory queue keeps its size.     *)
TypeOK ==
    /\ memoryMsgChan \subseteq Msgs /\ backend \subseteq Msgs
    /\ Cardinality(memoryMsgChan) <= MemQueueSize
    /\ backendOpen \in BOOLEAN /\ paused \in BOOLEAN
    /\ channelMap \in [Names -> 0 .. MaxGen] /\ made \in [Names -> 0 .. MaxGen]
    /\ closed \subseteq Chan /\ established \subseteq Chan
    /\ got \in [Chan -> SUBSET Msgs]
    /\ startChan \in {"empty", "full", "read"}
    /\ exit \in {"none", "flag", "wait", "empty", "flush", "close", "done"}
    /\ deleted \in BOOLEAN /\ deleter \in BOOLEAN
    /\ pump \in {"prestart", "refresh", "gate", "select", "deliver", "exited"}
    /\ msg \in Msgs \cup {NoMsg} /\ msgDeferred \in BOOLEAN
    /\ todo \subseteq Chan /\ chans \subseteq Chan /\ on \in BOOLEAN
    /\ pub \in [Publishers -> [batch : SUBSET Msgs, left : SUBSET Msgs]]
    /\ caller \in [Callers ->
          [pc : {"idle", "created", "delete", "deleted", "paused", "emptied"},
           chan : Chan \cup {NoChan}, last : BOOLEAN]]
    /\ published \subseteq Msgs /\ acked \subseteq Msgs
    /\ ackedBefore \subseteq Msgs /\ owed \in [Msgs -> SUBSET Chan]

(* No channel gets a message twice from the topic: what is still queued    *)
(* has reached no channel, and what the pump holds has reached none of the *)
(* channels it has yet to go to.                                           *)
NotTwice ==
    /\ \A c \in Chan : got[c] \cap (memoryMsgChan \cup backend) = {}
    /\ pump = "deliver" =>
         /\ msg \notin memoryMsgChan \cup backend
         /\ \A c \in todo : msg \notin got[c]

(* A message put into the topic after GetChannel returned to the creator   *)
(* of a channel reaches that channel, whatever channels are created,       *)
(* deleted or paused meanwhile, as long as this one stays.  Until then it  *)
(* is in a queue or in the hand of messagePump.                            *)
OwedReached ==
    \A m \in Msgs : \A c \in owed[m] \cap Live :
        \/ m \in got[c] \cup memoryMsgChan \cup backend
        \/ pump = "deliver" /\ msg = m /\ c \in todo

(* Once a call of Pause has returned, and nobody is about to change it,    *)
(* messagePump takes no message from the topic's queues.                   *)
PauseHolds ==
    (/\ paused
     /\ pump = "select"
     /\ \A k \in Callers : caller[k].pc # "paused")
        => ~on \/ exitChanClosed

(* After Close, no message acknowledged before Close began is left in the  *)
(* memory queue, where it would die with the process. A publisher that     *)
(* passed the exitFlag test may still put one there after flush, and be    *)
(* told OK. Where flush puts the messages is not part of this property.    *)
CleanClose == (exit = "done" /\ ~deleted) => ackedBefore \cap memoryMsgChan = {}

(* "the only possible error is that the topic is exiting during this next  *)
(* call (and no messages will be queued in that case)" (MPUB in            *)
(* protocol_v2.go): a call of PutMessages that ends with an error has left *)
(* none of its messages in the topic.                                      *)
FailedQueuesNothing ==
    [][\A p \in Publishers :
         pub[p] # NoCall /\ pub'[p] = NoCall /\ acked' = acked
            => pub[p].left = pub[p].batch]_vars

(* GetChannel, DeleteExistingChannel, Pause, UnPause and Empty return,     *)
(* also when the topic exits while they wait for its messagePump.          *)
CallersReturn == \A k \in Callers : caller[k].pc # "idle" ~> caller[k].pc = "idle"

(* A topic that has a channel, a message and no pause does not sit on the  *)
(* message.                                                                *)
QueueMoves ==
    []<>(\/ memoryMsgChan \cup backend = {} \/ Live = {} \/ paused
         \/ exit # "none" \/ pump = "deliver")

(* An exit that has begun ends, and an ephemeral topic that lost its last  *)
(* channel is deleted.                                                     *)
ExitCompletes == (exit # "none" \/ deleter) ~> (exit = "done")
=============================================================================
