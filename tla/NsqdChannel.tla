----------------------------- MODULE NsqdChannel -----------------------------
(***************************************************************************)
(* One channel of nsqd: the life of a message from the moment the topic    *)
(* hands it to the channel until a consumer finishes it.                   *)
(*                                                                         *)
(* The goroutines that meet in a channel are kept apart: the topic's       *)
(* pump (PutMessage), and for every consumer its messagePump (delivery)    *)
(* and its IOLoop (FIN, REQ, TOUCH), one queueScanWorker (time-outs), and  *)
(* one administrative caller (Empty, Delete, Close).  Each section of code *)
(* executed under one mutex is one action, so that everything that can     *)
(* happen between two sections of the same handler is a behaviour.         *)
(*                                                                         *)
(* A message in memory is a *Message; reading it back from the disk queue  *)
(* allocates a new one.  Obj is the set of those pointers: <<m, g>> is the *)
(* g-th *Message of the message whose ID is m.                             *)
(***************************************************************************)
EXTENDS Integers, FiniteSets

CONSTANTS
    Msgs,           \* message IDs
    Clients,        \* consumer IDs; an ID is never reused by nsqd
    NoClient,       \* the zero clientID of a message never delivered
    MemQueueSize,   \* capacity of memoryMsgChan
    MaxAttempts,    \* bound: deliveries of one message
    MaxEmpty,       \* bound: calls of Empty by the HTTP API
    MaxFaults,      \* bound: failing writes of the disk queue
    Ephemeral,      \* the channel's name ends in #ephemeral
    Sampling,       \* consumers that identified with a sample rate
    MaxChannelConsumers \* limit on the channel's consumers, 0 for none

ASSUME ChannelConstants ==
    /\ NoClient \notin Clients
    /\ MemQueueSize \in Nat
    /\ MaxAttempts \in Nat \ {0}
    /\ MaxEmpty \in Nat
    /\ MaxFaults \in Nat
    /\ Ephemeral \in BOOLEAN
    /\ Sampling \subseteq Clients
    /\ MaxChannelConsumers \in Nat

Obj == Msgs \X (0 .. MaxAttempts)
NoObj == <<>>
Id(o) == o[1]

VARIABLES
    memoryMsgChan,    \* SUBSET Obj: the buffered Go channel (order abstracted)
    backend,          \* SUBSET Msgs: the disk queue, which keeps no pointer
    inFlightMessages, \* SUBSET Obj: the map from ID to *Message
    inFlightPQ,       \* [Obj -> Nat]: how often the heap holds the pointer
    index,            \* [Obj -> ...]: Message.index, see IndexStates
    clientID,         \* [Obj -> Clients \cup {NoClient}]: Message.clientID
    deferredMessages, \* SUBSET Obj: the map of deferred messages
    deferredPQ,       \* SUBSET Obj: the heap of deferred messages
    gen,              \* [Msgs -> Nat]: *Message values allocated so far
    attempts,         \* [Msgs -> Nat]: Message.Attempts
    clients,          \* SUBSET Clients: the channel's consumers
    conn,             \* [Clients -> ...]: connection and goroutines of a client
    inFlightCount,    \* [Clients -> Int]: clientV2.InFlightCount
    sent,             \* [Clients -> SUBSET Msgs]: IDs the consumer has seen
    putter,           \* the topic pump inside PutMessageDeferred
    pump,             \* [Clients -> ...]: the client's messagePump
    io,               \* [Clients -> ...]: the client's IOLoop
    scan,             \* the queueScanWorker working on this channel
    admin,            \* progress of Empty or exit
    exitFlag,         \* Channel.exitFlag
    empties, faults,  \* how often the bounded actions happened
    panicked,         \* removeFromInFlightPQ indexed outside the heap
    published,        \* history: messages the channel accepted
    finished,         \* history: messages a consumer finished
    dropped           \* history: messages the channel let go of on purpose

flightVars == <<inFlightMessages, inFlightPQ, index, clientID, panicked>>
deferVars == <<deferredMessages, deferredPQ>>
queueVars == <<memoryMsgChan, backend, dropped, faults>>
clientVars == <<clients, conn, inFlightCount, sent>>
adminVars == <<admin, exitFlag, empties>>
allocVars == <<gen, attempts>>
threadVars == <<putter, pump, io, scan>>
vars == <<flightVars, deferVars, queueVars, clientVars, adminVars, allocVars,
          threadVars, published, finished>>

(* Message.index is 0 in a Message just allocated, a heap position while   *)
(* the heap holds it, and -1 once it left the heap.                        *)
IndexStates == {"zero", "queued", "popped"}
(* "deaf": the messagePump ended on a write error, the IOLoop still reads; *)
(* "gone": the IOLoop ended, the messagePump has not seen ExitChan yet.    *)
ConnStates == {"none", "open", "deaf", "gone", "stopped"}
Idle == [pc |-> "idle", obj |-> NoObj]
PumpStates == {Idle} \cup [pc : {"got", "pushed", "added"}, obj : Obj]
IoIdle == [pc |-> "idle", op |-> "none", obj |-> NoObj]
IoStates == {IoIdle} \cup
    [pc : {"popped", "removed", "pushed", "count"},
     op : {"FIN", "REQ", "REQdelay", "TOUCH"}, obj : Obj]
ScanIdle == [pc |-> "idle", obj |-> NoObj, cid |-> NoClient]
ScanStates == {ScanIdle} \cup
    [pc : {"shifted", "read", "popped", "put", "dshifted"},
     obj : Obj, cid : Clients \cup {NoClient}]
EmptySteps == {"deferred", "clients", "memory", "backend"}
AdminStates == {"none", "delete", "flushMemory", "flushInFlight",
                "flushDeferred", "closed", "deleted"} \cup EmptySteps

(* The values the variables may take; in particular the in-flight heap of   *)
(* inFlightPqueue never loses an entry it does not hold.                    *)
TypeOK ==
    /\ memoryMsgChan \subseteq Obj
    /\ backend \subseteq Msgs
    /\ inFlightMessages \subseteq Obj
    /\ inFlightPQ \in [Obj -> Nat]
    /\ index \in [Obj -> IndexStates]
    /\ clientID \in [Obj -> Clients \cup {NoClient}]
    /\ deferredMessages \subseteq Obj
    /\ deferredPQ \subseteq Obj
    /\ gen \in [Msgs -> 0 .. MaxAttempts]
    /\ attempts \in [Msgs -> 0 .. MaxAttempts]
    /\ clients \subseteq Clients
    /\ conn \in [Clients -> ConnStates]
    /\ inFlightCount \in [Clients -> Int]
    /\ sent \in [Clients -> SUBSET Msgs]
    /\ putter \in Obj \cup {NoObj}
    /\ pump \in [Clients -> PumpStates]
    /\ io \in [Clients -> IoStates]
    /\ scan \in ScanStates
    /\ admin \in AdminStates
    /\ exitFlag \in BOOLEAN
    /\ empties \in 0 .. MaxEmpty
    /\ faults \in 0 .. MaxFaults
    /\ panicked \in BOOLEAN
    /\ published \subseteq Msgs
    /\ finished \subseteq Msgs
    /\ dropped \subseteq Msgs

Init ==
    /\ memoryMsgChan = {}
    /\ backend = {}
    /\ inFlightMessages = {}
    /\ inFlightPQ = [o \in Obj |-> 0]
    /\ index = [o \in Obj |-> "zero"]
    /\ clientID = [o \in Obj |-> NoClient]
    /\ deferredMessages = {}
    /\ deferredPQ = {}
    /\ gen = [m \in Msgs |-> 0]
    /\ attempts = [m \in Msgs |-> 0]
    /\ clients = {}
    /\ conn = [c \in Clients |-> "none"]
    /\ inFlightCount = [c \in Clients |-> 0]
    /\ sent = [c \in Clients |-> {}]
    /\ putter = NoObj
    /\ pump = [c \in Clients |-> Idle]
    /\ io = [c \in Clients |-> IoIdle]
    /\ scan = ScanIdle
    /\ admin = "none"
    /\ exitFlag = FALSE
    /\ empties = 0
    /\ faults = 0
    /\ panicked = FALSE
    /\ published = {}
    /\ finished = {}
    /\ dropped = {}

Ids(S) == {Id(o) : o \in S}
PumpLive(c) == conn[c] \in {"open", "gone"}
IoLive(c) == conn[c] \in {"open", "deaf"}
LockFree == admin \notin EmptySteps      \* Empty holds the channel's RWMutex

-----------------------------------------------------------------------------
(* The in-flight heap.  Only how often it holds a pointer matters, and what *)
(* the pointer's index says: an operation on the heap may move any entry,  *)
(* which also corrects the index of a pointer whose other entry was popped. *)
Settle(pq, idx, o) ==
    /\ inFlightPQ' = pq
    /\ \E moved \in SUBSET {x \in Obj \ {o} : pq[x] > 0 /\ idx[x] = "popped"} :
          index' = [x \in Obj |-> IF x \in moved THEN "queued" ELSE idx[x]]

Push(o) == Settle([inFlightPQ EXCEPT ![o] = @ + 1],
                  [index EXCEPT ![o] = "queued"], o)

(* Mutant: the length check of PeekAndShift is missing.                    *)
PopUnguarded(o) == Settle([inFlightPQ EXCEPT ![o] = @ - 1],
                          [index EXCEPT ![o] = "popped"], o)

Pop(o) == /\ inFlightPQ[o] > 0
          /\ Settle([inFlightPQ EXCEPT ![o] = @ - 1],
                    [index EXCEPT ![o] = "popped"], o)

(* Remove(msg.index): the index is right when the heap holds the pointer.  *)
(* Otherwise it names whatever entry is at that position now, or none, in  *)
(* which case the slice expression panics.                                 *)
removeFromInFlightPQ(o) ==
    \/ /\ index[o] = "popped"
       /\ UNCHANGED <<inFlightPQ, index, panicked>>
    \/ /\ index[o] = "queued" /\ inFlightPQ[o] > 0
       /\ Pop(o)
       /\ UNCHANGED panicked
    \/ /\ index[o] = "zero" \/ (index[o] = "queued" /\ inFlightPQ[o] = 0)
       /\ \/ /\ \E x \in Obj : Pop(x)
             /\ UNCHANGED panicked
          \/ /\ index[o] = "zero" => \A x \in Obj : inFlightPQ[x] = 0
             /\ panicked' = TRUE
             /\ UNCHANGED <<inFlightPQ, index>>

(* Writing messages to the backend: an ephemeral channel's swallows them,  *)
(* and a write to the disk queue may fail, which loses the message.        *)
writeMessageToBackend(S) ==
    \E lost \in SUBSET S :
       /\ IF Ephemeral
          THEN lost = S /\ UNCHANGED faults
          ELSE \/ lost = {} /\ UNCHANGED faults
               \/ lost # {} /\ faults < MaxFaults /\ faults' = faults + 1
       /\ backend' = backend \cup (S \ lost)
       /\ dropped' = dropped \cup lost

(* Mutant: the default case of put does nothing.                           *)
putMemoryOnly(o) ==
    /\ memoryMsgChan' = IF Cardinality(memoryMsgChan) < MemQueueSize
                        THEN memoryMsgChan \cup {o} ELSE memoryMsgChan
    /\ UNCHANGED <<backend, dropped, faults>>

(* put: the memory queue when it has room, else the backend.               *)
put(o) ==
    IF Cardinality(memoryMsgChan) < MemQueueSize
    THEN /\ memoryMsgChan' = memoryMsgChan \cup {o}
         /\ UNCHANGED <<backend, dropped, faults>>
    ELSE /\ writeMessageToBackend({Id(o)})
         /\ UNCHANGED memoryMsgChan

-----------------------------------------------------------------------------
(* The topic's messagePump hands a message over.                           *)
PutMessage(m) ==
    /\ m \notin published /\ putter = NoObj
    /\ ~exitFlag /\ LockFree
    /\ published' = published \cup {m}
    /\ put(<<m, 0>>)
    /\ UNCHANGED <<flightVars, deferVars, clientVars, adminVars, allocVars,
                   threadVars, finished>>

(* A topic closes its channels only after its pump has returned, so no      *)
(* message arrives during flush; a channel being deleted has no such guard. *)
PutMessageDeferred(m) ==
    /\ m \notin published /\ putter = NoObj
    /\ admin \notin {"flushMemory", "flushInFlight", "flushDeferred", "closed"}
    /\ published' = published \cup {m}
    /\ deferredMessages' = deferredMessages \cup {<<m, 0>>}
    /\ putter' = <<m, 0>>
    /\ UNCHANGED <<flightVars, deferredPQ, queueVars, clientVars, adminVars,
                   allocVars, pump, io, scan, finished>>

PutAddToDeferredPQ ==
    /\ putter # NoObj
    /\ deferredPQ' = deferredPQ \cup {putter}
    /\ putter' = NoObj
    /\ UNCHANGED <<flightVars, deferredMessages, queueVars, clientVars,
                   adminVars, allocVars, pump, io, scan, published, finished>>

-----------------------------------------------------------------------------
(* Consumers come and go.                                                  *)
AddClient(c) ==
    /\ conn[c] = "none" /\ LockFree
    /\ ~(Ephemeral /\ exitFlag)
    /\ MaxChannelConsumers = 0 \/ Cardinality(clients) < MaxChannelConsumers
    /\ clients' = clients \cup {c}
    /\ conn' = [conn EXCEPT ![c] = "open"]
    /\ UNCHANGED <<flightVars, deferVars, queueVars, inFlightCount, sent,
                   adminVars, allocVars, threadVars, published, finished>>

(* The IOLoop returns: ExitChan is closed and the client leaves the        *)
(* channel.  What it had in flight stays in flight.                        *)
RemoveClient(c) ==
    /\ IoLive(c) /\ io[c] = IoIdle /\ LockFree
    /\ clients' = clients \ {c}
    /\ conn' = [conn EXCEPT ![c] = IF @ = "open" THEN "gone" ELSE "stopped"]
    /\ UNCHANGED <<flightVars, deferVars, queueVars, inFlightCount, sent,
                   adminVars, allocVars, threadVars, published, finished>>

PumpExit(c) ==
    /\ conn[c] = "gone" /\ pump[c] = Idle
    /\ conn' = [conn EXCEPT ![c] = "stopped"]
    /\ UNCHANGED <<flightVars, deferVars, queueVars, clients, inFlightCount,
                   sent, adminVars, allocVars, threadVars, published, finished>>

-----------------------------------------------------------------------------
(* A client's messagePump.  Whether the client is ready for a message is   *)
(* decided in NsqdClient; here it may be at any time.                      *)
Receive(c, o) ==
    /\ PumpLive(c) /\ pump[c] = Idle
    /\ attempts[Id(o)] < MaxAttempts
    /\ attempts' = [attempts EXCEPT ![Id(o)] = @ + 1]
    /\ pump' = [pump EXCEPT ![c] = [pc |-> "got", obj |-> o]]

PumpRecvMemory(c) ==
    /\ \E o \in memoryMsgChan : /\ Receive(c, o)
                                /\ memoryMsgChan' = memoryMsgChan \ {o}
    /\ UNCHANGED <<flightVars, deferVars, backend, dropped, faults, clientVars,
                   adminVars, gen, putter, io, scan, published, finished>>

(* decodeMessage allocates a new *Message.                                 *)
PumpRecvBackend(c) ==
    /\ admin \notin {"closed", "deleted"}
    /\ \E m \in backend : /\ Receive(c, <<m, gen[m] + 1>>)
                          /\ backend' = backend \ {m}
                          /\ gen' = [gen EXCEPT ![m] = @ + 1]
    /\ UNCHANGED <<flightVars, deferVars, memoryMsgChan, dropped, faults,
                   clientVars, adminVars, putter, io, scan, published, finished>>

(* The sample rate's "continue": the message is received and forgotten.    *)
PumpSample(c) ==
    /\ c \in Sampling /\ PumpLive(c) /\ pump[c] = Idle
    /\ \/ \E o \in memoryMsgChan : /\ memoryMsgChan' = memoryMsgChan \ {o}
                                   /\ dropped' = dropped \cup {Id(o)}
                                   /\ UNCHANGED backend
       \/ /\ admin \notin {"closed", "deleted"}
          /\ \E m \in backend : /\ backend' = backend \ {m}
                                /\ dropped' = dropped \cup {m}
          /\ UNCHANGED memoryMsgChan
    /\ UNCHANGED <<flightVars, deferVars, faults, clientVars, adminVars,
                   allocVars, threadVars, published, finished>>

(* StartInFlightTimeout up to pushInFlightMessage; its error is ignored.   *)
PumpPush(c) ==
    /\ pump[c].pc = "got"
    /\ LET o == pump[c].obj
           dup == Id(o) \in Ids(inFlightMessages)
       IN /\ clientID' = [clientID EXCEPT ![o] = c]
          /\ inFlightMessages' = IF dup THEN inFlightMessages
                                        ELSE inFlightMessages \cup {o}
          /\ pump' = [pump EXCEPT ![c].pc = IF dup THEN "added" ELSE "pushed"]
    /\ UNCHANGED <<inFlightPQ, index, panicked, deferVars, queueVars,
                   clientVars, adminVars, allocVars, putter, io, scan,
                   published, finished>>

(* StartInFlightTimeout's addToInFlightPQ.                                 *)
PumpAdd(c) ==
    /\ pump[c].pc = "pushed"
    /\ Push(pump[c].obj)
    /\ pump' = [pump EXCEPT ![c].pc = "added"]
    /\ UNCHANGED <<inFlightMessages, clientID, panicked, deferVars, queueVars,
                   clientVars, adminVars, allocVars, putter, io, scan,
                   published, finished>>

(* client.SendingMessage, then SendMessage, whose error ends the pump.     *)
PumpSend(c) ==
    /\ pump[c].pc = "added"
    /\ inFlightCount' = [inFlightCount EXCEPT ![c] = @ + 1]
    /\ \/ /\ sent' = [sent EXCEPT ![c] = @ \cup {Id(pump[c].obj)}]
          /\ UNCHANGED conn
       \/ /\ conn' = [conn EXCEPT ![c] = IF @ = "open" THEN "deaf" ELSE "stopped"]
          /\ UNCHANGED sent
    /\ pump' = [pump EXCEPT ![c] = Idle]
    /\ UNCHANGED <<flightVars, deferVars, queueVars, clients, adminVars,
                   allocVars, putter, io, scan, published, finished>>

-----------------------------------------------------------------------------
(* A client's IOLoop executes FIN, REQ and TOUCH.  A consumer names only   *)
(* messages it was sent; a command whose popInFlightMessage fails changes  *)
(* nothing.                                                                *)
popForgetsFinished(c, op) ==     \* Mutant: FIN does not delete the map entry
    /\ IoLive(c) /\ io[c] = IoIdle
    /\ \E o \in inFlightMessages :
          /\ clientID[o] = c /\ Id(o) \in sent[c]
          /\ inFlightMessages' = IF op = "FIN" THEN inFlightMessages
                                               ELSE inFlightMessages \ {o}
          /\ io' = [io EXCEPT ![c] = [pc |-> "popped", op |-> op, obj |-> o]]
          /\ finished' = IF op = "FIN" THEN finished \cup {Id(o)} ELSE finished
    /\ UNCHANGED <<inFlightPQ, index, clientID, panicked, deferVars, queueVars,
                   clientVars, adminVars, allocVars, putter, pump, scan,
                   published>>

popOfAnyClient(c, op) ==         \* Mutant: the client's ID is not compared
    /\ IoLive(c) /\ io[c] = IoIdle
    /\ \E o \in inFlightMessages :
          /\ Id(o) \in sent[c]
          /\ inFlightMessages' = inFlightMessages \ {o}
          /\ io' = [io EXCEPT ![c] = [pc |-> "popped", op |-> op, obj |-> o]]
          /\ finished' = IF op = "FIN" THEN finished \cup {Id(o)} ELSE finished
    /\ UNCHANGED <<inFlightPQ, index, clientID, panicked, deferVars, queueVars,
                   clientVars, adminVars, allocVars, putter, pump, scan,
                   published>>

popInFlightMessage(c, op) ==
    /\ IoLive(c) /\ io[c] = IoIdle
    /\ \E o \in inFlightMessages :
          /\ clientID[o] = c /\ Id(o) \in sent[c]
          /\ inFlightMessages' = inFlightMessages \ {o}
          /\ io' = [io EXCEPT ![c] = [pc |-> "popped", op |-> op, obj |-> o]]
          /\ finished' = IF op = "FIN" THEN finished \cup {Id(o)} ELSE finished
    /\ UNCHANGED <<inFlightPQ, index, clientID, panicked, deferVars, queueVars,
                   clientVars, adminVars, allocVars, putter, pump, scan,
                   published>>

IoRemovePQ(c) ==
    /\ io[c].pc = "popped"
    /\ removeFromInFlightPQ(io[c].obj)
    /\ io' = [io EXCEPT ![c].pc = IF io[c].op = "FIN" THEN "count" ELSE "removed"]
    /\ UNCHANGED <<inFlightMessages, clientID, deferVars, queueVars, clientVars,
                   adminVars, allocVars, putter, pump, scan, published, finished>>

(* The rest of RequeueMessage with timeout 0.  exit holds exitMutex from   *)
(* setting exitFlag to its end, so the check comes before or after it.     *)
RequeueNow(c) ==
    /\ io[c].pc = "removed" /\ io[c].op = "REQ"
    /\ IF exitFlag
       THEN /\ admin \in {"closed", "deleted"}
            /\ dropped' = dropped \cup {Id(io[c].obj)}
            /\ io' = [io EXCEPT ![c] = IoIdle]
            /\ UNCHANGED <<memoryMsgChan, backend, faults>>
       ELSE /\ put(io[c].obj)
            /\ io' = IF faults' = faults
                     THEN [io EXCEPT ![c].pc = "count"]
                     ELSE [io EXCEPT ![c] = IoIdle]
    /\ UNCHANGED <<flightVars, deferVars, clientVars, adminVars, allocVars,
                   putter, pump, scan, published, finished>>

(* Mutant: addToDeferredPQ is not called.                                  *)
RequeueDeferredMapOnly(c) ==
    /\ io[c].pc = "removed" /\ io[c].op = "REQdelay"
    /\ deferredMessages' = deferredMessages \cup {io[c].obj}
    /\ io' = [io EXCEPT ![c].pc = "count"]
    /\ UNCHANGED <<flightVars, deferredPQ, queueVars, clientVars, adminVars,
                   allocVars, putter, pump, scan, published, finished>>

(* The rest of RequeueMessage with a delay: StartDeferredTimeout.          *)
RequeueDeferred(c) ==
    /\ io[c].pc = "removed" /\ io[c].op = "REQdelay"
    /\ LET o == io[c].obj
       IN IF Id(o) \in Ids(deferredMessages)
          THEN /\ dropped' = dropped \cup {Id(o)}
               /\ io' = [io EXCEPT ![c] = IoIdle]
               /\ UNCHANGED deferredMessages
          ELSE /\ deferredMessages' = deferredMessages \cup {o}
               /\ io' = [io EXCEPT ![c].pc = "pushed"]
               /\ UNCHANGED dropped
    /\ UNCHANGED <<flightVars, deferredPQ, memoryMsgChan, backend, faults,
                   clientVars, adminVars, allocVars, putter, pump, scan,
                   published, finished>>

RequeueAddToDeferredPQ(c) ==
    /\ io[c].pc = "pushed" /\ io[c].op = "REQdelay"
    /\ deferredPQ' = deferredPQ \cup {io[c].obj}
    /\ io' = [io EXCEPT ![c].pc = "count"]
    /\ UNCHANGED <<flightVars, deferredMessages, queueVars, clientVars,
                   adminVars, allocVars, putter, pump, scan, published, finished>>

(* Mutant: TouchMessage returns without addToInFlightPQ.                   *)
TouchPushOnly(c) ==
    /\ io[c].pc = "removed" /\ io[c].op = "TOUCH"
    /\ inFlightMessages' = inFlightMessages \cup {io[c].obj}
    /\ io' = [io EXCEPT ![c] = IoIdle]
    /\ UNCHANGED <<inFlightPQ, index, clientID, panicked, deferVars, queueVars,
                   clientVars, adminVars, allocVars, putter, pump, scan,
                   published, finished>>

(* The rest of TouchMessage.                                               *)
TouchPush(c) ==
    /\ io[c].pc = "removed" /\ io[c].op = "TOUCH"
    /\ LET o == io[c].obj
       IN IF Id(o) \in Ids(inFlightMessages)
          THEN /\ dropped' = dropped \cup {Id(o)}
               /\ io' = [io EXCEPT ![c] = IoIdle]
               /\ UNCHANGED inFlightMessages
          ELSE /\ inFlightMessages' = inFlightMessages \cup {o}
               /\ io' = [io EXCEPT ![c].pc = "pushed"]
               /\ UNCHANGED dropped
    /\ UNCHANGED <<inFlightPQ, index, clientID, panicked, deferVars,
                   memoryMsgChan, backend, faults, clientVars, adminVars,
                   allocVars, putter, pump, scan, published, finished>>

TouchAdd(c) ==
    /\ io[c].pc = "pushed" /\ io[c].op = "TOUCH"
    /\ Push(io[c].obj)
    /\ io' = [io EXCEPT ![c] = IoIdle]
    /\ UNCHANGED <<inFlightMessages, clientID, panicked, deferVars, queueVars,
                   clientVars, adminVars, allocVars, putter, pump, scan,
                   published, finished>>

(* client.FinishedMessage and client.RequeuedMessage.                      *)
IoCount(c) ==
    /\ io[c].pc = "count"
    /\ inFlightCount' = [inFlightCount EXCEPT ![c] = @ - 1]
    /\ io' = [io EXCEPT ![c] = IoIdle]
    /\ UNCHANGED <<flightVars, deferVars, queueVars, clients, conn, sent,
                   adminVars, allocVars, putter, pump, scan, published, finished>>

-----------------------------------------------------------------------------
(* processInFlightQueue: PeekAndShift, the unlocked read of msg.clientID,  *)
(* popInFlightMessage, TimedOutMessage and put are separate sections.  Any *)
(* entry may be the one that has timed out.  exitMutex keeps exit away     *)
(* from a round, and only one worker serves a channel at a time.           *)
ScanShift(o) ==
    /\ scan = ScanIdle /\ ~exitFlag
    /\ Pop(o)
    /\ scan' = [pc |-> "shifted", obj |-> o, cid |-> NoClient]
    /\ UNCHANGED <<inFlightMessages, clientID, panicked, deferVars, queueVars,
                   clientVars, adminVars, allocVars, putter, pump, io,
                   published, finished>>

ScanReadClient ==
    /\ scan.pc = "shifted"
    /\ scan' = [scan EXCEPT !.pc = "read", !.cid = clientID[scan.obj]]
    /\ UNCHANGED <<flightVars, deferVars, queueVars, clientVars, adminVars,
                   allocVars, putter, pump, io, published, finished>>

(* Mutant: the error of popInFlightMessage is ignored.                     *)
ScanPopUnchecked ==
    /\ scan.pc = "read"
    /\ inFlightMessages' = {o \in inFlightMessages : \/ Id(o) # Id(scan.obj)
                                                     \/ clientID[o] # scan.cid}
    /\ scan' = [scan EXCEPT !.pc = "popped"]
    /\ UNCHANGED <<inFlightPQ, index, clientID, panicked, deferVars, queueVars,
                   clientVars, adminVars, allocVars, putter, pump, io,
                   published, finished>>

ScanPop ==
    /\ scan.pc = "read"
    /\ LET owned == {o \in inFlightMessages : /\ Id(o) = Id(scan.obj)
                                              /\ clientID[o] = scan.cid}
       IN /\ inFlightMessages' = inFlightMessages \ owned
          /\ scan' = IF owned = {} THEN ScanIdle
                                   ELSE [scan EXCEPT !.pc = "popped"]
    /\ UNCHANGED <<inFlightPQ, index, clientID, panicked, deferVars, queueVars,
                   clientVars, adminVars, allocVars, putter, pump, io,
                   published, finished>>

(* Mutants: TimedOutMessage is not called; a missing client stops the scan. *)
ScanTimedOutUncounted ==
    /\ scan.pc = "popped" /\ LockFree
    /\ scan' = [scan EXCEPT !.pc = "put"]
    /\ UNCHANGED <<flightVars, deferVars, queueVars, clientVars, adminVars,
                   allocVars, putter, pump, io, published, finished>>

ScanTimedOutConnected ==
    /\ scan.pc = "popped" /\ LockFree
    /\ LET c == clientID[scan.obj]
       IN c \in clients /\ inFlightCount' = [inFlightCount EXCEPT ![c] = @ - 1]
    /\ scan' = [scan EXCEPT !.pc = "put"]
    /\ UNCHANGED <<flightVars, deferVars, queueVars, clients, conn, sent,
                   adminVars, allocVars, putter, pump, io, published, finished>>

ScanTimedOut ==
    /\ scan.pc = "popped" /\ LockFree
    /\ inFlightCount' = LET c == clientID[scan.obj] IN
           IF c \in clients THEN [inFlightCount EXCEPT ![c] = @ - 1]
                            ELSE inFlightCount
    /\ scan' = [scan EXCEPT !.pc = "put"]
    /\ UNCHANGED <<flightVars, deferVars, queueVars, clients, conn, sent,
                   adminVars, allocVars, putter, pump, io, published, finished>>

(* c.put(msg), of either queue; its error is ignored.                      *)
ScanPut ==
    /\ scan.pc = "put"
    /\ put(scan.obj)
    /\ scan' = ScanIdle
    /\ UNCHANGED <<flightVars, deferVars, clientVars, adminVars, allocVars,
                   putter, pump, io, published, finished>>

(* processDeferredQueue.                                                   *)
ScanShiftDeferred(o) ==
    /\ scan = ScanIdle /\ ~exitFlag
    /\ o \in deferredPQ
    /\ deferredPQ' = deferredPQ \ {o}
    /\ scan' = [pc |-> "dshifted", obj |-> o, cid |-> NoClient]
    /\ UNCHANGED <<flightVars, deferredMessages, queueVars, clientVars,
                   adminVars, allocVars, putter, pump, io, published, finished>>

(* Mutant: the expired message is not put back.                            *)
ScanPopDeferredNoPut ==
    /\ scan.pc = "dshifted"
    /\ deferredMessages' = {o \in deferredMessages : Id(o) # Id(scan.obj)}
    /\ scan' = ScanIdle
    /\ UNCHANGED <<flightVars, deferredPQ, queueVars, clientVars, adminVars,
                   allocVars, putter, pump, io, published, finished>>

ScanPopDeferred ==
    /\ scan.pc = "dshifted"
    /\ LET found == {o \in deferredMessages : Id(o) = Id(scan.obj)}
       IN /\ deferredMessages' = deferredMessages \ found
          /\ scan' = IF found = {} THEN ScanIdle ELSE [scan EXCEPT !.pc = "put"]
    /\ UNCHANGED <<flightVars, deferredPQ, queueVars, clientVars, adminVars,
                   allocVars, putter, pump, io, published, finished>>

-----------------------------------------------------------------------------
(* Empty, by the HTTP API or by exit(true).  Its first step takes the      *)
(* channel's lock, which it holds until the backend is empty.              *)
EmptyInFlight ==
    /\ \/ admin = "none" /\ empties < MaxEmpty /\ empties' = empties + 1
       \/ admin = "delete" /\ UNCHANGED empties
    /\ inFlightMessages' = {}
    /\ inFlightPQ' = [o \in Obj |-> 0]
    /\ dropped' = dropped \cup Ids(inFlightMessages)
    /\ admin' = "deferred"
    /\ UNCHANGED <<index, clientID, panicked, deferVars, memoryMsgChan, backend,
                   faults, clientVars, exitFlag, allocVars, threadVars,
                   published, finished>>

EmptyDeferred ==
    /\ admin = "deferred"
    /\ deferredMessages' = {}
    /\ deferredPQ' = {}
    /\ dropped' = dropped \cup Ids(deferredMessages)
    /\ admin' = "clients"
    /\ UNCHANGED <<flightVars, memoryMsgChan, backend, faults, clientVars,
                   exitFlag, empties, allocVars, threadVars, published, finished>>

EmptyClients ==
    /\ admin = "clients"
    /\ inFlightCount' = [c \in Clients |-> IF c \in clients
                                           THEN 0 ELSE inFlightCount[c]]
    /\ admin' = "memory"
    /\ UNCHANGED <<flightVars, deferVars, queueVars, clients, conn, sent,
                   exitFlag, empties, allocVars, threadVars, published, finished>>

EmptyMemory ==
    /\ admin = "memory"
    /\ IF memoryMsgChan = {}
       THEN admin' = "backend" /\ UNCHANGED <<memoryMsgChan, dropped>>
       ELSE \E o \in memoryMsgChan : /\ memoryMsgChan' = memoryMsgChan \ {o}
                                     /\ dropped' = dropped \cup {Id(o)}
                                     /\ UNCHANGED admin
    /\ UNCHANGED <<flightVars, deferVars, backend, faults, clientVars, exitFlag,
                   empties, allocVars, threadVars, published, finished>>

EmptyBackend ==
    /\ admin = "backend"
    /\ backend' = {}
    /\ dropped' = dropped \cup backend
    /\ admin' = IF exitFlag THEN "deleted" ELSE "none"
    /\ UNCHANGED <<flightVars, deferVars, memoryMsgChan, faults, clientVars,
                   exitFlag, empties, allocVars, threadVars, published, finished>>

(* exit takes exitMutex; Close waits for the topic's pump beforehand.      *)
exit(deleted) ==
    /\ admin = "none" /\ ~exitFlag
    /\ scan = ScanIdle
    /\ deleted \/ putter = NoObj
    /\ exitFlag' = TRUE
    /\ admin' = IF deleted THEN "delete" ELSE "flushMemory"
    /\ UNCHANGED <<flightVars, deferVars, queueVars, clientVars, empties,
                   allocVars, threadVars, published, finished>>

FlushMemory ==
    /\ admin = "flushMemory"
    /\ IF memoryMsgChan = {}
       THEN admin' = "flushInFlight" /\ UNCHANGED queueVars
       ELSE \E o \in memoryMsgChan : /\ memoryMsgChan' = memoryMsgChan \ {o}
                                     /\ writeMessageToBackend({Id(o)})
                                     /\ UNCHANGED admin
    /\ UNCHANGED <<flightVars, deferVars, clientVars, exitFlag, empties,
                   allocVars, threadVars, published, finished>>

FlushInFlight ==
    /\ admin = "flushInFlight"
    /\ writeMessageToBackend(Ids(inFlightMessages))
    /\ admin' = "flushDeferred"
    /\ UNCHANGED <<flightVars, deferVars, memoryMsgChan, clientVars, exitFlag,
                   empties, allocVars, threadVars, published, finished>>

FlushDeferred ==
    /\ admin = "flushDeferred"
    /\ writeMessageToBackend(Ids(deferredMessages))
    /\ admin' = "closed"
    /\ UNCHANGED <<flightVars, deferVars, memoryMsgChan, clientVars, exitFlag,
                   empties, allocVars, threadVars, published, finished>>

-----------------------------------------------------------------------------
PumpNext(c) ==
    \/ PumpRecvMemory(c) \/ PumpRecvBackend(c) \/ PumpSample(c)
    \/ PumpPush(c) \/ PumpAdd(c) \/ PumpSend(c) \/ PumpExit(c)

IoNext(c) ==
    \/ \E op \in {"FIN", "REQ", "REQdelay", "TOUCH"} : popInFlightMessage(c, op)
    \/ IoRemovePQ(c) \/ RequeueNow(c) \/ RequeueDeferred(c)
    \/ RequeueAddToDeferredPQ(c) \/ TouchPush(c) \/ TouchAdd(c) \/ IoCount(c)

ScanNext ==
    \/ \E o \in Obj : ScanShift(o) \/ ScanShiftDeferred(o)
    \/ ScanReadClient \/ ScanPop \/ ScanTimedOut \/ ScanPut \/ ScanPopDeferred

AdminNext ==
    \/ EmptyInFlight \/ EmptyDeferred \/ EmptyClients \/ EmptyMemory
    \/ EmptyBackend \/ (\E d \in BOOLEAN : exit(d))
    \/ FlushMemory \/ FlushInFlight \/ FlushDeferred

Next ==
    /\ ~panicked
    /\ \/ \E m \in Msgs : PutMessage(m) \/ PutMessageDeferred(m)
       \/ PutAddToDeferredPQ
       \/ \E c \in Clients : \/ AddClient(c) \/ RemoveClient(c)
                             \/ PumpNext(c) \/ IoNext(c)
       \/ ScanNext
       \/ AdminNext

Spec == Init /\ [][Next]_vars

(* A goroutine in the middle of a handler goes on: nothing it waits for is  *)
(* held for ever.  queueScanLoop visits every channel again and again, a    *)
(* deadline passes for good (TOUCH moves it by at most MaxMsgTimeout), and  *)
(* PeekAndShift takes the entries in the order of their deadlines, so no    *)
(* entry is passed over for ever.  Nothing makes a consumer connect, answer *)
(* or leave, a topic publish, or an operator call Empty or exit.            *)
Fairness ==
    /\ WF_vars(~panicked /\ PutAddToDeferredPQ)
    /\ \A c \in Clients :
          /\ WF_vars(~panicked /\ (PumpPush(c) \/ PumpAdd(c) \/ PumpSend(c) \/ PumpExit(c)))
          /\ WF_vars(~panicked /\ (\/ IoRemovePQ(c) \/ RequeueNow(c)
                                  \/ RequeueDeferred(c)
                                  \/ RequeueAddToDeferredPQ(c)
                                  \/ TouchPush(c) \/ TouchAdd(c) \/ IoCount(c)))
    /\ WF_vars(~panicked /\ (\/ ScanReadClient \/ ScanPop \/ ScanTimedOut
                            \/ ScanPut \/ ScanPopDeferred))
    /\ \A o \in Obj : /\ SF_vars(~panicked /\ ScanShift(o))
                      /\ SF_vars(~panicked /\ ScanShiftDeferred(o))
    /\ WF_vars(~panicked /\ (\/ EmptyDeferred \/ EmptyClients \/ EmptyMemory
                            \/ EmptyBackend))

FairSpec == Spec /\ Fairness

-----------------------------------------------------------------------------
(* Where a message can be.  A goroutine that has taken a message out of    *)
(* one structure and not yet put it into another holds it in its hand.     *)
PumpHolds(c) == pump[c].pc = "got"
IoHolds(c) == io[c].pc \in {"popped", "removed"} /\ io[c].op # "FIN"
ScanHolds == scan.pc \in {"popped", "put"}

Kinds == {"memory", "inflight", "deferred", "backend", "pump", "io", "scan"}
Holders(k) == CASE k \in {"memory", "inflight", "deferred"} -> Obj
                [] k = "backend" -> Msgs
                [] k \in {"pump", "io"} -> Clients
                [] k = "scan" -> {NoClient}

At(m, k, h) ==
    \/ k = "memory" /\ h \in memoryMsgChan /\ Id(h) = m
    \/ k = "inflight" /\ h \in inFlightMessages /\ Id(h) = m
    \/ k = "deferred" /\ h \in deferredMessages /\ Id(h) = m
    \/ k = "backend" /\ h = m /\ m \in backend
    \/ k = "pump" /\ h \in Clients /\ PumpHolds(h) /\ Id(pump[h].obj) = m
    \/ k = "io" /\ h \in Clients /\ IoHolds(h) /\ Id(io[h].obj) = m
    \/ k = "scan" /\ h = NoClient /\ ScanHolds /\ Id(scan.obj) = m

Somewhere(m) == \E k \in Kinds : \E h \in Holders(k) : At(m, k, h)

(* Close copies what is in flight and deferred to the backend and then     *)
(* abandons the process's memory: from then on a message has two places.   *)
Copied == admin \in {"flushDeferred", "closed"}

(* A message is never in two places: whatever redelivery, time-out, TOUCH, *)
(* REQ, spilling to disk and Empty do to each other, the channel does not  *)
(* duplicate a message (put, pushInFlightMessage, popInFlightMessage,      *)
(* processInFlightQueue, processDeferredQueue).                            *)
UniquePlace ==
    ~Copied => \A m \in Msgs : \A k \in Kinds : \A h \in Holders(k) :
                  At(m, k, h) => \A j \in Kinds : \A i \in Holders(j) :
                                    At(m, j, i) => j = k /\ i = h

(* Every accepted message is somewhere in the channel, was finished by a   *)
(* consumer, or was let go of where the code lets go of messages: Empty,   *)
(* Delete, a failed disk write, a full ephemeral channel, a sampling       *)
(* consumer, or a REQ that finds the channel exiting.                      *)
Accounted ==
    \A m \in published : m \in finished \cup dropped \/ Somewhere(m)

(* A message that a consumer finished, or that was emptied away, is        *)
(* nowhere in the channel: FinishMessage wins or loses against the         *)
(* time-out scan as a whole, and no late put brings the message back.      *)
FinishedIsFinal ==
    ~Copied => \A m \in finished \cup dropped : ~Somewhere(m)

(* The consumer of a message in flight either times out (its heap entry    *)
(* exists, or is about to be added by the goroutine that pushed it, or the *)
(* scan has just taken it and will find it) or answers.  Without Empty and *)
(* without messages read back from disk, no in-flight message is ever out  *)
(* of the time-out scan's sight.                                           *)
Covered(o) ==
    \/ inFlightPQ[o] > 0
    \/ \E c \in Clients : pump[c].pc = "pushed" /\ pump[c].obj = o
    \/ \E c \in Clients : /\ io[c].pc = "pushed" /\ io[c].op = "TOUCH"
                          /\ io[c].obj = o
    \/ scan.obj = o /\ scan.pc = "shifted"
    \/ scan.obj = o /\ scan.pc = "read" /\ scan.cid = clientID[o]
InFlightCovered == ~exitFlag => \A o \in inFlightMessages : Covered(o)

(* Likewise every deferred message has its entry in the deferred heap, or  *)
(* a goroutine that is about to add it or has just taken it.               *)
DeferredCovered ==
    \A o \in deferredMessages :
       \/ o \in deferredPQ
       \/ putter = o
       \/ \E c \in Clients : /\ io[c].pc = "pushed" /\ io[c].op = "REQdelay"
                             /\ io[c].obj = o
       \/ scan.pc = "dshifted" /\ Id(scan.obj) = Id(o)

(* clientV2.InFlightCount, which gates delivery in IsReadyForMessages, is  *)
(* the number of messages in flight to the client, give or take the        *)
(* operations that are between the map and the counter.                    *)
One(b) == IF b THEN 1 ELSE 0
Owned(c) == Cardinality({o \in inFlightMessages : clientID[o] = c})
CountExact ==
    ~exitFlag /\ faults = 0 =>
    \A c \in clients :
       inFlightCount[c] =
          Owned(c) - One(pump[c].pc \in {"pushed", "added"})
                   + One(\/ io[c].pc \in {"popped", "removed", "count"}
                         \/ io[c].pc = "pushed" /\ io[c].op = "REQdelay")
                   + One(scan.pc = "popped" /\ clientID[scan.obj] = c)

(* A message in flight to a consumer that is gone is queued again: nothing *)
(* requeues it when the connection ends (IOLoop only calls RemoveClient),  *)
(* so everything depends on the time-out scan finding it.                  *)
OrphanRequeued ==
    \A m \in Msgs :
       (\E o \in inFlightMessages : Id(o) = m /\ conn[clientID[o]] = "stopped")
       ~> (m \in Ids(memoryMsgChan) \cup backend \cup dropped \/ exitFlag)

(* A deferred message (DPUB, or REQ with a delay) is queued in the end,    *)
(* although its map and its heap are updated under separate lock sections. *)
DeferredRequeued ==
    \A m \in Msgs :
       m \in Ids(deferredMessages)
       ~> (m \in Ids(memoryMsgChan) \cup backend \cup dropped \/ exitFlag)
=============================================================================
