---------------------- MODULE NsqdChannelConservation ----------------------
(***************************************************************************)
(* A channel of nsqd neither loses nor duplicates a message.               *)
(*                                                                         *)
(* The first part proves the types. Every action does one of a few things  *)
(* to the places of messages: nothing, move one message, let go of one     *)
(* message or of all messages of a kind of place, or copy. One lemma for   *)
(* each says that it preserves Cons; the proof of an action only shows     *)
(* which one it does.                                                      *)
(***************************************************************************)
EXTENDS NsqdChannel, TLAPS
-----------------------------------------------------------------------------
(* A *Message carries the ID of a message.                                 *)
LEMMA ObjId ==
    /\ \A o \in Obj : Id(o) \in Msgs
    /\ \A m \in Msgs : <<m, 0>> \in Obj /\ Id(<<m, 0>>) = m
    /\ \A m \in Msgs : \A g : Id(<<m, g>>) = m
  BY ChannelConstants DEF Obj, Id

(* The Message read back from disk is one of Obj: a message is decoded at  *)
(* most once per delivery.                                                 *)
AllocOK == \A m \in Msgs : gen[m] <= attempts[m]

TypeInv == TypeOK /\ AllocOK

(* The goroutines of a client that are between two handlers.               *)
LEMMA IdleFields == Idle.pc = "idle" /\ IoIdle.pc = "idle"
  BY ZenonT(60) DEF Idle, IoIdle

(* The heap operations keep the types of the heap and of the indices.      *)
LEMMA SettleType ==
    ASSUME NEW pq \in [Obj -> Nat], NEW idx \in [Obj -> IndexStates], NEW o,
           Settle(pq, idx, o)
    PROVE  inFlightPQ' \in [Obj -> Nat] /\ index' \in [Obj -> IndexStates]
  BY DEF Settle, IndexStates

LEMMA PushType ==
    ASSUME TypeOK, NEW o \in Obj, Push(o)
    PROVE  inFlightPQ' \in [Obj -> Nat] /\ index' \in [Obj -> IndexStates]
  <1>1. [inFlightPQ EXCEPT ![o] = @ + 1] \in [Obj -> Nat]
    BY DEF TypeOK
  <1>2. [index EXCEPT ![o] = "queued"] \in [Obj -> IndexStates]
    BY DEF TypeOK, IndexStates
  <1> QED BY <1>1, <1>2, SettleType, ZenonT(60) DEF Push

LEMMA PopType ==
    ASSUME TypeOK, NEW o \in Obj, Pop(o)
    PROVE  inFlightPQ' \in [Obj -> Nat] /\ index' \in [Obj -> IndexStates]
  <1>1. [inFlightPQ EXCEPT ![o] = @ - 1] \in [Obj -> Nat]
    BY DEF TypeOK, Pop
  <1>2. [index EXCEPT ![o] = "popped"] \in [Obj -> IndexStates]
    BY DEF TypeOK, IndexStates
  <1> QED BY <1>1, <1>2, SettleType, ZenonT(60) DEF Pop

LEMMA RemoveType ==
    ASSUME TypeOK, NEW o \in Obj, removeFromInFlightPQ(o)
    PROVE  /\ inFlightPQ' \in [Obj -> Nat] /\ index' \in [Obj -> IndexStates]
           /\ panicked' \in BOOLEAN
  BY PopType, ZenonT(60) DEF removeFromInFlightPQ, TypeOK

(* Queueing a message keeps the types of the queues.                       *)
LEMMA WriteType ==
    ASSUME TypeOK, NEW S \in SUBSET Msgs, writeMessageToBackend(S)
    PROVE  /\ backend' \subseteq Msgs /\ dropped' \subseteq Msgs
           /\ faults' \in 0 .. MaxFaults
  BY ChannelConstants DEF writeMessageToBackend, TypeOK

LEMMA PutType ==
    ASSUME TypeOK, NEW o \in Obj, put(o)
    PROVE  /\ memoryMsgChan' \subseteq Obj /\ backend' \subseteq Msgs
           /\ dropped' \subseteq Msgs /\ faults' \in 0 .. MaxFaults
  BY WriteType, ObjId DEF put, TypeOK

(* An initial state is well typed.                                         *)
LEMMA InitType == Init => TypeInv
  <1> SUFFICES ASSUME Init PROVE TypeInv
    OBVIOUS
  <1>1. exitFlag \in BOOLEAN /\ panicked \in BOOLEAN
    BY ZenonT(60) DEF Init
  <1>2. admin \in AdminStates /\ empties \in 0 .. MaxEmpty /\ faults \in 0 .. MaxFaults
    BY ChannelConstants DEF Init, AdminStates
  <1>3. TypeOK
    BY <1>1, <1>2, ChannelConstants DEF Init, TypeOK, IndexStates, ConnStates,
       PumpStates, IoStates, ScanStates
  <1>4. AllocOK
    BY DEF Init, AllocOK
  <1> QED BY <1>3, <1>4 DEF TypeInv

(* Every step keeps the state well typed.                                  *)
LEMMA NextType == TypeInv /\ [Next]_vars => TypeInv'
  <1> SUFFICES ASSUME TypeInv, [Next]_vars PROVE TypeInv'
    OBVIOUS
  <1> USE DEF flightVars, deferVars, queueVars, clientVars, adminVars, allocVars,
              threadVars
  <1>t. TypeOK /\ AllocOK
    BY DEF TypeInv
  <1>a. ASSUME UNCHANGED allocVars PROVE AllocOK'
    BY <1>t, <1>a, ZenonT(60) DEF AllocOK
  <1>1. ASSUME NEW m \in Msgs, PutMessage(m) PROVE TypeInv'
    <2>1. TypeOK'
      BY <1>t, <1>1, ObjId, PutType, ZenonT(60) DEF PutMessage, TypeOK
    <2> QED BY <2>1, <1>1, <1>a, ZenonT(60) DEF PutMessage, TypeInv
  <1>2. ASSUME NEW m \in Msgs, PutMessageDeferred(m) PROVE TypeInv'
    <2>1. TypeOK'
      BY <1>t, <1>2, ObjId, ZenonT(60) DEF PutMessageDeferred, TypeOK
    <2> QED BY <2>1, <1>2, <1>a, ZenonT(60) DEF PutMessageDeferred, TypeInv
  <1>3. CASE PutAddToDeferredPQ
    <2>1. TypeOK'
      BY <1>t, <1>3, ZenonT(60) DEF PutAddToDeferredPQ, TypeOK
    <2> QED BY <2>1, <1>3, <1>a, ZenonT(60) DEF PutAddToDeferredPQ, TypeInv
  <1>4. ASSUME NEW c \in Clients, AddClient(c) \/ RemoveClient(c) PROVE TypeInv'
    <2>1. TypeOK'
      BY <1>t, <1>4, ZenonT(60) DEF AddClient, RemoveClient, TypeOK, ConnStates
    <2> QED BY <2>1, <1>4, <1>a, ZenonT(60) DEF AddClient, RemoveClient, TypeInv
  <1>5. ASSUME NEW c \in Clients, PumpNext(c) PROVE TypeInv'
    <2>1. CASE PumpRecvMemory(c)
      <3>0. attempts' \in [Msgs -> 0 .. MaxAttempts]
        BY <1>t, <2>1, ObjId, ChannelConstants DEF PumpRecvMemory, Receive, TypeOK
      <3>1. TypeOK'
        BY <1>t, <2>1, <3>0 DEF PumpRecvMemory, Receive, TypeOK, PumpStates
      <3>2. AllocOK'
        BY <1>t, <2>1, ObjId, ChannelConstants
           DEF PumpRecvMemory, Receive, TypeOK, AllocOK
      <3> QED BY <3>1, <3>2, ZenonT(60) DEF TypeInv
    <2>2. CASE PumpRecvBackend(c)
      <3>1. PICK m \in backend : /\ Receive(c, <<m, gen[m] + 1>>)
                                 /\ backend' = backend \ {m}
                                 /\ gen' = [gen EXCEPT ![m] = @ + 1]
        BY <2>2, ZenonT(60) DEF PumpRecvBackend
      <3>2. m \in Msgs /\ Id(<<m, gen[m] + 1>>) = m
        BY <1>t, ObjId, ZenonT(60) DEF TypeOK
      <3>3. gen[m] + 1 \in 0 .. MaxAttempts /\ attempts[m] + 1 \in 0 .. MaxAttempts
        BY <1>t, <3>1, <3>2, ChannelConstants DEF TypeOK, AllocOK, Receive
      <3>4. <<m, gen[m] + 1>> \in Obj
        BY <3>2, <3>3, ZenonT(60) DEF Obj
      <3>5. TypeOK'
        BY <1>t, <2>2, <3>1, <3>2, <3>3, <3>4, ZenonT(60)
           DEF PumpRecvBackend, Receive, TypeOK, PumpStates
      <3>6. AllocOK'
        BY <1>t, <2>2, <3>1, <3>2, <3>3, ChannelConstants
           DEF PumpRecvBackend, Receive, TypeOK, AllocOK
      <3> QED BY <3>5, <3>6 DEF TypeInv
    <2>3. CASE PumpSample(c)
      <3>1. TypeOK'
        BY <1>t, <2>3, ObjId DEF PumpSample, TypeOK
      <3> QED BY <3>1, <2>3, <1>a DEF PumpSample, TypeInv
    <2>4. CASE PumpPush(c)
      <3>1. TypeOK'
        BY <1>t, <2>4 DEF PumpPush, TypeOK, PumpStates, Idle
      <3> QED BY <3>1, <2>4, <1>a DEF PumpPush, TypeInv
    <2>5. CASE PumpAdd(c)
      <3>1. TypeOK'
        BY <1>t, <2>5, PushType DEF PumpAdd, TypeOK, PumpStates, Idle
      <3> QED BY <3>1, <2>5, <1>a, ZenonT(60) DEF PumpAdd, TypeInv
    <2>6. CASE PumpSend(c)
      <3>1. pump[c].obj \in Obj
        BY <1>t, <2>6 DEF PumpSend, TypeOK, PumpStates, Idle
      <3>2. TypeOK'
        BY <1>t, <2>6, <3>1, ObjId, SMTT(60) DEF PumpSend, TypeOK, PumpStates, ConnStates
      <3> QED BY <3>2, <2>6, <1>a, ZenonT(60) DEF PumpSend, TypeInv
    <2>7. CASE PumpExit(c)
      <3>1. TypeOK'
        BY <1>t, <2>7, ZenonT(60) DEF PumpExit, TypeOK, ConnStates
      <3> QED BY <3>1, <2>7, <1>a, ZenonT(60) DEF PumpExit, TypeInv
    <2> QED BY <1>5, <2>1, <2>2, <2>3, <2>4, <2>5, <2>6, <2>7, ZenonT(60) DEF PumpNext
  <1>6. ASSUME NEW c \in Clients, IoNext(c) PROVE TypeInv'
    <2>0. io[c] # IoIdle => io[c].obj \in Obj /\ io[c].op \in {"FIN", "REQ", "REQdelay", "TOUCH"}
      BY <1>t, ZenonT(60) DEF TypeOK, IoStates
    <2>1. ASSUME NEW op \in {"FIN", "REQ", "REQdelay", "TOUCH"}, popInFlightMessage(c, op)
          PROVE  TypeInv'
      <3>1. TypeOK'
        BY <1>t, <2>1, ObjId DEF popInFlightMessage, TypeOK, IoStates
      <3> QED BY <3>1, <2>1, <1>a, ZenonT(60) DEF popInFlightMessage, TypeInv
    <2>2. CASE IoRemovePQ(c)
      <3>1. io[c] # IoIdle
        BY <2>2 DEF IoRemovePQ, IoIdle
      <3>2. TypeOK'
        BY <1>t, <2>0, <2>2, <3>1, RemoveType DEF IoRemovePQ, TypeOK, IoStates
      <3> QED BY <3>2, <2>2, <1>a DEF IoRemovePQ, TypeInv
    <2>3. CASE RequeueNow(c)
      <3>1. io[c] # IoIdle
        BY <2>3 DEF RequeueNow, IoIdle
      <3>2. io' \in [Clients -> IoStates]
        BY <1>t, <2>0, <2>3, <3>1 DEF RequeueNow, TypeOK, IoStates
      <3>3. /\ memoryMsgChan' \subseteq Obj /\ backend' \subseteq Msgs
            /\ dropped' \subseteq Msgs /\ faults' \in 0 .. MaxFaults
        BY <1>t, <2>0, <2>3, <3>1, PutType, ObjId DEF RequeueNow, TypeOK
      <3>4. TypeOK'
        BY <1>t, <2>3, <3>2, <3>3 DEF RequeueNow, TypeOK
      <3> QED BY <3>4, <2>3, <1>a DEF RequeueNow, TypeInv
    <2>4. CASE RequeueDeferred(c)
      <3>1. io[c] # IoIdle
        BY <2>4 DEF RequeueDeferred, IoIdle
      <3>2. TypeOK'
        BY <1>t, <2>0, <2>4, <3>1, ObjId DEF RequeueDeferred, TypeOK, IoStates
      <3> QED BY <3>2, <2>4, <1>a, ZenonT(60) DEF RequeueDeferred, TypeInv
    <2>5. CASE RequeueAddToDeferredPQ(c)
      <3>1. io[c] # IoIdle
        BY <2>5 DEF RequeueAddToDeferredPQ, IoIdle
      <3>2. TypeOK'
        BY <1>t, <2>0, <2>5, <3>1 DEF RequeueAddToDeferredPQ, TypeOK, IoStates
      <3> QED BY <3>2, <2>5, <1>a, ZenonT(60) DEF RequeueAddToDeferredPQ, TypeInv
    <2>6. CASE TouchPush(c)
      <3>1. io[c] # IoIdle
        BY <2>6 DEF TouchPush, IoIdle
      <3>2. TypeOK'
        BY <1>t, <2>0, <2>6, <3>1, ObjId DEF TouchPush, TypeOK, IoStates
      <3> QED BY <3>2, <2>6, <1>a, ZenonT(60) DEF TouchPush, TypeInv
    <2>7. CASE TouchAdd(c)
      <3>1. io[c] # IoIdle
        BY <2>7 DEF TouchAdd, IoIdle
      <3>2. TypeOK'
        BY <1>t, <2>0, <2>7, <3>1, PushType, ZenonT(60) DEF TouchAdd, TypeOK, IoStates
      <3> QED BY <3>2, <2>7, <1>a, ZenonT(60) DEF TouchAdd, TypeInv
    <2>8. CASE IoCount(c)
      <3>1. TypeOK'
        BY <1>t, <2>8 DEF IoCount, TypeOK, IoStates
      <3> QED BY <3>1, <2>8, <1>a, ZenonT(60) DEF IoCount, TypeInv
    <2> QED BY <1>6, <2>1, <2>2, <2>3, <2>4, <2>5, <2>6, <2>7, <2>8, ZenonT(60) DEF IoNext
  <1>7. CASE ScanNext
    <2>0. scan # ScanIdle => scan.obj \in Obj /\ scan.cid \in Clients \cup {NoClient}
      BY <1>t DEF TypeOK, ScanStates
    <2>1. ASSUME NEW o \in Obj, ScanShift(o) PROVE TypeInv'
      <3>1. TypeOK'
        BY <1>t, <2>1, PopType, ZenonT(60) DEF ScanShift, TypeOK, ScanStates
      <3> QED BY <3>1, <2>1, <1>a, ZenonT(60) DEF ScanShift, TypeInv
    <2>2. ASSUME NEW o \in Obj, ScanShiftDeferred(o) PROVE TypeInv'
      <3>1. TypeOK'
        BY <1>t, <2>2, ZenonT(60) DEF ScanShiftDeferred, TypeOK, ScanStates
      <3> QED BY <3>1, <2>2, <1>a, ZenonT(60) DEF ScanShiftDeferred, TypeInv
    <2>3. CASE ScanReadClient
      <3>1. scan # ScanIdle
        BY <2>3 DEF ScanReadClient, ScanIdle
      <3>2. TypeOK'
        BY <1>t, <2>0, <2>3, <3>1, ZenonT(60) DEF ScanReadClient, TypeOK, ScanStates
      <3> QED BY <3>2, <2>3, <1>a, ZenonT(60) DEF ScanReadClient, TypeInv
    <2>4. CASE ScanPop
      <3>1. scan # ScanIdle
        BY <2>4 DEF ScanPop, ScanIdle
      <3>2. TypeOK'
        BY <1>t, <2>0, <2>4, <3>1, ZenonT(60) DEF ScanPop, TypeOK, ScanStates
      <3> QED BY <3>2, <2>4, <1>a, ZenonT(60) DEF ScanPop, TypeInv
    <2>5. CASE ScanTimedOut
      <3>1. scan # ScanIdle
        BY <2>5 DEF ScanTimedOut, ScanIdle
      <3>2. TypeOK'
        BY <1>t, <2>0, <2>5, <3>1 DEF ScanTimedOut, TypeOK, ScanStates
      <3> QED BY <3>2, <2>5, <1>a, ZenonT(60) DEF ScanTimedOut, TypeInv
    <2>6. CASE ScanPut
      <3>1. scan # ScanIdle
        BY <2>6 DEF ScanPut, ScanIdle
      <3>2. TypeOK'
        BY <1>t, <2>0, <2>6, <3>1, PutType, ZenonT(60) DEF ScanPut, TypeOK, ScanStates
      <3> QED BY <3>2, <2>6, <1>a, ZenonT(60) DEF ScanPut, TypeInv
    <2>7. CASE ScanPopDeferred
      <3>1. scan # ScanIdle
        BY <2>7 DEF ScanPopDeferred, ScanIdle
      <3>2. TypeOK'
        BY <1>t, <2>0, <2>7, <3>1, ZenonT(60) DEF ScanPopDeferred, TypeOK, ScanStates
      <3> QED BY <3>2, <2>7, <1>a, ZenonT(60) DEF ScanPopDeferred, TypeInv
    <2> QED BY <1>7, <2>1, <2>2, <2>3, <2>4, <2>5, <2>6, <2>7, ZenonT(60) DEF ScanNext
  <1>8. CASE AdminNext
    <2>0. \A S \in SUBSET Obj : Ids(S) \in SUBSET Msgs
      BY ObjId, ZenonT(60) DEF Ids
    <2>1. CASE EmptyInFlight
      <3>1. TypeOK'
        BY <1>t, <2>0, <2>1, ChannelConstants DEF EmptyInFlight, TypeOK, AdminStates, EmptySteps
      <3> QED BY <3>1, <2>1, <1>a, ZenonT(60) DEF EmptyInFlight, TypeInv
    <2>2. CASE EmptyDeferred
      <3>1. TypeOK'
        BY <1>t, <2>0, <2>2, ZenonT(60) DEF EmptyDeferred, TypeOK, AdminStates, EmptySteps
      <3> QED BY <3>1, <2>2, <1>a, ZenonT(60) DEF EmptyDeferred, TypeInv
    <2>3. CASE EmptyClients
      <3>1. TypeOK'
        BY <1>t, <2>3 DEF EmptyClients, TypeOK, AdminStates, EmptySteps
      <3> QED BY <3>1, <2>3, <1>a, ZenonT(60) DEF EmptyClients, TypeInv
    <2>4. CASE EmptyMemory
      <3>1. TypeOK'
        BY <1>t, <2>4, ObjId DEF EmptyMemory, TypeOK, AdminStates, EmptySteps
      <3> QED BY <3>1, <2>4, <1>a, ZenonT(60) DEF EmptyMemory, TypeInv
    <2>5. CASE EmptyBackend
      <3>1. TypeOK'
        BY <1>t, <2>5, ZenonT(60) DEF EmptyBackend, TypeOK, AdminStates
      <3> QED BY <3>1, <2>5, <1>a DEF EmptyBackend, TypeInv
    <2>6. ASSUME NEW d \in BOOLEAN, exit(d) PROVE TypeInv'
      <3>1. TypeOK'
        BY <1>t, <2>6, ZenonT(60) DEF exit, TypeOK, AdminStates
      <3> QED BY <3>1, <2>6, <1>a, ZenonT(60) DEF exit, TypeInv
    <2>7. CASE FlushMemory
      <3>1. TypeOK'
        BY <1>t, <2>7, ObjId, WriteType, ZenonT(60) DEF FlushMemory, TypeOK, AdminStates
      <3> QED BY <3>1, <2>7, <1>a DEF FlushMemory, TypeInv
    <2>8. CASE FlushInFlight
      <3>1. TypeOK'
        BY <1>t, <2>0, <2>8, WriteType, ZenonT(60) DEF FlushInFlight, TypeOK, AdminStates
      <3> QED BY <3>1, <2>8, <1>a DEF FlushInFlight, TypeInv
    <2>9. CASE FlushDeferred
      <3>1. TypeOK'
        BY <1>t, <2>0, <2>9, WriteType, ZenonT(60) DEF FlushDeferred, TypeOK, AdminStates
      <3> QED BY <3>1, <2>9, <1>a DEF FlushDeferred, TypeInv
    <2> QED BY <1>8, <2>1, <2>2, <2>3, <2>4, <2>5, <2>6, <2>7, <2>8, <2>9, ZenonT(60) DEF AdminNext
  <1>9. CASE UNCHANGED vars
    BY <1>t, <1>9, ZenonT(60) DEF vars, TypeInv, TypeOK, AllocOK
  <1> QED BY <1>1, <1>2, <1>3, <1>4, <1>5, <1>6, <1>7, <1>8, <1>9, ZenonT(60) DEF Next

(* Every variable of the channel keeps its type, for any number of         *)
(* messages, consumers and deliveries.                                     *)
THEOREM TypeCorrect == Spec => []TypeOK
  <1>1. Spec => []TypeInv
    BY InitType, NextType, PTL DEF Spec
  <1> QED BY <1>1, PTL DEF TypeInv

-----------------------------------------------------------------------------
(* Places.                                                                 *)

Gone == finished \cup dropped
Anywhere(m) == \E k, h : At(m, k, h)

(* The inductive form of the three properties, without the bounds TLC      *)
(* needs, and the fact that the channel holds only accepted messages.      *)
Alone == ~Copied => \A m, k, h, j, i : At(m, k, h) /\ At(m, j, i) => j = k /\ i = h
Kept == \A m \in published : m \in Gone \/ Anywhere(m)
Final == ~Copied => \A m \in Gone : ~Anywhere(m)
Known == \A m : m \in Gone \/ Anywhere(m) => m \in published
Cons == Alone /\ Kept /\ Final /\ Known

(* exit waits for the scan, and the scan does not start on an exiting      *)
(* channel; flush is only called by exit.                                  *)
ExitOrder ==
    /\ exitFlag => scan = ScanIdle
    /\ admin \in {"flushMemory", "flushInFlight", "flushDeferred", "closed"}
       => exitFlag

ConsInv == TypeInv /\ Cons /\ ExitOrder

(* What a step may do to the messages of one kind of place ...             *)
Same(k) == \A m, h : At(m, k, h)' <=> At(m, k, h)
Gains(k, m0, h0) == \A m, h : At(m, k, h)' <=> At(m, k, h) \/ (m = m0 /\ h = h0)
Loses(k, m0, h0) ==
    At(m0, k, h0) /\ \A m, h : At(m, k, h)' <=> At(m, k, h) /\ ~(m = m0 /\ h = h0)
Clears(k) == \A m, h : ~At(m, k, h)'

(* ... and to all kinds but those of K.                                    *)
Quiet(K) == \A k : k \notin K => Same(k)

(* The messages a step lets go of and accepts.                             *)
LetsGo(S) == Gone' = Gone \cup S /\ UNCHANGED published /\ (Copied => Copied')
Accepts(m0, S) == /\ m0 \notin published
                  /\ published' = published \cup {m0}
                  /\ Gone' = Gone \cup S
                  /\ Copied => Copied'

-----------------------------------------------------------------------------
(* A step that changes no message's place.                                 *)
LEMMA StayStep ==
    ASSUME Cons, LetsGo({}), Quiet({})
    PROVE  Cons'
  <1> USE DEF Cons, LetsGo
  <1>1. \A m, k, h : At(m, k, h)' <=> At(m, k, h)
    BY ZenonT(60) DEF Quiet, Same
  <1>2. \A m : Anywhere(m)' <=> Anywhere(m)
    BY <1>1, ZenonT(60) DEF Anywhere
  <1>3. Alone'
    BY <1>1, ZenonT(60) DEF Alone
  <1>4. Kept' /\ Final' /\ Known'
    BY <1>2, ZenonT(60) DEF Kept, Final, Known
  <1> QED BY <1>3, <1>4, ZenonT(60)

(* A step that moves message m0 from one place to another of another kind. *)
LEMMA MoveStep ==
    ASSUME Cons, LetsGo({}), NEW m0, NEW k0, NEW h0, NEW k1, NEW h1, k0 # k1,
           Loses(k0, m0, h0), Gains(k1, m0, h1), Quiet({k0, k1})
    PROVE  Cons'
  <1> USE DEF Cons, LetsGo
  <1>0. /\ At(m0, k0, h0)
        /\ \A m, k, h : At(m, k, h)' <=> \/ At(m, k, h) /\ ~(m = m0 /\ k = k0 /\ h = h0)
                                         \/ m = m0 /\ k = k1 /\ h = h1
    BY ZenonT(60) DEF Loses, Gains, Quiet, Same
  <1>1. Anywhere(m0) /\ Anywhere(m0)'
    BY <1>0, ZenonT(60) DEF Anywhere
  <1>2. \A m : Anywhere(m)' <=> Anywhere(m)
    BY <1>0, <1>1, ZenonT(60) DEF Anywhere
  <1>3. Alone'
    BY <1>0 DEF Alone
  <1>4. Kept' /\ Final' /\ Known'
    BY <1>2, ZenonT(60) DEF Kept, Final, Known
  <1> QED BY <1>3, <1>4, ZenonT(60)

(* A step that lets go of message m0, which was at one place.              *)
LEMMA DropStep ==
    ASSUME Cons, NEW m0, LetsGo({m0}), NEW k0, NEW h0, Loses(k0, m0, h0), Quiet({k0})
    PROVE  Cons'
  <1> USE DEF Cons, LetsGo
  <1>0. /\ At(m0, k0, h0)
        /\ \A m, k, h : At(m, k, h)' <=> At(m, k, h) /\ ~(m = m0 /\ k = k0 /\ h = h0)
    BY ZenonT(60) DEF Loses, Quiet, Same
  <1>1. Anywhere(m0) /\ (~Copied' => ~Anywhere(m0)')
    BY <1>0, ZenonT(60) DEF Anywhere, Alone
  <1>2. \A m : m # m0 => (Anywhere(m)' <=> Anywhere(m))
    BY <1>0, ZenonT(60) DEF Anywhere
  <1>3. Alone'
    BY <1>0, ZenonT(60) DEF Alone
  <1>4. Kept' /\ Final' /\ Known'
    BY <1>1, <1>2, ZenonT(60) DEF Kept, Final, Known
  <1> QED BY <1>3, <1>4, ZenonT(60)

(* A step that forgets message m0 at one place while it is also at a place *)
(* of another kind.                                                        *)
LEMMA MergeStep ==
    ASSUME Cons, LetsGo({}), NEW m0, NEW k0, NEW h0, NEW k1, NEW h1, k0 # k1,
           Loses(k0, m0, h0), At(m0, k1, h1), Quiet({k0})
    PROVE  Cons'
  <1> USE DEF Cons, LetsGo
  <1>0. \A m, k, h : At(m, k, h)' <=> At(m, k, h) /\ ~(m = m0 /\ k = k0 /\ h = h0)
    BY ZenonT(60) DEF Loses, Quiet, Same
  <1>1. Anywhere(m0) /\ Anywhere(m0)'
    BY <1>0, ZenonT(60) DEF Anywhere
  <1>2. \A m : Anywhere(m)' <=> Anywhere(m)
    BY <1>0, <1>1, ZenonT(60) DEF Anywhere
  <1>3. Alone'
    BY <1>0 DEF Alone
  <1>4. Kept' /\ Final' /\ Known'
    BY <1>2, ZenonT(60) DEF Kept, Final, Known
  <1> QED BY <1>3, <1>4, ZenonT(60)

(* A step that accepts the new message m0 and stores it at one place.      *)
LEMMA ArriveStep ==
    ASSUME Cons, NEW m0, Accepts(m0, {}), NEW k1, NEW h1, Gains(k1, m0, h1), Quiet({k1})
    PROVE  Cons'
  <1> USE DEF Cons, Accepts
  <1>0. \A m, k, h : At(m, k, h)' <=> At(m, k, h) \/ (m = m0 /\ k = k1 /\ h = h1)
    BY ZenonT(60) DEF Gains, Quiet, Same
  <1>1. ~Anywhere(m0) /\ Anywhere(m0)' /\ m0 \notin Gone
    BY <1>0, ZenonT(60) DEF Anywhere, Known
  <1>2. \A m : m # m0 => (Anywhere(m)' <=> Anywhere(m))
    BY <1>0, ZenonT(60) DEF Anywhere
  <1>3. Alone'
    BY <1>0, <1>1 DEF Alone, Anywhere
  <1>4. Kept' /\ Final' /\ Known'
    BY <1>1, <1>2 DEF Kept, Final, Known
  <1> QED BY <1>3, <1>4, ZenonT(60)

(* A step that accepts the new message m0 and lets go of it at once.       *)
LEMMA RefuseStep ==
    ASSUME Cons, NEW m0, Accepts(m0, {m0}), Quiet({})
    PROVE  Cons'
  <1> USE DEF Cons, Accepts
  <1>0. \A m, k, h : At(m, k, h)' <=> At(m, k, h)
    BY DEF Quiet, Same
  <1>1. ~Anywhere(m0)
    BY DEF Known
  <1>2. \A m : Anywhere(m)' <=> Anywhere(m)
    BY <1>0, ZenonT(60) DEF Anywhere
  <1>3. Alone'
    BY <1>0, ZenonT(60) DEF Alone
  <1>4. Kept' /\ Final' /\ Known'
    BY <1>1, <1>2, ZenonT(60) DEF Kept, Final, Known
  <1> QED BY <1>3, <1>4

(* A step that lets go of every message at the places of kind k0.          *)
LEMMA ClearStep ==
    ASSUME Cons, NEW k0, Clears(k0), Quiet({k0}),
           NEW S, \A m : m \in S <=> \E h : At(m, k0, h), LetsGo(S)
    PROVE  Cons'
  <1> USE DEF Cons, LetsGo
  <1>0. \A m, k, h : At(m, k, h)' <=> At(m, k, h) /\ k # k0
    BY ZenonT(60) DEF Clears, Quiet, Same
  <1>1. \A m \in S : Anywhere(m) /\ (~Copied' => ~Anywhere(m)')
    BY <1>0 DEF Anywhere, Alone
  <1>2. \A m : m \notin S => (Anywhere(m)' <=> Anywhere(m))
    BY <1>0, ZenonT(60) DEF Anywhere
  <1>3. Alone'
    BY <1>0, ZenonT(60) DEF Alone
  <1>4. Kept' /\ Final' /\ Known'
    BY <1>1, <1>2, ZenonT(60) DEF Kept, Final, Known
  <1> QED BY <1>3, <1>4, ZenonT(60)

(* A step of flush, which copies the messages of S to the backend.         *)
LEMMA CopyStep ==
    ASSUME Cons, UNCHANGED published, Copied', Gone \subseteq Gone',
           \A m : Anywhere(m) => Anywhere(m)',
           \A m : m \in Gone' \/ Anywhere(m)' => m \in Gone \/ Anywhere(m)
    PROVE  Cons'
  BY SMTT(60) DEF Cons, Alone, Kept, Final, Known

-----------------------------------------------------------------------------
(* What a message's being at a kind of place means.                        *)
LEMMA AtMemory ==
    ASSUME NEW m, NEW h
    PROVE  /\ At(m, "memory", h) <=> h \in memoryMsgChan /\ Id(h) = m
           /\ At(m, "memory", h)' <=> h \in memoryMsgChan' /\ Id(h) = m
  BY ZenonT(60) DEF At, Id

LEMMA AtInFlight ==
    ASSUME NEW m, NEW h
    PROVE  /\ At(m, "inflight", h) <=> h \in inFlightMessages /\ Id(h) = m
           /\ At(m, "inflight", h)' <=> h \in inFlightMessages' /\ Id(h) = m
  BY ZenonT(60) DEF At, Id

LEMMA AtDeferred ==
    ASSUME NEW m, NEW h
    PROVE  /\ At(m, "deferred", h) <=> h \in deferredMessages /\ Id(h) = m
           /\ At(m, "deferred", h)' <=> h \in deferredMessages' /\ Id(h) = m
  BY ZenonT(60) DEF At, Id

LEMMA AtBackend ==
    ASSUME NEW m, NEW h
    PROVE  /\ At(m, "backend", h) <=> h = m /\ m \in backend
           /\ At(m, "backend", h)' <=> h = m /\ m \in backend'
  BY ZenonT(60) DEF At, Id

LEMMA AtPump ==
    ASSUME NEW m, NEW h
    PROVE  /\ At(m, "pump", h) <=> h \in Clients /\ PumpHolds(h) /\ Id(pump[h].obj) = m
           /\ At(m, "pump", h)' <=> h \in Clients /\ PumpHolds(h)' /\ Id(pump'[h].obj) = m
  BY ZenonT(60) DEF At, Id

LEMMA AtIo ==
    ASSUME NEW m, NEW h
    PROVE  /\ At(m, "io", h) <=> h \in Clients /\ IoHolds(h) /\ Id(io[h].obj) = m
           /\ At(m, "io", h)' <=> h \in Clients /\ IoHolds(h)' /\ Id(io'[h].obj) = m
  BY DEF At, Id

LEMMA AtScan ==
    ASSUME NEW m, NEW h
    PROVE  /\ At(m, "scan", h) <=> h = NoClient /\ ScanHolds /\ Id(scan.obj) = m
           /\ At(m, "scan", h)' <=> h = NoClient /\ ScanHolds' /\ Id(scan'.obj) = m
  BY ZenonT(60) DEF At, Id

LEMMA AtOther ==
    ASSUME NEW m, NEW k, NEW h, k \notin Kinds
    PROVE  ~At(m, k, h) /\ ~At(m, k, h)'
  BY ZenonT(60) DEF At, Kinds

(* Goroutines that keep the messages in their hands.                       *)
PumpsKeep == \A x \in Clients : /\ PumpHolds(x)' <=> PumpHolds(x)
                                /\ PumpHolds(x) => pump'[x].obj = pump[x].obj
IosKeep == \A x \in Clients : /\ IoHolds(x)' <=> IoHolds(x)
                              /\ IoHolds(x) => io'[x].obj = io[x].obj
ScanKeeps == (ScanHolds' <=> ScanHolds) /\ (ScanHolds => scan'.obj = scan.obj)

LEMMA SameHands ==
    /\ UNCHANGED pump => PumpsKeep
    /\ UNCHANGED io => IosKeep
    /\ UNCHANGED scan => ScanKeeps
  BY ZenonT(60) DEF PumpsKeep, IosKeep, ScanKeeps, PumpHolds, IoHolds, ScanHolds

LEMMA QuietRule ==
    ASSUME NEW K,
           "memory" \in K \/ UNCHANGED memoryMsgChan,
           "inflight" \in K \/ UNCHANGED inFlightMessages,
           "deferred" \in K \/ UNCHANGED deferredMessages,
           "backend" \in K \/ UNCHANGED backend,
           "pump" \in K \/ PumpsKeep, "io" \in K \/ IosKeep, "scan" \in K \/ ScanKeeps
    PROVE  Quiet(K)
  <1> SUFFICES ASSUME NEW k, k \notin K PROVE Same(k)
    BY DEF Quiet
  <1>1. CASE k \notin Kinds
    BY <1>1, AtOther, ZenonT(60) DEF Same
  <1>2. CASE k = "memory"
    BY <1>2, AtMemory, ZenonT(60) DEF Same
  <1>3. CASE k = "inflight"
    BY <1>3, AtInFlight, ZenonT(60) DEF Same
  <1>4. CASE k = "deferred"
    BY <1>4, AtDeferred, ZenonT(60) DEF Same
  <1>5. CASE k = "backend"
    BY <1>5, AtBackend DEF Same
  <1>6. CASE k = "pump"
    BY <1>6, AtPump, ZenonT(60) DEF Same, PumpsKeep
  <1>7. CASE k = "io"
    BY <1>7, AtIo, ZenonT(60) DEF Same, IosKeep
  <1>8. CASE k = "scan"
    BY <1>8, AtScan, ZenonT(60) DEF Same, ScanKeeps
  <1> QED BY <1>1, <1>2, <1>3, <1>4, <1>5, <1>6, <1>7, <1>8, ZenonT(60) DEF Kinds

(* What adding and removing do to one kind of place.                       *)
LEMMA MemoryEffect ==
    /\ \A o : memoryMsgChan' = memoryMsgChan \cup {o} => Gains("memory", Id(o), o)
    /\ \A o \in memoryMsgChan :
          memoryMsgChan' = memoryMsgChan \ {o} => Loses("memory", Id(o), o)
  BY AtMemory, ZenonT(60) DEF Gains, Loses

LEMMA InFlightEffect ==
    /\ \A o : inFlightMessages' = inFlightMessages \cup {o}
              => Gains("inflight", Id(o), o)
    /\ \A o \in inFlightMessages :
          inFlightMessages' = inFlightMessages \ {o} => Loses("inflight", Id(o), o)
    /\ inFlightMessages' = {} => Clears("inflight")
  BY AtInFlight, ZenonT(60) DEF Gains, Loses, Clears

LEMMA DeferredEffect ==
    /\ \A o : deferredMessages' = deferredMessages \cup {o}
              => Gains("deferred", Id(o), o)
    /\ \A o \in deferredMessages :
          deferredMessages' = deferredMessages \ {o} => Loses("deferred", Id(o), o)
    /\ deferredMessages' = {} => Clears("deferred")
  BY AtDeferred DEF Gains, Loses, Clears

LEMMA BackendEffect ==
    /\ \A m : backend' = backend \cup {m} => Gains("backend", m, m)
    /\ \A m \in backend : backend' = backend \ {m} => Loses("backend", m, m)
    /\ backend' = {} => Clears("backend")
  BY AtBackend, ZenonT(60) DEF Gains, Loses, Clears

LEMMA PumpEffect ==
    ASSUME NEW c \in Clients, \A x \in Clients \ {c} : pump'[x] = pump[x]
    PROVE  /\ ~PumpHolds(c) /\ PumpHolds(c)'
              => Gains("pump", Id(pump'[c].obj), c)
           /\ PumpHolds(c) /\ ~PumpHolds(c)' => Loses("pump", Id(pump[c].obj), c)
  <1>1. \A x \in Clients \ {c} : PumpHolds(x)' <=> PumpHolds(x)
    BY ZenonT(60) DEF PumpHolds
  <1> QED BY <1>1, AtPump DEF Gains, Loses

LEMMA IoEffect ==
    ASSUME NEW c \in Clients, \A x \in Clients \ {c} : io'[x] = io[x]
    PROVE  /\ ~IoHolds(c) /\ IoHolds(c)' => Gains("io", Id(io'[c].obj), c)
           /\ IoHolds(c) /\ ~IoHolds(c)' => Loses("io", Id(io[c].obj), c)
  <1>1. \A x \in Clients \ {c} : IoHolds(x)' <=> IoHolds(x)
    BY DEF IoHolds
  <1> QED BY <1>1, AtIo DEF Gains, Loses

LEMMA ScanEffect ==
    /\ ~ScanHolds /\ ScanHolds' => Gains("scan", Id(scan'.obj), NoClient)
    /\ ScanHolds /\ ~ScanHolds' => Loses("scan", Id(scan.obj), NoClient)
  BY AtScan DEF Gains, Loses

(* put has three outcomes.                                                 *)
LEMMA PutEffect ==
    ASSUME NEW o, put(o)
    PROVE  \/ /\ memoryMsgChan' = memoryMsgChan \cup {o}
              /\ UNCHANGED <<backend, dropped>>
           \/ /\ backend' = backend \cup {Id(o)}
              /\ UNCHANGED <<memoryMsgChan, dropped>>
           \/ /\ dropped' = dropped \cup {Id(o)}
              /\ UNCHANGED <<memoryMsgChan, backend>>
  <1>1. CASE Cardinality(memoryMsgChan) < MemQueueSize
    BY <1>1 DEF put
  <1>2. CASE ~(Cardinality(memoryMsgChan) < MemQueueSize)
    <2>1. PICK lost \in SUBSET {Id(o)} : /\ backend' = backend \cup ({Id(o)} \ lost)
                                         /\ dropped' = dropped \cup lost
      BY <1>2 DEF put, writeMessageToBackend
    <2>2. lost = {} \/ lost = {Id(o)}
      BY <2>1, ZenonT(60)
    <2> QED BY <1>2, <2>1, <2>2, ZenonT(60) DEF put
  <1> QED BY <1>1, <1>2

-----------------------------------------------------------------------------
(* A put either stores the message in memory or on disk, or loses it.      *)
LEMMA PutCons ==
    ASSUME ConsInv, NEW m0 \in Msgs, PutMessage(m0)
    PROVE  Cons'
  <1> USE DEF flightVars, deferVars, clientVars, adminVars, allocVars, threadVars
  <1>t. Cons
    BY DEF ConsInv
  <1>o. Id(<<m0, 0>>) = m0
    BY ObjId, ZenonT(60)
  <1>k. PumpsKeep /\ IosKeep /\ ScanKeeps
    BY SameHands, ZenonT(60) DEF PutMessage
  <1>1. CASE memoryMsgChan' = memoryMsgChan \cup {<<m0, 0>>}
             /\ UNCHANGED <<backend, dropped>>
    <2>1. Gains("memory", m0, <<m0, 0>>)
      BY <1>1, <1>o, MemoryEffect, ZenonT(60)
    <2>2. Quiet({"memory"})
      BY <1>1, <1>k, QuietRule, ZenonT(60) DEF PutMessage
    <2>3. Accepts(m0, {})
      BY <1>1 DEF PutMessage, Accepts, Gone, Copied
    <2> QED BY <1>t, <2>1, <2>2, <2>3, ArriveStep, ZenonT(60)
  <1>2. CASE backend' = backend \cup {m0} /\ UNCHANGED <<memoryMsgChan, dropped>>
    <2>1. Gains("backend", m0, m0)
      BY <1>2, BackendEffect, ZenonT(60)
    <2>2. Quiet({"backend"})
      BY <1>2, <1>k, QuietRule, ZenonT(60) DEF PutMessage
    <2>3. Accepts(m0, {})
      BY <1>2 DEF PutMessage, Accepts, Gone, Copied
    <2> QED BY <1>t, <2>1, <2>2, <2>3, ArriveStep, ZenonT(60)
  <1>3. CASE dropped' = dropped \cup {m0} /\ UNCHANGED <<memoryMsgChan, backend>>
    <2>1. Quiet({})
      BY <1>3, <1>k, QuietRule, ZenonT(60) DEF PutMessage
    <2>2. Accepts(m0, {m0})
      BY <1>3, ZenonT(60) DEF PutMessage, Accepts, Gone, Copied
    <2> QED BY <1>t, <2>1, <2>2, RefuseStep, ZenonT(60)
  <1> QED BY <1>o, <1>1, <1>2, <1>3, PutEffect, ZenonT(60) DEF PutMessage

LEMMA PutDeferredCons ==
    ASSUME ConsInv, NEW m0 \in Msgs, PutMessageDeferred(m0)
    PROVE  Cons'
  <1> USE DEF flightVars, queueVars, clientVars, adminVars, allocVars
  <1>t. Cons
    BY DEF ConsInv
  <1>1. Gains("deferred", m0, <<m0, 0>>)
    BY ObjId, DeferredEffect, ZenonT(60) DEF PutMessageDeferred
  <1>2. Quiet({"deferred"})
    BY QuietRule, SameHands, ZenonT(60) DEF PutMessageDeferred
  <1>3. Accepts(m0, {})
    BY DEF PutMessageDeferred, Accepts, Gone, Copied
  <1> QED BY <1>t, <1>1, <1>2, <1>3, ArriveStep, ZenonT(60)

(* The actions that touch no message.                                      *)
LEMMA StayCons ==
    ASSUME ConsInv, NEW c, NEW o, NEW d,
           \/ PutAddToDeferredPQ \/ AddClient(c) \/ RemoveClient(c) \/ PumpExit(c)
           \/ c \in Clients /\ (\/ PumpAdd(c) \/ PumpSend(c) \/ IoRemovePQ(c)
                                \/ RequeueAddToDeferredPQ(c) \/ TouchAdd(c)
                                \/ IoCount(c))
           \/ ScanShift(o) \/ ScanReadClient \/ ScanTimedOut
           \/ ScanShiftDeferred(o) \/ EmptyClients \/ exit(d)
    PROVE  Cons'
  <1> USE DEF flightVars, deferVars, queueVars, clientVars, adminVars, allocVars,
              threadVars
  <1>t. TypeOK /\ Cons
    BY DEF ConsInv, TypeInv
  <1>s. ASSUME LetsGo({}), PumpsKeep, IosKeep, ScanKeeps,
               UNCHANGED <<memoryMsgChan, backend, inFlightMessages, deferredMessages>>
        PROVE  Cons'
    BY <1>t, <1>s, QuietRule, StayStep, ZenonT(60)
  <1> USE DEF LetsGo, Gone, Copied
  <1>1. CASE PutAddToDeferredPQ
    BY <1>1, <1>s, SameHands, ZenonT(60) DEF PutAddToDeferredPQ
  <1>2. CASE AddClient(c)
    BY <1>2, <1>s, SameHands, ZenonT(60) DEF AddClient
  <1>3. CASE RemoveClient(c)
    BY <1>3, <1>s, SameHands, ZenonT(60) DEF RemoveClient
  <1>4. CASE PumpExit(c)
    BY <1>4, <1>s, SameHands, ZenonT(60) DEF PumpExit
  <1>5. CASE EmptyClients
    BY <1>5, <1>s, SameHands, ZenonT(60) DEF EmptyClients
  <1>6. CASE exit(d)
    BY <1>6, <1>s, SameHands, ZenonT(60) DEF exit
  <1>7. CASE c \in Clients /\ PumpAdd(c)
    <2>1. PumpsKeep
      BY <1>t, <1>7 DEF PumpAdd, PumpsKeep, PumpHolds, TypeOK
    <2> QED BY <1>7, <2>1, <1>s, SameHands, ZenonT(60) DEF PumpAdd
  <1>8. CASE c \in Clients /\ PumpSend(c)
    <2>1. PumpsKeep
      BY <1>t, <1>8, ZenonT(60) DEF PumpSend, PumpsKeep, PumpHolds, TypeOK, Idle
    <2> QED BY <1>8, <2>1, <1>s, SameHands, ZenonT(60) DEF PumpSend
  <1>9. CASE c \in Clients /\ IoRemovePQ(c)
    <2>1. IosKeep
      BY <1>t, <1>9 DEF IoRemovePQ, IosKeep, IoHolds, TypeOK, IoStates, IoIdle
    <2> QED BY <1>9, <2>1, <1>s, SameHands, ZenonT(60) DEF IoRemovePQ
  <1>10. CASE c \in Clients /\ RequeueAddToDeferredPQ(c)
    <2>1. IosKeep
      BY <1>t, <1>10 DEF RequeueAddToDeferredPQ, IosKeep, IoHolds, TypeOK
    <2> QED BY <1>10, <2>1, <1>s, SameHands, ZenonT(60) DEF RequeueAddToDeferredPQ
  <1>11. CASE c \in Clients /\ TouchAdd(c)
    <2>1. IosKeep
      BY <1>t, <1>11, ZenonT(60) DEF TouchAdd, IosKeep, IoHolds, TypeOK, IoIdle
    <2> QED BY <1>11, <2>1, <1>s, SameHands, ZenonT(60) DEF TouchAdd
  <1>12. CASE c \in Clients /\ IoCount(c)
    <2>1. IosKeep
      BY <1>t, <1>12, ZenonT(60) DEF IoCount, IosKeep, IoHolds, TypeOK, IoIdle
    <2> QED BY <1>12, <2>1, <1>s, SameHands, ZenonT(60) DEF IoCount
  <1>13. CASE ScanShift(o)
    <2>1. ScanKeeps
      BY <1>13 DEF ScanShift, ScanKeeps, ScanHolds, ScanIdle
    <2> QED BY <1>13, <2>1, <1>s, SameHands, ZenonT(60) DEF ScanShift
  <1>14. CASE ScanReadClient
    <2>1. ScanKeeps
      BY <1>t, <1>14, ZenonT(60) DEF ScanReadClient, ScanKeeps, ScanHolds, TypeOK, ScanStates, ScanIdle
    <2> QED BY <1>14, <2>1, <1>s, SameHands, ZenonT(60) DEF ScanReadClient
  <1>15. CASE ScanTimedOut
    <2>1. ScanKeeps
      BY <1>t, <1>15, ZenonT(60) DEF ScanTimedOut, ScanKeeps, ScanHolds, TypeOK, ScanStates, ScanIdle
    <2> QED BY <1>15, <2>1, <1>s, SameHands DEF ScanTimedOut
  <1>16. CASE ScanShiftDeferred(o)
    <2>1. ScanKeeps
      BY <1>16, ZenonT(60) DEF ScanShiftDeferred, ScanKeeps, ScanHolds, ScanIdle
    <2> QED BY <1>16, <2>1, <1>s, SameHands, ZenonT(60) DEF ScanShiftDeferred
  <1> QED BY ZenonT(60), <1>1, <1>2, <1>3, <1>4, <1>5, <1>6, <1>7, <1>8, <1>9, <1>10, <1>11,
             <1>12, <1>13, <1>14, <1>15, <1>16

LEMMA PumpCons ==
    ASSUME ConsInv, NEW c \in Clients,
           PumpRecvMemory(c) \/ PumpRecvBackend(c) \/ PumpSample(c) \/ PumpPush(c)
    PROVE  Cons'
  <1> USE DEF flightVars, deferVars, queueVars, clientVars, adminVars, allocVars,
              threadVars
  <1>t. TypeOK /\ Cons
    BY ZenonT(60) DEF ConsInv, TypeInv
  <1>r. ASSUME NEW o, Receive(c, o) PROVE Gains("pump", Id(o), c)
    <2>1. /\ ~PumpHolds(c) /\ PumpHolds(c)' /\ pump'[c].obj = o
          /\ \A x \in Clients \ {c} : pump'[x] = pump[x]
      BY <1>t, <1>r DEF Receive, PumpHolds, Idle, TypeOK
    <2> QED BY <2>1, PumpEffect, ZenonT(60)
  <1>1. CASE PumpRecvMemory(c)
    <2>1. PICK o \in memoryMsgChan : /\ Receive(c, o)
                                     /\ memoryMsgChan' = memoryMsgChan \ {o}
      BY <1>1 DEF PumpRecvMemory
    <2>2. Loses("memory", Id(o), o) /\ Gains("pump", Id(o), c)
      BY <1>r, <2>1, MemoryEffect, ZenonT(60)
    <2>3. Quiet({"memory", "pump"})
      BY <1>1, <2>1, QuietRule, SameHands, ZenonT(60) DEF PumpRecvMemory, Receive
    <2>4. LetsGo({})
      BY <1>1, ZenonT(60) DEF PumpRecvMemory, LetsGo, Gone, Copied
    <2> QED BY <1>t, <2>2, <2>3, <2>4, MoveStep, ZenonT(60)
  <1>2. CASE PumpRecvBackend(c)
    <2>1. PICK m0 \in backend : /\ Receive(c, <<m0, gen[m0] + 1>>)
                                /\ backend' = backend \ {m0}
      BY <1>2, ZenonT(60) DEF PumpRecvBackend
    <2>0. Id(<<m0, gen[m0] + 1>>) = m0
      BY <1>t, ObjId DEF TypeOK
    <2>2. Loses("backend", m0, m0) /\ Gains("pump", m0, c)
      BY <1>r, <2>0, <2>1, BackendEffect, ZenonT(60)
    <2>3. Quiet({"backend", "pump"})
      BY <1>2, <2>1, QuietRule, SameHands, ZenonT(60) DEF PumpRecvBackend, Receive
    <2>4. LetsGo({})
      BY <1>2, ZenonT(60) DEF PumpRecvBackend, LetsGo, Gone, Copied
    <2> QED BY <1>t, <2>2, <2>3, <2>4, MoveStep
  <1>3. CASE PumpSample(c)
    <2>1. ASSUME NEW o \in memoryMsgChan, memoryMsgChan' = memoryMsgChan \ {o},
                 dropped' = dropped \cup {Id(o)}, UNCHANGED backend
          PROVE  Cons'
      <3>1. Loses("memory", Id(o), o)
        BY <2>1, MemoryEffect, ZenonT(60)
      <3>2. Quiet({"memory"})
        BY <1>3, <2>1, QuietRule, SameHands, ZenonT(60) DEF PumpSample
      <3>3. LetsGo({Id(o)})
        BY <1>3, <2>1, ZenonT(60) DEF PumpSample, LetsGo, Gone, Copied
      <3> QED BY <1>t, <3>1, <3>2, <3>3, DropStep
    <2>2. ASSUME NEW m0 \in backend, backend' = backend \ {m0},
                 dropped' = dropped \cup {m0}, UNCHANGED memoryMsgChan
          PROVE  Cons'
      <3>1. Loses("backend", m0, m0)
        BY <2>2, BackendEffect, ZenonT(60)
      <3>2. Quiet({"backend"})
        BY <1>3, <2>2, QuietRule, SameHands, ZenonT(60) DEF PumpSample
      <3>3. LetsGo({m0})
        BY <1>3, <2>2 DEF PumpSample, LetsGo, Gone, Copied
      <3> QED BY <1>t, <3>1, <3>2, <3>3, DropStep, ZenonT(60)
    <2> QED BY <1>3, <2>1, <2>2, ZenonT(60) DEF PumpSample
  <1>4. CASE PumpPush(c)
    <2> DEFINE o == pump[c].obj
    <2>1. Loses("pump", Id(o), c)
      <3>1. /\ PumpHolds(c) /\ ~PumpHolds(c)'
            /\ \A x \in Clients \ {c} : pump'[x] = pump[x]
        BY <1>t, <1>4 DEF PumpPush, PumpHolds, TypeOK, PumpStates, Idle
      <3> QED BY <3>1, PumpEffect, ZenonT(60)
    <2>2. LetsGo({})
      BY <1>4, ZenonT(60) DEF PumpPush, LetsGo, Gone, Copied
    <2>3. CASE Id(o) \notin Ids(inFlightMessages)
      <3>1. Gains("inflight", Id(o), o)
        BY <1>4, <2>3, InFlightEffect, ZenonT(60) DEF PumpPush
      <3>2. Quiet({"pump", "inflight"})
        BY <1>4, QuietRule, SameHands, ZenonT(60) DEF PumpPush
      <3> QED BY <1>t, <2>1, <2>2, <3>1, <3>2, MoveStep, ZenonT(60)
    <2>4. CASE Id(o) \in Ids(inFlightMessages)
      <3>1. PICK x \in inFlightMessages : Id(x) = Id(o)
        BY <2>4, ZenonT(60) DEF Ids
      <3>2. At(Id(o), "inflight", x)
        BY <3>1, AtInFlight, ZenonT(60)
      <3>3. Quiet({"pump"})
        BY <1>4, <2>4, QuietRule, SameHands, ZenonT(60) DEF PumpPush
      <3> QED BY <1>t, <2>1, <2>2, <3>2, <3>3, MergeStep, ZenonT(60)
    <2> QED BY <2>3, <2>4, ZenonT(60)
  <1> QED BY <1>1, <1>2, <1>3, <1>4

LEMMA IoCons ==
    ASSUME ConsInv, NEW c \in Clients,
           NEW op \in {"FIN", "REQ", "REQdelay", "TOUCH"},
           \/ popInFlightMessage(c, op) \/ RequeueNow(c) \/ RequeueDeferred(c)
           \/ TouchPush(c)
    PROVE  Cons'
  <1> USE DEF flightVars, deferVars, queueVars, clientVars, adminVars, allocVars,
              threadVars
  <1>t. TypeOK /\ Cons
    BY DEF ConsInv, TypeInv
  <1>1. CASE popInFlightMessage(c, op)
    <2>1. PICK o \in inFlightMessages :
             /\ inFlightMessages' = inFlightMessages \ {o}
             /\ io' = [io EXCEPT ![c] = [pc |-> "popped", op |-> op, obj |-> o]]
             /\ finished' = IF op = "FIN" THEN finished \cup {Id(o)} ELSE finished
      BY <1>1, ZenonT(60) DEF popInFlightMessage
    <2>u. /\ UNCHANGED <<memoryMsgChan, deferredMessages, backend, pump, scan>>
          /\ UNCHANGED <<published, dropped, admin>>
      BY <1>1, ZenonT(60) DEF popInFlightMessage
    <2>2. Loses("inflight", Id(o), o)
      BY <2>1, InFlightEffect, ZenonT(60)
    <2>h. /\ ~IoHolds(c) /\ (IoHolds(c)' <=> op # "FIN") /\ io'[c].obj = o
          /\ \A x \in Clients \ {c} : io'[x] = io[x]
      <3>1. io \in [Clients -> IoStates] /\ io[c] = IoIdle
        BY <1>t, <1>1, ZenonT(60) DEF popInFlightMessage, TypeOK
      <3>2. /\ io'[c] = [pc |-> "popped", op |-> op, obj |-> o]
            /\ \A x \in Clients \ {c} : io'[x] = io[x]
        BY <2>1, <3>1, ZenonT(60)
      <3>3. io[c].pc = "idle"
        BY <3>1, IdleFields, ZenonT(60)
      <3>4. io'[c].pc = "popped" /\ io'[c].op = op /\ io'[c].obj = o
        BY <3>2
      <3> QED BY <3>2, <3>3, <3>4, ZenonT(60) DEF IoHolds
    <2>3. CASE op = "FIN"
      <3>1. IosKeep
        BY <2>3, <2>h, ZenonT(60) DEF IosKeep, IoHolds
      <3>2. Quiet({"inflight"})
        BY <2>u, <3>1, QuietRule, SameHands, ZenonT(60)
      <3>3. LetsGo({Id(o)})
        BY <2>u, <2>1, <2>3, ZenonT(60) DEF LetsGo, Gone, Copied
      <3> QED BY <1>t, <2>2, <3>2, <3>3, DropStep, ZenonT(60)
    <2>4. CASE op # "FIN"
      <3>1. Gains("io", Id(o), c)
        BY <2>4, <2>h, IoEffect, ZenonT(60)
      <3>2. Quiet({"inflight", "io"})
        BY <2>u, QuietRule, SameHands, ZenonT(60)
      <3>3. LetsGo({})
        BY <2>u, <2>1, <2>4 DEF LetsGo, Gone, Copied
      <3> QED BY <1>t, <2>2, <3>1, <3>2, <3>3, MoveStep
    <2> QED BY <2>3, <2>4
  <1> DEFINE o == io[c].obj
  <1>h. ASSUME IoHolds(c),
               \/ io' = [io EXCEPT ![c].pc = "pushed"] \/ io' = [io EXCEPT ![c].pc = "count"]
               \/ io' = [io EXCEPT ![c] = IoIdle]
        PROVE  Loses("io", Id(o), c)
    <2>1. ~IoHolds(c)' /\ \A x \in Clients \ {c} : io'[x] = io[x]
      BY <1>t, <1>h DEF IoHolds, IoIdle, IoStates, TypeOK
    <2> QED BY <1>h, <2>1, IoEffect
  <1>3. CASE RequeueNow(c)
    <2>0. io' = [io EXCEPT ![c].pc = "count"] \/ io' = [io EXCEPT ![c] = IoIdle]
      BY <1>3 DEF RequeueNow
    <2>1. Loses("io", Id(o), c)
      BY <1>3, <1>h, <2>0, ZenonT(60) DEF RequeueNow, IoHolds
    <2>3. CASE memoryMsgChan' = memoryMsgChan \cup {o} /\ UNCHANGED <<backend, dropped>>
      <3>1. Gains("memory", Id(o), o)
        BY <2>3, MemoryEffect
      <3>2. Quiet({"io", "memory"})
        BY <1>3, <2>3, QuietRule, SameHands, ZenonT(60) DEF RequeueNow
      <3>3. LetsGo({})
        BY <1>3, <2>3 DEF RequeueNow, LetsGo, Gone, Copied
      <3> QED BY <1>t, <2>1, <3>1, <3>2, <3>3, MoveStep, ZenonT(60)
    <2>4. CASE backend' = backend \cup {Id(o)} /\ UNCHANGED <<memoryMsgChan, dropped>>
      <3>1. Gains("backend", Id(o), Id(o))
        BY <2>4, BackendEffect, ZenonT(60)
      <3>2. Quiet({"io", "backend"})
        BY <1>3, <2>4, QuietRule, SameHands, ZenonT(60) DEF RequeueNow
      <3>3. LetsGo({})
        BY <1>3, <2>4, ZenonT(60) DEF RequeueNow, LetsGo, Gone, Copied
      <3> QED BY <1>t, <2>1, <3>1, <3>2, <3>3, MoveStep, ZenonT(60)
    <2>5. CASE dropped' = dropped \cup {Id(o)} /\ UNCHANGED <<memoryMsgChan, backend>>
      <3>1. Quiet({"io"})
        BY <1>3, <2>5, QuietRule, SameHands, ZenonT(60) DEF RequeueNow
      <3>2. LetsGo({Id(o)})
        BY <1>3, <2>5, ZenonT(60) DEF RequeueNow, LetsGo, Gone, Copied
      <3> QED BY <1>t, <2>1, <3>1, <3>2, DropStep, ZenonT(60)
    <2> QED BY <1>3, <2>3, <2>4, <2>5, PutEffect DEF RequeueNow
  <1>4. CASE RequeueDeferred(c)
    <2>0. io' = [io EXCEPT ![c].pc = "pushed"] \/ io' = [io EXCEPT ![c] = IoIdle]
      BY <1>4, ZenonT(60) DEF RequeueDeferred
    <2>1. Loses("io", Id(o), c)
      BY <1>4, <1>h, <2>0, ZenonT(60) DEF RequeueDeferred, IoHolds
    <2>2. CASE Id(o) \in Ids(deferredMessages)
      <3>1. Quiet({"io"})
        BY <1>4, <2>2, QuietRule, SameHands, ZenonT(60) DEF RequeueDeferred
      <3>2. LetsGo({Id(o)})
        BY <1>4, <2>2, ZenonT(60) DEF RequeueDeferred, LetsGo, Gone, Copied
      <3> QED BY <1>t, <2>1, <3>1, <3>2, DropStep
    <2>3. CASE Id(o) \notin Ids(deferredMessages)
      <3>1. Gains("deferred", Id(o), o)
        BY <1>4, <2>3, DeferredEffect DEF RequeueDeferred
      <3>2. Quiet({"io", "deferred"})
        BY <1>4, <2>3, QuietRule, SameHands DEF RequeueDeferred
      <3>3. LetsGo({})
        BY <1>4, <2>3, ZenonT(60) DEF RequeueDeferred, LetsGo, Gone, Copied
      <3> QED BY <1>t, <2>1, <3>1, <3>2, <3>3, MoveStep, ZenonT(60)
    <2> QED BY <2>2, <2>3, ZenonT(60)
  <1>5. CASE TouchPush(c)
    <2>0. io' = [io EXCEPT ![c].pc = "pushed"] \/ io' = [io EXCEPT ![c] = IoIdle]
      BY <1>5 DEF TouchPush
    <2>1. Loses("io", Id(o), c)
      BY <1>5, <1>h, <2>0, ZenonT(60) DEF TouchPush, IoHolds
    <2>2. CASE Id(o) \in Ids(inFlightMessages)
      <3>1. Quiet({"io"})
        BY <1>5, <2>2, QuietRule, SameHands DEF TouchPush
      <3>2. LetsGo({Id(o)})
        BY <1>5, <2>2, ZenonT(60) DEF TouchPush, LetsGo, Gone, Copied
      <3> QED BY <1>t, <2>1, <3>1, <3>2, DropStep
    <2>3. CASE Id(o) \notin Ids(inFlightMessages)
      <3>1. Gains("inflight", Id(o), o)
        BY <1>5, <2>3, InFlightEffect DEF TouchPush
      <3>2. Quiet({"io", "inflight"})
        BY <1>5, <2>3, QuietRule, SameHands DEF TouchPush
      <3>3. LetsGo({})
        BY <1>5, <2>3 DEF TouchPush, LetsGo, Gone, Copied
      <3> QED BY <1>t, <2>1, <3>1, <3>2, <3>3, MoveStep, ZenonT(60)
    <2> QED BY <2>2, <2>3
  <1> QED BY <1>1, <1>3, <1>4, <1>5, ZenonT(60)

LEMMA ScanCons ==
    ASSUME ConsInv, ScanPop \/ ScanPut \/ ScanPopDeferred
    PROVE  Cons'
  <1> USE DEF flightVars, deferVars, queueVars, clientVars, adminVars, allocVars,
              threadVars
  <1>t. TypeOK /\ Cons
    BY DEF ConsInv, TypeInv
  <1> DEFINE o == scan.obj
  <1>c. ~Copied
    BY DEF ConsInv, ExitOrder, Copied, ScanIdle, ScanPop, ScanPut, ScanPopDeferred
  <1>1. CASE ScanPop
    <2> DEFINE owned == {x \in inFlightMessages : Id(x) = Id(o) /\ clientID[x] = scan.cid}
    <2>1. LetsGo({})
      BY <1>1 DEF ScanPop, LetsGo, Gone, Copied
    <2>2. CASE owned = {}
      <3>1. ScanKeeps
        BY <1>1, <2>2 DEF ScanPop, ScanKeeps, ScanHolds, ScanIdle
      <3>2. Quiet({})
        BY <1>1, <2>2, <3>1, QuietRule, SameHands, ZenonT(60) DEF ScanPop
      <3> QED BY <1>t, <2>1, <3>2, StayStep
    <2>3. ASSUME NEW x \in owned PROVE Cons'
      <3>1. \A y \in owned : At(Id(o), "inflight", y)
        BY AtInFlight, ZenonT(60)
      <3>2. \A y \in owned : y = x
        BY <1>t, <1>c, <3>1, ZenonT(60) DEF Cons, Alone
      <3>3. Loses("inflight", Id(o), x)
        <4>1. inFlightMessages' = inFlightMessages \ {x}
          BY <1>1, <3>2, ZenonT(60) DEF ScanPop
        <4> QED BY <4>1, InFlightEffect
      <3>4. Gains("scan", Id(o), NoClient)
        <4>1. ScanHolds' /\ ~ScanHolds /\ scan'.obj = o
          BY <1>t, <1>1, <2>3 DEF ScanPop, ScanHolds, TypeOK, ScanStates, ScanIdle
        <4> QED BY <4>1, ScanEffect
      <3>5. Quiet({"inflight", "scan"})
        BY <1>1, QuietRule, SameHands DEF ScanPop
      <3> QED BY <1>t, <2>1, <3>3, <3>4, <3>5, MoveStep, ZenonT(60)
    <2> QED BY <2>2, <2>3
  <1>2. CASE ScanPopDeferred
    <2> DEFINE found == {x \in deferredMessages : Id(x) = Id(o)}
    <2>1. LetsGo({})
      BY <1>2 DEF ScanPopDeferred, LetsGo, Gone, Copied
    <2>2. CASE found = {}
      <3>1. ScanKeeps
        BY <1>2, <2>2 DEF ScanPopDeferred, ScanKeeps, ScanHolds, ScanIdle
      <3>2. Quiet({})
        BY <1>2, <2>2, <3>1, QuietRule, SameHands, ZenonT(60) DEF ScanPopDeferred
      <3> QED BY <1>t, <2>1, <3>2, StayStep
    <2>3. ASSUME NEW x \in found PROVE Cons'
      <3>1. \A y \in found : At(Id(o), "deferred", y)
        BY AtDeferred
      <3>2. \A y \in found : y = x
        BY <1>t, <1>c, <3>1 DEF Cons, Alone
      <3>3. Loses("deferred", Id(o), x)
        <4>1. deferredMessages' = deferredMessages \ {x}
          BY <1>2, <3>2, ZenonT(60) DEF ScanPopDeferred
        <4> QED BY <4>1, DeferredEffect
      <3>4. Gains("scan", Id(o), NoClient)
        <4>1. ScanHolds' /\ ~ScanHolds /\ scan'.obj = o
          BY <1>t, <1>2, <2>3 DEF ScanPopDeferred, ScanHolds, TypeOK, ScanStates, ScanIdle
        <4> QED BY <4>1, ScanEffect
      <3>5. Quiet({"deferred", "scan"})
        BY <1>2, QuietRule, SameHands, ZenonT(60) DEF ScanPopDeferred
      <3> QED BY <1>t, <2>1, <3>3, <3>4, <3>5, MoveStep, ZenonT(60)
    <2> QED BY <2>2, <2>3
  <1>3. CASE ScanPut
    <2>1. Loses("scan", Id(o), NoClient)
      BY <1>3, ScanEffect DEF ScanPut, ScanHolds, ScanIdle
    <2>3. CASE memoryMsgChan' = memoryMsgChan \cup {o} /\ UNCHANGED <<backend, dropped>>
      <3>1. Gains("memory", Id(o), o)
        BY <2>3, MemoryEffect, ZenonT(60)
      <3>2. Quiet({"scan", "memory"})
        BY <1>3, <2>3, QuietRule, SameHands, ZenonT(60) DEF ScanPut
      <3>3. LetsGo({})
        BY <1>3, <2>3, ZenonT(60) DEF ScanPut, LetsGo, Gone, Copied
      <3> QED BY <1>t, <2>1, <3>1, <3>2, <3>3, MoveStep
    <2>4. CASE backend' = backend \cup {Id(o)} /\ UNCHANGED <<memoryMsgChan, dropped>>
      <3>1. Gains("backend", Id(o), Id(o))
        BY <2>4, BackendEffect, ZenonT(60)
      <3>2. Quiet({"scan", "backend"})
        BY <1>3, <2>4, QuietRule, SameHands, ZenonT(60) DEF ScanPut
      <3>3. LetsGo({})
        BY <1>3, <2>4 DEF ScanPut, LetsGo, Gone, Copied
      <3> QED BY <1>t, <2>1, <3>1, <3>2, <3>3, MoveStep
    <2>5. CASE dropped' = dropped \cup {Id(o)} /\ UNCHANGED <<memoryMsgChan, backend>>
      <3>1. Quiet({"scan"})
        BY <1>3, <2>5, QuietRule, SameHands, ZenonT(60) DEF ScanPut
      <3>2. LetsGo({Id(o)})
        BY <1>3, <2>5 DEF ScanPut, LetsGo, Gone, Copied
      <3> QED BY <1>t, <2>1, <3>1, <3>2, DropStep, ZenonT(60)
    <2> QED BY <1>3, <2>3, <2>4, <2>5, PutEffect, ZenonT(60) DEF ScanPut
  <1> QED BY <1>1, <1>2, <1>3

LEMMA EmptyCons ==
    ASSUME ConsInv, EmptyInFlight \/ EmptyDeferred \/ EmptyMemory \/ EmptyBackend
    PROVE  Cons'
  <1> USE DEF flightVars, deferVars, queueVars, clientVars, adminVars, allocVars,
              threadVars
  <1>t. TypeOK /\ Cons
    BY DEF ConsInv, TypeInv
  <1>1. CASE EmptyInFlight
    <2>1. Clears("inflight")
      BY <1>1, InFlightEffect, ZenonT(60) DEF EmptyInFlight
    <2>2. Quiet({"inflight"})
      BY <1>1, QuietRule, SameHands, ZenonT(60) DEF EmptyInFlight
    <2>3. \A m : m \in Ids(inFlightMessages) <=> \E h : At(m, "inflight", h)
      BY AtInFlight, ZenonT(60) DEF Ids
    <2>4. LetsGo(Ids(inFlightMessages))
      BY <1>1 DEF EmptyInFlight, LetsGo, Gone, Copied
    <2> QED BY <1>t, <2>1, <2>2, <2>3, <2>4, ClearStep, ZenonT(60)
  <1>2. CASE EmptyDeferred
    <2>1. Clears("deferred")
      BY <1>2, DeferredEffect, ZenonT(60) DEF EmptyDeferred
    <2>2. Quiet({"deferred"})
      BY <1>2, QuietRule, SameHands, ZenonT(60) DEF EmptyDeferred
    <2>3. \A m : m \in Ids(deferredMessages) <=> \E h : At(m, "deferred", h)
      BY AtDeferred, ZenonT(60) DEF Ids
    <2>4. LetsGo(Ids(deferredMessages))
      BY <1>2, ZenonT(60) DEF EmptyDeferred, LetsGo, Gone, Copied
    <2> QED BY <1>t, <2>1, <2>2, <2>3, <2>4, ClearStep, ZenonT(60)
  <1>3. CASE EmptyMemory
    <2>1. CASE memoryMsgChan = {}
      <3>1. LetsGo({})
        BY <1>3, <2>1, ZenonT(60) DEF EmptyMemory, LetsGo, Gone, Copied
      <3>2. Quiet({})
        BY <1>3, <2>1, QuietRule, SameHands, ZenonT(60) DEF EmptyMemory
      <3> QED BY <1>t, <3>1, <3>2, StayStep, ZenonT(60)
    <2>2. ASSUME NEW x \in memoryMsgChan, memoryMsgChan' = memoryMsgChan \ {x},
                 dropped' = dropped \cup {Id(x)}, UNCHANGED admin
          PROVE  Cons'
      <3>1. Loses("memory", Id(x), x)
        BY <2>2, MemoryEffect, ZenonT(60)
      <3>2. Quiet({"memory"})
        BY <1>3, QuietRule, SameHands, ZenonT(60) DEF EmptyMemory
      <3>3. LetsGo({Id(x)})
        BY <1>3, <2>2 DEF EmptyMemory, LetsGo, Gone, Copied
      <3> QED BY <1>t, <3>1, <3>2, <3>3, DropStep
    <2> QED BY <1>3, <2>1, <2>2 DEF EmptyMemory
  <1>4. CASE EmptyBackend
    <2>1. Clears("backend")
      BY <1>4, BackendEffect, ZenonT(60) DEF EmptyBackend
    <2>2. Quiet({"backend"})
      BY <1>4, QuietRule, SameHands DEF EmptyBackend
    <2>3. \A m : m \in backend <=> \E h : At(m, "backend", h)
      BY AtBackend, ZenonT(60)
    <2>4. LetsGo(backend)
      BY <1>4 DEF EmptyBackend, LetsGo, Gone, Copied
    <2> QED BY <1>t, <2>1, <2>2, <2>3, <2>4, ClearStep, ZenonT(60)
  <1> QED BY <1>1, <1>2, <1>3, <1>4

LEMMA FlushCons ==
    ASSUME ConsInv, FlushMemory \/ FlushInFlight \/ FlushDeferred
    PROVE  Cons'
  <1> USE DEF flightVars, deferVars, queueVars, clientVars, adminVars, allocVars,
              threadVars
  <1>t. TypeOK /\ Cons
    BY DEF ConsInv, TypeInv
  <1>1. CASE FlushMemory
    <2>1. CASE memoryMsgChan = {}
      <3>1. LetsGo({})
        BY <1>1, <2>1, ZenonT(60) DEF FlushMemory, LetsGo, Gone, Copied
      <3>2. Quiet({})
        BY <1>1, <2>1, QuietRule, SameHands DEF FlushMemory
      <3> QED BY <1>t, <3>1, <3>2, StayStep
    <2>2. CASE memoryMsgChan # {}
      <3>1. PICK x \in memoryMsgChan : /\ memoryMsgChan' = memoryMsgChan \ {x}
                                       /\ writeMessageToBackend({Id(x)})
                                       /\ UNCHANGED admin
        BY <1>1, <2>2, ZenonT(60) DEF FlushMemory
      <3>2. Loses("memory", Id(x), x)
        BY <3>1, MemoryEffect, ZenonT(60)
      <3>3. PICK lost \in SUBSET {Id(x)} : /\ backend' = backend \cup ({Id(x)} \ lost)
                                           /\ dropped' = dropped \cup lost
        BY <3>1, ZenonT(60) DEF writeMessageToBackend
      <3>4. CASE lost = {}
        <4>0. backend' = backend \cup {Id(x)} /\ UNCHANGED dropped
          BY <3>3, <3>4
        <4>1. Gains("backend", Id(x), Id(x))
          BY <4>0, BackendEffect, ZenonT(60)
        <4>2. Quiet({"memory", "backend"})
          BY <1>1, QuietRule, SameHands, ZenonT(60) DEF FlushMemory
        <4>3. LetsGo({})
          BY <1>1, <3>1, <4>0, ZenonT(60) DEF FlushMemory, LetsGo, Gone, Copied
        <4> QED BY <1>t, <3>2, <4>1, <4>2, <4>3, MoveStep, ZenonT(60)
      <3>5. CASE lost = {Id(x)}
        <4>0. UNCHANGED backend /\ dropped' = dropped \cup {Id(x)}
          BY <3>3, <3>5, ZenonT(60)
        <4>1. Quiet({"memory"})
          BY <1>1, <4>0, QuietRule, SameHands, ZenonT(60) DEF FlushMemory
        <4>2. LetsGo({Id(x)})
          BY <1>1, <3>1, <4>0, ZenonT(60) DEF FlushMemory, LetsGo, Gone, Copied
        <4> QED BY <1>t, <3>2, <4>1, <4>2, DropStep
      <3> QED BY <3>3, <3>4, <3>5, ZenonT(60)
    <2> QED BY <2>1, <2>2, ZenonT(60)
  <1>2. ASSUME NEW S, S = inFlightMessages \/ S = deferredMessages,
               writeMessageToBackend(Ids(S)), Copied',
               UNCHANGED <<flightVars, deferVars, memoryMsgChan, threadVars,
                           published, finished>>
        PROVE  Cons'
    <2>1. PICK lost \in SUBSET Ids(S) : /\ backend' = backend \cup (Ids(S) \ lost)
                                        /\ dropped' = dropped \cup lost
      BY <1>2, ZenonT(60) DEF writeMessageToBackend
    <2>2. Quiet({"backend"})
      BY <1>2, QuietRule, SameHands, ZenonT(60)
    <2>3. ASSUME NEW m, NEW h
          PROVE  /\ At(m, "backend", h) => At(m, "backend", h)'
                 /\ At(m, "backend", h)' => At(m, "backend", h) \/ m \in Ids(S)
      <3>1. m \in backend' <=> m \in backend \/ m \in Ids(S) \ lost
        BY <2>1
      <3> QED BY <3>1, AtBackend, ZenonT(60)
    <2>4. ASSUME NEW m, NEW k, NEW h, At(m, k, h) PROVE At(m, k, h)'
      <3>1. CASE k = "backend"
        BY <2>3, <2>4, <3>1
      <3>2. CASE k # "backend"
        BY <2>2, <2>4, <3>2 DEF Quiet, Same
      <3> QED BY <3>1, <3>2, ZenonT(60)
    <2>5. \A m : Anywhere(m) => Anywhere(m)'
      BY <2>4, ZenonT(60) DEF Anywhere
    <2>6. \A m \in Ids(S) : Anywhere(m)
      BY <1>2, AtInFlight, AtDeferred, AtMemory, ZenonT(60) DEF Ids, Anywhere
    <2>7. ASSUME NEW m, NEW k, NEW h, At(m, k, h)' PROVE At(m, k, h) \/ m \in Ids(S)
      <3>1. CASE k = "backend"
        BY <2>3, <2>7, <3>1, ZenonT(60)
      <3>2. CASE k # "backend"
        BY <2>2, <2>7, <3>2, ZenonT(60) DEF Quiet, Same
      <3> QED BY <3>1, <3>2, ZenonT(60)
    <2>8. \A m : Anywhere(m)' => Anywhere(m)
      BY <2>6, <2>7 DEF Anywhere
    <2>9. Gone \subseteq Gone' /\ \A m \in Gone' : m \in Gone \/ m \in Ids(S)
      BY <1>2, <2>1, ZenonT(60) DEF Gone
    <2> QED BY <1>t, <1>2, <2>5, <2>6, <2>8, <2>9, CopyStep, ZenonT(60)
  <1>3. CASE FlushInFlight
    BY <1>2, <1>3, ZenonT(60) DEF FlushInFlight, Copied
  <1>4. CASE FlushDeferred
    BY <1>2, <1>4, ZenonT(60) DEF FlushDeferred, Copied
  <1> QED BY <1>1, <1>3, <1>4

LEMMA ExitOrderStep == TypeInv /\ ExitOrder /\ [Next]_vars => ExitOrder'
  <1> SUFFICES ASSUME TypeInv, ExitOrder, [Next]_vars PROVE ExitOrder'
    BY ZenonT(60)
  <1> USE DEF ExitOrder, adminVars, threadVars
  <1>1. ASSUME NEW m \in Msgs, PutMessage(m) \/ PutMessageDeferred(m)
        PROVE  ExitOrder'
    BY <1>1 DEF PutMessage, PutMessageDeferred
  <1>2. CASE PutAddToDeferredPQ
    BY <1>2, ZenonT(60) DEF PutAddToDeferredPQ
  <1>3. ASSUME NEW c \in Clients, AddClient(c) \/ RemoveClient(c) PROVE ExitOrder'
    BY <1>3 DEF AddClient, RemoveClient
  <1>4. ASSUME NEW c \in Clients, PumpNext(c) PROVE ExitOrder'
    <2>1. CASE PumpRecvMemory(c)
      BY <2>1, ZenonT(60) DEF PumpRecvMemory
    <2>2. CASE PumpRecvBackend(c)
      BY <2>2, ZenonT(60) DEF PumpRecvBackend
    <2>3. CASE PumpSample(c)
      BY <2>3 DEF PumpSample
    <2>4. CASE PumpPush(c)
      BY <2>4 DEF PumpPush
    <2>5. CASE PumpAdd(c)
      BY <2>5, ZenonT(60) DEF PumpAdd
    <2>6. CASE PumpSend(c)
      BY <2>6, ZenonT(60) DEF PumpSend
    <2>7. CASE PumpExit(c)
      BY <2>7, ZenonT(60) DEF PumpExit
    <2> QED BY <1>4, <2>1, <2>2, <2>3, <2>4, <2>5, <2>6, <2>7, ZenonT(60) DEF PumpNext
  <1>5. ASSUME NEW c \in Clients, IoNext(c) PROVE ExitOrder'
    <2>1. ASSUME NEW op, popInFlightMessage(c, op) PROVE ExitOrder'
      BY <2>1, ZenonT(60) DEF popInFlightMessage
    <2>2. CASE IoRemovePQ(c)
      BY <2>2 DEF IoRemovePQ
    <2>3. CASE RequeueNow(c)
      BY <2>3 DEF RequeueNow
    <2>4. CASE RequeueDeferred(c)
      BY <2>4 DEF RequeueDeferred
    <2>5. CASE RequeueAddToDeferredPQ(c)
      BY <2>5 DEF RequeueAddToDeferredPQ
    <2>6. CASE TouchPush(c)
      BY <2>6, ZenonT(60) DEF TouchPush
    <2>7. CASE TouchAdd(c)
      BY <2>7, ZenonT(60) DEF TouchAdd
    <2>8. CASE IoCount(c)
      BY <2>8, ZenonT(60) DEF IoCount
    <2> QED BY <1>5, <2>1, <2>2, <2>3, <2>4, <2>5, <2>6, <2>7, <2>8, ZenonT(60) DEF IoNext
  <1>6. CASE ScanNext
    <2>1. ASSUME NEW o, ScanShift(o) PROVE ExitOrder'
      BY <2>1, ZenonT(60) DEF ScanShift, ScanIdle
    <2>2. ASSUME NEW o, ScanShiftDeferred(o) PROVE ExitOrder'
      BY <2>2, ZenonT(60) DEF ScanShiftDeferred, ScanIdle
    <2>3. CASE ScanReadClient
      BY <2>3 DEF ScanReadClient, ScanIdle
    <2>4. CASE ScanPop
      BY <2>4 DEF ScanPop, ScanIdle
    <2>5. CASE ScanTimedOut
      BY <2>5 DEF ScanTimedOut, ScanIdle
    <2>6. CASE ScanPut
      BY <2>6 DEF ScanPut, ScanIdle
    <2>7. CASE ScanPopDeferred
      BY <2>7 DEF ScanPopDeferred, ScanIdle
    <2> QED BY <1>6, <2>1, <2>2, <2>3, <2>4, <2>5, <2>6, <2>7 DEF ScanNext
  <1>7. CASE AdminNext
    <2>1. CASE EmptyInFlight
      BY <2>1, ZenonT(60) DEF EmptyInFlight
    <2>2. CASE EmptyDeferred
      BY <2>2, ZenonT(60) DEF EmptyDeferred
    <2>3. CASE EmptyClients
      BY <2>3, ZenonT(60) DEF EmptyClients
    <2>4. CASE EmptyMemory
      BY <2>4, ZenonT(60) DEF EmptyMemory
    <2>5. CASE EmptyBackend
      BY <2>5, ZenonT(60) DEF EmptyBackend
    <2>6. ASSUME NEW d, exit(d) PROVE ExitOrder'
      BY <2>6, ZenonT(60) DEF exit
    <2>7. CASE FlushMemory
      BY <2>7, ZenonT(60) DEF FlushMemory
    <2>8. CASE FlushInFlight
      BY <2>8, ZenonT(60) DEF FlushInFlight
    <2>9. CASE FlushDeferred
      BY <2>9, ZenonT(60) DEF FlushDeferred
    <2> QED BY <1>7, <2>1, <2>2, <2>3, <2>4, <2>5, <2>6, <2>7, <2>8, <2>9, ZenonT(60) DEF AdminNext
  <1>8. CASE UNCHANGED vars
    BY <1>8 DEF vars
  <1> QED BY <1>1, <1>2, <1>3, <1>4, <1>5, <1>6, <1>7, <1>8 DEF Next

LEMMA InitCons == Init => ConsInv
  <1> SUFFICES ASSUME Init PROVE ConsInv
    OBVIOUS
  <1>1. \A c \in Clients : ~PumpHolds(c) /\ ~IoHolds(c)
    BY ZenonT(60) DEF Init, PumpHolds, IoHolds, Idle, IoIdle
  <1>2. ~ScanHolds
    BY DEF Init, ScanHolds, ScanIdle
  <1>3. \A m, k, h : ~At(m, k, h)
    BY <1>1, <1>2, ZenonT(60) DEF Init, At
  <1>4. \A m : ~Anywhere(m)
    BY <1>3 DEF Anywhere
  <1>5. Gone = {} /\ published = {}
    BY DEF Init, Gone
  <1>6. Cons
    BY <1>3, <1>4, <1>5, ZenonT(60) DEF Cons, Alone, Kept, Final, Known
  <1>7. ExitOrder
    BY DEF Init, ExitOrder
  <1> QED BY <1>6, <1>7, InitType, ZenonT(60) DEF ConsInv

LEMMA NextCons == ConsInv /\ [Next]_vars => ConsInv'
  <1> SUFFICES ASSUME ConsInv, [Next]_vars PROVE ConsInv'
    OBVIOUS
  <1>1. TypeInv' /\ ExitOrder'
    BY NextType, ExitOrderStep, ZenonT(60) DEF ConsInv
  <1>2. Cons'
    <2>1. ASSUME NEW m \in Msgs, PutMessage(m) \/ PutMessageDeferred(m) PROVE Cons'
      BY <2>1, PutCons, PutDeferredCons, ZenonT(60)
    <2>2. CASE PutAddToDeferredPQ
      BY <2>2, StayCons
    <2>3. ASSUME NEW c \in Clients, AddClient(c) \/ RemoveClient(c) PROVE Cons'
      BY <2>3, StayCons, ZenonT(60)
    <2>4. ASSUME NEW c \in Clients, PumpNext(c) PROVE Cons'
      BY <2>4, StayCons, PumpCons, ZenonT(60) DEF PumpNext
    <2>5. ASSUME NEW c \in Clients, IoNext(c) PROVE Cons'
      BY <2>5, StayCons, IoCons, ZenonT(60) DEF IoNext
    <2>6. CASE ScanNext
      BY <2>6, StayCons, ScanCons, ZenonT(60) DEF ScanNext
    <2>7. CASE AdminNext
      BY <2>7, StayCons, EmptyCons, FlushCons DEF AdminNext
    <2>8. CASE UNCHANGED vars
      <3>1. TypeOK /\ Cons
        BY ZenonT(60) DEF ConsInv, TypeInv
      <3>2. LetsGo({})
        BY <2>8, ZenonT(60) DEF vars, queueVars, adminVars, LetsGo, Gone, Copied
      <3>3. Quiet({})
        BY <2>8, QuietRule, SameHands DEF vars, flightVars, deferVars, queueVars, threadVars
      <3> QED BY <3>1, <3>2, <3>3, StayStep
    <2> QED BY <2>1, <2>2, <2>3, <2>4, <2>5, <2>6, <2>7, <2>8, ZenonT(60) DEF Next
  <1> QED BY <1>1, <1>2 DEF ConsInv

(* The bounded statements that TLC checks follow from the unbounded ones.  *)
LEMMA ConsImplies == TypeOK /\ Cons => UniquePlace /\ Accounted /\ FinishedIsFinal
  <1> SUFFICES ASSUME TypeOK, Cons PROVE UniquePlace /\ Accounted /\ FinishedIsFinal
    OBVIOUS
  <1>1. ASSUME NEW m, Anywhere(m) PROVE m \in Msgs => Somewhere(m)
    <2>1. SUFFICES ASSUME m \in Msgs PROVE Somewhere(m)
      OBVIOUS
    <2>2. PICK k, h : At(m, k, h)
      BY <1>1 DEF Anywhere
    <2>3. k \in Kinds
      BY <2>2, AtOther
    <2>4. h \in Holders(k)
      BY <2>1, <2>2 DEF At, Holders, TypeOK
    <2> QED BY <2>2, <2>3, <2>4 DEF Somewhere
  <1>2. \A m : Somewhere(m) => Anywhere(m)
    BY DEF Somewhere, Anywhere
  <1>3. UniquePlace
    BY ZenonT(60) DEF Cons, Alone, UniquePlace
  <1>4. Accounted
    BY <1>1 DEF Cons, Kept, Accounted, Gone, TypeOK
  <1>5. FinishedIsFinal
    BY <1>2 DEF Cons, Final, FinishedIsFinal, Gone
  <1> QED BY <1>3, <1>4, <1>5

(* A channel neither loses nor duplicates a message, whatever the          *)
(* interleaving of deliveries, answers, time-outs, spilling, Empty and     *)
(* exit: before Close copies its memory to disk every accepted message is  *)
(* at exactly one place or was finished or let go of, and a finished       *)
(* message stays finished.                                                 *)
THEOREM MessagesConserved == Spec => [](UniquePlace /\ Accounted /\ FinishedIsFinal)
  <1>1. Spec => []ConsInv
    BY InitCons, NextCons, PTL DEF Spec
  <1>2. ConsInv => UniquePlace /\ Accounted /\ FinishedIsFinal
    BY ConsImplies DEF ConsInv, TypeInv
  <1> QED BY <1>1, <1>2, PTL

(* Every message PutMessage accepted is somewhere in the channel until a   *)
(* consumer finishes it or the code lets go of it.                         *)
THEOREM NothingLost == Spec => []Accounted
  <1>1. UniquePlace /\ Accounted /\ FinishedIsFinal => Accounted
    OBVIOUS
  <1> QED BY MessagesConserved, <1>1, PTL

(* A message that FinishMessage or Empty removed does not come back, not   *)
(* even through a time-out scan that already held it, until Close copies   *)
(* the channel's memory to disk.                                           *)
THEOREM FinishedStaysFinished == Spec => []FinishedIsFinal
  <1>1. UniquePlace /\ Accounted /\ FinishedIsFinal => FinishedIsFinal
    OBVIOUS
  <1> QED BY MessagesConserved, <1>1, PTL
=============================================================================
