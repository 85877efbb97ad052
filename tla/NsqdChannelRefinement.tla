----------------------- MODULE NsqdChannelRefinement -----------------------
(***************************************************************************)
(* NsqdChannel implements ChannelContract for all messages, consumers and  *)
(* bounds.                                                                 *)
(*                                                                         *)
(* Conservation does most of it: as a message is at one place only, at     *)
(* most one consumer has it, and what a step does to the contract's state  *)
(* of a message can be read off from four things: whether it is published, *)
(* finished or dropped, and which consumer it is with.                     *)
(***************************************************************************)
EXTENDS NsqdChannelConservation, NsqdChannelImplements

(* The contract's state of the messages, by those four things.             *)
Readable ==
    \A m \in Msgs :
        /\ m \in finished => ContractState[m] = Contract!At("finished")
        /\ m \in dropped \ finished => ContractState[m] = Contract!At("discarded")
        /\ \A c \in Clients : With(m, c) => /\ m \in published \ Gone
                                            /\ ContractState[m] = Contract!Out(c)
        /\ m \in published \ Gone /\ (\A c \in Clients : ~With(m, c))
              => ContractState[m] = Contract!At("waiting")
        /\ m \notin published => ContractState[m] = Contract!At("new")

(* A consumer has a message in the in-flight map or in its IOLoop's hand.  *)
LEMMA WithPlace ==
  ASSUME NEW m, NEW c \in Clients, With(m, c)
  PROVE  \/ \E o : At(m, "inflight", o) /\ clientID[o] = c
         \/ At(m, "io", c)
  BY AtInFlight, AtIo DEF With, IoHolds

(* At most one consumer has a message.                                     *)
LEMMA OneConsumer ==
  ASSUME Alone, ~Copied, NEW m, NEW c \in Clients, NEW d \in Clients,
         With(m, c), With(m, d)
  PROVE  c = d
  <1>1. \A k, h, j, i : At(m, k, h) /\ At(m, j, i) => j = k /\ i = h
    BY DEF Alone
  <1>2. \/ \E o : At(m, "inflight", o) /\ clientID[o] = c
        \/ At(m, "io", c)
    BY WithPlace
  <1>3. \/ \E o : At(m, "inflight", o) /\ clientID[o] = d
        \/ At(m, "io", d)
    BY WithPlace, ZenonT(60)
  <1>4. "inflight" # "io"
    BY ZenonT(60)
  <1> QED BY <1>1, <1>2, <1>3, <1>4, ZenonT(60)

LEMMA Reads == TypeOK /\ Cons /\ ~Copied => Readable
  <1> SUFFICES ASSUME TypeOK, Cons, ~Copied, NEW m \in Msgs
               PROVE
        /\ m \in finished => ContractState[m] = Contract!At("finished")
        /\ m \in dropped \ finished => ContractState[m] = Contract!At("discarded")
        /\ \A c \in Clients : With(m, c) => /\ m \in published \ Gone
                                            /\ ContractState[m] = Contract!Out(c)
        /\ m \in published \ Gone /\ (\A c \in Clients : ~With(m, c))
              => ContractState[m] = Contract!At("waiting")
        /\ m \notin published => ContractState[m] = Contract!At("new")
    BY DEF Readable
  <1>1. ContractState[m] = [at |-> Where(m),
                            to |-> IF Where(m) = "out" THEN CHOOSE c \in Clients : With(m, c)
                                   ELSE NoClient]
    BY DEF ContractState
  <1>2. ASSUME NEW w, Where(m) = w, w # "out" PROVE ContractState[m] = Contract!At(w)
    BY <1>1, <1>2, ZenonT(60) DEF Contract!At
  <1>3. m \in finished => ContractState[m] = Contract!At("finished")
    BY <1>2, ZenonT(60) DEF Where
  <1>4. m \in dropped \ finished => ContractState[m] = Contract!At("discarded")
    BY <1>2, ZenonT(60) DEF Where
  <1>5. \A c \in Clients : With(m, c) => m \in published \ Gone
    BY WithPlace DEF Cons, Final, Known, Anywhere
  <1>6. ASSUME NEW c \in Clients, With(m, c) PROVE ContractState[m] = Contract!Out(c)
    <2>1. Where(m) = "out"
      BY <1>5, <1>6, ZenonT(60) DEF Where, Gone
    <2>2. (CHOOSE d \in Clients : With(m, d)) \in Clients
          /\ With(m, CHOOSE d \in Clients : With(m, d))
      BY <1>6, ZenonT(60)
    <2>3. (CHOOSE d \in Clients : With(m, d)) = c
      BY <1>6, <2>2, OneConsumer, ZenonT(60) DEF Cons
    <2> QED BY <1>1, <2>1, <2>3, ZenonT(60) DEF Contract!Out
  <1>7. ASSUME m \in published \ Gone, \A c \in Clients : ~With(m, c)
        PROVE  ContractState[m] = Contract!At("waiting")
    <2>1. Somewhere(m)
      BY <1>7, ConsImplies, ZenonT(60) DEF Accounted, Gone
    <2> QED BY <1>2, <1>7, <2>1, ZenonT(60) DEF Where, Gone
  <1>8. ASSUME m \notin published PROVE ContractState[m] = Contract!At("new")
    <2>1. m \notin Gone /\ ~Anywhere(m)
      BY <1>8, ZenonT(60) DEF Cons, Known
    <2>2. ~Somewhere(m)
      BY <2>1, ZenonT(60) DEF Somewhere, Anywhere
    <2> QED BY <1>2, <1>5, <1>8, <2>1, <2>2, ZenonT(60) DEF Where, Gone
  <1> QED BY <1>3, <1>4, <1>5, <1>6, <1>7, <1>8, ZenonT(60)

-----------------------------------------------------------------------------
(* A consumer that touches a message is its owner and stays it.            *)
TouchOwner ==
    ~Copied => \A c \in Clients :
                  io[c].pc \in {"popped", "removed"} /\ io[c].op = "TOUCH"
                      => clientID[io[c].obj] = c

(* Whatever Close has begun to copy stays copied.                          *)
LEMMA CopiedStays == [Next]_vars /\ Copied => Copied'
  <1> USE DEF Copied
  <1>1. CASE AdminNext
    BY <1>1 DEF AdminNext, EmptyInFlight, EmptyDeferred, EmptyClients, EmptyMemory,
                EmptyBackend, exit, FlushMemory, FlushInFlight, FlushDeferred
  <1>2. CASE UNCHANGED admin
    BY <1>2, ZenonT(60)
  <1>3. [Next]_vars => AdminNext \/ UNCHANGED admin
    BY ZenonT(60) DEF Next, vars, adminVars, PumpNext, IoNext, ScanNext, PutMessage,
           PutMessageDeferred, PutAddToDeferredPQ, AddClient, RemoveClient,
           PumpRecvMemory, PumpRecvBackend, PumpSample, PumpPush, PumpAdd, PumpSend,
           PumpExit, popInFlightMessage, IoRemovePQ, RequeueNow, RequeueDeferred,
           RequeueAddToDeferredPQ, TouchPush, TouchAdd, IoCount, ScanShift,
           ScanShiftDeferred, ScanReadClient, ScanPop, ScanTimedOut, ScanPut,
           ScanPopDeferred
  <1> QED BY <1>1, <1>2, <1>3, ZenonT(60)

(* The goroutines' steps by what they do to ownership.                     *)
LEMMA OwnerCases ==
  [Next]_vars => \/ UNCHANGED <<io, clientID>>
                 \/ \E c \in Clients : PumpPush(c)
                 \/ \E c \in Clients : IoNext(c)
  BY ZenonT(60) DEF Next, vars, flightVars, threadVars, PumpNext, ScanNext, AdminNext, PutMessage,
         PutMessageDeferred, PutAddToDeferredPQ, AddClient, RemoveClient,
         PumpRecvMemory, PumpRecvBackend, PumpSample, PumpAdd, PumpSend, PumpExit,
         ScanShift, ScanShiftDeferred, ScanReadClient, ScanPop, ScanTimedOut, ScanPut,
         ScanPopDeferred, EmptyInFlight, EmptyDeferred, EmptyClients, EmptyMemory,
         EmptyBackend, exit, FlushMemory, FlushInFlight, FlushDeferred

(* Only messagePump writes clientID, and only of the message in its hand,  *)
(* which is in no IOLoop's hand.                                           *)
LEMMA OwnerStep ==
  ASSUME ConsInv, TouchOwner, [Next]_vars
  PROVE  TouchOwner'
  <1> SUFFICES ASSUME ~Copied', NEW c \in Clients,
                      io'[c].pc \in {"popped", "removed"}, io'[c].op = "TOUCH"
               PROVE  clientID'[io'[c].obj] = c
    BY DEF TouchOwner
  <1>1. ~Copied /\ TypeOK /\ Alone
    BY CopiedStays DEF ConsInv, TypeInv, Cons
  <1>2. io \in [Clients -> IoStates] /\ clientID \in [Obj -> Clients \cup {NoClient}]
        /\ pump \in [Clients -> PumpStates]
    BY <1>1 DEF TypeOK
  <1>3. CASE UNCHANGED <<io, clientID>>
    BY <1>1, <1>3, ZenonT(60) DEF TouchOwner
  <1>4. ASSUME NEW d \in Clients, PumpPush(d)
        PROVE  clientID'[io'[c].obj] = c
    <2>1. /\ clientID' = [clientID EXCEPT ![pump[d].obj] = d] /\ io' = io
          /\ pump[d].pc = "got"
      BY <1>4, ZenonT(60) DEF PumpPush
    <2>2. At(Id(pump[d].obj), "pump", d)
      BY <2>1, AtPump, ZenonT(60) DEF PumpHolds
    <2>3. At(Id(io[c].obj), "io", c)
      BY <2>1, AtIo, ZenonT(60) DEF IoHolds
    <2>4. pump[d].obj # io[c].obj
      BY <1>1, <2>2, <2>3, ZenonT(60) DEF Alone
    <2>5. io[c].obj \in Obj
      BY <1>2, <2>1 DEF IoStates, IoIdle
    <2>6. clientID[io[c].obj] = c
      BY <1>1, <2>1, ZenonT(60) DEF TouchOwner
    <2> QED BY <1>2, <2>1, <2>4, <2>5, <2>6, ZenonT(60)
  <1>5. ASSUME NEW d \in Clients, IoNext(d)
        PROVE  clientID'[io'[c].obj] = c
    <2>1. UNCHANGED clientID
      BY <1>5, ZenonT(60) DEF IoNext, popInFlightMessage, IoRemovePQ, RequeueNow, RequeueDeferred,
                  RequeueAddToDeferredPQ, TouchPush, TouchAdd, IoCount, flightVars
    <2>2. CASE d # c
      <3>1. io'[c] = io[c]
        BY <1>2, <1>5, <2>2, ZenonT(60) DEF IoNext, popInFlightMessage, IoRemovePQ, RequeueNow,
                RequeueDeferred, RequeueAddToDeferredPQ, TouchPush, TouchAdd, IoCount
      <3> QED BY <1>1, <2>1, <3>1, ZenonT(60) DEF TouchOwner
    <2>3. ASSUME d = c, NEW op \in {"FIN", "REQ", "REQdelay", "TOUCH"},
                 popInFlightMessage(d, op)
          PROVE  clientID[io'[c].obj] = c
      BY <1>2, <2>3 DEF popInFlightMessage
    <2>4. ASSUME d = c, ~\E op \in {"FIN", "REQ", "REQdelay", "TOUCH"} : popInFlightMessage(d, op)
          PROVE  IoRemovePQ(c)
      <3>1. ASSUME \/ RequeueNow(c) \/ RequeueDeferred(c) \/ RequeueAddToDeferredPQ(c)
                   \/ TouchPush(c) \/ TouchAdd(c) \/ IoCount(c)
            PROVE  io'[c].pc \in {"idle", "pushed", "count"}
        BY <1>2, <3>1 DEF RequeueNow, RequeueDeferred, RequeueAddToDeferredPQ, TouchPush,
                          TouchAdd, IoCount, IoIdle, IoStates
      <3> QED BY <1>5, <2>4, <3>1, ZenonT(60) DEF IoNext
    <2>5. ASSUME IoRemovePQ(c) PROVE clientID[io'[c].obj] = c
      <3>1. io[c].pc = "popped" /\ io'[c].obj = io[c].obj /\ io'[c].op = io[c].op
        BY <1>2, <2>5 DEF IoRemovePQ, IoStates, IoIdle
      <3> QED BY <1>1, <3>1, ZenonT(60) DEF TouchOwner
    <2> QED BY <2>1, <2>2, <2>3, <2>4, <2>5, SMTT(60)
  <1> QED BY <1>3, <1>4, <1>5, OwnerCases

-----------------------------------------------------------------------------
(* What a step does to the contract's state.                               *)

(* A step leaves the four things alone for message m.                      *)
Untouched(m) ==
    /\ m \in published' <=> m \in published
    /\ m \in finished' <=> m \in finished
    /\ m \in dropped' <=> m \in dropped
    /\ \A c \in Clients : With(m, c)' <=> With(m, c)

(* The contract's states are constants.                                    *)
LEMMA ReadsNext ==
  ASSUME Readable', NEW m \in Msgs
  PROVE  /\ m \in finished' => ContractState'[m] = Contract!At("finished")
         /\ m \in dropped' \ finished' => ContractState'[m] = Contract!At("discarded")
         /\ \A c \in Clients : With(m, c)' => /\ m \in published' \ Gone'
                                              /\ ContractState'[m] = Contract!Out(c)
         /\ m \in published' \ Gone' /\ (\A c \in Clients : ~With(m, c)')
               => ContractState'[m] = Contract!At("waiting")
         /\ m \notin published' => ContractState'[m] = Contract!At("new")
  BY ZenonT(60) DEF Readable, Contract!At, Contract!Out

LEMMA Unmoved ==
  ASSUME Readable, Readable', NEW m \in Msgs, Untouched(m)
  PROVE  ContractState'[m] = ContractState[m]
  <1>1. /\ m \in finished => ContractState[m] = Contract!At("finished")
        /\ m \in dropped \ finished => ContractState[m] = Contract!At("discarded")
        /\ \A c \in Clients : With(m, c) => ContractState[m] = Contract!Out(c)
        /\ m \in published \ Gone /\ (\A c \in Clients : ~With(m, c))
              => ContractState[m] = Contract!At("waiting")
        /\ m \notin published => ContractState[m] = Contract!At("new")
    BY ZenonT(60) DEF Readable
  <1>2. CASE \E c \in Clients : With(m, c)
    BY <1>1, <1>2, ReadsNext DEF Untouched
  <1>3. CASE ~\E c \in Clients : With(m, c)
    BY <1>1, <1>3, ReadsNext, ZenonT(60) DEF Untouched, Gone
  <1> QED BY <1>2, <1>3, ZenonT(60)

LEMMA StateFun ==
  /\ ContractState = [m \in Msgs |-> ContractState[m]]
  /\ ContractState' = [m \in Msgs |-> ContractState'[m]]
  BY DEF ContractState

(* One message changes its state, the others are left alone.               *)
LEMMA OneMoves ==
  ASSUME Readable, Readable', NEW m0 \in Msgs, NEW s, ContractState'[m0] = s,
         \A m \in Msgs \ {m0} : Untouched(m)
  PROVE  Contract!Become(m0, s)
  <1>1. \A m \in Msgs \ {m0} : ContractState'[m] = ContractState[m]
    BY Unmoved, ZenonT(60)
  <1> QED BY <1>1, StateFun, ZenonT(60) DEF Contract!Become

(* Messages the channel has are let go of, the others are left alone.      *)
LEMMA SomeDiscarded ==
  ASSUME TypeOK, TypeOK', Cons, ~Copied, Readable, Readable',
         UNCHANGED <<published, finished>>, dropped \subseteq dropped',
         \A m \in dropped' \ dropped : Anywhere(m),
         \A m \in Msgs \ dropped' : \A c \in Clients : With(m, c)' <=> With(m, c)
  PROVE  Contract!Next
  <1> DEFINE S == dropped' \ dropped
  <1>1. S \in SUBSET Msgs
    BY ZenonT(60) DEF TypeOK
  <1>2. ASSUME NEW m \in S
        PROVE  ContractState[m] \in {Contract!At("waiting")} \cup Contract!Delivered
    <2>1. m \in published \ Gone /\ m \in Msgs
      BY <1>1, ZenonT(60) DEF Cons, Final, Known
    <2>2. CASE \E c \in Clients : With(m, c)
      BY <2>1, <2>2, ZenonT(60) DEF Readable, Contract!Delivered
    <2>3. CASE ~\E c \in Clients : With(m, c)
      BY <2>1, <2>3, ZenonT(60) DEF Readable
    <2> QED BY <2>2, <2>3, ZenonT(60)
  <1>3. ASSUME NEW m \in S PROVE ContractState'[m] = Contract!At("discarded")
    BY <1>1, <1>3, ReadsNext, ZenonT(60) DEF Cons, Final, Gone
  <1>4. ASSUME NEW m \in Msgs \ S PROVE ContractState'[m] = ContractState[m]
    <2>1. CASE m \in dropped
      <3>1. m \in dropped'
        BY <2>1, ZenonT(60)
      <3> QED BY <2>1, <3>1, ReadsNext, ZenonT(60) DEF Readable
    <2>2. CASE m \notin dropped
      BY <1>4, <2>2, Unmoved, ZenonT(60) DEF Untouched
    <2> QED BY <2>1, <2>2, ZenonT(60)
  <1>5. ContractState' = [m \in Msgs |-> IF m \in S THEN Contract!At("discarded")
                                                   ELSE ContractState[m]]
    BY <1>1, <1>3, <1>4, StateFun, ZenonT(60)
  <1>6. Contract!Discard(S)
    BY <1>2, <1>5, ZenonT(60) DEF Contract!Discard
  <1> QED BY <1>1, <1>6, ZenonT(60) DEF Contract!Next

-----------------------------------------------------------------------------
(* The steps, one lemma for each transfer of the contract.                 *)

(* What is known of a step before Close has begun to copy.                 *)
Normal == /\ TypeOK /\ TypeOK' /\ Cons /\ TouchOwner /\ ~Copied
          /\ Readable /\ Readable'

Touching(m, c) ==
    io[c].pc \in {"popped", "removed"} /\ io[c].op = "TOUCH" /\ Id(io[c].obj) = m

LEMMA WithNext ==
  ASSUME NEW m, NEW c
  PROVE  /\ With(m, c) <=> \/ \E o \in inFlightMessages : Id(o) = m /\ clientID[o] = c
                           \/ Touching(m, c)
         /\ With(m, c)' <=> \/ \E o \in inFlightMessages' : Id(o) = m /\ clientID'[o] = c
                            \/ Touching(m, c)'
  BY DEF With, Touching, Id

(* A message in flight is in flight once, and no IOLoop is touching it.    *)
LEMMA InFlightAlone ==
  ASSUME Cons, ~Copied, NEW o \in inFlightMessages
  PROVE  /\ \A x \in inFlightMessages : Id(x) = Id(o) => x = o
         /\ \A d \in Clients : ~Touching(Id(o), d)
  <1>1. \A k, h, j, i : At(Id(o), k, h) /\ At(Id(o), j, i) => j = k /\ i = h
    BY ZenonT(60) DEF Cons, Alone
  <1>2. \A x \in inFlightMessages : Id(x) = Id(o) => At(Id(o), "inflight", x)
    BY AtInFlight, ZenonT(60)
  <1>3. \A d \in Clients : Touching(Id(o), d) => At(Id(o), "io", d)
    BY AtIo, ZenonT(60) DEF Touching, IoHolds
  <1>4. At(Id(o), "inflight", o) /\ "inflight" # "io"
    BY <1>2, ZenonT(60)
  <1> QED BY <1>1, <1>2, <1>3, <1>4, ZenonT(60)

LEMMA AcceptStep ==
  ASSUME Normal, NEW m0 \in Msgs, m0 \notin published, published' = published \cup {m0},
         UNCHANGED <<inFlightMessages, clientID, io, finished>>,
         dropped' = dropped \/ dropped' = dropped \cup {m0}
  PROVE  Contract!Next
  <1> USE DEF Normal
  <1>1. \A m, c : With(m, c)' <=> With(m, c)
    BY WithNext, ZenonT(60) DEF Touching
  <1>2. \A m \in Msgs \ {m0} : Untouched(m)
    BY <1>1, ZenonT(60) DEF Untouched
  <1>3. /\ ContractState[m0] = Contract!At("new") /\ m0 \notin Gone
        /\ \A c \in Clients : ~With(m0, c)
    BY ZenonT(60) DEF Readable, Cons, Known
  <1>4. CASE m0 \in dropped'
    <2>1. ContractState'[m0] = Contract!At("discarded")
      BY <1>3, <1>4, ReadsNext, ZenonT(60) DEF Gone
    <2>2. Contract!Become(m0, Contract!At("discarded"))
      BY <1>2, <2>1, OneMoves, ZenonT(60)
    <2> QED BY <1>3, <2>2, ZenonT(60) DEF Contract!Accept, Contract!Next
  <1>5. CASE m0 \notin dropped'
    <2>1. ContractState'[m0] = Contract!At("waiting")
      BY <1>1, <1>3, <1>5, ReadsNext, ZenonT(60) DEF Gone
    <2>2. Contract!Become(m0, Contract!At("waiting"))
      BY <1>2, <2>1, OneMoves, ZenonT(60)
    <2> QED BY <1>3, <2>2, ZenonT(60) DEF Contract!Accept, Contract!Next
  <1> QED BY <1>4, <1>5, ZenonT(60)

LEMMA DeliverStep ==
  ASSUME Normal, NEW c \in Clients, PumpPush(c)
  PROVE  Contract!Next
  <1> USE DEF Normal
  <1>o. PICK o, m0 : o = pump[c].obj /\ m0 = Id(o)
    BY ZenonT(60)
  <1>1. o \in Obj /\ m0 \in Msgs /\ pump[c].pc = "got"
    BY <1>o, ObjId DEF PumpPush, TypeOK, PumpStates, Idle
  <1>2. At(m0, "pump", c)
    BY <1>o, <1>1, AtPump, ZenonT(60) DEF PumpHolds
  <1>3. \A k, h : At(m0, k, h) => k = "pump"
    BY <1>2, ZenonT(60) DEF Cons, Alone
  <1>4. \A x \in inFlightMessages : Id(x) # m0
    BY <1>3, AtInFlight, ZenonT(60)
  <1>5. \A d \in Clients : ~With(m0, d)
    BY <1>3, WithPlace, ZenonT(60)
  <1>6. m0 \in published \ Gone
    BY <1>2, ZenonT(60) DEF Cons, Known, Final, Anywhere
  <1>7. ContractState[m0] = Contract!At("waiting")
    BY <1>1, <1>5, <1>6, ZenonT(60) DEF Readable
  <1>8. /\ inFlightMessages' = inFlightMessages \cup {o}
        /\ clientID' = [clientID EXCEPT ![o] = c]
        /\ UNCHANGED <<io, published, finished, dropped>>
    BY <1>o, <1>4, ZenonT(60) DEF PumpPush, Ids, queueVars
  <1>9. clientID'[o] = c /\ \A x \in inFlightMessages : clientID'[x] = clientID[x]
    BY <1>o, <1>1, <1>4, <1>8, SMTT(60) DEF TypeOK
  <1>10. ContractState'[m0] = Contract!Out(c)
    <2>1. With(m0, c)'
      BY <1>o, <1>8, <1>9, WithNext
    <2> QED BY <1>1, <2>1, ReadsNext, ZenonT(60)
  <1>11. ASSUME NEW m \in Msgs \ {m0} PROVE Untouched(m)
    <2>1. ASSUME NEW d \in Clients PROVE With(m, d)' <=> With(m, d)
      <3>1. Touching(m, d)' <=> Touching(m, d)
        BY <1>8, ZenonT(60) DEF Touching
      <3> QED BY <1>o, <1>8, <1>9, <3>1, WithNext
    <2> QED BY <1>8, <2>1, ZenonT(60) DEF Untouched
  <1>12. Contract!Become(m0, Contract!Out(c))
    BY <1>1, <1>10, <1>11, OneMoves, ZenonT(60)
  <1> QED BY <1>1, <1>7, <1>12, ZenonT(60) DEF Contract!Deliver, Contract!Next

(* A message leaves the in-flight map: the consumer no longer has it.      *)
LEMMA LeaveFlight ==
  ASSUME Normal, NEW o \in inFlightMessages, clientID[o] \in Clients,
         inFlightMessages' = inFlightMessages \ {o},
         UNCHANGED <<clientID, published, dropped>>,
         finished' = finished \/ finished' = finished \cup {Id(o)},
         \A m : \A d \in Clients : Touching(m, d)' <=> Touching(m, d)
  PROVE  Contract!Next
  <1> USE DEF Normal
  <1>o. PICK m0, c : m0 = Id(o) /\ c = clientID[o]
    BY ZenonT(60)
  <1>1. m0 \in Msgs /\ c \in Clients
    BY <1>o, ObjId, ZenonT(60) DEF TypeOK
  <1>2. With(m0, c)
    BY <1>o, WithNext, ZenonT(60)
  <1>3. ContractState[m0] = Contract!Out(c) /\ m0 \in published \ Gone
    BY <1>1, <1>2, ZenonT(60) DEF Readable
  <1>4. \A d \in Clients : ~With(m0, d)'
    BY <1>o, InFlightAlone, WithNext
  <1>5. ASSUME NEW m \in Msgs \ {m0} PROVE Untouched(m)
    <2>1. \A d \in Clients : With(m, d)' <=> With(m, d)
      BY <1>o, WithNext, ZenonT(60)
    <2> QED BY <1>o, <2>1, ZenonT(60) DEF Untouched
  <1>6. CASE finished' = finished
    <2>1. ContractState'[m0] = Contract!At("waiting")
      BY <1>1, <1>3, <1>4, <1>6, ReadsNext, ZenonT(60) DEF Gone
    <2>2. Contract!Become(m0, Contract!At("waiting"))
      BY <1>1, <1>5, <2>1, OneMoves, ZenonT(60)
    <2> QED BY <1>1, <1>3, <2>2, ZenonT(60) DEF Contract!TakeBack, Contract!Next
  <1>7. CASE finished' = finished \cup {m0}
    <2>1. ContractState'[m0] = Contract!At("finished")
      BY <1>1, <1>7, ReadsNext, ZenonT(60)
    <2>2. Contract!Become(m0, Contract!At("finished"))
      BY <1>1, <1>5, <2>1, OneMoves, ZenonT(60)
    <2> QED BY <1>1, <1>3, <2>2, ZenonT(60) DEF Contract!Finish, Contract!Next
  <1> QED BY <1>o, <1>6, <1>7, ZenonT(60)

(* FIN finishes the message, REQ takes it back, TOUCH leaves it with its   *)
(* consumer.                                                               *)
LEMMA PopStep ==
  ASSUME Normal, NEW c \in Clients, NEW op \in {"FIN", "REQ", "REQdelay", "TOUCH"},
         popInFlightMessage(c, op)
  PROVE  Contract!Next
  <1> USE DEF Normal
  <1>1. PICK o \in inFlightMessages :
           /\ clientID[o] = c
           /\ inFlightMessages' = inFlightMessages \ {o}
           /\ io' = [io EXCEPT ![c] = [pc |-> "popped", op |-> op, obj |-> o]]
           /\ finished' = IF op = "FIN" THEN finished \cup {Id(o)} ELSE finished
    BY ZenonT(60) DEF popInFlightMessage
  <1>2. /\ UNCHANGED <<clientID, published, dropped>> /\ io[c] = IoIdle
        /\ io \in [Clients -> IoStates]
    BY ZenonT(60) DEF popInFlightMessage, queueVars, TypeOK
  <1>3. /\ io'[c] = [pc |-> "popped", op |-> op, obj |-> o]
        /\ \A d \in Clients \ {c} : io'[d] = io[d]
    BY <1>1, <1>2, ZenonT(60)
  <1>4. /\ \A m : \A d \in Clients \ {c} : Touching(m, d)' <=> Touching(m, d)
        /\ \A m : ~Touching(m, c) /\ (Touching(m, c)' <=> op = "TOUCH" /\ Id(o) = m)
    <2>1. \A m : \A d \in Clients \ {c} : Touching(m, d)' <=> Touching(m, d)
      BY <1>3, ZenonT(60) DEF Touching, Id
    <2>2. \A m : ~Touching(m, c)
      BY <1>2 DEF Touching, IoIdle
    <2>3. \A m : Touching(m, c)' <=> op = "TOUCH" /\ Id(o) = m
      BY <1>3 DEF Touching, Id
    <2> QED
      BY <2>1, <2>2, <2>3, ZenonT(60)
  <1>5. CASE op # "TOUCH"
    <2>1. \A m : \A d \in Clients : Touching(m, d)' <=> Touching(m, d)
      BY <1>4, <1>5, ZenonT(60)
    <2> QED BY <1>1, <1>2, <2>1, LeaveFlight, ZenonT(60)
  <1>6. CASE op = "TOUCH"
    <2>1. ASSUME NEW m \in Msgs, NEW d \in Clients PROVE With(m, d)' <=> With(m, d)
      <3>1. CASE d # c
        BY <1>1, <1>2, <1>4, <3>1, WithNext, ZenonT(60)
      <3>2. CASE d = c /\ m # Id(o)
        BY <1>1, <1>2, <1>4, <3>2, WithNext, ZenonT(60)
      <3>3. CASE d = c /\ m = Id(o)
        BY <1>1, <1>2, <1>4, <1>6, <3>3, WithNext, ZenonT(60)
      <3> QED BY <3>1, <3>2, <3>3, ZenonT(60)
    <2> QED BY <1>1, <1>2, <1>6, <2>1, SomeDiscarded, ZenonT(60)
  <1> QED BY <1>5, <1>6

(* The time-out takes the message back.                                    *)
LEMMA ScanPopStep ==
  ASSUME Normal, ScanPop
  PROVE  Contract!Next
  <1> USE DEF Normal
  <1> DEFINE owned == {x \in inFlightMessages : Id(x) = Id(scan.obj) /\ clientID[x] = scan.cid}
  <1>1. /\ inFlightMessages' = inFlightMessages \ owned
        /\ UNCHANGED <<clientID, io, published, finished, dropped>>
    BY ZenonT(60) DEF ScanPop, queueVars
  <1>2. \A m : \A d \in Clients : Touching(m, d)' <=> Touching(m, d)
    BY <1>1, ZenonT(60) DEF Touching
  <1>3. CASE \A x \in owned : clientID[x] \notin Clients
    <2>1. ASSUME NEW m \in Msgs, NEW d \in Clients PROVE With(m, d)' <=> With(m, d)
      BY <1>1, <1>2, <1>3, WithNext
    <2> QED BY <1>1, <2>1, SomeDiscarded, ZenonT(60)
  <1>4. ASSUME NEW x \in owned, clientID[x] \in Clients PROVE Contract!Next
    <2>1. owned = {x}
      BY InFlightAlone, ZenonT(60)
    <2> QED BY <1>1, <1>2, <1>4, <2>1, LeaveFlight, ZenonT(60)
  <1> QED BY <1>3, <1>4

(* TOUCH puts the message back for the same consumer.                      *)
LEMMA TouchPushStep ==
  ASSUME Normal, NEW c \in Clients, TouchPush(c)
  PROVE  Contract!Next
  <1> USE DEF Normal
  <1>o. PICK o, m0 : o = io[c].obj /\ m0 = Id(o)
    OBVIOUS
  <1>1. /\ Touching(m0, c) /\ clientID[o] = c /\ Anywhere(m0)
        /\ \A m : Touching(m, c) => m = m0
    <2>1. Touching(m0, c) /\ clientID[o] = c /\ \A m : Touching(m, c) => m = m0
      BY <1>o, ZenonT(60) DEF TouchPush, Touching, TouchOwner
    <2>2. At(m0, "io", c)
      BY <1>o, AtIo, ZenonT(60) DEF TouchPush, IoHolds
    <2> QED BY <2>1, <2>2, ZenonT(60) DEF Anywhere
  <1>2. UNCHANGED <<clientID, published, finished>> /\ io \in [Clients -> IoStates]
    BY DEF TouchPush, TypeOK
  <1>3. /\ \A d \in Clients \ {c} : io'[d] = io[d]
        /\ io'[c].pc \in {"idle", "pushed"}
    BY <1>2 DEF TouchPush, IoIdle, IoStates
  <1>4. /\ \A m : \A d \in Clients \ {c} : Touching(m, d)' <=> Touching(m, d)
        /\ \A m : ~Touching(m, c)'
    BY <1>3, ZenonT(60) DEF Touching, Id
  <1>5. CASE m0 \in Ids(inFlightMessages)
    <2>1. UNCHANGED inFlightMessages /\ dropped' = dropped \cup {m0}
      BY <1>o, <1>5, ZenonT(60) DEF TouchPush
    <2>2. ASSUME NEW m \in Msgs \ dropped', NEW d \in Clients
          PROVE  With(m, d)' <=> With(m, d)
      BY <1>1, <1>2, <1>4, <2>1, WithNext
    <2> QED BY <1>1, <1>2, <2>1, <2>2, SomeDiscarded, ZenonT(60)
  <1>6. CASE m0 \notin Ids(inFlightMessages)
    <2>1. UNCHANGED dropped /\ inFlightMessages' = inFlightMessages \cup {o}
      BY <1>o, <1>6, ZenonT(60) DEF TouchPush
    <2>2. ASSUME NEW m \in Msgs, NEW d \in Clients PROVE With(m, d)' <=> With(m, d)
      <3>1. CASE d # c
        BY <1>1, <1>2, <1>4, <2>1, <3>1, WithNext, SMTT(60)
      <3>2. CASE d = c /\ m # m0
        BY <1>o, <1>1, <1>2, <1>4, <2>1, <3>2, WithNext, SMTT(60)
      <3>3. CASE d = c /\ m = m0
        BY <1>o, <1>1, <1>2, <2>1, <3>3, WithNext, ZenonT(60)
      <3> QED BY <3>1, <3>2, <3>3, ZenonT(60)
    <2> QED BY <1>2, <2>1, <2>2, SomeDiscarded, ZenonT(60)
  <1> QED BY <1>5, <1>6, ZenonT(60)

(* The rest of FIN, REQ and TOUCH moves nothing between the channel and a  *)
(* consumer; REQ may lose the message it took back.                        *)
LEMMA IoStep ==
  ASSUME Normal, NEW c \in Clients,
         \/ IoRemovePQ(c) \/ RequeueNow(c) \/ RequeueDeferred(c)
         \/ RequeueAddToDeferredPQ(c) \/ TouchAdd(c) \/ IoCount(c)
  PROVE  Contract!Next
  <1> USE DEF Normal, flightVars, queueVars
  <1>1. UNCHANGED <<inFlightMessages, clientID, published, finished>>
    BY ZenonT(60) DEF IoRemovePQ, RequeueNow, RequeueDeferred, RequeueAddToDeferredPQ, TouchAdd, IoCount
  <1>2. io \in [Clients -> IoStates]
    BY ZenonT(60) DEF TypeOK
  <1>3. \A d \in Clients \ {c} : io'[d] = io[d]
    BY <1>2, ZenonT(60) DEF IoRemovePQ, RequeueNow, RequeueDeferred, RequeueAddToDeferredPQ, TouchAdd, IoCount
  <1>4. \A m : Touching(m, c)' <=> Touching(m, c)
    <2>1. CASE IoRemovePQ(c)
      <3>1. /\ io[c].pc = "popped" /\ io'[c].op = io[c].op /\ io'[c].obj = io[c].obj
            /\ io'[c].pc = IF io[c].op = "FIN" THEN "count" ELSE "removed"
        BY <1>2, <2>1 DEF IoRemovePQ, IoStates, IoIdle
      <3> QED BY <3>1 DEF Touching, Id
    <2>2. CASE ~IoRemovePQ(c)
      <3>1. io[c].op # "TOUCH" \/ io[c].pc \in {"pushed", "count"}
        BY <2>2, ZenonT(60) DEF RequeueNow, RequeueDeferred, RequeueAddToDeferredPQ, TouchAdd, IoCount
      <3>2. io'[c].pc \in {"idle", "count", "pushed"}
        BY <1>2, <2>2, SMTT(60) DEF RequeueNow, RequeueDeferred, RequeueAddToDeferredPQ, TouchAdd,
                          IoCount, IoStates, IoIdle
      <3> QED BY <3>1, <3>2, ZenonT(60) DEF Touching, Id
    <2> QED BY <2>1, <2>2, SMTT(60)
  <1>5. \A m : \A d \in Clients : Touching(m, d)' <=> Touching(m, d)
    BY <1>3, <1>4, ZenonT(60) DEF Touching, Id
  <1>6. \A m : \A d \in Clients : With(m, d)' <=> With(m, d)
    BY <1>1, <1>5, WithNext, ZenonT(60)
  <1>7. \/ UNCHANGED dropped
        \/ dropped' = dropped \cup {Id(io[c].obj)} /\ io[c].pc = "removed" /\ io[c].op # "FIN"
    BY PutEffect, SMTT(60) DEF IoRemovePQ, RequeueNow, RequeueDeferred, RequeueAddToDeferredPQ,
                     TouchAdd, IoCount
  <1>8. \A m \in dropped' \ dropped : Anywhere(m)
    BY <1>7, AtIo, ZenonT(60) DEF Anywhere, IoHolds
  <1>9. dropped \subseteq dropped'
    BY <1>7, ZenonT(60)
  <1> QED BY <1>1, <1>6, <1>8, <1>9, SomeDiscarded, ZenonT(60)

(* Empty takes all in-flight messages away from their consumers.           *)
LEMMA EmptyInFlightStep ==
  ASSUME Normal, EmptyInFlight
  PROVE  Contract!Next
  <1> USE DEF Normal
  <1>1. /\ inFlightMessages' = {} /\ dropped' = dropped \cup Ids(inFlightMessages)
        /\ UNCHANGED <<io, published, finished>>
    BY ZenonT(60) DEF EmptyInFlight, threadVars
  <1>2. \A m \in dropped' \ dropped : Anywhere(m)
    BY <1>1, AtInFlight, SMTT(60) DEF Anywhere, Ids
  <1>3. ASSUME NEW m \in Msgs \ dropped', NEW d \in Clients
        PROVE  With(m, d)' <=> With(m, d)
    <2>1. Touching(m, d)' <=> Touching(m, d)
      BY <1>1, ZenonT(60) DEF Touching
    <2>2. \A x \in inFlightMessages : Id(x) # m
      BY <1>1, <1>3, ZenonT(60) DEF Ids
    <2> QED BY <1>1, <2>1, <2>2, WithNext, ZenonT(60)
  <1> QED BY <1>1, <1>2, <1>3, SomeDiscarded, ZenonT(60)

(* All other steps leave every consumer what it has.                       *)
LEMMA StillStep ==
  ASSUME Normal, UNCHANGED <<inFlightMessages, clientID, io, published, finished>>,
         dropped \subseteq dropped', \A m \in dropped' \ dropped : Anywhere(m)
  PROVE  Contract!Next
  <1> USE DEF Normal
  <1>1. \A m : \A d \in Clients : With(m, d)' <=> With(m, d)
    BY WithNext, ZenonT(60) DEF Touching
  <1> QED BY <1>1, SomeDiscarded, ZenonT(60)

(* Where a message that such a step lets go of was.                        *)
LEMMA Stored ==
  /\ \A o \in memoryMsgChan : Anywhere(Id(o))
  /\ \A m \in Ids(deferredMessages) : Anywhere(m)
  /\ \A m \in backend : Anywhere(m)
  /\ ScanHolds => Anywhere(Id(scan.obj))
  <1>1. \A o \in memoryMsgChan : At(Id(o), "memory", o)
    BY AtMemory
  <1>2. \A o \in deferredMessages : At(Id(o), "deferred", o)
    BY AtDeferred
  <1>3. \A m \in backend : At(m, "backend", m)
    BY AtBackend, ZenonT(60)
  <1>4. ScanHolds => At(Id(scan.obj), "scan", NoClient)
    BY AtScan, ZenonT(60)
  <1> QED BY <1>1, <1>2, <1>3, <1>4, ZenonT(60) DEF Anywhere, Ids

LEMMA PumpStill ==
  ASSUME Normal, NEW c \in Clients,
         \/ PumpRecvMemory(c) \/ PumpRecvBackend(c) \/ PumpSample(c) \/ PumpAdd(c)
         \/ PumpSend(c) \/ PumpExit(c) \/ AddClient(c) \/ RemoveClient(c)
  PROVE  Contract!Next
  <1> USE DEF flightVars, queueVars, threadVars
  <1>1. UNCHANGED <<inFlightMessages, clientID, io, published, finished>>
    BY ZenonT(60) DEF PumpRecvMemory, PumpRecvBackend, PumpSample, PumpAdd, PumpSend, PumpExit,
           AddClient, RemoveClient
  <1>2. CASE PumpSample(c)
    <2>1. \/ \E o \in memoryMsgChan : dropped' = dropped \cup {Id(o)}
          \/ \E m \in backend : dropped' = dropped \cup {m}
      BY <1>2, ZenonT(60) DEF PumpSample
    <2>2. dropped \subseteq dropped' /\ \A m \in dropped' \ dropped : Anywhere(m)
      BY <2>1, Stored, ZenonT(60)
    <2> QED BY <1>1, <2>2, StillStep, ZenonT(60)
  <1>3. CASE ~PumpSample(c)
    <2>1. UNCHANGED dropped
      BY <1>3 DEF PumpRecvMemory, PumpRecvBackend, PumpAdd, PumpSend, PumpExit, AddClient,
                  RemoveClient
    <2> QED BY <1>1, <2>1, StillStep, ZenonT(60)
  <1> QED BY <1>2, <1>3, ZenonT(60)

LEMMA ScanStill ==
  ASSUME Normal,
         \/ \E o \in Obj : ScanShift(o) \/ ScanShiftDeferred(o)
         \/ ScanReadClient \/ ScanTimedOut \/ ScanPut \/ ScanPopDeferred
         \/ PutAddToDeferredPQ
  PROVE  Contract!Next
  <1> USE DEF flightVars, queueVars, threadVars
  <1>1. UNCHANGED <<inFlightMessages, clientID, io, published, finished>>
    BY ZenonT(60) DEF ScanShift, ScanShiftDeferred, ScanReadClient, ScanTimedOut, ScanPut,
           ScanPopDeferred, PutAddToDeferredPQ
  <1>2. CASE ScanPut
    <2>1. UNCHANGED dropped \/ dropped' = dropped \cup {Id(scan.obj)}
      BY <1>2, PutEffect, ZenonT(60) DEF ScanPut
    <2>2. Anywhere(Id(scan.obj))
      BY <1>2, Stored, ZenonT(60) DEF ScanPut, ScanHolds
    <2>3. dropped \subseteq dropped' /\ \A m \in dropped' \ dropped : Anywhere(m)
      BY <2>1, <2>2
    <2> QED BY <1>1, <2>3, StillStep, ZenonT(60)
  <1>3. CASE ~ScanPut
    <2>1. UNCHANGED dropped
      BY <1>3 DEF ScanShift, ScanShiftDeferred, ScanReadClient, ScanTimedOut,
                  ScanPopDeferred, PutAddToDeferredPQ
    <2> QED BY <1>1, <2>1, StillStep, ZenonT(60)
  <1> QED BY <1>2, <1>3, ZenonT(60)

LEMMA AdminStill ==
  ASSUME Normal,
         \/ EmptyDeferred \/ EmptyClients \/ EmptyMemory \/ EmptyBackend
         \/ \E d \in BOOLEAN : exit(d)
         \/ FlushMemory
  PROVE  Contract!Next
  <1> USE DEF flightVars, queueVars, threadVars
  <1>1. UNCHANGED <<inFlightMessages, clientID, io, published, finished>>
    BY ZenonT(60) DEF EmptyDeferred, EmptyClients, EmptyMemory, EmptyBackend, exit, FlushMemory
  <1>2. \/ UNCHANGED dropped
        \/ dropped' = dropped \cup Ids(deferredMessages)
        \/ dropped' = dropped \cup backend
        \/ \E o \in memoryMsgChan : \E lost \in SUBSET {Id(o)} : dropped' = dropped \cup lost
    BY ZenonT(60) DEF EmptyDeferred, EmptyClients, EmptyMemory, EmptyBackend, exit, FlushMemory,
           writeMessageToBackend
  <1>3. dropped \subseteq dropped' /\ \A m \in dropped' \ dropped : Anywhere(m)
    BY <1>2, Stored
  <1> QED BY <1>1, <1>3, StillStep, SMTT(60)

-----------------------------------------------------------------------------
RefInv == ConsInv /\ TouchOwner

(* Every step of the channel is one of the contract's, or changes nothing  *)
(* that the contract sees.                                                 *)
LEMMA StepImplements ==
  ASSUME RefInv, RefInv', [Next]_vars, Copied => Copied',
         ~Copied => Readable, ~Copied' => Readable'
  PROVE  [Contract!Next]_ContractState
  <1>1. CASE Copied'
    <2>1. ContractState' = [m \in Msgs |-> Contract!At("closed")]
      BY <1>1, ZenonT(60) DEF ContractState, Where, Contract!At
    <2> QED BY <2>1, ZenonT(60) DEF Contract!Close, Contract!Next
  <1>2. CASE ~Copied'
    <2>0. Normal
      BY <1>2 DEF RefInv, ConsInv, TypeInv, Normal
    <2>1. ASSUME NEW m \in Msgs, PutMessage(m) PROVE Contract!Next
      <3>1. dropped' = dropped \/ dropped' = dropped \cup {m}
        BY <2>1, PutEffect, ObjId, ZenonT(60) DEF PutMessage
      <3>2. /\ UNCHANGED <<inFlightMessages, clientID, io, finished>>
            /\ m \notin published /\ published' = published \cup {m}
        BY <2>1, ZenonT(60) DEF PutMessage, flightVars, threadVars
      <3> QED BY <2>0, <3>1, <3>2, AcceptStep, ZenonT(60)
    <2>2. ASSUME NEW m \in Msgs, PutMessageDeferred(m) PROVE Contract!Next
      <3>1. /\ UNCHANGED <<inFlightMessages, clientID, io, finished, dropped>>
            /\ m \notin published /\ published' = published \cup {m}
        BY <2>2, ZenonT(60) DEF PutMessageDeferred, flightVars, queueVars
      <3> QED BY <2>0, <3>1, AcceptStep, ZenonT(60)
    <2>3. ASSUME NEW c \in Clients, AddClient(c) \/ RemoveClient(c) \/ PumpNext(c)
          PROVE  Contract!Next
      BY <2>0, <2>3, PumpStill, DeliverStep, ZenonT(60) DEF PumpNext
    <2>4. ASSUME NEW c \in Clients, IoNext(c) PROVE Contract!Next
      BY <2>0, <2>4, PopStep, TouchPushStep, IoStep, ZenonT(60) DEF IoNext
    <2>5. CASE ScanNext \/ PutAddToDeferredPQ
      BY <2>0, <2>5, ScanPopStep, ScanStill, ZenonT(60) DEF ScanNext
    <2>6. CASE AdminNext
      <3>1. ~FlushInFlight /\ ~FlushDeferred
        BY <1>2, ZenonT(60) DEF FlushInFlight, FlushDeferred, Copied
      <3> QED BY <2>0, <2>6, <3>1, EmptyInFlightStep, AdminStill, ZenonT(60) DEF AdminNext
    <2>7. CASE UNCHANGED vars
      <3>1. /\ UNCHANGED <<inFlightMessages, clientID, io, published, finished>>
            /\ UNCHANGED dropped
        BY <2>7 DEF vars, flightVars, queueVars, threadVars
      <3> QED BY <2>0, <3>1, StillStep, ZenonT(60)
    <2> QED BY <2>1, <2>2, <2>3, <2>4, <2>5, <2>6, <2>7, ZenonT(60) DEF Next
  <1> QED BY <1>1, <1>2, ZenonT(60)

(* What nsqd's channel does with its queues, maps, heaps and goroutines is *)
(* what ChannelContract promises of each message: PutMessage, delivery,    *)
(* FIN, REQ, TOUCH, the time-out scan, Empty and exit, in any order.       *)
THEOREM ChannelImplements == Spec => ImplementsContract
  <1>1. Init => RefInv
    BY InitCons DEF RefInv, TouchOwner, Init, IoIdle
  <1>2. RefInv /\ [Next]_vars => RefInv'
    BY NextCons, OwnerStep DEF RefInv
  <1>3. Spec => []RefInv
    BY <1>1, <1>2, PTL DEF Spec
  <1>4. RefInv => (~Copied => Readable)
    BY Reads, ZenonT(60) DEF RefInv, ConsInv, TypeInv
  <1>5. Init => Contract!Init
    <2>1. ASSUME Init PROVE ContractState = [m \in Msgs |-> Contract!At("new")]
      <3>1. ~Copied /\ published = {}
        BY <2>1, ZenonT(60) DEF Init, Copied
      <3>2. \A m \in Msgs : ContractState[m] = Contract!At("new")
        BY <1>1, <1>4, <2>1, <3>1, ZenonT(60) DEF Readable
      <3> QED BY <3>2, StateFun, ZenonT(60)
    <2> QED BY <2>1, ZenonT(60) DEF Contract!Init
  <1>6. [Next]_vars => (Copied => Copied')
    BY CopiedStays
  <1>7. RefInv /\ RefInv' /\ [Next]_vars /\ (~Copied => Readable) /\ (~Copied => Readable)'
        => [Contract!Next]_ContractState
    BY <1>6, StepImplements
  <1> QED BY <1>3, <1>4, <1>5, <1>7, PTL DEF Spec, ImplementsContract, Contract!Spec
=============================================================================
