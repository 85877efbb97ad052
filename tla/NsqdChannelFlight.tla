------------------------- MODULE NsqdChannelFlight -------------------------
(***************************************************************************)
(* What a channel's time-out scan and its consumers' counters rest on: the *)
(* maps and the heaps, which are kept under different locks.               *)
(*                                                                         *)
(* While no message goes to the disk queue a message has one *Message, so  *)
(* that the heap's entry, the map's entry and the pointer a goroutine      *)
(* holds are the same; an entry that was left behind by a late answer is   *)
(* one too many, never one too few.                                        *)
(***************************************************************************)
EXTENDS NsqdChannelConservation

\* The *Message a message arrived with.
Original == {o \in Obj : o[2] = 0}

\* Every pointer in use is one of them.
Originals ==
    /\ memoryMsgChan \subseteq Original /\ inFlightMessages \subseteq Original
    /\ deferredMessages \subseteq Original /\ deferredPQ \subseteq Original
    /\ putter # NoObj => putter \in Original
    /\ \A c \in Clients : /\ pump[c].pc # "idle" => pump[c].obj \in Original
                          /\ io[c].pc # "idle" => io[c].obj \in Original
    /\ scan.pc # "idle" => scan.obj \in Original
    /\ \A o \in Obj : inFlightPQ[o] > 0 => o \in Original

\* Message.index tells whether the heap has the pointer, and the consumer that has
\* seen a message has seen it after addToInFlightPQ.
HeapInv ==
    /\ \A o \in Obj : index[o] = "queued" => inFlightPQ[o] > 0
    /\ \A c \in Clients :
        /\ \A m \in sent[c] : index[<<m, 0>>] # "zero"
        /\ pump[c].pc = "added" => index[pump[c].obj] # "zero"
        /\ io[c].pc = "popped" => index[io[c].obj] # "zero"
        /\ io[c].pc = "popped" /\ io[c].op = "FIN" => Id(io[c].obj) \in finished

CoverInv == \A o \in inFlightMessages : Covered(o)

\* While the channel is open, and Empty is not called.
Flight == admin = "none" /\ Originals /\ HeapInv /\ CoverInv
FlightInv == ~exitFlag => Flight

\* No message of an open channel is on disk: the memory queue had room.
InMemory == ~exitFlag => backend = {}

\* What holds before a step of an open channel.
Open == TypeOK /\ Cons /\ ~Copied /\ Flight /\ backend = {}

-----------------------------------------------------------------------------
\* There is one *Message of an ID, and it has an ID.
LEMMA OriginalId ==
  /\ \A o, x \in Original : Id(o) = Id(x) => o = x
  /\ \A o \in Original : o \in Obj /\ o = <<Id(o), 0>>
  /\ \A m \in Msgs : <<m, 0>> \in Original
BY ChannelConstants DEF Original, Obj, Id

\* The record of a goroutine that is in the middle of a handler.
LEMMA Shapes ==
  ASSUME TypeOK
  PROVE  /\ \A c \in Clients :
             /\ pump[c].pc # "idle" => pump[c] \in [pc : {"got", "pushed", "added"}, obj : Obj]
             /\ io[c].pc # "idle" => io[c] \in [pc : {"popped", "removed", "pushed", "count"},
                                               op : {"FIN", "REQ", "REQdelay", "TOUCH"}, obj : Obj]
         /\ scan.pc # "idle" => scan \in [pc : {"shifted", "read", "popped", "put", "dshifted"},
                                         obj : Obj, cid : Clients \cup {NoClient}]
<1>1. pump \in [Clients -> PumpStates] /\ io \in [Clients -> IoStates] /\ scan \in ScanStates
  BY ZenonT(60) DEF TypeOK
<1>2. ASSUME NEW c \in Clients, pump[c].pc # "idle"
      PROVE  pump[c] \in [pc : {"got", "pushed", "added"}, obj : Obj]
  BY <1>1, <1>2 DEF PumpStates, Idle
<1>3. ASSUME NEW c \in Clients, io[c].pc # "idle"
      PROVE  io[c] \in [pc : {"popped", "removed", "pushed", "count"},
                        op : {"FIN", "REQ", "REQdelay", "TOUCH"}, obj : Obj]
  BY <1>1, <1>3 DEF IoStates, IoIdle
<1>4. scan.pc # "idle" => scan \in [pc : {"shifted", "read", "popped", "put", "dshifted"},
                                    obj : Obj, cid : Clients \cup {NoClient}]
  BY <1>1 DEF ScanStates, ScanIdle
<1> QED
  BY <1>2, <1>3, <1>4, ZenonT(60)

\* A message that is in a goroutine's hand is not in a map, nor in another's hand.
LEMMA Exclusive ==
  ASSUME Cons, ~Copied
  PROVE  /\ \A c \in Clients : \A o \in inFlightMessages :
             (PumpHolds(c) => Id(pump[c].obj) # Id(o)) /\ (IoHolds(c) => Id(io[c].obj) # Id(o))
         /\ \A c \in Clients : \A o \in deferredMessages : IoHolds(c) => Id(io[c].obj) # Id(o)
         /\ \A c, d \in Clients : PumpHolds(c) /\ IoHolds(d) => Id(pump[c].obj) # Id(io[d].obj)
         /\ \A c \in Clients : PumpHolds(c) /\ ScanHolds => Id(pump[c].obj) # Id(scan.obj)
         /\ \A o \in inFlightMessages : Id(o) \notin finished
<1>1. \A m, k, h, j, i : At(m, k, h) /\ At(m, j, i) => j = k /\ i = h
  BY ZenonT(60) DEF Cons, Alone
<1>2. /\ \A c \in Clients : PumpHolds(c) => At(Id(pump[c].obj), "pump", c)
      /\ \A c \in Clients : IoHolds(c) => At(Id(io[c].obj), "io", c)
      /\ \A o \in inFlightMessages : At(Id(o), "inflight", o)
      /\ \A o \in deferredMessages : At(Id(o), "deferred", o)
      /\ ScanHolds => At(Id(scan.obj), "scan", NoClient)
  BY DEF At
<1>3. \A m \in finished : ~Anywhere(m)
  BY ZenonT(60) DEF Cons, Final, Gone
<1> QED
  BY <1>1, <1>2, <1>3, ZenonT(60) DEF Anywhere

\* What an operation on the in-flight heap does to the heap and to the indices.
LEMMA PushEffect ==
  ASSUME TypeOK, NEW o \in Obj, Push(o)
  PROVE  /\ inFlightPQ'[o] > 0
         /\ \A x \in Obj : inFlightPQ[x] > 0 => inFlightPQ'[x] > 0
         /\ \A x \in Obj : x # o => inFlightPQ'[x] = inFlightPQ[x]
         /\ \A x \in Obj : index'[x] = "queued" => index[x] = "queued" \/ inFlightPQ'[x] > 0
         /\ \A x \in Obj : index'[x] = "zero" => index[x] = "zero" /\ x # o
<1> DEFINE pq == [inFlightPQ EXCEPT ![o] = @ + 1]
           idx == [index EXCEPT ![o] = "queued"]
<1>1. inFlightPQ \in [Obj -> Nat] /\ index \in [Obj -> IndexStates]
  BY ZenonT(60) DEF TypeOK
<1>2. PICK moved \in SUBSET {x \in Obj \ {o} : pq[x] > 0 /\ idx[x] = "popped"} :
        index' = [x \in Obj |-> IF x \in moved THEN "queued" ELSE idx[x]]
  BY DEF Push, Settle
<1>3. inFlightPQ' = pq
  BY DEF Push, Settle
<1>4. /\ pq[o] > 0 /\ \A x \in Obj : x # o => pq[x] = inFlightPQ[x]
  BY <1>1
<1> HIDE DEF pq
<1>5. /\ idx[o] = "queued" /\ \A x \in Obj : x # o => idx[x] = index[x]
  BY <1>1, ZenonT(60)
<1> HIDE DEF idx
<1>6. \A x \in Obj : index'[x] = "queued" => index[x] = "queued" \/ pq[x] > 0
  BY <1>2, <1>4, <1>5, ZenonT(60)
<1>7. \A x \in Obj : index'[x] = "zero" => index[x] = "zero" /\ x # o
  BY <1>2, <1>5, ZenonT(60)
<1> QED
  BY <1>3, <1>4, <1>6, <1>7, ZenonT(60)

LEMMA PopEffect ==
  ASSUME TypeOK, NEW o \in Obj, Pop(o)
  PROVE  /\ inFlightPQ[o] > 0
         /\ \A x \in Obj : inFlightPQ'[x] > 0 => inFlightPQ[x] > 0
         /\ \A x \in Obj : x # o => inFlightPQ'[x] = inFlightPQ[x]
         /\ \A x \in Obj : index'[x] = "queued" => x # o /\ (index[x] = "queued" \/ inFlightPQ'[x] > 0)
         /\ \A x \in Obj : index'[x] = "zero" => index[x] = "zero"
<1> DEFINE pq == [inFlightPQ EXCEPT ![o] = @ - 1]
           idx == [index EXCEPT ![o] = "popped"]
<1>1. inFlightPQ \in [Obj -> Nat] /\ index \in [Obj -> IndexStates] /\ inFlightPQ[o] > 0
  BY ZenonT(60) DEF TypeOK, Pop
<1>2. PICK moved \in SUBSET {x \in Obj \ {o} : pq[x] > 0 /\ idx[x] = "popped"} :
        index' = [x \in Obj |-> IF x \in moved THEN "queued" ELSE idx[x]]
  BY DEF Pop, Settle
<1>3. inFlightPQ' = pq
  BY DEF Pop, Settle
<1>4. \A x \in Obj : x # o => pq[x] = inFlightPQ[x]
  BY <1>1
<1> HIDE DEF pq
<1>5. /\ idx[o] = "popped" /\ \A x \in Obj : x # o => idx[x] = index[x]
  BY <1>1, ZenonT(60)
<1> HIDE DEF idx
<1>6. \A x \in Obj : index'[x] = "queued" => x # o /\ (index[x] = "queued" \/ pq[x] > 0)
  BY <1>2, <1>4, <1>5, ZenonT(60)
<1>7. \A x \in Obj : index'[x] = "zero" => index[x] = "zero"
  BY <1>2, <1>5, ZenonT(60)
<1>8. \A x \in Obj : pq[x] > 0 => inFlightPQ[x] > 0
  BY <1>1, <1>4, ZenonT(60)
<1> QED
  BY <1>1, <1>3, <1>4, <1>6, <1>7, <1>8, ZenonT(60)

-----------------------------------------------------------------------------
(* The steps of an open channel.                                           *)

\* A message in flight stays in the scan's sight when nobody who was about to
\* bring it there, or has just found it, does anything else.
LEMMA CoverKept ==
  ASSUME CoverInv, inFlightMessages' \subseteq inFlightMessages,
         \A o \in inFlightMessages : inFlightPQ[o] > 0 => inFlightPQ'[o] > 0,
         \A c \in Clients : pump[c].pc = "pushed" => pump'[c] = pump[c],
         \A c \in Clients : io[c].pc = "pushed" /\ io[c].op = "TOUCH" => io'[c] = io[c],
         scan.pc \in {"shifted", "read"} => scan' = scan,
         UNCHANGED clientID
  PROVE  CoverInv'
<1> SUFFICES ASSUME NEW o \in inFlightMessages' PROVE Covered(o)'
  BY ZenonT(60) DEF CoverInv
<1>1. Covered(o) /\ o \in inFlightMessages
  BY ZenonT(60) DEF CoverInv
<1>2. CASE inFlightPQ[o] > 0
  BY <1>1, <1>2, ZenonT(60) DEF Covered
<1>3. ASSUME NEW c \in Clients, pump[c].pc = "pushed", pump[c].obj = o PROVE Covered(o)'
  BY <1>3, ZenonT(60) DEF Covered
<1>4. ASSUME NEW c \in Clients, io[c].pc = "pushed", io[c].op = "TOUCH", io[c].obj = o
      PROVE  Covered(o)'
  BY <1>4, ZenonT(60) DEF Covered
<1>5. CASE scan.obj = o /\ (scan.pc = "shifted" \/ (scan.pc = "read" /\ scan.cid = clientID[o]))
  BY <1>5 DEF Covered
<1> QED
  BY <1>1, <1>2, <1>3, <1>4, <1>5, ZenonT(60) DEF Covered

\* Steps that have nothing to do with messages in flight: PutMessage, DPUB, consumers
\* that come and go, a message that is sampled away.
LEMMA FlightStill ==
  ASSUME Open,
         \/ \E m \in Msgs : PutMessage(m) \/ PutMessageDeferred(m)
         \/ PutAddToDeferredPQ
         \/ \E c \in Clients : AddClient(c) \/ RemoveClient(c) \/ PumpExit(c) \/ PumpSample(c)
  PROVE  Flight'
<1>1. UNCHANGED <<admin, inFlightMessages, inFlightPQ, index, clientID, sent, pump, io, scan, finished>>
  BY ZenonT(60) DEF PutMessage, PutMessageDeferred, PutAddToDeferredPQ, AddClient, RemoveClient, PumpExit,
         PumpSample, adminVars, flightVars, clientVars, threadVars
<1>2. Flight
  BY ZenonT(60) DEF Open
<1>3. HeapInv' /\ CoverInv' /\ admin' = "none"
  BY <1>1, <1>2 DEF Flight, HeapInv, CoverInv, Covered
<1>4. /\ memoryMsgChan' \subseteq Original /\ deferredMessages' \subseteq Original
      /\ deferredPQ' \subseteq Original /\ (putter' # NoObj => putter' \in Original)
  <2>0. /\ memoryMsgChan \subseteq Original /\ deferredMessages \subseteq Original
        /\ deferredPQ \subseteq Original /\ (putter # NoObj => putter \in Original)
        /\ \A m \in Msgs : <<m, 0>> \in Original
    BY <1>2, OriginalId, ZenonT(60) DEF Flight, Originals
  <2>1. ASSUME NEW m \in Msgs, PutMessage(m)
        PROVE  /\ memoryMsgChan' \subseteq memoryMsgChan \cup {<<m, 0>>}
               /\ UNCHANGED <<deferredMessages, deferredPQ, putter>>
    BY <2>1, ZenonT(60) DEF PutMessage, put, deferVars, threadVars
  <2>2. ASSUME NEW m \in Msgs, PutMessageDeferred(m)
        PROVE  /\ deferredMessages' = deferredMessages \cup {<<m, 0>>} /\ putter' = <<m, 0>>
               /\ UNCHANGED <<memoryMsgChan, deferredPQ>>
    BY <2>2, ZenonT(60) DEF PutMessageDeferred, queueVars
  <2>3. ASSUME PutAddToDeferredPQ
        PROVE  /\ putter # NoObj /\ deferredPQ' = deferredPQ \cup {putter} /\ putter' = NoObj
               /\ UNCHANGED <<memoryMsgChan, deferredMessages>>
    BY <2>3, ZenonT(60) DEF PutAddToDeferredPQ, queueVars
  <2>4. ASSUME NEW c \in Clients, AddClient(c) \/ RemoveClient(c) \/ PumpExit(c) \/ PumpSample(c)
        PROVE  /\ memoryMsgChan' \subseteq memoryMsgChan
               /\ UNCHANGED <<deferredMessages, deferredPQ, putter>>
    BY <2>4, ZenonT(60) DEF AddClient, RemoveClient, PumpExit, PumpSample, queueVars, deferVars, threadVars
  <2> QED
    BY <2>0, <2>1, <2>2, <2>3, <2>4, ZenonT(60)
<1>5. Originals'
  BY <1>1, <1>2, <1>4, ZenonT(60) DEF Flight, Originals
<1> QED
  BY <1>3, <1>5, ZenonT(60) DEF Flight

\* A client's messagePump: from memoryMsgChan to the map, to the heap, to the client.
LEMMA FlightPump ==
  ASSUME Open, NEW c \in Clients,
         PumpRecvMemory(c) \/ PumpPush(c) \/ PumpAdd(c) \/ PumpSend(c)
  PROVE  Flight'
<1>0. /\ admin = "none" /\ Originals /\ HeapInv /\ CoverInv /\ TypeOK /\ Cons /\ ~Copied
      /\ pump \in [Clients -> PumpStates] /\ inFlightMessages \subseteq Obj
  BY ZenonT(60) DEF Open, Flight, TypeOK
<1>1. CASE PumpRecvMemory(c)
  <2>1. PICK o \in memoryMsgChan : /\ pump[c] = Idle
                                   /\ pump' = [pump EXCEPT ![c] = [pc |-> "got", obj |-> o]]
                                   /\ memoryMsgChan' = memoryMsgChan \ {o}
    BY <1>1, ZenonT(60) DEF PumpRecvMemory, Receive
  <2>2. UNCHANGED <<admin, inFlightMessages, inFlightPQ, index, clientID, deferredMessages, deferredPQ,
                    putter, sent, io, scan, finished>>
    BY <1>1, ZenonT(60) DEF PumpRecvMemory, adminVars, flightVars, deferVars, clientVars
  <2>3. /\ pump'[c] = [pc |-> "got", obj |-> o] /\ pump[c].pc = "idle"
        /\ \A d \in Clients \ {c} : pump'[d] = pump[d]
    BY <1>0, <2>1 DEF Idle
  <2>4. Originals'
    BY <1>0, <2>1, <2>2, <2>3, ZenonT(60) DEF Originals
  <2>5. HeapInv'
    BY <1>0, <2>2, <2>3 DEF HeapInv
  <2>6. CoverInv'
    BY <1>0, <2>2, <2>3, CoverKept, ZenonT(60)
  <2> QED
    BY <1>0, <2>2, <2>4, <2>5, <2>6, ZenonT(60) DEF Flight
<1>2. CASE PumpPush(c)
  <2> DEFINE o == pump[c].obj
  <2>1. PumpHolds(c) /\ o \in Original
    BY <1>0, <1>2, ZenonT(60) DEF PumpPush, PumpHolds, Originals
  <2>2. Id(o) \notin Ids(inFlightMessages)
    BY <1>0, <2>1, Exclusive, ZenonT(60) DEF Ids
  <2>3. /\ inFlightMessages' = inFlightMessages \cup {o}
        /\ clientID' = [clientID EXCEPT ![o] = c] /\ clientID \in [Obj -> Clients \cup {NoClient}]
        /\ pump' = [pump EXCEPT ![c].pc = "pushed"]
    BY <1>0, <1>2, <2>2, ZenonT(60) DEF PumpPush, TypeOK
  <2>4. UNCHANGED <<admin, memoryMsgChan, inFlightPQ, index, deferredMessages, deferredPQ,
                    putter, sent, io, scan, finished>>
    BY <1>2 DEF PumpPush, adminVars, queueVars, deferVars, clientVars
  <2>5. /\ pump'[c].pc = "pushed" /\ pump'[c].obj = o
        /\ \A d \in Clients \ {c} : pump'[d] = pump[d]
    <3>1. pump[c] \in [pc : {"got", "pushed", "added"}, obj : Obj]
      BY <1>0, <2>1 DEF PumpHolds, PumpStates, Idle
    <3> QED
      BY <1>0, <2>3, <3>1, ZenonT(60)
  <2>6. Originals'
    BY <1>0, <2>1, <2>3, <2>4, <2>5, ZenonT(60) DEF Originals
  <2>7. HeapInv'
    BY <1>0, <2>4, <2>5, ZenonT(60) DEF HeapInv
  <2>8. CoverInv'
    <3> SUFFICES ASSUME NEW x \in inFlightMessages' PROVE Covered(x)'
      BY ZenonT(60) DEF CoverInv
    <3>1. CASE x = o
      BY <2>5, <3>1, ZenonT(60) DEF Covered
    <3>2. CASE x # o
      <4>1. Covered(x) /\ clientID'[x] = clientID[x]
        BY <1>0, <2>3, <3>2, ZenonT(60) DEF CoverInv
      <4>2. \A d \in Clients : pump[d].pc = "pushed" => pump'[d] = pump[d]
        BY <2>1, <2>5, ZenonT(60) DEF PumpHolds
      <4> QED
        BY <2>4, <4>1, <4>2, ZenonT(60) DEF Covered
    <3> QED
      BY <3>1, <3>2
  <2> QED
    BY <1>0, <2>4, <2>6, <2>7, <2>8, ZenonT(60) DEF Flight
<1>3. CASE PumpAdd(c)
  <2> DEFINE o == pump[c].obj
  <2>1. /\ pump[c].pc = "pushed" /\ o \in Original /\ o \in Obj /\ Push(o)
        /\ pump' = [pump EXCEPT ![c].pc = "added"]
    BY <1>0, <1>3, OriginalId, ZenonT(60) DEF PumpAdd, Originals
  <2>2. UNCHANGED <<admin, memoryMsgChan, inFlightMessages, clientID, deferredMessages, deferredPQ,
                    putter, sent, io, scan, finished>>
    BY <1>3, ZenonT(60) DEF PumpAdd, adminVars, queueVars, deferVars, clientVars
  <2>3. /\ pump'[c].pc = "added" /\ pump'[c].obj = o
        /\ \A d \in Clients \ {c} : pump'[d] = pump[d]
    <3>1. pump[c] \in [pc : {"got", "pushed", "added"}, obj : Obj]
      BY <1>0, <2>1, ZenonT(60) DEF PumpStates, Idle
    <3> QED
      BY <1>0, <2>1, <3>1, ZenonT(60)
  <2>4. /\ inFlightPQ'[o] > 0
        /\ \A x \in Obj : inFlightPQ[x] > 0 => inFlightPQ'[x] > 0
        /\ \A x \in Obj : x # o => inFlightPQ'[x] = inFlightPQ[x]
        /\ \A x \in Obj : index'[x] = "queued" => index[x] = "queued" \/ inFlightPQ'[x] > 0
        /\ \A x \in Obj : index'[x] = "zero" => index[x] = "zero" /\ x # o
    BY <1>0, <2>1, PushEffect, ZenonT(60)
  <2>5. Originals'
    BY <1>0, <2>1, <2>2, <2>3, <2>4, ZenonT(60) DEF Originals
  <2>6. HeapInv'
    <3>1. \A x \in Obj : index'[x] = "queued" => inFlightPQ'[x] > 0
      BY <1>0, <2>4, ZenonT(60) DEF HeapInv
    <3>2. ASSUME NEW d \in Clients, NEW m \in sent'[d] PROVE index'[<<m, 0>>] # "zero"
      <4>1. m \in Msgs /\ <<m, 0>> \in Obj
        BY <1>0, <2>2, OriginalId, ZenonT(60) DEF TypeOK
      <4> QED
        BY <1>0, <2>2, <2>4, <4>1, ZenonT(60) DEF HeapInv
    <3>3. ASSUME NEW d \in Clients, pump'[d].pc = "added" PROVE index'[pump'[d].obj] # "zero"
      <4>1. CASE d = c
        BY <2>1, <2>3, <2>4, <4>1, ZenonT(60)
      <4>2. CASE d # c
        BY <1>0, <2>3, <2>4, <3>3, <4>2, OriginalId DEF HeapInv, Originals
      <4> QED
        BY <4>1, <4>2, ZenonT(60)
    <3>4. ASSUME NEW d \in Clients, io'[d].pc = "popped"
          PROVE  index'[io'[d].obj] # "zero" /\ (io'[d].op = "FIN" => Id(io'[d].obj) \in finished')
      BY <1>0, <2>2, <2>4, <3>4, OriginalId, ZenonT(60) DEF HeapInv, Originals
    <3> QED
      BY <3>1, <3>2, <3>3, <3>4, ZenonT(60) DEF HeapInv
  <2>7. CoverInv'
    <3> SUFFICES ASSUME NEW x \in inFlightMessages' PROVE Covered(x)'
      BY DEF CoverInv
    <3>1. CASE x = o
      BY <2>4, <3>1, ZenonT(60) DEF Covered
    <3>2. CASE x # o
      <4>1. Covered(x) /\ x \in Obj
        BY <1>0, <2>2, ZenonT(60) DEF CoverInv
      <4>2. \A d \in Clients : pump[d].pc = "pushed" /\ pump[d].obj = x => pump'[d] = pump[d]
        BY <2>3, <3>2, ZenonT(60)
      <4> QED
        BY <2>2, <2>4, <3>2, <4>1, <4>2, ZenonT(60) DEF Covered
    <3> QED
      BY <3>1, <3>2
  <2> QED
    BY <1>0, <2>2, <2>5, <2>6, <2>7, ZenonT(60) DEF Flight
<1>4. CASE PumpSend(c)
  <2> DEFINE o == pump[c].obj
  <2>1. /\ pump[c].pc = "added" /\ o \in Original /\ pump' = [pump EXCEPT ![c] = Idle]
        /\ sent' = sent \/ sent' = [sent EXCEPT ![c] = @ \cup {Id(o)}]
        /\ sent \in [Clients -> SUBSET Msgs]
    BY <1>0, <1>4, ZenonT(60) DEF PumpSend, Originals, TypeOK
  <2>2. UNCHANGED <<admin, memoryMsgChan, inFlightMessages, inFlightPQ, index, clientID,
                    deferredMessages, deferredPQ, putter, io, scan, finished>>
    BY <1>4, ZenonT(60) DEF PumpSend, adminVars, queueVars, flightVars, deferVars
  <2>3. pump'[c].pc = "idle" /\ \A d \in Clients \ {c} : pump'[d] = pump[d]
    BY <1>0, <2>1, ZenonT(60) DEF Idle
  <2>4. Originals'
    BY <1>0, <2>1, <2>2, <2>3, ZenonT(60) DEF Originals
  <2>5. HeapInv'
    <3>1. index[<<Id(o), 0>>] # "zero"
      BY <1>0, <2>1, OriginalId, ZenonT(60) DEF HeapInv
    <3>2. \A d \in Clients : \A m \in sent'[d] : m \in sent[d] \/ m = Id(o)
      BY <2>1, ZenonT(60)
    <3> QED
      BY <1>0, <2>2, <2>3, <3>1, <3>2, ZenonT(60) DEF HeapInv
  <2>6. CoverInv'
    BY <1>0, <2>1, <2>2, <2>3, CoverKept, ZenonT(60)
  <2> QED
    BY <1>0, <2>2, <2>4, <2>5, <2>6, ZenonT(60) DEF Flight
<1> QED
  BY <1>1, <1>2, <1>3, <1>4, ZenonT(60)

\* A client's IOLoop. An answer to a message in flight finds its *Message in the heap, or
\* knows from the index that it is not there: it never removes another message's entry.
LEMMA FlightAnswer ==
  ASSUME Open, NEW c \in Clients,
         (\E op \in {"FIN", "REQ", "REQdelay", "TOUCH"} : popInFlightMessage(c, op)) \/ IoRemovePQ(c)
  PROVE  Flight'
<1>0. /\ admin = "none" /\ Originals /\ HeapInv /\ CoverInv /\ TypeOK /\ Cons /\ ~Copied
      /\ io \in [Clients -> IoStates] /\ inFlightMessages \subseteq Obj
  BY DEF Open, Flight, TypeOK
<1>1. ASSUME NEW op \in {"FIN", "REQ", "REQdelay", "TOUCH"}, popInFlightMessage(c, op) PROVE Flight'
  <2>1. PICK o \in inFlightMessages :
          /\ io[c] = IoIdle /\ clientID[o] = c /\ Id(o) \in sent[c]
          /\ inFlightMessages' = inFlightMessages \ {o}
          /\ io' = [io EXCEPT ![c] = [pc |-> "popped", op |-> op, obj |-> o]]
          /\ finished' = IF op = "FIN" THEN finished \cup {Id(o)} ELSE finished
    BY <1>1, ZenonT(60) DEF popInFlightMessage
  <2>2. UNCHANGED <<admin, memoryMsgChan, inFlightPQ, index, clientID, deferredMessages, deferredPQ,
                    putter, sent, pump, scan>>
    BY <1>1, ZenonT(60) DEF popInFlightMessage, adminVars, queueVars, deferVars, clientVars
  <2>3. /\ io'[c] = [pc |-> "popped", op |-> op, obj |-> o] /\ io[c].pc = "idle"
        /\ \A d \in Clients \ {c} : io'[d] = io[d]
    <3>1. io[c].pc = "idle"
      BY <2>1 DEF IoIdle
    <3> QED
      BY <1>0, <2>1, <3>1, ZenonT(60)
  <2>4. /\ o \in Original /\ index[o] # "zero" /\ finished \subseteq finished'
        /\ op = "FIN" => Id(o) \in finished'
    BY <1>0, <2>1, OriginalId, ZenonT(60) DEF Originals, HeapInv
  <2>5. Originals'
    BY <1>0, <2>1, <2>2, <2>3, <2>4, ZenonT(60) DEF Originals
  <2>6. HeapInv'
    <3>1. ASSUME NEW d \in Clients, io'[d].pc = "popped"
          PROVE  index'[io'[d].obj] # "zero" /\ (io'[d].op = "FIN" => Id(io'[d].obj) \in finished')
      BY <1>0, <2>2, <2>3, <2>4, <3>1 DEF HeapInv
    <3> QED
      BY <1>0, <2>2, <3>1, ZenonT(60) DEF HeapInv
  <2>7. CoverInv'
    BY <1>0, <2>1, <2>2, <2>3, CoverKept, ZenonT(60)
  <2> QED
    BY <1>0, <2>2, <2>5, <2>6, <2>7, ZenonT(60) DEF Flight
<1>2. CASE IoRemovePQ(c)
  <2> DEFINE o == io[c].obj
  <2>1. /\ io[c].pc = "popped" /\ o \in Original /\ o \in Obj /\ removeFromInFlightPQ(o)
        /\ io' = [io EXCEPT ![c].pc = IF io[c].op = "FIN" THEN "count" ELSE "removed"]
    BY <1>0, <1>2, OriginalId, ZenonT(60) DEF IoRemovePQ, Originals
  <2>2. UNCHANGED <<admin, memoryMsgChan, inFlightMessages, clientID, deferredMessages, deferredPQ,
                    putter, sent, pump, scan, finished>>
    BY <1>2, ZenonT(60) DEF IoRemovePQ, adminVars, queueVars, deferVars, clientVars
  <2>3. /\ io'[c].pc \in {"count", "removed"} /\ io'[c].obj = o
        /\ \A d \in Clients \ {c} : io'[d] = io[d]
    <3>1. io[c] \in [pc : {"popped", "removed", "pushed", "count"},
                     op : {"FIN", "REQ", "REQdelay", "TOUCH"}, obj : Obj]
      BY <1>0, <2>1 DEF IoStates, IoIdle
    <3> QED
      BY <1>0, <2>1, <3>1, ZenonT(60)
  <2>4. o \notin inFlightMessages
    <3>1. CASE io[c].op = "FIN"
      BY <1>0, <2>1, <3>1, Exclusive, ZenonT(60) DEF HeapInv
    <3>2. CASE io[c].op # "FIN"
      <4>1. IoHolds(c)
        BY <2>1, <3>2, ZenonT(60) DEF IoHolds
      <4> QED
        BY <1>0, <4>1, Exclusive, ZenonT(60)
    <3> QED
      BY <3>1, <3>2
  <2>5. (index[o] = "popped" /\ UNCHANGED <<inFlightPQ, index>>) \/ Pop(o)
    <3>1. index[o] # "zero" /\ (index[o] = "queued" => inFlightPQ[o] > 0) /\ inFlightPQ[o] \in Nat
      BY <1>0, <2>1, ZenonT(60) DEF HeapInv, TypeOK
    <3>2. \/ index[o] = "popped" /\ UNCHANGED <<inFlightPQ, index>>
          \/ index[o] = "queued" /\ inFlightPQ[o] > 0 /\ Pop(o)
          \/ index[o] = "zero" \/ (index[o] = "queued" /\ inFlightPQ[o] = 0)
      BY <2>1, ZenonT(60) DEF removeFromInFlightPQ
    <3> QED
      BY <3>1, <3>2
  <2>6. /\ \A x \in Obj : inFlightPQ'[x] > 0 => inFlightPQ[x] > 0
        /\ \A x \in Obj : x # o => inFlightPQ'[x] = inFlightPQ[x]
        /\ \A x \in Obj : index'[x] = "queued" => inFlightPQ'[x] > 0
        /\ \A x \in Obj : index'[x] = "zero" => index[x] = "zero"
    <3>1. CASE UNCHANGED <<inFlightPQ, index>>
      BY <1>0, <3>1, ZenonT(60) DEF HeapInv
    <3>2. CASE Pop(o)
      <4>1. /\ \A x \in Obj : inFlightPQ'[x] > 0 => inFlightPQ[x] > 0
            /\ \A x \in Obj : x # o => inFlightPQ'[x] = inFlightPQ[x]
            /\ \A x \in Obj : index'[x] = "queued"
                                => x # o /\ (index[x] = "queued" \/ inFlightPQ'[x] > 0)
            /\ \A x \in Obj : index'[x] = "zero" => index[x] = "zero"
        BY <1>0, <2>1, <3>2, PopEffect, ZenonT(60)
      <4> QED
        BY <1>0, <4>1, ZenonT(60) DEF HeapInv
    <3> QED
      BY <2>5, <3>1, <3>2, ZenonT(60)
  <2>7. Originals'
    BY <1>0, <2>1, <2>2, <2>3, <2>6, ZenonT(60) DEF Originals
  <2>8. HeapInv'
    <3>1. ASSUME NEW d \in Clients, NEW m \in sent'[d] PROVE index'[<<m, 0>>] # "zero"
      <4>1. m \in Msgs /\ <<m, 0>> \in Obj
        BY <1>0, <2>2, OriginalId, ZenonT(60) DEF TypeOK
      <4> QED
        BY <1>0, <2>2, <2>6, <4>1, ZenonT(60) DEF HeapInv
    <3>2. ASSUME NEW d \in Clients, pump'[d].pc = "added" PROVE index'[pump'[d].obj] # "zero"
      BY <1>0, <2>2, <2>6, <3>2, OriginalId, ZenonT(60) DEF HeapInv, Originals
    <3>3. ASSUME NEW d \in Clients, io'[d].pc = "popped"
          PROVE  index'[io'[d].obj] # "zero" /\ (io'[d].op = "FIN" => Id(io'[d].obj) \in finished')
      <4>1. d # c /\ io'[d] = io[d]
        BY <2>3, <3>3, ZenonT(60)
      <4>2. io[d].obj \in Obj
        BY <1>0, <3>3, <4>1, OriginalId, ZenonT(60) DEF Originals
      <4> QED
        BY <1>0, <2>2, <2>6, <3>3, <4>1, <4>2, ZenonT(60) DEF HeapInv
    <3> QED
      BY <2>6, <3>1, <3>2, <3>3, ZenonT(60) DEF HeapInv
  <2>9. CoverInv'
    <3>1. \A x \in inFlightMessages : inFlightPQ'[x] = inFlightPQ[x]
      BY <1>0, <2>4, <2>6, ZenonT(60)
    <3> QED
      BY <1>0, <2>1, <2>2, <2>3, <3>1, CoverKept, ZenonT(60)
  <2> QED
    BY <1>0, <2>2, <2>7, <2>8, <2>9, ZenonT(60) DEF Flight
<1> QED
  BY <1>1, <1>2, ZenonT(60)

\* The rest of REQ and the counting of an answer.
LEMMA FlightRequeue ==
  ASSUME Open, NEW c \in Clients,
         RequeueNow(c) \/ RequeueDeferred(c) \/ RequeueAddToDeferredPQ(c) \/ IoCount(c)
  PROVE  Flight'
<1> DEFINE o == io[c].obj
<1>0. /\ admin = "none" /\ Originals /\ HeapInv /\ CoverInv /\ io \in [Clients -> IoStates]
  BY ZenonT(60) DEF Open, Flight, TypeOK
<1>1. UNCHANGED <<admin, inFlightMessages, inFlightPQ, index, clientID, putter, sent, pump, scan,
                  finished>>
  BY ZenonT(60) DEF RequeueNow, RequeueDeferred, RequeueAddToDeferredPQ, IoCount, adminVars, flightVars, clientVars
<1>2. /\ memoryMsgChan' \subseteq memoryMsgChan \cup {o}
      /\ deferredMessages' \subseteq deferredMessages \cup {o}
      /\ deferredPQ' \subseteq deferredPQ \cup {o}
  BY ZenonT(60) DEF RequeueNow, RequeueDeferred, RequeueAddToDeferredPQ, IoCount, put, queueVars, deferVars
<1>3. /\ io[c].pc \in {"removed", "pushed", "count"}
      /\ io[c].pc = "pushed" => io[c].op = "REQdelay"
      /\ \/ io' = [io EXCEPT ![c] = IoIdle]
         \/ io' = [io EXCEPT ![c].pc = "count"]
         \/ io' = [io EXCEPT ![c].pc = "pushed"]
  BY DEF RequeueNow, RequeueDeferred, RequeueAddToDeferredPQ, IoCount
<1>4. o \in Original
  BY <1>0, <1>3, ZenonT(60) DEF Originals
<1>5. /\ io'[c].pc \in {"idle", "count", "pushed"}
      /\ io'[c].pc # "idle" => io'[c].obj = o
      /\ \A d \in Clients \ {c} : io'[d] = io[d]
  <2>1. io[c] \in [pc : {"popped", "removed", "pushed", "count"},
                   op : {"FIN", "REQ", "REQdelay", "TOUCH"}, obj : Obj]
    BY <1>0, <1>3 DEF IoStates, IoIdle
  <2> QED
    BY <1>0, <1>3, <2>1 DEF IoIdle
<1>6. Originals'
  BY <1>0, <1>1, <1>2, <1>4, <1>5, ZenonT(60) DEF Originals
<1>7. HeapInv'
  <2>1. ASSUME NEW d \in Clients, io'[d].pc = "popped"
        PROVE  index'[io'[d].obj] # "zero" /\ (io'[d].op = "FIN" => Id(io'[d].obj) \in finished')
    BY <1>0, <1>1, <1>5, <2>1, ZenonT(60) DEF HeapInv
  <2> QED
    BY <1>0, <1>1, <2>1, ZenonT(60) DEF HeapInv
<1>8. CoverInv'
  <2>1. \A d \in Clients : io[d].pc = "pushed" /\ io[d].op = "TOUCH" => io'[d] = io[d]
    BY <1>3, <1>5
  <2> QED
    BY <1>0, <1>1, <2>1, CoverKept, ZenonT(60)
<1> QED
  BY <1>0, <1>1, <1>6, <1>7, <1>8, ZenonT(60) DEF Flight

\* The rest of TOUCH: the message goes back into the map, and then into the heap.
LEMMA FlightTouch ==
  ASSUME Open, NEW c \in Clients, TouchPush(c) \/ TouchAdd(c)
  PROVE  Flight'
<1> DEFINE o == io[c].obj
<1>0. /\ admin = "none" /\ Originals /\ HeapInv /\ CoverInv /\ TypeOK /\ Cons /\ ~Copied
      /\ io \in [Clients -> IoStates] /\ inFlightMessages \subseteq Obj
  BY ZenonT(60) DEF Open, Flight, TypeOK
<1>a. io[c].pc \in {"removed", "pushed"} /\ io[c].op = "TOUCH" /\ o \in Original /\ o \in Obj
  BY <1>0, OriginalId, ZenonT(60) DEF TouchPush, TouchAdd, Originals
<1>b. io[c] \in [pc : {"popped", "removed", "pushed", "count"},
                 op : {"FIN", "REQ", "REQdelay", "TOUCH"}, obj : Obj]
  BY <1>0, <1>a DEF IoStates, IoIdle
<1>1. CASE TouchPush(c)
  <2>1. Id(o) \notin Ids(inFlightMessages)
    <3>1. IoHolds(c)
      BY <1>1 DEF TouchPush, IoHolds
    <3> QED
      BY <1>0, <3>1, Exclusive DEF Ids
  <2>2. /\ io[c].pc = "removed" /\ inFlightMessages' = inFlightMessages \cup {o}
        /\ io' = [io EXCEPT ![c].pc = "pushed"]
    BY <1>1, <2>1, ZenonT(60) DEF TouchPush
  <2>3. UNCHANGED <<admin, memoryMsgChan, inFlightPQ, index, clientID, deferredMessages, deferredPQ,
                    putter, sent, pump, scan, finished>>
    BY <1>1 DEF TouchPush, adminVars, deferVars, clientVars
  <2>4. /\ io'[c].pc = "pushed" /\ io'[c].op = "TOUCH" /\ io'[c].obj = o
        /\ \A d \in Clients \ {c} : io'[d] = io[d]
    BY <1>0, <1>a, <1>b, <2>2, ZenonT(60)
  <2>5. Originals'
    BY <1>0, <1>a, <2>2, <2>3, <2>4, ZenonT(60) DEF Originals
  <2>6. HeapInv'
    <3>1. ASSUME NEW d \in Clients, io'[d].pc = "popped"
          PROVE  index'[io'[d].obj] # "zero" /\ (io'[d].op = "FIN" => Id(io'[d].obj) \in finished')
      BY <1>0, <2>3, <2>4, <3>1, ZenonT(60) DEF HeapInv
    <3> QED
      BY <1>0, <2>3, <3>1, ZenonT(60) DEF HeapInv
  <2>7. CoverInv'
    <3> SUFFICES ASSUME NEW x \in inFlightMessages' PROVE Covered(x)'
      BY ZenonT(60) DEF CoverInv
    <3>1. CASE x = o
      BY <2>4, <3>1, ZenonT(60) DEF Covered
    <3>2. CASE x # o
      <4>1. Covered(x)
        BY <1>0, <2>2, <3>2, ZenonT(60) DEF CoverInv
      <4>2. \A d \in Clients : io[d].pc = "pushed" => io'[d] = io[d]
        BY <2>2, <2>4
      <4> QED
        BY <2>3, <4>1, <4>2 DEF Covered
    <3> QED
      BY <3>1, <3>2
  <2> QED
    BY <1>0, <2>3, <2>5, <2>6, <2>7, ZenonT(60) DEF Flight
<1>2. CASE TouchAdd(c)
  <2>1. Push(o) /\ io' = [io EXCEPT ![c] = IoIdle]
    BY <1>2, ZenonT(60) DEF TouchAdd
  <2>2. UNCHANGED <<admin, memoryMsgChan, inFlightMessages, clientID, deferredMessages, deferredPQ,
                    putter, sent, pump, scan, finished>>
    BY <1>2 DEF TouchAdd, adminVars, queueVars, deferVars, clientVars
  <2>3. io'[c].pc = "idle" /\ \A d \in Clients \ {c} : io'[d] = io[d]
    BY <1>0, <2>1, ZenonT(60) DEF IoIdle
  <2>4. /\ inFlightPQ'[o] > 0
        /\ \A x \in Obj : inFlightPQ[x] > 0 => inFlightPQ'[x] > 0
        /\ \A x \in Obj : x # o => inFlightPQ'[x] = inFlightPQ[x]
        /\ \A x \in Obj : index'[x] = "queued" => index[x] = "queued" \/ inFlightPQ'[x] > 0
        /\ \A x \in Obj : index'[x] = "zero" => index[x] = "zero" /\ x # o
    BY <1>0, <1>a, <2>1, PushEffect, ZenonT(60)
  <2>5. Originals'
    BY <1>0, <1>a, <2>2, <2>3, <2>4, ZenonT(60) DEF Originals
  <2>6. HeapInv'
    <3>1. \A x \in Obj : index'[x] = "queued" => inFlightPQ'[x] > 0
      BY <1>0, <2>4, ZenonT(60) DEF HeapInv
    <3>2. ASSUME NEW d \in Clients, NEW m \in sent'[d] PROVE index'[<<m, 0>>] # "zero"
      <4>1. m \in Msgs /\ <<m, 0>> \in Obj
        BY <1>0, <2>2, OriginalId, ZenonT(60) DEF TypeOK
      <4> QED
        BY <1>0, <2>2, <2>4, <4>1, ZenonT(60) DEF HeapInv
    <3>3. ASSUME NEW d \in Clients, pump'[d].pc = "added" PROVE index'[pump'[d].obj] # "zero"
      BY <1>0, <2>2, <2>4, <3>3, OriginalId, ZenonT(60) DEF HeapInv, Originals
    <3>4. ASSUME NEW d \in Clients, io'[d].pc = "popped"
          PROVE  index'[io'[d].obj] # "zero" /\ (io'[d].op = "FIN" => Id(io'[d].obj) \in finished')
      <4>1. d # c /\ io'[d] = io[d]
        BY <2>3, <3>4
      <4>2. io[d].obj \in Obj
        BY <1>0, <3>4, <4>1, OriginalId, ZenonT(60) DEF Originals
      <4> QED
        BY <1>0, <2>2, <2>4, <3>4, <4>1, <4>2, ZenonT(60) DEF HeapInv
    <3> QED
      BY <3>1, <3>2, <3>3, <3>4, ZenonT(60) DEF HeapInv
  <2>7. CoverInv'
    <3> SUFFICES ASSUME NEW x \in inFlightMessages' PROVE Covered(x)'
      BY DEF CoverInv
    <3>1. CASE x = o
      BY <2>4, <3>1, ZenonT(60) DEF Covered
    <3>2. CASE x # o
      <4>1. Covered(x) /\ x \in Obj
        BY <1>0, <2>2, ZenonT(60) DEF CoverInv
      <4>2. \A d \in Clients : io[d].pc = "pushed" /\ io[d].obj = x => io'[d] = io[d]
        BY <2>3, <3>2
      <4> QED
        BY <2>2, <2>4, <3>2, <4>1, <4>2, ZenonT(60) DEF Covered
    <3> QED
      BY <3>1, <3>2
  <2> QED
    BY <1>0, <2>2, <2>5, <2>6, <2>7, ZenonT(60) DEF Flight
<1> QED
  BY <1>1, <1>2, ZenonT(60)

\* The time-out scan's steps up to popInFlightMessage: an entry it takes off the heap it
\* follows up, and the client it has read is still the message's when the message is found.
LEMMA FlightScan ==
  ASSUME Open, (\E o \in Obj : ScanShift(o)) \/ ScanReadClient \/ ScanPop
  PROVE  Flight'
<1>0. /\ admin = "none" /\ Originals /\ HeapInv /\ CoverInv /\ TypeOK /\ scan \in ScanStates
      /\ inFlightMessages \subseteq Obj
  BY DEF Open, Flight, TypeOK
<1>1. ASSUME NEW o \in Obj, ScanShift(o) PROVE Flight'
  <2>1. scan = ScanIdle /\ Pop(o) /\ scan' = [pc |-> "shifted", obj |-> o, cid |-> NoClient]
    BY <1>1, ZenonT(60) DEF ScanShift
  <2>2. UNCHANGED <<admin, memoryMsgChan, inFlightMessages, clientID, deferredMessages, deferredPQ,
                    putter, sent, pump, io, finished>>
    BY <1>1, ZenonT(60) DEF ScanShift, adminVars, queueVars, deferVars, clientVars
  <2>3. /\ inFlightPQ[o] > 0
        /\ \A x \in Obj : inFlightPQ'[x] > 0 => inFlightPQ[x] > 0
        /\ \A x \in Obj : x # o => inFlightPQ'[x] = inFlightPQ[x]
        /\ \A x \in Obj : index'[x] = "queued" => x # o /\ (index[x] = "queued" \/ inFlightPQ'[x] > 0)
        /\ \A x \in Obj : index'[x] = "zero" => index[x] = "zero"
    BY <1>0, <2>1, PopEffect, ZenonT(60)
  <2>4. scan'.pc = "shifted" /\ scan'.obj = o /\ o \in Original
    BY <1>0, <2>1, <2>3, ZenonT(60) DEF Originals
  <2>5. Originals'
    BY <1>0, <2>2, <2>3, <2>4, ZenonT(60) DEF Originals
  <2>6. HeapInv'
    <3>1. \A x \in Obj : index'[x] = "queued" => inFlightPQ'[x] > 0
      BY <1>0, <2>3, ZenonT(60) DEF HeapInv
    <3>2. ASSUME NEW d \in Clients, NEW m \in sent'[d] PROVE index'[<<m, 0>>] # "zero"
      <4>1. m \in Msgs /\ <<m, 0>> \in Obj
        BY <1>0, <2>2, OriginalId, ZenonT(60) DEF TypeOK
      <4> QED
        BY <1>0, <2>2, <2>3, <4>1, ZenonT(60) DEF HeapInv
    <3>3. ASSUME NEW d \in Clients, pump'[d].pc = "added" PROVE index'[pump'[d].obj] # "zero"
      BY <1>0, <2>2, <2>3, <3>3, OriginalId, ZenonT(60) DEF HeapInv, Originals
    <3>4. ASSUME NEW d \in Clients, io'[d].pc = "popped"
          PROVE  index'[io'[d].obj] # "zero" /\ (io'[d].op = "FIN" => Id(io'[d].obj) \in finished')
      BY <1>0, <2>2, <2>3, <3>4, OriginalId, ZenonT(60) DEF HeapInv, Originals
    <3> QED
      BY <3>1, <3>2, <3>3, <3>4, ZenonT(60) DEF HeapInv
  <2>7. CoverInv'
    <3> SUFFICES ASSUME NEW x \in inFlightMessages' PROVE Covered(x)'
      BY ZenonT(60) DEF CoverInv
    <3>1. CASE x = o
      BY <2>4, <3>1, ZenonT(60) DEF Covered
    <3>2. CASE x # o
      <4>1. Covered(x) /\ x \in Obj /\ scan.pc = "idle"
        BY <1>0, <2>1, <2>2, ZenonT(60) DEF CoverInv, ScanIdle
      <4> QED
        BY <2>2, <2>3, <3>2, <4>1, ZenonT(60) DEF Covered
    <3> QED
      BY <3>1, <3>2
  <2> QED
    BY <1>0, <2>2, <2>5, <2>6, <2>7, ZenonT(60) DEF Flight
<1>2. CASE ScanReadClient \/ ScanPop
  <2>1. UNCHANGED <<admin, memoryMsgChan, inFlightPQ, index, clientID, deferredMessages, deferredPQ,
                    putter, sent, pump, io, finished>>
    BY <1>2, ZenonT(60) DEF ScanReadClient, ScanPop, adminVars, queueVars, flightVars, deferVars, clientVars
  <2>2. scan \in [pc : {"shifted", "read", "popped", "put", "dshifted"},
                  obj : Obj, cid : Clients \cup {NoClient}]
    BY <1>0, <1>2 DEF ScanReadClient, ScanPop, ScanStates, ScanIdle
  <2>3. scan'.pc = "idle" \/ scan'.obj = scan.obj
    <3>1. CASE ScanReadClient
      BY <2>2, <3>1 DEF ScanReadClient
    <3>2. CASE ScanPop
      BY <2>2, <3>2 DEF ScanPop, ScanIdle
    <3> QED
      BY <1>2, <3>1, <3>2, ZenonT(60)
  <2>4. inFlightMessages' \subseteq inFlightMessages
    BY <1>2, ZenonT(60) DEF ScanReadClient, ScanPop, flightVars
  <2>5. Originals'
    <3>1. scan.obj \in Original
      BY <1>0, <1>2, ZenonT(60) DEF ScanReadClient, ScanPop, Originals
    <3> QED
      BY <1>0, <2>1, <2>3, <2>4, <3>1, ZenonT(60) DEF Originals
  <2>6. HeapInv'
    BY <1>0, <2>1, ZenonT(60) DEF HeapInv
  <2>7. CoverInv'
    <3> SUFFICES ASSUME NEW x \in inFlightMessages' PROVE Covered(x)'
      BY DEF CoverInv
    <3>1. Covered(x) /\ x \in inFlightMessages
      BY <1>0, <2>4, ZenonT(60) DEF CoverInv
    <3>2. CASE ScanReadClient
      <4>1. /\ scan.pc = "shifted" /\ scan'.pc = "read" /\ scan'.obj = scan.obj
            /\ scan'.cid = clientID[scan.obj]
        BY <2>2, <3>2, ZenonT(60) DEF ScanReadClient
      <4> QED
        BY <2>1, <3>1, <4>1 DEF Covered
    <3>3. CASE ScanPop
      <4>1. scan.pc = "read" /\ ~(Id(x) = Id(scan.obj) /\ clientID[x] = scan.cid)
        BY <3>1, <3>3, ZenonT(60) DEF ScanPop
      <4>2. \/ inFlightPQ[x] > 0
            \/ \E c \in Clients : pump[c].pc = "pushed" /\ pump[c].obj = x
            \/ \E c \in Clients : io[c].pc = "pushed" /\ io[c].op = "TOUCH" /\ io[c].obj = x
        BY <3>1, <4>1 DEF Covered
      <4> QED
        BY <2>1, <4>2 DEF Covered
    <3> QED
      BY <1>2, <3>2, <3>3, ZenonT(60)
  <2> QED
    BY <1>0, <2>1, <2>5, <2>6, <2>7, ZenonT(60) DEF Flight
<1> QED
  BY <1>1, <1>2, ZenonT(60)

\* The rest of processInFlightQueue, and processDeferredQueue.
LEMMA FlightScanPut ==
  ASSUME Open, ScanTimedOut \/ ScanPut \/ (\E o \in Obj : ScanShiftDeferred(o)) \/ ScanPopDeferred
  PROVE  Flight'
<1>0. /\ admin = "none" /\ Originals /\ HeapInv /\ CoverInv /\ scan \in ScanStates
  BY ZenonT(60) DEF Open, Flight, TypeOK
<1>1. UNCHANGED <<admin, inFlightMessages, inFlightPQ, index, clientID, putter, sent, pump, io,
                  finished>>
  BY DEF ScanTimedOut, ScanPut, ScanShiftDeferred, ScanPopDeferred, adminVars, flightVars, clientVars
<1>2. /\ memoryMsgChan' \subseteq memoryMsgChan \cup {scan.obj}
      /\ deferredMessages' \subseteq deferredMessages /\ deferredPQ' \subseteq deferredPQ
  BY DEF ScanTimedOut, ScanPut, ScanShiftDeferred, ScanPopDeferred, put, queueVars, deferVars
<1>3. memoryMsgChan' = memoryMsgChan \/ scan.pc = "put"
  BY ZenonT(60) DEF ScanTimedOut, ScanPut, ScanShiftDeferred, ScanPopDeferred, queueVars
<1>4. /\ scan.pc \notin {"shifted", "read"}
      /\ scan'.pc = "idle" \/ scan'.obj \in deferredPQ \/ (scan.pc # "idle" /\ scan'.obj = scan.obj)
  <2>1. CASE ScanTimedOut \/ ScanPut \/ ScanPopDeferred
    <3>1. scan \in [pc : {"shifted", "read", "popped", "put", "dshifted"},
                    obj : Obj, cid : Clients \cup {NoClient}]
      BY <1>0, <2>1 DEF ScanTimedOut, ScanPut, ScanPopDeferred, ScanStates, ScanIdle
    <3> QED
      BY <2>1, <3>1 DEF ScanTimedOut, ScanPut, ScanPopDeferred, ScanIdle
  <2>2. CASE \E o \in Obj : ScanShiftDeferred(o)
    BY <2>2 DEF ScanShiftDeferred, ScanIdle
  <2> QED
    BY <2>1, <2>2, ZenonT(60)
<1>5. Originals'
  BY <1>0, <1>1, <1>2, <1>3, <1>4, ZenonT(60) DEF Originals
<1>6. HeapInv'
  BY <1>0, <1>1, ZenonT(60) DEF HeapInv
<1>7. CoverInv'
  BY <1>0, <1>1, <1>4, CoverKept, ZenonT(60)
<1> QED
  BY <1>0, <1>1, <1>5, <1>6, <1>7, ZenonT(60) DEF Flight

-----------------------------------------------------------------------------
(* The steps together.                                                     *)

\* exitFlag is never cleared.
LEMMA OpenBefore == ASSUME [Next]_vars, exitFlag PROVE exitFlag'
<1> USE DEF adminVars
<1>1. ASSUME NEW m \in Msgs, PutMessage(m) \/ PutMessageDeferred(m) PROVE exitFlag'
  BY <1>1, ZenonT(60) DEF PutMessage, PutMessageDeferred
<1>2. CASE PutAddToDeferredPQ
  BY <1>2, ZenonT(60) DEF PutAddToDeferredPQ
<1>3. ASSUME NEW c \in Clients, AddClient(c) \/ RemoveClient(c) \/ PumpNext(c) PROVE exitFlag'
  BY <1>3, ZenonT(60) DEF AddClient, RemoveClient, PumpNext, PumpRecvMemory, PumpRecvBackend,
         PumpSample, PumpPush, PumpAdd, PumpSend, PumpExit
<1>4. ASSUME NEW c \in Clients, IoNext(c) PROVE exitFlag'
  BY <1>4, ZenonT(60) DEF IoNext, popInFlightMessage, IoRemovePQ, RequeueNow, RequeueDeferred,
         RequeueAddToDeferredPQ, TouchPush, TouchAdd, IoCount
<1>5. CASE ScanNext
  BY <1>5, ZenonT(60) DEF ScanNext, ScanShift, ScanShiftDeferred, ScanReadClient, ScanPop, ScanTimedOut,
         ScanPut, ScanPopDeferred
<1>6. CASE AdminNext
  BY <1>6, ZenonT(60) DEF AdminNext, EmptyInFlight, EmptyDeferred, EmptyClients, EmptyMemory, EmptyBackend,
         exit, FlushMemory, FlushInFlight, FlushDeferred
<1>7. CASE UNCHANGED vars
  BY <1>7, ZenonT(60) DEF vars
<1> QED
  BY <1>1, <1>2, <1>3, <1>4, <1>5, <1>6, <1>7, ZenonT(60) DEF Next

\* An open channel that nobody empties has no administrative step but exit, and its
\* consumers receive only from memoryMsgChan.
LEMMA OpenSteps ==
  ASSUME MaxEmpty = 0, ConsInv, FlightInv, InMemory, [Next]_vars, ~exitFlag'
  PROVE  /\ Open /\ ~exitFlag /\ ~AdminNext
         /\ \A c \in Clients : ~PumpRecvBackend(c)
<1>1. ~exitFlag
  BY OpenBefore
<1>2. Open
  BY <1>1, ZenonT(60) DEF Open, ConsInv, TypeInv, FlightInv, InMemory, ExitOrder, Copied
<1>3. admin = "none" /\ backend = {} /\ empties \in 0 .. MaxEmpty
  BY <1>2 DEF Open, Flight, TypeOK
<1>4. ~(empties < MaxEmpty)
  BY <1>3
<1>5. ~AdminNext
  BY <1>3, <1>4, ZenonT(60) DEF AdminNext, EmptyInFlight, EmptyDeferred, EmptyClients, EmptyMemory,
     EmptyBackend, exit, FlushMemory, FlushInFlight, FlushDeferred
<1>6. \A c \in Clients : ~PumpRecvBackend(c)
  BY <1>3, ZenonT(60) DEF PumpRecvBackend
<1> QED
  BY <1>1, <1>2, <1>5, <1>6, ZenonT(60)

LEMMA InitFlight == Init => FlightInv
<1> SUFFICES ASSUME Init PROVE Flight
  BY ZenonT(60) DEF FlightInv
<1>1. /\ \A c \in Clients : pump[c].pc = "idle" /\ io[c].pc = "idle" /\ sent[c] = {}
      /\ scan.pc = "idle"
  BY ZenonT(60) DEF Init, Idle, IoIdle, ScanIdle
<1>a. \A o \in Obj : ~(inFlightPQ[o] > 0) /\ index[o] = "zero"
  BY DEF Init
<1>2. /\ memoryMsgChan = {} /\ inFlightMessages = {} /\ deferredMessages = {} /\ deferredPQ = {}
      /\ putter = NoObj /\ admin = "none"
  BY DEF Init
<1>3. Originals
  BY <1>1, <1>a, <1>2, ZenonT(60) DEF Originals
<1>4. HeapInv
  BY <1>1, <1>a, <1>2, ZenonT(60) DEF HeapInv
<1> QED
  BY <1>2, <1>3, <1>4, ZenonT(60) DEF Flight, CoverInv

LEMMA NextFlight ==
  ASSUME MaxEmpty = 0, ConsInv, FlightInv, InMemory, [Next]_vars
  PROVE  FlightInv'
<1> SUFFICES ASSUME ~exitFlag' PROVE Flight'
  BY DEF FlightInv
<1>0. /\ Open /\ ~exitFlag /\ ~AdminNext
      /\ \A c \in Clients : ~PumpRecvBackend(c)
  BY OpenSteps, ZenonT(60)
<1>1. ASSUME NEW m \in Msgs, PutMessage(m) \/ PutMessageDeferred(m) PROVE Flight'
  BY <1>0, <1>1, FlightStill
<1>2. CASE PutAddToDeferredPQ
  BY <1>0, <1>2, FlightStill
<1>3. ASSUME NEW c \in Clients, AddClient(c) \/ RemoveClient(c) PROVE Flight'
  BY <1>0, <1>3, FlightStill, ZenonT(60)
<1>4. ASSUME NEW c \in Clients, PumpNext(c) PROVE Flight'
  BY <1>0, <1>4, FlightStill, FlightPump, ZenonT(60) DEF PumpNext
<1>5. ASSUME NEW c \in Clients, IoNext(c) PROVE Flight'
  BY <1>0, <1>5, FlightAnswer, FlightRequeue, FlightTouch, ZenonT(60) DEF IoNext
<1>6. CASE ScanNext
  BY <1>0, <1>6, FlightScan, FlightScanPut, ZenonT(60) DEF ScanNext
<1>7. CASE UNCHANGED vars
  <2>1. Flight
    BY <1>0 DEF Open
  <2> QED
    BY <1>7, <2>1, ZenonT(60) DEF vars, flightVars, deferVars, queueVars, clientVars, adminVars, threadVars,
       Flight, Originals, HeapInv, CoverInv, Covered
<1> QED
  BY <1>0, <1>1, <1>2, <1>3, <1>4, <1>5, <1>6, <1>7, ZenonT(60) DEF Next

\* Without Empty, and while the memory queue has room, no message in flight is out of the
\* time-out scan's sight: StartInFlightTimeout, TouchMessage and processInFlightQueue change
\* the map and the heap in separate sections, and a late FIN, REQ or TOUCH may come between.
THEOREM InFlightIsSeen ==
  ASSUME MaxEmpty = 0 PROVE Spec /\ []InMemory => []InFlightCovered
<1>1. ConsInv /\ FlightInv /\ InMemory /\ [Next]_vars => (ConsInv /\ FlightInv)'
  BY NextCons, NextFlight
<1>2. FlightInv => InFlightCovered
  BY DEF FlightInv, Flight, CoverInv, InFlightCovered
<1> QED
  BY <1>1, <1>2, InitCons, InitFlight, PTL DEF Spec

\* The backend of an ephemeral channel keeps nothing, so its consumers are served from
\* memory whatever the size of the queue.
LEMMA EphemeralKeepsNothing ==
  ASSUME Ephemeral, backend = {}, [Next]_vars PROVE backend' = {}
<1> USE DEF queueVars
<1>0. ASSUME NEW S, writeMessageToBackend(S) PROVE backend' = {}
  BY <1>0 DEF writeMessageToBackend
<1>a. ASSUME NEW o, put(o) PROVE backend' = {}
  BY <1>0, <1>a DEF put
<1>1. ASSUME NEW m \in Msgs, PutMessage(m) \/ PutMessageDeferred(m) PROVE backend' = {}
  BY <1>1, <1>a, ZenonT(60) DEF PutMessage, PutMessageDeferred
<1>2. CASE PutAddToDeferredPQ
  BY <1>2, ZenonT(60) DEF PutAddToDeferredPQ
<1>3. ASSUME NEW c \in Clients, AddClient(c) \/ RemoveClient(c) \/ PumpNext(c) PROVE backend' = {}
  BY <1>3 DEF AddClient, RemoveClient, PumpNext, PumpRecvMemory, PumpRecvBackend,
     PumpSample, PumpPush, PumpAdd, PumpSend, PumpExit
<1>4. ASSUME NEW c \in Clients, IoNext(c) PROVE backend' = {}
  BY <1>4, <1>a, ZenonT(60) DEF IoNext, popInFlightMessage, IoRemovePQ, RequeueNow, RequeueDeferred,
         RequeueAddToDeferredPQ, TouchPush, TouchAdd, IoCount
<1>5. CASE ScanNext
  BY <1>5, <1>a, ZenonT(60) DEF ScanNext, ScanShift, ScanShiftDeferred, ScanReadClient, ScanPop,
         ScanTimedOut, ScanPut, ScanPopDeferred
<1>6. CASE AdminNext
  BY <1>6, <1>0, ZenonT(60) DEF AdminNext, EmptyInFlight, EmptyDeferred, EmptyClients, EmptyMemory,
         EmptyBackend, exit, FlushMemory, FlushInFlight, FlushDeferred
<1>7. CASE UNCHANGED vars
  BY <1>7, ZenonT(60) DEF vars
<1> QED
  BY <1>1, <1>2, <1>3, <1>4, <1>5, <1>6, <1>7 DEF Next

-----------------------------------------------------------------------------
(* Deferred messages: here neither Empty nor exit is an exception.         *)

\* A step that leaves the deferred messages alone, and who is about to add or to find one.
LEMMA DeferredKept ==
  ASSUME DeferredCovered, UNCHANGED <<deferredMessages, deferredPQ, putter>>,
         \A c \in Clients : io[c].pc = "pushed" /\ io[c].op = "REQdelay" => io'[c] = io[c],
         scan.pc = "dshifted" => scan' = scan
  PROVE  DeferredCovered'
BY DEF DeferredCovered

\* The topic's pump in PutMessageDeferred.
LEMMA DeferredPut ==
  ASSUME TypeOK, DeferredCovered,
         (\E m \in Msgs : PutMessageDeferred(m)) \/ PutAddToDeferredPQ
  PROVE  DeferredCovered'
<1>0. UNCHANGED <<io, scan>>
  BY ZenonT(60) DEF PutMessageDeferred, PutAddToDeferredPQ
<1>1. ASSUME NEW m \in Msgs, PutMessageDeferred(m) PROVE DeferredCovered'
  <2>1. /\ putter = NoObj /\ deferredMessages' = deferredMessages \cup {<<m, 0>>}
        /\ putter' = <<m, 0>> /\ deferredPQ' = deferredPQ
    BY <1>1, ZenonT(60) DEF PutMessageDeferred
  <2>2. \A o \in deferredMessages : putter # o
    <3>1. NoObj \notin Obj
      BY DEF Obj, NoObj
    <3> QED
      BY <2>1, <3>1 DEF TypeOK
  <2> QED
    BY <1>0, <2>1, <2>2, ZenonT(60) DEF DeferredCovered
<1>2. CASE PutAddToDeferredPQ
  BY <1>0, <1>2, ZenonT(60) DEF PutAddToDeferredPQ, DeferredCovered
<1> QED
  BY <1>1, <1>2, ZenonT(60)

\* A client's IOLoop in StartDeferredTimeout.
LEMMA DeferredRequeue ==
  ASSUME TypeOK, DeferredCovered, NEW c \in Clients, RequeueDeferred(c) \/ RequeueAddToDeferredPQ(c)
  PROVE  DeferredCovered'
<1> DEFINE o == io[c].obj
<1>0. UNCHANGED <<putter, scan>> /\ io \in [Clients -> IoStates]
  BY DEF RequeueDeferred, RequeueAddToDeferredPQ, TypeOK
<1>a. io[c].pc \in {"removed", "pushed"} /\ io[c].op = "REQdelay"
  BY ZenonT(60) DEF RequeueDeferred, RequeueAddToDeferredPQ
<1>b. io[c] \in [pc : {"popped", "removed", "pushed", "count"},
                 op : {"FIN", "REQ", "REQdelay", "TOUCH"}, obj : Obj]
  BY <1>0, <1>a DEF IoStates, IoIdle
<1>c. \A d \in Clients : d # c => io'[d] = io[d]
  BY <1>0, ZenonT(60) DEF RequeueDeferred, RequeueAddToDeferredPQ
<1>1. CASE RequeueDeferred(c)
  <2>1. io[c].pc = "removed" /\ deferredPQ' = deferredPQ
    BY <1>1 DEF RequeueDeferred
  <2>2. \/ deferredMessages' = deferredMessages
        \/ /\ deferredMessages' = deferredMessages \cup {o}
           /\ io'[c].pc = "pushed" /\ io'[c].op = "REQdelay" /\ io'[c].obj = o
    <3>1. \/ deferredMessages' = deferredMessages
          \/ /\ deferredMessages' = deferredMessages \cup {o}
             /\ io' = [io EXCEPT ![c].pc = "pushed"]
      BY <1>1, ZenonT(60) DEF RequeueDeferred
    <3> QED
      BY <1>0, <1>a, <1>b, <3>1, ZenonT(60)
  <2>3. \A d \in Clients : io[d].pc = "pushed" => io'[d] = io[d]
    BY <1>c, <2>1, ZenonT(60)
  <2> QED
    BY <1>0, <2>1, <2>2, <2>3 DEF DeferredCovered
<1>2. CASE RequeueAddToDeferredPQ(c)
  <2>1. deferredMessages' = deferredMessages /\ deferredPQ' = deferredPQ \cup {o}
    BY <1>2, ZenonT(60) DEF RequeueAddToDeferredPQ
  <2>2. \A x \in deferredMessages' : x # o =>
           \A d \in Clients : io[d].pc = "pushed" /\ io[d].obj = x => io'[d] = io[d]
    BY <1>c
  <2> QED
    BY <1>0, <2>1, <2>2 DEF DeferredCovered
<1> QED
  BY <1>1, <1>2

\* processDeferredQueue takes the entry off the heap first, and the message from the map
\* by its ID afterwards.
LEMMA DeferredScan ==
  ASSUME TypeOK, DeferredCovered, (\E o \in Obj : ScanShiftDeferred(o)) \/ ScanPopDeferred
  PROVE  DeferredCovered'
<1>0. UNCHANGED <<putter, io>>
  BY ZenonT(60) DEF ScanShiftDeferred, ScanPopDeferred
<1>1. ASSUME NEW o \in Obj, ScanShiftDeferred(o) PROVE DeferredCovered'
  <2>1. /\ scan.pc = "idle" /\ deferredPQ' = deferredPQ \ {o} /\ deferredMessages' = deferredMessages
        /\ scan'.pc = "dshifted" /\ scan'.obj = o
    BY <1>1, ZenonT(60) DEF ScanShiftDeferred, ScanIdle
  <2> QED
    BY <1>0, <2>1, ZenonT(60) DEF DeferredCovered
<1>2. CASE ScanPopDeferred
  <2>1. /\ deferredPQ' = deferredPQ
        /\ \A o \in deferredMessages' : o \in deferredMessages /\ Id(o) # Id(scan.obj)
    BY <1>2 DEF ScanPopDeferred
  <2> QED
    BY <1>0, <2>1 DEF DeferredCovered
<1> QED
  BY <1>1, <1>2

LEMMA NextDeferred == ASSUME TypeOK, DeferredCovered, [Next]_vars PROVE DeferredCovered'
<1>0. io \in [Clients -> IoStates]
  BY ZenonT(60) DEF TypeOK
<1>1. ASSUME NEW m \in Msgs, PutMessage(m) PROVE DeferredCovered'
  BY <1>1, DeferredKept, ZenonT(60) DEF PutMessage, deferVars, threadVars
<1>2. ASSUME NEW m \in Msgs, PutMessageDeferred(m) PROVE DeferredCovered'
  BY <1>2, DeferredPut
<1>3. CASE PutAddToDeferredPQ
  BY <1>3, DeferredPut, ZenonT(60)
<1>4. ASSUME NEW c \in Clients, AddClient(c) \/ RemoveClient(c) \/ PumpNext(c) PROVE DeferredCovered'
  <2>1. UNCHANGED <<deferredMessages, deferredPQ, putter, io, scan>>
    BY <1>4, ZenonT(60) DEF AddClient, RemoveClient, PumpNext, PumpRecvMemory, PumpRecvBackend, PumpSample,
           PumpPush, PumpAdd, PumpSend, PumpExit, deferVars, threadVars
  <2> QED
    BY <2>1, DeferredKept, ZenonT(60)
<1>5. ASSUME NEW c \in Clients, IoNext(c) PROVE DeferredCovered'
  <2>1. CASE RequeueDeferred(c) \/ RequeueAddToDeferredPQ(c)
    BY <2>1, DeferredRequeue, ZenonT(60)
  <2>2. CASE \/ \E op \in {"FIN", "REQ", "REQdelay", "TOUCH"} : popInFlightMessage(c, op)
             \/ IoRemovePQ(c) \/ RequeueNow(c) \/ TouchPush(c) \/ TouchAdd(c) \/ IoCount(c)
    <3>1. UNCHANGED <<deferredMessages, deferredPQ, putter, scan>>
      BY <2>2, ZenonT(60) DEF popInFlightMessage, IoRemovePQ, RequeueNow, TouchPush, TouchAdd, IoCount, deferVars
    <3>2. ~(io[c].pc = "pushed" /\ io[c].op = "REQdelay")
      BY <2>2 DEF popInFlightMessage, IoRemovePQ, RequeueNow, TouchPush, TouchAdd, IoCount, IoIdle
    <3>3. \A d \in Clients : d # c => io'[d] = io[d]
      BY <1>0, <2>2 DEF popInFlightMessage, IoRemovePQ, RequeueNow, TouchPush, TouchAdd, IoCount
    <3> QED
      BY <3>1, <3>2, <3>3, DeferredKept, ZenonT(60)
  <2> QED
    BY <1>5, <2>1, <2>2, ZenonT(60) DEF IoNext
<1>6. CASE ScanNext
  <2>1. CASE (\E o \in Obj : ScanShiftDeferred(o)) \/ ScanPopDeferred
    BY <2>1, DeferredScan, ZenonT(60)
  <2>2. CASE (\E o \in Obj : ScanShift(o)) \/ ScanReadClient \/ ScanPop \/ ScanTimedOut \/ ScanPut
    <3>1. UNCHANGED <<deferredMessages, deferredPQ, putter, io>>
      BY <2>2, ZenonT(60) DEF ScanShift, ScanReadClient, ScanPop, ScanTimedOut, ScanPut, deferVars
    <3>2. scan.pc # "dshifted"
      BY <2>2 DEF ScanShift, ScanReadClient, ScanPop, ScanTimedOut, ScanPut, ScanIdle
    <3> QED
      BY <3>1, <3>2, DeferredKept
  <2> QED
    BY <1>6, <2>1, <2>2, ZenonT(60) DEF ScanNext
<1>7. CASE AdminNext
  <2>1. CASE EmptyDeferred
    BY <2>1, ZenonT(60) DEF EmptyDeferred, DeferredCovered
  <2>2. CASE ~EmptyDeferred
    <3>1. UNCHANGED <<deferredMessages, deferredPQ, putter, io, scan>>
      BY <1>7, <2>2, ZenonT(60) DEF AdminNext, EmptyInFlight, EmptyClients, EmptyMemory, EmptyBackend,
             exit, FlushMemory, FlushInFlight, FlushDeferred, deferVars, threadVars
    <3> QED
      BY <3>1, DeferredKept
  <2> QED
    BY <2>1, <2>2, ZenonT(60)
<1>8. CASE UNCHANGED vars
  BY <1>8, DeferredKept DEF vars, deferVars, threadVars
<1> QED
  BY <1>1, <1>2, <1>3, <1>4, <1>5, <1>6, <1>7, <1>8, ZenonT(60) DEF Next

\* Every deferred message has its entry in the deferred heap, or somebody who is about to
\* add it or has just taken it: whatever DPUB, REQ, the scan, Empty and exit do between the
\* sections of PutMessageDeferred, StartDeferredTimeout and processDeferredQueue.
THEOREM DeferredIsSeen == Spec => []DeferredCovered
<1>1. Init => DeferredCovered
  BY ZenonT(60) DEF Init, DeferredCovered
<1>2. TypeOK /\ DeferredCovered /\ [Next]_vars => DeferredCovered'
  BY NextDeferred, ZenonT(60)
<1> QED
  BY <1>1, <1>2, TypeCorrect, PTL DEF Spec

-----------------------------------------------------------------------------
(* The counters of the consumers.                                          *)

\* What the goroutines that are between the map and the counter add to the balance.
PumpPart(c) == One(pump[c].pc \in {"pushed", "added"})
IoPart(c) == One(\/ io[c].pc \in {"popped", "removed", "count"}
                 \/ io[c].pc = "pushed" /\ io[c].op = "REQdelay")
ScanPart(c) == One(scan.pc = "popped" /\ clientID[scan.obj] = c)
Balanced(c) == inFlightCount[c] = Owned(c) - PumpPart(c) + IoPart(c) + ScanPart(c)

\* The message an IOLoop took out of the map to put it back is still its client's.
OwnerInv == \A c \in Clients : IoHolds(c) => clientID[io[c].obj] = c

\* A client that has not subscribed yet has left no trace in the channel.
NewInv ==
    \A c \in Clients : conn[c] = "none" =>
        /\ c \notin clients /\ pump[c] = Idle /\ io[c] = IoIdle /\ inFlightCount[c] = 0
        /\ \A o \in Obj : clientID[o] # c

Counts == IsFiniteSet(inFlightMessages) /\ OwnerInv /\ \A c \in clients : Balanced(c)
CountInv == ~exitFlag /\ faults = 0 => Counts

\* What the steps that move the balance do to its terms.
LEMMA Rebalance ==
  ASSUME NEW c, Balanced(c), inFlightCount[c] \in Int, Owned(c) \in Int,
         PumpPart(c) \in Int, IoPart(c) \in Int, ScanPart(c) \in Int,
         \/ /\ inFlightCount'[c] = inFlightCount[c] /\ Owned(c)' = Owned(c) + 1
            /\ PumpPart(c) = 0 /\ PumpPart(c)' = 1 /\ IoPart(c)' = IoPart(c) /\ ScanPart(c)' = ScanPart(c)
         \/ /\ inFlightCount'[c] = inFlightCount[c] + 1 /\ Owned(c)' = Owned(c)
            /\ PumpPart(c) = 1 /\ PumpPart(c)' = 0 /\ IoPart(c)' = IoPart(c) /\ ScanPart(c)' = ScanPart(c)
         \/ /\ inFlightCount'[c] = inFlightCount[c] /\ Owned(c)' = Owned(c) - 1
            /\ IoPart(c) = 0 /\ IoPart(c)' = 1 /\ PumpPart(c)' = PumpPart(c) /\ ScanPart(c)' = ScanPart(c)
         \/ /\ inFlightCount'[c] = inFlightCount[c] /\ Owned(c)' = Owned(c) + 1
            /\ IoPart(c) = 1 /\ IoPart(c)' = 0 /\ PumpPart(c)' = PumpPart(c) /\ ScanPart(c)' = ScanPart(c)
         \/ /\ inFlightCount'[c] = inFlightCount[c] - 1 /\ Owned(c)' = Owned(c)
            /\ IoPart(c) = 1 /\ IoPart(c)' = 0 /\ PumpPart(c)' = PumpPart(c) /\ ScanPart(c)' = ScanPart(c)
         \/ /\ inFlightCount'[c] = inFlightCount[c] /\ Owned(c)' = Owned(c) - 1
            /\ ScanPart(c) = 0 /\ ScanPart(c)' = 1 /\ PumpPart(c)' = PumpPart(c) /\ IoPart(c)' = IoPart(c)
         \/ /\ inFlightCount'[c] = inFlightCount[c] - 1 /\ Owned(c)' = Owned(c)
            /\ ScanPart(c) = 1 /\ ScanPart(c)' = 0 /\ PumpPart(c)' = PumpPart(c) /\ IoPart(c)' = IoPart(c)
  PROVE  Balanced(c)'
<1> DEFINE n == inFlightCount[c]    n1 == inFlightCount'[c]
           w == Owned(c)            w1 == Owned(c)'
           p == PumpPart(c)         p1 == PumpPart(c)'
           i == IoPart(c)           i1 == IoPart(c)'
           s == ScanPart(c)         s1 == ScanPart(c)'
<1>1. n \in Int /\ w \in Int /\ p \in Int /\ i \in Int /\ s \in Int /\ n = w - p + i + s
  BY ZenonT(60) DEF Balanced
<1> HIDE DEF n, n1, w, w1, p, p1, i, i1, s, s1
<1>2. n1 = w1 - p1 + i1 + s1
  BY <1>1 DEF n, n1, w, w1, p, p1, i, i1, s, s1
<1> QED
  BY <1>2, ZenonT(60) DEF Balanced, n1, w1, p1, i1, s1

\* The size of a finite set that gains or loses an element.
Sizes ==
    /\ IsFiniteSet({}) /\ Cardinality({}) = 0
    /\ \A S : IsFiniteSet(S) =>
        /\ Cardinality(S) \in Nat
        /\ \A T \in SUBSET S : IsFiniteSet(T)
        /\ \A x : /\ IsFiniteSet(S \cup {x})
                  /\ x \notin S => Cardinality(S \cup {x}) = Cardinality(S) + 1
                  /\ x \in S => Cardinality(S \ {x}) = Cardinality(S) - 1

\* A message that enters the map, or leaves it, counts for its client and for no other.
LEMMA OwnedAdd ==
  ASSUME Sizes, IsFiniteSet(inFlightMessages), NEW o, o \notin inFlightMessages,
         inFlightMessages' = inFlightMessages \cup {o},
         \A x \in inFlightMessages : clientID'[x] = clientID[x]
  PROVE  /\ IsFiniteSet(inFlightMessages')
         /\ \A c : /\ clientID'[o] = c => Owned(c)' = Owned(c) + 1
                   /\ clientID'[o] # c => Owned(c)' = Owned(c)
<1>1. IsFiniteSet(inFlightMessages')
  BY ZenonT(60) DEF Sizes
<1>2. ASSUME NEW c PROVE /\ clientID'[o] = c => Owned(c)' = Owned(c) + 1
                         /\ clientID'[o] # c => Owned(c)' = Owned(c)
  <2> DEFINE S == {x \in inFlightMessages : clientID[x] = c}
             T == {x \in inFlightMessages' : clientID'[x] = c}
  <2>1. S \in SUBSET inFlightMessages /\ o \notin S
    OBVIOUS
  <2>2. IsFiniteSet(S)
    BY <2>1, ZenonT(60) DEF Sizes
  <2>3. T = IF clientID'[o] = c THEN S \cup {o} ELSE S
    OBVIOUS
  <2>4. Cardinality(S \cup {o}) = Cardinality(S) + 1
    BY <2>1, <2>2, ZenonT(60) DEF Sizes
  <2>5. Owned(c) = Cardinality(S) /\ Owned(c)' = Cardinality(T)
    BY DEF Owned
  <2> HIDE DEF S, T
  <2> QED
    BY <2>3, <2>4, <2>5, ZenonT(60)
<1> QED
  BY <1>1, <1>2

LEMMA OwnedRemove ==
  ASSUME Sizes, IsFiniteSet(inFlightMessages), NEW o \in inFlightMessages,
         inFlightMessages' = inFlightMessages \ {o}, UNCHANGED clientID
  PROVE  /\ IsFiniteSet(inFlightMessages')
         /\ \A c : /\ clientID[o] = c => Owned(c)' = Owned(c) - 1
                   /\ clientID[o] # c => Owned(c)' = Owned(c)
<1>1. IsFiniteSet(inFlightMessages')
  <2>1. inFlightMessages' \in SUBSET inFlightMessages
    OBVIOUS
  <2> QED
    BY <2>1, ZenonT(60) DEF Sizes
<1>2. ASSUME NEW c PROVE /\ clientID[o] = c => Owned(c)' = Owned(c) - 1
                         /\ clientID[o] # c => Owned(c)' = Owned(c)
  <2> DEFINE S == {x \in inFlightMessages : clientID[x] = c}
             T == {x \in inFlightMessages' : clientID'[x] = c}
  <2>1. S \in SUBSET inFlightMessages /\ (clientID[o] = c => o \in S)
    OBVIOUS
  <2>2. IsFiniteSet(S)
    BY <2>1, ZenonT(60) DEF Sizes
  <2>3. T = IF clientID[o] = c THEN S \ {o} ELSE S
    OBVIOUS
  <2>4. clientID[o] = c => Cardinality(S \ {o}) = Cardinality(S) - 1
    BY <2>1, <2>2, ZenonT(60) DEF Sizes
  <2>5. Owned(c) = Cardinality(S) /\ Owned(c)' = Cardinality(T)
    BY DEF Owned
  <2> HIDE DEF S, T
  <2> QED
    BY <2>3, <2>4, <2>5, ZenonT(60)
<1> QED
  BY <1>1, <1>2

\* The balance is one of integers.
LEMMA BalanceTypes ==
  ASSUME Sizes, TypeOK, IsFiniteSet(inFlightMessages), NEW c \in Clients
  PROVE  /\ inFlightCount[c] \in Int /\ Owned(c) \in Int
         /\ PumpPart(c) \in Int /\ IoPart(c) \in Int /\ ScanPart(c) \in Int
<1>1. inFlightCount[c] \in Int
  BY DEF TypeOK
<1>2. {o \in inFlightMessages : clientID[o] = c} \in SUBSET inFlightMessages
  OBVIOUS
<1>3. Owned(c) \in Nat
  BY <1>2, ZenonT(60) DEF Sizes, Owned
<1>4. PumpPart(c) \in Int /\ IoPart(c) \in Int /\ ScanPart(c) \in Int
  BY DEF PumpPart, IoPart, ScanPart, One
<1> QED
  BY <1>1, <1>3, <1>4

\* Steps of a client that has subscribed, and of the scan on behalf of one that has.
LEMMA NextNew == ASSUME TypeOK, NewInv, [Next]_vars PROVE NewInv'
<1> SUFFICES ASSUME NEW c \in Clients, conn'[c] = "none"
             PROVE  /\ c \notin clients' /\ pump'[c] = Idle /\ io'[c] = IoIdle /\ inFlightCount'[c] = 0
                    /\ \A o \in Obj : clientID'[o] # c
  BY ZenonT(60) DEF NewInv
<1> DEFINE Goal == /\ c \notin clients' /\ pump'[c] = Idle /\ io'[c] = IoIdle /\ inFlightCount'[c] = 0
                   /\ \A o \in Obj : clientID'[o] # c
<1>t. /\ conn \in [Clients -> ConnStates] /\ pump \in [Clients -> PumpStates]
      /\ io \in [Clients -> IoStates] /\ inFlightCount \in [Clients -> Int]
      /\ clientID \in [Obj -> Clients \cup {NoClient}]
  BY DEF TypeOK
<1>n. conn[c] = "none" => /\ c \notin clients /\ pump[c] = Idle /\ io[c] = IoIdle
                          /\ inFlightCount[c] = 0 /\ \A o \in Obj : clientID[o] # c
  BY ZenonT(60) DEF NewInv
<1>u. ASSUME UNCHANGED <<clients, conn, pump, io, inFlightCount, clientID>> PROVE Goal
  BY <1>u, <1>n, ZenonT(60)
<1>1. CASE (\E m \in Msgs : PutMessage(m) \/ PutMessageDeferred(m)) \/ PutAddToDeferredPQ
  <2>1. UNCHANGED <<clients, conn, pump, io, inFlightCount, clientID>>
    BY <1>1, ZenonT(60) DEF PutMessage, PutMessageDeferred, PutAddToDeferredPQ, clientVars, flightVars,
           threadVars
  <2> QED
    BY <2>1, <1>u
<1>2. ASSUME NEW d \in Clients, AddClient(d) \/ RemoveClient(d) \/ PumpExit(d) PROVE Goal
  <2>1. UNCHANGED <<pump, io, inFlightCount, clientID>>
    BY <1>2, ZenonT(60) DEF AddClient, RemoveClient, PumpExit, clientVars, flightVars, threadVars
  <2>2. c # d /\ conn[c] = "none"
    BY <1>2, <1>t, ZenonT(60) DEF AddClient, RemoveClient, PumpExit
  <2>3. c \in clients' => c \in clients
    BY <1>2, <2>2, ZenonT(60) DEF AddClient, RemoveClient, PumpExit
  <2> QED
    BY <1>n, <2>1, <2>2, <2>3
<1>3. ASSUME NEW d \in Clients, PumpRecvMemory(d) \/ PumpRecvBackend(d) \/ PumpSample(d) PROVE Goal
  <2>1. UNCHANGED <<clients, conn, io, inFlightCount, clientID>>
    BY <1>3, ZenonT(60) DEF PumpRecvMemory, PumpRecvBackend, PumpSample, clientVars, flightVars, threadVars
  <2>2. c # d => pump'[c] = pump[c]
    BY <1>3, <1>t, ZenonT(60) DEF PumpRecvMemory, PumpRecvBackend, PumpSample, Receive, threadVars
  <2>3. conn[d] # "none"
    BY <1>3, ZenonT(60) DEF PumpRecvMemory, PumpRecvBackend, PumpSample, Receive, PumpLive
  <2> QED
    BY <1>n, <2>1, <2>2, <2>3, ZenonT(60)
<1>4. ASSUME NEW d \in Clients, PumpPush(d) \/ PumpAdd(d) \/ PumpSend(d) PROVE Goal
  <2>1. UNCHANGED <<clients, io>>
    BY <1>4, ZenonT(60) DEF PumpPush, PumpAdd, PumpSend, clientVars
  <2>2. pump[d] # Idle
    BY <1>4 DEF PumpPush, PumpAdd, PumpSend, Idle
  <2>3. conn[d] # "none"
    BY <2>2, ZenonT(60) DEF NewInv
  <2>4. conn'[c] = conn[c] \/ c = d
    BY <1>4, <1>t, ZenonT(60) DEF PumpPush, PumpAdd, PumpSend, clientVars
  <2>5. conn'[d] # "none"
    BY <1>4, <1>t, <2>3, ZenonT(60) DEF PumpPush, PumpAdd, PumpSend, clientVars
  <2>6. pump'[c] = pump[c] /\ inFlightCount'[c] = inFlightCount[c]
    BY <1>4, <1>t, <2>5, ZenonT(60) DEF PumpPush, PumpAdd, PumpSend, clientVars
  <2>7. clientID' = clientID \/ (clientID' = [clientID EXCEPT ![pump[d].obj] = d])
    BY <1>4, ZenonT(60) DEF PumpPush, PumpAdd, PumpSend, flightVars
  <2>8. \A o \in Obj : clientID[o] # c => clientID'[o] # c
    BY <1>t, <2>5, <2>7, ZenonT(60)
  <2> QED
    BY <1>n, <2>1, <2>4, <2>5, <2>6, <2>8, ZenonT(60)
<1>5. ASSUME NEW d \in Clients, IoNext(d) PROVE Goal
  <2>1. UNCHANGED <<clients, conn, pump, clientID>>
    BY <1>5, ZenonT(60) DEF IoNext, popInFlightMessage, IoRemovePQ, RequeueNow, RequeueDeferred,
           RequeueAddToDeferredPQ, TouchPush, TouchAdd, IoCount, clientVars, flightVars
  <2>2. conn[d] # "none"
    <3>1. IoLive(d) \/ io[d] # IoIdle
      BY <1>5 DEF IoNext, popInFlightMessage, IoRemovePQ, RequeueNow, RequeueDeferred,
         RequeueAddToDeferredPQ, TouchPush, TouchAdd, IoCount, IoIdle
    <3> QED
      BY <3>1, ZenonT(60) DEF NewInv, IoLive
  <2>3. c # d => io'[c] = io[c]
    BY <1>5, <1>t, ZenonT(60) DEF IoNext, popInFlightMessage, IoRemovePQ, RequeueNow, RequeueDeferred,
       RequeueAddToDeferredPQ, TouchPush, TouchAdd, IoCount
  <2>4. c # d => inFlightCount'[c] = inFlightCount[c]
    BY <1>5, <1>t, ZenonT(60) DEF IoNext, popInFlightMessage, IoRemovePQ, RequeueNow, RequeueDeferred,
           RequeueAddToDeferredPQ, TouchPush, TouchAdd, IoCount, clientVars
  <2> QED
    BY <1>n, <2>1, <2>2, <2>3, <2>4, ZenonT(60)
<1>6. CASE ScanNext
  <2>1. UNCHANGED <<clients, conn, pump, io, clientID>>
    BY <1>6, ZenonT(60) DEF ScanNext, ScanShift, ScanShiftDeferred, ScanReadClient, ScanPop, ScanTimedOut,
           ScanPut, ScanPopDeferred, clientVars, flightVars
  <2>2. \/ inFlightCount' = inFlightCount
        \/ \E d \in clients : inFlightCount' = [inFlightCount EXCEPT ![d] = @ - 1]
    BY <1>6, ZenonT(60) DEF ScanNext, ScanShift, ScanShiftDeferred, ScanReadClient, ScanPop, ScanTimedOut,
           ScanPut, ScanPopDeferred, clientVars
  <2> QED
    BY <1>t, <1>n, <2>1, <2>2, ZenonT(60)
<1>7. CASE AdminNext
  <2>1. UNCHANGED <<clients, conn, pump, io, clientID>>
    BY <1>7, ZenonT(60) DEF AdminNext, EmptyInFlight, EmptyDeferred, EmptyClients, EmptyMemory, EmptyBackend,
           exit, FlushMemory, FlushInFlight, FlushDeferred, clientVars, flightVars, threadVars
  <2>2. inFlightCount'[c] = inFlightCount[c] \/ inFlightCount'[c] = 0
    BY <1>7, ZenonT(60) DEF AdminNext, EmptyInFlight, EmptyDeferred, EmptyClients, EmptyMemory, EmptyBackend,
           exit, FlushMemory, FlushInFlight, FlushDeferred, clientVars
  <2> QED
    BY <1>n, <2>1, <2>2, ZenonT(60)
<1>8. CASE UNCHANGED vars
  BY <1>8, <1>u, ZenonT(60) DEF vars, clientVars, flightVars, threadVars
<1> QED
  BY <1>1, <1>2, <1>3, <1>4, <1>5, <1>6, <1>7, <1>8, ZenonT(60) DEF Next, PumpNext

\* A step between the map and the counter that changes neither.
LEMMA CountKept ==
  ASSUME Counts, UNCHANGED <<inFlightMessages, clientID, inFlightCount>>, clients' \subseteq clients,
         \A c \in clients : /\ PumpPart(c)' = PumpPart(c) /\ IoPart(c)' = IoPart(c)
                            /\ ScanPart(c)' = ScanPart(c),
         \A c \in Clients : IoHolds(c)' => IoHolds(c) /\ io'[c].obj = io[c].obj
  PROVE  Counts'
<1>1. IsFiniteSet(inFlightMessages') /\ OwnerInv'
  BY ZenonT(60) DEF Counts, OwnerInv
<1>2. \A c : Owned(c)' = Owned(c)
  BY ZenonT(60) DEF Owned
<1>3. \A c \in clients' : Balanced(c)'
  BY <1>2, ZenonT(60) DEF Counts, Balanced
<1> QED
  BY <1>1, <1>3, ZenonT(60) DEF Counts

LEMMA CountStill ==
  ASSUME Open, Counts,
         \/ \E m \in Msgs : PutMessage(m) \/ PutMessageDeferred(m)
         \/ PutAddToDeferredPQ
         \/ \E c \in Clients : RemoveClient(c) \/ PumpExit(c) \/ PumpSample(c)
  PROVE  Counts'
<1>1. UNCHANGED <<inFlightMessages, clientID, inFlightCount, pump, io, scan>>
  BY ZenonT(60) DEF PutMessage, PutMessageDeferred, PutAddToDeferredPQ, RemoveClient, PumpExit, PumpSample,
     flightVars, clientVars, threadVars
<1>2. clients' \subseteq clients
  BY ZenonT(60) DEF PutMessage, PutMessageDeferred, PutAddToDeferredPQ, RemoveClient, PumpExit, PumpSample,
     clientVars
<1> QED
  BY <1>1, <1>2, CountKept, ZenonT(60) DEF PumpPart, IoPart, ScanPart, IoHolds

\* AddClient: the new consumer starts at zero, and has nothing in flight.
LEMMA CountSubscribe ==
  ASSUME Sizes, Open, Counts, NewInv, NEW c \in Clients, AddClient(c)
  PROVE  Counts'
<1>1. /\ conn[c] = "none" /\ clients' = clients \cup {c}
      /\ UNCHANGED <<inFlightMessages, clientID, inFlightCount, pump, io, scan>>
  BY ZenonT(60) DEF AddClient, flightVars, clientVars, threadVars
<1>2. /\ pump[c] = Idle /\ io[c] = IoIdle /\ inFlightCount[c] = 0
      /\ \A o \in Obj : clientID[o] # c
  BY <1>1, ZenonT(60) DEF NewInv
<1>3. \A d : Owned(d)' = Owned(d)
  BY <1>1, ZenonT(60) DEF Owned
<1>4. \A d \in clients : Balanced(d)'
  BY <1>1, <1>3, ZenonT(60) DEF Counts, Balanced, PumpPart, IoPart, ScanPart
<1>5. Balanced(c)'
  <2>1. {o \in inFlightMessages : clientID[o] = c} = {}
    BY <1>2 DEF Open, TypeOK
  <2>2. Owned(c) = 0
    BY <2>1, ZenonT(60) DEF Sizes, Owned
  <2>3. PumpPart(c) = 0 /\ IoPart(c) = 0
    BY <1>2 DEF PumpPart, IoPart, One, Idle, IoIdle
  <2>4. ScanPart(c) = 0
    <3>1. scan.pc = "popped" => scan.obj \in Obj
      BY OriginalId, ZenonT(60) DEF Open, Flight, Originals
    <3> QED
      BY <1>2, <3>1, ZenonT(60) DEF ScanPart, One
  <2>5. inFlightCount'[c] = 0 /\ Owned(c)' = 0 /\ PumpPart(c)' = 0 /\ IoPart(c)' = 0 /\ ScanPart(c)' = 0
    BY <1>1, <1>2, <1>3, <2>2, <2>3, <2>4, ZenonT(60) DEF PumpPart, IoPart, ScanPart
  <2> QED
    BY <2>5 DEF Balanced
<1> QED
  BY <1>1, <1>4, <1>5, ZenonT(60) DEF Counts, OwnerInv, IoHolds

\* Delivery: the map comes first, the counter after the heap.
LEMMA CountPump ==
  ASSUME Sizes, Open, Counts, NEW c \in Clients,
         PumpRecvMemory(c) \/ PumpPush(c) \/ PumpAdd(c) \/ PumpSend(c)
  PROVE  Counts'
<1>0. /\ TypeOK /\ Cons /\ ~Copied /\ Originals /\ pump \in [Clients -> PumpStates]
      /\ IsFiniteSet(inFlightMessages) /\ OwnerInv /\ clients \subseteq Clients
      /\ inFlightCount \in [Clients -> Int]
  BY DEF Open, Flight, TypeOK, Counts
<1>a. UNCHANGED <<clients, io, scan>>
  BY ZenonT(60) DEF PumpRecvMemory, PumpPush, PumpAdd, PumpSend, clientVars
<1>b. \A d \in Clients : d # c => pump'[d] = pump[d]
  BY <1>0, ZenonT(60) DEF PumpRecvMemory, Receive, PumpPush, PumpAdd, PumpSend
<1>c. pump[c].pc # "idle" => pump[c] \in [pc : {"got", "pushed", "added"}, obj : Obj]
  BY <1>0, Shapes, ZenonT(60)
<1>d. \A d \in Clients : d # c => PumpPart(d)' = PumpPart(d)
  BY <1>b, ZenonT(60) DEF PumpPart
<1>e. \A d \in Clients : IoPart(d)' = IoPart(d)
  BY <1>a, ZenonT(60) DEF IoPart
<1>1. CASE PumpRecvMemory(c) \/ PumpAdd(c)
  <2>1. UNCHANGED <<inFlightMessages, clientID, inFlightCount>>
    BY <1>1, ZenonT(60) DEF PumpRecvMemory, PumpAdd, flightVars, clientVars
  <2>2. PumpPart(c)' = PumpPart(c)
    <3>1. CASE PumpRecvMemory(c)
      <4>1. pump[c].pc = "idle" /\ pump'[c].pc = "got"
        <5>1. PICK o \in memoryMsgChan :
                 pump[c] = Idle /\ pump' = [pump EXCEPT ![c] = [pc |-> "got", obj |-> o]]
          BY <3>1, ZenonT(60) DEF PumpRecvMemory, Receive
        <5>2. pump'[c] = [pc |-> "got", obj |-> o]
          BY <1>0, <5>1, ZenonT(60)
        <5>3. pump'[c].pc = "got"
          BY <5>2
        <5> QED
          BY <5>1, <5>3, IdleFields, ZenonT(60)
      <4> QED
        BY <4>1 DEF PumpPart
    <3>2. CASE PumpAdd(c)
      <4>1. pump[c].pc = "pushed" /\ pump'[c].pc = "added"
        BY <1>0, <1>c, <3>2, ZenonT(60) DEF PumpAdd
      <4> QED
        BY <4>1 DEF PumpPart
    <3> QED
      BY <1>1, <3>1, <3>2, ZenonT(60)
  <2>3. \A d \in clients : PumpPart(d)' = PumpPart(d) /\ IoPart(d)' = IoPart(d) /\ ScanPart(d)' = ScanPart(d)
    BY <1>0, <1>a, <1>d, <1>e, <2>1, <2>2, ZenonT(60) DEF ScanPart
  <2> QED
    BY <1>a, <2>1, <2>3, CountKept, ZenonT(60) DEF IoHolds
<1>2. CASE PumpPush(c)
  <2> DEFINE o == pump[c].obj
  <2>1. PumpHolds(c) /\ o \in Original /\ o \in Obj
    BY <1>0, <1>2, OriginalId, ZenonT(60) DEF PumpPush, PumpHolds, Originals
  <2>2. o \notin inFlightMessages /\ Id(o) \notin Ids(inFlightMessages)
    BY <1>0, <2>1, Exclusive, ZenonT(60) DEF Ids
  <2>3. /\ inFlightMessages' = inFlightMessages \cup {o} /\ inFlightCount' = inFlightCount
        /\ clientID' = [clientID EXCEPT ![o] = c] /\ clientID \in [Obj -> Clients \cup {NoClient}]
        /\ pump' = [pump EXCEPT ![c].pc = "pushed"] /\ inFlightMessages \subseteq Obj
    BY <1>0, <1>2, <2>2, ZenonT(60) DEF PumpPush, clientVars, TypeOK
  <2>4. clientID'[o] = c /\ \A x \in Obj : x # o => clientID'[x] = clientID[x]
    BY <2>1, <2>3
  <2>5. /\ IsFiniteSet(inFlightMessages') /\ Owned(c)' = Owned(c) + 1
        /\ \A d : d # c => Owned(d)' = Owned(d)
    <3>1. \A x \in inFlightMessages : clientID'[x] = clientID[x]
      BY <2>2, <2>3, <2>4, ZenonT(60)
    <3> QED
      BY <1>0, <2>2, <2>3, <2>4, <3>1, OwnedAdd, ZenonT(60)
  <2>6. PumpPart(c) = 0 /\ PumpPart(c)' = 1
    <3>1. pump'[c].pc = "pushed"
      BY <1>0, <1>c, <2>1, <2>3, ZenonT(60) DEF PumpHolds
    <3> QED
      BY <2>1, <3>1, ZenonT(60) DEF PumpHolds, PumpPart, One
  <2>7. \A d \in Clients : ScanPart(d)' = ScanPart(d)
    <3>1. scan.pc = "popped" => scan.obj # o /\ scan.obj \in Obj
      BY <1>0, <2>1, Exclusive, OriginalId, ZenonT(60) DEF ScanHolds, Originals
    <3> QED
      BY <1>a, <2>4, <3>1, ZenonT(60) DEF ScanPart
  <2>8. OwnerInv'
    <3>1. \A d \in Clients : IoHolds(d) => io[d].obj # o /\ io[d].obj \in Obj
      BY <1>0, <2>1, Exclusive, OriginalId, ZenonT(60) DEF IoHolds, Originals
    <3> QED
      BY <1>0, <1>a, <2>4, <3>1, ZenonT(60) DEF OwnerInv, IoHolds
  <2>9. ASSUME NEW d \in clients PROVE Balanced(d)'
    <3>1. /\ Balanced(d) /\ d \in Clients
          /\ inFlightCount[d] \in Int /\ Owned(d) \in Int
          /\ PumpPart(d) \in Int /\ IoPart(d) \in Int /\ ScanPart(d) \in Int
      BY <1>0, BalanceTypes DEF Counts
    <3>2. CASE d = c
      BY <1>e, <2>3, <2>5, <2>6, <2>7, <3>1, <3>2, Rebalance, ZenonT(60)
    <3>3. CASE d # c
      BY <1>d, <1>e, <2>3, <2>5, <2>7, <3>1, <3>3, ZenonT(60) DEF Balanced
    <3> QED
      BY <3>2, <3>3, ZenonT(60)
  <2> QED
    BY <1>a, <2>5, <2>8, <2>9, ZenonT(60) DEF Counts
<1>3. CASE PumpSend(c)
  <2>1. /\ UNCHANGED <<inFlightMessages, clientID>> /\ pump[c].pc = "added"
        /\ inFlightCount' = [inFlightCount EXCEPT ![c] = @ + 1] /\ pump' = [pump EXCEPT ![c] = Idle]
    BY <1>3, ZenonT(60) DEF PumpSend, flightVars
  <2>2. PumpPart(c) = 1 /\ PumpPart(c)' = 0
    BY <1>0, <2>1 DEF PumpPart, One, Idle
  <2>3. \A d : Owned(d)' = Owned(d) /\ ScanPart(d)' = ScanPart(d)
    BY <1>a, <2>1, ZenonT(60) DEF Owned, ScanPart
  <2>4. ASSUME NEW d \in clients PROVE Balanced(d)'
    <3>1. /\ Balanced(d) /\ d \in Clients
          /\ inFlightCount[d] \in Int /\ Owned(d) \in Int
          /\ PumpPart(d) \in Int /\ IoPart(d) \in Int /\ ScanPart(d) \in Int
      BY <1>0, BalanceTypes DEF Counts
    <3>2. CASE d = c
      <4>1. inFlightCount'[d] = inFlightCount[d] + 1
        BY <1>0, <2>1, <3>2, ZenonT(60)
      <4> QED
        BY <1>e, <2>2, <2>3, <3>1, <3>2, <4>1, Rebalance, ZenonT(60)
    <3>3. CASE d # c
      BY <1>0, <1>d, <1>e, <2>1, <2>3, <3>1, <3>3, ZenonT(60) DEF Balanced
    <3> QED
      BY <3>2, <3>3, ZenonT(60)
  <2> QED
    BY <1>0, <1>a, <2>1, <2>4, ZenonT(60) DEF Counts, OwnerInv, IoHolds
<1> QED
  BY <1>1, <1>2, <1>3, ZenonT(60)

\* An answer: the message leaves the map, and the counter follows at the end; TOUCH brings
\* the message back and leaves the counter alone.
LEMMA CountIo ==
  ASSUME Sizes, Open, Counts, ~exitFlag, faults' = faults, NEW c \in Clients, IoNext(c)
  PROVE  Counts'
<1>0. /\ TypeOK /\ Cons /\ ~Copied /\ Originals /\ io \in [Clients -> IoStates]
      /\ IsFiniteSet(inFlightMessages) /\ OwnerInv /\ clients \subseteq Clients
      /\ inFlightCount \in [Clients -> Int] /\ inFlightMessages \subseteq Obj
  BY DEF Open, Flight, TypeOK, Counts
<1>a. UNCHANGED <<clients, clientID, pump, scan>>
  BY ZenonT(60) DEF IoNext, popInFlightMessage, IoRemovePQ, RequeueNow, RequeueDeferred,
     RequeueAddToDeferredPQ, TouchPush, TouchAdd, IoCount, clientVars, flightVars
<1>b. \A d \in Clients : d # c => io'[d] = io[d]
  BY <1>0, ZenonT(60) DEF IoNext, popInFlightMessage, IoRemovePQ, RequeueNow, RequeueDeferred,
     RequeueAddToDeferredPQ, TouchPush, TouchAdd, IoCount
<1>c. io[c].pc # "idle" => io[c] \in [pc : {"popped", "removed", "pushed", "count"},
                                      op : {"FIN", "REQ", "REQdelay", "TOUCH"}, obj : Obj]
  BY <1>0, Shapes, ZenonT(60)
<1>d. \A d \in Clients : /\ PumpPart(d)' = PumpPart(d) /\ ScanPart(d)' = ScanPart(d)
                         /\ d # c => IoPart(d)' = IoPart(d)
  BY <1>a, <1>b, ZenonT(60) DEF PumpPart, IoPart, ScanPart
<1>e. \A d \in clients : /\ Balanced(d) /\ d \in Clients
                         /\ inFlightCount[d] \in Int /\ Owned(d) \in Int
                         /\ PumpPart(d) \in Int /\ IoPart(d) \in Int /\ ScanPart(d) \in Int
  BY <1>0, BalanceTypes DEF Counts
<1>f. \A d \in Clients : d # c => (IoHolds(d)' <=> IoHolds(d)) /\ io'[d].obj = io[d].obj
  BY <1>b, ZenonT(60) DEF IoHolds
<1>1. ASSUME NEW op \in {"FIN", "REQ", "REQdelay", "TOUCH"}, popInFlightMessage(c, op) PROVE Counts'
  <2>1. PICK o \in inFlightMessages :
          /\ io[c] = IoIdle /\ clientID[o] = c /\ inFlightMessages' = inFlightMessages \ {o}
          /\ io' = [io EXCEPT ![c] = [pc |-> "popped", op |-> op, obj |-> o]]
    BY <1>1, ZenonT(60) DEF popInFlightMessage
  <2>2. io[c].pc = "idle" /\ io'[c].pc = "popped" /\ io'[c].obj = o /\ inFlightCount' = inFlightCount
    <3>1. inFlightCount' = inFlightCount
      BY <1>1, ZenonT(60) DEF popInFlightMessage, clientVars
    <3>2. io[c].pc = "idle"
      BY <2>1 DEF IoIdle
    <3>3. io'[c] = [pc |-> "popped", op |-> op, obj |-> o]
      BY <1>0, <2>1, ZenonT(60)
    <3> QED
      BY <3>1, <3>2, <3>3
  <2>3. /\ IsFiniteSet(inFlightMessages') /\ Owned(c)' = Owned(c) - 1
        /\ \A d : d # c => Owned(d)' = Owned(d)
    BY <1>0, <1>a, <2>1, OwnedRemove, ZenonT(60)
  <2>4. IoPart(c) = 0 /\ IoPart(c)' = 1
    BY <2>2 DEF IoPart, One
  <2>5. OwnerInv'
    BY <1>0, <1>a, <1>f, <2>1, <2>2, ZenonT(60) DEF OwnerInv
  <2>6. ASSUME NEW d \in clients PROVE Balanced(d)'
    <3>1. CASE d = c
      BY <1>d, <1>e, <2>2, <2>3, <2>4, <3>1, Rebalance, ZenonT(60)
    <3>2. CASE d # c
      BY <1>d, <1>e, <2>2, <2>3, <3>2, ZenonT(60) DEF Balanced
    <3> QED
      BY <3>1, <3>2
  <2> QED
    BY <1>a, <2>3, <2>5, <2>6 DEF Counts
<1>2. CASE \/ IoRemovePQ(c) \/ RequeueNow(c) \/ RequeueDeferred(c) \/ RequeueAddToDeferredPQ(c)
           \/ TouchAdd(c)
  <2>1. UNCHANGED <<inFlightMessages, inFlightCount>>
    BY <1>2, ZenonT(60) DEF IoRemovePQ, RequeueNow, RequeueDeferred, RequeueAddToDeferredPQ, TouchAdd,
       flightVars, clientVars
  <2>2. IoPart(c)' = IoPart(c) /\ (IoHolds(c)' => IoHolds(c) /\ io'[c].obj = io[c].obj)
    <3>1. CASE IoRemovePQ(c)
      <4>1. /\ io[c].pc = "popped" /\ io'[c].op = io[c].op /\ io'[c].obj = io[c].obj
            /\ io'[c].pc \in {"count", "removed"} /\ (io'[c].pc = "removed" => io[c].op # "FIN")
        BY <1>0, <1>c, <3>1, ZenonT(60) DEF IoRemovePQ
      <4> QED
        BY <4>1, ZenonT(60) DEF IoPart, IoHolds
    <3>2. CASE RequeueNow(c)
      <4>1. io[c].pc = "removed" /\ io'[c].pc = "count"
        BY <1>0, <1>c, <3>2, ZenonT(60) DEF RequeueNow
      <4> QED
        BY <4>1, ZenonT(60) DEF IoPart, IoHolds
    <3>3. CASE RequeueDeferred(c)
      <4>1. io[c].pc = "removed" /\ io[c].op = "REQdelay" /\ IoHolds(c)
        BY <3>3, ZenonT(60) DEF RequeueDeferred, IoHolds
      <4>2. Id(io[c].obj) \notin Ids(deferredMessages)
        BY <1>0, <4>1, Exclusive, ZenonT(60) DEF Ids
      <4>3. io'[c].pc = "pushed" /\ io'[c].op = "REQdelay"
        BY <1>0, <1>c, <3>3, <4>1, <4>2, ZenonT(60) DEF RequeueDeferred
      <4> QED
        BY <4>1, <4>3 DEF IoPart, IoHolds
    <3>4. CASE RequeueAddToDeferredPQ(c)
      <4>1. io[c].pc = "pushed" /\ io[c].op = "REQdelay" /\ io'[c].pc = "count"
        BY <1>0, <1>c, <3>4, ZenonT(60) DEF RequeueAddToDeferredPQ
      <4> QED
        BY <4>1 DEF IoPart, IoHolds
    <3>5. CASE TouchAdd(c)
      <4>1. io[c].pc = "pushed" /\ io[c].op = "TOUCH" /\ io'[c].pc = "idle"
        BY <1>0, <3>5, ZenonT(60) DEF TouchAdd, IoIdle
      <4> QED
        BY <4>1, ZenonT(60) DEF IoPart, IoHolds
    <3> QED
      BY <1>2, <3>1, <3>2, <3>3, <3>4, <3>5, ZenonT(60)
  <2>3. \A d \in clients : PumpPart(d)' = PumpPart(d) /\ IoPart(d)' = IoPart(d) /\ ScanPart(d)' = ScanPart(d)
    BY <1>0, <1>d, <2>2, ZenonT(60)
  <2>4. \A d \in Clients : IoHolds(d)' => IoHolds(d) /\ io'[d].obj = io[d].obj
    BY <1>f, <2>2, ZenonT(60)
  <2> QED
    BY <1>a, <2>1, <2>3, <2>4, CountKept, ZenonT(60)
<1>3. CASE TouchPush(c)
  <2> DEFINE o == io[c].obj
  <2>1. IoHolds(c) /\ io[c].pc = "removed" /\ io[c].op = "TOUCH"
    BY <1>3, ZenonT(60) DEF TouchPush, IoHolds
  <2>2. o \notin inFlightMessages /\ Id(o) \notin Ids(inFlightMessages) /\ clientID[o] = c
    BY <1>0, <2>1, Exclusive, ZenonT(60) DEF Ids, OwnerInv
  <2>3. /\ inFlightMessages' = inFlightMessages \cup {o} /\ inFlightCount' = inFlightCount
        /\ io' = [io EXCEPT ![c].pc = "pushed"]
    BY <1>3, <2>2, ZenonT(60) DEF TouchPush, clientVars
  <2>4. io'[c].pc = "pushed" /\ io'[c].op = "TOUCH"
    BY <1>0, <1>c, <2>1, <2>3, ZenonT(60)
  <2>5. /\ IsFiniteSet(inFlightMessages') /\ Owned(c)' = Owned(c) + 1
        /\ \A d : d # c => Owned(d)' = Owned(d)
    BY <1>0, <1>a, <2>2, <2>3, OwnedAdd, ZenonT(60)
  <2>6. IoPart(c) = 1 /\ IoPart(c)' = 0 /\ ~IoHolds(c)'
    BY <2>1, <2>4, ZenonT(60) DEF IoPart, IoHolds, One
  <2>7. OwnerInv'
    BY <1>0, <1>a, <1>f, <2>6, ZenonT(60) DEF OwnerInv
  <2>8. ASSUME NEW d \in clients PROVE Balanced(d)'
    <3>1. CASE d = c
      BY <1>d, <1>e, <2>3, <2>5, <2>6, <3>1, Rebalance, ZenonT(60)
    <3>2. CASE d # c
      BY <1>d, <1>e, <2>3, <2>5, <3>2, ZenonT(60) DEF Balanced
    <3> QED
      BY <3>1, <3>2
  <2> QED
    BY <1>a, <2>5, <2>7, <2>8, ZenonT(60) DEF Counts
<1>4. CASE IoCount(c)
  <2>1. /\ inFlightMessages' = inFlightMessages /\ io[c].pc = "count"
        /\ inFlightCount' = [inFlightCount EXCEPT ![c] = @ - 1] /\ io' = [io EXCEPT ![c] = IoIdle]
    BY <1>4, ZenonT(60) DEF IoCount, flightVars
  <2>2. IoPart(c) = 1 /\ IoPart(c)' = 0 /\ ~IoHolds(c)'
    <3>1. io'[c].pc = "idle"
      BY <1>0, <2>1, ZenonT(60) DEF IoIdle
    <3> QED
      BY <2>1, <3>1, ZenonT(60) DEF IoPart, IoHolds, One
  <2>3. \A d : Owned(d)' = Owned(d)
    BY <1>a, <2>1, ZenonT(60) DEF Owned
  <2>4. OwnerInv'
    BY <1>0, <1>a, <1>f, <2>2, ZenonT(60) DEF OwnerInv
  <2>5. ASSUME NEW d \in clients PROVE Balanced(d)'
    <3>1. CASE d = c
      <4>1. inFlightCount'[d] = inFlightCount[d] - 1
        BY <1>0, <2>1, <3>1, ZenonT(60)
      <4> QED
        BY <1>d, <1>e, <2>2, <2>3, <3>1, <4>1, Rebalance, ZenonT(60)
    <3>2. CASE d # c
      BY <1>0, <1>d, <1>e, <2>1, <2>3, <3>2, ZenonT(60) DEF Balanced
    <3> QED
      BY <3>1, <3>2
  <2> QED
    BY <1>0, <1>a, <2>1, <2>4, <2>5, ZenonT(60) DEF Counts
<1> QED
  BY <1>1, <1>2, <1>3, <1>4, ZenonT(60) DEF IoNext

\* A time-out: the client that processInFlightQueue reads before popInFlightMessage, and the
\* one that TimedOutMessage is called for, are the client the message was in flight to.
LEMMA CountScan ==
  ASSUME Sizes, Open, Counts, ScanNext
  PROVE  Counts'
<1>0. /\ TypeOK /\ Originals /\ scan \in ScanStates
      /\ IsFiniteSet(inFlightMessages) /\ OwnerInv /\ clients \subseteq Clients
      /\ inFlightCount \in [Clients -> Int] /\ inFlightMessages \subseteq Obj
  BY DEF Open, Flight, TypeOK, Counts
<1>a. UNCHANGED <<clients, clientID, pump, io>>
  BY ZenonT(60) DEF ScanNext, ScanShift, ScanShiftDeferred, ScanReadClient, ScanPop, ScanTimedOut, ScanPut,
     ScanPopDeferred, clientVars, flightVars
<1>b. \A d \in Clients : /\ PumpPart(d)' = PumpPart(d) /\ IoPart(d)' = IoPart(d)
                         /\ IoHolds(d)' => IoHolds(d) /\ io'[d].obj = io[d].obj
  BY <1>a, ZenonT(60) DEF PumpPart, IoPart, IoHolds
<1>c. OwnerInv'
  BY <1>0, <1>a, ZenonT(60) DEF OwnerInv, IoHolds
<1>d. scan.pc # "idle" => scan \in [pc : {"shifted", "read", "popped", "put", "dshifted"},
                                    obj : Obj, cid : Clients \cup {NoClient}]
  BY <1>0, Shapes, ZenonT(60)
<1>e. \A d \in clients : /\ Balanced(d) /\ d \in Clients
                         /\ inFlightCount[d] \in Int /\ Owned(d) \in Int
                         /\ PumpPart(d) \in Int /\ IoPart(d) \in Int /\ ScanPart(d) \in Int
  BY <1>0, BalanceTypes, ZenonT(60) DEF Counts
<1>f. ASSUME UNCHANGED <<inFlightMessages, inFlightCount>>, scan.pc # "popped", scan'.pc # "popped"
      PROVE  Counts'
  <2>1. \A d \in clients : PumpPart(d)' = PumpPart(d) /\ IoPart(d)' = IoPart(d) /\ ScanPart(d)' = ScanPart(d)
    BY <1>0, <1>b, <1>f, ZenonT(60) DEF ScanPart
  <2> QED
    BY <1>a, <1>b, <1>f, <2>1, CountKept, ZenonT(60)
<1>1. CASE (\E o \in Obj : ScanShift(o) \/ ScanShiftDeferred(o)) \/ ScanReadClient \/ ScanPut
           \/ ScanPopDeferred
  <2>1. UNCHANGED <<inFlightMessages, inFlightCount>>
    BY <1>1, ZenonT(60) DEF ScanShift, ScanShiftDeferred, ScanReadClient, ScanPut, ScanPopDeferred,
       flightVars, clientVars
  <2>2. scan.pc # "popped"
    BY <1>1 DEF ScanShift, ScanShiftDeferred, ScanReadClient, ScanPut, ScanPopDeferred, ScanIdle
  <2>3. scan'.pc # "popped"
    <3>1. ASSUME NEW o \in Obj, ScanShift(o) \/ ScanShiftDeferred(o) PROVE scan'.pc # "popped"
      BY <3>1 DEF ScanShift, ScanShiftDeferred
    <3>2. CASE ScanReadClient
      BY <1>d, <3>2, ZenonT(60) DEF ScanReadClient
    <3>3. CASE ScanPut
      BY <3>3 DEF ScanPut, ScanIdle
    <3>4. CASE ScanPopDeferred
      <4>1. scan' = ScanIdle \/ (scan.pc = "dshifted" /\ scan' = [scan EXCEPT !.pc = "put"])
        BY <3>4, ZenonT(60) DEF ScanPopDeferred
      <4> QED
        BY <1>d, <4>1 DEF ScanIdle
    <3> QED
      BY <1>1, <3>1, <3>2, <3>3, <3>4, ZenonT(60)
  <2> QED
    BY <1>f, <2>1, <2>2, <2>3, ZenonT(60)
<1>2. CASE ScanPop
  <2> DEFINE o == scan.obj
             owned == {x \in inFlightMessages : Id(x) = Id(o) /\ clientID[x] = scan.cid}
  <2>1. /\ scan.pc = "read" /\ inFlightMessages' = inFlightMessages \ owned
        /\ scan' = (IF owned = {} THEN ScanIdle ELSE [scan EXCEPT !.pc = "popped"])
        /\ inFlightCount' = inFlightCount
    BY <1>2, ZenonT(60) DEF ScanPop, clientVars
  <2>2. owned = {} \/ (owned = {o} /\ o \in inFlightMessages)
    <3>1. \A x \in owned : x = o
      BY <1>0, <2>1, OriginalId, ZenonT(60) DEF Originals
    <3> QED
      BY <3>1
  <2> HIDE DEF owned
  <2>3. CASE owned = {}
    <3>1. inFlightMessages' = inFlightMessages /\ scan'.pc = "idle"
      BY <2>1, <2>3, ZenonT(60) DEF ScanIdle
    <3> QED
      BY <1>f, <2>1, <3>1, ZenonT(60)
  <2>4. CASE owned = {o} /\ o \in inFlightMessages
    <3>1. inFlightMessages' = inFlightMessages \ {o} /\ scan'.pc = "popped" /\ scan'.obj = o
      BY <1>d, <2>1, <2>4, ZenonT(60)
    <3>2. /\ IsFiniteSet(inFlightMessages')
          /\ \A d : /\ clientID[o] = d => Owned(d)' = Owned(d) - 1
                    /\ clientID[o] # d => Owned(d)' = Owned(d)
      BY <1>0, <1>a, <2>4, <3>1, OwnedRemove, ZenonT(60)
    <3>3. \A d : /\ ScanPart(d) = 0
                 /\ clientID[o] = d => ScanPart(d)' = 1
                 /\ clientID[o] # d => ScanPart(d)' = 0
      BY <1>a, <2>1, <3>1, ZenonT(60) DEF ScanPart, One
    <3>4. ASSUME NEW d \in clients PROVE Balanced(d)'
      <4>1. CASE clientID[o] = d
        BY <1>b, <1>e, <2>1, <3>2, <3>3, <4>1 DEF Balanced
      <4>2. CASE clientID[o] # d
        BY <1>b, <1>e, <2>1, <3>2, <3>3, <4>2, ZenonT(60) DEF Balanced
      <4> QED
        BY <4>1, <4>2, ZenonT(60)
    <3> QED
      BY <1>a, <1>c, <3>2, <3>4, ZenonT(60) DEF Counts
  <2> QED
    BY <2>2, <2>3, <2>4, ZenonT(60)
<1>3. CASE ScanTimedOut
  <2> DEFINE k == clientID[scan.obj]
  <2>1. /\ scan.pc = "popped" /\ inFlightMessages' = inFlightMessages /\ scan'.pc = "put"
        /\ inFlightCount' = IF k \in clients THEN [inFlightCount EXCEPT ![k] = @ - 1] ELSE inFlightCount
    <3>1. scan.pc = "popped" /\ scan' = [scan EXCEPT !.pc = "put"] /\ inFlightMessages' = inFlightMessages
      BY <1>3, ZenonT(60) DEF ScanTimedOut, flightVars
    <3>2. inFlightCount' = IF k \in clients THEN [inFlightCount EXCEPT ![k] = @ - 1] ELSE inFlightCount
      BY <1>3, ZenonT(60) DEF ScanTimedOut
    <3> QED
      BY <1>d, <3>1, <3>2
  <2>2. \A d : /\ Owned(d)' = Owned(d) /\ ScanPart(d)' = 0
               /\ k = d => ScanPart(d) = 1
               /\ k # d => ScanPart(d) = 0
    <3>1. \A d : Owned(d)' = Owned(d)
      BY <1>a, <2>1, ZenonT(60) DEF Owned
    <3> QED
      BY <2>1, <3>1 DEF ScanPart, One
  <2>3. ASSUME NEW d \in clients PROVE Balanced(d)'
    <3>1. CASE k = d
      <4>1. inFlightCount'[d] = inFlightCount[d] - 1
        BY <1>0, <2>1, <3>1, ZenonT(60)
      <4> QED
        BY <1>b, <1>e, <2>2, <3>1, <4>1, Rebalance, ZenonT(60)
    <3>2. CASE k # d
      <4>1. inFlightCount'[d] = inFlightCount[d]
        BY <1>0, <2>1, <3>2
      <4> QED
        BY <1>b, <1>e, <2>2, <3>2, <4>1, ZenonT(60) DEF Balanced
    <3> QED
      BY <3>1, <3>2, ZenonT(60)
  <2> QED
    BY <1>0, <1>a, <1>c, <2>1, <2>3, ZenonT(60) DEF Counts
<1> QED
  BY <1>1, <1>2, <1>3, ZenonT(60) DEF ScanNext

\* A failed write of the disk queue is never forgotten.
LEMMA FaultsGrow == ASSUME TypeOK, [Next]_vars PROVE faults' = faults \/ faults' = faults + 1
<1> USE DEF queueVars
<1>0. ASSUME NEW S, writeMessageToBackend(S) PROVE faults' = faults \/ faults' = faults + 1
  BY <1>0, ZenonT(60) DEF writeMessageToBackend
<1>a. ASSUME NEW o, put(o) PROVE faults' = faults \/ faults' = faults + 1
  BY <1>0, <1>a, ZenonT(60) DEF put
<1>1. CASE (\E m \in Msgs : PutMessage(m) \/ PutMessageDeferred(m)) \/ PutAddToDeferredPQ
  BY <1>1, <1>a, ZenonT(60) DEF PutMessage, PutMessageDeferred, PutAddToDeferredPQ
<1>2. ASSUME NEW c \in Clients, AddClient(c) \/ RemoveClient(c) \/ PumpNext(c) PROVE faults' = faults
  BY <1>2, ZenonT(60) DEF AddClient, RemoveClient, PumpNext, PumpRecvMemory, PumpRecvBackend,
     PumpSample, PumpPush, PumpAdd, PumpSend, PumpExit
<1>3. ASSUME NEW c \in Clients, IoNext(c) PROVE faults' = faults \/ faults' = faults + 1
  BY <1>3, <1>a, ZenonT(60) DEF IoNext, popInFlightMessage, IoRemovePQ, RequeueNow, RequeueDeferred,
     RequeueAddToDeferredPQ, TouchPush, TouchAdd, IoCount
<1>4. CASE ScanNext
  BY <1>4, <1>a, ZenonT(60) DEF ScanNext, ScanShift, ScanShiftDeferred, ScanReadClient, ScanPop,
     ScanTimedOut, ScanPut, ScanPopDeferred
<1>5. CASE AdminNext
  BY <1>5, <1>0, ZenonT(60) DEF AdminNext, EmptyInFlight, EmptyDeferred, EmptyClients, EmptyMemory,
     EmptyBackend, exit, FlushMemory, FlushInFlight, FlushDeferred
<1>6. CASE UNCHANGED vars
  BY <1>6, ZenonT(60) DEF vars
<1> QED
  BY <1>1, <1>2, <1>3, <1>4, <1>5, <1>6, ZenonT(60) DEF Next

LEMMA NextCount ==
  ASSUME Sizes, MaxEmpty = 0, ConsInv, FlightInv, InMemory, NewInv, CountInv, [Next]_vars
  PROVE  CountInv'
<1> SUFFICES ASSUME ~exitFlag', faults' = 0 PROVE Counts'
  BY DEF CountInv
<1>0. /\ Open /\ ~exitFlag /\ ~AdminNext
      /\ \A c \in Clients : ~PumpRecvBackend(c)
  BY OpenSteps
<1>a. faults = 0 /\ faults' = faults
  <2>1. faults \in Nat
    BY <1>0, ChannelConstants DEF Open, TypeOK
  <2>2. faults' = faults \/ faults' = faults + 1
    BY <1>0, FaultsGrow DEF Open
  <2> QED
    BY <2>1, <2>2
<1>b. Counts
  BY <1>0, <1>a, ZenonT(60) DEF CountInv
<1>1. ASSUME NEW m \in Msgs, PutMessage(m) \/ PutMessageDeferred(m) PROVE Counts'
  BY <1>0, <1>b, <1>1, CountStill, ZenonT(60)
<1>2. CASE PutAddToDeferredPQ
  BY <1>0, <1>b, <1>2, CountStill
<1>3. ASSUME NEW c \in Clients, AddClient(c) \/ RemoveClient(c) PROVE Counts'
  BY <1>0, <1>b, <1>3, CountStill, CountSubscribe, ZenonT(60)
<1>4. ASSUME NEW c \in Clients, PumpNext(c) PROVE Counts'
  BY <1>0, <1>b, <1>4, CountStill, CountPump, ZenonT(60) DEF PumpNext
<1>5. ASSUME NEW c \in Clients, IoNext(c) PROVE Counts'
  BY <1>0, <1>a, <1>b, <1>5, CountIo, ZenonT(60)
<1>6. CASE ScanNext
  BY <1>0, <1>b, <1>6, CountScan, ZenonT(60)
<1>7. CASE UNCHANGED vars
  <2>1. UNCHANGED <<inFlightMessages, clientID, inFlightCount, clients, pump, io, scan>>
    BY <1>7, ZenonT(60) DEF vars, flightVars, clientVars, threadVars
  <2> QED
    BY <1>b, <2>1, CountKept DEF PumpPart, IoPart, ScanPart, IoHolds
<1> QED
  BY <1>0, <1>1, <1>2, <1>3, <1>4, <1>5, <1>6, <1>7, ZenonT(60) DEF Next

LEMMA InitCount == ASSUME Sizes, Init PROVE NewInv /\ CountInv
<1>1. NewInv
  <2>1. /\ clients = {} /\ pump = [c \in Clients |-> Idle] /\ io = [c \in Clients |-> IoIdle]
        /\ inFlightCount = [c \in Clients |-> 0] /\ clientID = [o \in Obj |-> NoClient]
    BY ZenonT(60) DEF Init
  <2> QED
    BY <2>1, ChannelConstants DEF NewInv
<1>2. IsFiniteSet(inFlightMessages)
  BY ZenonT(60) DEF Init, Sizes
<1>3. OwnerInv
  <2>1. \A c \in Clients : io[c].pc = "idle"
    BY DEF Init, IoIdle
  <2> QED
    BY <2>1, ZenonT(60) DEF OwnerInv, IoHolds
<1> QED
  BY <1>1, <1>2, <1>3, ZenonT(60) DEF Init, CountInv, Counts

-----------------------------------------------------------------------------
FST == INSTANCE FiniteSetTheorems

LEMMA SizesHold == Sizes
<1>a. \A S : IsFiniteSet(S) <=> FST!IsFiniteSet(S)
  BY ZenonT(60) DEF IsFiniteSet, FST!IsFiniteSet
<1>b. \A S : Cardinality(S) = FST!Cardinality(S)
  BY ZenonT(60) DEF Cardinality, FST!Cardinality
<1>1. IsFiniteSet({}) /\ Cardinality({}) = 0
  BY <1>a, <1>b, FST!FS_EmptySet, ZenonT(60)
<1>2. ASSUME NEW S, IsFiniteSet(S) PROVE Cardinality(S) \in Nat
  BY <1>2, <1>a, <1>b, FST!FS_CardinalityType, ZenonT(60)
<1>3. ASSUME NEW S, IsFiniteSet(S), NEW T \in SUBSET S PROVE IsFiniteSet(T)
  BY <1>3, <1>a, FST!FS_Subset, ZenonT(60)
<1>4. ASSUME NEW S, IsFiniteSet(S), NEW x
      PROVE  IsFiniteSet(S \cup {x}) /\ (x \notin S => Cardinality(S \cup {x}) = Cardinality(S) + 1)
  BY <1>4, <1>a, <1>b, FST!FS_AddElement, ZenonT(60)
<1>5. ASSUME NEW S, IsFiniteSet(S), NEW x \in S PROVE Cardinality(S \ {x}) = Cardinality(S) - 1
  BY <1>5, <1>a, <1>b, FST!FS_RemoveElement, ZenonT(60)
<1> QED
  BY <1>1, <1>2, <1>3, <1>4, <1>5, ZenonT(60) DEF Sizes

\* Without Empty, without failing writes and while the memory queue has room, the
\* InFlightCount of every consumer of the channel is the number of messages in flight to it,
\* give or take the operations that are between the map and the counter: no answer that is
\* late, no time-out and no redelivery lets the counter that gates delivery drift.
THEOREM CountersExact ==
  ASSUME MaxEmpty = 0 PROVE Spec /\ []InMemory => []CountExact
<1>1. Init => ConsInv /\ FlightInv /\ NewInv /\ CountInv
  BY InitCons, InitFlight, InitCount, SizesHold, ZenonT(60)
<1>2. ConsInv /\ FlightInv /\ NewInv /\ CountInv /\ InMemory /\ [Next]_vars
        => (ConsInv /\ FlightInv /\ NewInv /\ CountInv)'
  BY NextCons, NextFlight, NextNew, NextCount, SizesHold, ZenonT(60) DEF ConsInv, TypeInv
<1>3. CountInv => CountExact
  BY ZenonT(60) DEF CountInv, Counts, Balanced, PumpPart, IoPart, ScanPart, CountExact
<1> QED
  BY <1>1, <1>2, <1>3, PTL DEF Spec

\* For an ephemeral channel, whose backend keeps nothing, that is all there is to ask:
\* without Empty the scan sees every message in flight and the counters are exact, for
\* every size of the memory queue.
THEOREM EphemeralChannelExact ==
  ASSUME MaxEmpty = 0, Ephemeral PROVE Spec => [](InFlightCovered /\ CountExact)
<1>1. Init => backend = {}
  BY ZenonT(60) DEF Init
<1>2. backend = {} => InMemory
  BY DEF InMemory
<1>3. backend = {} /\ [Next]_vars => (backend = {})'
  BY EphemeralKeepsNothing
<1>4. Spec => []InMemory
  BY <1>1, <1>2, <1>3, PTL DEF Spec
<1> QED
  BY <1>4, InFlightIsSeen, CountersExact, PTL
=============================================================================
