--------------------------- MODULE NsqdTopicProofs ---------------------------
(***************************************************************************)
(* A topic copies each message to each of its channels, once, whatever is  *)
(* published, created, deleted, paused or closed meanwhile.                *)
(*                                                                         *)
(* The properties of NsqdTopic speak of the queues and of the channels;    *)
(* they are inductive only together with what publishers, callers and the  *)
(* pump know: a message belongs to one call until it is put, a channel's   *)
(* generation is never used again, and a pump that reads the queues works  *)
(* from a list that has every established channel.                         *)
(***************************************************************************)
EXTENDS NsqdTopic, TLAPS, FiniteSetTheorems

-----------------------------------------------------------------------------
(* The variables keep their types, and the memory queue its capacity.      *)

(* What the types rest on: the pump delivers a message, and a call that    *)
(* tells the pump of a channel has one.                                    *)
HandOK == pump = "deliver" => msg \in Msgs
CallOK ==
    \A k \in Callers : caller[k].pc \in {"created", "delete", "deleted"}
                            => caller[k].chan \in Chan
TypeInv == TypeOK /\ IsFiniteSet(memoryMsgChan) /\ HandOK /\ CallOK

(* Everything a step of the topic can be, one disjunct per action.         *)
Steps ==
    \/ \E p \in Publishers, batch \in SUBSET Msgs : PutMessages(p, batch)
    \/ \E p \in Publishers, m \in Msgs : put(p, m)
    \/ \E p \in Publishers, m \in Msgs : putBackend(p, m)
    \/ \E p \in Publishers, m \in Msgs : putFails(p, m)
    \/ Start \/ PumpStart \/ PumpRefresh \/ PumpGate \/ PumpDelivered \/ PumpExit
    \/ \E m \in Msgs : PumpTakeMemory(m)
    \/ \E m \in Msgs : PumpTakeBackend(m)
    \/ \E c \in Chan : PumpDeliver(c)
    \/ \E k \in Callers, n \in Names : GetChannel(k, n)
    \/ \E k \in Callers, n \in Names : DeleteExistingChannel(k, n)
    \/ \E k \in Callers, pause \in BOOLEAN : doPause(k, pause)
    \/ \E k \in Callers : ChannelDelete(k)
    \/ \E k \in Callers : EmptyMemory(k)
    \/ \E k \in Callers : EmptyBackend(k)
    \/ \E k \in Callers : Told(k)
    \/ \E k \in Callers : ToldNobody(k)
    \/ \E isDelete \in BOOLEAN : ExitFlag(isDelete)
    \/ ExitCloseChan \/ ExitChannels \/ ExitEmpty
    \/ \E m \in Msgs : ExitFlush(m)
    \/ ExitFlushed \/ ExitBackend
    \/ UNCHANGED vars

(* [Next]_vars, taken apart.                                               *)
LEMMA StepCases == [Next]_vars => Steps
  BY DEF Next, Publish, messagePump, Call, Exit, Steps

(* Taking messages out of the memory queue keeps it finite and small.      *)
LEMMA Shrinks ==
  ASSUME TypeInv, NEW S \in SUBSET memoryMsgChan
  PROVE  IsFiniteSet(S) /\ Cardinality(S) <= MemQueueSize
  <1>1. IsFiniteSet(S) /\ Cardinality(S) <= Cardinality(memoryMsgChan)
    BY FS_Subset DEF TypeInv
  <1>2. Cardinality(S) \in Nat /\ Cardinality(memoryMsgChan) \in Nat
    BY <1>1, FS_CardinalityType DEF TypeInv
  <1> QED BY <1>1, <1>2, TopicConstants DEF TypeInv, TypeOK

(* The memory queue: put looks at len(memoryMsgChan) before it sends.      *)
LEMMA MemoryStep ==
  ASSUME TypeInv, [Next]_vars
  PROVE  /\ memoryMsgChan' \subseteq Msgs /\ IsFiniteSet(memoryMsgChan')
         /\ Cardinality(memoryMsgChan') <= MemQueueSize
  <1>1. memoryMsgChan \subseteq Msgs
    BY DEF TypeInv, TypeOK
  <1>2. ASSUME NEW p \in Publishers, NEW m \in Msgs, put(p, m)
        PROVE  /\ memoryMsgChan' \subseteq Msgs /\ IsFiniteSet(memoryMsgChan')
               /\ Cardinality(memoryMsgChan') <= MemQueueSize
    <2>1. /\ Cardinality(memoryMsgChan) < MemQueueSize
          /\ memoryMsgChan' = memoryMsgChan \cup {m}
      BY <1>2 DEF put
    <2>2. /\ IsFiniteSet(memoryMsgChan')
          /\ \/ Cardinality(memoryMsgChan') = Cardinality(memoryMsgChan)
             \/ Cardinality(memoryMsgChan') = Cardinality(memoryMsgChan) + 1
      BY <2>1, FS_AddElement DEF TypeInv
    <2>3. Cardinality(memoryMsgChan) \in Nat
      BY FS_CardinalityType DEF TypeInv
    <2> QED BY <1>1, <2>1, <2>2, <2>3, TopicConstants
  <1>3. CASE memoryMsgChan' \subseteq memoryMsgChan
    BY <1>1, <1>3, Shrinks, ZenonT(60)
  <1>4. (\E p \in Publishers, m \in Msgs : put(p, m))
            \/ memoryMsgChan' \subseteq memoryMsgChan
    BY StepCases, ZenonT(60)
    DEF Steps, vars, queues, PutMessages, putBackend, putFails, Start, PumpStart,
        PumpRefresh, PumpGate, PumpDelivered, PumpExit, PumpTakeMemory,
        PumpTakeBackend, PumpDeliver, GetChannel, DeleteExistingChannel, doPause,
        ChannelDelete, EmptyMemory, EmptyBackend, Told, ToldNobody, ExitFlag,
        ExitCloseChan, ExitChannels, ExitEmpty, ExitFlush, ExitFlushed, ExitBackend
  <1> QED BY <1>2, <1>3, <1>4, ZenonT(60)

(* What PutOk leaves of a call is a call.                                  *)
LEMMA PutOkType ==
  ASSUME TypeOK, NEW p \in Publishers, NEW m \in Msgs, PutOk(p, m)
  PROVE  /\ pub' \in [Publishers -> [batch : SUBSET Msgs, left : SUBSET Msgs]]
         /\ acked' \subseteq Msgs
  <1>1. pub \in [Publishers -> [batch : SUBSET Msgs, left : SUBSET Msgs]]
    BY ZenonT(60) DEF TypeOK
  <1>2. NoCall \in [batch : SUBSET Msgs, left : SUBSET Msgs]
    BY DEF NoCall
  <1>3. [batch |-> pub[p].batch, left |-> pub[p].left \ {m}]
            \in [batch : SUBSET Msgs, left : SUBSET Msgs]
    BY <1>1, ZenonT(60)
  <1>4. pub' \in [Publishers -> [batch : SUBSET Msgs, left : SUBSET Msgs]]
    BY <1>1, <1>2, <1>3, ZenonT(60) DEF PutOk
  <1>5. acked' \subseteq Msgs
    BY <1>1, ZenonT(60) DEF PutOk, TypeOK
  <1> QED BY <1>4, <1>5, ZenonT(60)

(* The pump delivers what it took from a queue.                            *)
LEMMA HandStep == TypeInv /\ [Next]_vars => HandOK'
  BY StepCases, ZenonT(60)
  DEF TypeInv, HandOK, Steps, vars, pumpVars, PutMessages, put, putBackend, putFails,
      Start, PumpStart, PumpRefresh, PumpGate, PumpDelivered, PumpExit, PumpTakeMemory,
      PumpTakeBackend, PumpTake, PumpDeliver, GetChannel, DeleteExistingChannel, doPause,
      ChannelDelete, EmptyMemory, EmptyBackend, Told, ToldNobody, ExitFlag,
      ExitCloseChan, ExitChannels, ExitEmpty, ExitFlush, ExitFlushed, ExitBackend

(* GetChannel and DeleteExistingChannel note the channel they are about.   *)
LEMMA CallStep ==
  ASSUME TypeInv, [Next]_vars
  PROVE  CallOK'
  <1> USE DEF TypeInv, CallOK
  <1>1. caller \in [Callers ->
           [pc : {"idle", "created", "delete", "deleted", "paused", "emptied"},
            chan : Chan \cup {NoChan}, last : BOOLEAN]]
    BY ZenonT(60) DEF TypeOK
  <1>2. ASSUME NEW k \in Callers, NEW n \in Names, GetChannel(k, n) PROVE CallOK'
    <2>1. made[n] + 1 \in 1 .. MaxGen
      BY <1>2, TopicConstants DEF GetChannel, TypeOK
    <2> QED BY <1>1, <1>2, <2>1, ZenonT(60) DEF GetChannel, Chan
  <1>3. ASSUME NEW k \in Callers, NEW n \in Names, DeleteExistingChannel(k, n) PROVE CallOK'
    <2>1. channelMap[n] \in 1 .. MaxGen
      BY <1>3, TopicConstants DEF DeleteExistingChannel, TypeOK
    <2> QED BY <1>1, <1>3, <2>1, ZenonT(60) DEF DeleteExistingChannel, Chan
  <1>4. ASSUME NEW k \in Callers,
               \/ ChannelDelete(k) \/ EmptyMemory(k) \/ EmptyBackend(k)
               \/ Told(k) \/ ToldNobody(k) \/ \E pause \in BOOLEAN : doPause(k, pause)
        PROVE  CallOK'
    BY <1>1, <1>4 DEF ChannelDelete, EmptyMemory, EmptyBackend, Told, ToldNobody,
                      doPause, Return, Idle
  <1>5. CASE UNCHANGED caller
    BY <1>5, ZenonT(60)
  <1>6. \/ UNCHANGED caller
        \/ \E k \in Callers :
             \/ \E n \in Names : GetChannel(k, n) \/ DeleteExistingChannel(k, n)
             \/ ChannelDelete(k) \/ EmptyMemory(k) \/ EmptyBackend(k)
             \/ Told(k) \/ ToldNobody(k) \/ \E pause \in BOOLEAN : doPause(k, pause)
    BY StepCases, ZenonT(60)
    DEF Steps, vars, PutMessages, put, putBackend, putFails, Start, PumpStart, PumpRefresh,
        PumpGate, PumpDelivered, PumpExit, PumpTakeMemory, PumpTakeBackend, PumpTake,
        PumpDeliver, ExitFlag, ExitCloseChan, ExitChannels, ExitEmpty, ExitFlush,
        ExitFlushed, ExitBackend
  <1> QED BY <1>2, <1>3, <1>4, <1>5, <1>6

(* A caller that changes channelMap leaves the rest of the topic alone.    *)
LEMMA CallerTypes ==
  ASSUME TypeOK,
         channelMap' \in [Names -> 0 .. MaxGen], made' \in [Names -> 0 .. MaxGen],
         caller' \in [Callers ->
             [pc : {"idle", "created", "delete", "deleted", "paused", "emptied"},
              chan : Chan \cup {NoChan}, last : BOOLEAN]],
         UNCHANGED <<queues, closed, established, paused, startChan, exitVars, pumpVars,
                     pubVars, delivery>>
  PROVE  TypeOK'
  BY DEF TypeOK, queues, exitVars, pumpVars, pubVars, delivery

(* Every action keeps the types.                                           *)
LEMMA TypeStep ==
  ASSUME TypeInv, [Next]_vars
  PROVE  TypeInv'
  <1>1. /\ memoryMsgChan' \subseteq Msgs /\ IsFiniteSet(memoryMsgChan')
        /\ Cardinality(memoryMsgChan') <= MemQueueSize
    BY MemoryStep, ZenonT(60)
  <1>2. TypeOK /\ HandOK /\ CallOK
    BY DEF TypeInv
  <1> SUFFICES TypeOK'
    BY <1>1, HandStep, CallStep, ZenonT(60) DEF TypeInv
  <1> USE <1>1, <1>2 DEF TypeOK, queues, channels, exitVars, pumpVars, pubVars, delivery
  <1>3. ASSUME NEW p \in Publishers, NEW batch \in SUBSET Msgs, PutMessages(p, batch) PROVE TypeOK'
    BY <1>3 DEF PutMessages
  <1>4. ASSUME NEW p \in Publishers, NEW m \in Msgs, put(p, m) PROVE TypeOK'
    <2>1. pub' \in [Publishers -> [batch : SUBSET Msgs, left : SUBSET Msgs]]
          /\ acked' \subseteq Msgs
      BY <1>4, PutOkType, ZenonT(60) DEF put
    <2>2. owed' \in [Msgs -> SUBSET Chan]
      BY <1>4, ZenonT(60) DEF put
    <2> QED BY <1>4, <2>1, <2>2 DEF put, PutOk
  <1>5. ASSUME NEW p \in Publishers, NEW m \in Msgs, putBackend(p, m) PROVE TypeOK'
    <2>1. pub' \in [Publishers -> [batch : SUBSET Msgs, left : SUBSET Msgs]]
          /\ acked' \subseteq Msgs
      BY <1>5, PutOkType, ZenonT(60) DEF putBackend
    <2>2. owed' \in [Msgs -> SUBSET Chan] /\ backend' \subseteq Msgs
      BY <1>5 DEF putBackend
    <2> QED BY <1>5, <2>1, <2>2 DEF putBackend, PutOk
  <1>6. ASSUME NEW p \in Publishers, NEW m \in Msgs, putFails(p, m) PROVE TypeOK'
    BY <1>6 DEF putFails, NoCall
  <1>7. CASE Start
    BY <1>7 DEF Start
  <1>8. CASE PumpStart
    BY <1>8 DEF PumpStart
  <1>9. CASE PumpRefresh
    BY <1>9 DEF PumpRefresh, Live
  <1>10. CASE PumpGate
    BY <1>10 DEF PumpGate
  <1>11. CASE PumpDelivered
    BY <1>11, ZenonT(60) DEF PumpDelivered
  <1>12. CASE PumpExit
    BY <1>12 DEF PumpExit
  <1>13. ASSUME NEW m \in Msgs, PumpTakeMemory(m) PROVE TypeOK'
    BY <1>13 DEF PumpTakeMemory, PumpTake
  <1>14. ASSUME NEW m \in Msgs, PumpTakeBackend(m) PROVE TypeOK'
    BY <1>14, ZenonT(60) DEF PumpTakeBackend, PumpTake
  <1>15. ASSUME NEW c \in Chan, PumpDeliver(c) PROVE TypeOK'
    <2>1. got' \in [Chan -> SUBSET Msgs]
      BY <1>15 DEF PumpDeliver, HandOK
    <2>2. owed' \in [Msgs -> SUBSET Chan]
      BY <1>15, ZenonT(60) DEF PumpDeliver
    <2> QED BY <1>15, <2>1, <2>2 DEF PumpDeliver
  <1>16. ASSUME NEW k \in Callers, NEW n \in Names, GetChannel(k, n) PROVE TypeOK'
    <2>1. made[n] + 1 \in 1 .. MaxGen
      BY <1>16, TopicConstants DEF GetChannel
    <2>2. /\ made' \in [Names -> 0 .. MaxGen]
          /\ channelMap' \in [Names -> 0 .. MaxGen]
      BY <1>16, <2>1 DEF GetChannel
    <2>3. caller' \in [Callers ->
             [pc : {"idle", "created", "delete", "deleted", "paused", "emptied"},
              chan : Chan \cup {NoChan}, last : BOOLEAN]]
      BY <1>16, <2>1, ZenonT(60) DEF GetChannel, Chan
    <2>4. UNCHANGED <<queues, closed, established, paused, startChan, exitVars, pumpVars, pubVars, delivery>>
      BY <1>16, ZenonT(60) DEF GetChannel
    <2> HIDE DEF TypeOK
    <2> QED BY <2>2, <2>3, <2>4, CallerTypes, ZenonT(60)
  <1>17. ASSUME NEW k \in Callers, NEW n \in Names, DeleteExistingChannel(k, n) PROVE TypeOK'
    <2>1. channelMap[n] \in 1 .. MaxGen
      BY <1>17, TopicConstants DEF DeleteExistingChannel
    <2>2. channelMap' \in [Names -> 0 .. MaxGen]
      BY <1>17, TopicConstants DEF DeleteExistingChannel
    <2>3. (\A x \in Names \ {n} : channelMap[x] = 0) \in BOOLEAN
      BY ZenonT(60)
    <2>4. caller' \in [Callers ->
             [pc : {"idle", "created", "delete", "deleted", "paused", "emptied"},
              chan : Chan \cup {NoChan}, last : BOOLEAN]]
      BY <1>17, <2>1, <2>3, ZenonT(60) DEF DeleteExistingChannel, Chan
    <2>5. UNCHANGED <<queues, closed, established, paused, startChan, exitVars, pumpVars, pubVars, delivery>>
      BY <1>17, ZenonT(60) DEF DeleteExistingChannel
    <2>6. made' \in [Names -> 0 .. MaxGen]
      BY <1>17, ZenonT(60) DEF DeleteExistingChannel
    <2> HIDE DEF TypeOK
    <2> QED BY <2>2, <2>4, <2>5, <2>6, CallerTypes, ZenonT(60)
  <1>18. ASSUME NEW k \in Callers, NEW pause \in BOOLEAN, doPause(k, pause) PROVE TypeOK'
    BY <1>18, SMTT(60) DEF doPause
  <1>19. ASSUME NEW k \in Callers, ChannelDelete(k) PROVE TypeOK'
    <2>1. caller' \in [Callers ->
             [pc : {"idle", "created", "delete", "deleted", "paused", "emptied"},
              chan : Chan \cup {NoChan}, last : BOOLEAN]]
      BY <1>19, ZenonT(60) DEF ChannelDelete
    <2>2. closed' \subseteq Chan
      BY <1>19 DEF ChannelDelete, CallOK
    <2> QED BY <1>19, <2>1, <2>2 DEF ChannelDelete
  <1>20. ASSUME NEW k \in Callers, EmptyMemory(k) PROVE TypeOK'
    BY <1>20 DEF EmptyMemory, Discard
  <1>21. ASSUME NEW k \in Callers, EmptyBackend(k) PROVE TypeOK'
    BY <1>21 DEF EmptyBackend, Discard, Idle
  <1>22. ASSUME NEW k \in Callers, Told(k) PROVE TypeOK'
    <2>1. caller' \in [Callers ->
             [pc : {"idle", "created", "delete", "deleted", "paused", "emptied"},
              chan : Chan \cup {NoChan}, last : BOOLEAN]]
      BY <1>22, ZenonT(60) DEF Told, Return, Idle
    <2>2. established' \subseteq Chan
      BY <1>22 DEF Told, CallOK
    <2>3. deleter' \in BOOLEAN
      BY <1>22, ZenonT(60) DEF Told, Return
    <2>4. pump' \in {"prestart", "refresh", "gate", "select", "deliver", "exited"}
      BY <1>22, ZenonT(60) DEF Told
    <2>5. UNCHANGED <<exit, deleted, ackedBefore, queues, channelMap, made, closed, paused, startChan, msg,
                      msgDeferred, todo, chans, on, pubVars, delivery>>
      BY <1>22, ZenonT(60) DEF Told, Return
    <2> QED BY <2>1, <2>2, <2>3, <2>4, <2>5, ZenonT(60)
  <1>23. ASSUME NEW k \in Callers, ToldNobody(k) PROVE TypeOK'
    BY <1>23 DEF ToldNobody, Return, Idle
  <1>24. ASSUME NEW isDelete \in BOOLEAN, ExitFlag(isDelete) PROVE TypeOK'
    BY <1>24 DEF ExitFlag
  <1>25. CASE ExitCloseChan
    BY <1>25 DEF ExitCloseChan
  <1>26. CASE ExitChannels
    <2>1. channelMap' \in [Names -> 0 .. MaxGen]
      BY <1>26, TopicConstants DEF ExitChannels
    <2>2. closed' \subseteq Chan
      BY <1>26, ZenonT(60) DEF ExitChannels, Live
    <2> QED BY <1>26, <2>1, <2>2, ZenonT(60) DEF ExitChannels
  <1>27. CASE ExitEmpty
    BY <1>27, ZenonT(60) DEF ExitEmpty, Discard
  <1>28. ASSUME NEW m \in Msgs, ExitFlush(m) PROVE TypeOK'
    BY <1>28 DEF ExitFlush, Discard
  <1>29. CASE ExitFlushed
    BY <1>29 DEF ExitFlushed
  <1>30. CASE ExitBackend
    BY <1>30, ZenonT(60) DEF ExitBackend
  <1>31. CASE UNCHANGED vars
    BY <1>31 DEF vars
  <1> QED
    BY StepCases, <1>3, <1>4, <1>5, <1>6, <1>7, <1>8, <1>9, <1>10, <1>11, <1>12, <1>13,
       <1>14, <1>15, <1>16, <1>17, <1>18, <1>19, <1>20, <1>21, <1>22, <1>23, <1>24, <1>25,
       <1>26, <1>27, <1>28, <1>29, <1>30, <1>31, ZenonT(60) DEF Steps

(* A new topic: NewTopic makes empty queues and no channel.                *)
LEMMA TypeInit == Init => TypeInv
  <1> SUFFICES ASSUME Init PROVE TypeInv
    OBVIOUS
  <1>1. memoryMsgChan = {} /\ IsFiniteSet(memoryMsgChan) /\ Cardinality(memoryMsgChan) = 0
    BY FS_EmptySet DEF Init
  <1>2. TypeOK
    <2>1. /\ backendOpen \in BOOLEAN /\ paused \in BOOLEAN /\ deleted \in BOOLEAN
          /\ deleter \in BOOLEAN /\ msgDeferred \in BOOLEAN /\ on \in BOOLEAN
      BY ZenonT(60) DEF Init
    <2>2. /\ pub \in [Publishers -> [batch : SUBSET Msgs, left : SUBSET Msgs]]
          /\ caller \in [Callers ->
               [pc : {"idle", "created", "delete", "deleted", "paused", "emptied"},
                chan : Chan \cup {NoChan}, last : BOOLEAN]]
      BY ZenonT(60) DEF Init, Idle, NoCall
    <2>3. /\ channelMap \in [Names -> 0 .. MaxGen] /\ made \in [Names -> 0 .. MaxGen]
          /\ got \in [Chan -> SUBSET Msgs] /\ owed \in [Msgs -> SUBSET Chan]
      BY TopicConstants DEF Init
    <2> QED BY <1>1, <2>1, <2>2, <2>3, TopicConstants DEF Init, TypeOK
  <1>3. HandOK /\ CallOK
    BY DEF Init, HandOK, CallOK, Idle
  <1> QED BY <1>1, <1>2, <1>3 DEF TypeInv

(* The variables of a topic keep their types, and put never sends to a     *)
(* full memoryMsgChan, however many publishers call it at once.            *)
THEOREM TopicTypes == Spec => []TypeOK
  <1>1. TypeInv => TypeOK
    BY ZenonT(60) DEF TypeInv
  <1> QED BY TypeInit, TypeStep, <1>1, PTL DEF Spec

-----------------------------------------------------------------------------
(* The safety properties.                                                  *)

(* A message belongs to the one call that publishes it, and is not         *)
(* acknowledged before the call ends.                                      *)
CallsInv ==
    /\ acked \subseteq published
    /\ \A p \in Publishers : /\ pub[p].left \subseteq pub[p].batch
                             /\ pub[p].batch \subseteq published \ acked
    /\ \A p, q \in Publishers : p # q => pub[p].batch \cap pub[q].batch = {}

(* A message is with its publisher, in one of the queues or past them.     *)
FlowInv ==
    /\ memoryMsgChan \cup backend \subseteq published
    /\ memoryMsgChan \cap backend = {}
    /\ pump = "deliver" => msg \in published
    /\ \A c \in Chan : got[c] \subseteq published
    /\ \A p \in Publishers : \A m \in pub[p].left :
         /\ m \notin memoryMsgChan \cup backend
         /\ pump = "deliver" => msg # m
         /\ \A c \in Chan : m \notin got[c]
    /\ NotTwice

(* What exit found acknowledged has left the memory queue when it is       *)
(* flushed, and what is put later was not acknowledged then.               *)
CloseInv ==
    /\ ackedBefore \subseteq acked
    /\ exit \in {"close", "done"} /\ ~deleted => ackedBefore \cap memoryMsgChan = {}

(* PauseHolds also while the pump delivers, after which it selects again.  *)
PauseInv ==
    /\ paused
    /\ pump \in {"select", "deliver"}
    /\ \A k \in Callers : caller[k].pc # "paused"
    => ~on \/ exitChanClosed

(* The channels there have been: a generation above made is of the future. *)
Made == {c \in Chan : c[2] <= made[c[1]]}
ChanInv ==
    /\ \A n \in Names : channelMap[n] <= made[n]
    /\ established \subseteq Made /\ closed \subseteq Made
    /\ \A k \in Callers :
         /\ caller[k].pc \in {"created", "delete"} => caller[k].chan \in Made
         /\ caller[k].pc = "delete" => caller[k].chan \notin Live
    /\ pump # "exited" => closed \cap Live = {}
    /\ pump \in {"gate", "select", "deliver"} => established \cap Live \subseteq chans

OwedInv ==
    /\ \A m \in Msgs : owed[m] \subseteq established
    /\ OwedReached

TopicInv == CallsInv /\ FlowInv /\ CloseInv /\ PauseInv /\ ChanInv /\ OwedInv

-----------------------------------------------------------------------------
(* PutMessages: the call gets messages nobody published before.            *)
LEMMA CallsStep ==
  ASSUME TypeInv, CallsInv, [Next]_vars
  PROVE  CallsInv'
  <1>1. /\ pub \in [Publishers -> [batch : SUBSET Msgs, left : SUBSET Msgs]]
        /\ published \subseteq Msgs
    BY ZenonT(60) DEF TypeInv, TypeOK
  <1>2. ASSUME NEW p \in Publishers, NEW batch \in SUBSET Msgs, PutMessages(p, batch)
        PROVE  CallsInv'
    <2>1. /\ batch \cap published = {} /\ published' = published \cup batch
          /\ acked' = acked
          /\ \/ pub' = pub
             \/ pub' = [pub EXCEPT ![p] = [batch |-> batch, left |-> batch]]
      BY <1>2, ZenonT(60) DEF PutMessages
    <2>2. CASE pub' = pub
      BY <2>1, <2>2, ZenonT(60) DEF CallsInv
    <2>3. CASE pub' = [pub EXCEPT ![p] = [batch |-> batch, left |-> batch]]
      <3>1. \A q \in Publishers : pub'[q] = IF q = p THEN [batch |-> batch, left |-> batch]
                                            ELSE pub[q]
        BY <1>1, <2>3
      <3> QED BY <2>1, <3>1 DEF CallsInv
    <2> QED BY <2>1, <2>2, <2>3, ZenonT(60)
  <1>3. ASSUME NEW p \in Publishers, NEW m \in Msgs, PutOk(p, m), m \in pub[p].left,
               UNCHANGED published
        PROVE  CallsInv'
    <2>1. \A q \in Publishers :
            pub'[q] = IF q # p THEN pub[q]
                      ELSE IF pub[p].left = {m} THEN NoCall
                      ELSE [batch |-> pub[p].batch, left |-> pub[p].left \ {m}]
      BY <1>1, <1>3, ZenonT(60) DEF PutOk
    <2>2. acked' = IF pub[p].left = {m} THEN acked \cup pub[p].batch ELSE acked
      BY <1>3, ZenonT(60) DEF PutOk
    <2>3. NoCall.batch = {} /\ NoCall.left = {}
      BY ZenonT(60) DEF NoCall
    <2>4. CASE pub[p].left = {m}
      BY <1>1, <1>3, <2>1, <2>2, <2>3, <2>4, ZenonT(60) DEF CallsInv
    <2>5. CASE pub[p].left # {m}
      BY <1>1, <1>3, <2>1, <2>2, <2>5 DEF CallsInv
    <2> QED BY <2>4, <2>5, ZenonT(60)
  <1>4. ASSUME NEW p \in Publishers, NEW m \in Msgs, putFails(p, m)
        PROVE  CallsInv'
    <2>1. /\ \A q \in Publishers : pub'[q] = IF q = p THEN NoCall ELSE pub[q]
          /\ UNCHANGED <<published, acked>>
      BY <1>1, <1>4, ZenonT(60) DEF putFails
    <2>2. NoCall.batch = {} /\ NoCall.left = {}
      BY DEF NoCall
    <2> QED BY <2>1, <2>2, ZenonT(60) DEF CallsInv
  <1>5. CASE UNCHANGED pubVars
    BY <1>5 DEF pubVars, CallsInv
  <1>6. ASSUME NEW p \in Publishers, NEW m \in Msgs, put(p, m) \/ putBackend(p, m)
        PROVE  CallsInv'
    BY <1>3, <1>6, ZenonT(60) DEF put, putBackend
  <1>7. \/ \E p \in Publishers, batch \in SUBSET Msgs : PutMessages(p, batch)
        \/ \E p \in Publishers, m \in Msgs : \/ put(p, m) \/ putBackend(p, m)
                                              \/ putFails(p, m)
        \/ UNCHANGED pubVars
    BY StepCases, ZenonT(60)
    DEF Steps, vars, Start, PumpStart, PumpRefresh, PumpGate, PumpDelivered, PumpExit,
        PumpTakeMemory, PumpTakeBackend, PumpTake, PumpDeliver, GetChannel,
        DeleteExistingChannel, doPause, ChannelDelete, EmptyMemory, EmptyBackend, Told,
        ToldNobody, ExitFlag, ExitCloseChan, ExitChannels, ExitEmpty, ExitFlush,
        ExitFlushed, ExitBackend
  <1> QED BY <1>2, <1>4, <1>5, <1>6, <1>7, ZenonT(60)

(* PutOk takes the message from its publisher, and no other has it.        *)
LEMMA PutOkLeft ==
  ASSUME TypeInv, CallsInv, NEW p \in Publishers, NEW m \in Msgs, PutOk(p, m),
         m \in pub[p].left
  PROVE  \A q \in Publishers : pub'[q].left \subseteq pub[q].left /\ m \notin pub'[q].left
  <1>1. pub \in [Publishers -> [batch : SUBSET Msgs, left : SUBSET Msgs]]
    BY ZenonT(60) DEF TypeInv, TypeOK
  <1>2. \A q \in Publishers :
          pub'[q] = IF q # p THEN pub[q]
                    ELSE IF pub[p].left = {m} THEN NoCall
                    ELSE [batch |-> pub[p].batch, left |-> pub[p].left \ {m}]
    BY <1>1, ZenonT(60) DEF PutOk
  <1>3. NoCall.left = {}
    BY ZenonT(60) DEF NoCall
  <1>4. \A q \in Publishers : q # p => m \notin pub[q].left
    BY ZenonT(60) DEF CallsInv
  <1> QED BY <1>2, <1>3, <1>4

(* A step that only takes messages out of the queues.                      *)
LEMMA FlowShrinks ==
  ASSUME FlowInv, memoryMsgChan' \subseteq memoryMsgChan, backend' \subseteq backend,
         UNCHANGED <<got, pub, published>>,
         UNCHANGED <<pump, msg, todo>> \/ pump' # "deliver"
  PROVE  FlowInv'
  BY DEF FlowInv, NotTwice

(* A message moves from its publisher to a queue, to the pump's hand and   *)
(* to the channels.                                                        *)
LEMMA FlowStep ==
  ASSUME TypeInv, CallsInv, FlowInv, [Next]_vars
  PROVE  FlowInv'
  <1>1. /\ pub \in [Publishers -> [batch : SUBSET Msgs, left : SUBSET Msgs]]
        /\ got \in [Chan -> SUBSET Msgs] /\ todo \subseteq Chan /\ chans \subseteq Chan
    BY ZenonT(60) DEF TypeInv, TypeOK
  <1>2. ASSUME NEW p \in Publishers, NEW batch \in SUBSET Msgs, PutMessages(p, batch)
        PROVE  FlowInv'
    <2>1. /\ batch \cap published = {} /\ published' = published \cup batch
          /\ UNCHANGED <<memoryMsgChan, backend, pump, msg, todo, got>>
          /\ \/ pub' = pub
             \/ pub' = [pub EXCEPT ![p] = [batch |-> batch, left |-> batch]]
      BY <1>2, ZenonT(60) DEF PutMessages, queues, pumpVars, delivery
    <2>2. \A q \in Publishers : pub'[q].left = batch \/ pub'[q].left = pub[q].left
      BY <1>1, <2>1
    <2> QED BY <2>1, <2>2, ZenonT(60) DEF FlowInv, NotTwice
  <1>3. ASSUME NEW p \in Publishers, NEW m \in Msgs, put(p, m) \/ putBackend(p, m)
        PROVE  FlowInv'
    <2>1. /\ m \in pub[p].left /\ PutOk(p, m)
          /\ UNCHANGED <<pump, msg, todo, got, published>>
          /\ \/ memoryMsgChan' = memoryMsgChan \cup {m} /\ backend' = backend
             \/ memoryMsgChan' = memoryMsgChan /\ backend' = backend \cup {m}
             \/ memoryMsgChan' = memoryMsgChan /\ backend' = backend
      BY <1>3, ZenonT(60) DEF put, putBackend, PutOk, pumpVars
    <2>2. \A q \in Publishers : pub'[q].left \subseteq pub[q].left /\ m \notin pub'[q].left
      BY <2>1, PutOkLeft, ZenonT(60)
    <2>3. m \in published
      BY <2>1, ZenonT(60) DEF CallsInv
    <2> QED BY <2>1, <2>2, <2>3, ZenonT(60) DEF FlowInv, NotTwice
  <1>4. ASSUME NEW p \in Publishers, NEW m \in Msgs, putFails(p, m)
        PROVE  FlowInv'
    <2>1. /\ UNCHANGED <<memoryMsgChan, backend, pump, msg, todo, got, published>>
          /\ pub' = [pub EXCEPT ![p] = NoCall]
      BY <1>4, ZenonT(60) DEF putFails, queues, pumpVars, delivery
    <2>2. \A q \in Publishers : pub'[q].left \subseteq pub[q].left
      BY <1>1, <2>1, ZenonT(60) DEF NoCall
    <2> QED BY <2>1, <2>2, ZenonT(60) DEF FlowInv, NotTwice
  <1>5. ASSUME NEW m \in Msgs, PumpTakeMemory(m) \/ PumpTakeBackend(m)
        PROVE  FlowInv'
    <2>1. /\ pump' = "deliver" /\ msg' = m /\ todo' = chans
          /\ UNCHANGED <<got, pub, published>>
          /\ m \in memoryMsgChan \cup backend
          /\ memoryMsgChan' \subseteq memoryMsgChan /\ backend' \subseteq backend
      BY <1>5 DEF PumpTakeMemory, PumpTakeBackend, PumpTake, pubVars, delivery
    <2>2. m \notin memoryMsgChan' \cup backend'
      BY <1>5, ZenonT(60) DEF PumpTakeMemory, PumpTakeBackend, FlowInv
    <2> QED BY <1>1, <2>1, <2>2, ZenonT(60) DEF FlowInv, NotTwice
  <1>6. ASSUME NEW c \in Chan, PumpDeliver(c)
        PROVE  FlowInv'
    <2>1. /\ pump = "deliver" /\ c \in todo /\ todo' = todo \ {c}
          /\ UNCHANGED <<memoryMsgChan, backend, pump, msg, pub, published>>
          /\ got' = got \/ got' = [got EXCEPT ![c] = got[c] \cup {msg}]
      BY <1>6 DEF PumpDeliver, queues, pubVars, delivery
    <2>2. \A d \in Chan : got'[d] = got[d] \/ (d = c /\ got'[d] = got[d] \cup {msg})
      BY <1>1, <2>1, ZenonT(60)
    <2> QED BY <1>1, <2>1, <2>2 DEF FlowInv, NotTwice
  <1>7. ASSUME NEW m \in Msgs, ExitFlush(m)
        PROVE  FlowInv'
    <2>1. /\ m \in memoryMsgChan /\ memoryMsgChan' = memoryMsgChan \ {m}
          /\ backend' = backend \/ backend' = backend \cup {m}
          /\ UNCHANGED <<pump, msg, todo, got, pub, published>>
      BY <1>7 DEF ExitFlush, pumpVars, pubVars
    <2> QED BY <2>1, ZenonT(60) DEF FlowInv, NotTwice
  <1>8. \/ \E p \in Publishers, batch \in SUBSET Msgs : PutMessages(p, batch)
        \/ \E p \in Publishers, m \in Msgs : \/ put(p, m) \/ putBackend(p, m)
                                              \/ putFails(p, m)
        \/ \E m \in Msgs : PumpTakeMemory(m) \/ PumpTakeBackend(m) \/ ExitFlush(m)
        \/ \E c \in Chan : PumpDeliver(c)
        \/ /\ memoryMsgChan' \subseteq memoryMsgChan /\ backend' \subseteq backend
           /\ UNCHANGED <<got, pub, published>>
           /\ UNCHANGED <<pump, msg, todo>> \/ pump' # "deliver"
    BY StepCases, ZenonT(60)
    DEF Steps, vars, queues, pumpVars, pubVars, delivery, Start, PumpStart, PumpRefresh,
        PumpGate, PumpDelivered, PumpExit, GetChannel, DeleteExistingChannel, doPause,
        ChannelDelete, EmptyMemory, EmptyBackend, Told, ToldNobody, ExitFlag,
        ExitCloseChan, ExitChannels, ExitEmpty, ExitFlushed, ExitBackend
  <1> QED BY <1>2, <1>3, <1>4, <1>5, <1>6, <1>7, <1>8, FlowShrinks, ZenonT(60)

(* flush leaves the memory queue empty, and only messages whose calls are  *)
(* still under way come into it afterwards.                                *)
LEMMA CloseStep ==
  ASSUME TypeInv, CallsInv, CloseInv, [Next]_vars
  PROVE  CloseInv'
  <1>1. ASSUME NEW p \in Publishers, NEW m \in Msgs, put(p, m) \/ putBackend(p, m)
        PROVE  CloseInv'
    <2>1. /\ m \in pub[p].left /\ UNCHANGED <<ackedBefore, exit, deleted>>
          /\ acked \subseteq acked'
          /\ memoryMsgChan' \subseteq memoryMsgChan \cup {m}
      BY <1>1, ZenonT(60) DEF put, putBackend, PutOk, exitVars
    <2>2. m \notin acked
      BY <2>1, ZenonT(60) DEF CallsInv
    <2> QED BY <2>1, <2>2, ZenonT(60) DEF CloseInv
  <1>2. ASSUME NEW isDelete \in BOOLEAN, ExitFlag(isDelete)
        PROVE  CloseInv'
    BY <1>2, ZenonT(60) DEF ExitFlag, CloseInv, pubVars
  <1>3. CASE ExitCloseChan \/ ExitChannels \/ ExitEmpty \/ ExitFlushed \/ ExitBackend
    BY <1>3 DEF ExitCloseChan, ExitChannels, ExitEmpty, ExitFlushed, ExitBackend,
                CloseInv, queues, pubVars
  <1>4. CASE /\ memoryMsgChan' \subseteq memoryMsgChan
             /\ UNCHANGED <<ackedBefore, acked, exit, deleted>>
    BY <1>4, ZenonT(60) DEF CloseInv
  <1>5. \/ \E p \in Publishers, m \in Msgs : put(p, m) \/ putBackend(p, m)
        \/ \E isDelete \in BOOLEAN : ExitFlag(isDelete)
        \/ ExitCloseChan \/ ExitChannels \/ ExitEmpty \/ ExitFlushed \/ ExitBackend
        \/ /\ memoryMsgChan' \subseteq memoryMsgChan
           /\ UNCHANGED <<ackedBefore, acked, exit, deleted>>
    BY StepCases, ZenonT(60)
    DEF Steps, vars, queues, pubVars, exitVars, PutMessages, putFails, Start, PumpStart,
        PumpRefresh, PumpGate, PumpDelivered, PumpExit, PumpTakeMemory, PumpTakeBackend,
        PumpTake, PumpDeliver, GetChannel, DeleteExistingChannel, doPause, ChannelDelete,
        EmptyMemory, EmptyBackend, Told, ToldNobody, Return, ExitFlush
  <1> QED BY <1>1, <1>2, <1>3, <1>4, <1>5

(* Whoever changes paused stays in its call until the pump has looked at   *)
(* it again.                                                               *)
LEMMA PauseStep ==
  ASSUME TypeInv, PauseInv, [Next]_vars
  PROVE  PauseInv'
  <1>1. caller \in [Callers ->
          [pc : {"idle", "created", "delete", "deleted", "paused", "emptied"},
           chan : Chan \cup {NoChan}, last : BOOLEAN]]
    BY ZenonT(60) DEF TypeInv, TypeOK
  <1>2. ASSUME NEW k \in Callers, NEW pause \in BOOLEAN, doPause(k, pause)
        PROVE  PauseInv'
    <2>1. caller'[k].pc = "paused"
      BY <1>1, <1>2, ZenonT(60) DEF doPause
    <2> QED BY <2>1, ZenonT(60) DEF PauseInv
  <1>3. CASE pump' \notin {"select", "deliver"}
    BY <1>3 DEF PauseInv
  <1>4. CASE exitChanClosed'
    BY <1>4 DEF PauseInv
  <1>5. CASE PumpGate
    BY <1>5, ZenonT(60) DEF PumpGate, PauseInv
  <1>6. CASE /\ UNCHANGED <<paused, on, exit>>
             /\ \A k \in Callers : caller[k].pc = "paused" => caller'[k].pc = "paused"
             /\ pump' \in {"select", "deliver"} => pump \in {"select", "deliver"}
    BY <1>6, ZenonT(60) DEF PauseInv, exitChanClosed
  <1>7. ASSUME NEW k \in Callers,
               \/ \E n \in Names : GetChannel(k, n) \/ DeleteExistingChannel(k, n)
               \/ ChannelDelete(k) \/ EmptyMemory(k) \/ EmptyBackend(k)
        PROVE  PauseInv'
    <2>1. caller[k].pc # "paused" /\ UNCHANGED <<paused, on, exit, pump>>
      BY <1>7, ZenonT(60) DEF GetChannel, DeleteExistingChannel, ChannelDelete, EmptyMemory,
                  EmptyBackend, exitVars, pumpVars
    <2>2. \A j \in Callers : j # k => caller'[j] = caller[j]
      BY <1>1, <1>7 DEF GetChannel, DeleteExistingChannel, ChannelDelete, EmptyMemory,
                        EmptyBackend
    <2> QED BY <1>6, <2>1, <2>2, ZenonT(60)
  <1>8. ASSUME NEW k \in Callers, Told(k) \/ ToldNobody(k)
        PROVE  PauseInv'
    <2>1. pump' \notin {"select", "deliver"} \/ exitChanClosed'
      BY <1>8, ZenonT(60) DEF Told, ToldNobody, Return, exitChanClosed
    <2> QED BY <1>3, <1>4, <2>1, ZenonT(60)
  <1>9. ASSUME NEW isDelete \in BOOLEAN, ExitFlag(isDelete)
        PROVE  PauseInv'
    BY <1>9 DEF ExitFlag, PauseInv, exitChanClosed, pumpVars
  <1>10. \/ \E k \in Callers, pause \in BOOLEAN : doPause(k, pause)
         \/ pump' \notin {"select", "deliver"}
         \/ PumpGate
         \/ /\ UNCHANGED <<paused, on, exit, caller>>
            /\ pump' \in {"select", "deliver"} => pump \in {"select", "deliver"}
         \/ \E k \in Callers :
              \/ \E n \in Names : GetChannel(k, n) \/ DeleteExistingChannel(k, n)
              \/ ChannelDelete(k) \/ EmptyMemory(k) \/ EmptyBackend(k)
         \/ \E k \in Callers : Told(k) \/ ToldNobody(k)
         \/ \E isDelete \in BOOLEAN : ExitFlag(isDelete)
         \/ exitChanClosed'
    BY StepCases, ZenonT(60)
    DEF Steps, vars, exitVars, pumpVars, exitChanClosed, PutMessages, put, putBackend,
        putFails, Start, PumpStart, PumpRefresh, PumpDelivered, PumpExit, PumpTakeMemory,
        PumpTakeBackend, PumpTake, PumpDeliver, ExitCloseChan, ExitChannels, ExitEmpty,
        ExitFlush, ExitFlushed, ExitBackend
  <1> QED BY <1>2, <1>3, <1>4, <1>5, <1>6, <1>7, <1>8, <1>9, <1>10, ZenonT(60)

-----------------------------------------------------------------------------
(* A channel in channelMap has been made.                                  *)
LEMMA LiveMade == TypeInv /\ ChanInv => Live \subseteq Made
  BY ZenonT(60) DEF TypeInv, TypeOK, ChanInv, Live, Made, Chan

(* GetChannel makes one channel that was not there before.                 *)
LEMMA GetChannelChans ==
  ASSUME TypeInv, NEW k \in Callers, NEW n \in Names, GetChannel(k, n)
  PROVE  /\ Made \subseteq Made' /\ <<n, made[n] + 1>> \in Made'
         /\ \A c \in Live' : c \in Live \/ c \notin Made
         /\ (\A x \in Names : channelMap[x] <= made[x])
                => \A x \in Names : channelMap'[x] <= made'[x]
  <1>1. /\ made \in [Names -> 0 .. MaxGen] /\ channelMap \in [Names -> 0 .. MaxGen]
        /\ MaxGen \in Nat
    BY TopicConstants, ZenonT(60) DEF TypeInv, TypeOK
  <1>2. /\ made[n] < MaxGen
        /\ \A x \in Names : made'[x] = IF x = n THEN made[n] + 1 ELSE made[x]
        /\ \A x \in Names : channelMap'[x] = IF x = n THEN made[n] + 1 ELSE channelMap[x]
    BY <1>1, ZenonT(60) DEF GetChannel
  <1>3. Made \subseteq Made' /\ <<n, made[n] + 1>> \in Made'
    BY <1>1, <1>2 DEF Made, Chan
  <1>4. \A c \in Live' : c \in Live \/ c \notin Made
    BY <1>1, <1>2 DEF Made, Live, Chan
  <1>5. (\A x \in Names : channelMap[x] <= made[x])
            => \A x \in Names : channelMap'[x] <= made'[x]
    BY <1>1, <1>2, SMTT(60)
  <1> QED BY <1>3, <1>4, <1>5, ZenonT(60)

(* Generations only grow, a call that deletes has taken its channel out of *)
(* channelMap, and the pump's list is renewed before it reads the queues   *)
(* again.                                                                  *)
LEMMA ChanStep ==
  ASSUME TypeInv, ChanInv, [Next]_vars
  PROVE  ChanInv'
  <1>1. caller \in [Callers ->
          [pc : {"idle", "created", "delete", "deleted", "paused", "emptied"},
           chan : Chan \cup {NoChan}, last : BOOLEAN]]
    BY ZenonT(60) DEF TypeInv, TypeOK
  <1>2. ASSUME NEW k \in Callers, NEW n \in Names, GetChannel(k, n)
        PROVE  ChanInv'
    <2>1. /\ Made \subseteq Made' /\ <<n, made[n] + 1>> \in Made'
          /\ \A c \in Live' : c \in Live \/ c \notin Made
          /\ \A x \in Names : channelMap'[x] <= made'[x]
      BY <1>2, GetChannelChans, ZenonT(60) DEF ChanInv
    <2>2. UNCHANGED <<established, closed, pump, chans>>
      BY <1>2 DEF GetChannel, pumpVars
    <2>3. /\ \A j \in Callers : j # k => caller'[j] = caller[j]
          /\ caller'[k].pc = "created" /\ caller'[k].chan = <<n, made[n] + 1>>
      BY <1>1, <1>2, ZenonT(60) DEF GetChannel
    <2> QED BY <2>1, <2>2, <2>3, ZenonT(60) DEF ChanInv
  <1>3. ASSUME NEW k \in Callers, NEW n \in Names, DeleteExistingChannel(k, n)
        PROVE  ChanInv'
    <2>1. /\ made \in [Names -> 0 .. MaxGen] /\ channelMap \in [Names -> 0 .. MaxGen]
          /\ MaxGen \in Nat
      BY TopicConstants, ZenonT(60) DEF TypeInv, TypeOK
    <2>2. /\ channelMap[n] # 0 /\ UNCHANGED <<made, established, closed, pump, chans>>
          /\ \A x \in Names : channelMap'[x] = IF x = n THEN 0 ELSE channelMap[x]
      BY <1>3, <2>1, ZenonT(60) DEF DeleteExistingChannel, pumpVars
    <2>3. /\ \A j \in Callers : j # k => caller'[j] = caller[j]
          /\ caller'[k].pc = "delete" /\ caller'[k].chan = <<n, channelMap[n]>>
      BY <1>1, <1>3, ZenonT(60) DEF DeleteExistingChannel
    <2>4. Live' \subseteq Live /\ <<n, channelMap[n]>> \notin Live'
      BY <2>1, <2>2 DEF Live, Chan
    <2>5. <<n, channelMap[n]>> \in Made /\ Made' = Made
      BY <2>1, <2>2 DEF ChanInv, Made, Chan
    <2>6. \A x \in Names : channelMap'[x] <= made'[x]
      BY <2>1, <2>2 DEF ChanInv
    <2> QED BY <2>2, <2>3, <2>4, <2>5, <2>6, ZenonT(60) DEF ChanInv
  <1>4. ASSUME NEW k \in Callers, ChannelDelete(k)
        PROVE  ChanInv'
    <2>1. /\ UNCHANGED <<made, channelMap, established, pump, chans>>
          /\ caller[k].pc = "delete" /\ closed' = closed \cup {caller[k].chan}
      BY <1>4 DEF ChannelDelete, pumpVars
    <2>2. /\ \A j \in Callers : j # k => caller'[j] = caller[j]
          /\ caller'[k].pc = "deleted"
      BY <1>1, <1>4 DEF ChannelDelete
    <2>3. Live' = Live /\ Made' = Made
      BY <2>1, ZenonT(60) DEF Live, Made
    <2> QED BY <2>1, <2>2, <2>3 DEF ChanInv
  <1>5. ASSUME NEW k \in Callers, Told(k)
        PROVE  ChanInv'
    <2>1. /\ UNCHANGED <<made, channelMap, closed, chans>>
          /\ established' = established
                \/ (/\ established' = established \cup {caller[k].chan}
                    /\ caller[k].pc = "created" /\ pump' \notin {"gate", "select", "deliver"})
          /\ pump # "exited"
          /\ pump' \in {"gate", "select", "deliver"} => pump \in {"gate", "select", "deliver"}
      BY <1>5, ZenonT(60) DEF Told
    <2>2. /\ \A j \in Callers : j # k => caller'[j] = caller[j]
          /\ caller'[k].pc = "idle"
      BY <1>1, <1>5, ZenonT(60) DEF Told, Return, Idle
    <2>3. Live' = Live /\ Made' = Made
      BY <2>1, ZenonT(60) DEF Live, Made
    <2> QED BY <2>1, <2>2, <2>3, ZenonT(60) DEF ChanInv
  <1>6. CASE ExitChannels
    <2>1. /\ pump = "exited" /\ UNCHANGED <<made, established, caller, pump, chans>>
          /\ closed' = closed \cup Live
          /\ channelMap' = channelMap \/ channelMap' = [x \in Names |-> 0]
      BY <1>6, ZenonT(60) DEF ExitChannels, pumpVars
    <2>2. Live' \subseteq Live /\ Made' = Made
      BY <2>1 DEF Live, Made, Chan
    <2>3. \A x \in Names : channelMap'[x] <= made'[x]
      BY <2>1, SMTT(60) DEF ChanInv, TypeInv, TypeOK
    <2> QED BY <2>1, <2>2, <2>3, LiveMade, ZenonT(60) DEF ChanInv
  <1>7. ASSUME UNCHANGED <<made, channelMap, established, closed>>,
               UNCHANGED <<chans, pump>>
                 \/ /\ pump # "exited"
                    /\ \/ chans' = Live
                       \/ pump' \notin {"gate", "select", "deliver"}
                       \/ chans' = chans /\ pump \in {"gate", "select", "deliver"},
               \A k \in Callers :
                 caller'[k] = caller[k] \/ caller'[k].pc \notin {"created", "delete"}
        PROVE  ChanInv'
    <2>1. Live' = Live /\ Made' = Made
      BY <1>7, ZenonT(60) DEF Live, Made
    <2> QED BY <1>7, <2>1, ZenonT(60) DEF ChanInv
  <1>8. ASSUME NEW k \in Callers,
               \/ EmptyMemory(k) \/ EmptyBackend(k) \/ ToldNobody(k)
               \/ \E pause \in BOOLEAN : doPause(k, pause)
        PROVE  ChanInv'
    <2>1. UNCHANGED <<made, channelMap, established, closed, chans, pump>>
      BY <1>8 DEF EmptyMemory, EmptyBackend, ToldNobody, doPause, channels, pumpVars
    <2>2. \A j \in Callers :
            caller'[j] = caller[j] \/ caller'[j].pc \notin {"created", "delete"}
      BY <1>1, <1>8, SMTT(60) DEF EmptyMemory, EmptyBackend, ToldNobody, doPause, Return, Idle
    <2> QED BY <1>7, <2>1, <2>2
  <1>9. \/ \E k \in Callers :
             \/ \E n \in Names : GetChannel(k, n) \/ DeleteExistingChannel(k, n)
             \/ \E pause \in BOOLEAN : doPause(k, pause)
             \/ ChannelDelete(k) \/ EmptyMemory(k) \/ EmptyBackend(k)
             \/ Told(k) \/ ToldNobody(k)
        \/ ExitChannels
        \/ /\ UNCHANGED <<made, channelMap, established, closed, caller>>
           /\ UNCHANGED <<chans, pump>>
                 \/ /\ pump # "exited"
                    /\ \/ chans' = Live
                       \/ pump' \notin {"gate", "select", "deliver"}
                       \/ chans' = chans /\ pump \in {"gate", "select", "deliver"}
    BY StepCases, ZenonT(60)
    DEF Steps, vars, channels, pumpVars, PutMessages, put, putBackend, putFails, Start,
        PumpStart, PumpRefresh, PumpGate, PumpDelivered, PumpExit, PumpTakeMemory,
        PumpTakeBackend, PumpTake, PumpDeliver, ExitFlag, ExitCloseChan, ExitEmpty,
        ExitFlush, ExitFlushed, ExitBackend
  <1> QED BY <1>2, <1>3, <1>4, <1>5, <1>6, <1>7, <1>8, <1>9, ZenonT(60)

-----------------------------------------------------------------------------
(* A step that moves no message and under which no channel appears that is *)
(* owed one.                                                               *)
LEMMA OwedStays ==
  ASSUME OwedInv, UNCHANGED <<owed, got, memoryMsgChan, backend>>,
         established \subseteq established', Live' \cap established \subseteq Live,
         UNCHANGED <<pump, msg, todo>> \/ pump # "deliver" \/ todo = {}
  PROVE  OwedInv'
  BY ZenonT(60) DEF OwedInv, OwedReached

(* What is owed when a message is put stays owed until it is given, while  *)
(* the channel lives and no one empties the topic.                         *)
LEMMA OwedStep ==
  ASSUME TypeInv, ChanInv, OwedInv, [Next]_vars
  PROVE  OwedInv'
  <1>1. /\ owed \in [Msgs -> SUBSET Chan] /\ got \in [Chan -> SUBSET Msgs]
        /\ pump = "deliver" => msg \in Msgs
    BY ZenonT(60) DEF TypeInv, TypeOK, HandOK
  <1>2. ASSUME NEW p \in Publishers, NEW m \in Msgs, put(p, m) \/ putBackend(p, m)
        PROVE  OwedInv'
    <2>1. /\ UNCHANGED <<got, established, pump, msg, todo, channelMap>>
          /\ memoryMsgChan \cup backend \subseteq memoryMsgChan' \cup backend'
          /\ \/ owed' = owed
             \/ /\ owed' = [owed EXCEPT ![m] = Live \cap established]
                /\ m \in memoryMsgChan' \cup backend'
      BY <1>2, ZenonT(60) DEF put, putBackend, PutOk, channels, pumpVars
    <2>2. Live' = Live
      BY <2>1, ZenonT(60) DEF Live
    <2>3. \A x \in Msgs : \/ owed'[x] = owed[x]
                          \/ /\ owed'[x] = Live \cap established
                             /\ x \in memoryMsgChan' \cup backend'
      BY <1>1, <2>1
    <2>4. \A x \in Msgs : owed'[x] \subseteq established'
      BY <2>1, <2>3, ZenonT(60) DEF OwedInv
    <2>5. ASSUME NEW x \in Msgs, NEW c \in owed'[x] \cap Live'
          PROVE  \/ x \in got'[c] \cup memoryMsgChan' \cup backend'
                 \/ pump' = "deliver" /\ msg' = x /\ c \in todo'
      <3>1. CASE x \in memoryMsgChan' \cup backend'
        BY <3>1, ZenonT(60)
      <3>2. CASE owed'[x] = owed[x]
        BY <2>1, <2>2, <2>5, <3>2, ZenonT(60) DEF OwedInv, OwedReached
      <3> QED BY <2>3, <3>1, <3>2, ZenonT(60)
    <2> QED BY <2>4, <2>5, ZenonT(60) DEF OwedInv, OwedReached
  <1>3. ASSUME NEW m \in Msgs, PumpTakeMemory(m) \/ PumpTakeBackend(m)
        PROVE  OwedInv'
    <2>1. /\ pump = "select" /\ pump' = "deliver" /\ msg' = m /\ todo' = chans
          /\ UNCHANGED <<owed, got, established, channelMap>>
          /\ memoryMsgChan \cup backend \subseteq memoryMsgChan' \cup backend' \cup {m}
      BY <1>3, ZenonT(60) DEF PumpTakeMemory, PumpTakeBackend, PumpTake, channels, delivery
    <2>2. Live' = Live /\ established \cap Live \subseteq todo'
      BY <2>1, ZenonT(60) DEF Live, ChanInv
    <2> QED BY <2>1, <2>2, ZenonT(60) DEF OwedInv, OwedReached
  <1>4. ASSUME NEW c \in Chan, PumpDeliver(c)
        PROVE  OwedInv'
    <2>1. /\ pump = "deliver" /\ todo' = todo \ {c}
          /\ UNCHANGED <<memoryMsgChan, backend, pump, msg, established, channelMap>>
          /\ \/ got' = [got EXCEPT ![c] = got[c] \cup {msg}] /\ owed' = owed
             \/ c \in closed /\ got' = got /\ owed' = owed
             \/ got' = got /\ owed' = [owed EXCEPT ![msg] = owed[msg] \ {c}]
      BY <1>4, ZenonT(60) DEF PumpDeliver, queues, channels, delivery
    <2>2. Live' = Live /\ (c \in closed => c \notin Live)
      BY <2>1, ZenonT(60) DEF Live, ChanInv
    <2>3. /\ \A d \in Chan : got[d] \subseteq got'[d]
          /\ \A x \in Msgs : owed'[x] \subseteq owed[x]
          /\ c \in owed'[msg] \cap Live => msg \in got'[c]
      BY <1>1, <2>1, <2>2
    <2>4. \A x \in Msgs : owed[x] \subseteq Chan
      BY <1>1
    <2> QED BY <2>1, <2>2, <2>3, <2>4, ZenonT(60) DEF OwedInv, OwedReached
  <1>5. ASSUME UNCHANGED <<got, established, pump, msg, todo>>, Live' = Live,
               \A x \in Msgs :
                 \/ owed'[x] = {}
                 \/ /\ owed'[x] = owed[x]
                    /\ x \in memoryMsgChan \cup backend => x \in memoryMsgChan' \cup backend'
        PROVE  OwedInv'
    BY <1>5, ZenonT(60) DEF OwedInv, OwedReached
  <1>6. ASSUME NEW k \in Callers, EmptyMemory(k) \/ EmptyBackend(k)
        PROVE  OwedInv'
    <2>1. UNCHANGED <<got, established, pump, msg, todo>> /\ Live' = Live
      BY <1>6 DEF EmptyMemory, EmptyBackend, channels, pumpVars, Live
    <2>2. \A x \in Msgs :
            \/ owed'[x] = {}
            \/ /\ owed'[x] = owed[x]
               /\ x \in memoryMsgChan \cup backend => x \in memoryMsgChan' \cup backend'
      BY <1>6 DEF EmptyMemory, EmptyBackend, Discard
    <2> QED BY <1>5, <2>1, <2>2, ZenonT(60)
  <1>7. CASE ExitEmpty
    <2>1. UNCHANGED <<got, established, pump, msg, todo>> /\ Live' = Live
      BY <1>7, ZenonT(60) DEF ExitEmpty, channels, pumpVars, Live
    <2>2. \A x \in Msgs :
            \/ owed'[x] = {}
            \/ /\ owed'[x] = owed[x]
               /\ x \in memoryMsgChan \cup backend => x \in memoryMsgChan' \cup backend'
      BY <1>7 DEF ExitEmpty, Discard
    <2> QED BY <1>5, <2>1, <2>2, ZenonT(60)
  <1>8. ASSUME NEW m \in Msgs, ExitFlush(m)
        PROVE  OwedInv'
    <2>1. UNCHANGED <<got, established, pump, msg, todo>> /\ Live' = Live
      BY <1>8, ZenonT(60) DEF ExitFlush, channels, pumpVars, Live
    <2>2. \A x \in Msgs :
            \/ owed'[x] = {}
            \/ /\ owed'[x] = owed[x]
               /\ x \in memoryMsgChan \cup backend => x \in memoryMsgChan' \cup backend'
      BY <1>8 DEF ExitFlush, Discard
    <2> QED BY <1>5, <2>1, <2>2, ZenonT(60)
  <1>9. ASSUME NEW k \in Callers, NEW n \in Names, GetChannel(k, n)
        PROVE  OwedInv'
    <2>1. UNCHANGED <<owed, got, memoryMsgChan, backend, established, pump, msg, todo>>
      BY <1>9 DEF GetChannel, queues, delivery, pumpVars
    <2>2. Live' \cap established \subseteq Live
      BY <1>9, GetChannelChans, ZenonT(60) DEF ChanInv
    <2> QED BY <2>1, <2>2, OwedStays, ZenonT(60)
  <1>10. ASSUME \/ \E k \in Callers, n \in Names : DeleteExistingChannel(k, n)
                \/ ExitChannels
         PROVE  OwedInv'
    <2>1. /\ UNCHANGED <<owed, got, memoryMsgChan, backend, established, pump, msg, todo>>
          /\ channelMap \in [Names -> 0 .. MaxGen]
          /\ \/ channelMap' = channelMap
             \/ channelMap' = [x \in Names |-> 0]
             \/ \E n \in Names : channelMap' = [channelMap EXCEPT ![n] = 0]
      BY <1>10, ZenonT(60) DEF DeleteExistingChannel, ExitChannels, queues, delivery, pumpVars,
                   TypeInv, TypeOK
    <2>2. Live' \subseteq Live
      BY <2>1 DEF Live, Chan
    <2> QED BY <2>1, <2>2, OwedStays, ZenonT(60)
  <1>11. CASE /\ UNCHANGED <<owed, got, memoryMsgChan, backend, channelMap>>
              /\ established \subseteq established'
              /\ UNCHANGED <<pump, msg, todo>> \/ pump # "deliver" \/ todo = {}
    <2>1. Live' = Live
      BY <1>11, ZenonT(60) DEF Live
    <2> QED BY <1>11, <2>1, OwedStays
  <1>12. \/ \E p \in Publishers, m \in Msgs : put(p, m) \/ putBackend(p, m)
         \/ \E m \in Msgs : PumpTakeMemory(m) \/ PumpTakeBackend(m) \/ ExitFlush(m)
         \/ \E c \in Chan : PumpDeliver(c)
         \/ \E k \in Callers : EmptyMemory(k) \/ EmptyBackend(k)
         \/ \E k \in Callers, n \in Names : GetChannel(k, n)
         \/ \E k \in Callers, n \in Names : DeleteExistingChannel(k, n)
         \/ ExitEmpty \/ ExitChannels
         \/ /\ UNCHANGED <<owed, got, memoryMsgChan, backend, channelMap>>
            /\ established \subseteq established'
            /\ UNCHANGED <<pump, msg, todo>> \/ pump # "deliver" \/ todo = {}
    BY StepCases, ZenonT(60)
    DEF Steps, vars, queues, channels, delivery, pumpVars, PutMessages, putFails, Start,
        PumpStart, PumpRefresh, PumpGate, PumpDelivered, PumpExit, doPause, ChannelDelete,
        Told, ToldNobody, ExitFlag, ExitCloseChan, ExitFlushed, ExitBackend
  <1> QED BY <1>2, <1>3, <1>4, <1>6, <1>7, <1>8, <1>9, <1>10, <1>11, <1>12, ZenonT(60)

-----------------------------------------------------------------------------
(* A new topic has nothing to keep.                                        *)
LEMMA TopicInit == Init => TopicInv
  <1> SUFFICES ASSUME Init PROVE TopicInv
    OBVIOUS
  <1>1. CallsInv
    BY ZenonT(60) DEF Init, CallsInv, NoCall
  <1>2. FlowInv
    BY DEF Init, FlowInv, NotTwice, NoCall
  <1>3. CloseInv /\ PauseInv
    BY ZenonT(60) DEF Init, CloseInv, PauseInv
  <1>4. ChanInv
    BY DEF Init, ChanInv, Idle, Live
  <1>5. OwedInv
    BY DEF Init, OwedInv, OwedReached
  <1> QED BY <1>1, <1>2, <1>3, <1>4, <1>5 DEF TopicInv

(* The inductive invariant of a topic.                                     *)
THEOREM TopicInvariant == Spec => [](TypeInv /\ TopicInv)
  <1>1. TypeInv /\ TopicInv /\ [Next]_vars => (TypeInv /\ TopicInv)'
    BY TypeStep, CallsStep, FlowStep, CloseStep, PauseStep, ChanStep, OwedStep
    DEF TopicInv
  <1> QED BY TypeInit, TopicInit, <1>1, PTL DEF Spec

(* messagePump gives no channel a message twice, whether it went through   *)
(* memory or disk and however often the topic's channels change.           *)
THEOREM NeverTwice == Spec => []NotTwice
  <1>1. TopicInv => NotTwice
    BY ZenonT(60) DEF TopicInv, FlowInv
  <1> QED BY TopicInvariant, <1>1, PTL

(* A message put after GetChannel returned reaches that channel or is on   *)
(* its way: the update the creator waits for renews the pump's list before *)
(* the pump takes another message.                                         *)
THEOREM NoneForgotten == Spec => []OwedReached
  <1>1. TopicInv => OwedReached
    BY ZenonT(60) DEF TopicInv, OwedInv
  <1> QED BY TopicInvariant, <1>1, PTL

(* When Pause has returned, messagePump reads no queue.                    *)
THEOREM PauseEffective == Spec => []PauseHolds
  <1>1. TopicInv => PauseHolds
    BY ZenonT(60) DEF TopicInv, PauseInv, PauseHolds
  <1> QED BY TopicInvariant, <1>1, PTL

(* After Close the memory queue holds nothing that was acknowledged before *)
(* Close began: flush took it out.                                         *)
THEOREM CloseFlushes == Spec => []CleanClose
  <1>1. TopicInv => CleanClose
    BY DEF TopicInv, CloseInv, CleanClose
  <1> QED BY TopicInvariant, <1>1, PTL
=============================================================================
