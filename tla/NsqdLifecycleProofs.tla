------------------------ MODULE NsqdLifecycleProofs -------------------------
(***************************************************************************)
(* The life of a topic name, for any number of requests, faults, topics    *)
(* and channels of one process: the metadata file, the registration with   *)
(* nsqlookupd and the name itself.                                         *)
(***************************************************************************)
EXTENDS NsqdLifecycle, TLAPS

\* A caller that acts on a topic or a channel has one, and only a deleter deletes.
CallInv ==
    \A p \in Callers :
        /\ call[p].op \in {"idle", "create", "exitChannel"} \/ call[p].obj \in Topics
        /\ call[p].op = "exitChannel" => call[p].obj \in Channels
        /\ call[p].op \in {"exit", "purge", "unmap"} => p \in Deleters

\* Connections are numbered in their order; a fault ends one, and the end of the
\* process the last.
ConnInv ==
    \E b \in 0 .. MaxFaults :
        /\ broken = 1 .. b /\ conn \in {0, b, b + 1}
        /\ b =< faults /\ (phase = "exiting" => b < faults)

\* A process that is down has nothing in memory.
DownInv ==
    phase = "down" =>
        /\ topicMap = None /\ notes = {} /\ conn = 0 /\ loop = NoCommand
        /\ \A p \in Callers : call[p] = Idle
        /\ \A t \in Topics : flag[t] = "unused" /\ channelMap[t] = None /\ paused[t] = FALSE
        /\ \A c \in Channels : chanFlag[c] = "unused"

LifeTypes == TypeOK /\ CallInv /\ ConnInv /\ DownInv

\* Until Exit, a channel that a topic has is live and no other topic's; one that is
\* on its way to be deleted is live still, in no map, and one caller's alone.
MappedLive == \A t \in Topics : channelMap[t] # None => chanFlag[channelMap[t]] = "live"
OneTopic == \A t, u \in Topics : channelMap[t] # None /\ channelMap[t] = channelMap[u] => t = u
Leaving(p) == call[p].op = "exitChannel"
LeavingLive ==
    \A p \in Callers : Leaving(p) =>
        chanFlag[call[p].obj] = "live" /\ \A t \in Topics : channelMap[t] # call[p].obj
OneLeaving == \A p, q \in Callers : Leaving(p) /\ Leaving(q) /\ call[p].obj = call[q].obj => p = q
ChanInv == phase = "running" => MappedLive /\ OneTopic /\ LeavingLive /\ OneLeaving

\* Somebody who will persist the metadata.
Persisting ==
    \/ \E n \in notes : n.stage # "sendOnly"
    \/ \E p \in Callers : call[p].op \in {"persist", "exitChannel"}

\* What the file does not have yet, somebody will persist.
FileInv ==
    phase = "running" /\ ~stale /\ topicMap # None => file = Metadata \/ Persisting

\* A topic that has the name is live, or somebody is about to take it away.
MappedInv ==
    phase = "running" /\ topicMap # None =>
        \/ flag[topicMap] = "live"
        \/ \E p \in Callers : call[p].op \in {"purge", "unmap"}

\* Nobody has a topic that is not in use, and it has no channel.
UnusedInv ==
    /\ \A t \in Topics : flag[t] = "unused" => channelMap[t] = None
    /\ \A p \in Callers :
        call[p].op \in {"idle", "create", "exitChannel"} \/ flag[call[p].obj] # "unused"
    /\ topicMap # None => flag[topicMap] # "unused"

\* nsqlookupd has the live topic of the name and its channel, or will be told, or
\* the registration was there and was taken away.
Connected ==
    phase = "running" /\ conn # 0 /\ conn \notin broken /\ topicMap # None /\ flag[topicMap] = "live"
Telling(ns, what, obj) == \E n \in ns : n.what = what /\ n.obj = obj /\ n.stage # "persist"
TopicTold ==
    \/ "topic" \in undone \/ <<"topic", conn>> \in db
    \/ Telling(notes, "topic", topicMap) \/ loop.name = "REGISTER"
ChannelTold ==
    \/ "channel" \in undone \/ <<"channel", conn>> \in db
    \/ Telling(notes, "channel", channelMap[topicMap])
    \/ loop.name = "REGISTER" /\ loop.what = "channel"
RegisterInv == Connected => TopicTold /\ (channelMap[topicMap] # None => ChannelTold)

\* A live topic is under its name, and so is one that is being deleted, if only
\* one caller deletes.
OneDeleter == \A p, q \in Deleters : p = q
NameInv ==
    /\ \A t \in Topics : flag[t] = "live" => topicMap = t
    /\ \A p \in Callers :
        /\ call[p].op \in {"exit", "purge", "unmap"} => topicMap = call[p].obj
        /\ call[p].op \in {"purge", "unmap"} => flag[topicMap] # "live"

-----------------------------------------------------------------------------
(* Types.                                                                  *)

\* The fields of an idle call.
LEMMA IdleFields == Idle.op = "idle" /\ Idle.obj = None
BY ZenonT(60) DEF Idle

\* NewTopic and NewChannel take an object that was not in use.
LEMMA FreshUnused ==
  /\ Unused # {} => Fresh \in Topics /\ flag[Fresh] = "unused"
  /\ UnusedChannels # {} => FreshChannel \in Channels /\ chanFlag[FreshChannel] = "unused"
<1>1. Unused # {} => Fresh \in Unused
  BY DEF Fresh
<1>2. UnusedChannels # {} => FreshChannel \in UnusedChannels
  BY DEF FreshChannel
<1> QED
  BY <1>1, <1>2 DEF Unused, UnusedChannels

\* Before the start all objects are unused.
LEMMA FreshAtStart ==
  ASSUME DownInv, phase = "down"
  PROVE  /\ Fresh \in Topics /\ flag[Fresh] = "unused"
         /\ FreshChannel \in Channels /\ chanFlag[FreshChannel] = "unused"
<1>1. 1 \in Unused /\ 1 \in UnusedChannels
  BY LifecycleAssumption DEF DownInv, Unused, UnusedChannels, Topics, Channels
<1> QED
  BY <1>1, FreshUnused, ZenonT(60)

\* No object is None.
LEMMA NoneOutside == None \notin Topics /\ None \notin Channels
BY DEF None, Topics, Channels

\* What lookupPeer gets when it connects: the number after the broken ones.
LEMMA NewConnection ==
  ASSUME ConnInv
  PROVE  \E b \in 0 .. MaxFaults : /\ broken = 1 .. b /\ NextConnection = b + 1
                                   /\ b =< faults /\ (phase = "exiting" => b < faults)
<1>1. PICK b \in 0 .. MaxFaults : broken = 1 .. b /\ b =< faults /\ (phase = "exiting" => b < faults)
  BY DEF ConnInv
<1> DEFINE free == Connections \ broken
<1>2. b + 1 \in free /\ \A other \in free : b + 1 =< other
  BY <1>1, LifecycleAssumption DEF Connections
<1> DEFINE next == CHOOSE id \in free : \A other \in free : id =< other
<1>3. next \in free /\ \A other \in free : next =< other
  BY <1>2
<1>4. next = b + 1
  BY <1>1, <1>2, <1>3, LifecycleAssumption DEF Connections
<1> QED
  BY <1>1, <1>4 DEF NextConnection

\* The two ways to write the file.
LEMMA FileTypes ==
  ASSUME TypeOK, Written \/ NotWritten
  PROVE  file' \in Files /\ stale' \in BOOLEAN
<1>1. CASE Written
  <2>1. file' = Metadata /\ stale' = FALSE
    BY <1>1 DEF Written
  <2>2. topicMap # None => paused[topicMap] \in BOOLEAN
    BY DEF TypeOK
  <2>3. (channelMap[topicMap] # None) \in BOOLEAN
    OBVIOUS
  <2> QED
    BY <2>1, <2>2, <2>3, ZenonT(60) DEF Metadata, Files
<1>2. CASE NotWritten
  BY <1>2 DEF NotWritten, TypeOK
<1> QED
  BY <1>1, <1>2

\* The fields of a call.
CallsTyped == call \in [Callers -> [op : Ops, obj : Topics \cup Channels \cup {None}]]

\* A caller goes on, or returns.
LEMMA CallTypes ==
  ASSUME CallsTyped, NEW p \in Callers, NEW op \in Ops, NEW obj \in Topics \cup Channels \cup {None},
         Goto(p, op, obj) \/ Return(p)
  PROVE  CallsTyped'
  BY DEF CallsTyped, Goto, Return, Idle, Ops

\* What a caller does next, and that the others go on as they were.
LEMMA CallNext ==
  ASSUME CallsTyped, NEW p \in Callers
  PROVE  /\ \A op, obj : Goto(p, op, obj) =>
                /\ call'[p].op = op /\ call'[p].obj = obj
                /\ \A q \in Callers \ {p} : call'[q] = call[q]
         /\ Return(p) =>
                /\ call'[p].op = "idle" /\ call'[p].obj = None
                /\ \A q \in Callers \ {p} : call'[q] = call[q]
<1>1. ASSUME NEW op, NEW obj, Goto(p, op, obj)
      PROVE  /\ call'[p].op = op /\ call'[p].obj = obj
             /\ \A q \in Callers \ {p} : call'[q] = call[q]
  <2>1. call'[p] = [op |-> op, obj |-> obj] /\ \A q \in Callers \ {p} : call'[q] = call[q]
    BY <1>1, ZenonT(60) DEF Goto, CallsTyped
  <2> QED
    BY <2>1
<1>2. ASSUME Return(p)
      PROVE  call'[p] = Idle /\ \A q \in Callers \ {p} : call'[q] = call[q]
  BY <1>2, ZenonT(60) DEF Return, CallsTyped
<1> QED
  BY <1>1, <1>2, IdleFields, ZenonT(60)

\* A note of a topic or a channel.
LEMMA NoteTypes ==
  ASSUME NEW what \in Keys, NEW obj \in Topics \cup Channels, NEW event \in {"new", "exit"},
         NEW stage \in {"send", "sendOnly", "persist"}
  PROVE  Note(what, obj, event, stage) \in Notes
  BY DEF Note, Notes

\* channel.Delete keeps the types.
LEMMA DeleteTypes ==
  ASSUME TypeOK, NEW c \in Channels, DeleteChannel(c)
  PROVE  chanFlag' \in [Channels -> {"unused", "live", "exiting"}] /\ notes' \subseteq Notes
<1>1. Note("channel", c, "exit", "send") \in Notes
  BY NoteTypes, ZenonT(60) DEF Keys
<1> QED
  BY <1>1, ZenonT(60) DEF DeleteChannel, TypeOK

\* Every handler of a request keeps the types.
LEMMA HandlerTypes ==
  ASSUME LifeTypes, NEW p \in Callers, Handlers(p)
  PROVE  TypeOK'
<1>0. TypeOK /\ CallInv /\ CallsTyped
  BY ZenonT(60) DEF LifeTypes, TypeOK, CallsTyped
<1>1. /\ call[p].op \notin {"idle", "create", "exitChannel"} => call[p].obj \in Topics
      /\ call[p].op = "exitChannel" => call[p].obj \in Channels
  BY <1>0, ZenonT(60) DEF CallInv
<1> DEFINE Same == UNCHANGED <<phase, disk, loop, peer, db, known, bounds>>
<1>2. CASE GetTopicLocked(p)
  <2>1. CASE topicMap = None /\ MakeTopic(p)
    <3>1. Fresh \in Topics
      BY <2>1, FreshUnused, ZenonT(60) DEF MakeTopic
    <3>2. /\ topicMap' = Fresh /\ flag' = [flag EXCEPT ![Fresh] = "live"] /\ undone' = {}
          /\ notes' = notes \cup {Note("topic", Fresh, "new", "send")}
          /\ Goto(p, "query", Fresh) /\ Same /\ UNCHANGED <<paused, channels>>
      BY <1>2, <2>1, ZenonT(60) DEF GetTopicLocked, MakeTopic
    <3>3. Note("topic", Fresh, "new", "send") \in Notes
      BY <3>1, NoteTypes, ZenonT(60) DEF Keys
    <3>4. CallsTyped'
      BY <1>0, <3>1, <3>2, CallTypes, ZenonT(60) DEF Ops
    <3> QED
      BY <1>0, <3>1, <3>2, <3>3, <3>4, ZenonT(60)
      DEF TypeOK, CallsTyped, channels, disk, peer, bounds
  <2>2. CASE topicMap # None /\ Return(p) /\ UNCHANGED <<topicMap, flag, notes, undone>>
    <3>1. CallsTyped' /\ Same /\ UNCHANGED <<paused, channels>>
      BY <1>0, <1>2, <2>2, CallTypes, ZenonT(60) DEF Ops, GetTopicLocked
    <3> QED
      BY <1>0, <2>2, <3>1, ZenonT(60) DEF TypeOK, CallsTyped, channels, disk, peer, bounds
  <2> QED
    BY <1>2, <2>1, <2>2, ZenonT(60) DEF GetTopicLocked
<1>3. CASE GetTopicQuery(p)
  <2>1. CallsTyped' /\ Same /\ UNCHANGED <<nsqd, notes, undone>>
    BY <1>0, <1>1, <1>3, CallTypes, ZenonT(60) DEF Ops, GetTopicQuery, lookupd
  <2> QED
    BY <1>0, <2>1, ZenonT(60) DEF TypeOK, CallsTyped, nsqd, topics, channels, disk, peer, bounds
<1>4. CASE GetChannel(p)
  <2>1. call[p].obj \in Topics /\ CallsTyped' /\ Same /\ UNCHANGED topics
    BY <1>0, <1>1, <1>4, CallTypes, ZenonT(60) DEF Ops, GetChannel
  <2>2. CASE UNCHANGED <<channels, notes, undone>>
    BY <1>0, <2>1, <2>2, ZenonT(60) DEF TypeOK, CallsTyped, topics, channels, disk, peer, bounds
  <2>3. CASE /\ UnusedChannels # {}
             /\ channelMap' = [channelMap EXCEPT ![call[p].obj] = FreshChannel]
             /\ chanFlag' = [chanFlag EXCEPT ![FreshChannel] = "live"]
             /\ notes' = notes \cup {Note("channel", FreshChannel, "new", "send")}
             /\ undone' = IF call[p].obj = topicMap THEN undone \ {"channel"} ELSE undone
    <3>1. FreshChannel \in Channels
      BY <2>3, FreshUnused, ZenonT(60)
    <3>2. Note("channel", FreshChannel, "new", "send") \in Notes
      BY <3>1, NoteTypes, ZenonT(60) DEF Keys
    <3> QED
      BY <1>0, <2>1, <2>3, <3>1, <3>2, ZenonT(60) DEF TypeOK, CallsTyped, topics, disk, peer, bounds
  <2> QED
    BY <1>4, <2>2, <2>3, ZenonT(60) DEF GetChannel
<1>5. CASE TopicExit(p)
  <2>1. /\ call[p].obj \in Topics /\ Same /\ UNCHANGED <<topicMap, paused, channels, undone>>
        /\ CallsTyped'
    BY <1>0, <1>1, <1>5, CallTypes, ZenonT(60) DEF Ops, TopicExit, lookupd
  <2>2. Note("topic", call[p].obj, "exit", "send") \in Notes
    BY <2>1, NoteTypes, ZenonT(60) DEF Keys
  <2>3. flag' \in [Topics -> {"unused", "live", "exiting"}] /\ notes' \subseteq Notes
    BY <1>0, <1>5, <2>1, <2>2, ZenonT(60) DEF TopicExit, TypeOK
  <2> QED
    BY <1>0, <2>1, <2>3, ZenonT(60) DEF TypeOK, CallsTyped, channels, disk, peer, bounds
<1>6. CASE TopicPurge(p)
  <2>1. /\ call[p].obj \in Topics /\ Same /\ UNCHANGED <<topics, undone>> /\ CallsTyped'
        /\ channelMap' = [channelMap EXCEPT ![call[p].obj] = None]
    BY <1>0, <1>1, <1>6, CallTypes, ZenonT(60) DEF Ops, TopicPurge, lookupd
  <2>2. channelMap[call[p].obj] # None => channelMap[call[p].obj] \in Channels
    BY <1>0, <2>1, ZenonT(60) DEF TypeOK
  <2>3. chanFlag' \in [Channels -> {"unused", "live", "exiting"}] /\ notes' \subseteq Notes
    <3>1. CASE channelMap[call[p].obj] # None /\ DeleteChannel(channelMap[call[p].obj])
      BY <1>0, <2>2, <3>1, DeleteTypes, ZenonT(60)
    <3>2. CASE UNCHANGED <<chanFlag, notes>>
      BY <1>0, <3>2, ZenonT(60) DEF TypeOK
    <3> QED
      BY <1>6, <3>1, <3>2, ZenonT(60) DEF TopicPurge
  <2> QED
    BY <1>0, <2>1, <2>3, ZenonT(60) DEF TypeOK, CallsTyped, topics, disk, peer, bounds
<1>7. CASE TopicUnmap(p)
  <2>1. /\ CallsTyped' /\ Same /\ UNCHANGED <<flag, paused, channels, notes, undone>>
        /\ topicMap' = None
    BY <1>0, <1>7, CallTypes, ZenonT(60) DEF Ops, TopicUnmap, lookupd
  <2> QED
    BY <1>0, <2>1, ZenonT(60) DEF TypeOK, CallsTyped, channels, disk, peer, bounds
<1>8. CASE DeleteExistingChannel(p)
  <2>1. /\ call[p].obj \in Topics /\ Same /\ UNCHANGED <<topics, chanFlag, notes, undone>>
        /\ channelMap' = [channelMap EXCEPT ![call[p].obj] = None]
    BY <1>1, <1>8, ZenonT(60) DEF DeleteExistingChannel, lookupd
  <2>2. channelMap[call[p].obj] \in Channels \cup {None}
    BY <1>0, <2>1, ZenonT(60) DEF TypeOK
  <2>3. CallsTyped'
    BY <1>0, <1>8, <2>2, CallTypes, ZenonT(60) DEF Ops, DeleteExistingChannel
  <2> QED
    BY <1>0, <2>1, <2>3, ZenonT(60) DEF TypeOK, CallsTyped, topics, disk, peer, bounds
<1>9. CASE ChannelExit(p)
  <2>1. /\ call[p].obj \in Channels /\ Same /\ UNCHANGED <<topics, channelMap, undone>>
        /\ CallsTyped' /\ DeleteChannel(call[p].obj)
    BY <1>0, <1>1, <1>9, CallTypes, ZenonT(60) DEF Ops, ChannelExit, lookupd
  <2>2. chanFlag' \in [Channels -> {"unused", "live", "exiting"}] /\ notes' \subseteq Notes
    BY <1>0, <2>1, DeleteTypes, ZenonT(60)
  <2> QED
    BY <1>0, <2>1, <2>2, ZenonT(60) DEF TypeOK, CallsTyped, topics, disk, peer, bounds
<1>10. CASE Pause(p)
  <2>1. /\ call[p].obj \in Topics /\ Same /\ CallsTyped'
        /\ UNCHANGED <<topicMap, flag, channels, notes, undone>>
        /\ paused' = [paused EXCEPT ![call[p].obj] = ~@]
    BY <1>0, <1>1, <1>10, CallTypes, ZenonT(60) DEF Ops, Pause, lookupd
  <2> QED
    BY <1>0, <2>1, ZenonT(60) DEF TypeOK, CallsTyped, channels, disk, peer, bounds
<1>11. CASE PausePersist(p)
  <2>1. file' \in Files /\ stale' \in BOOLEAN
    BY <1>0, <1>11, FileTypes, ZenonT(60) DEF PausePersist, PersistMetadata
  <2>2. faults' \in 0 .. MaxFaults /\ requests' \in 0 .. MaxRequests
    BY <1>0, <1>11, LifecycleAssumption DEF PausePersist, PersistMetadata, Fault, bounds, TypeOK
  <2>3. CallsTyped' /\ UNCHANGED <<phase, nsqd, notes, loop, peer, lookupd>>
    BY <1>0, <1>11, CallTypes, ZenonT(60) DEF Ops, PausePersist
  <2> QED
    BY <1>0, <2>1, <2>2, <2>3, ZenonT(60) DEF TypeOK, CallsTyped, nsqd, topics, channels, peer, lookupd
<1> QED
  BY <1>2, <1>3, <1>4, <1>5, <1>6, <1>7, <1>8, <1>9, <1>10, <1>11, ZenonT(60) DEF Handlers

\* What a command leaves in registrationMap, and connectCallback adds.
LEMMA DbTypes ==
  ASSUME NEW regs \in SUBSET (Keys \X Connections), NEW id \in Connections,
         NEW cmd \in [name : {"REGISTER", "UNREGISTER"}, what : Keys]
  PROVE  /\ Execute(regs, cmd, id) \subseteq Keys \X Connections
         /\ regs \cup (Registrations \X {id}) \subseteq Keys \X Connections
  BY DEF Execute, Register, Registrations, Keys

\* The connection lookupPeer has, and the next one, are in their range.
LEMMA PeerTypes ==
  ASSUME ConnInv
  PROVE  conn \in Connections \cup {0} /\ broken \subseteq Connections /\ NextConnection \in Connections
<1>1. PICK b \in 0 .. MaxFaults : broken = 1 .. b /\ conn \in {0, b, b + 1}
  BY DEF ConnInv
<1>2. NextConnection \in Connections
  BY NewConnection, LifecycleAssumption DEF Connections
<1> QED
  BY <1>1, <1>2, LifecycleAssumption DEF Connections

\* A command that is sent keeps the types of nsqlookupd's state.
LEMMA SendTypes ==
  ASSUME NEW regs \in SUBSET (Keys \X Connections), NEW id \in Connections, NEW lost \in SUBSET Keys,
         loop \in [name : {"REGISTER", "UNREGISTER"}, what : Keys], known \in BOOLEAN,
         Send(id, regs, lost)
  PROVE  db' \subseteq Keys \X Connections /\ known' \in BOOLEAN /\ undone' \subseteq Keys
<1>1. Execute(regs, loop, id) \subseteq Keys \X Connections
  BY DbTypes, ZenonT(60)
<1>2. LiveKeys \subseteq Keys
  BY ZenonT(60) DEF LiveKeys
<1> QED
  BY <1>1, <1>2, ZenonT(60) DEF Send

\* lookupLoop keeps the types.
LEMMA LookupTypes ==
  ASSUME LifeTypes, LookupCommand \/ Ping
  PROVE  TypeOK'
<1>0. TypeOK /\ ConnInv
  BY ZenonT(60) DEF LifeTypes
<1>1. UNCHANGED <<phase, nsqd, disk, notes, call, broken, bounds>> /\ loop' \in {loop, NoCommand}
  BY ZenonT(60) DEF LookupCommand, Ping
<1>2. /\ db \subseteq Keys \X Connections /\ known \in BOOLEAN /\ undone \subseteq Keys
      /\ conn \in Connections \cup {0} /\ info \in BOOLEAN /\ NextConnection \in Connections
      /\ loop \in {NoCommand, LoopEnded} \cup [name : {"REGISTER", "UNREGISTER"}, what : Keys]
  BY <1>0, PeerTypes, ZenonT(60) DEF TypeOK
<1>3. db \cup (Registrations \X {NextConnection}) \subseteq Keys \X Connections
  BY <1>2 DEF Registrations, Register, Keys
<1> DEFINE Typed == /\ conn' \in Connections \cup {0} /\ info' \in BOOLEAN
                    /\ db' \subseteq Keys \X Connections /\ known' \in BOOLEAN /\ undone' \subseteq Keys
<1>4. ASSUME Disconnect PROVE Typed
  BY <1>2, <1>4, ZenonT(60) DEF Disconnect
<1>5. ASSUME LookupCommand PROVE Typed
  <2>1. loop \in [name : {"REGISTER", "UNREGISTER"}, what : Keys]
    BY <1>2, <1>5, ZenonT(60) DEF LookupCommand
  <2>2. CASE conn # 0 /\ Send(conn, db, undone) /\ UNCHANGED <<conn, info>>
    BY <1>2, <2>1, <2>2, SendTypes, ZenonT(60)
  <2>3. CASE /\ conn' = NextConnection /\ info' = TRUE
             /\ Send(NextConnection, db \cup (Registrations \X {NextConnection}), {})
    <3>1. ASSUME NEW regs \in SUBSET (Keys \X Connections), Send(NextConnection, regs, {})
          PROVE  db' \subseteq Keys \X Connections /\ known' \in BOOLEAN /\ undone' \subseteq Keys
      BY <1>2, <2>1, <3>1, SendTypes, ZenonT(60)
    <3> QED
      BY <1>2, <1>3, <2>3, <3>1, ZenonT(60)
  <2>4. CASE UNCHANGED <<conn, info, lookupd>>
    BY <1>2, <2>4, ZenonT(60) DEF lookupd
  <2> QED
    BY <1>4, <1>5, <2>2, <2>3, <2>4, ZenonT(60) DEF LookupCommand
<1>6. ASSUME Ping PROVE Typed
  <2>1. CASE /\ conn' = NextConnection /\ info' = TRUE
             /\ db' = db \cup (Registrations \X {NextConnection})
             /\ known' = (known \/ "channel" \in Registrations)
             /\ undone' = {}
    BY <1>2, <1>3, <2>1, ZenonT(60)
  <2> QED
    BY <1>4, <1>6, <2>1, ZenonT(60) DEF Ping
<1>7. Typed
  BY <1>5, <1>6, ZenonT(60)
<1> QED
  BY <1>0, <1>1, <1>7, ZenonT(60) DEF TypeOK, nsqd, topics, channels, disk, bounds

\* The goroutines of Notify keep the types.
LEMMA NotifyTypes ==
  ASSUME LifeTypes, NEW n \in notes, NoteSend(n) \/ NoteExit(n) \/ NotePersist(n)
  PROVE  TypeOK'
<1>0. TypeOK
  BY ZenonT(60) DEF LifeTypes
<1>1. n \in Notes /\ n.what \in Keys /\ [n EXCEPT !.stage = "persist"] \in Notes
  BY <1>0 DEF TypeOK, Notes
<1>2. CASE NoteSend(n)
  <2>1. notes' \subseteq Notes
    BY <1>0, <1>1, <1>2, ZenonT(60) DEF NoteSend, TypeOK
  <2>2. loop' \in [name : {"REGISTER", "UNREGISTER"}, what : Keys]
    BY <1>1, <1>2, ZenonT(60) DEF NoteSend
  <2>3. UNCHANGED <<phase, nsqd, disk, call, peer, lookupd, bounds>>
    BY <1>2, ZenonT(60) DEF NoteSend
  <2> QED
    BY <1>0, <2>1, <2>2, <2>3, ZenonT(60)
    DEF TypeOK, nsqd, topics, channels, disk, peer, lookupd, bounds
<1>3. CASE NoteExit(n)
  <2>1. UNCHANGED <<phase, nsqd, disk, call, loop, peer, lookupd, bounds>> /\ notes' = notes \ {n}
    BY <1>3, ZenonT(60) DEF NoteExit
  <2> QED
    BY <1>0, <2>1, ZenonT(60) DEF TypeOK, nsqd, topics, channels, disk, peer, lookupd, bounds
<1>4. CASE NotePersist(n)
  <2>1. file' \in Files /\ stale' \in BOOLEAN
    BY <1>0, <1>4, FileTypes, ZenonT(60) DEF NotePersist, PersistMetadata
  <2>2. faults' \in 0 .. MaxFaults /\ requests' \in 0 .. MaxRequests
    BY <1>0, <1>4, LifecycleAssumption DEF NotePersist, PersistMetadata, Fault, bounds, TypeOK
  <2>3. UNCHANGED <<phase, nsqd, call, loop, peer, lookupd>> /\ notes' = notes \ {n}
    BY <1>4, ZenonT(60) DEF NotePersist
  <2> QED
    BY <1>0, <2>1, <2>2, <2>3, ZenonT(60) DEF TypeOK, nsqd, topics, channels, peer, lookupd
<1> QED
  BY <1>2, <1>3, <1>4, ZenonT(60)

\* So do the steps of nsqlookupd and of the connection.
LEMMA LookupdTypes ==
  ASSUME LifeTypes,
         \/ \E id \in Connections : LookupdCleanup(id)
         \/ (\E k \in Keys : LookupdDelete(k)) \/ LookupdCreate
         \/ ConnectionBreaks \/ LookupdRestart
  PROVE  TypeOK'
<1>0. TypeOK
  BY ZenonT(60) DEF LifeTypes
<1> DEFINE Kept == /\ UNCHANGED <<phase, nsqd, disk, notes, call, loop, conn, info>>
                   /\ broken' \in {broken, broken \cup ({conn} \ {0})} /\ known' \in BOOLEAN
                   /\ db' \subseteq db /\ undone' \subseteq Keys
<1>1. Kept
  <2>1. known \in BOOLEAN /\ undone \subseteq Keys /\ LiveKeys \subseteq Keys
    BY <1>0, ZenonT(60) DEF TypeOK, LiveKeys
  <2>2. ASSUME NEW id \in Connections, LookupdCleanup(id) PROVE Kept
    BY <2>1, <2>2, ZenonT(60) DEF LookupdCleanup, peer
  <2>3. ASSUME NEW k \in Keys, LookupdDelete(k) PROVE Kept
    BY <2>1, <2>3, ZenonT(60) DEF LookupdDelete, peer
  <2>4. CASE LookupdCreate
    BY <2>1, <2>4, ZenonT(60) DEF LookupdCreate, peer
  <2>5. CASE ConnectionBreaks
    BY <2>1, <2>5, ZenonT(60) DEF ConnectionBreaks, lookupd
  <2>6. CASE LookupdRestart
    BY <2>1, <2>6, ZenonT(60) DEF LookupdRestart
  <2> QED
    BY <2>2, <2>3, <2>4, <2>5, <2>6, ZenonT(60)
<1>2. faults' \in 0 .. MaxFaults /\ requests' \in 0 .. MaxRequests
  <2>1. UNCHANGED bounds \/ Counted \/ Fault
    BY ZenonT(60) DEF LookupdCleanup, LookupdDelete, LookupdCreate, ConnectionBreaks, LookupdRestart
  <2> QED
    BY <1>0, <2>1, LifecycleAssumption DEF Counted, Fault, bounds, TypeOK
<1>3. broken' \subseteq Connections
  <2>1. conn \in Connections \cup {0} /\ broken \subseteq Connections
    BY <1>0, ZenonT(60) DEF TypeOK
  <2> QED
    BY <1>1, <2>1
<1> QED
  BY <1>0, <1>1, <1>2, <1>3, ZenonT(60) DEF TypeOK, nsqd, topics, channels, disk

\* Every step keeps the types.
LEMMA TypeStep ==
  ASSUME LifeTypes, [Next]_vars
  PROVE  TypeOK'
<1>0. TypeOK /\ ConnInv /\ DownInv /\ CallsTyped
  BY ZenonT(60) DEF LifeTypes, TypeOK, CallsTyped
<1>1. ASSUME NEW p \in Callers, NEW op \in Ops, NEW t \in Topics \cup {None}, Request(p, op, t)
      PROVE  TypeOK'
  <2>1. CallsTyped'
    BY <1>0, <1>1, CallTypes, ZenonT(60) DEF Request
  <2>2. requests' \in 0 .. MaxRequests /\ faults' = faults
    BY <1>0, <1>1, LifecycleAssumption DEF Request, Counted, TypeOK
  <2>3. UNCHANGED <<phase, nsqd, disk, notes, loop, peer, lookupd>>
    BY <1>1, ZenonT(60) DEF Request
  <2> QED
    BY <1>0, <2>1, <2>2, <2>3, ZenonT(60) DEF TypeOK, CallsTyped, nsqd, topics, channels, disk, peer, lookupd
<1>2. ASSUME NEW p \in Callers,
             \/ GetTopic(p) \/ DeleteExistingTopic(p)
             \/ \E op \in {"getChannel", "removeChannel", "pause"} : GetExistingTopic(p, op)
      PROVE  TypeOK'
  <2>1. topicMap \in Topics \cup {None}
    BY <1>0, ZenonT(60) DEF TypeOK
  <2> QED
    BY <1>1, <1>2, <2>1, ZenonT(60) DEF GetTopic, DeleteExistingTopic, GetExistingTopic, Ops
<1>3. CASE LoopExit
  <2>1. UNCHANGED <<phase, nsqd, disk, notes, call, peer, lookupd, bounds>> /\ loop' = LoopEnded
    BY <1>3, ZenonT(60) DEF LoopExit
  <2> QED
    BY <1>0, <2>1, ZenonT(60) DEF TypeOK, nsqd, topics, channels, disk, peer, lookupd, bounds
<1>4. CASE Exit
  <2>1. file' \in Files /\ stale' \in BOOLEAN
    BY <1>0, <1>4, FileTypes, ZenonT(60) DEF Exit
  <2>2. faults' \in 0 .. MaxFaults /\ requests' \in 0 .. MaxRequests
    BY <1>0, <1>4, LifecycleAssumption DEF Exit, Fault, TypeOK
  <2>3. /\ flag' \in [Topics -> {"unused", "live", "exiting"}]
        /\ chanFlag' \in [Channels -> {"unused", "live", "exiting"}]
    BY <1>0, <1>4, ZenonT(60) DEF Exit, TypeOK
  <2>4. UNCHANGED <<topicMap, paused, channelMap, notes, call, loop, peer, lookupd>> /\ phase' = "exiting"
    BY <1>4, ZenonT(60) DEF Exit
  <2> QED
    BY <1>0, <2>1, <2>2, <2>3, <2>4, ZenonT(60) DEF TypeOK, peer, lookupd
<1>5. CASE Crash \/ ExitDone
  <2>1. Down /\ faults' \in 0 .. MaxFaults /\ requests' \in 0 .. MaxRequests
    BY <1>0, <1>5, LifecycleAssumption DEF Crash, ExitDone, Fault, bounds, TypeOK
  <2>2. CallsTyped'
    BY <2>1, ZenonT(60) DEF Down, Idle, Ops, CallsTyped
  <2>3. /\ flag' \in [Topics -> {"unused", "live", "exiting"}] /\ paused' \in [Topics -> BOOLEAN]
        /\ channelMap' \in [Topics -> Channels \cup {None}]
        /\ chanFlag' \in [Channels -> {"unused", "live", "exiting"}]
    BY <2>1, ZenonT(60) DEF Down
  <2>4. broken' \subseteq Connections
    <3>1. conn \in Connections \cup {0} /\ broken \subseteq Connections
      BY <1>0, ZenonT(60) DEF TypeOK
    <3> QED
      BY <2>1, <3>1 DEF Down
  <2> QED
    BY <1>0, <2>1, <2>2, <2>3, <2>4, ZenonT(60) DEF Down, TypeOK, CallsTyped, disk
<1>6. CASE LoadMetadata
  <2>0. UNCHANGED <<file, call, loop, peer, lookupd, bounds>> /\ phase' = "running" /\ stale' = FALSE
    BY <1>6, ZenonT(60) DEF LoadMetadata
  <2>1. CASE UNCHANGED <<nsqd, notes>>
    BY <1>0, <2>0, <2>1, ZenonT(60) DEF TypeOK, nsqd, topics, channels, peer, lookupd, bounds
  <2>2. ASSUME NEW topic \in file,
               /\ topicMap' = Fresh /\ flag' = [flag EXCEPT ![Fresh] = "live"]
               /\ paused' = [paused EXCEPT ![Fresh] = topic.paused]
               /\ \/ /\ channelMap' = [channelMap EXCEPT ![Fresh] = FreshChannel]
                     /\ chanFlag' = [chanFlag EXCEPT ![FreshChannel] = "live"]
                     /\ notes' = {Note("topic", Fresh, "new", "sendOnly"),
                                  Note("channel", FreshChannel, "new", "sendOnly")}
                  \/ notes' = {Note("topic", Fresh, "new", "sendOnly")} /\ UNCHANGED channels
        PROVE  TypeOK'
    <3>1. Fresh \in Topics /\ FreshChannel \in Channels
      BY <1>0, <1>6, FreshAtStart, ZenonT(60) DEF LoadMetadata
    <3>2. topic.paused \in BOOLEAN
      BY <1>0 DEF TypeOK, Files
    <3>3. /\ Note("topic", Fresh, "new", "sendOnly") \in Notes
          /\ Note("channel", FreshChannel, "new", "sendOnly") \in Notes
      BY <3>1, NoteTypes, ZenonT(60) DEF Keys
    <3>4. /\ flag' \in [Topics -> {"unused", "live", "exiting"}] /\ paused' \in [Topics -> BOOLEAN]
          /\ channelMap' \in [Topics -> Channels \cup {None}]
          /\ chanFlag' \in [Channels -> {"unused", "live", "exiting"}] /\ notes' \subseteq Notes
      BY <1>0, <2>2, <3>1, <3>2, <3>3, ZenonT(60) DEF TypeOK, channels
    <3> QED
      BY <1>0, <2>0, <2>2, <3>1, <3>4, ZenonT(60) DEF TypeOK, peer, lookupd, bounds
  <2> QED
    BY <1>6, <2>1, <2>2, ZenonT(60) DEF LoadMetadata
<1>7. CASE UNCHANGED vars
  BY <1>0, <1>7, ZenonT(60) DEF vars, TypeOK, nsqd, topics, channels, disk, peer, lookupd, bounds
<1> QED
  BY <1>2, <1>3, <1>4, <1>5, <1>6, <1>7, HandlerTypes, LookupTypes, NotifyTypes, LookupdTypes, ZenonT(60)
  DEF Next, Notifying

\* A caller acts on the topic or the channel it was given.
LEMMA CallStep ==
  ASSUME LifeTypes, [Next]_vars
  PROVE  CallInv'
<1>0. CallInv /\ CallsTyped /\ topicMap \in Topics \cup {None}
  BY ZenonT(60) DEF LifeTypes, TypeOK, CallsTyped
<1>1. ASSUME NEW p \in Callers, NEW op, NEW t, Goto(p, op, t),
             op \in {"idle", "create", "exitChannel"} \/ t \in Topics,
             op = "exitChannel" => t \in Channels,
             op \in {"exit", "purge", "unmap"} => p \in Deleters
      PROVE  CallInv'
  <2>1. call'[p].op = op /\ call'[p].obj = t /\ \A q \in Callers \ {p} : call'[q] = call[q]
    BY <1>0, <1>1, CallNext, ZenonT(60)
  <2> QED
    BY <1>0, <1>1, <2>1, ZenonT(60) DEF CallInv
<1>2. ASSUME NEW p \in Callers, Return(p) PROVE CallInv'
  <2>1. call'[p].op = "idle" /\ \A q \in Callers \ {p} : call'[q] = call[q]
    BY <1>0, <1>2, CallNext, ZenonT(60)
  <2> QED
    BY <1>0, <2>1, ZenonT(60) DEF CallInv
<1>3. ASSUME NEW p \in Callers,
             \/ GetTopic(p) \/ DeleteExistingTopic(p)
             \/ \E op \in {"getChannel", "removeChannel", "pause"} : GetExistingTopic(p, op)
      PROVE  CallInv'
  <2>1. CASE GetTopic(p)
    BY <1>1, <2>1, ZenonT(60) DEF GetTopic, Request
  <2>2. CASE DeleteExistingTopic(p)
    BY <1>0, <1>1, <2>2, ZenonT(60) DEF DeleteExistingTopic, Request
  <2>3. ASSUME NEW op \in {"getChannel", "removeChannel", "pause"}, GetExistingTopic(p, op)
        PROVE  CallInv'
    BY <1>0, <1>1, <2>3, ZenonT(60) DEF GetExistingTopic, Request
  <2> QED
    BY <1>3, <2>1, <2>2, <2>3, ZenonT(60)
<1>4. ASSUME NEW p \in Callers, Handlers(p) PROVE CallInv'
  <2>1. /\ call[p].op \notin {"idle", "create", "exitChannel"} => call[p].obj \in Topics
        /\ call[p].op \in {"exit", "purge", "unmap"} => p \in Deleters
    BY <1>0, ZenonT(60) DEF CallInv
  <2>2. CASE GetTopicLocked(p)
    BY <1>1, <1>2, <2>2, FreshUnused, ZenonT(60) DEF GetTopicLocked, MakeTopic
  <2>3. CASE TopicExit(p) \/ TopicPurge(p)
    BY <1>1, <2>1, <2>3, ZenonT(60) DEF TopicExit, TopicPurge
  <2>4. CASE DeleteExistingChannel(p)
    <3>1. channelMap[call[p].obj] \in Channels \cup {None}
      BY <2>1, <2>4, ZenonT(60) DEF DeleteExistingChannel, LifeTypes, TypeOK
    <3> QED
      BY <1>1, <1>2, <2>4, <3>1, ZenonT(60) DEF DeleteExistingChannel
  <2>5. CASE Pause(p) \/ GetTopicQuery(p)
    BY <1>1, <1>2, <2>1, <2>5, ZenonT(60) DEF Pause, GetTopicQuery
  <2>6. CASE TopicUnmap(p) \/ GetChannel(p) \/ ChannelExit(p) \/ PausePersist(p)
    BY <1>2, <2>6, ZenonT(60) DEF TopicUnmap, GetChannel, ChannelExit, PausePersist
  <2> QED
    BY <1>4, <2>2, <2>3, <2>4, <2>5, <2>6, ZenonT(60) DEF Handlers
<1>5. CASE UNCHANGED call
  BY <1>0, <1>5, ZenonT(60) DEF CallInv
<1>6. ASSUME \/ Notifying \/ LookupCommand \/ Ping \/ LoopExit
             \/ (\E id \in Connections : LookupdCleanup(id))
             \/ (\E k \in Keys : LookupdDelete(k)) \/ LookupdCreate
             \/ ConnectionBreaks \/ LookupdRestart \/ Exit \/ LoadMetadata \/ UNCHANGED vars
      PROVE  UNCHANGED call
  BY <1>6, ZenonT(60) DEF Notifying, NoteSend, NoteExit, NotePersist, LookupCommand, Ping, LoopExit,
     LookupdCleanup, LookupdDelete, LookupdCreate, ConnectionBreaks, LookupdRestart, Exit, LoadMetadata, vars
<1>7. CASE Crash \/ ExitDone
  <2>1. \A p \in Callers : call'[p] = Idle
    BY <1>7, ZenonT(60) DEF Crash, ExitDone, Down
  <2> QED
    BY <2>1, IdleFields, ZenonT(60) DEF CallInv
<1> QED
  BY <1>3, <1>4, <1>5, <1>6, <1>7, ZenonT(60) DEF Next

\* What no handler of a request touches.
LEMMA HandlerFrame ==
  ASSUME NEW p \in Callers, Handlers(p)
  PROVE  UNCHANGED <<phase, loop, peer, db, known>> /\ faults' \in {faults, faults + 1}
BY ZenonT(60) DEF Handlers, GetTopicLocked, GetTopicQuery, TopicExit, TopicPurge, TopicUnmap, GetChannel,
   DeleteExistingChannel, ChannelExit, Pause, PausePersist, PersistMetadata, Fault, bounds, lookupd

\* A request that begins changes its caller alone.
LEMMA RequestFrame ==
  ASSUME NEW p \in Callers,
         \/ GetTopic(p) \/ DeleteExistingTopic(p)
         \/ \E op \in {"getChannel", "removeChannel", "pause"} : GetExistingTopic(p, op)
  PROVE  /\ phase = "running" /\ call[p] = Idle
         /\ UNCHANGED <<phase, nsqd, disk, notes, loop, peer, lookupd, faults>>
         /\ \E op \in {"create", "exit", "getChannel", "removeChannel", "pause"} :
                Goto(p, op, topicMap) /\ (op = "exit" => p \in Deleters)
BY ZenonT(60) DEF GetTopic, DeleteExistingTopic, GetExistingTopic, Request, Counted

\* Connections are used up in order.
LEMMA ConnStep ==
  ASSUME LifeTypes, [Next]_vars
  PROVE  ConnInv'
<1>0. ConnInv /\ DownInv /\ faults \in 0 .. MaxFaults
  BY ZenonT(60) DEF LifeTypes, TypeOK
<1>1. PICK b \in 0 .. MaxFaults : /\ broken = 1 .. b /\ conn \in {0, b, b + 1}
                                  /\ b =< faults /\ (phase = "exiting" => b < faults)
  BY <1>0 DEF ConnInv
<1>2. CASE UNCHANGED <<broken, phase>> /\ conn' \in {conn, 0} /\ faults' \in {faults, faults + 1}
  BY <1>0, <1>1, <1>2 DEF ConnInv
<1>3. CASE UNCHANGED <<broken, phase, faults>> /\ conn' = NextConnection
  <2>1. NextConnection = b + 1
    <3>1. PICK c \in 0 .. MaxFaults : broken = 1 .. c /\ NextConnection = c + 1
      BY <1>0, NewConnection
    <3>2. b = c
      <4>1. \A i \in 0 .. MaxFaults + 1 : (i \in 1 .. b <=> i \in 1 .. c)
        BY <1>1, <3>1, ZenonT(60)
      <4> QED
        BY <4>1, LifecycleAssumption
    <3> QED
      BY <3>1, <3>2
  <2> QED
    BY <1>1, <1>3, <2>1 DEF ConnInv
<1>4. CASE ConnectionBreaks \/ LookupdRestart
  <2>1. /\ conn # 0 /\ conn \notin broken /\ broken' = broken \cup {conn} /\ conn' = conn
        /\ faults < MaxFaults /\ faults' = faults + 1 /\ phase' = phase
    BY <1>4, ZenonT(60) DEF ConnectionBreaks, LookupdRestart, Fault
  <2>2. conn = b + 1 /\ b + 1 \in 0 .. MaxFaults
    BY <1>0, <1>1, <2>1, LifecycleAssumption
  <2>3. broken' = 1 .. b + 1
    BY <1>1, <2>1, <2>2
  <2>4. b + 1 =< faults' /\ (phase' = "exiting" => b + 1 < faults')
    BY <1>0, <1>1, <2>1
  <2> QED
    BY <2>1, <2>2, <2>3, <2>4, ZenonT(60) DEF ConnInv
<1>5. CASE Exit
  <2>1. UNCHANGED <<broken, conn>> /\ faults' = faults + 1 /\ phase' = "exiting"
    BY <1>5, ZenonT(60) DEF Exit, Fault, peer
  <2> QED
    BY <1>0, <1>1, <2>1 DEF ConnInv
<1>6. CASE Crash \/ ExitDone
  <2>1. /\ phase' = "down" /\ conn' = 0 /\ broken' = broken \cup ({conn} \ {0})
        /\ \/ faults < MaxFaults /\ faults' = faults + 1
           \/ phase = "exiting" /\ faults' = faults
    BY <1>6, ZenonT(60) DEF Crash, ExitDone, Down, Fault, bounds
  <2>2. CASE conn \in {0, b}
    <3>1. broken' = 1 .. b
      BY <1>1, <2>1, <2>2
    <3> QED
      BY <1>0, <1>1, <2>1, <3>1 DEF ConnInv
  <2>3. CASE conn = b + 1
    <3>1. broken' = 1 .. b + 1
      BY <1>1, <2>1, <2>3
    <3>2. b + 1 =< faults' /\ b + 1 \in 0 .. MaxFaults
      BY <1>0, <1>1, <2>1, LifecycleAssumption
    <3> QED
      BY <2>1, <3>1, <3>2 DEF ConnInv
  <2> QED
    BY <1>1, <2>2, <2>3, ZenonT(60)
<1>7. CASE LoadMetadata
  <2>1. UNCHANGED <<broken, conn, faults>> /\ phase' = "running"
    BY <1>7, ZenonT(60) DEF LoadMetadata, peer, bounds
  <2> QED
    BY <1>1, <2>1 DEF ConnInv
<1>8. ASSUME UNCHANGED <<phase, peer>>, faults' \in {faults, faults + 1} PROVE ConnInv'
  BY <1>2, <1>8, ZenonT(60) DEF peer
<1>9. ASSUME NEW p \in Callers,
             \/ GetTopic(p) \/ DeleteExistingTopic(p) \/ Handlers(p)
             \/ \E op \in {"getChannel", "removeChannel", "pause"} : GetExistingTopic(p, op)
      PROVE  ConnInv'
  BY <1>8, <1>9, HandlerFrame, RequestFrame, ZenonT(60)
<1>10. ASSUME \/ Notifying \/ LoopExit \/ (\E id \in Connections : LookupdCleanup(id))
              \/ (\E k \in Keys : LookupdDelete(k)) \/ LookupdCreate \/ UNCHANGED vars
       PROVE  UNCHANGED <<phase, peer>> /\ faults' \in {faults, faults + 1}
  BY <1>10, ZenonT(60) DEF Notifying, NoteSend, NoteExit, NotePersist, PersistMetadata, Fault, LoopExit,
     LookupdCleanup, LookupdDelete, LookupdCreate, Counted, vars, bounds
<1>11. CASE LookupCommand \/ Ping
  <2>1. UNCHANGED <<broken, phase, faults>> /\ conn' \in {0, conn, NextConnection}
    BY <1>11, ZenonT(60) DEF LookupCommand, Ping, Disconnect, bounds
  <2> QED
    BY <1>2, <1>3, <2>1, ZenonT(60)
<1> QED
  BY <1>4, <1>5, <1>6, <1>7, <1>8, <1>9, <1>10, <1>11, ZenonT(60) DEF Next

\* A process that is down does nothing but start.
LEMMA DownStep ==
  ASSUME LifeTypes, [Next]_vars
  PROVE  DownInv'
<1>0. DownInv /\ conn \in Connections \cup {0}
  BY ZenonT(60) DEF LifeTypes, TypeOK
<1>1. CASE Crash \/ ExitDone
  BY <1>1, ZenonT(60) DEF Crash, ExitDone, Down, DownInv
<1>2. CASE phase' # "down"
  BY <1>2 DEF DownInv
<1>3. CASE UNCHANGED <<phase, nsqd, notes, call, loop, conn>>
  BY <1>0, <1>3, ZenonT(60) DEF DownInv, nsqd, topics, channels
<1>4. ASSUME NEW p \in Callers, Handlers(p), phase = "down" PROVE FALSE
  <2>1. call[p].op = "idle"
    BY <1>0, <1>4, IdleFields, ZenonT(60) DEF DownInv
  <2> QED
    BY <1>4, <2>1, ZenonT(60) DEF Handlers,
        GetTopicLocked, GetTopicQuery, TopicExit, TopicPurge, TopicUnmap, GetChannel,
        DeleteExistingChannel, ChannelExit, Pause, PausePersist
<1>5. ASSUME phase = "down", Notifying \/ LookupCommand \/ Ping \/ LoopExit \/ ConnectionBreaks
             \/ LookupdRestart \/ Exit
      PROVE  FALSE
  BY <1>0, <1>5, ZenonT(60) DEF DownInv, Notifying, LookupCommand, Ping, LoopExit, ConnectionBreaks,
                    LookupdRestart, Exit
<1>6. ASSUME NEW p \in Callers,
             \/ GetTopic(p) \/ DeleteExistingTopic(p)
             \/ \E op \in {"getChannel", "removeChannel", "pause"} : GetExistingTopic(p, op)
      PROVE  phase' = "running"
  BY <1>6, RequestFrame, ZenonT(60)
<1>7. ASSUME Notifying \/ LookupCommand \/ Ping \/ LoopExit \/ ConnectionBreaks \/ LookupdRestart
      PROVE  phase' = phase
  BY <1>7, ZenonT(60) DEF Notifying, NoteSend, NoteExit, NotePersist, LookupCommand, Ping, LoopExit,
              ConnectionBreaks, LookupdRestart
<1>8. CASE \/ (\E id \in Connections : LookupdCleanup(id))
           \/ (\E k \in Keys : LookupdDelete(k)) \/ LookupdCreate \/ UNCHANGED vars
  BY <1>3, <1>8, ZenonT(60) DEF LookupdCleanup, LookupdDelete, LookupdCreate, vars, peer
<1>9. CASE Exit \/ LoadMetadata
  BY <1>2, <1>9, ZenonT(60) DEF Exit, LoadMetadata
<1>10. ASSUME NEW p \in Callers, Handlers(p) PROVE DownInv'
  BY <1>2, <1>4, <1>10, HandlerFrame, ZenonT(60)
<1> QED
  BY <1>1, <1>2, <1>5, <1>6, <1>7, <1>8, <1>9, <1>10, ZenonT(60) DEF Next

\* A step keeps the types and what they rest on.
LEMMA LifeTypesStep ==
  ASSUME LifeTypes, [Next]_vars
  PROVE  LifeTypes'
BY TypeStep, CallStep, ConnStep, DownStep, ZenonT(60) DEF LifeTypes

-----------------------------------------------------------------------------
(* The channels.                                                           *)

\* What the handlers and notes of a channel rest on.
LEMMA ChanFacts ==
  ASSUME LifeTypes, ChanInv, phase = "running"
  PROVE  /\ channelMap \in [Topics -> Channels \cup {None}]
         /\ chanFlag \in [Channels -> {"unused", "live", "exiting"}]
         /\ \A t \in Topics : channelMap[t] # None =>
                channelMap[t] \in Channels /\ chanFlag[channelMap[t]] = "live"
         /\ OneTopic /\ OneLeaving
         /\ \A p \in Callers : Leaving(p) =>
               /\ call[p].obj \in Channels /\ chanFlag[call[p].obj] = "live"
               /\ \A t \in Topics : channelMap[t] # call[p].obj
         /\ \A p \in Callers : call[p].op \in {"idle", "create", "exitChannel"} \/ call[p].obj \in Topics
BY ZenonT(60) DEF LifeTypes, TypeOK, CallInv, ChanInv, MappedLive, LeavingLive, Leaving

\* Who is on the way to delete a channel was so before.
LEMMA LeavingKept ==
  ASSUME OneLeaving, \A q \in Callers : Leaving(q)' => call'[q] = call[q]
  PROVE  OneLeaving'
BY ZenonT(60) DEF OneLeaving, Leaving

\* A handler that leaves the channels alone and does not go on to delete one.
LEMMA ChanKept ==
  ASSUME ChanInv, phase' = phase, UNCHANGED channels,
         \A q \in Callers : call'[q] = call[q] \/ ~Leaving(q)'
  PROVE  ChanInv'
<1>1. UNCHANGED <<channelMap, chanFlag>>
  BY ZenonT(60) DEF channels
<1>2. OneLeaving => OneLeaving'
  BY LeavingKept, ZenonT(60)
<1>3. LeavingLive => LeavingLive'
  BY <1>1, ZenonT(60) DEF LeavingLive, Leaving
<1> QED
  BY <1>1, <1>2, <1>3, ZenonT(60) DEF ChanInv, MappedLive, OneTopic

\* The handlers: a new channel was unused before; one that is deleted is taken out of
\* its map under the topic's lock, by one caller.
LEMMA ChanHandlers ==
  ASSUME LifeTypes, ChanInv, NEW p \in Callers, Handlers(p)
  PROVE  ChanInv'
<1>0. CallsTyped /\ phase' = phase /\ None \notin Channels
  BY HandlerFrame, NoneOutside, ZenonT(60) DEF LifeTypes, TypeOK, CallsTyped
<1>1. SUFFICES ASSUME phase = "running" PROVE ChanInv'
  BY <1>0, ZenonT(60) DEF ChanInv
<1>2. /\ \A op, obj : Goto(p, op, obj) =>
             /\ call'[p].op = op /\ call'[p].obj = obj
             /\ \A q \in Callers \ {p} : call'[q] = call[q]
      /\ Return(p) => call'[p].op = "idle" /\ \A q \in Callers \ {p} : call'[q] = call[q]
  BY <1>0, CallNext, ZenonT(60)
<1>3. CASE GetTopicLocked(p) \/ GetTopicQuery(p) \/ TopicExit(p) \/ TopicUnmap(p) \/ Pause(p) \/ PausePersist(p)
  <2>1. /\ UNCHANGED channels
        /\ Return(p) \/ \E op \in {"query", "getChannel", "purge", "unmap", "persist"} : \E obj : Goto(p, op, obj)
    BY <1>3, ZenonT(60) DEF GetTopicLocked, MakeTopic, GetTopicQuery, TopicExit, TopicUnmap, Pause, PausePersist,
       nsqd
  <2>2. \A q \in Callers : call'[q] = call[q] \/ ~Leaving(q)'
    BY <1>2, <2>1, ZenonT(60) DEF Leaving
  <2> QED
    BY <1>0, <2>1, <2>2, ChanKept, ZenonT(60)
<1>4. CASE GetChannel(p)
  <2> DEFINE t == call[p].obj
             c == FreshChannel
  <2>0. \A q \in Callers : Leaving(q)' => call'[q] = call[q]
    BY <1>2, <1>4, ZenonT(60) DEF GetChannel, Leaving
  <2>1. CASE UNCHANGED channels
    BY <1>0, <2>0, <2>1, ChanKept, ZenonT(60)
  <2>2. CASE /\ UnusedChannels # {}
             /\ channelMap' = [channelMap EXCEPT ![t] = c] /\ chanFlag' = [chanFlag EXCEPT ![c] = "live"]
    <3>1. c \in Channels /\ chanFlag[c] = "unused"
      BY <2>2, FreshUnused, ZenonT(60)
    <3>2. t \in Topics
      BY <1>1, <1>4, ChanFacts, ZenonT(60) DEF GetChannel
    <3>3. /\ \A u \in Topics : channelMap[u] # c
          /\ \A q \in Callers : Leaving(q) => call[q].obj # c
      BY <1>0, <1>1, <3>1, ChanFacts, ZenonT(60)
    <3>4. channelMap'[t] = c /\ \A u \in Topics \ {t} : channelMap'[u] = channelMap[u]
      BY <1>1, <2>2, <3>2, ChanFacts, ZenonT(60)
    <3>5. chanFlag'[c] = "live" /\ \A d \in Channels : chanFlag[d] = "live" => chanFlag'[d] = "live"
      BY <1>1, <2>2, <3>1, ChanFacts, ZenonT(60)
    <3>6. MappedLive'
      BY <1>1, <3>4, <3>5, ChanFacts, ZenonT(60) DEF MappedLive
    <3>7. OneTopic'
      <4>1. OneTopic
        BY <1>1, ChanFacts, ZenonT(60)
      <4> QED
        BY <3>3, <3>4, <4>1 DEF OneTopic
    <3>8. LeavingLive'
      <4>1. SUFFICES ASSUME NEW q \in Callers, Leaving(q)'
                     PROVE  (chanFlag[call[q].obj] = "live" /\ \A u \in Topics : channelMap[u] # call[q].obj)'
        BY ZenonT(60) DEF LeavingLive
      <4>2. call'[q] = call[q] /\ Leaving(q)
        BY <2>0, <4>1, ZenonT(60) DEF Leaving
      <4>3. /\ call[q].obj \in Channels /\ chanFlag[call[q].obj] = "live" /\ call[q].obj # c
            /\ \A u \in Topics : channelMap[u] # call[q].obj
        BY <1>1, <3>3, <4>2, ChanFacts, ZenonT(60)
      <4> QED
        BY <3>4, <3>5, <4>2, <4>3, ZenonT(60)
    <3>9. OneLeaving'
      BY <1>1, <2>0, ChanFacts, LeavingKept, ZenonT(60)
    <3> QED
      BY <3>6, <3>7, <3>8, <3>9, ZenonT(60) DEF ChanInv
  <2> QED
    BY <1>4, <2>1, <2>2, ZenonT(60) DEF GetChannel
<1>5. CASE TopicPurge(p) \/ DeleteExistingChannel(p)
  <2> DEFINE t == call[p].obj
             c == channelMap[t]
  <2>1. t \in Topics /\ ~Leaving(p)
    BY <1>1, <1>5, ChanFacts, ZenonT(60) DEF TopicPurge, DeleteExistingChannel, Leaving
  <2>2. channelMap'[t] = None /\ \A u \in Topics \ {t} : channelMap'[u] = channelMap[u]
    BY <1>1, <1>5, <2>1, ChanFacts, ZenonT(60) DEF TopicPurge, DeleteExistingChannel
  <2>3. /\ \A d \in Channels : d # c => chanFlag'[d] = chanFlag[d]
        /\ DeleteExistingChannel(p) => chanFlag' = chanFlag
    BY <1>1, <1>5, <2>1, ChanFacts, ZenonT(60) DEF TopicPurge, DeleteChannel, DeleteExistingChannel
  <2>4. /\ \A q \in Callers \ {p} : call'[q] = call[q]
        /\ Leaving(p)' => c # None /\ call'[p].obj = c /\ DeleteExistingChannel(p)
    BY <1>2, <1>5, ZenonT(60) DEF TopicPurge, DeleteExistingChannel, Leaving
  <2>5. \A u \in Topics : channelMap'[u] # c \/ c = None
    BY <1>1, <2>1, <2>2, ChanFacts, ZenonT(60) DEF OneTopic
  <2>6. MappedLive'
    BY <1>1, <2>1, <2>2, <2>3, <2>5, ChanFacts, ZenonT(60) DEF MappedLive
  <2>7. OneTopic'
    BY <1>1, <2>1, <2>2, ChanFacts, ZenonT(60) DEF OneTopic
  <2>8. LeavingLive'
    <3>1. SUFFICES ASSUME NEW q \in Callers, Leaving(q)'
                   PROVE  (chanFlag[call[q].obj] = "live" /\ \A u \in Topics : channelMap[u] # call[q].obj)'
      BY ZenonT(60) DEF LeavingLive
    <3>2. CASE q = p
      <4>1. call'[p].obj = c /\ c # None /\ chanFlag' = chanFlag
        BY <2>3, <2>4, <3>1, <3>2, ZenonT(60)
      <4>2. chanFlag[c] = "live"
        BY <1>1, <2>1, <4>1, ChanFacts, ZenonT(60)
      <4> QED
        BY <2>5, <3>2, <4>1, <4>2, ZenonT(60)
    <3>3. CASE q # p
      <4>1. call'[q] = call[q] /\ Leaving(q)
        BY <2>4, <3>1, <3>3, ZenonT(60) DEF Leaving
      <4>2. /\ call[q].obj \in Channels /\ chanFlag[call[q].obj] = "live" /\ call[q].obj # c
            /\ \A u \in Topics : channelMap[u] # call[q].obj
        BY <1>1, <2>1, <4>1, ChanFacts, ZenonT(60)
      <4>3. chanFlag'[call[q].obj] = "live"
        BY <2>3, <4>2, ZenonT(60)
      <4>4. \A u \in Topics : channelMap'[u] # call[q].obj
        BY <1>0, <2>2, <4>2, ZenonT(60)
      <4> QED
        BY <4>1, <4>3, <4>4, ZenonT(60)
    <3> QED
      BY <3>2, <3>3, ZenonT(60)
  <2>9. OneLeaving'
    <3>1. ASSUME NEW q \in Callers, Leaving(q)', q # p
          PROVE  call'[q] = call[q] /\ Leaving(q) /\ call[q].obj # c
      <4>1. call'[q] = call[q] /\ Leaving(q)
        BY <2>4, <3>1, ZenonT(60) DEF Leaving
      <4> QED
        BY <1>1, <2>1, <4>1, ChanFacts, ZenonT(60)
    <3>2. OneLeaving
      BY <1>1, ChanFacts, ZenonT(60)
    <3>3. SUFFICES ASSUME NEW q \in Callers, NEW r \in Callers, Leaving(q)', Leaving(r)', call'[q].obj = call'[r].obj
                   PROVE  q = r
      BY ZenonT(60) DEF OneLeaving
    <3>4. CASE q # p /\ r # p
      BY <3>1, <3>2, <3>3, <3>4, ZenonT(60) DEF OneLeaving
    <3>5. CASE q = p \/ r = p
      BY <2>4, <3>1, <3>3, <3>5, ZenonT(60)
    <3> QED
      BY <3>4, <3>5, ZenonT(60)
  <2> QED
    BY <2>6, <2>7, <2>8, <2>9, ZenonT(60) DEF ChanInv
<1>6. CASE ChannelExit(p)
  <2> DEFINE c == call[p].obj
  <2>1. Leaving(p) /\ UNCHANGED channelMap /\ c \in Channels
    BY <1>1, <1>6, ChanFacts, ZenonT(60) DEF ChannelExit, Leaving
  <2>2. \A d \in Channels : d # c => chanFlag'[d] = chanFlag[d]
    BY <1>1, <1>6, <2>1, ChanFacts, ZenonT(60) DEF ChannelExit, DeleteChannel
  <2>3. \A q \in Callers : Leaving(q)' => q # p /\ call'[q] = call[q] /\ Leaving(q)
    BY <1>2, <1>6, ZenonT(60) DEF ChannelExit, Leaving
  <2>4. MappedLive' /\ OneTopic'
    BY <1>1, <2>1, <2>2, ChanFacts, ZenonT(60) DEF MappedLive, OneTopic
  <2>5. LeavingLive'
    <3>1. SUFFICES ASSUME NEW q \in Callers, Leaving(q)'
                   PROVE  (chanFlag[call[q].obj] = "live" /\ \A u \in Topics : channelMap[u] # call[q].obj)'
      BY ZenonT(60) DEF LeavingLive
    <3>2. call'[q] = call[q] /\ Leaving(q) /\ q # p
      BY <2>3, <3>1, ZenonT(60)
    <3>3. call[q].obj # c
      BY <1>1, <2>1, <3>2, ChanFacts, ZenonT(60) DEF OneLeaving
    <3>4. /\ call[q].obj \in Channels /\ chanFlag[call[q].obj] = "live"
          /\ \A u \in Topics : channelMap[u] # call[q].obj
      BY <1>1, <3>2, ChanFacts, ZenonT(60)
    <3> QED
      BY <2>1, <2>2, <3>2, <3>3, <3>4, ZenonT(60)
  <2>6. OneLeaving'
    BY <1>1, <2>3, ChanFacts, LeavingKept, ZenonT(60)
  <2> QED
    BY <2>4, <2>5, <2>6, ZenonT(60) DEF ChanInv
<1> QED
  BY <1>3, <1>4, <1>5, <1>6, ZenonT(60) DEF Handlers

\* Everything else leaves the channels alone, ends the process or starts it.
LEMMA ChanStep ==
  ASSUME LifeTypes, ChanInv, [Next]_vars
  PROVE  ChanInv'
<1>0. CallsTyped /\ DownInv
  BY ZenonT(60) DEF LifeTypes, TypeOK, CallsTyped
<1>1. ASSUME NEW p \in Callers,
             \/ GetTopic(p) \/ DeleteExistingTopic(p)
             \/ \E op \in {"getChannel", "removeChannel", "pause"} : GetExistingTopic(p, op)
      PROVE  ChanInv'
  <2>1. /\ UNCHANGED <<phase, nsqd>>
        /\ \E op \in {"create", "exit", "getChannel", "removeChannel", "pause"} : Goto(p, op, topicMap)
    BY <1>1, RequestFrame, ZenonT(60)
  <2>2. \A q \in Callers : call'[q] = call[q] \/ ~Leaving(q)'
    BY <1>0, <2>1, CallNext, ZenonT(60) DEF Leaving
  <2> QED
    BY <2>1, <2>2, ChanKept, ZenonT(60) DEF nsqd
<1>2. CASE \/ Notifying \/ LookupCommand \/ Ping \/ LoopExit
           \/ (\E id \in Connections : LookupdCleanup(id))
           \/ (\E k \in Keys : LookupdDelete(k)) \/ LookupdCreate
           \/ ConnectionBreaks \/ LookupdRestart \/ UNCHANGED vars
  <2>1. UNCHANGED <<phase, nsqd, call>>
    BY <1>2, ZenonT(60) DEF Notifying, NoteSend, NoteExit, NotePersist, LookupCommand, Ping, LoopExit,
       LookupdCleanup, LookupdDelete, LookupdCreate, ConnectionBreaks, LookupdRestart, vars
  <2> QED
    BY <2>1, ChanKept, ZenonT(60) DEF nsqd
<1>3. CASE Exit \/ Crash \/ ExitDone
  <2>1. phase' # "running"
    BY <1>3 DEF Exit, Crash, ExitDone, Down
  <2> QED
    BY <2>1, ZenonT(60) DEF ChanInv
<1>4. CASE LoadMetadata
  <2>1. /\ \A t \in Topics : channelMap[t] = None
        /\ \A p \in Callers : call'[p].op = "idle"
        /\ Fresh \in Topics /\ FreshChannel \in Channels
    BY <1>0, <1>4, FreshAtStart, IdleFields, ZenonT(60) DEF LoadMetadata, DownInv
  <2>2. \/ UNCHANGED channels
        \/ /\ channelMap' = [channelMap EXCEPT ![Fresh] = FreshChannel]
           /\ chanFlag' = [chanFlag EXCEPT ![FreshChannel] = "live"]
    BY <1>4, ZenonT(60) DEF LoadMetadata, nsqd
  <2>3. \/ \A t \in Topics : channelMap'[t] = None
        \/ /\ channelMap'[Fresh] = FreshChannel /\ chanFlag'[FreshChannel] = "live"
           /\ \A t \in Topics \ {Fresh} : channelMap'[t] = None
    BY <2>1, <2>2, ZenonT(60) DEF LifeTypes, TypeOK, channels
  <2> QED
    BY <2>1, <2>3, ZenonT(60) DEF ChanInv, MappedLive, OneTopic, LeavingLive, OneLeaving, Leaving
<1> QED
  BY <1>1, <1>2, <1>3, <1>4, ChanHandlers, ZenonT(60) DEF Next

-----------------------------------------------------------------------------
(* The metadata file.                                                      *)

\* Who is going to persist still is after a step of another.
LEMMA PersistingKept ==
  ASSUME \A n \in notes : n.stage # "sendOnly" => \E m \in notes' : m.stage # "sendOnly",
         \A p \in Callers : call[p].op \in {"persist", "exitChannel"} => call'[p] = call[p]
  PROVE  Persisting => Persisting'
BY ZenonT(60) DEF Persisting

\* The name, the pause and the channel are all the file is made of.
LEMMA MetadataKept ==
  ASSUME UNCHANGED <<topicMap, channelMap, paused>>
  PROVE  Metadata' = Metadata
BY ZenonT(60) DEF Metadata

\* A caller that changes nothing the file has, or somebody who will persist.
LEMMA FileKept ==
  ASSUME FileInv, phase' = phase, UNCHANGED <<topicMap, channelMap, paused, disk>>,
         Persisting => Persisting'
  PROVE  FileInv'
BY MetadataKept, ZenonT(60) DEF FileInv, disk

\* A handler that changes what the file has leaves somebody to persist it.
LEMMA FileHandlers ==
  ASSUME LifeTypes, ChanInv, FileInv, NEW p \in Callers, Handlers(p)
  PROVE  FileInv'
<1>0. CallsTyped /\ phase' = phase
  BY HandlerFrame, ZenonT(60) DEF LifeTypes, TypeOK, CallsTyped
<1>1. SUFFICES ASSUME phase = "running" PROVE FileInv'
  BY <1>0, ZenonT(60) DEF FileInv
<1>2. ASSUME \/ \E what, obj, event : notes' = notes \cup {Note(what, obj, event, "send")}
             \/ \E obj : Goto(p, "exitChannel", obj) \/ Goto(p, "persist", obj)
      PROVE  FileInv'
  <2>1. CASE \E what, obj, event : notes' = notes \cup {Note(what, obj, event, "send")}
    <3>1. PICK what, obj, event : notes' = notes \cup {Note(what, obj, event, "send")}
      BY <2>1, ZenonT(60)
    <3>2. Note(what, obj, event, "send").stage = "send"
      BY ZenonT(60) DEF Note
    <3> QED
      BY <3>1, <3>2, ZenonT(60) DEF Persisting, FileInv
  <2>2. CASE \E obj : Goto(p, "exitChannel", obj) \/ Goto(p, "persist", obj)
    BY <1>0, <2>2, CallNext, ZenonT(60) DEF Persisting, FileInv
  <2> QED
    BY <1>2, <2>1, <2>2, ZenonT(60)
<1>3. ASSUME call[p].op \notin {"persist", "exitChannel"},
             UNCHANGED <<notes, topicMap, channelMap, paused, disk>>, Return(p) \/ \E op, obj : Goto(p, op, obj)
      PROVE  FileInv'
  <2>1. \A q \in Callers \ {p} : call'[q] = call[q]
    BY <1>0, <1>3, CallNext, ZenonT(60)
  <2>2. Persisting => Persisting'
    BY <1>3, <2>1, PersistingKept, ZenonT(60)
  <2> QED
    BY <1>0, <1>3, <2>2, FileKept, ZenonT(60)
<1>4. \A t \in Topics : channelMap[t] = None => [channelMap EXCEPT ![t] = None] = channelMap
  BY <1>1, ChanFacts
<1>5. ASSUME NEW c, chanFlag[c] = "live", DeleteChannel(c) PROVE FileInv'
  BY <1>2, <1>5, ZenonT(60) DEF DeleteChannel
<1>6. CASE GetTopicLocked(p)
  BY <1>2, <1>3, <1>6, ZenonT(60) DEF GetTopicLocked, MakeTopic, channels
<1>7. CASE GetTopicQuery(p)
  BY <1>3, <1>7, ZenonT(60) DEF GetTopicQuery, nsqd, topics, channels
<1>8. CASE GetChannel(p)
  BY <1>2, <1>3, <1>8, ZenonT(60) DEF GetChannel, topics, channels
<1>9. CASE TopicExit(p)
  BY <1>2, <1>3, <1>9, ZenonT(60) DEF TopicExit, channels
<1>10. CASE TopicPurge(p)
  <2>1. call[p].obj \in Topics
    BY <1>1, <1>10, ChanFacts, ZenonT(60) DEF TopicPurge
  <2>2. CASE channelMap[call[p].obj] # None
    BY <1>1, <1>5, <1>10, <2>1, <2>2, ChanFacts, ZenonT(60) DEF TopicPurge
  <2>3. CASE channelMap[call[p].obj] = None
    BY <1>3, <1>4, <1>10, <2>1, <2>3, ZenonT(60) DEF TopicPurge, topics
  <2> QED
    BY <2>2, <2>3, ZenonT(60)
<1>11. CASE TopicUnmap(p)
  BY <1>11, ZenonT(60) DEF TopicUnmap, FileInv
<1>12. CASE DeleteExistingChannel(p)
  <2>1. call[p].obj \in Topics
    BY <1>1, <1>12, ChanFacts, ZenonT(60) DEF DeleteExistingChannel
  <2> QED
    BY <1>2, <1>3, <1>4, <1>12, <2>1, ZenonT(60) DEF DeleteExistingChannel, topics
<1>13. CASE ChannelExit(p)
  BY <1>1, <1>5, <1>13, ChanFacts, ZenonT(60) DEF ChannelExit, Leaving
<1>14. CASE Pause(p)
  BY <1>2, <1>14, ZenonT(60) DEF Pause
<1>15. CASE PausePersist(p)
  <2>1. UNCHANGED <<topicMap, channelMap, paused>> /\ (file' = Metadata \/ stale' = TRUE)
    BY <1>15, ZenonT(60) DEF PausePersist, PersistMetadata, Written, NotWritten, nsqd, topics, channels
  <2> QED
    BY <2>1, MetadataKept, ZenonT(60) DEF FileInv
<1> QED
  BY <1>6, <1>7, <1>8, <1>9, <1>10, <1>11, <1>12, <1>13, <1>14, <1>15, ZenonT(60) DEF Handlers

\* The start finds in memory what it read.
LEMMA FileLoaded ==
  ASSUME LifeTypes, LoadMetadata
  PROVE  topicMap' # None => file' = Metadata'
<1>0. TypeOK /\ DownInv /\ phase = "down"
  BY ZenonT(60) DEF LifeTypes, LoadMetadata
<1>1. CASE file = {}
  BY <1>0, <1>1, ZenonT(60) DEF LoadMetadata, DownInv, nsqd, topics
<1>2. CASE file # {}
  <2>1. PICK topic \in [paused : BOOLEAN, channel : BOOLEAN] : file = {topic}
    BY <1>0, <1>2 DEF TypeOK, Files
  <2>2. Fresh \in Topics /\ FreshChannel \in Channels /\ None \notin Topics /\ None \notin Channels
    BY <1>0, FreshAtStart, NoneOutside, ZenonT(60)
  <2>3. /\ topicMap' = Fresh /\ file' = file
        /\ paused' = [paused EXCEPT ![Fresh] = topic.paused]
        /\ IF topic.channel THEN channelMap' = [channelMap EXCEPT ![Fresh] = FreshChannel]
           ELSE UNCHANGED channelMap
    BY <1>2, <2>1, ZenonT(60) DEF LoadMetadata, channels
  <2>4. paused'[Fresh] = topic.paused
    BY <1>0, <2>2, <2>3, ZenonT(60) DEF TypeOK
  <2>5. channelMap'[Fresh] # None <=> topic.channel
    <3>1. CASE topic.channel
      BY <1>0, <2>2, <2>3, <3>1, ZenonT(60) DEF TypeOK
    <3>2. CASE ~topic.channel
      BY <1>0, <2>2, <2>3, <3>2, ZenonT(60) DEF DownInv
    <3> QED
      BY <3>1, <3>2
  <2>6. [paused |-> paused'[Fresh], channel |-> channelMap'[Fresh] # None] = topic
    <3>1. (channelMap'[Fresh] # None) = topic.channel
      BY <2>1, <2>5
    <3> QED
      BY <2>1, <2>4, <3>1
  <2> QED
    BY <2>1, <2>2, <2>3, <2>6, ZenonT(60) DEF Metadata
<1> QED
  BY <1>1, <1>2, ZenonT(60)

\* So does every other step: a note that was taken by lookupLoop persists next.
LEMMA FileStep ==
  ASSUME LifeTypes, ChanInv, FileInv, [Next]_vars
  PROVE  FileInv'
<1>0. CallsTyped /\ notes \subseteq Notes
  BY ZenonT(60) DEF LifeTypes, TypeOK, CallsTyped
<1>1. ASSUME NEW p \in Callers,
             \/ GetTopic(p) \/ DeleteExistingTopic(p)
             \/ \E op \in {"getChannel", "removeChannel", "pause"} : GetExistingTopic(p, op)
      PROVE  FileInv'
  <2>1. call[p] = Idle /\ UNCHANGED <<phase, nsqd, disk, notes>> /\ \E op, t : Goto(p, op, t)
    BY <1>1, RequestFrame, ZenonT(60)
  <2>2. \A q \in Callers : call[q].op \in {"persist", "exitChannel"} => call'[q] = call[q]
    BY <1>0, <2>1, CallNext, IdleFields, ZenonT(60)
  <2>3. Persisting => Persisting'
    BY <2>1, <2>2, PersistingKept, ZenonT(60)
  <2> QED
    BY <2>1, <2>3, FileKept, ZenonT(60) DEF nsqd, topics, channels
<1>2. ASSUME NEW n \in notes, NoteSend(n) \/ NoteExit(n) \/ NotePersist(n)
      PROVE  FileInv'
  <2>1. CASE NoteSend(n)
    <3>1. ASSUME NEW m \in notes, m.stage # "sendOnly" PROVE \E k \in notes' : k.stage # "sendOnly"
      <4>1. CASE m = n
        <5>1. n \in Notes /\ n.stage = "send"
          BY <1>0, <2>1, <3>1, <4>1, ZenonT(60) DEF NoteSend
        <5>2. [n EXCEPT !.stage = "persist"].stage = "persist"
          BY <5>1 DEF Notes
        <5> QED
          BY <2>1, <5>1, <5>2, ZenonT(60) DEF NoteSend
      <4>2. CASE m # n
        BY <2>1, <3>1, <4>2, ZenonT(60) DEF NoteSend
      <4> QED
        BY <4>1, <4>2
    <3>2. UNCHANGED <<phase, nsqd, disk, call>>
      BY <2>1, ZenonT(60) DEF NoteSend
    <3>3. Persisting => Persisting'
      BY <3>1, <3>2, PersistingKept, ZenonT(60)
    <3> QED
      BY <3>2, <3>3, FileKept, ZenonT(60) DEF nsqd, topics, channels
  <2>2. CASE NoteExit(n)
    BY <2>2, ZenonT(60) DEF NoteExit, FileInv
  <2>3. CASE NotePersist(n)
    <3>1. UNCHANGED <<topicMap, channelMap, paused>> /\ (file' = Metadata \/ stale' = TRUE)
      BY <2>3, ZenonT(60) DEF NotePersist, PersistMetadata, Written, NotWritten, nsqd, topics, channels
    <3> QED
      BY <3>1, MetadataKept, ZenonT(60) DEF FileInv
  <2> QED
    BY <1>2, <2>1, <2>2, <2>3, ZenonT(60)
<1>3. CASE \/ LookupCommand \/ Ping \/ LoopExit \/ (\E id \in Connections : LookupdCleanup(id))
           \/ (\E k \in Keys : LookupdDelete(k)) \/ LookupdCreate
           \/ ConnectionBreaks \/ LookupdRestart \/ UNCHANGED vars
  <2>1. UNCHANGED <<phase, nsqd, disk, notes, call>>
    BY <1>3, ZenonT(60) DEF LookupCommand, Ping, LoopExit, LookupdCleanup, LookupdDelete, LookupdCreate,
       ConnectionBreaks, LookupdRestart, vars
  <2>2. Persisting => Persisting'
    BY <2>1, PersistingKept, ZenonT(60)
  <2> QED
    BY <2>1, <2>2, FileKept, ZenonT(60) DEF nsqd, topics, channels
<1>4. CASE Exit \/ Crash \/ ExitDone
  <2>1. phase' # "running"
    BY <1>4 DEF Exit, Crash, ExitDone, Down
  <2> QED
    BY <2>1, ZenonT(60) DEF FileInv
<1>5. CASE LoadMetadata
  BY <1>5, FileLoaded, ZenonT(60) DEF FileInv
<1> QED
  BY <1>1, <1>2, <1>3, <1>4, <1>5, FileHandlers, ZenonT(60) DEF Next, Notifying

-----------------------------------------------------------------------------
(* The name.                                                               *)

\* With one deleter, the topic that is being deleted keeps the name until it is
\* out of the map, and no other is created meanwhile.
LEMMA NameStep ==
  ASSUME OneDeleter, LifeTypes, NameInv, [Next]_vars
  PROVE  NameInv'
<1>0. TypeOK /\ CallInv /\ CallsTyped
  BY ZenonT(60) DEF LifeTypes, TypeOK, CallsTyped
<1>1. /\ flag \in [Topics -> {"unused", "live", "exiting"}]
      /\ topicMap \in Topics \cup {None} /\ None \notin Topics
  BY <1>0, NoneOutside, ZenonT(60) DEF TypeOK
<1> DEFINE Deleting == {"exit", "purge", "unmap"}
<1>2. \A p, q \in Callers : call[p].op \in Deleting /\ call[q].op \in Deleting => p = q
  BY <1>0, ZenonT(60) DEF CallInv, OneDeleter
<1>3. ASSUME UNCHANGED <<topicMap, flag>>,
             \A q \in Callers : call'[q] = call[q] \/ call'[q].op \notin Deleting
      PROVE  NameInv'
  BY <1>3, ZenonT(60) DEF NameInv
<1>4. ASSUME NEW p \in Callers,
             \/ GetTopic(p) \/ DeleteExistingTopic(p)
             \/ \E op \in {"getChannel", "removeChannel", "pause"} : GetExistingTopic(p, op)
      PROVE  NameInv'
  <2>1. UNCHANGED <<topicMap, flag>> /\ \E op : Goto(p, op, topicMap) /\ op \notin {"purge", "unmap"}
    BY <1>4, RequestFrame, ZenonT(60) DEF nsqd, topics
  <2>2. /\ call'[p].obj = topicMap /\ call'[p].op \notin {"purge", "unmap"}
        /\ \A q \in Callers \ {p} : call'[q] = call[q]
    BY <1>0, <2>1, CallNext, ZenonT(60)
  <2> QED
    BY <2>1, <2>2, ZenonT(60) DEF NameInv
<1>5. ASSUME NEW p \in Callers, GetTopicLocked(p) PROVE NameInv'
  <2>1. CASE topicMap # None
    <3>1. UNCHANGED <<topicMap, flag>> /\ Return(p)
      BY <1>5, <2>1, ZenonT(60) DEF GetTopicLocked
    <3>2. \A q \in Callers : call'[q] = call[q] \/ call'[q].op \notin Deleting
      BY <1>0, <3>1, CallNext, ZenonT(60)
    <3> QED
      BY <1>3, <3>1, <3>2, ZenonT(60)
  <2>2. CASE topicMap = None
    <3>1. /\ topicMap' = Fresh /\ flag' = [flag EXCEPT ![Fresh] = "live"] /\ Goto(p, "query", Fresh)
          /\ Fresh \in Topics
      BY <1>5, <2>2, FreshUnused, ZenonT(60) DEF GetTopicLocked, MakeTopic
    <3>2. \A t \in Topics : flag[t] # "live"
      BY <1>1, <2>2, ZenonT(60) DEF NameInv
    <3>3. \A q \in Callers : call[q].op \notin Deleting
      BY <1>0, <1>1, <2>2, ZenonT(60) DEF NameInv, CallInv
    <3>4. \A q \in Callers : call'[q].op \notin Deleting
      BY <1>0, <3>1, <3>3, CallNext, ZenonT(60)
    <3>5. \A t \in Topics : flag'[t] = "live" => t = Fresh
      BY <1>1, <3>1, <3>2, ZenonT(60)
    <3> QED
      BY <3>1, <3>4, <3>5, ZenonT(60) DEF NameInv
  <2> QED
    BY <2>1, <2>2, ZenonT(60)
<1>6. ASSUME NEW p \in Callers, TopicExit(p) PROVE NameInv'
  <2> DEFINE t == call[p].obj
  <2>1. t \in Topics /\ topicMap = t /\ UNCHANGED topicMap
    BY <1>0, <1>6, ZenonT(60) DEF TopicExit, CallInv, NameInv
  <2>2. /\ flag' = [flag EXCEPT ![t] = "exiting"]
        /\ \E op \in {"purge", "unmap"} : Goto(p, op, t)
    <3>1. CASE flag[t] = "live"
      BY <1>6, <3>1, ZenonT(60) DEF TopicExit
    <3>2. CASE flag[t] = "exiting"
      BY <1>1, <1>6, <2>1, <3>2, ZenonT(60) DEF TopicExit
    <3> QED
      BY <1>6, <3>1, <3>2, ZenonT(60) DEF TopicExit
  <2>3. /\ \A u \in Topics : flag'[u] = "live" => flag[u] = "live"
        /\ flag'[t] # "live"
    BY <1>1, <2>1, <2>2, ZenonT(60)
  <2>4. call'[p].obj = t /\ \A q \in Callers \ {p} : call'[q] = call[q]
    BY <1>0, <2>2, CallNext, ZenonT(60)
  <2> QED
    BY <2>1, <2>3, <2>4, ZenonT(60) DEF NameInv
<1>7. ASSUME NEW p \in Callers, TopicPurge(p) PROVE NameInv'
  <2>1. UNCHANGED <<topicMap, flag>> /\ Goto(p, "unmap", call[p].obj)
    BY <1>7, ZenonT(60) DEF TopicPurge, topics
  <2>2. topicMap = call[p].obj /\ flag[topicMap] # "live"
    BY <1>7, ZenonT(60) DEF TopicPurge, NameInv
  <2>3. call'[p].obj = call[p].obj /\ \A q \in Callers \ {p} : call'[q] = call[q]
    BY <1>0, <2>1, CallNext, ZenonT(60)
  <2> QED
    BY <2>1, <2>2, <2>3, ZenonT(60) DEF NameInv
<1>8. ASSUME NEW p \in Callers, TopicUnmap(p) PROVE NameInv'
  <2>1. topicMap' = None /\ UNCHANGED flag /\ Return(p)
    BY <1>8, ZenonT(60) DEF TopicUnmap
  <2>2. \A t \in Topics : flag[t] # "live"
    BY <1>8, ZenonT(60) DEF TopicUnmap, NameInv
  <2>3. \A q \in Callers : call'[q].op \notin Deleting
    <3>1. call'[p].op = "idle" /\ \A q \in Callers \ {p} : call'[q] = call[q]
      BY <1>0, <2>1, CallNext, ZenonT(60)
    <3>2. \A q \in Callers \ {p} : call[q].op \notin Deleting
      BY <1>2, <1>8, ZenonT(60) DEF TopicUnmap
    <3> QED
      BY <3>1, <3>2, ZenonT(60)
  <2> QED
    BY <2>1, <2>2, <2>3, ZenonT(60) DEF NameInv
<1>9. ASSUME NEW p \in Callers,
             \/ GetTopicQuery(p) \/ GetChannel(p) \/ DeleteExistingChannel(p) \/ ChannelExit(p)
             \/ Pause(p) \/ PausePersist(p)
      PROVE  NameInv'
  <2>1. /\ UNCHANGED <<topicMap, flag>>
        /\ Return(p) \/ \E op \in {"getChannel", "exitChannel", "persist"} : \E obj : Goto(p, op, obj)
    BY <1>9, ZenonT(60) DEF GetTopicQuery, GetChannel, DeleteExistingChannel, ChannelExit, Pause, PausePersist,
       nsqd, topics
  <2>2. \A q \in Callers : call'[q] = call[q] \/ call'[q].op \notin Deleting
    BY <1>0, <2>1, CallNext, ZenonT(60)
  <2> QED
    BY <1>3, <2>1, <2>2, ZenonT(60)
<1>10. CASE \/ Notifying \/ LookupCommand \/ Ping \/ LoopExit
            \/ (\E id \in Connections : LookupdCleanup(id))
            \/ (\E k \in Keys : LookupdDelete(k)) \/ LookupdCreate
            \/ ConnectionBreaks \/ LookupdRestart \/ UNCHANGED vars
  <2>1. UNCHANGED <<nsqd, call>>
    BY <1>10, ZenonT(60) DEF Notifying, NoteSend, NoteExit, NotePersist, LookupCommand, Ping, LoopExit,
       LookupdCleanup, LookupdDelete, LookupdCreate, ConnectionBreaks, LookupdRestart, vars
  <2> QED
    BY <1>3, <2>1, ZenonT(60) DEF nsqd, topics
<1>11. CASE Exit
  <2>1. /\ UNCHANGED <<topicMap, call>>
        /\ \A t \in Topics : flag'[t] \in {flag[t], "exiting"}
    BY <1>11, ZenonT(60) DEF Exit
  <2>2. ASSUME NEW p \in Callers, call[p].op \in {"purge", "unmap"}
        PROVE  flag'[topicMap] # "live"
    BY <1>0, <2>1, <2>2, ZenonT(60) DEF CallInv, NameInv
  <2> QED
    BY <2>1, <2>2, ZenonT(60) DEF NameInv
<1>12. CASE Crash \/ ExitDone
  <2>1. (\A t \in Topics : flag'[t] = "unused") /\ \A p \in Callers : call'[p] = Idle
    BY <1>12, ZenonT(60) DEF Crash, ExitDone, Down
  <2> QED
    BY <2>1, IdleFields, ZenonT(60) DEF NameInv
<1>13. CASE LoadMetadata
  <2>1. /\ \A p \in Callers : call'[p] = Idle
        /\ \A t \in Topics : flag[t] = "unused"
    BY <1>13, ZenonT(60) DEF LoadMetadata, LifeTypes, DownInv
  <2>2. \/ UNCHANGED <<topicMap, flag>>
        \/ topicMap' = Fresh /\ flag' = [flag EXCEPT ![Fresh] = "live"]
    BY <1>13, ZenonT(60) DEF LoadMetadata, nsqd, topics
  <2>3. \A t \in Topics : flag'[t] = "live" => topicMap' = t
    BY <1>1, <2>1, <2>2, ZenonT(60)
  <2> QED
    BY <2>1, <2>3, IdleFields, ZenonT(60) DEF NameInv
<1> QED
  BY <1>4, <1>5, <1>6, <1>7, <1>8, <1>9, <1>10, <1>11, <1>12, <1>13, ZenonT(60) DEF Next, Handlers

-----------------------------------------------------------------------------
(* The registration with nsqlookupd.                                       *)

\* Only TopicExit ends a live topic, and its caller goes on to take the name away.
LEMMA MappedStep ==
  ASSUME LifeTypes, MappedInv, [Next]_vars
  PROVE  MappedInv'
<1>0. CallsTyped /\ flag \in [Topics -> {"unused", "live", "exiting"}]
  BY ZenonT(60) DEF LifeTypes, TypeOK, CallsTyped
<1> DEFINE Taking == {"purge", "unmap"}
<1>1. ASSUME phase' = phase, UNCHANGED <<topicMap, flag>>,
             \A q \in Callers : call[q].op \in Taking => call'[q].op \in Taking
      PROVE  MappedInv'
  BY <1>1, ZenonT(60) DEF MappedInv
<1>2. ASSUME NEW p \in Callers, Handlers(p) PROVE MappedInv'
  <2>1. phase' = phase
    BY <1>2, HandlerFrame, ZenonT(60)
  <2>2. CASE GetTopicLocked(p)
    <3>1. CASE topicMap # None
      <4>1. UNCHANGED <<topicMap, flag>> /\ Return(p) /\ call[p].op = "create"
        BY <2>2, <3>1, ZenonT(60) DEF GetTopicLocked
      <4>2. \A q \in Callers : call[q].op \in Taking => call'[q].op \in Taking
        BY <1>0, <4>1, CallNext, ZenonT(60)
      <4> QED
        BY <1>1, <2>1, <4>1, <4>2, ZenonT(60)
    <3>2. CASE topicMap = None
      <4>1. topicMap' = Fresh /\ flag' = [flag EXCEPT ![Fresh] = "live"] /\ Fresh \in Topics
        BY <2>2, <3>2, FreshUnused, ZenonT(60) DEF GetTopicLocked, MakeTopic
      <4> QED
        BY <1>0, <4>1, ZenonT(60) DEF MappedInv
    <3> QED
      BY <3>1, <3>2, ZenonT(60)
  <2>3. CASE TopicExit(p)
    <3>1. PICK op \in Taking : Goto(p, op, call[p].obj)
      BY <2>3, ZenonT(60) DEF TopicExit
    <3>2. call'[p].op \in Taking
      BY <1>0, <3>1, CallNext, ZenonT(60)
    <3> QED
      BY <3>2, ZenonT(60) DEF MappedInv
  <2>4. CASE TopicPurge(p)
    <3>1. UNCHANGED <<topicMap, flag>> /\ Goto(p, "unmap", call[p].obj)
      BY <2>4, ZenonT(60) DEF TopicPurge, topics
    <3>2. \A q \in Callers : call[q].op \in Taking => call'[q].op \in Taking
      BY <1>0, <3>1, CallNext, ZenonT(60)
    <3> QED
      BY <1>1, <2>1, <3>1, <3>2, ZenonT(60)
  <2>5. CASE TopicUnmap(p)
    BY <2>5, ZenonT(60) DEF TopicUnmap, MappedInv
  <2>6. CASE \/ GetTopicQuery(p) \/ GetChannel(p) \/ DeleteExistingChannel(p) \/ ChannelExit(p)
             \/ Pause(p) \/ PausePersist(p)
    <3>1. /\ UNCHANGED <<topicMap, flag>> /\ call[p].op \notin Taking
          /\ Return(p) \/ \E op, obj : Goto(p, op, obj)
      BY <2>6, ZenonT(60) DEF GetTopicQuery, GetChannel, DeleteExistingChannel, ChannelExit, Pause,
         PausePersist, nsqd, topics
    <3>2. \A q \in Callers : call[q].op \in Taking => call'[q].op \in Taking
      BY <1>0, <3>1, CallNext, ZenonT(60)
    <3> QED
      BY <1>1, <2>1, <3>1, <3>2, ZenonT(60)
  <2> QED
    BY <1>2, <2>2, <2>3, <2>4, <2>5, <2>6, ZenonT(60) DEF Handlers
<1>3. ASSUME NEW p \in Callers,
             \/ GetTopic(p) \/ DeleteExistingTopic(p)
             \/ \E op \in {"getChannel", "removeChannel", "pause"} : GetExistingTopic(p, op)
      PROVE  MappedInv'
  <2>1. call[p] = Idle /\ UNCHANGED <<phase, topicMap, flag>> /\ \E op : Goto(p, op, topicMap)
    BY <1>3, RequestFrame, ZenonT(60) DEF nsqd, topics
  <2>2. \A q \in Callers : call[q].op \in Taking => call'[q].op \in Taking
    BY <1>0, <2>1, CallNext, IdleFields, ZenonT(60)
  <2> QED
    BY <1>1, <2>1, <2>2, ZenonT(60)
<1>4. CASE \/ Notifying \/ LookupCommand \/ Ping \/ LoopExit
           \/ (\E id \in Connections : LookupdCleanup(id))
           \/ (\E k \in Keys : LookupdDelete(k)) \/ LookupdCreate
           \/ ConnectionBreaks \/ LookupdRestart \/ UNCHANGED vars
  <2>1. UNCHANGED <<phase, nsqd, call>>
    BY <1>4, ZenonT(60) DEF Notifying, NoteSend, NoteExit, NotePersist, LookupCommand, Ping, LoopExit,
       LookupdCleanup, LookupdDelete, LookupdCreate, ConnectionBreaks, LookupdRestart, vars
  <2> QED
    BY <1>1, <2>1, ZenonT(60) DEF nsqd, topics
<1>5. CASE Exit \/ Crash \/ ExitDone
  <2>1. phase' # "running"
    BY <1>5 DEF Exit, Crash, ExitDone, Down
  <2> QED
    BY <2>1, ZenonT(60) DEF MappedInv
<1>6. CASE LoadMetadata
  <2>1. topicMap = None /\ Fresh \in Topics
    BY <1>6, FreshAtStart, ZenonT(60) DEF LoadMetadata, LifeTypes, DownInv
  <2>2. \/ UNCHANGED topicMap
        \/ topicMap' = Fresh /\ flag' = [flag EXCEPT ![Fresh] = "live"]
    BY <1>6, ZenonT(60) DEF LoadMetadata, nsqd, topics
  <2> QED
    BY <1>0, <2>1, <2>2, ZenonT(60) DEF MappedInv
<1> QED
  BY <1>2, <1>3, <1>4, <1>5, <1>6, ZenonT(60) DEF Next

\* A topic is in use from its creation to the end of the process.
LEMMA UnusedStep ==
  ASSUME LifeTypes, UnusedInv, [Next]_vars
  PROVE  UnusedInv'
<1>0. /\ CallsTyped /\ CallInv /\ DownInv
      /\ flag \in [Topics -> {"unused", "live", "exiting"}] /\ channelMap \in [Topics -> Channels \cup {None}]
      /\ topicMap \in Topics \cup {None}
  BY ZenonT(60) DEF LifeTypes, TypeOK, CallsTyped
<1> DEFINE Free == {"idle", "create", "exitChannel"}
<1>1. ASSUME \A t \in Topics : flag[t] # "unused" => flag'[t] # "unused",
             \A t \in Topics : flag'[t] = "unused" => channelMap'[t] \in {channelMap[t], None},
             \A q \in Callers : \/ call'[q] = call[q] \/ call'[q].op \in Free
                                \/ call'[q].obj \in Topics /\ flag'[call'[q].obj] # "unused",
             topicMap' \in {topicMap, None} \/ (topicMap' \in Topics /\ flag'[topicMap'] # "unused")
      PROVE  UnusedInv'
  <2>1. \A t \in Topics : flag'[t] = "unused" => channelMap'[t] = None
    BY <1>1, ZenonT(60) DEF UnusedInv
  <2>2. ASSUME NEW q \in Callers PROVE call'[q].op \in Free \/ flag'[call'[q].obj] # "unused"
    <3>1. call[q].op \in Free \/ (call[q].obj \in Topics /\ flag[call[q].obj] # "unused")
      BY <1>0, ZenonT(60) DEF UnusedInv, CallInv
    <3> QED
      BY <1>1, <3>1, ZenonT(60)
  <2>3. topicMap' # None => flag'[topicMap'] # "unused"
    BY <1>0, <1>1, ZenonT(60) DEF UnusedInv
  <2> QED
    BY <2>1, <2>2, <2>3, ZenonT(60) DEF UnusedInv
<1>2. ASSUME NEW p \in Callers, Handlers(p) PROVE UnusedInv'
  <2>1. call[p].op \in Free \/ (call[p].obj \in Topics /\ flag[call[p].obj] # "unused")
    BY <1>0, ZenonT(60) DEF UnusedInv, CallInv
  <2>2. CASE GetTopicLocked(p)
    <3>1. CASE topicMap # None
      <4>1. UNCHANGED <<topicMap, flag, channelMap>> /\ Return(p)
        BY <2>2, <3>1, ZenonT(60) DEF GetTopicLocked, channels
      <4>2. \A q \in Callers : call'[q] = call[q] \/ call'[q].op \in Free
        BY <1>0, <4>1, CallNext, ZenonT(60)
      <4> QED
        BY <1>1, <4>1, <4>2, ZenonT(60)
    <3>2. CASE topicMap = None
      <4>1. /\ topicMap' = Fresh /\ flag' = [flag EXCEPT ![Fresh] = "live"] /\ Fresh \in Topics
            /\ UNCHANGED channelMap /\ Goto(p, "query", Fresh)
        BY <2>2, <3>2, FreshUnused, ZenonT(60) DEF GetTopicLocked, MakeTopic, channels
      <4>2. flag'[Fresh] = "live" /\ \A t \in Topics : flag[t] # "unused" => flag'[t] # "unused"
        BY <1>0, <4>1, ZenonT(60)
      <4>3. call'[p].obj = Fresh /\ \A q \in Callers \ {p} : call'[q] = call[q]
        BY <1>0, <4>1, CallNext, ZenonT(60)
      <4> QED
        BY <1>1, <4>1, <4>2, <4>3, ZenonT(60)
    <3> QED
      BY <3>1, <3>2, ZenonT(60)
  <2>3. CASE TopicExit(p)
    <3>1. /\ UNCHANGED <<topicMap, channelMap>> /\ \E op : Goto(p, op, call[p].obj)
          /\ flag' \in {flag, [flag EXCEPT ![call[p].obj] = "exiting"]}
          /\ call[p].obj \in Topics /\ flag[call[p].obj] # "unused"
      BY <2>1, <2>3, ZenonT(60) DEF TopicExit, channels
    <3>2. \A t \in Topics : flag[t] # "unused" => flag'[t] # "unused"
      BY <1>0, <3>1, ZenonT(60)
    <3>3. call'[p].obj = call[p].obj /\ \A q \in Callers \ {p} : call'[q] = call[q]
      BY <1>0, <3>1, CallNext, ZenonT(60)
    <3> QED
      BY <1>1, <3>1, <3>2, <3>3, ZenonT(60)
  <2>4. CASE /\ ~GetTopicLocked(p) /\ ~TopicExit(p)
    <3>1. /\ UNCHANGED flag /\ topicMap' \in {topicMap, None}
          /\ Return(p) \/ (\E obj : Goto(p, "exitChannel", obj)) \/ (\E op : Goto(p, op, call[p].obj))
          /\ call[p].op \notin {"idle", "create"}
      BY <1>2, <2>4, ZenonT(60) DEF Handlers, GetTopicQuery, TopicPurge, TopicUnmap, GetChannel,
         DeleteExistingChannel, ChannelExit, Pause, PausePersist, nsqd, topics
    <3>2. \A q \in Callers : \/ call'[q] = call[q] \/ call'[q].op \in Free
                             \/ call'[q].obj \in Topics /\ flag'[call'[q].obj] # "unused"
      <4>1. \A q \in Callers \ {p} : call'[q] = call[q]
        BY <1>0, <3>1, CallNext, ZenonT(60)
      <4>2. CASE call[p].op = "exitChannel"
        <5>1. Return(p)
          BY <1>2, <2>4, <4>2, ZenonT(60) DEF Handlers, GetTopicQuery, TopicPurge, TopicUnmap, GetChannel,
             DeleteExistingChannel, ChannelExit, Pause, PausePersist
        <5> QED
          BY <1>0, <4>1, <5>1, CallNext, ZenonT(60)
      <4>3. CASE call[p].op # "exitChannel"
        <5>1. call[p].obj \in Topics /\ flag[call[p].obj] # "unused"
          BY <2>1, <3>1, <4>3, ZenonT(60)
        <5>2. call'[p].op \in Free \/ call'[p].obj = call[p].obj
          BY <1>0, <3>1, CallNext, ZenonT(60)
        <5> QED
          BY <3>1, <4>1, <5>1, <5>2, ZenonT(60)
      <4> QED
        BY <4>2, <4>3, ZenonT(60)
    <3>3. \A t \in Topics : flag'[t] = "unused" => channelMap'[t] \in {channelMap[t], None}
      <4>1. CASE GetChannel(p)
        <5>1. call[p].obj \in Topics /\ flag[call[p].obj] # "unused"
          BY <2>1, <4>1, ZenonT(60) DEF GetChannel
        <5>2. channelMap' = channelMap \/ channelMap' = [channelMap EXCEPT ![call[p].obj] = FreshChannel]
          BY <4>1, ZenonT(60) DEF GetChannel, channels
        <5> QED
          BY <1>0, <3>1, <5>1, <5>2, ZenonT(60)
      <4>2. CASE ~GetChannel(p)
        <5>1. channelMap' = channelMap \/ channelMap' = [channelMap EXCEPT ![call[p].obj] = None]
          BY <1>2, <2>4, <4>2, ZenonT(60) DEF Handlers, GetTopicQuery, TopicPurge, TopicUnmap,
             DeleteExistingChannel, ChannelExit, Pause, PausePersist, nsqd, channels
        <5> QED
          BY <1>0, <5>1, ZenonT(60)
      <4> QED
        BY <4>1, <4>2, ZenonT(60)
    <3> QED
      BY <1>1, <3>1, <3>2, <3>3, ZenonT(60)
  <2> QED
    BY <2>2, <2>3, <2>4, ZenonT(60)
<1>3. ASSUME NEW p \in Callers,
             \/ GetTopic(p) \/ DeleteExistingTopic(p)
             \/ \E op \in {"getChannel", "removeChannel", "pause"} : GetExistingTopic(p, op)
      PROVE  UnusedInv'
  <2>1. UNCHANGED <<topicMap, flag, channelMap>>
    BY <1>3, RequestFrame, ZenonT(60) DEF nsqd, topics, channels
  <2>2. \/ Goto(p, "create", None)
        \/ topicMap # None /\ \E op : Goto(p, op, topicMap)
    BY <1>3, ZenonT(60) DEF GetTopic, DeleteExistingTopic, GetExistingTopic, Request
  <2>3. \/ call'[p].op = "create"
        \/ call'[p].obj \in Topics /\ flag[call'[p].obj] # "unused"
    <3>1. CASE Goto(p, "create", None)
      BY <1>0, <3>1, CallNext, ZenonT(60)
    <3>2. CASE topicMap # None /\ \E op : Goto(p, op, topicMap)
      <4>1. topicMap \in Topics /\ flag[topicMap] # "unused"
        BY <1>0, <3>2, ZenonT(60) DEF UnusedInv
      <4>2. call'[p].obj = topicMap
        BY <1>0, <3>2, CallNext, ZenonT(60)
      <4> QED
        BY <4>1, <4>2, ZenonT(60)
    <3> QED
      BY <2>2, <3>1, <3>2, ZenonT(60)
  <2>4. \A q \in Callers \ {p} : call'[q] = call[q]
    BY <1>0, <2>2, CallNext, ZenonT(60)
  <2> QED
    BY <1>1, <2>1, <2>3, <2>4, ZenonT(60)
<1>4. CASE \/ Notifying \/ LookupCommand \/ Ping \/ LoopExit
           \/ (\E id \in Connections : LookupdCleanup(id))
           \/ (\E k \in Keys : LookupdDelete(k)) \/ LookupdCreate
           \/ ConnectionBreaks \/ LookupdRestart \/ UNCHANGED vars
  <2>1. UNCHANGED <<nsqd, call>>
    BY <1>4, ZenonT(60) DEF Notifying, NoteSend, NoteExit, NotePersist, LookupCommand, Ping, LoopExit,
       LookupdCleanup, LookupdDelete, LookupdCreate, ConnectionBreaks, LookupdRestart, vars
  <2> QED
    BY <1>1, <2>1, ZenonT(60) DEF nsqd, topics, channels
<1>5. CASE Exit
  <2>1. /\ UNCHANGED <<topicMap, channelMap, call>>
        /\ \A t \in Topics : flag'[t] \in {flag[t], "exiting"}
    BY <1>5, ZenonT(60) DEF Exit
  <2> QED
    BY <1>1, <2>1, ZenonT(60)
<1>6. CASE Crash \/ ExitDone
  <2>1. /\ \A t \in Topics : channelMap'[t] = None
        /\ \A p \in Callers : call'[p] = Idle
        /\ topicMap' = None
    BY <1>6, ZenonT(60) DEF Crash, ExitDone, Down
  <2> QED
    BY <2>1, IdleFields, ZenonT(60) DEF UnusedInv
<1>7. CASE LoadMetadata
  <2>1. /\ \A t \in Topics : channelMap[t] = None
        /\ topicMap = None /\ Fresh \in Topics
        /\ \A p \in Callers : call'[p] = Idle
    BY <1>0, <1>7, FreshAtStart, ZenonT(60) DEF LoadMetadata, DownInv
  <2>2. \/ UNCHANGED <<topicMap, channelMap>>
        \/ /\ topicMap' = Fresh /\ flag' = [flag EXCEPT ![Fresh] = "live"]
           /\ channelMap' \in {channelMap, [channelMap EXCEPT ![Fresh] = FreshChannel]}
    BY <1>7, ZenonT(60) DEF LoadMetadata, nsqd, topics, channels
  <2>3. \A t \in Topics : flag'[t] = "unused" => channelMap'[t] = None
    BY <1>0, <2>1, <2>2, ZenonT(60)
  <2>4. topicMap' # None => flag'[topicMap'] # "unused"
    BY <1>0, <2>1, <2>2, ZenonT(60)
  <2> QED
    BY <2>1, <2>3, <2>4, IdleFields, ZenonT(60) DEF UnusedInv
<1> QED
  BY <1>2, <1>3, <1>4, <1>5, <1>6, <1>7, ZenonT(60) DEF Next

\* A step that makes nothing new and takes no registration away unnoticed.
LEMMA RegisterKept ==
  ASSUME RegisterInv, Connected' => Connected, UNCHANGED <<conn, topicMap, loop>>,
         \A what, obj : Telling(notes, what, obj) => Telling(notes', what, obj),
         undone \subseteq undone',
         Connected => \A k \in LiveKeys : <<k, conn>> \in db => k \in undone' \/ <<k, conn>> \in db',
         channelMap'[topicMap] \in {channelMap[topicMap], None}
  PROVE  RegisterInv'
<1>1. SUFFICES ASSUME Connected' PROVE TopicTold' /\ (channelMap'[topicMap'] # None => ChannelTold')
  BY ZenonT(60) DEF RegisterInv
<1>2. Connected /\ TopicTold /\ (channelMap[topicMap] # None => ChannelTold)
  BY <1>1, ZenonT(60) DEF RegisterInv
<1>3. "topic" \in LiveKeys /\ (channelMap[topicMap] # None => "channel" \in LiveKeys)
  BY <1>2, ZenonT(60) DEF LiveKeys, Keys, Connected
<1>4. TopicTold'
  BY <1>2, <1>3, ZenonT(60) DEF TopicTold
<1>5. ASSUME channelMap'[topicMap'] # None PROVE ChannelTold'
  <2>1. channelMap'[topicMap'] = channelMap[topicMap] /\ channelMap[topicMap] # None
    BY <1>5, ZenonT(60)
  <2>2. ChannelTold
    BY <1>2, <2>1, ZenonT(60)
  <2> QED
    BY <1>2, <1>3, <2>1, <2>2, ZenonT(60) DEF ChannelTold
<1> QED
  BY <1>4, <1>5, ZenonT(60)

\* What is to be told stays so while notes are added.
LEMMA TellingGrows ==
  ASSUME notes \subseteq notes'
  PROVE  \A what, obj : Telling(notes, what, obj) => Telling(notes', what, obj)
BY ZenonT(60) DEF Telling

\* A new note will be told.
LEMMA TellingNew ==
  ASSUME NEW ns, NEW what, NEW obj, NEW event, Note(what, obj, event, "send") \in ns
  PROVE  Telling(ns, what, obj)
<1>1. /\ Note(what, obj, event, "send").what = what /\ Note(what, obj, event, "send").obj = obj
      /\ Note(what, obj, event, "send").stage = "send"
  BY ZenonT(60) DEF Note
<1> QED
  BY <1>1, ZenonT(60) DEF Telling

\* A handler that makes something new tells of it.
LEMMA RegisterHandlers ==
  ASSUME LifeTypes, UnusedInv, RegisterInv, NEW p \in Callers, Handlers(p)
  PROVE  RegisterInv'
<1>0. /\ flag \in [Topics -> {"unused", "live", "exiting"}] /\ channelMap \in [Topics -> Channels \cup {None}]
      /\ topicMap \in Topics \cup {None} /\ CallInv
  BY ZenonT(60) DEF LifeTypes, TypeOK
<1>1. UNCHANGED <<phase, loop, conn, broken, db>>
  BY HandlerFrame, ZenonT(60) DEF peer
<1>2. notes \subseteq notes'
  BY ZenonT(60) DEF Handlers, GetTopicLocked, MakeTopic, GetTopicQuery, TopicExit, TopicPurge, TopicUnmap,
     GetChannel, DeleteExistingChannel, ChannelExit, DeleteChannel, Pause, PausePersist
<1>3. ASSUME UNCHANGED <<topicMap, undone>>, topicMap # None => flag'[topicMap] \in {flag[topicMap], "exiting"},
             topicMap # None => channelMap'[topicMap] \in {channelMap[topicMap], None}
      PROVE  RegisterInv'
  <2>1. CASE topicMap = None
    BY <1>3, <2>1, ZenonT(60) DEF RegisterInv, Connected
  <2>2. CASE topicMap # None
    <3>1. Connected' => Connected
      BY <1>1, <1>3, <2>2, ZenonT(60) DEF Connected
    <3>2. \A what, obj : Telling(notes, what, obj) => Telling(notes', what, obj)
      BY <1>2, TellingGrows, ZenonT(60)
    <3> QED
      BY <1>1, <1>3, <2>2, <3>1, <3>2, RegisterKept, ZenonT(60)
  <2> QED
    BY <2>1, <2>2, ZenonT(60)
<1>4. CASE GetTopicLocked(p)
  <2>1. CASE topicMap # None
    BY <1>3, <2>1, <1>4, ZenonT(60) DEF GetTopicLocked, channels
  <2>2. CASE topicMap = None
    <3>1. /\ topicMap' = Fresh /\ Fresh \in Topics /\ flag[Fresh] = "unused" /\ UNCHANGED channelMap
          /\ Note("topic", Fresh, "new", "send") \in notes'
      BY <1>4, <2>2, FreshUnused, ZenonT(60) DEF GetTopicLocked, MakeTopic, channels
    <3>2. channelMap'[topicMap'] = None
      BY <3>1, ZenonT(60) DEF UnusedInv
    <3>3. Telling(notes', "topic", Fresh)
      BY <3>1, TellingNew, ZenonT(60)
    <3>4. TopicTold'
      BY <3>1, <3>3, ZenonT(60) DEF TopicTold
    <3> QED
      BY <3>2, <3>4, ZenonT(60) DEF RegisterInv
  <2> QED
    BY <2>1, <2>2, ZenonT(60)
<1>5. CASE GetChannel(p)
  <2> DEFINE t == call[p].obj
  <2>1. t \in Topics /\ UNCHANGED <<topicMap, flag>>
    BY <1>0, <1>5, ZenonT(60) DEF GetChannel, CallInv, topics
  <2>2. CASE UNCHANGED <<channels, undone>>
    BY <1>3, <2>1, <2>2, ZenonT(60) DEF channels
  <2>3. CASE /\ channelMap' = [channelMap EXCEPT ![t] = FreshChannel]
             /\ notes' = notes \cup {Note("channel", FreshChannel, "new", "send")}
             /\ undone' = IF t = topicMap THEN undone \ {"channel"} ELSE undone
    <3>1. CASE t # topicMap
      <4>1. topicMap # None => channelMap'[topicMap] = channelMap[topicMap]
        BY <1>0, <2>1, <2>3, <3>1, ZenonT(60)
      <4> QED
        BY <1>3, <2>1, <2>3, <3>1, <4>1, ZenonT(60)
    <3>2. CASE t = topicMap
      <4>1. channelMap'[topicMap'] = FreshChannel
        BY <1>0, <2>1, <2>3, <3>2, ZenonT(60)
      <4>2. Telling(notes', "channel", FreshChannel)
        BY <2>3, TellingNew, ZenonT(60)
      <4>3. ChannelTold'
        BY <4>1, <4>2, ZenonT(60) DEF ChannelTold
      <4>4. "topic" \in undone => "topic" \in undone'
        BY <2>3, ZenonT(60)
      <4>5. Connected' => TopicTold'
        <5>1. Connected' => TopicTold
          BY <1>1, <2>1, ZenonT(60) DEF Connected, RegisterInv
        <5>2. Telling(notes, "topic", topicMap) => Telling(notes', "topic", topicMap')
          BY <1>2, <2>1, ZenonT(60) DEF Telling
        <5> QED
          BY <1>1, <2>1, <4>4, <5>1, <5>2, ZenonT(60) DEF TopicTold
      <4> QED
        BY <4>3, <4>5, ZenonT(60) DEF RegisterInv
    <3> QED
      BY <3>1, <3>2, ZenonT(60)
  <2> QED
    BY <1>5, <2>2, <2>3, ZenonT(60) DEF GetChannel
<1>6. CASE TopicExit(p)
  <2>1. /\ UNCHANGED <<topicMap, undone, channelMap>> /\ call[p].obj \in Topics
        /\ flag' \in {flag, [flag EXCEPT ![call[p].obj] = "exiting"]}
    BY <1>0, <1>6, ZenonT(60) DEF TopicExit, CallInv, channels, lookupd
  <2>2. topicMap # None => flag'[topicMap] \in {flag[topicMap], "exiting"}
    BY <1>0, <2>1, ZenonT(60)
  <2> QED
    BY <1>3, <2>1, <2>2, ZenonT(60)
<1>7. CASE TopicUnmap(p)
  BY <1>7, ZenonT(60) DEF TopicUnmap, RegisterInv, Connected
<1>8. CASE TopicPurge(p) \/ DeleteExistingChannel(p)
  <2>1. UNCHANGED <<topicMap, flag, undone>> /\ channelMap' = [channelMap EXCEPT ![call[p].obj] = None]
    BY <1>8, ZenonT(60) DEF TopicPurge, DeleteExistingChannel, topics, lookupd
  <2>2. topicMap # None => channelMap'[topicMap] \in {channelMap[topicMap], None}
    BY <1>0, <2>1, ZenonT(60)
  <2> QED
    BY <1>3, <2>1, <2>2, ZenonT(60)
<1>9. CASE GetTopicQuery(p) \/ ChannelExit(p) \/ Pause(p) \/ PausePersist(p)
  <2>1. UNCHANGED <<topicMap, flag, undone, channelMap>>
    BY <1>9, ZenonT(60) DEF GetTopicQuery, ChannelExit, Pause, PausePersist, nsqd, topics, channels, lookupd
  <2> QED
    BY <1>3, <2>1, ZenonT(60)
<1> QED
  BY <1>4, <1>5, <1>6, <1>7, <1>8, <1>9, ZenonT(60) DEF Handlers

\* After a command, a registration of something live that was there or that it makes
\* is there, or is known to be undone; and what was undone is made again or stays so.
LEMMA SendTold ==
  ASSUME NEW regs, NEW id, NEW lost, Send(id, regs, lost), NEW k \in LiveKeys,
         \/ k \in lost \/ <<k, id>> \in regs
         \/ loop.name = "REGISTER" /\ (k = "channel" => loop.what = "channel")
  PROVE  k \in undone' \/ <<k, id>> \in db'
<1>1. /\ db' = Execute(regs, loop, id)
      /\ (k \in lost \/ <<k, id>> \in regs) /\ <<k, id>> \notin db' => k \in undone'
  BY ZenonT(60) DEF Send
<1>2. ASSUME loop.name = "REGISTER", k = "channel" => loop.what = "channel"
      PROVE  <<k, id>> \in db'
  <2>1. k \in Register(loop.what)
    BY <1>2, ZenonT(60) DEF LiveKeys, Keys, Register
  <2>2. db' = regs \cup (Register(loop.what) \X {id})
    BY <1>1, <1>2, ZenonT(60) DEF Execute
  <2> QED
    BY <2>1, <2>2
<1> QED
  BY <1>1, <1>2, ZenonT(60)

\* connectCallback registers everything live.
LEMMA RegistrationsLive == LiveKeys \subseteq Registrations
BY ZenonT(60) DEF LiveKeys, Registrations, Register, Keys

\* lookupLoop sends what it took, or connects and registers all there is.
LEMMA RegisterLookup ==
  ASSUME RegisterInv, LookupCommand \/ Ping
  PROVE  RegisterInv'
<1>1. UNCHANGED <<phase, topicMap, flag, channelMap, notes, broken>>
  BY ZenonT(60) DEF LookupCommand, Ping, nsqd, topics, channels
<1>2. SUFFICES ASSUME Connected' PROVE TopicTold' /\ (channelMap'[topicMap'] # None => ChannelTold')
  BY ZenonT(60) DEF RegisterInv
<1>3. "topic" \in LiveKeys /\ (channelMap[topicMap] # None => "channel" \in LiveKeys)
  BY <1>1, <1>2, ZenonT(60) DEF LiveKeys, Keys, Connected
<1>4. ASSUME \A k \in LiveKeys : k \in undone' \/ <<k, conn'>> \in db'
      PROVE  TopicTold' /\ (channelMap'[topicMap'] # None => ChannelTold')
  BY <1>1, <1>3, <1>4, ZenonT(60) DEF TopicTold, ChannelTold
<1>5. \A id : \A k \in LiveKeys : <<k, id>> \in db \cup (Registrations \X {id})
  BY RegistrationsLive, ZenonT(60)
<1>6. conn' # 0
  BY <1>2, ZenonT(60) DEF Connected
<1>7. CASE Ping
  BY <1>4, <1>5, <1>6, <1>7, ZenonT(60) DEF Ping, Disconnect
<1>8. CASE LookupCommand
  <2>1. CASE conn = 0
    <3>1. conn' = NextConnection /\ Send(NextConnection, db \cup (Registrations \X {NextConnection}), {})
      BY <1>6, <1>8, <2>1, ZenonT(60) DEF LookupCommand, Disconnect
    <3>2. ASSUME NEW k \in LiveKeys PROVE k \in undone' \/ <<k, conn'>> \in db'
      <4>1. <<k, NextConnection>> \in db \cup (Registrations \X {NextConnection})
        BY <1>5, ZenonT(60)
      <4>2. k \in undone' \/ <<k, NextConnection>> \in db'
        BY <3>1, <4>1, SendTold, ZenonT(60)
      <4> QED
        BY <3>1, <4>2, ZenonT(60)
    <3> QED
      BY <1>4, <3>2, ZenonT(60)
  <2>2. CASE conn # 0
    <3>1. conn' = conn /\ Send(conn, db, undone)
      BY <1>6, <1>8, <2>2, ZenonT(60) DEF LookupCommand, Disconnect
    <3>2. Connected
      BY <1>1, <1>2, <3>1, ZenonT(60) DEF Connected
    <3>3. TopicTold /\ (channelMap[topicMap] # None => ChannelTold)
      BY <3>2, ZenonT(60) DEF RegisterInv
    <3>4. TopicTold'
      <4>1. CASE Telling(notes, "topic", topicMap)
        BY <1>1, <4>1, ZenonT(60) DEF TopicTold
      <4>2. CASE "topic" \in undone \/ <<"topic", conn>> \in db \/ loop.name = "REGISTER"
        <5>1. "topic" \in undone' \/ <<"topic", conn>> \in db'
          BY <1>3, <3>1, <4>2, SendTold, ZenonT(60)
        <5> QED
          BY <3>1, <5>1, ZenonT(60) DEF TopicTold
      <4> QED
        BY <3>3, <4>1, <4>2, ZenonT(60) DEF TopicTold
    <3>5. ASSUME channelMap'[topicMap'] # None PROVE ChannelTold'
      <4>0. ChannelTold /\ "channel" \in LiveKeys
        BY <1>1, <1>3, <3>3, <3>5, ZenonT(60)
      <4>1. CASE Telling(notes, "channel", channelMap[topicMap])
        BY <1>1, <4>1, ZenonT(60) DEF ChannelTold
      <4>2. CASE \/ "channel" \in undone \/ <<"channel", conn>> \in db
                 \/ loop.name = "REGISTER" /\ loop.what = "channel"
        <5>1. "channel" \in undone' \/ <<"channel", conn>> \in db'
          BY <3>1, <4>0, <4>2, SendTold, ZenonT(60)
        <5> QED
          BY <3>1, <5>1, ZenonT(60) DEF ChannelTold
      <4> QED
        BY <4>0, <4>1, <4>2, ZenonT(60) DEF ChannelTold
    <3> QED
      BY <3>4, <3>5, ZenonT(60)
  <2> QED
    BY <2>1, <2>2, ZenonT(60)
<1> QED
  BY <1>7, <1>8, ZenonT(60)

\* A note of something live that lookupLoop takes becomes a REGISTER.
LEMMA RegisterNote ==
  ASSUME LifeTypes, ChanInv, RegisterInv, NEW n \in notes, NoteSend(n)
  PROVE  RegisterInv'
<1>1. /\ UNCHANGED <<phase, topicMap, flag, channelMap, chanFlag, conn, broken, db, undone>> /\ loop = NoCommand
      /\ \A m \in notes : m # n => m \in notes'
  BY ZenonT(60) DEF NoteSend, nsqd, topics, channels, peer, lookupd
<1>2. SUFFICES ASSUME Connected' PROVE TopicTold' /\ (channelMap'[topicMap'] # None => ChannelTold')
  BY ZenonT(60) DEF RegisterInv
<1>3. Connected /\ TopicTold /\ (channelMap[topicMap] # None => ChannelTold)
  BY <1>1, <1>2, ZenonT(60) DEF Connected, RegisterInv
<1>4. loop.name # "REGISTER"
  BY <1>1, ZenonT(60) DEF NoCommand
<1>5. \A what, obj : Telling(notes, what, obj) =>
          Telling(notes', what, obj) \/ (n.what = what /\ n.obj = obj)
  BY <1>1, ZenonT(60) DEF Telling
<1> DEFINE exiting == IF n.what = "topic" THEN flag[n.obj] = "exiting" ELSE chanFlag[n.obj] = "exiting"
<1>6. ~exiting => loop'.name = "REGISTER" /\ loop'.what = n.what
  <2>1. loop' = [name |-> IF exiting THEN "UNREGISTER" ELSE "REGISTER", what |-> n.what]
    BY ZenonT(60) DEF NoteSend
  <2> HIDE DEF exiting
  <2> QED
    BY <2>1
<1>7. TopicTold'
  <2>1. CASE n.what = "topic" /\ n.obj = topicMap
    <3>1. ~exiting
      BY <1>3, <2>1, ZenonT(60) DEF Connected
    <3> QED
      BY <1>6, <3>1, ZenonT(60) DEF TopicTold
  <2>2. CASE ~(n.what = "topic" /\ n.obj = topicMap)
    BY <1>1, <1>3, <1>4, <1>5, <2>2, ZenonT(60) DEF TopicTold
  <2> QED
    BY <2>1, <2>2, ZenonT(60)
<1>8. ASSUME channelMap'[topicMap'] # None PROVE ChannelTold'
  <2>0. ChannelTold /\ channelMap[topicMap] # None
    BY <1>1, <1>3, <1>8, ZenonT(60)
  <2>1. CASE n.what = "channel" /\ n.obj = channelMap[topicMap]
    <3>1. topicMap \in Topics /\ phase = "running"
      BY <1>3, ZenonT(60) DEF Connected, LifeTypes, TypeOK
    <3>2. chanFlag[channelMap[topicMap]] = "live"
      BY <2>0, <3>1, ChanFacts, ZenonT(60)
    <3>3. ~exiting
      BY <2>1, <3>2, ZenonT(60)
    <3> QED
      BY <1>6, <2>1, <3>3, ZenonT(60) DEF ChannelTold
  <2>2. CASE ~(n.what = "channel" /\ n.obj = channelMap[topicMap])
    BY <1>1, <1>4, <1>5, <2>0, <2>2, ZenonT(60) DEF ChannelTold
  <2> QED
    BY <2>1, <2>2, ZenonT(60)
<1> QED
  BY <1>7, <1>8, ZenonT(60)

\* The other steps: a clean-up concerns connections that are broken, and what the
\* HTTP API takes away is known.
LEMMA RegisterStep ==
  ASSUME LifeTypes, ChanInv, UnusedInv, RegisterInv, [Next]_vars
  PROVE  RegisterInv'
<1>1. ASSUME UNCHANGED <<phase, conn, topicMap, flag, channelMap, loop>>, broken \subseteq broken',
             \A what, obj : Telling(notes, what, obj) => Telling(notes', what, obj),
             undone \subseteq undone',
             Connected' => \A k \in LiveKeys : <<k, conn>> \in db => k \in undone' \/ <<k, conn>> \in db'
      PROVE  RegisterInv'
  <2>1. CASE ~Connected'
    BY <2>1, ZenonT(60) DEF RegisterInv
  <2>2. CASE Connected'
    <3>1. Connected
      BY <1>1, <2>2, ZenonT(60) DEF Connected
    <3> QED
      BY <1>1, <2>2, <3>1, RegisterKept, ZenonT(60)
  <2> QED
    BY <2>1, <2>2, ZenonT(60)
<1>2. ASSUME NEW p \in Callers,
             \/ GetTopic(p) \/ DeleteExistingTopic(p)
             \/ \E op \in {"getChannel", "removeChannel", "pause"} : GetExistingTopic(p, op)
      PROVE  RegisterInv'
  <2>1. UNCHANGED <<phase, conn, topicMap, flag, channelMap, loop, broken, notes, undone, db>>
    BY <1>2, RequestFrame, ZenonT(60) DEF nsqd, topics, channels, peer, lookupd
  <2> QED
    BY <1>1, <2>1, ZenonT(60)
<1>3. ASSUME NEW n \in notes, NotePersist(n) PROVE RegisterInv'
  <2>1. /\ UNCHANGED <<phase, conn, topicMap, flag, channelMap, loop, broken, undone, db>>
        /\ n.stage = "persist" /\ notes' = notes \ {n}
    BY <1>3, ZenonT(60) DEF NotePersist, nsqd, topics, channels, peer, lookupd
  <2>2. \A what, obj : Telling(notes, what, obj) => Telling(notes', what, obj)
    BY <2>1, ZenonT(60) DEF Telling
  <2> QED
    BY <1>1, <2>1, <2>2, ZenonT(60)
<1>4. ASSUME NEW id \in Connections, LookupdCleanup(id) PROVE RegisterInv'
  <2>1. /\ UNCHANGED <<phase, conn, topicMap, flag, channelMap, loop, broken, notes, undone>>
        /\ id \in broken /\ \E k \in Keys : db' = db \ {<<k, id>>}
    BY <1>4, ZenonT(60) DEF LookupdCleanup, nsqd, topics, channels, peer
  <2>2. Connected' => \A k : <<k, conn>> \in db => <<k, conn>> \in db'
    BY <2>1 DEF Connected
  <2> QED
    BY <1>1, <2>1, <2>2, ZenonT(60)
<1>5. ASSUME NEW k \in Keys, LookupdDelete(k) PROVE RegisterInv'
  <2>1. /\ UNCHANGED <<phase, conn, topicMap, flag, channelMap, loop, broken, notes>>
        /\ db' = db \ ({k} \X Connections)
        /\ undone' = undone \cup {l \in LiveKeys : l = k /\ <<k, conn>> \in db}
    BY <1>5, ZenonT(60) DEF LookupdDelete, nsqd, topics, channels, peer
  <2>2. \A l \in LiveKeys : <<l, conn>> \in db => l \in undone' \/ <<l, conn>> \in db'
    BY <2>1
  <2> QED
    BY <1>1, <2>1, <2>2, ZenonT(60)
<1>6. CASE LookupdCreate \/ UNCHANGED vars
  <2>1. UNCHANGED <<phase, conn, topicMap, flag, channelMap, loop, broken, notes, undone, db>>
    BY <1>6, ZenonT(60) DEF LookupdCreate, vars, nsqd, topics, channels, peer, lookupd
  <2> QED
    BY <1>1, <2>1, ZenonT(60)
<1>7. CASE ConnectionBreaks \/ LookupdRestart
  <2>1. conn' = conn /\ conn \in broken'
    BY <1>7, ZenonT(60) DEF ConnectionBreaks, LookupdRestart
  <2> QED
    BY <2>1, ZenonT(60) DEF RegisterInv, Connected
<1>8. CASE LoopExit \/ Exit \/ Crash \/ ExitDone \/ \E n \in notes : NoteExit(n)
  <2>1. phase' # "running"
    BY <1>8 DEF LoopExit, Exit, Crash, ExitDone, Down, NoteExit
  <2> QED
    BY <2>1, ZenonT(60) DEF RegisterInv, Connected
<1>9. CASE LoadMetadata
  <2>1. conn' = 0
    BY <1>9, ZenonT(60) DEF LoadMetadata, LifeTypes, DownInv, peer
  <2> QED
    BY <2>1, ZenonT(60) DEF RegisterInv, Connected
<1> QED
  BY <1>2, <1>3, <1>4, <1>5, <1>6, <1>7, <1>8, <1>9, RegisterHandlers, RegisterLookup, RegisterNote, ZenonT(60)
  DEF Next, Notifying

-----------------------------------------------------------------------------
(* The theorems.                                                           *)

\* Before the start there is nothing in memory and no connection.
LEMMA LifeInit ==
  ASSUME Init
  PROVE  LifeTypes /\ ChanInv /\ FileInv /\ MappedInv /\ UnusedInv /\ RegisterInv /\ NameInv
<1>1. TypeOK
  <2>1. Idle \in [op : Ops, obj : Topics \cup Channels \cup {None}]
    BY DEF Idle, Ops
  <2>2. /\ call \in [Callers -> [op : Ops, obj : Topics \cup Channels \cup {None}]]
        /\ requests \in 0 .. MaxRequests /\ faults \in 0 .. MaxFaults
    BY <2>1, LifecycleAssumption DEF Init
  <2> QED
    BY <2>2, ZenonT(60) DEF Init, TypeOK
<1>2. \A p \in Callers : call[p] = Idle
  BY ZenonT(60) DEF Init
<1>3. ConnInv
  <2>1. 0 \in 0 .. MaxFaults /\ broken = 1 .. 0
    BY LifecycleAssumption DEF Init
  <2> QED
    BY <2>1, LifecycleAssumption DEF Init, ConnInv
<1>4. DownInv /\ ChanInv /\ FileInv /\ MappedInv /\ RegisterInv
  BY ZenonT(60) DEF Init, DownInv, ChanInv, FileInv, MappedInv, RegisterInv, Connected
<1>5. CallInv /\ UnusedInv /\ NameInv
  BY <1>2, IdleFields, ZenonT(60) DEF Init, CallInv, UnusedInv, NameInv
<1> QED
  BY <1>1, <1>3, <1>4, <1>5, ZenonT(60) DEF LifeTypes

\* The types, for any number of callers, topics, channels, requests and faults: in
\* particular a process never runs out of connections before its faults, and the
\* metadata file never names the topic twice.
THEOREM LifecycleTypes == Spec => []TypeOK
<1>1. LifeTypes => TypeOK
  BY DEF LifeTypes
<1>2. Init => LifeTypes
  BY LifeInit
<1>3. LifeTypes /\ [Next]_vars => LifeTypes'
  BY LifeTypesStep
<1> QED
  BY <1>1, <1>2, <1>3, PTL DEF Spec

\* Whoever changes the pause, the channel or the name leaves somebody to persist it
\* after the change (Notify's goroutine, the handler of doPauseTopic), and a restart
\* begins with what the file has: with nothing under way the file is right, however
\* many callers create, pause and delete, and wherever the process was stopped.
THEOREM FileIsCurrent == Spec => []FileCovers
<1> DEFINE Inv == LifeTypes /\ ChanInv /\ FileInv
<1>1. Inv => FileCovers
  <2>1. ASSUME AtRest PROVE phase = "running" /\ ~Persisting
    BY <2>1, IdleFields, ZenonT(60) DEF AtRest, Persisting
  <2> QED
    BY <2>1, ZenonT(60) DEF FileInv, FileCovers
<1>2. Init => Inv
  BY LifeInit
<1>3. Inv /\ [Next]_vars => Inv'
  BY LifeTypesStep, ChanStep, FileStep
<1> QED
  BY <1>1, <1>2, <1>3, PTL DEF Spec

\* nsqlookupd has the topic of the name and its channel once lookupLoop has nothing
\* left to send, however often they were deleted and made again and by however many:
\* a note of something live becomes a REGISTER, connectCallback registers what is in
\* the maps, and the clean-up of a connection that was lost concerns no other. Nothing
\* takes a registration away but an UNREGISTER of an earlier object and the HTTP API.
THEOREM NamesRegistered == Spec => []RegisteredAtRest
<1> DEFINE Inv == LifeTypes /\ ChanInv /\ MappedInv /\ UnusedInv /\ RegisterInv
<1>1. Inv => RegisteredAtRest
  <2>1. SUFFICES ASSUME Inv, AtRest, loop = NoCommand, conn # 0, conn \notin broken, topicMap # None
                 PROVE  /\ "topic" \notin undone => <<"topic", conn>> \in db
                        /\ channelMap[topicMap] # None /\ "channel" \notin undone => <<"channel", conn>> \in db
    BY ZenonT(60) DEF RegisteredAtRest
  <2>2. phase = "running" /\ notes = {} /\ \A p \in Callers : call[p] = Idle
    BY <2>1, ZenonT(60) DEF AtRest
  <2>3. Connected
    BY <2>1, <2>2, IdleFields, ZenonT(60) DEF MappedInv, Connected
  <2>4. loop.name # "REGISTER"
    BY <2>1, ZenonT(60) DEF NoCommand
  <2>5. \A what, obj : ~Telling(notes, what, obj)
    BY <2>2, ZenonT(60) DEF Telling
  <2> QED
    BY <2>1, <2>3, <2>4, <2>5, ZenonT(60) DEF RegisterInv, TopicTold, ChannelTold
<1>2. Init => Inv
  BY LifeInit
<1>3. Inv /\ [Next]_vars => Inv'
  BY LifeTypesStep, ChanStep, MappedStep, UnusedStep, RegisterStep
<1> QED
  BY <1>1, <1>2, <1>3, PTL DEF Spec

\* With one caller that deletes, a topic that takes messages has its name. (With two
\* it may lose it: DeleteExistingTopic removes whichever topic has the name.)
THEOREM LiveTopicHasItsName == ASSUME OneDeleter PROVE Spec => []LiveIsMapped
<1> DEFINE Inv == LifeTypes /\ NameInv
<1>1. Inv => LiveIsMapped
  BY ZenonT(60) DEF NameInv, LiveIsMapped
<1>2. Init => Inv
  BY LifeInit
<1>3. Inv /\ [Next]_vars => Inv'
  BY LifeTypesStep, NameStep
<1> QED
  BY <1>1, <1>2, <1>3, PTL DEF Spec
=============================================================================
