--------------------------- MODULE NsqdLifecycle ----------------------------
(***************************************************************************)
(* The life of a topic name in nsqd: creation, deletion and pausing        *)
(* (nsqd.go, topic.go, the handlers of http.go), the metadata file it is   *)
(* remembered by across restarts, and its registration with nsqlookupd     *)
(* (lookup.go, lookup_peer.go; nsqlookupd/lookup_protocol_v1.go, http.go   *)
(* and registration_db.go).                                                *)
(*                                                                         *)
(* One topic name with one channel name. A topic that is deleted and       *)
(* created again is another *Topic, and a channel another *Channel. What   *)
(* is in the queues is in NsqdTopic and NsqdChannel.                       *)
(***************************************************************************)
EXTENDS Integers

CONSTANTS
    Callers,        \* goroutines that serve clients and HTTP requests
    Deleters,       \* those of them that may delete the topic
    MaxTopics,      \* bound on the *Topic objects of one process
    MaxChannels,    \* bound on its *Channel objects
    MaxRequests,    \* bound on requests to create, change or delete, of nsqd and
                    \* of nsqlookupd
    MaxFaults       \* bound on lost connections, restarts of nsqlookupd, stops
                    \* of nsqd and failing writes of the metadata file

ASSUME LifecycleAssumption ==
    /\ Deleters \subseteq Callers
    /\ MaxTopics \in Nat \ {0} /\ MaxChannels \in Nat \ {0}
    /\ MaxRequests \in Nat /\ MaxFaults \in Nat

Topics == 1 .. MaxTopics
Channels == 1 .. MaxChannels
None == 0               \* no *Topic, no *Channel
Connections == 1 .. MaxFaults + 1
Keys == {"topic", "channel"}

VARIABLES
    phase,          \* "running", "exiting" (exitChan is closed) or "down"
    topicMap,       \* the entry of the name in n.topicMap
    flag,           \* a topic: "unused", "live" or "exiting" (exitFlag)
    channelMap,     \* the entry of the channel's name in a topic's channelMap
    chanFlag,       \* a channel: "unused", "live" or "exiting" (exitFlag)
    paused,         \* its paused flag
    file,           \* the metadata file: {} or the one topic it names
    stale,          \* the last write of the file failed
    notes,          \* the goroutines of Notify
    call,           \* what a caller is doing, and the *Topic it holds or, on its
                    \* way to delete it, the *Channel
    loop,           \* the command lookupLoop made of what it took from notifyChan,
                    \* NoCommand while it selects, LoopEnded after its exit
    conn,           \* lookupPeer: the connection, 0 when stateDisconnected
    info,           \* lookupPeer.Info: a connection of this process has been made
    broken,         \* connections that no longer work
    db,             \* registrationMap: keys with the connections registered
    known,          \* registrationMap has the channel's key, with or without
                    \* producers; for the topic's key alone nobody asks here
    undone,         \* history: keys whose registration on this connection was taken
                    \* from the live topic or its channel, by an UNREGISTER of an
                    \* earlier one or over nsqlookupd's HTTP API, and not made again
    requests,       \* requests so far
    faults          \* faults so far

topics == <<topicMap, flag, paused>>
channels == <<channelMap, chanFlag>>
nsqd == <<topics, channels>>
disk == <<file, stale>>
lookupd == <<db, known, undone>>
peer == <<conn, info, broken>>
bounds == <<requests, faults>>
vars == <<phase, nsqd, disk, notes, call, loop, peer, lookupd, bounds>>

Idle == [op |-> "idle", obj |-> None]
Ops == {"idle", "create", "query", "exit", "purge", "unmap", "pause", "persist",
        "getChannel", "removeChannel", "exitChannel"}
Note(what, obj, event, stage) == [what |-> what, obj |-> obj, event |-> event, stage |-> stage]
Notes == [what : Keys, obj : Topics \cup Channels, event : {"new", "exit"},
          stage : {"send", "sendOnly", "persist"}]
NoCommand == [name |-> "none", what |-> "topic"]
LoopEnded == [name |-> "ended", what |-> "topic"]

Files == {{}} \cup {{topic} : topic \in [paused : BOOLEAN, channel : BOOLEAN]}

TypeOK ==
    /\ phase \in {"running", "exiting", "down"}
    /\ topicMap \in Topics \cup {None}
    /\ flag \in [Topics -> {"unused", "live", "exiting"}]
    /\ paused \in [Topics -> BOOLEAN]
    /\ channelMap \in [Topics -> Channels \cup {None}]
    /\ chanFlag \in [Channels -> {"unused", "live", "exiting"}]
    /\ file \in Files /\ stale \in BOOLEAN
    /\ notes \subseteq Notes
    /\ call \in [Callers -> [op : Ops, obj : Topics \cup Channels \cup {None}]]
    /\ loop \in {NoCommand, LoopEnded} \cup [name : {"REGISTER", "UNREGISTER"}, what : Keys]
    /\ conn \in Connections \cup {0} /\ info \in BOOLEAN /\ broken \subseteq Connections
    /\ db \subseteq Keys \X Connections /\ known \in BOOLEAN /\ undone \subseteq Keys
    /\ requests \in 0 .. MaxRequests /\ faults \in 0 .. MaxFaults

\* Before the start, with the metadata file an earlier run left, or none.
Init ==
    /\ phase = "down" /\ topicMap = None
    /\ flag = [t \in Topics |-> "unused"] /\ paused = [t \in Topics |-> FALSE]
    /\ channelMap = [t \in Topics |-> None] /\ chanFlag = [c \in Channels |-> "unused"]
    /\ file \in Files /\ stale = FALSE
    /\ notes = {} /\ call = [p \in Callers |-> Idle]
    /\ loop = NoCommand /\ conn = 0 /\ info = FALSE /\ broken = {}
    /\ db = {} /\ known = FALSE /\ undone = {}
    /\ requests = 0 /\ faults = 0

Fault == faults < MaxFaults /\ faults' = faults + 1 /\ UNCHANGED requests
Counted == requests < MaxRequests /\ requests' = requests + 1 /\ UNCHANGED faults
Goto(p, op, obj) == call' = [call EXCEPT ![p] = [op |-> op, obj |-> obj]]
Request(p, op, t) ==
    /\ phase = "running" /\ call[p] = Idle /\ Counted
    /\ Goto(p, op, t)
    /\ UNCHANGED <<phase, nsqd, disk, notes, loop, peer, lookupd>>
Return(p) == call' = [call EXCEPT ![p] = Idle]

-----------------------------------------------------------------------------
(* Notify and PersistMetadata.                                             *)

\* What PersistMetadata finds under n.Lock and the topic's lock. It does not ask
\* whether a topic in the map is exiting.
Metadata ==
    IF topicMap = None THEN {}
    ELSE {[paused |-> paused[topicMap], channel |-> channelMap[topicMap] # None]}

\* Mutant: the new content is added to the old.
WrittenAppend == file' = file \cup Metadata /\ stale' = FALSE

\* The temporary file is written and renamed: all of it or nothing.
Written == file' = Metadata /\ stale' = FALSE

NotWritten == UNCHANGED file /\ stale' = TRUE
PersistMetadata == (Written /\ UNCHANGED bounds) \/ (NotWritten /\ Fault)

\* The goroutine's select between notifyChan and exitChan: lookupLoop takes the
\* note when it has sent the one before, and makes it a REGISTER or an UNREGISTER
\* by whether the topic or channel is exiting by now.
NoteSend(n) ==
    /\ n \in notes /\ n.stage \in {"send", "sendOnly"}
    /\ loop = NoCommand /\ phase # "down"
    /\ LET exiting == IF n.what = "topic" THEN flag[n.obj] = "exiting"
                      ELSE chanFlag[n.obj] = "exiting"
       IN  loop' = [name |-> IF exiting THEN "UNREGISTER" ELSE "REGISTER", what |-> n.what]
    /\ notes' = (notes \ {n}) \cup
                (IF n.stage = "send" THEN {[n EXCEPT !.stage = "persist"]} ELSE {})
    /\ UNCHANGED <<phase, nsqd, disk, call, peer, lookupd, bounds>>

\* Mutant: the goroutine waits for lookupLoop alone.
NoteExitNever(n) == n \in notes /\ FALSE /\ UNCHANGED vars

NoteExit(n) ==
    /\ n \in notes /\ n.stage \in {"send", "sendOnly"}
    /\ phase = "exiting"
    /\ notes' = notes \ {n}
    /\ UNCHANGED <<phase, nsqd, disk, call, loop, peer, lookupd, bounds>>

NotePersist(n) ==
    /\ n \in notes /\ n.stage = "persist"
    /\ PersistMetadata
    /\ notes' = notes \ {n}
    /\ UNCHANGED <<phase, nsqd, call, loop, peer, lookupd>>

-----------------------------------------------------------------------------
(* GetTopic.                                                               *)

\* The look under the read lock found nothing.
GetTopic(p) == topicMap = None /\ Request(p, "create", None)

Unused == {t \in Topics : flag[t] = "unused"}
Fresh == CHOOSE t \in Unused : TRUE

\* NewTopic, which Notifies, and its entry in topicMap.
MakeTopic(p) ==
    /\ Unused # {}
    /\ topicMap' = Fresh /\ flag' = [flag EXCEPT ![Fresh] = "live"]
    /\ notes' = notes \cup {Note("topic", Fresh, "new", "send")} /\ undone' = {}
    /\ Goto(p, "query", Fresh)

\* Mutant: no other look under n.Lock.
GetTopicLockedBlind(p) ==
    /\ call[p].op = "create"
    /\ MakeTopic(p)
    /\ UNCHANGED <<phase, paused, channels, disk, loop, peer, db, known, bounds>>

\* Under n.Lock: another look.
GetTopicLocked(p) ==
    /\ call[p].op = "create"
    /\ \/ topicMap = None /\ MakeTopic(p)
       \/ topicMap # None /\ Return(p) /\ UNCHANGED <<topicMap, flag, notes, undone>>
    /\ UNCHANGED <<phase, paused, channels, disk, loop, peer, db, known, bounds>>

\* nsqlookupd is asked for channels, at the address it gave when a connection was
\* last made, there still or not: they are created before the topic starts. The
\* query may fail.
GetTopicQuery(p) ==
    /\ call[p].op = "query"
    /\ \/ info /\ known /\ Goto(p, "getChannel", call[p].obj)
       \/ Return(p)
    /\ UNCHANGED <<phase, nsqd, disk, notes, loop, peer, lookupd, bounds>>

-----------------------------------------------------------------------------
(* DeleteExistingTopic: look up, Delete without a lock, remove the entry.  *)

DeleteExistingTopic(p) == p \in Deleters /\ topicMap # None /\ Request(p, "exit", topicMap)

\* topic.exit: the second caller is told "exiting" at once.
TopicExit(p) ==
    /\ call[p].op = "exit"
    /\ LET t == call[p].obj IN
       \/ /\ flag[t] = "live"
          /\ flag' = [flag EXCEPT ![t] = "exiting"]
          /\ notes' = notes \cup {Note("topic", t, "exit", "send")}
          /\ Goto(p, "purge", t)
       \/ /\ flag[t] = "exiting"
          /\ Goto(p, "unmap", t)
          /\ UNCHANGED <<flag, notes>>
    /\ UNCHANGED <<phase, topicMap, paused, channels, disk, loop, peer, lookupd, bounds>>

\* channel.Delete: a channel that Exit has closed is not told of.
DeleteChannel(c) ==
    /\ chanFlag' = [chanFlag EXCEPT ![c] = "exiting"]
    /\ notes' = IF chanFlag[c] = "live" THEN notes \cup {Note("channel", c, "exit", "send")}
                ELSE notes

\* Under the topic's lock every channel leaves the map and is deleted.
TopicPurge(p) ==
    /\ call[p].op = "purge"
    /\ LET t == call[p].obj IN
       /\ channelMap' = [channelMap EXCEPT ![t] = None]
       /\ \/ channelMap[t] # None /\ DeleteChannel(channelMap[t])
          \/ channelMap[t] = None /\ UNCHANGED <<chanFlag, notes>>
       /\ Goto(p, "unmap", t)
    /\ UNCHANGED <<phase, topics, disk, loop, peer, lookupd, bounds>>

\* delete(n.topicMap, topicName), whichever topic is there now.
TopicUnmap(p) ==
    /\ call[p].op = "unmap"
    /\ topicMap' = None
    /\ Return(p)
    /\ UNCHANGED <<phase, flag, paused, channels, disk, notes, loop, peer, lookupd, bounds>>

-----------------------------------------------------------------------------
(* The HTTP handlers of an existing topic: look it up, then act on it.     *)

GetExistingTopic(p, op) == topicMap # None /\ Request(p, op, topicMap)

UnusedChannels == {c \in Channels : chanFlag[c] = "unused"}
FreshChannel == CHOOSE c \in UnusedChannels : TRUE

\* getOrCreateChannel makes a channel whenever the name is not in the map, whether
\* there was one before and whether the topic is exiting; the new one is in the map
\* before its Notify can persist.
GetChannel(p) ==
    /\ call[p].op = "getChannel"
    /\ LET t == call[p].obj IN
       \/ /\ channelMap[t] = None /\ UnusedChannels # {}
          /\ channelMap' = [channelMap EXCEPT ![t] = FreshChannel]
          /\ chanFlag' = [chanFlag EXCEPT ![FreshChannel] = "live"]
          /\ notes' = notes \cup {Note("channel", FreshChannel, "new", "send")}
          /\ undone' = IF t = topicMap THEN undone \ {"channel"} ELSE undone
       \/ channelMap[t] # None /\ UNCHANGED <<channels, notes, undone>>
    /\ Return(p)
    /\ UNCHANGED <<phase, topics, disk, loop, peer, db, known, bounds>>

\* doDeleteChannel: out of the map under the topic's lock, then Delete without it.
DeleteExistingChannel(p) ==
    /\ call[p].op = "removeChannel"
    /\ LET t == call[p].obj IN
       /\ channelMap' = [channelMap EXCEPT ![t] = None]
       /\ \/ channelMap[t] # None /\ Goto(p, "exitChannel", channelMap[t])
          \/ channelMap[t] = None /\ Return(p)
    /\ UNCHANGED <<phase, topics, chanFlag, disk, notes, loop, peer, lookupd, bounds>>

ChannelExit(p) ==
    /\ call[p].op = "exitChannel"
    /\ DeleteChannel(call[p].obj)
    /\ Return(p)
    /\ UNCHANGED <<phase, topics, channelMap, disk, loop, peer, lookupd, bounds>>

\* doPauseTopic: the flag, then PersistMetadata under n.Lock.
Pause(p) ==
    /\ call[p].op = "pause"
    /\ paused' = [paused EXCEPT ![call[p].obj] = ~@]
    /\ Goto(p, "persist", call[p].obj)
    /\ UNCHANGED <<phase, topicMap, flag, channels, disk, notes, loop, peer, lookupd, bounds>>

\* Mutant: left to the next Notify.
PausePersistLater(p) ==
    /\ call[p].op = "persist"
    /\ Return(p)
    /\ UNCHANGED <<phase, nsqd, disk, notes, loop, peer, lookupd, bounds>>

PausePersist(p) ==
    /\ call[p].op = "persist"
    /\ PersistMetadata
    /\ Return(p)
    /\ UNCHANGED <<phase, nsqd, notes, loop, peer, lookupd>>
-----------------------------------------------------------------------------
(* lookupLoop and its lookupPeer.                                          *)

\* REGISTER of a channel registers the topic too.
Register(what) == IF what = "topic" THEN {"topic"} ELSE Keys

\* Mutant: a channel is left to its own Notify.
RegistrationsTopics == IF topicMap = None THEN {} ELSE {"topic"}

\* connectCallback registers what is in the maps, exiting or not.
Registrations ==
    IF topicMap = None THEN {} ELSE Register(IF channelMap[topicMap] # None THEN "channel" ELSE "topic")

\* UNREGISTER of a topic takes its channels along.
Execute(regs, cmd, id) ==
    IF cmd.name = "REGISTER" THEN regs \cup (Register(cmd.what) \X {id})
    ELSE regs \ ((IF cmd.what = "topic" THEN Keys ELSE {"channel"}) \X {id})

NextConnection == CHOOSE id \in Connections \ broken : \A other \in Connections \ broken : id =< other

\* What clients find under the two names and is not exiting.
LiveKeys ==
    {k \in Keys : topicMap # None /\ flag[topicMap] = "live" /\ (k = "channel" => channelMap[topicMap] # None)}

\* The command lookupLoop made, on a connection with these registrations.
Send(id, regs, lost) ==
    LET after == Execute(regs, loop, id) IN
    /\ db' = after
    /\ known' = (known \/ \E any \in Connections : <<"channel", any>> \in regs \cup after)
    /\ undone' = {k \in lost \cup {l \in LiveKeys : <<l, id>> \in regs} : <<k, id>> \notin after}

\* The next use of a lost connection fails and closes it.
Disconnect == conn \in broken /\ conn' = 0 /\ undone' = {} /\ UNCHANGED <<info, db, known>>

\* lookupPeer.Command: on the connection it has, after a reconnect, or in vain.
LookupCommand ==
    /\ loop \notin {NoCommand, LoopEnded} /\ phase # "down"
    /\ \/ conn # 0 /\ conn \notin broken /\ Send(conn, db, undone) /\ UNCHANGED <<conn, info>>
       \/ Disconnect
       \/ /\ conn = 0 /\ conn' = NextConnection /\ info' = TRUE
          /\ Send(NextConnection, db \cup (Registrations \X {NextConnection}), {})
       \/ conn = 0 /\ UNCHANGED <<conn, info, lookupd>>
    /\ loop' = NoCommand
    /\ UNCHANGED <<phase, nsqd, disk, notes, call, broken, bounds>>

\* The heartbeat finds out that the connection is gone, or connects again.
Ping ==
    /\ loop = NoCommand /\ phase # "down"
    /\ \/ Disconnect
       \/ /\ conn = 0 /\ conn' = NextConnection /\ info' = TRUE
          /\ db' = db \cup (Registrations \X {NextConnection})
          /\ known' = (known \/ "channel" \in Registrations)
          /\ undone' = {}
    /\ UNCHANGED <<phase, nsqd, disk, notes, call, loop, broken, bounds>>

LoopExit ==
    /\ phase = "exiting" /\ loop = NoCommand
    /\ loop' = LoopEnded
    /\ UNCHANGED <<phase, nsqd, disk, notes, call, peer, lookupd, bounds>>

-----------------------------------------------------------------------------
(* nsqlookupd.                                                             *)

\* IOLoop of a lost connection removes its registrations one by one; the keys
\* stay.
LookupdCleanup(id) ==
    /\ id \in broken
    /\ \E k \in Keys : <<k, id>> \in db /\ db' = db \ {<<k, id>>}
    /\ UNCHANGED <<phase, nsqd, disk, notes, call, loop, peer, known, undone, bounds>>

\* RemoveRegistration of the HTTP API, in doDeleteChannel for the channel and in
\* doDeleteTopic for the channels it found and then for the topic: the key goes with
\* all its producers. nsqd is not told.
LookupdDelete(k) ==
    /\ Counted
    /\ IF k = "channel" THEN known ELSE \E id \in Connections : <<k, id>> \in db
    /\ db' = db \ ({k} \X Connections)
    /\ known' = (known /\ k # "channel")
    /\ undone' = undone \cup {l \in LiveKeys : l = k /\ <<k, conn>> \in db}
    /\ UNCHANGED <<phase, nsqd, disk, notes, call, loop, peer>>

\* doCreateChannel of the HTTP API: a key without a producer.
LookupdCreate ==
    /\ Counted
    /\ ~known /\ known' = TRUE
    /\ UNCHANGED <<phase, nsqd, disk, notes, call, loop, peer, db, undone>>

ConnectionBreaks ==
    /\ conn # 0 /\ conn \notin broken
    /\ broken' = broken \cup {conn} /\ Fault
    /\ UNCHANGED <<phase, nsqd, disk, notes, call, loop, conn, info, lookupd>>

LookupdRestart ==
    /\ conn # 0 /\ conn \notin broken
    /\ broken' = broken \cup {conn} /\ Fault
    /\ db' = {} /\ known' = FALSE
    /\ UNCHANGED <<phase, nsqd, disk, notes, call, loop, conn, info, undone>>

-----------------------------------------------------------------------------
(* Exit, crash and restart of nsqd.                                        *)

\* Under n.Lock: PersistMetadata, Close of every topic; then exitChan is closed.
Exit ==
    /\ phase = "running" /\ Fault
    /\ Written \/ NotWritten
    /\ LET closes(t) == t = topicMap /\ flag[t] = "live" IN
       /\ flag' = [t \in Topics |-> IF closes(t) THEN "exiting" ELSE flag[t]]
       /\ chanFlag' = [c \in Channels |->
              IF \E t \in Topics : closes(t) /\ channelMap[t] = c THEN "exiting" ELSE chanFlag[c]]
    /\ phase' = "exiting"
    /\ UNCHANGED <<topicMap, paused, channelMap, notes, call, loop, peer, lookupd>>

\* The process is gone, with all it had in memory.
Down ==
    /\ phase' = "down"
    /\ topicMap' = None /\ notes' = {} /\ loop' = NoCommand
    /\ call' = [p \in Callers |-> Idle]
    /\ conn' = 0 /\ info' = FALSE /\ broken' = broken \cup ({conn} \ {0})
    /\ flag' = [t \in Topics |-> "unused"] /\ paused' = [t \in Topics |-> FALSE]
    /\ channelMap' = [t \in Topics |-> None] /\ chanFlag' = [c \in Channels |-> "unused"]
    /\ undone' = {}
    /\ UNCHANGED <<disk, db, known>>

Crash == phase = "running" /\ Fault /\ Down

\* waitGroup.Wait: the goroutines of Notify and lookupLoop.
ExitDone == phase = "exiting" /\ notes = {} /\ loop = LoopEnded /\ Down /\ UNCHANGED bounds

\* LoadMetadata, with isLoading set, and main's PersistMetadata, before lookupLoop
\* and the listeners start. The notes of this phase do not persist.
LoadMetadata ==
    /\ phase = "down"
    /\ phase' = "running"
    /\ IF file = {}
       THEN UNCHANGED <<nsqd, notes>>
       ELSE \E topic \in file :
            /\ topicMap' = Fresh
            /\ flag' = [flag EXCEPT ![Fresh] = "live"]
            /\ paused' = [paused EXCEPT ![Fresh] = topic.paused]
            /\ IF topic.channel
               THEN /\ channelMap' = [channelMap EXCEPT ![Fresh] = FreshChannel]
                    /\ chanFlag' = [chanFlag EXCEPT ![FreshChannel] = "live"]
                    /\ notes' = {Note("topic", Fresh, "new", "sendOnly"),
                                 Note("channel", FreshChannel, "new", "sendOnly")}
               ELSE notes' = {Note("topic", Fresh, "new", "sendOnly")} /\ UNCHANGED channels
    /\ stale' = FALSE
    /\ UNCHANGED <<file, call, loop, peer, lookupd, bounds>>

-----------------------------------------------------------------------------
Handlers(p) ==
    \/ GetTopicLocked(p) \/ GetTopicQuery(p)
    \/ TopicExit(p) \/ TopicPurge(p) \/ TopicUnmap(p)
    \/ GetChannel(p) \/ DeleteExistingChannel(p) \/ ChannelExit(p)
    \/ Pause(p) \/ PausePersist(p)
Notifying == \E n \in notes : NoteSend(n) \/ NoteExit(n) \/ NotePersist(n)

Next ==
    \/ \E p \in Callers :
        \/ GetTopic(p) \/ DeleteExistingTopic(p) \/ Handlers(p)
        \/ \E op \in {"getChannel", "removeChannel", "pause"} : GetExistingTopic(p, op)
    \/ Notifying \/ LookupCommand \/ Ping \/ LoopExit
    \/ \E id \in Connections : LookupdCleanup(id)
    \/ (\E k \in Keys : LookupdDelete(k)) \/ LookupdCreate
    \/ ConnectionBreaks \/ LookupdRestart
    \/ Exit \/ Crash \/ ExitDone \/ LoadMetadata

Spec == Init /\ [][Next]_vars

-----------------------------------------------------------------------------
(* Properties.                                                             *)

\* A topic that still takes messages is the one clients find under its name:
\* DeleteExistingTopic lets go of the name only after Delete has stopped it, and
\* GetTopic makes a new one only then.
LiveIsMapped ==
    phase = "running" => \A t \in Topics : flag[t] = "live" => topicMap = t

\* Nothing is under way in nsqd.
AtRest == phase = "running" /\ notes = {} /\ \A p \in Callers : call[p] = Idle

\* Once what follows a change has run, the metadata file has the topic as it is,
\* its pause and its channel, so that a crash forgets none of it: Notify persists
\* after the change it tells of, and after the last of several.
FileCovers ==
    AtRest /\ ~stale /\ topicMap # None => file = Metadata

\* Once lookupLoop has nothing left to send and is connected, nsqlookupd has the
\* topic and its channel, the first of their names or later ones, through reconnects,
\* restarts of either side and the clean-up of old connections. The exceptions are
\* kept in undone: Notify starts a goroutine for every change, so that the UNREGISTER
\* of a deleted topic or channel may come after the REGISTER of the next one, and
\* nsqlookupd's HTTP API deletes without telling nsqd.
RegisteredAtRest ==
    /\ AtRest /\ loop = NoCommand /\ conn # 0 /\ conn \notin broken
    /\ topicMap # None
    => /\ "topic" \notin undone => <<"topic", conn>> \in db
       /\ channelMap[topicMap] # None /\ "channel" \notin undone => <<"channel", conn>> \in db

\* Exit does not wait for ever: until the process is down, a goroutine of Notify,
\* lookupLoop or Exit itself can go on, and each of them goes on only a bounded
\* number of times. Notify selects on exitChan, so that a note that lookupLoop no
\* longer takes does not hold up waitGroup.Wait.
ExitGoesOn ==
    phase = "exiting" => ENABLED (Notifying \/ LookupCommand \/ LoopExit \/ ExitDone)
=============================================================================
