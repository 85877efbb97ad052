# A TLA+ model of nsqd and the libraries read beside it

`src/` collects Go systems for reading: the messaging system **nsq**, the
libraries **hystrix-go**, **bigcache**, **groupcache**, **ants**, **grpool**,
**pool**, **ringbuffer** and **tcc-go**, and copies of the Go distribution
(`go1.13-src`) and of `grpc-go`. The centre of this project is `nsq/nsqd`, the
daemon that receives, queues and delivers messages: it is the largest part that
the repository annotates, and the one where goroutines, disk, time-outs and
connections meet. Beside it, the concurrent cores of hystrix-go and ants are
modelled.

## The system's parts and how they interact

| part | state | operations that change it | met by |
|---|---|---|---|
| topic (`nsqd/topic.go`) | memory and disk queue, `channelMap`, paused and exit flags | PutMessage(s), GetChannel, DeleteExistingChannel, Pause, Empty, Delete, Close, `messagePump` | publishers (PUB, MPUB, DPUB, HTTP), SUB, HTTP API, nsqd's exit |
| channel (`nsqd/channel.go`) | memory and disk queue, in-flight map and heap, deferred map and heap, clients | PutMessage, PutMessageDeferred, StartInFlightTimeout, FIN, REQ, TOUCH, the two scans, Empty, Delete, Close | the topic's pump, each consumer's two goroutines, scan workers, HTTP API |
| consumer connection (`client_v2.go`, `protocol_v2.go`) | ReadyCount, InFlightCount, State, ReadyStateChan, write buffer | SUB, RDY, FIN, REQ, CLS, the pump's select | the consumer, the channel, the scan, pause and Empty |
| registry and metadata (`nsqd/nsqd.go`) | `topicMap`, metadata file, `notifyChan` | GetTopic, DeleteExistingTopic, Notify, LoadMetadata, PersistMetadata, Exit | every SUB and PUB, lookupd |
| scan scheduler (`nsqd/nsqd.go`) | worker pool, ticks | queueScanLoop, queueScanWorker, resizePool | channels |
| lookupd (`nsqlookupd`) and `nsqd/lookup.go` | registration database, tombstones | REGISTER, UNREGISTER, PING, IDENTIFY, connection loss, HTTP API | nsqd, operators |
| message IDs (`nsqd/guid.go`) | last timestamp, sequence | NewGUID | topic |
| hystrix-go | circuit flags, ticket pool, metrics | GoC's goroutines, ReportEvent, AllowRequest | callers |
| ants, grpool, pool | workers, idle lists | submit, revert, purge, Release; Get, put, Close | callers |
| groupcache, bigcache, ringbuffer | caches, byte queues | load, populateCache; Push, Pop, Get, set | callers |
| tcc-go | transaction steps | try, confirm, cancel | services |

A message travels publisher -> topic queue -> (copied by the topic's pump) ->
channel queue -> consumer's pump -> in flight -> finished, requeued, or timed
out and queued again. `NsqdTopic`, `NsqdChannel` and `NsqdClient` follow this
path, each taking the part before and after it as its environment.
`NsqdLifecycle` is about the names instead of the messages: nsqd, its metadata
file, its lookup loop and nsqlookupd together.

## Modules

| module | models |
|---|---|
| `NsqdChannel` | `channel.go`, `in_flight_pqueue.go`, and what `protocol_v2.go` does with a channel |
| `ChannelContract` | what a channel promises for each message, abstractly |
| `NsqdChannelImplements` | the refinement mapping from `NsqdChannel` to `ChannelContract` |
| `NsqdChannelConservation`, `NsqdChannelRefinement`, `NsqdChannelFlight` | theorems about the channel |
| `NsqdClient` | `client_v2.go` and `messagePump`/`IOLoop` of `protocol_v2.go`: flow control |
| `NsqdClientProofs` | theorems about it |
| `NsqdTopic` | `topic.go` |
| `NsqdTopicProofs` | theorems about it |
| `NsqdLifecycle` | `nsqd.go` (topics, Notify, metadata, Exit), `lookup.go`, `lookup_peer.go`, the registrations of `nsqlookupd` |
| `NsqdLifecycleProofs` | theorems about it |
| `HystrixCircuit` | `circuit.go` of hystrix-go with the rolling counts |
| `HystrixCommand` | `hystrix.go` and `pool.go`: the goroutines of Do and Go, on top of the circuit |
| `HystrixProofs` | theorems about both |
| `AntsPool` | `pool.go`, `worker.go` and the two worker queues of ants |
| `AntsPoolProofs` | theorems about it |
| `MCNsqdChannel`, `MCNsqdTopic`, `MCAntsPool` | symmetry sets, option sets and a state constraint for TLC |

Rules common to all: a section of code executed under one mutex, one atomic
operation, or one communication on a Go channel is one action, so whatever can
happen between two such sections is a behaviour. Messages are model values;
queue order is abstracted, which only adds behaviours. Variables have the names
of the fields they stand for; `history` variables are not read by any guard.
The disk queue is go-diskqueue, which is not in the repository: a set of
messages whose writes may fail. Definitions marked "Mutant" are not part of a
specification: each is an operation with a plausible mistake, kept to show that
a property would notice it.

### NsqdChannel: the life of a message

The goroutines are the topic's pump (`PutMessage`, `PutMessageDeferred`), for
each client its messagePump (`PumpRecvMemory`, `PumpRecvBackend`, `PumpPush`,
`PumpAdd`, `PumpSend`) and its IOLoop (`popInFlightMessage`, `IoRemovePQ`,
`Requeue*`, `Touch*`, `IoCount`), one queueScanWorker (`Scan*`), and one
administrative caller (`Empty*`, `exit`, `Flush*`).

- `Obj` is the set of `*Message` pointers: reading a message back from disk
  allocates another one. This matters because `removeFromInFlightPQ` trusts
  `Message.index`, which is 0 in a message just decoded, a heap position while
  the heap holds it and -1 afterwards. `index` keeps these three cases.
- `inFlightPQ` counts how often the heap holds a pointer, so that a double
  insertion would show. Deadlines are abstracted: `ScanShift` may take any entry.
- `panicked` records that `removeFromInFlightPQ` indexed outside the heap; the
  model then stops, as the process does.
- Pausing a channel only concerns who takes messages, hence `NsqdClient`.

### ChannelContract: what a channel promises

One variable: where each message is (new, waiting, out with one consumer,
finished, discarded) and six ways it may change: accepted, delivered, finished
by the consumer that has it, taken back from it, discarded, or left to the files
by Close. `ContractState` of `NsqdChannelImplements` reads this off a channel: a
message is out while it is in the in-flight map, and also while TOUCH has it out
of the map to put it back; it waits wherever else the channel has it. A message
that were published and nowhere would be "lost", a state the contract does not
have.

### NsqdClient: RDY, ReadyStateChan and the pump

One consumer, messages counted and not named. The pump's `select` is `"on"`
(with the message channels) or `"off"`. `IsReadyForMessages` is three actions
because it reads three values without a lock. Every goroutine that changes one
of them does so in one step and sends the token in a later one. `OtherConsumer`
and `PutMessage` are the rest of nsqd. `Nameable` says which messages a consumer
can answer: those it was sent.

### NsqdTopic: fan-out

`messagePump` keeps its own list `chans` and the switch `on` (its copies of the
queue channels are not nil); both change only when it is told over an unbuffered
channel (`Told`). Callers take the lock, release it, and then wait for the pump
or for `exitChan`. `exit` is one action per step of the code, from the flag to
the closing of the disk queue. `owed[m]` records the channels that existed, and
whose creator had been answered, when `m` was put. Closing the channels one by
one is one action, since the pump has ended by then.

### NsqdLifecycle: a name across deletion, restart and reconnection

One topic name with one channel name. Each `*Topic` and each `*Channel` that ever
had the name in this process is a number, so that one deleted and created again is
another one; GetChannel creates whenever the name is not in the map. The process
may begin with any metadata file an earlier one left. `call[p]` is where a client's goroutine is between the lock sections of
GetTopic, DeleteExistingTopic, GetChannel, DeleteExistingChannel or a pause
request; `notes` are the goroutines that Notify starts, which send to
`notifyChan` or give up at `exitChan`, and then persist the metadata. `Exit`,
`Crash` and `LoadMetadata` stop and start nsqd; a write of the file may fail.
`lookupLoop` executes commands and pings over one connection, which may break;
a reconnection runs the callback that registers everything again. `info` is the
address that `lookupPeer` keeps when the connection is lost: a new topic asks there
for its channels, and the answer comes from the keys of the database, with or
without producers (`known`).
`LookupdCleanup` is what nsqlookupd does when it notices a lost connection, at
any later time, and `LookupdRestart` empties its database. `LookupdDelete` is each
`RemoveRegistration` of the HTTP handlers `doDeleteTopic` and `doDeleteChannel` of
nsqlookupd, of which nsqd is not told, and `LookupdCreate` is `doCreateChannel`.
`undone` is a history variable: the keys of what is live whose registration was
taken away on this connection and not made again, by the UNREGISTER of an earlier
topic or channel that overtook the REGISTER of its successor, or over the HTTP API.

### HystrixCircuit and HystrixCommand

A command is one call of Do or Go: the goroutine that takes a ticket and runs the
function (`run`), the one that waits for the end, the time-out and the context
(`timer`), and the caller. Both goroutines reach for `returnOnce`; `body` is
where its winner is. `call[c]` is where a command is in `AllowRequest` or
`ReportEvent`, whose lock sections are separate actions; the compare-and-swap of
`allowSingleTest` is separate from the load before it. The metrics channel is
bounded and drops what does not fit, as the code does. The clock is bounded and
ticks at any time, so a time-out may race with anything.

### AntsPool

A submitter is one call of Submit with its task. The steps of `retrieveWorker`
between unlocking, spawning and sending are separate, as are the worker's steps
between its task and the queue. `cond.Wait` is an entry in `waiting`. The pool's
options and its size are chosen in the initial state, so that one run covers
blocking, non-blocking, pre-allocated and unlimited pools. Abstractions: `Cap`
and `Running` are read in one step, and the channel of a worker holds one item
(`workerChanCap` with more than one CPU).

## Runs

| run | question | bounds | result |
|---|---|---|---|
| `channel_timeouts` | does a message ever escape the time-out scan; is the client's counter exact; are abandoned and deferred messages queued again? | 1 message in memory, 2 consumers, 2 deliveries | holds |
| `channel_storage` | is a message ever duplicated, lost for no reason, or revived; does the channel implement its contract? | 1 message through disk, 2 sampling consumers, 1 failing write, 1 Empty, Delete and Close | holds |
| `channel_fresh_index` | the first, with 2 messages and disk | 2 messages, 1 consumer, memory queue of 1 | **violated** |
| `client_safety` | are wake-ups lost; is RDY kept? | RDY 0..1, 2 messages, 1 Empty, 1 failing requeue, 1 pauser | holds |
| `client_live` | is a ready consumer served; is the buffer flushed? | RDY 0..1, 2 messages, 1 pauser | holds |
| `topic_fanout` | does each channel get what it is owed, once; do Pause and Close do what they say? | 2 messages, memory queue of 1, 1 publisher, 1 caller, a name created twice, failing writes | holds |
| `topic_live` | do calls return, messages move and exits end? | ephemeral topic, 1 DPUB message, 1 caller, a name created twice | holds |
| `topic_batch` | does a call of PutMessages that fails leave nothing in the topic? | a batch of up to 2 messages, 1 publisher, no caller, memory queue of 1 | **violated** |
| `lifecycle` | are the file and nsqlookupd right whenever nothing is under way; does Exit end? | 2 callers of which 1 deletes, 2 topics and 2 channels of one name, any earlier file, 2 requests, 1 fault | holds |
| `lifecycle_delete` | is the topic that takes messages the one clients find? | 2 callers that delete, 4 requests | **violated** |
| `hystrix` | are tickets conserved; is there one verdict; does one test pass; is every goroutine done in the end? | 2 commands (one by Do with a fallback, one by GoC with a context), 1 ticket, 1 tick, 1 toggle, room for 1 update | holds |
| `ants` | has a worker one owner; do accepted tasks run once; is no call left waiting and no worker left over? | 3 calls, 3 workers, sizes 1, 2 and unlimited, 1 Tune, 1 Release | holds |

Why these bounds are enough to be interesting: two deliveries make a late answer
to the first one meet the second; two consumers let a message change hands; a
memory queue of 0 or 1 makes spilling happen; two generations of
a name let the pump work from a list with the old channel when the new one is
there. One failing write at any place reaches every error path. In
`lifecycle` the name may begin with a topic and a channel from the file, so that
two requests delete it and make it again while their notes are on the way; the run
reaches states in which the successor's registration is undone, of the topic and of
the channel. One fault is a lost connection, whose late clean-up meets the
registrations of the next one, a restart of either side, or a failing write; more of them
together are left to the proofs. Two commands on one ticket make one of them rejected, and two tests
meet at the compare-and-swap; a tick ends the window and the sleep. Three calls
on a pool of one or two make two of them wait while Tune, the scavenger or
Release comes. A second caller at the topic and larger RDY counts are
left to the proofs, since the runs with them take more than a few minutes. What
more messages or commands would add is mostly more of the same, which the proofs
below confirm for the properties they cover, except where messages that were read
back from disk share the in-flight heap, which is what `channel_fresh_index` is
about.

Deadlock is checked in the client runs. The other systems may be closed or run
out of the bounded number of deliveries, requests or commands, and then stop.

### What the violations show

- **`channel_fresh_index`.** `removeFromInFlightPQ` (`channel.go:517`) removes
  the heap entry at `msg.index` unless it is -1. A message decoded from disk has
  index 0 before `addToInFlightPQ`. If it was delivered before, timed out, and
  its consumer's late FIN comes between `pushInFlightMessage` and
  `addToInFlightPQ` of its redelivery to the same consumer, the entry at
  position 0, another message, goes. That message stays in flight with no
  time-out, against the "at least once" that `protocol_v2.go:357-358` states.
- **`topic_batch`.** `PutMessages` tests the exit flag once and puts message by
  message; `exit` flushes and closes the disk queue without the lock. A batch that
  meets the closed queue fails with its second message, and the first stays in the
  topic, where MPUB (`protocol_v2.go:953-955`) says "no messages will be queued in
  that case". A failing write has the same outcome while the topic is not exiting
  at all, which is not among the errors that comment expects. In the trace the first
  message enters memory after flush, so it dies with the process; a PUB of one
  message at that place is answered OK although `topic.go:361` says that "Close
  persists all outstanding topic data". `CleanClose`, which holds, says that this
  is limited to publishers that were inside a call when Close began.
- **`lifecycle_delete`.** `DeleteExistingTopic` deletes the map entry by name
  (`nsqd.go:585`). Of two concurrent calls the second may come to it after the
  first one is through and the topic was created again: the new topic lives on
  unmapped, and the next PUB creates a third over the same files. With one
  deleter `LiveIsMapped` holds, which `lifecycle` checks and
  `LiveTopicHasItsName` proves.

Met while modelling, and kept out of the runs because no line of the repository
says otherwise or the effect is small: the UNREGISTER of a deleted topic or channel
may follow the REGISTER of the next one of the name, since Notify starts a goroutine
for each, and the registration then stays away until a reconnection or another
change (`RegisteredAtRest` excepts it); two calls of Submit may each find room for
one worker, so that ants runs one more than the "given number" of `ants/pool.go:33`
for a while; a command that `DoC` reported as a success may be counted as a
time-out; `Empty` may set a client's counter to 0
between `StartInFlightTimeout` and `SendingMessage`, which leaves it at 1 (so
`RdyRespected` is stated for a channel that is not emptied, and `CountExact` is
checked in a run without Empty); it may also leave a message that is delivered
meanwhile without a heap entry (see `InFlightIsSeen` below); the delay of a DPUB message is lost when the
topic spills it to disk; the metadata file may keep a topic that was deleted
while the last write failed or came first (`FileCovers` is about topics that are
there); the percentage of errors can pass 100, since attempts and errors of one
execution may fall on the two sides of a window; `Release` of ants broadcasts
once, so a call that is on its way into `cond.Wait` then goes on waiting
(`WaitersServed` is about an open pool, the comment at `ants/pool.go:221-222`
about a closed one).

## Fairness

- A goroutine inside a handler goes on (weak fairness of its steps): it holds no
  resource another one keeps for ever, and the Go scheduler is fair.
- Go's `select` picks at random among the ready cases, so a case that is ready
  again and again is taken (strong fairness of the pumps' cases and of a caller
  waiting for a pump). `sync.RWMutex` lets no writer starve (strong fairness of
  `ExitChannels`).
- `queueScanLoop` visits channels again and again, and the heap yields the
  earliest deadline first, so no entry is passed over for ever (strong fairness
  of `ScanShift(o)` and `ScanShiftDeferred(o)`).
- nsqd calls `Start` on the topics it creates, and the deleter of an ephemeral
  topic runs once started.
- Nothing is assumed of consumers, publishers, operators, the heartbeat, or the
  success of writes.

In `HystrixCommand`, `AntsPool` and `NsqdLifecycle` what must happen in the end
is an invariant instead (`EndsWell`; `WaitersServed`; `ExitGoesOn`). Every step there uses up something that is not
renewed (a command's position, a task, a note), so a goroutine that keeps running
comes to a state in which none of the steps in question is possible, and the
invariant says of that state what must have happened, or that it is not reached
too early. This needs no more than weak fairness of each goroutine. `AcceptedRuns`
and `WorkersEnd` say the same of a task and of a worker without reference to the
end: a task that was accepted is always in the channel of the goroutine that
receives it next, and a worker that waits is always where somebody will send it
something. For ants all this takes for granted that tasks end; `EndsWell` does not take it for granted
that a command's function returns.

## What is proved

All proofs are for any number of messages, consumers, channels, callers,
commands, tickets and workers and any value of the bounds. The assumptions are the named
ones on the constants: `ChannelConstants`, `ClientConstants`, `TopicConstants`,
`CircuitAssumption`, `CommandAssumption`, `LifecycleAssumption` and
`AntsAssumption`. A theorem that holds under a further condition names it as a
hypothesis.

**Channel.**

- `TypeCorrect` (`NsqdChannelConservation`): `TypeOK`. The invariant `TypeInv` adds
  `AllocOK`, without which it is not inductive: a message is decoded from disk
  at most once per delivery, so that the new `*Message` is in `Obj`.
- `MessagesConserved`, with its parts `NothingLost` and `FinishedStaysFinished`
  (`NsqdChannelConservation`): `UniquePlace`, `Accounted` and
  `FinishedIsFinal`. None is inductive: that a message is in one place is kept
  by an arriving message only because the channel holds nothing it has not
  accepted (`Known`), and that by a move only because of the other two. `Cons`
  states the four together over places `At(m, k, h)`: message `m` is in the
  place `h` of kind `k`. Eight small laws are proved for a step (nothing changes place, a message moves, is dropped, joins its copy, arrives,
  is refused, a kind of place is cleared, Close copies) and what a change of each
  variable does to the places; then each action is shown to obey one of the laws. `ExitOrder` adds that no scan runs on an exiting channel
  and that only `exit` flushes.
- `ChannelImplements` (`NsqdChannelRefinement`): the channel implements
  `ChannelContract`. With conservation, the contract's state of a message can be
  read off from whether it is published, finished or dropped and which consumer
  it is with (`Reads`); at most one consumer is, because two would be two places.
  Each action is then shown to be one transfer of the contract or none. One more
  fact is needed, `TouchOwner`: the consumer that touches a message is still its
  owner when it puts the message back, since only a messagePump that holds a
  message writes its `clientID`. Once Close has begun to copy, the contract is in
  its last state.
- `NsqdChannelFlight` is about the maps and the heaps, which one operation changes
  in two lock sections.
  - `DeferredIsSeen`: `DeferredCovered`, with no hypothesis. It is inductive as it
    stands, given the types.
  - `InFlightIsSeen`: `InFlightCovered`, if Empty is not called (`MaxEmpty = 0`)
    and no message of the open channel is on disk (`InMemory`). Both hypotheses
    are needed. A message read back from disk is a second `*Message` with index 0,
    and `channel_fresh_index` is the counterexample that follows. Empty
    makes a new heap and leaves the indices: an answer that took its message from
    the map before Empty then removes whatever entry of the new heap is at the old
    position, that of a message delivered meanwhile. TLC finds this with two
    messages, one consumer and one Empty.
    `FlightInv` adds to the property that every pointer in use is the one the
    message arrived with (`Originals`), that an index which claims a place in the
    heap is right, and that a consumer which can name a message has seen it after
    `addToInFlightPQ` (`HeapInv`). The late FIN of an earlier delivery is the hard
    case: it removes the heap entry of the new delivery, but only after it took the
    message out of the map. Entries that a late answer left
    behind are in the heap beyond those that are needed, and the invariant allows
    them.
  - `CountersExact`: `CountExact`, under the same two hypotheses. `CountInv` adds
    that the message an IOLoop holds still carries its client's ID (`OwnerInv`) and
    that the map is finite; `NewInv` that a consumer which has not subscribed left
    no trace. What a step adds to or takes from a client's share of the map is a
    lemma about cardinality, and each action is shown to move one between the share
    and the goroutines that are between the map and the counter.
  - `EphemeralChannelExact`: an ephemeral channel has nothing on disk, so for it
    both hold without the hypothesis `InMemory`.

**Consumer connection** (`NsqdClientProofs`). `ClientInvariant` is the inductive
invariant, and from it `ClientTypes` (`TypeOK`), `WakeupNeverLost`
(`NoLostWakeup`), `LateBounded` (`AtMostOneLate`) and `InFlightBounded`
(`RdyRespected`). The strengthenings: `Reachable`, the client is in the channel's
map whenever its pump may sleep, so that pause and Empty reach it;
`StaleReadAnnounced`, a ReadyCount that changed after the pump read it is
announced by a token in the channel or on its way; `LateIsLast`, after a late
message the pump has read nothing that would let it take another; `CountCovers`,
InFlightCount is raised after and lowered after the map, so it is never less than
what is in flight but for the one message being sent.

**Topic** (`NsqdTopicProofs`). `TopicTypes` (`TypeOK`) needs
that the memory queue is finite and that pump and callers hold a message or a
channel where they say so. `TopicInvariant` is inductive, and from it
`NeverTwice` (`NotTwice`), `NoneForgotten` (`OwedReached`), `PauseEffective`
(`PauseHolds`) and `CloseFlushes` (`CleanClose`). The strengthenings: `CallsInv`,
a message belongs to one call of PutMessages until it is acknowledged; `FlowInv`,
a message is with its publisher, in one queue, or past them, never in two;
`CloseInv`, what was acknowledged when exit began has left memory once flush is
through; `PauseInv`, the pause also holds while the pump delivers, after which it
selects again; `ChanInv`, a generation of a name is used once, and a pump that
reads the queues works from a list with every established channel; `OwedInv`,
only established channels are owed anything.

**hystrix-go** (`HystrixProofs`). `HystrixInvariant` is
inductive, and from it `HystrixTypes` (`TypeOK`), `NoTicketLost`
(`TicketsConserved`), `TicketFirst` (`TicketBeforeAnswer`), `VerdictOnce`
(`OneVerdict`) and `SingleTest` (`OneTestPerWindow`). The strengthenings:
`OnceOK`, who is inside `returnOnce` and from where it was entered; `TicketOK`, a
ticket is taken only before `ticketChecked` is set and held only until
`returnTicket`; `VerdictOK`, nothing is reported or answered before the verdict,
and one of the possible outcomes after it; `TestInv`, the times that commands which
passed the test replaced are older than the one in place, so that none is seen
again.

**Topic registry and lookup** (`NsqdLifecycleProofs`). `LifecycleTypes`
(`TypeOK`) needs that a caller which acts on a topic has one, that connections are
numbered in their order, and that a process which is down has nothing in memory.
`FileIsCurrent` (`FileCovers`) rests on `FileInv`: what the file does not have yet,
a goroutine of Notify or a request on its way will persist. `NamesRegistered`
(`RegisteredAtRest`) is about whatever topic and channel have the names now, with no
hypothesis. It rests on `RegisterInv`: on a working connection nsqlookupd has what is
live and in the maps, or a note of it is on the way, or lookupLoop has its REGISTER
in hand, or it is in `undone`. That a note of something mapped becomes a REGISTER
needs that a channel in the map of its topic is live (`ChanInv`), that a new topic
has no channel yet and no caller is at work on it (`UnusedInv`) and, at rest, that
the mapped topic is live (`MappedInv`).
`LiveTopicHasItsName` (`LiveIsMapped`) has the
hypothesis `OneDeleter`, that at most one caller deletes, without which
`lifecycle_delete` refutes it; `NameInv` adds that the deleter's topic keeps its
name until the deleter removes it.

**ants** (`AntsPoolProofs`). `AntsInvariant` is inductive, and from it `AntsTypes`
(`TypeOK`), `WorkerHasOneOwner` (`OneOwner`), `AcceptedTasksRun` (`AcceptedRuns`)
and `NoWorkerForgotten` (`WorkersEnd`). The properties support each other, and
need `HoldInv`, a call has a worker exactly between retrieval and send; `WaitInv`,
the calls in the condition variable's list are in `cond.Wait`, each once; and
`TaskInv`, only a goroutine in its loop has something in its channel and a task is
there once. The lemmas on which they rest say what inserting into, detaching from,
splitting and emptying either queue does to the elements of a sequence without
repetition.

Only model-checked: `EndsWell`, `WaitersServed` and `ExitGoesOn`, which use
ENABLED, and all liveness properties (`OrphanRequeued`, `DeferredRequeued`,
`ReadyConsumerServed`, `BufferFlushed`, `CallersReturn`, `QueueMoves`,
`ExitCompletes`), since ENABLED and fairness are outside the proof system. Every
other property of a passing run is proved.

## Not modelled

- The parts of the table above without a module; `PROJECT.json` gives each with
  its reason. nsqadmin, the apps, statistics and options are I/O, formatting or
  read-only. `go1.13-src` and `grpc-go` are copies for reading, and with
  the libraries vendored in `tcc-go` they make up nearly all lines of `src/`: the
  Go runtime, compiler and library are what the models are written in terms of,
  not a part of the systems.
- groupcache, bigcache, grpool, pool, ringbuffer and tcc-go: mostly sequential
  code under one lock. The hazards found in groupcache, bigcache, pool and tcc-go
  are listed in `PROJECT.json`.
- Wire format, authorisation, TLS and compression of the protocol.
- A consumer that switched buffering off: with an `output_buffer_timeout` of -1 the
  ticker is stopped (`protocol_v2.go:318-321`), and `BufferFlushed` is about one
  that has the ticker.
- Where `flush` puts the messages of a topic: `CleanClose` says that none is left in
  memory, and a flush that dropped them would pass. In the run they go to the
  disk queue, as the code has it, or are lost where a write fails.
- Deadlines as numbers, priorities and positions in the heaps.
- The map race of Close against GetChannel (`topic.go:400`), which the Go
  runtime turns into an abort when it notices.
- What a crash does to the messages: memory queues are lost by design. What it
  does to names, the metadata file and registrations is in `NsqdLifecycle`.
- In `NsqdLifecycle`: pausing of a channel, ephemeral topics, several nsqlookupds.
- In hystrix-go: the map of circuits with Flush, settings, the metrics of the
  pool, the event stream and the plugins. In ants: Reboot, and `pool_func.go`,
  which repeats the same code.
