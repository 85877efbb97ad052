------------------------------ MODULE AntsPool -------------------------------
(***************************************************************************)
(* The goroutine pool of ants: Pool (pool.go), its workers (worker.go) and *)
(* the queue of idle ones (worker_stack.go, worker_loop_queue.go).         *)
(*                                                                         *)
(* A submitter is one call of Submit and the task it brings. The pool's    *)
(* lock is held across steps only where Running, which changes without the *)
(* lock, is read before cond.Wait. The channel of a worker holds one item  *)
(* (workerChanCap on more than one CPU). Reboot is not modelled.           *)
(***************************************************************************)
EXTENDS Integers, Sequences, FiniteSets, Functions

CONSTANTS
    Submitters,     \* calls of Submit
    Workers,        \* goWorker objects, as many as can be in use
    Sizes,          \* sizes NewPool is called with
    Tunes,          \* capacities Tune is called with
    MaxTunes,       \* bound on calls of Tune
    OptionSet,      \* Nonblocking, PreAlloc and MaxBlockingTasks
    NoWorker

ASSUME AntsAssumption ==
    /\ IsFiniteSet(Submitters) /\ IsFiniteSet(Workers) /\ NoWorker \notin Workers
    /\ "nil" \notin Submitters
    /\ Sizes \subseteq Int /\ Tunes \subseteq Int /\ MaxTunes \in Nat
    /\ OptionSet \subseteq [nonblocking : BOOLEAN, preAlloc : BOOLEAN, maxBlocking : Nat]

VARIABLES
    options, capacity, size,        \* size: of the pre-allocated queue
    closed,                         \* state = CLOSED
    lock,                           \* the submitter that holds it over a step, or {}
    workers,                        \* the queue of idle workers
    worker,                         \* a worker's goroutine: "off", or where it is
    task,                           \* its channel: <<>>, <<"nil">> or <<submitter>>
    submit, got, limit,             \* a call: where it is, its w and its capacity
    waiting,                        \* the notify list of cond
    signals,                        \* ended goroutines that have not signalled yet
    purger, release,                \* purgePeriodically and Release
    ran,                            \* how often a task was started
    tunes

config == <<options, tunes>>
queue == <<workers, size>>
goroutines == <<worker, task, ran>>
calls == <<submit, got, limit>>
cond == <<waiting, signals>>
closing == <<closed, purger, release>>
vars == <<config, capacity, queue, lock, goroutines, calls, cond, closing>>

Free == {}
Running == Cardinality({w \in Workers : worker[w] # "off"})
BlockingNum == Cardinality({s \in Submitters : submit[s] \in {"waiting", "woken"}})

Capacities == (Nat \ {0}) \cup {-1}      \* -1: no limit
SubmitSteps == {"new", "retrieve", "blocking", "waiting", "woken", "open", "spawn", "send",
                "ok", "overload", "closed"}

TypeOK ==
    /\ options \in OptionSet /\ capacity \in Capacities /\ size \in Nat
    /\ closed \in BOOLEAN /\ lock \in {Free} \cup {{s} : s \in Submitters}
    /\ workers \in Seq(Workers) /\ (options.preAlloc => Len(workers) =< size)
    /\ worker \in [Workers -> {"off", "idle", "busy", "revert", "insert", "exit"}]
    /\ task \in [Workers -> Seq(Submitters \cup {"nil"})] /\ \A w \in Workers : Len(task[w]) =< 1
    /\ submit \in [Submitters -> SubmitSteps]
    /\ got \in [Submitters -> Workers \cup {NoWorker}]
    /\ limit \in [Submitters -> Capacities]
    /\ waiting \in Seq(Submitters) /\ signals \in Nat
    /\ purger \in {"wait", "check", "broadcast", "ended"}
    /\ release \in {"notCalled", "reset", "broadcast", "done"}
    /\ ran \in [Submitters -> Nat] /\ tunes \in 0 .. MaxTunes

\* NewPool.
Init ==
    /\ options \in OptionSet
    /\ \E n \in Sizes : capacity = IF n =< 0 THEN -1 ELSE n
    /\ (options.preAlloc => capacity # -1)
    /\ size = (IF options.preAlloc THEN capacity ELSE 0)
    /\ closed = FALSE /\ lock = Free /\ workers = <<>>
    /\ worker = [w \in Workers |-> "off"] /\ task = [w \in Workers |-> <<>>]
    /\ submit = [s \in Submitters |-> "new"] /\ got = [s \in Submitters |-> NoWorker]
    /\ limit = [s \in Submitters |-> capacity]
    /\ waiting = <<>> /\ signals = 0
    /\ purger = "wait" /\ release = "notCalled"
    /\ ran = [s \in Submitters |-> 0] /\ tunes = 0

Goto(s, where) == submit' = [submit EXCEPT ![s] = where]
Become(w, where) == worker' = [worker EXCEPT ![w] = where]
SendNil(ws) == task' = [w \in Workers |-> IF w \in ws THEN Append(task[w], "nil") ELSE task[w]]

-----------------------------------------------------------------------------
(* The condition variable.                                                 *)

\* The submitters woken leave the list and go for the lock.
Wake(woken) == submit' = [s \in Submitters |-> IF s \in woken THEN "woken" ELSE submit[s]]
Signal ==
    IF waiting = <<>> THEN UNCHANGED <<waiting, submit>>
    ELSE waiting' = Tail(waiting) /\ Wake({Head(waiting)})
Broadcast == waiting' = <<>> /\ Wake(Range(waiting))

-----------------------------------------------------------------------------
(* Submit.                                                                 *)

Submit(s) ==
    /\ submit[s] = "new"
    /\ Goto(s, IF closed THEN "closed" ELSE "retrieve")
    /\ UNCHANGED <<config, capacity, queue, lock, goroutines, got, limit, cond, closing>>

\* detach: the newest worker of the stack, the oldest of the loop queue.
Detached == IF options.preAlloc THEN Head(workers) ELSE workers[Len(workers)]
Rest == IF options.preAlloc THEN Tail(workers) ELSE SubSeq(workers, 1, Len(workers) - 1)

\* Mutant: the worker stays in the queue while it works.
DetachShared(s) ==
    /\ workers # <<>>
    /\ got' = [got EXCEPT ![s] = Detached]
    /\ Goto(s, "send") /\ lock' = Free
    /\ UNCHANGED <<workers, size>>

Detach(s) ==
    /\ workers # <<>>
    /\ workers' = Rest
    /\ got' = [got EXCEPT ![s] = Detached]
    /\ Goto(s, "send") /\ lock' = Free
    /\ UNCHANGED size

\* The first locked section of retrieveWorker.
RetrieveWorker(s) ==
    /\ submit[s] = "retrieve" /\ lock = Free
    /\ limit' = [limit EXCEPT ![s] = capacity]
    /\ \/ Detach(s)
       \/ /\ workers = <<>> /\ UNCHANGED <<queue, got>>
          /\ LET room == capacity = -1 \/ capacity > Running IN
             /\ Goto(s, CASE room -> "spawn"
                          [] ~room /\ options.nonblocking -> "overload"
                          [] OTHER -> "blocking")
             /\ lock' = IF room \/ options.nonblocking THEN Free ELSE {s}
    /\ UNCHANGED <<config, capacity, goroutines, cond, closing>>

\* From label retry to the unlock of cond.Wait.
Block(s) ==
    /\ submit[s] = "blocking"
    /\ lock' = Free
    /\ IF options.maxBlocking # 0 /\ BlockingNum >= options.maxBlocking
       THEN Goto(s, "overload") /\ UNCHANGED waiting
       ELSE Goto(s, "waiting") /\ waiting' = Append(waiting, s)
    /\ UNCHANGED <<config, capacity, queue, goroutines, got, limit, signals, closing>>

\* After cond.Wait. The capacity is the one read before.
Woken(s) ==
    /\ submit[s] = "woken" /\ lock = Free
    /\ \/ Running = 0 /\ Goto(s, "open") /\ UNCHANGED <<queue, got, lock>>
       \/ Running # 0 /\ Detach(s)
       \/ /\ Running # 0 /\ workers = <<>> /\ UNCHANGED <<queue, got>>
          /\ \/ Running < limit[s] /\ Goto(s, "spawn") /\ UNCHANGED lock
             \/ Running >= limit[s] /\ Goto(s, "blocking") /\ lock' = {s}
    /\ UNCHANGED <<config, capacity, goroutines, limit, cond, closing>>

\* Awakened by the scavenger: only then IsClosed is asked.
SpawnIfOpen(s) ==
    /\ submit[s] = "open"
    /\ Goto(s, IF closed THEN "overload" ELSE "spawn")
    /\ UNCHANGED <<config, capacity, queue, lock, goroutines, got, limit, cond, closing>>

\* spawnWorker: an object of workerCache, incRunning and its goroutine.
SpawnWorker(s) ==
    /\ submit[s] = "spawn"
    /\ \E w \in Workers :
        /\ worker[w] = "off"
        /\ Become(w, "idle")
        /\ got' = [got EXCEPT ![s] = w]
    /\ Goto(s, "send")
    /\ UNCHANGED <<config, capacity, queue, lock, task, ran, limit, cond, closing>>

\* Mutant: a closed pool drops the task.
SendTaskIfOpen(s) ==
    /\ submit[s] = "send" /\ task[got[s]] = <<>>
    /\ task' = IF closed THEN task ELSE [task EXCEPT ![got[s]] = <<s>>]
    /\ got' = [got EXCEPT ![s] = NoWorker]
    /\ Goto(s, "ok")
    /\ UNCHANGED <<config, capacity, queue, lock, worker, ran, limit, cond, closing>>

\* w.task <- task, which blocks while the channel is full.
SendTask(s) ==
    /\ submit[s] = "send" /\ task[got[s]] = <<>>
    /\ task' = [task EXCEPT ![got[s]] = <<s>>]
    /\ got' = [got EXCEPT ![s] = NoWorker]
    /\ Goto(s, "ok")
    /\ UNCHANGED <<config, capacity, queue, lock, worker, ran, limit, cond, closing>>
-----------------------------------------------------------------------------
(* The goroutine of a worker.                                              *)

Receive(w) ==
    /\ worker[w] = "idle" /\ task[w] # <<>>
    /\ task' = [task EXCEPT ![w] = <<>>]
    /\ \/ task[w] = <<"nil">> /\ Become(w, "exit") /\ UNCHANGED ran
       \/ /\ task[w] # <<"nil">> /\ Become(w, "busy")
          /\ ran' = [ran EXCEPT ![Head(task[w])] = @ + 1]
    /\ UNCHANGED <<config, capacity, queue, lock, calls, cond, closing>>

\* The task returns, or panics.
TaskEnds(w) ==
    /\ worker[w] = "busy"
    /\ Become(w, "revert") \/ Become(w, "exit")
    /\ UNCHANGED <<config, capacity, queue, lock, task, ran, calls, cond, closing>>

\* revertWorker before it takes the lock.
RevertWorker(w) ==
    /\ worker[w] = "revert"
    /\ Become(w, IF (capacity > 0 /\ Running > capacity) \/ closed THEN "exit" ELSE "insert")
    /\ UNCHANGED <<config, capacity, queue, lock, task, ran, calls, cond, closing>>

\* Mutant: no second look at the state of the pool.
InsertUnchecked(w) ==
    /\ worker[w] = "insert" /\ lock = Free
    /\ IF options.preAlloc /\ Len(workers) >= size
       THEN Become(w, "exit") /\ UNCHANGED <<workers, submit, waiting>>
       ELSE Become(w, "idle") /\ workers' = Append(workers, w) /\ Signal
    /\ UNCHANGED <<config, capacity, size, lock, task, ran, got, limit, signals, closing>>

\* And with it. The loop queue refuses when it is full or was released.
InsertWorker(w) ==
    /\ worker[w] = "insert" /\ lock = Free
    /\ IF closed \/ (options.preAlloc /\ Len(workers) >= size)
       THEN Become(w, "exit") /\ UNCHANGED <<workers, submit, waiting>>
       ELSE Become(w, "idle") /\ workers' = Append(workers, w) /\ Signal
    /\ UNCHANGED <<config, capacity, size, lock, task, ran, got, limit, signals, closing>>

\* The deferred function: decRunning and the return to workerCache ...
WorkerEnds(w) ==
    /\ worker[w] = "exit"
    /\ Become(w, "off") /\ signals' = signals + 1
    /\ UNCHANGED <<config, capacity, queue, lock, task, ran, calls, waiting, closing>>

\* ... and the Signal, without the lock.
EndSignal ==
    /\ signals > 0 /\ signals' = signals - 1 /\ Signal
    /\ UNCHANGED <<config, capacity, queue, lock, goroutines, got, limit, closing>>

-----------------------------------------------------------------------------
(* purgePeriodically, Tune and Release.                                    *)

\* Mutant: the scavenger is done when nothing has expired.
PurgeExpired ==
    /\ purger = "wait"
    /\ \/ closed /\ purger' = "ended" /\ UNCHANGED <<workers, task>>
       \/ /\ ~closed /\ lock = Free
          /\ \E n \in 1 .. Len(workers) :
              /\ workers' = SubSeq(workers, n + 1, Len(workers))
              /\ SendNil(Range(SubSeq(workers, 1, n)))
          /\ purger' = "check"
    /\ UNCHANGED <<config, capacity, size, lock, worker, ran, calls, cond, closed, release>>

\* A tick that expires workers, or may find somebody to wake: the other ones do
\* nothing. The expired workers get their nil after the unlock; nobody else has
\* them then.
Purge ==
    /\ purger = "wait"
    /\ \/ closed /\ purger' = "ended" /\ UNCHANGED <<workers, task>>
       \/ /\ ~closed /\ lock = Free
          /\ \E n \in 0 .. Len(workers) :
              /\ n > 0 \/ (Running = 0 /\ waiting # <<>>)
              /\ workers' = SubSeq(workers, n + 1, Len(workers))
              /\ SendNil(Range(SubSeq(workers, 1, n)))
          /\ purger' = "check"
    /\ UNCHANGED <<config, capacity, size, lock, worker, ran, calls, cond, closed, release>>

PurgeCheck ==
    /\ purger = "check"
    /\ purger' = IF Running = 0 THEN "broadcast" ELSE "wait"
    /\ UNCHANGED <<config, capacity, queue, lock, goroutines, calls, cond, closed, release>>

PurgeBroadcast ==
    /\ purger = "broadcast" /\ purger' = "wait" /\ Broadcast
    /\ UNCHANGED <<config, capacity, queue, lock, goroutines, got, limit, signals, closed, release>>

\* Mutant: any size will do.
TuneAny(c) ==
    /\ tunes < MaxTunes /\ tunes' = tunes + 1
    /\ capacity # -1 /\ c # capacity /\ ~options.preAlloc
    /\ capacity' = c
    /\ UNCHANGED <<options, queue, lock, goroutines, calls, cond, closing>>

Tune(c) ==
    /\ tunes < MaxTunes /\ tunes' = tunes + 1
    /\ capacity # -1 /\ c > 0 /\ c # capacity /\ ~options.preAlloc
    /\ capacity' = c
    /\ UNCHANGED <<options, queue, lock, goroutines, calls, cond, closing>>

Release ==
    /\ release = "notCalled" /\ release' = "reset" /\ closed' = TRUE
    /\ UNCHANGED <<config, capacity, queue, lock, goroutines, calls, cond, purger>>

\* workers.reset under the lock.
ReleaseReset ==
    /\ release = "reset" /\ release' = "broadcast" /\ lock = Free
    /\ SendNil(Range(workers)) /\ workers' = <<>>
    /\ size' = IF workers = <<>> THEN size ELSE 0
    /\ UNCHANGED <<config, capacity, lock, worker, ran, calls, cond, closed, purger>>

ReleaseBroadcast ==
    /\ release = "broadcast" /\ release' = "done" /\ Broadcast
    /\ UNCHANGED <<config, capacity, queue, lock, goroutines, got, limit, signals, closed, purger>>

-----------------------------------------------------------------------------
Submitting(s) ==
    \/ Submit(s) \/ RetrieveWorker(s) \/ Block(s) \/ Woken(s)
    \/ SpawnIfOpen(s) \/ SpawnWorker(s) \/ SendTask(s)
Working(w) ==
    \/ Receive(w) \/ TaskEnds(w) \/ RevertWorker(w) \/ InsertWorker(w) \/ WorkerEnds(w)
Progress ==
    \/ \E s \in Submitters : Submitting(s)
    \/ \E w \in Workers : Working(w)
    \/ EndSignal \/ Purge \/ PurgeCheck \/ PurgeBroadcast
    \/ ReleaseReset \/ ReleaseBroadcast

Next == Progress \/ Release \/ \E c \in Tunes : Tune(c)

Spec == Init /\ [][Next]_vars

-----------------------------------------------------------------------------
(* Properties. Every step of Progress is one its goroutine takes once it   *)
(* can, tasks end and the ticker goes on; there are finitely many steps    *)
(* until none is left, which is where "in the end" looks.                  *)

InTheEnd == ~ENABLED Progress

\* The worker is in the queue, or a call of Submit has it.
Owned(w) == w \in Range(workers) \/ \E s \in Submitters : got[s] = w

\* A worker has one owner: it is in the queue once, or one call has it, or its
\* own goroutine is on its way back; who has it finds its channel empty and its
\* goroutine in the loop, so that w.task <- task neither blocks nor goes to a
\* goroutine that is about to end.
OneOwner ==
    /\ IsInjective(workers)
    /\ \A s \in Submitters :
        /\ got[s] \notin Range(workers)
        /\ \A t \in Submitters : got[t] = got[s] /\ got[s] # NoWorker => t = s
    /\ \A w \in Workers : Owned(w) => worker[w] = "idle" /\ task[w] = <<>>

\* A task runs only if its Submit returned nil, and once; a task whose Submit did
\* has run or is in the channel of a goroutine that will receive it next, also
\* when Release or the scavenger comes between the retrieval of the worker and
\* the send.
AcceptedRuns ==
    \A s \in Submitters :
        /\ ran[s] =< 1 /\ (ran[s] = 1 => submit[s] = "ok")
        /\ submit[s] = "ok" /\ ran[s] = 0 =>
            \E w \in Workers : worker[w] = "idle" /\ task[w] = <<s>>

\* As long as the pool is open no call waits for ever: a Signal that comes between
\* the look at Running and cond.Wait is made good by another worker or by the
\* scavenger's Broadcast.
WaitersServed ==
    InTheEnd /\ ~closed => \A s \in Submitters : submit[s] \in {"ok", "overload"}

\* No goroutine of a worker is forgotten: one that waits for its channel, with
\* nothing in it, is in the queue or a call has it. After workers.reset the queue
\* stays empty, also when a worker was between its task and the queue (issue 113
\* of the comment in revertWorker), so that after Release all of them end.
WorkersEnd ==
    /\ \A w \in Workers : worker[w] = "idle" /\ task[w] = <<>> => Owned(w)
    /\ release \in {"broadcast", "done"} => workers = <<>>
=============================================================================
