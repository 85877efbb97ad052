--------------------------- MODULE AntsPoolProofs ----------------------------
(***************************************************************************)
(* The goroutine pool of ants, for any number of calls of Submit, any      *)
(* capacity, any options and any calls of Tune: a worker has one owner, an *)
(* accepted task is run once, and no worker is forgotten.                  *)
(*                                                                         *)
(* OneOwner is inductive only together with what a call holds (HoldInv),   *)
(* who is in the list of the condition variable (WaitInv) and what is in   *)
(* the channels of the workers (TaskInv).                                  *)
(***************************************************************************)
EXTENDS AntsPool, TLAPS

\* A call has a worker between the retrieval and the send, and only then.
HoldInv == \A s \in Submitters : submit[s] = "send" <=> got[s] # NoWorker

\* The calls in the list of the condition variable are in cond.Wait, each once.
WaitInv ==
    /\ IsInjective(waiting)
    /\ \A s \in Range(waiting) : submit[s] = "waiting"

\* Only the channel of a goroutine in its loop has something in it, and a task
\* is there once, after its Submit returned and before it runs.
TaskInv ==
    /\ \A w \in Workers : worker[w] # "idle" => task[w] = <<>>
    /\ \A w \in Workers, s \in Submitters :
        task[w] = <<s>> =>
            /\ submit[s] = "ok" /\ ran[s] = 0
            /\ \A v \in Workers : task[v] = <<s>> => v = w

CloseInv == closed <=> release # "notCalled"

AntsInv ==
    TypeOK /\ HoldInv /\ WaitInv /\ TaskInv /\ CloseInv /\ OneOwner /\ AcceptedRuns /\ WorkersEnd

-----------------------------------------------------------------------------
(* Sequences without repetition.                                           *)

\* The elements of a sequence.
LEMMA ElementsOf ==
  ASSUME NEW S, NEW q \in Seq(S)
  PROVE  /\ Range(q) \subseteq S
         /\ \A e : e \in Range(q) <=> \E i \in 1 .. Len(q) : q[i] = e
         /\ IsInjective(q) <=> \A i, j \in 1 .. Len(q) : q[i] = q[j] => i = j
  BY DEF Range, IsInjective

\* The empty sequence has none.
LEMMA EmptyElements ==
  ASSUME NEW S
  PROVE  <<>> \in Seq(S) /\ Range(<<>>) = {} /\ IsInjective(<<>>) /\ Len(<<>>) = 0
  BY DEF Range, IsInjective

\* What insert of either queue does: the new element comes to the old ones.
LEMMA AppendElements ==
  ASSUME NEW S, NEW q \in Seq(S), NEW e \in S, e \notin Range(q), IsInjective(q)
  PROVE  /\ Append(q, e) \in Seq(S) /\ Len(Append(q, e)) = Len(q) + 1
         /\ Range(Append(q, e)) = Range(q) \cup {e} /\ IsInjective(Append(q, e))
<1> DEFINE a == Append(q, e)
<1>1. /\ a \in Seq(S) /\ Len(a) = Len(q) + 1 /\ a[Len(q) + 1] = e
      /\ \A i \in 1 .. Len(q) : a[i] = q[i]
  OBVIOUS
<1>2. \A i \in 1 .. Len(a) : i \in 1 .. Len(q) \/ i = Len(q) + 1
  BY <1>1
<1>3. \A i \in 1 .. Len(q) : i \in 1 .. Len(a) /\ q[i] # e
  BY <1>1, ElementsOf
<1>4. Len(q) + 1 \in 1 .. Len(a)
  BY <1>1
<1> HIDE DEF a
<1>5. \A x : x \in Range(a) <=> x \in Range(q) \/ x = e
  BY <1>1, <1>2, <1>3, <1>4, ElementsOf
<1>6. \A i, j \in 1 .. Len(a) : a[i] = a[j] => i = j
  BY <1>1, <1>2, <1>3, ElementsOf
<1>7. IsInjective(a)
  BY <1>1, <1>6, ElementsOf
<1> QED
  BY <1>1, <1>5, <1>7 DEF a

\* What detach and retrieveExpiry do: a part of the sequence is taken out, the rest
\* keeps its elements, once each.
LEMMA CutElements ==
  ASSUME NEW S, NEW q \in Seq(S), IsInjective(q), NEW m \in 1 .. Len(q) + 1, NEW n \in 0 .. Len(q),
         m =< n + 1
  PROVE  /\ SubSeq(q, m, n) \in Seq(S) /\ IsInjective(SubSeq(q, m, n))
         /\ Len(SubSeq(q, m, n)) = n - m + 1
         /\ \A e : e \in Range(SubSeq(q, m, n)) <=> \E i \in m .. n : q[i] = e
<1> DEFINE c == SubSeq(q, m, n)
<1>1. \A i \in m .. n : q[i] \in S
  OBVIOUS
<1>2. c \in Seq(S) /\ Len(c) = n - m + 1 /\ \A i \in 1 .. n - m + 1 : c[i] = q[m + i - 1]
  BY <1>1
<1> HIDE DEF c
<1>3. \A i, j \in 1 .. Len(c) : c[i] = c[j] => i = j
  <2> SUFFICES ASSUME NEW i \in 1 .. Len(c), NEW j \in 1 .. Len(c), c[i] = c[j] PROVE i = j
    OBVIOUS
  <2>1. m + i - 1 \in 1 .. Len(q) /\ m + j - 1 \in 1 .. Len(q)
    BY <1>2
  <2>2. q[m + i - 1] = q[m + j - 1]
    BY <1>2
  <2>3. m + i - 1 = m + j - 1
    <3>1. \A k, l \in 1 .. Len(q) : q[k] = q[l] => k = l
      BY ElementsOf, ZenonT(60)
    <3> QED
      BY <2>1, <2>2, <3>1, ZenonT(60)
  <2> QED
    BY <2>3
<1>4. ASSUME NEW i \in m .. n PROVE c[i - m + 1] = q[i] /\ i - m + 1 \in 1 .. Len(c)
  BY <1>2
<1>5. ASSUME NEW i \in 1 .. Len(c) PROVE m + i - 1 \in m .. n /\ c[i] = q[m + i - 1]
  BY <1>2
<1>6. \A e : e \in Range(c) <=> \E i \in m .. n : q[i] = e
  <2>1. ASSUME NEW e, e \in Range(c) PROVE \E i \in m .. n : q[i] = e
    <3>1. PICK i \in 1 .. Len(c) : c[i] = e
      BY <1>2, <2>1, ElementsOf
    <3> QED
      BY <1>5, <3>1, ZenonT(60)
  <2>2. ASSUME NEW e, NEW i \in m .. n, q[i] = e PROVE e \in Range(c)
    <3>1. c[i - m + 1] = e /\ i - m + 1 \in 1 .. Len(c)
      BY <1>4, <2>2, ZenonT(60)
    <3> QED
      BY <1>2, <3>1, ElementsOf
  <2> QED
    BY <2>1, <2>2
<1>7. IsInjective(c)
  BY <1>2, <1>3, ElementsOf
<1> QED
  BY <1>2, <1>6, <1>7 DEF c
\* detach of either queue takes one worker out of it.
LEMMA DetachElements ==
  ASSUME workers \in Seq(Workers), workers # <<>>, IsInjective(workers)
  PROVE  /\ Detached \in Range(workers)
         /\ Rest \in Seq(Workers) /\ IsInjective(Rest) /\ Len(Rest) =< Len(workers)
         /\ Range(Rest) = Range(workers) \ {Detached}
<1>1. Len(workers) \in Nat \ {0}
  OBVIOUS
<1>2. Tail(workers) = SubSeq(workers, 2, Len(workers)) /\ Head(workers) = workers[1]
  BY <1>1
<1>3. ASSUME NEW k \in 1 .. Len(workers), NEW m \in 1 .. 2, NEW n \in {Len(workers) - 1, Len(workers)},
             m .. n = 1 .. Len(workers) \ {k}, m =< n + 1
      PROVE  /\ workers[k] \in Range(workers)
             /\ SubSeq(workers, m, n) \in Seq(Workers) /\ IsInjective(SubSeq(workers, m, n))
             /\ Len(SubSeq(workers, m, n)) =< Len(workers)
             /\ Range(SubSeq(workers, m, n)) = Range(workers) \ {workers[k]}
  <2> DEFINE c == SubSeq(workers, m, n)
  <2>1. m \in 1 .. Len(workers) + 1 /\ n \in 0 .. Len(workers)
    BY <1>1
  <2>2. /\ c \in Seq(Workers) /\ IsInjective(c) /\ Len(c) = n - m + 1
        /\ \A e : e \in Range(c) <=> \E i \in m .. n : workers[i] = e
    BY <1>3, <2>1, CutElements
  <2> HIDE DEF c
  <2>3. /\ \A e : e \in Range(workers) <=> \E i \in 1 .. Len(workers) : workers[i] = e
        /\ \A i, j \in 1 .. Len(workers) : workers[i] = workers[j] => i = j
    BY ElementsOf
  <2>4. \A e : e \in Range(c) <=> e \in Range(workers) /\ e # workers[k]
    BY <1>3, <2>2, <2>3, ZenonT(60)
  <2>5. workers[k] \in Range(workers) /\ n - m + 1 =< Len(workers)
    BY <1>1, <2>3
  <2> QED
    BY <2>2, <2>4, <2>5 DEF c
<1>4. CASE options.preAlloc
  <2>1. 2 .. Len(workers) = 1 .. Len(workers) \ {1} /\ 1 \in 1 .. Len(workers) /\ 2 =< Len(workers) + 1
    BY <1>1
  <2>2. /\ workers[1] \in Range(workers)
        /\ SubSeq(workers, 2, Len(workers)) \in Seq(Workers)
        /\ IsInjective(SubSeq(workers, 2, Len(workers)))
        /\ Len(SubSeq(workers, 2, Len(workers))) =< Len(workers)
        /\ Range(SubSeq(workers, 2, Len(workers))) = Range(workers) \ {workers[1]}
    BY <1>3, <2>1
  <2>3. Detached = workers[1] /\ Rest = SubSeq(workers, 2, Len(workers))
    BY <1>2, <1>4, ZenonT(60) DEF Detached, Rest
  <2> QED
    BY <2>2, <2>3, ZenonT(60)
<1>5. CASE ~options.preAlloc
  <2>1. /\ 1 .. Len(workers) - 1 = 1 .. Len(workers) \ {Len(workers)}
        /\ Len(workers) \in 1 .. Len(workers) /\ 1 =< Len(workers) - 1 + 1
    BY <1>1
  <2> QED
    BY <1>3, <1>5, <2>1 DEF Detached, Rest
<1> QED
  BY <1>4, <1>5

\* retrieveExpiry takes the oldest workers out of the queue.
LEMMA PurgeElements ==
  ASSUME workers \in Seq(Workers), IsInjective(workers), NEW n \in 0 .. Len(workers)
  PROVE  LET rest == SubSeq(workers, n + 1, Len(workers))
             expired == Range(SubSeq(workers, 1, n)) IN
         /\ rest \in Seq(Workers) /\ IsInjective(rest) /\ Len(rest) =< Len(workers)
         /\ expired \subseteq Range(workers)
         /\ Range(rest) = Range(workers) \ expired
<1> DEFINE rest == SubSeq(workers, n + 1, Len(workers))
           first == SubSeq(workers, 1, n)
<1>1. /\ rest \in Seq(Workers) /\ IsInjective(rest) /\ Len(rest) = Len(workers) - (n + 1) + 1
      /\ \A e : e \in Range(rest) <=> \E i \in n + 1 .. Len(workers) : workers[i] = e
  BY CutElements
<1>2. \A e : e \in Range(first) <=> \E i \in 1 .. n : workers[i] = e
  BY CutElements
<1> HIDE DEF rest, first
<1>3. /\ \A e : e \in Range(workers) <=> \E i \in 1 .. Len(workers) : workers[i] = e
      /\ \A i, j \in 1 .. Len(workers) : workers[i] = workers[j] => i = j
  BY ElementsOf
<1>4. \A i \in 1 .. Len(workers) : i \in 1 .. n <=> ~(i \in n + 1 .. Len(workers))
  OBVIOUS
<1>5. 1 .. n \subseteq 1 .. Len(workers) /\ n + 1 .. Len(workers) \subseteq 1 .. Len(workers)
  OBVIOUS
<1>6. Range(first) \subseteq Range(workers)
  BY <1>2, <1>3, <1>5
<1>7. \A e : e \in Range(rest) <=> e \in Range(workers) /\ e \notin Range(first)
  BY <1>1, <1>2, <1>3, <1>4, <1>5
<1>8. Len(rest) =< Len(workers)
  BY <1>1
<1> QED
  BY <1>1, <1>6, <1>7, <1>8 DEF rest, first

\* The call that waits longest leaves the list of the condition variable.
LEMMA TailElements ==
  ASSUME NEW S, NEW q \in Seq(S), q # <<>>, IsInjective(q)
  PROVE  /\ Head(q) \in Range(q)
         /\ Tail(q) \in Seq(S) /\ IsInjective(Tail(q)) /\ Range(Tail(q)) = Range(q) \ {Head(q)}
<1>1. Len(q) \in Nat \ {0}
  OBVIOUS
<1>2. Tail(q) = SubSeq(q, 2, Len(q)) /\ Head(q) = q[1]
  BY <1>1
<1>3. 2 \in 1 .. Len(q) + 1 /\ Len(q) \in 0 .. Len(q) /\ 2 =< Len(q) + 1
  BY <1>1
<1>4. /\ Tail(q) \in Seq(S) /\ IsInjective(Tail(q))
      /\ \A e : e \in Range(Tail(q)) <=> \E i \in 2 .. Len(q) : q[i] = e
  <2>1. /\ SubSeq(q, 2, Len(q)) \in Seq(S) /\ IsInjective(SubSeq(q, 2, Len(q)))
        /\ \A e : e \in Range(SubSeq(q, 2, Len(q))) <=> \E i \in 2 .. Len(q) : q[i] = e
    BY <1>3, CutElements
  <2> QED
    BY <1>2, <2>1, ZenonT(60)
<1>5. /\ \A e : e \in Range(q) <=> \E i \in 1 .. Len(q) : q[i] = e
      /\ \A i, j \in 1 .. Len(q) : q[i] = q[j] => i = j
  BY ElementsOf
<1>6. 1 \in 1 .. Len(q) /\ \A i \in 1 .. Len(q) : i \in 2 .. Len(q) <=> i # 1
  BY <1>1
<1>7. 2 .. Len(q) \subseteq 1 .. Len(q)
  BY <1>1
<1>8. \A e : e \in Range(Tail(q)) <=> e \in Range(q) /\ e # q[1]
  BY <1>4, <1>5, <1>6, <1>7
<1> QED
  BY <1>2, <1>4, <1>5, <1>6, <1>8
-----------------------------------------------------------------------------
(* Types.                                                                  *)

\* A channel of a worker is empty, or holds nil or one task.
LEMMA ChannelCases ==
  ASSUME TypeOK, NEW w \in Workers
  PROVE  \/ task[w] = <<>>
         \/ \E e \in Submitters \cup {"nil"} : task[w] = <<e>> /\ Head(task[w]) = e
<1>1. task[w] \in Seq(Submitters \cup {"nil"}) /\ Len(task[w]) =< 1
  BY DEF TypeOK
<1>2. CASE Len(task[w]) = 0
  BY <1>1, <1>2
<1>3. CASE Len(task[w]) = 1
  <2>1. task[w][1] \in Submitters \cup {"nil"} /\ task[w] = <<task[w][1]>>
    BY <1>1, <1>3
  <2> QED
    BY <2>1
<1> QED
  BY <1>1, <1>2, <1>3

\* The nil that stops a worker of the queue finds its channel empty.
LEMMA NilSent ==
  ASSUME TypeOK, OneOwner, NEW ws \in SUBSET Range(workers), SendNil(ws)
  PROVE  /\ task' \in [Workers -> Seq(Submitters \cup {"nil"})]
         /\ \A w \in Workers : task'[w] = IF w \in ws THEN <<"nil">> ELSE task[w]
         /\ \A w \in Workers : Len(task'[w]) =< 1
<1>0. Range(workers) \subseteq Workers
  BY ElementsOf DEF TypeOK
<1>1. \A w \in ws : w \in Workers /\ task[w] = <<>>
  BY <1>0 DEF OneOwner, Owned
<1>2. \A w \in Workers : task'[w] = IF w \in ws THEN <<"nil">> ELSE task[w]
  <2>1. Append(<<>>, "nil") = <<"nil">>
    OBVIOUS
  <2>2. \A w \in Workers : task'[w] = IF w \in ws THEN Append(task[w], "nil") ELSE task[w]
    BY DEF SendNil
  <2> QED
    BY <1>1, <2>1, <2>2, ZenonT(60)
<1>3. \A w \in Workers : task'[w] \in Seq(Submitters \cup {"nil"}) /\ Len(task'[w]) =< 1
  <2>1. <<"nil">> \in Seq(Submitters \cup {"nil"}) /\ Len(<<"nil">>) =< 1
    OBVIOUS
  <2>2. \A w \in Workers : task[w] \in Seq(Submitters \cup {"nil"}) /\ Len(task[w]) =< 1
    BY DEF TypeOK
  <2> QED
    BY <1>2, <2>1, <2>2, ZenonT(60)
<1>4. task' = [w \in Workers |-> task'[w]]
  BY DEF SendNil
<1> QED
  BY <1>2, <1>3, <1>4

\* The step of a call that takes a worker out of the queue.
LEMMA DetachTypes ==
  ASSUME TypeOK, OneOwner, NEW s \in Submitters, Detach(s)
  PROVE  /\ Detached \in Range(workers) /\ Detached \in Workers
         /\ workers' \in Seq(Workers) /\ IsInjective(workers') /\ Len(workers') =< Len(workers)
         /\ Range(workers') = Range(workers) \ {Detached}
         /\ got' = [got EXCEPT ![s] = Detached] /\ got' \in [Submitters -> Workers \cup {NoWorker}]
         /\ submit' = [submit EXCEPT ![s] = "send"] /\ lock' = {} /\ size' = size
<1>1. /\ Detached \in Range(workers)
      /\ workers' \in Seq(Workers) /\ IsInjective(workers') /\ Len(workers') =< Len(workers)
      /\ Range(workers') = Range(workers) \ {Detached}
  BY DetachElements, ZenonT(60) DEF TypeOK, OneOwner, Detach
<1>2. Detached \in Workers
  BY <1>1, ElementsOf DEF TypeOK
<1>3. /\ got' = [got EXCEPT ![s] = Detached] /\ submit' = [submit EXCEPT ![s] = "send"]
      /\ lock' = {} /\ size' = size
  BY DEF Detach, Goto, Free
<1>4. got' \in [Submitters -> Workers \cup {NoWorker}]
  BY <1>2, <1>3, ZenonT(60) DEF TypeOK
<1> QED
  BY <1>1, <1>2, <1>3, <1>4, ZenonT(60)

\* Signal and Broadcast keep the types, wake calls that wait and no other ones.
LEMMA Woke ==
  ASSUME TypeOK, WaitInv, Signal \/ Broadcast
  PROVE  /\ waiting' \in Seq(Submitters) /\ submit' \in [Submitters -> SubmitSteps]
         /\ IsInjective(waiting') /\ \A s \in Range(waiting') : submit'[s] = "waiting"
         /\ \A s \in Submitters : submit'[s] = submit[s] \/ (submit[s] = "waiting" /\ submit'[s] = "woken")
<1>1. CASE waiting = <<>> /\ UNCHANGED <<waiting, submit>>
  BY <1>1 DEF TypeOK, WaitInv
<1>2. CASE waiting # <<>> /\ waiting' = Tail(waiting) /\ Wake({Head(waiting)})
  <2>1. /\ Head(waiting) \in Range(waiting)
        /\ waiting' \in Seq(Submitters) /\ IsInjective(waiting')
        /\ Range(waiting') = Range(waiting) \ {Head(waiting)}
    BY <1>2, TailElements DEF TypeOK, WaitInv
  <2>2. Range(waiting) \subseteq Submitters
    BY ElementsOf DEF TypeOK
  <2>3. submit' = [s \in Submitters |-> IF s = Head(waiting) THEN "woken" ELSE submit[s]]
    BY <1>2, ZenonT(60) DEF Wake
  <2> QED
    BY <2>1, <2>2, <2>3, ZenonT(60) DEF TypeOK, WaitInv, SubmitSteps
<1>3. CASE waiting' = <<>> /\ Wake(Range(waiting))
  <2>1. waiting' \in Seq(Submitters) /\ IsInjective(waiting') /\ Range(waiting') = {}
    BY <1>3, EmptyElements
  <2>2. Range(waiting) \subseteq Submitters
    BY ElementsOf DEF TypeOK
  <2>3. submit' = [s \in Submitters |-> IF s \in Range(waiting) THEN "woken" ELSE submit[s]]
    BY <1>3 DEF Wake
  <2> QED
    BY <2>1, <2>2, <2>3 DEF TypeOK, WaitInv, SubmitSteps
<1> QED
  BY <1>1, <1>2, <1>3, ZenonT(60) DEF Signal, Broadcast
\* The lock is held by no call or by one.
LEMMA LockTypes ==
  ASSUME NEW l, NEW s \in Submitters, l \in {{}, {s}}
  PROVE  l \in {Free} \cup {{t} : t \in Submitters}
  BY ZenonT(60) DEF Free

\* Every step keeps the types; the loop queue never holds more than its size.
LEMMA TypeStep ==
  ASSUME AntsInv, [Next]_vars
  PROVE  TypeOK'
<1>0. TypeOK /\ HoldInv /\ WaitInv /\ OneOwner
  BY DEF AntsInv
<1>n. /\ signals \in Nat /\ size \in Nat /\ ran \in [Submitters -> Nat]
      /\ tunes \in 0 .. MaxTunes /\ capacity \in Capacities
  BY <1>0, ZenonT(60) DEF TypeOK
<1>q. /\ workers \in Seq(Workers) /\ waiting \in Seq(Submitters)
      /\ options.preAlloc => Len(workers) =< size
  BY <1>0, ZenonT(60) DEF TypeOK
<1>t. /\ task \in [Workers -> Seq(Submitters \cup {"nil"})] /\ \A w \in Workers : Len(task[w]) =< 1
  BY <1>0, ZenonT(60) DEF TypeOK
<1> DEFINE Others == UNCHANGED <<config, capacity, queue, lock, goroutines, got, limit, cond, closing>>
<1>1. ASSUME NEW s \in Submitters, Submit(s) \/ SpawnIfOpen(s) PROVE TypeOK'
  <2>1. submit' \in [Submitters -> SubmitSteps]
    BY <1>0, <1>1, ZenonT(60) DEF Submit, SpawnIfOpen, TypeOK, Goto, SubmitSteps
  <2>2. Others
    BY <1>1 DEF Submit, SpawnIfOpen
  <2> QED
    BY <1>0, <2>1, <2>2 DEF TypeOK, config, queue, goroutines, cond, closing
<1>2. ASSUME NEW s \in Submitters, RetrieveWorker(s) PROVE TypeOK'
  <2>1. limit' \in [Submitters -> Capacities]
    BY <1>0, <1>2 DEF TypeOK, RetrieveWorker
  <2>2. UNCHANGED <<config, capacity, goroutines, cond, closing>>
    BY <1>2, ZenonT(60) DEF RetrieveWorker
  <2>3. CASE Detach(s)
    <3>1. submit' \in [Submitters -> SubmitSteps]
      BY <1>0, <2>3, DetachTypes, ZenonT(60) DEF TypeOK, SubmitSteps
    <3>2. lock' \in {Free} \cup {{t} : t \in Submitters}
      BY <1>0, <2>3, DetachTypes, LockTypes, ZenonT(60)
    <3>3. workers' \in Seq(Workers) /\ (options.preAlloc => Len(workers') =< size') /\ size' \in Nat
      <4>1. workers' \in Seq(Workers) /\ Len(workers') =< Len(workers) /\ size' = size
        BY <1>0, <2>3, DetachTypes, ZenonT(60)
      <4> QED
        BY <1>n, <1>q, <4>1
    <3>4. got' \in [Submitters -> Workers \cup {NoWorker}]
      BY <1>0, <2>3, DetachTypes, ZenonT(60)
    <3> QED
      BY <1>0, <2>1, <2>2, <3>1, <3>2, <3>3, <3>4, ZenonT(60) DEF TypeOK, config, goroutines, cond, closing
  <2>4. CASE ~Detach(s)
    <3>1. /\ UNCHANGED <<queue, got>> /\ lock' \in {{}, {s}}
          /\ \E where \in SubmitSteps : submit' = [submit EXCEPT ![s] = where]
      BY <1>2, <2>4, ZenonT(60) DEF RetrieveWorker, Goto, Free, SubmitSteps
    <3>2. submit' \in [Submitters -> SubmitSteps]
      BY <1>0, <3>1 DEF TypeOK
    <3>3. lock' \in {Free} \cup {{t} : t \in Submitters}
      BY <3>1, LockTypes, ZenonT(60)
    <3> QED
      BY <1>0, <2>1, <2>2, <3>1, <3>2, <3>3, ZenonT(60) DEF TypeOK, config, goroutines, cond, closing, queue
  <2> QED
    BY <2>3, <2>4
<1>3. ASSUME NEW s \in Submitters, Block(s) PROVE TypeOK'
  <2>1. submit' \in [Submitters -> SubmitSteps]
    BY <1>0, <1>3, ZenonT(60) DEF Block, TypeOK, Goto, SubmitSteps
  <2>2. waiting' \in Seq(Submitters)
    <3>1. waiting' = waiting \/ waiting' = Append(waiting, s)
      BY <1>3, ZenonT(60) DEF Block
    <3> QED
      BY <1>q, <3>1
  <2>3. lock' \in {Free} \cup {{t} : t \in Submitters}
    BY <1>3, LockTypes, ZenonT(60) DEF Block, Free
  <2>4. UNCHANGED <<config, capacity, queue, goroutines, got, limit, signals, closing>>
    BY <1>3, ZenonT(60) DEF Block
  <2> QED
    BY <1>0, <2>1, <2>2, <2>3, <2>4, ZenonT(60) DEF TypeOK, config, queue, goroutines, closing
<1>4. ASSUME NEW s \in Submitters, Woken(s) PROVE TypeOK'
  <2>1. UNCHANGED <<config, capacity, goroutines, limit, cond, closing>>
    BY <1>4, ZenonT(60) DEF Woken
  <2>2. CASE Detach(s)
    <3>1. submit' \in [Submitters -> SubmitSteps]
      BY <1>0, <2>2, DetachTypes, ZenonT(60) DEF TypeOK, SubmitSteps
    <3>2. lock' \in {Free} \cup {{t} : t \in Submitters}
      BY <1>0, <2>2, DetachTypes, LockTypes, ZenonT(60)
    <3>3. workers' \in Seq(Workers) /\ (options.preAlloc => Len(workers') =< size') /\ size' \in Nat
      <4>1. workers' \in Seq(Workers) /\ Len(workers') =< Len(workers) /\ size' = size
        BY <1>0, <2>2, DetachTypes, ZenonT(60)
      <4> QED
        BY <1>n, <1>q, <4>1
    <3>4. got' \in [Submitters -> Workers \cup {NoWorker}]
      BY <1>0, <2>2, DetachTypes
    <3> QED
      BY <1>0, <2>1, <3>1, <3>2, <3>3, <3>4, ZenonT(60) DEF TypeOK, config, goroutines, cond, closing
  <2>3. CASE ~Detach(s)
    <3>1. /\ UNCHANGED <<queue, got>> /\ lock' \in {{}, {s}}
          /\ \E where \in SubmitSteps : submit' = [submit EXCEPT ![s] = where]
      BY <1>4, <2>3, ZenonT(60) DEF Woken, Goto, Free, SubmitSteps
    <3>2. submit' \in [Submitters -> SubmitSteps]
      BY <1>0, <3>1 DEF TypeOK
    <3>3. lock' \in {Free} \cup {{t} : t \in Submitters}
      BY <3>1, LockTypes, ZenonT(60)
    <3> QED
      BY <1>0, <2>1, <3>1, <3>2, <3>3, ZenonT(60) DEF TypeOK, config, goroutines, cond, closing, queue
  <2> QED
    BY <2>2, <2>3
<1>5. ASSUME NEW s \in Submitters, SpawnWorker(s) PROVE TypeOK'
  <2>1. submit' \in [Submitters -> SubmitSteps]
    BY <1>0, <1>5 DEF SpawnWorker, TypeOK, Goto, SubmitSteps
  <2>2. PICK w \in Workers : Become(w, "idle") /\ got' = [got EXCEPT ![s] = w]
    BY <1>5, ZenonT(60) DEF SpawnWorker
  <2>3. /\ worker' \in [Workers -> {"off", "idle", "busy", "revert", "insert", "exit"}]
        /\ got' \in [Submitters -> Workers \cup {NoWorker}]
    BY <1>0, <2>2, ZenonT(60) DEF TypeOK, Become
  <2>4. UNCHANGED <<config, capacity, queue, lock, task, ran, limit, cond, closing>>
    BY <1>5, ZenonT(60) DEF SpawnWorker
  <2> QED
    BY <1>0, <2>1, <2>3, <2>4, ZenonT(60) DEF TypeOK, config, queue, cond, closing
<1>6. ASSUME NEW s \in Submitters, SendTask(s) PROVE TypeOK'
  <2>1. submit' \in [Submitters -> SubmitSteps]
    BY <1>0, <1>6 DEF SendTask, TypeOK, Goto, SubmitSteps
  <2>2. got[s] \in Workers /\ got' \in [Submitters -> Workers \cup {NoWorker}]
    BY <1>0, <1>6 DEF SendTask, TypeOK, HoldInv
  <2>3. /\ task' \in [Workers -> Seq(Submitters \cup {"nil"})]
        /\ \A w \in Workers : Len(task'[w]) =< 1
    <3>1. <<s>> \in Seq(Submitters \cup {"nil"}) /\ Len(<<s>>) =< 1
      OBVIOUS
    <3>2. task' = [task EXCEPT ![got[s]] = <<s>>]
      BY <1>6 DEF SendTask
    <3>3. /\ task \in [Workers -> Seq(Submitters \cup {"nil"})]
          /\ \A w \in Workers : Len(task[w]) =< 1
      BY <1>0 DEF TypeOK
    <3>4. \A w \in Workers : task'[w] = IF w = got[s] THEN <<s>> ELSE task[w]
      BY <2>2, <3>2, <3>3, ZenonT(60)
    <3>5. \A w \in Workers : Len(task'[w]) =< 1
      BY <3>1, <3>3, <3>4, ZenonT(60)
    <3> QED
      BY <2>2, <3>1, <3>2, <3>3, <3>5, ZenonT(60)
  <2>4. UNCHANGED <<config, capacity, queue, lock, worker, ran, limit, cond, closing>>
    BY <1>6, ZenonT(60) DEF SendTask
  <2> QED
    BY <1>0, <2>1, <2>2, <2>3, <2>4, ZenonT(60) DEF TypeOK, config, queue, cond, closing
<1>7. ASSUME NEW w \in Workers, Receive(w) PROVE TypeOK'
  <2>1. task' = [task EXCEPT ![w] = <<>>]
    BY <1>7 DEF Receive
  <2>2. /\ task' \in [Workers -> Seq(Submitters \cup {"nil"})]
        /\ \A v \in Workers : Len(task'[v]) =< 1
    <3>1. <<>> \in Seq(Submitters \cup {"nil"}) /\ Len(<<>>) =< 1
      OBVIOUS
    <3> QED
      BY <1>t, <2>1, <3>1, ZenonT(60)
  <2>3. worker' \in [Workers -> {"off", "idle", "busy", "revert", "insert", "exit"}]
    BY <1>0, <1>7, ZenonT(60) DEF TypeOK, Receive, Become
  <2>4. ran' \in [Submitters -> Nat]
    <3>1. CASE task[w] = <<"nil">>
      BY <1>0, <1>7, <3>1, ZenonT(60) DEF TypeOK, Receive
    <3>2. CASE task[w] # <<"nil">>
      <4>1. Head(task[w]) \in Submitters
        BY <1>0, <1>7, <3>2, ChannelCases, ZenonT(60) DEF Receive
      <4>2. ran' = [ran EXCEPT ![Head(task[w])] = @ + 1]
        BY <1>7, <3>2, ZenonT(60) DEF Receive
      <4>3. PICK x \in Submitters : ran' = [ran EXCEPT ![x] = @ + 1]
        BY <4>1, <4>2, ZenonT(60)
      <4> QED
        BY <1>n, <4>3
    <3> QED
      BY <3>1, <3>2, ZenonT(60)
  <2>5. UNCHANGED <<config, capacity, queue, lock, calls, cond, closing>>
    BY <1>7, ZenonT(60) DEF Receive
  <2> QED
    BY <1>0, <2>2, <2>3, <2>4, <2>5, ZenonT(60) DEF TypeOK, config, queue, calls, cond, closing
<1>8. ASSUME NEW w \in Workers, TaskEnds(w) \/ RevertWorker(w) PROVE TypeOK'
  <2>1. worker' \in [Workers -> {"off", "idle", "busy", "revert", "insert", "exit"}]
    BY <1>0, <1>8, ZenonT(60) DEF TypeOK, TaskEnds, RevertWorker, Become
  <2>2. UNCHANGED <<config, capacity, queue, lock, task, ran, calls, cond, closing>>
    BY <1>8 DEF TaskEnds, RevertWorker
  <2> QED
    BY <1>0, <2>1, <2>2 DEF TypeOK, config, queue, calls, cond, closing
<1>9. ASSUME NEW w \in Workers, InsertWorker(w) PROVE TypeOK'
  <2>1. worker' \in [Workers -> {"off", "idle", "busy", "revert", "insert", "exit"}]
    BY <1>0, <1>9, ZenonT(60) DEF TypeOK, InsertWorker, Become
  <2>2. UNCHANGED <<config, capacity, size, lock, task, ran, got, limit, signals, closing>>
    BY <1>9, ZenonT(60) DEF InsertWorker
  <2>3. CASE UNCHANGED <<workers, submit, waiting>>
    BY <1>0, <2>1, <2>2, <2>3, ZenonT(60) DEF TypeOK, config, closing
  <2>4. CASE ~UNCHANGED <<workers, submit, waiting>>
    <3>1. /\ workers' = Append(workers, w) /\ Signal
          /\ ~(options.preAlloc /\ Len(workers) >= size)
      BY <1>9, <2>4 DEF InsertWorker
    <3>2. waiting' \in Seq(Submitters) /\ submit' \in [Submitters -> SubmitSteps]
      BY <1>0, <3>1, Woke, ZenonT(60)
    <3>3. workers' \in Seq(Workers) /\ (options.preAlloc => Len(workers') =< size)
      BY <1>n, <1>q, <3>1
    <3> QED
      BY <1>0, <2>1, <2>2, <3>2, <3>3, ZenonT(60) DEF TypeOK, config, closing
  <2> QED
    BY <2>3, <2>4
<1>10. ASSUME NEW w \in Workers, WorkerEnds(w) PROVE TypeOK'
  <2>1. worker' \in [Workers -> {"off", "idle", "busy", "revert", "insert", "exit"}]
    BY <1>0, <1>10, ZenonT(60) DEF TypeOK, WorkerEnds, Become
  <2>2. signals' \in Nat
    <3>1. signals' = signals + 1
      BY <1>10 DEF WorkerEnds
    <3> QED
      BY <1>n, <3>1
  <2>3. UNCHANGED <<config, capacity, queue, lock, task, ran, calls, waiting, closing>>
    BY <1>10, ZenonT(60) DEF WorkerEnds
  <2> QED
    BY <1>0, <2>1, <2>2, <2>3, ZenonT(60) DEF TypeOK, config, queue, calls, closing
<1>11. ASSUME EndSignal \/ PurgeBroadcast \/ ReleaseBroadcast PROVE TypeOK'
  <2>1. waiting' \in Seq(Submitters) /\ submit' \in [Submitters -> SubmitSteps]
    BY <1>0, <1>11, Woke DEF EndSignal, PurgeBroadcast, ReleaseBroadcast
  <2>2. purger' \in {"wait", "check", "broadcast", "ended"}
        /\ release' \in {"notCalled", "reset", "broadcast", "done"}
    BY <1>0, <1>11, ZenonT(60) DEF TypeOK, EndSignal, PurgeBroadcast, ReleaseBroadcast, closing
  <2>4. signals' \in Nat
    <3>1. signals' = signals \/ (signals > 0 /\ signals' = signals - 1)
      BY <1>11, ZenonT(60) DEF EndSignal, PurgeBroadcast, ReleaseBroadcast
    <3> QED
      BY <1>n, <3>1
  <2>3. UNCHANGED <<config, capacity, queue, lock, goroutines, got, limit, closed>>
    BY <1>11, ZenonT(60) DEF EndSignal, PurgeBroadcast, ReleaseBroadcast, closing
  <2> QED
    BY <1>0, <2>1, <2>2, <2>3, <2>4, SMTT(60) DEF TypeOK, config, queue, goroutines
<1>12. ASSUME Purge PROVE TypeOK'
  <2>1. /\ purger' \in {"wait", "check", "broadcast", "ended"}
        /\ UNCHANGED <<config, capacity, size, lock, worker, ran, calls, cond, closed, release>>
    BY <1>12, ZenonT(60) DEF Purge
  <2>2. CASE UNCHANGED <<workers, task>>
    BY <1>0, <2>1, <2>2, ZenonT(60) DEF TypeOK, config, calls, cond
  <2>3. CASE \E n \in 0 .. Len(workers) :
                /\ workers' = SubSeq(workers, n + 1, Len(workers))
                /\ SendNil(Range(SubSeq(workers, 1, n)))
    <3>1. PICK n \in 0 .. Len(workers) :
                /\ workers' = SubSeq(workers, n + 1, Len(workers))
                /\ SendNil(Range(SubSeq(workers, 1, n)))
      BY <2>3
    <3>2. /\ workers' \in Seq(Workers) /\ Len(workers') =< Len(workers)
          /\ Range(SubSeq(workers, 1, n)) \subseteq Range(workers)
      BY <1>0, <3>1, PurgeElements, ZenonT(60) DEF TypeOK, OneOwner
    <3>3. /\ task' \in [Workers -> Seq(Submitters \cup {"nil"})]
          /\ \A w \in Workers : Len(task'[w]) =< 1
      BY <1>0, <3>1, <3>2, NilSent, ZenonT(60)
    <3>4. options.preAlloc => Len(workers') =< size
      BY <1>n, <1>q, <3>2
    <3> QED
      BY <1>0, <2>1, <3>2, <3>3, <3>4, ZenonT(60) DEF TypeOK, config, calls, cond
  <2> QED
    BY <1>12, <2>2, <2>3, ZenonT(60) DEF Purge
<1>13. ASSUME PurgeCheck PROVE TypeOK'
  <2>1. purger' \in {"wait", "check", "broadcast", "ended"}
    BY <1>13 DEF PurgeCheck
  <2>2. UNCHANGED <<config, capacity, queue, lock, goroutines, calls, cond, closed, release>>
    BY <1>13, ZenonT(60) DEF PurgeCheck
  <2> QED
    BY <1>0, <2>1, <2>2, ZenonT(60) DEF TypeOK, config, queue, goroutines, calls, cond
<1>14. ASSUME NEW c \in Tunes, Tune(c) PROVE TypeOK'
  <2>1. capacity' \in Capacities /\ tunes' \in 0 .. MaxTunes
    BY <1>n, <1>14, AntsAssumption DEF Tune, Capacities
  <2>2. UNCHANGED <<options, queue, lock, goroutines, calls, cond, closing>>
    BY <1>14, ZenonT(60) DEF Tune
  <2> QED
    BY <1>0, <2>1, <2>2, ZenonT(60) DEF TypeOK, queue, goroutines, calls, cond, closing
<1>15. ASSUME Release PROVE TypeOK'
  <2>1. release' = "reset" /\ closed' = TRUE
    BY <1>15, ZenonT(60) DEF Release
  <2>2. UNCHANGED <<config, capacity, queue, lock, goroutines, calls, cond, purger>>
    BY <1>15, ZenonT(60) DEF Release
  <2> QED
    BY <1>0, <2>1, <2>2, ZenonT(60) DEF TypeOK, config, queue, goroutines, calls, cond
<1>16. ASSUME ReleaseReset PROVE TypeOK'
  <2>1. /\ task' \in [Workers -> Seq(Submitters \cup {"nil"})]
        /\ \A w \in Workers : Len(task'[w]) =< 1
    BY <1>0, <1>16, NilSent, ZenonT(60) DEF ReleaseReset
  <2>2. workers' = <<>> /\ size' \in Nat /\ release' = "broadcast"
    BY <1>0, <1>16, ZenonT(60) DEF TypeOK, ReleaseReset
  <2>3. workers' \in Seq(Workers) /\ Len(workers') =< size'
    BY <2>2, EmptyElements
  <2>4. UNCHANGED <<config, capacity, lock, worker, ran, calls, cond, closed, purger>>
    BY <1>16, ZenonT(60) DEF ReleaseReset
  <2> QED
    BY <1>0, <2>1, <2>2, <2>3, <2>4, ZenonT(60) DEF TypeOK, config, calls, cond
<1>17. CASE UNCHANGED vars
  BY <1>0, <1>17, ZenonT(60) DEF TypeOK, vars, config, queue, goroutines, calls, cond, closing
<1> QED
  BY <1>1, <1>2, <1>3, <1>4, <1>5, <1>6, <1>7, <1>8, <1>9, <1>10, <1>11, <1>12, <1>13, <1>14,
     <1>15, <1>16, <1>17, ZenonT(60) DEF Next, Progress, Submitting, Working

-----------------------------------------------------------------------------
(* The calls of Submit.                                                    *)

\* What a step can do to the calls: nothing, wake some, move one that has no
\* worker, put one to sleep, give it a worker, or let it send its task.
CallMoves(s) ==
    /\ submit[s] \notin {"waiting", "send", "ok"} /\ UNCHANGED <<got, waiting>>
    /\ \E to \in SubmitSteps \ {"waiting", "send", "ok"} : submit' = [submit EXCEPT ![s] = to]
CallSleeps(s) ==
    /\ submit[s] = "blocking" /\ submit' = [submit EXCEPT ![s] = "waiting"]
    /\ waiting' = Append(waiting, s) /\ UNCHANGED got
CallGets(s) ==
    /\ submit[s] \notin {"waiting", "send", "ok"} /\ submit' = [submit EXCEPT ![s] = "send"]
    /\ \E w \in Workers : got' = [got EXCEPT ![s] = w]
    /\ UNCHANGED waiting
CallSends(s) ==
    /\ SendTask(s)
    /\ submit[s] = "send" /\ submit' = [submit EXCEPT ![s] = "ok"]
    /\ got' = [got EXCEPT ![s] = NoWorker] /\ UNCHANGED waiting
CallStep ==
    \/ UNCHANGED <<submit, got, waiting>>
    \/ (Signal \/ Broadcast) /\ UNCHANGED got
    \/ \E s \in Submitters : CallMoves(s) \/ CallSleeps(s) \/ CallGets(s) \/ CallSends(s)

\* There are no other steps.
LEMMA CallSteps ==
  ASSUME AntsInv, [Next]_vars
  PROVE  CallStep
<1>0. TypeOK /\ OneOwner
  BY ZenonT(60) DEF AntsInv
<1>1. ASSUME NEW s \in Submitters, Submit(s) \/ SpawnIfOpen(s) PROVE CallMoves(s)
  BY <1>1, ZenonT(60) DEF Submit, SpawnIfOpen, CallMoves, Goto, cond, SubmitSteps
<1>2. ASSUME NEW s \in Submitters, RetrieveWorker(s) PROVE CallMoves(s) \/ CallGets(s)
  <2>1. submit[s] = "retrieve" /\ UNCHANGED waiting
    BY <1>2 DEF RetrieveWorker, cond
  <2>2. CASE Detach(s)
    <3>1. Detached \in Workers /\ got' = [got EXCEPT ![s] = Detached]
          /\ submit' = [submit EXCEPT ![s] = "send"]
      BY <1>0, <2>2, DetachTypes, ZenonT(60)
    <3> QED
      BY <2>1, <3>1, ZenonT(60) DEF CallGets
  <2>3. CASE ~Detach(s)
    BY <1>2, <2>1, <2>3, ZenonT(60) DEF RetrieveWorker, CallMoves, Goto, SubmitSteps
  <2> QED
    BY <2>2, <2>3
<1>3. ASSUME NEW s \in Submitters, Woken(s) PROVE CallMoves(s) \/ CallGets(s)
  <2>1. submit[s] = "woken" /\ UNCHANGED waiting
    BY <1>3 DEF Woken, cond
  <2>2. CASE Detach(s)
    <3>1. Detached \in Workers /\ got' = [got EXCEPT ![s] = Detached]
          /\ submit' = [submit EXCEPT ![s] = "send"]
      BY <1>0, <2>2, DetachTypes, ZenonT(60)
    <3> QED
      BY <2>1, <3>1, ZenonT(60) DEF CallGets
  <2>3. CASE ~Detach(s)
    BY <1>3, <2>1, <2>3, ZenonT(60) DEF Woken, CallMoves, Goto, SubmitSteps
  <2> QED
    BY <2>2, <2>3
<1>4. ASSUME NEW s \in Submitters, Block(s) PROVE CallMoves(s) \/ CallSleeps(s)
  BY <1>4 DEF Block, CallMoves, CallSleeps, Goto, SubmitSteps
<1>5. ASSUME NEW s \in Submitters, SpawnWorker(s) PROVE CallGets(s)
  BY <1>5, ZenonT(60) DEF SpawnWorker, CallGets, Goto, cond
<1>6. ASSUME NEW s \in Submitters, SendTask(s) PROVE CallSends(s)
  BY <1>6, ZenonT(60) DEF SendTask, CallSends, Goto, cond
<1>7. ASSUME NEW w \in Workers, Receive(w) \/ TaskEnds(w) \/ RevertWorker(w) \/ WorkerEnds(w)
      PROVE  UNCHANGED <<submit, got, waiting>>
  BY <1>7, ZenonT(60) DEF Receive, TaskEnds, RevertWorker, WorkerEnds, calls, cond
<1>8. ASSUME NEW w \in Workers, InsertWorker(w)
      PROVE  UNCHANGED got /\ (UNCHANGED <<submit, waiting>> \/ Signal)
  BY <1>8, ZenonT(60) DEF InsertWorker
<1>9. ASSUME EndSignal \/ PurgeBroadcast \/ ReleaseBroadcast
      PROVE  UNCHANGED got /\ (Signal \/ Broadcast)
  BY <1>9, ZenonT(60) DEF EndSignal, PurgeBroadcast, ReleaseBroadcast
<1>10. ASSUME Purge \/ PurgeCheck \/ Release \/ ReleaseReset \/ (\E c \in Tunes : Tune(c))
       PROVE  UNCHANGED <<submit, got, waiting>>
  BY <1>10, ZenonT(60) DEF Purge, PurgeCheck, Release, ReleaseReset, Tune, calls, cond
<1>11. CASE UNCHANGED vars
  BY <1>11, ZenonT(60) DEF CallStep, vars, calls, cond
<1> QED
  BY <1>1, <1>2, <1>3, <1>4, <1>5, <1>6, <1>7, <1>8, <1>9, <1>10, <1>11, SMTT(60)
  DEF CallStep, Next, Progress, Submitting, Working

\* A call that gets a worker has it until it has sent its task.
LEMMA HoldStep ==
  ASSUME AntsInv, [Next]_vars
  PROVE  HoldInv'
<1>0. /\ submit \in [Submitters -> SubmitSteps] /\ got \in [Submitters -> Workers \cup {NoWorker}]
      /\ HoldInv /\ NoWorker \notin Workers
  BY AntsAssumption, ZenonT(60) DEF AntsInv, TypeOK
<1>1. CASE UNCHANGED <<submit, got, waiting>>
  BY <1>0, <1>1, ZenonT(60) DEF HoldInv
<1>2. CASE (Signal \/ Broadcast) /\ UNCHANGED got
  <2>1. \A s \in Submitters : submit'[s] = submit[s] \/ (submit[s] = "waiting" /\ submit'[s] = "woken")
    BY <1>2, Woke, ZenonT(60) DEF AntsInv
  <2> QED
    BY <1>0, <1>2, <2>1 DEF HoldInv
<1>3. ASSUME NEW s \in Submitters, CallMoves(s) \/ CallSleeps(s) \/ CallGets(s) \/ CallSends(s)
      PROVE  HoldInv'
  BY <1>0, <1>3, ZenonT(60) DEF HoldInv, CallMoves, CallSleeps, CallGets, CallSends
<1> QED
  BY <1>1, <1>2, <1>3, CallSteps DEF CallStep

\* The list of the condition variable has the calls that wait, each once.
LEMMA WaitStep ==
  ASSUME AntsInv, [Next]_vars
  PROVE  WaitInv'
<1>0. /\ submit \in [Submitters -> SubmitSteps] /\ waiting \in Seq(Submitters) /\ WaitInv
      /\ Range(waiting) \subseteq Submitters
  <2>1. submit \in [Submitters -> SubmitSteps] /\ waiting \in Seq(Submitters) /\ WaitInv
    BY ZenonT(60) DEF AntsInv, TypeOK
  <2> QED
    BY <2>1, ElementsOf
<1>1. CASE UNCHANGED <<submit, got, waiting>>
  BY <1>0, <1>1, ZenonT(60) DEF WaitInv
<1>2. CASE (Signal \/ Broadcast) /\ UNCHANGED got
  BY <1>2, Woke, ZenonT(60) DEF AntsInv, WaitInv
<1>3. ASSUME NEW s \in Submitters, CallMoves(s) \/ CallGets(s) \/ CallSends(s)
      PROVE  WaitInv'
  <2>1. waiting' = waiting /\ \E to : submit' = [submit EXCEPT ![s] = to]
    BY <1>3, ZenonT(60) DEF CallMoves, CallGets, CallSends
  <2>2. submit[s] # "waiting"
    BY <1>3 DEF CallMoves, CallGets, CallSends
  <2>3. \A t \in Range(waiting) : submit'[t] = "waiting"
    BY <1>0, <2>1, <2>2 DEF WaitInv
  <2> QED
    BY <1>0, <2>1, <2>3, ZenonT(60) DEF WaitInv
<1>4. ASSUME NEW s \in Submitters, CallSleeps(s)
      PROVE  WaitInv'
  <2>1. s \notin Range(waiting) /\ IsInjective(waiting)
    BY <1>0, <1>4 DEF CallSleeps, WaitInv
  <2>2. waiting' = Append(waiting, s) /\ submit' = [submit EXCEPT ![s] = "waiting"]
    BY <1>4 DEF CallSleeps
  <2>3. Range(waiting') = Range(waiting) \cup {s} /\ IsInjective(waiting')
    BY <1>0, <2>1, <2>2, AppendElements, ZenonT(60)
  <2>4. \A t \in Range(waiting) \cup {s} : submit'[t] = "waiting"
    BY <1>0, <2>2 DEF WaitInv
  <2> QED
    BY <2>3, <2>4, ZenonT(60) DEF WaitInv
<1> QED
  BY <1>1, <1>2, <1>3, <1>4, CallSteps, ZenonT(60) DEF CallStep

-----------------------------------------------------------------------------
(* The owners of the workers.                                              *)

\* OneOwner, and that a worker without an owner is busy, has something in its
\* channel, or has no goroutine.
OwnInv ==
    /\ OneOwner
    /\ \A w \in Workers : /\ worker[w] # "idle" => task[w] = <<>>
                          /\ worker[w] = "idle" /\ task[w] = <<>> => Owned(w)

\* It follows from how the set of queued workers, the calls' workers and the
\* goroutines change, not from the order of the queue.
LEMMA OwnFrom ==
  ASSUME IsInjective(workers'),
         \A s \in Submitters :
            /\ got'[s] \notin Range(workers')
            /\ \A t \in Submitters : got'[t] = got'[s] /\ got'[s] # NoWorker => t = s,
         \A w \in Workers :
            /\ (w \in Range(workers') \/ \E s \in Submitters : got'[s] = w)
                    <=> worker'[w] = "idle" /\ task'[w] = <<>>
            /\ worker'[w] # "idle" => task'[w] = <<>>
  PROVE  OwnInv'
  BY ZenonT(60) DEF OwnInv, OneOwner, Owned

\* What a step can do to the workers.
Detaches(s) ==
    /\ Detached \in Range(workers) /\ Detached \in Workers
    /\ IsInjective(workers') /\ Range(workers') = Range(workers) \ {Detached}
    /\ got[s] = NoWorker /\ got' = [got EXCEPT ![s] = Detached] /\ UNCHANGED <<worker, task>>
Spawns(s) ==
    /\ \E w \in Workers :
        /\ worker[w] = "off"
        /\ worker' = [worker EXCEPT ![w] = "idle"] /\ got' = [got EXCEPT ![s] = w]
    /\ got[s] = NoWorker /\ UNCHANGED <<workers, task>>
Sends(s) ==
    /\ SendTask(s) /\ got[s] \in Workers
    /\ task' = [task EXCEPT ![got[s]] = <<s>>] /\ got' = [got EXCEPT ![s] = NoWorker]
    /\ UNCHANGED <<workers, worker>>
Receives(w) ==
    /\ Receive(w) /\ worker[w] = "idle" /\ task[w] # <<>>
    /\ task' = [task EXCEPT ![w] = <<>>]
    /\ \E to \in {"busy", "exit"} : worker' = [worker EXCEPT ![w] = to]
    /\ UNCHANGED <<workers, got>>
Goes(w) ==
    /\ worker[w] # "idle"
    /\ \E to \in {"off", "revert", "insert", "exit"} : worker' = [worker EXCEPT ![w] = to]
    /\ UNCHANGED <<workers, got, task>>
Inserts(w) ==
    /\ worker[w] = "insert" /\ worker' = [worker EXCEPT ![w] = "idle"]
    /\ workers' = Append(workers, w) /\ UNCHANGED <<got, task>>
Stops(ws) ==
    /\ IsInjective(workers') /\ Range(workers') = Range(workers) \ ws
    /\ \A w \in Workers : task'[w] = IF w \in ws THEN <<"nil">> ELSE task[w]
    /\ UNCHANGED <<got, worker>>
WorkerStep ==
    \/ UNCHANGED <<workers, got, worker, task>>
    \/ \E s \in Submitters : Detaches(s) \/ Spawns(s) \/ Sends(s)
    \/ \E w \in Workers : Receives(w) \/ Goes(w) \/ Inserts(w)
    \/ \E ws \in SUBSET Range(workers) : Stops(ws)

\* There are no other steps.
LEMMA WorkerSteps ==
  ASSUME AntsInv, [Next]_vars
  PROVE  WorkerStep
<1>0. TypeOK /\ OneOwner /\ HoldInv
  BY ZenonT(60) DEF AntsInv
<1>1. ASSUME NEW s \in Submitters, Submit(s) \/ SpawnIfOpen(s) \/ Block(s)
      PROVE  UNCHANGED <<workers, got, worker, task>>
  BY <1>1, ZenonT(60) DEF Submit, SpawnIfOpen, Block, queue, goroutines
<1>2. ASSUME NEW s \in Submitters, RetrieveWorker(s) \/ Woken(s)
      PROVE  UNCHANGED <<workers, got, worker, task>> \/ Detaches(s)
  <2>1. UNCHANGED <<worker, task>> /\ got[s] = NoWorker
    BY <1>0, <1>2 DEF RetrieveWorker, Woken, goroutines, HoldInv
  <2>2. CASE Detach(s)
    BY <1>0, <2>1, <2>2, DetachTypes, ZenonT(60) DEF Detaches
  <2>3. CASE ~Detach(s)
    BY <1>2, <2>1, <2>3 DEF RetrieveWorker, Woken, queue
  <2> QED
    BY <2>2, <2>3
<1>3. ASSUME NEW s \in Submitters, SpawnWorker(s) PROVE Spawns(s)
  BY <1>0, <1>3, ZenonT(60) DEF SpawnWorker, Spawns, Become, queue, HoldInv
<1>4. ASSUME NEW s \in Submitters, SendTask(s) PROVE Sends(s)
  <2>1. got[s] \in Workers
    BY <1>0, <1>4, AntsAssumption, ZenonT(60) DEF SendTask, TypeOK, HoldInv
  <2> QED
    BY <1>4, <2>1, ZenonT(60) DEF SendTask, Sends, queue
<1>5. ASSUME NEW w \in Workers, Receive(w) PROVE Receives(w)
  BY <1>5, ZenonT(60) DEF Receive, Receives, Become, queue, calls
<1>6. ASSUME NEW w \in Workers, TaskEnds(w) \/ RevertWorker(w) \/ WorkerEnds(w) PROVE Goes(w)
  BY <1>6, ZenonT(60) DEF TaskEnds, RevertWorker, WorkerEnds, Goes, Become, queue, calls
<1>7. ASSUME NEW w \in Workers, InsertWorker(w) PROVE Goes(w) \/ Inserts(w)
  BY <1>7, ZenonT(60) DEF InsertWorker, Goes, Inserts, Become
<1>8. ASSUME EndSignal \/ PurgeBroadcast \/ ReleaseBroadcast \/ PurgeCheck \/ Release
                \/ (\E c \in Tunes : Tune(c))
      PROVE  UNCHANGED <<workers, got, worker, task>>
  BY <1>8, ZenonT(60) DEF EndSignal, PurgeBroadcast, ReleaseBroadcast, PurgeCheck, Release, Tune, queue,
              goroutines, calls
<1>9. ASSUME Purge
      PROVE  UNCHANGED <<workers, got, worker, task>> \/ \E ws \in SUBSET Range(workers) : Stops(ws)
  <2>1. UNCHANGED <<got, worker>>
    BY <1>9 DEF Purge, calls
  <2>2. CASE \E n \in 0 .. Len(workers) :
                /\ workers' = SubSeq(workers, n + 1, Len(workers))
                /\ SendNil(Range(SubSeq(workers, 1, n)))
    <3>1. PICK n \in 0 .. Len(workers) :
                /\ workers' = SubSeq(workers, n + 1, Len(workers))
                /\ SendNil(Range(SubSeq(workers, 1, n)))
      BY <2>2
    <3> DEFINE ws == Range(SubSeq(workers, 1, n))
    <3>2. /\ IsInjective(workers') /\ ws \subseteq Range(workers)
          /\ Range(workers') = Range(workers) \ ws
      BY <1>0, <3>1, PurgeElements, ZenonT(60) DEF TypeOK, OneOwner
    <3>3. \A w \in Workers : task'[w] = IF w \in ws THEN <<"nil">> ELSE task[w]
      BY <1>0, <3>1, <3>2, NilSent
    <3> QED
      BY <2>1, <3>2, <3>3, ZenonT(60) DEF Stops
  <2> QED
    BY <1>9, <2>1, <2>2, ZenonT(60) DEF Purge
<1>10. ASSUME ReleaseReset PROVE Stops(Range(workers))
  <2>1. workers' = <<>> /\ SendNil(Range(workers)) /\ UNCHANGED <<got, worker>>
    BY <1>10, ZenonT(60) DEF ReleaseReset, calls
  <2>2. \A w \in Workers : task'[w] = IF w \in Range(workers) THEN <<"nil">> ELSE task[w]
    BY <1>0, <2>1, NilSent, ZenonT(60)
  <2>3. IsInjective(workers') /\ Range(workers') = Range(workers) \ Range(workers)
    BY <2>1, EmptyElements, ZenonT(60)
  <2> QED
    BY <2>1, <2>2, <2>3, ZenonT(60) DEF Stops
<1>11. CASE UNCHANGED vars
  BY <1>11, ZenonT(60) DEF WorkerStep, vars, queue, goroutines, calls
<1> QED
  BY <1>1, <1>2, <1>3, <1>4, <1>5, <1>6, <1>7, <1>8, <1>9, <1>10, <1>11, ZenonT(60)
  DEF WorkerStep, Next, Progress, Submitting, Working

\* A worker keeps one owner, and its owner finds it in its loop.
LEMMA OwnStep ==
  ASSUME AntsInv, [Next]_vars
  PROVE  OwnInv'
<1>0. /\ workers \in Seq(Workers) /\ Range(workers) \subseteq Workers /\ IsInjective(workers)
      /\ got \in [Submitters -> Workers \cup {NoWorker}] /\ NoWorker \notin Workers
      /\ worker \in [Workers -> {"off", "idle", "busy", "revert", "insert", "exit"}]
  <2>1. /\ workers \in Seq(Workers) /\ got \in [Submitters -> Workers \cup {NoWorker}]
        /\ worker \in [Workers -> {"off", "idle", "busy", "revert", "insert", "exit"}]
        /\ IsInjective(workers)
    BY ZenonT(60) DEF AntsInv, TypeOK, OneOwner
  <2>2. NoWorker \notin Workers
    BY AntsAssumption
  <2> QED
    BY <2>1, <2>2, ElementsOf
<1>1. \A s \in Submitters :
        /\ got[s] \notin Range(workers)
        /\ \A t \in Submitters : got[t] = got[s] /\ got[s] # NoWorker => t = s
  BY ZenonT(60) DEF AntsInv, OneOwner
<1>2. \A w \in Workers :
        /\ (w \in Range(workers) \/ \E s \in Submitters : got[s] = w)
                <=> worker[w] = "idle" /\ task[w] = <<>>
        /\ worker[w] # "idle" => task[w] = <<>>
  BY ZenonT(60) DEF AntsInv, OneOwner, WorkersEnd, TaskInv, Owned
<1>t. task \in [Workers -> Seq(Submitters \cup {"nil"})]
  BY ZenonT(60) DEF AntsInv, TypeOK
<1>3. CASE UNCHANGED <<workers, got, worker, task>>
  BY <1>0, <1>1, <1>2, <1>3, OwnFrom, ZenonT(60)
<1>4. ASSUME NEW s \in Submitters, Detaches(s) PROVE OwnInv'
  <2>1. PICK d : d = Detached
    OBVIOUS
  <2>2. /\ d \in Range(workers) /\ d \in Workers
        /\ IsInjective(workers') /\ Range(workers') = Range(workers) \ {d}
        /\ got[s] = NoWorker
        /\ got' = [got EXCEPT ![s] = d] /\ worker' = worker /\ task' = task
    BY <1>4, <2>1, ZenonT(60) DEF Detaches
  <2>3. \A t \in Submitters : got'[t] = IF t = s THEN d ELSE got[t]
    BY <1>0, <2>2, ZenonT(60)
  <2>4. \A t \in Submitters :
            /\ got'[t] \notin Range(workers')
            /\ \A u \in Submitters : got'[u] = got'[t] /\ got'[t] # NoWorker => u = t
    BY <1>1, <2>2, <2>3
  <2>5. \A w \in Workers :
            (w \in Range(workers') \/ \E t \in Submitters : got'[t] = w)
                <=> (w \in Range(workers) \/ \E t \in Submitters : got[t] = w)
    BY <1>0, <2>2, <2>3
  <2> QED
    BY <1>2, <2>2, <2>4, <2>5, OwnFrom, ZenonT(60)
<1>5. ASSUME NEW s \in Submitters, Spawns(s) PROVE OwnInv'
  <2>1. PICK w \in Workers : /\ worker[w] = "off"
                             /\ worker' = [worker EXCEPT ![w] = "idle"]
                             /\ got' = [got EXCEPT ![s] = w]
    BY <1>5, ZenonT(60) DEF Spawns
  <2>2. got[s] = NoWorker /\ workers' = workers /\ task' = task
    BY <1>5 DEF Spawns
  <2>3. /\ \A t \in Submitters : got'[t] = IF t = s THEN w ELSE got[t]
        /\ \A v \in Workers : worker'[v] = IF v = w THEN "idle" ELSE worker[v]
    BY <1>0, <2>1, ZenonT(60)
  <2>4. w \notin Range(workers) /\ (\A t \in Submitters : got[t] # w) /\ task[w] = <<>>
    BY <1>2, <2>1, ZenonT(60)
  <2>5. \A t \in Submitters :
            /\ got'[t] \notin Range(workers')
            /\ \A u \in Submitters : got'[u] = got'[t] /\ got'[t] # NoWorker => u = t
    BY <1>1, <2>2, <2>3, <2>4, ZenonT(60)
  <2>6. ASSUME NEW v \in Workers
        PROVE  /\ (v \in Range(workers') \/ \E t \in Submitters : got'[t] = v)
                    <=> worker'[v] = "idle" /\ task'[v] = <<>>
               /\ worker'[v] # "idle" => task'[v] = <<>>
    <3>1. CASE v = w
      BY <2>2, <2>3, <2>4, <3>1, ZenonT(60)
    <3>2. CASE v # w
      <4>1. (\E t \in Submitters : got'[t] = v) <=> (\E t \in Submitters : got[t] = v)
        BY <1>0, <2>2, <2>3, <3>2
      <4> QED
        BY <1>2, <2>2, <2>3, <3>2, <4>1, ZenonT(60)
    <3> QED
      BY <3>1, <3>2
  <2> QED
    BY <1>0, <2>2, <2>5, <2>6, OwnFrom, ZenonT(60)
<1>6. ASSUME NEW s \in Submitters, Sends(s) PROVE OwnInv'
  <2>1. PICK w \in Workers : w = got[s]
    BY <1>6, ZenonT(60) DEF Sends
  <2>2. /\ task' = [task EXCEPT ![w] = <<s>>] /\ got' = [got EXCEPT ![s] = NoWorker]
        /\ workers' = workers /\ worker' = worker
    BY <1>6, <2>1 DEF Sends
  <2>3. /\ \A t \in Submitters : got'[t] = IF t = s THEN NoWorker ELSE got[t]
        /\ \A v \in Workers : task'[v] = IF v = w THEN <<s>> ELSE task[v]
    BY <1>0, <1>t, <2>2, ZenonT(60)
  <2>4. /\ w \notin Range(workers) /\ (\A t \in Submitters : got[t] = w => t = s)
        /\ worker[w] = "idle" /\ <<s>> # <<>>
    <3>1. w # NoWorker /\ w \notin Range(workers) /\ worker[w] = "idle"
      BY <1>0, <1>1, <1>2, <2>1, ZenonT(60)
    <3>2. <<s>> # <<>>
      BY ZenonT(60)
    <3> QED
      BY <1>1, <2>1, <3>1, <3>2, ZenonT(60)
  <2>5. \A t \in Submitters :
            /\ got'[t] \notin Range(workers')
            /\ \A u \in Submitters : got'[u] = got'[t] /\ got'[t] # NoWorker => u = t
    BY <1>0, <1>1, <2>2, <2>3
  <2>6. ASSUME NEW v \in Workers
        PROVE  /\ (v \in Range(workers') \/ \E t \in Submitters : got'[t] = v)
                    <=> worker'[v] = "idle" /\ task'[v] = <<>>
               /\ worker'[v] # "idle" => task'[v] = <<>>
    <3>1. CASE v = w
      <4>1. ~\E t \in Submitters : got'[t] = w
        BY <1>0, <2>3, <2>4
      <4> QED
        BY <2>2, <2>3, <2>4, <3>1, <4>1, ZenonT(60)
    <3>2. CASE v # w
      <4>1. (\E t \in Submitters : got'[t] = v) <=> (\E t \in Submitters : got[t] = v)
        BY <1>0, <2>1, <2>3, <3>2
      <4> QED
        BY <1>2, <2>2, <2>3, <3>2, <4>1, ZenonT(60)
    <3> QED
      BY <3>1, <3>2
  <2> QED
    BY <1>0, <2>2, <2>5, <2>6, OwnFrom, ZenonT(60)
<1>7. ASSUME NEW w \in Workers, Receives(w) \/ Goes(w) PROVE OwnInv'
  <2>1. /\ workers' = workers /\ got' = got
        /\ \A v \in Workers : v # w => worker'[v] = worker[v] /\ task'[v] = task[v]
        /\ worker'[w] # "idle" /\ task'[w] = <<>>
    <3>1. CASE Receives(w)
      <4>1. PICK to \in {"busy", "exit"} : worker' = [worker EXCEPT ![w] = to]
        BY <3>1, ZenonT(60) DEF Receives
      <4>2. task' = [task EXCEPT ![w] = <<>>] /\ workers' = workers /\ got' = got
        BY <3>1 DEF Receives
      <4>3. \A v \in Workers : task'[v] = IF v = w THEN <<>> ELSE task[v]
        BY <1>t, <4>2, ZenonT(60)
      <4>4. \A v \in Workers : worker'[v] = IF v = w THEN to ELSE worker[v]
        BY <1>0, <4>1, ZenonT(60)
      <4> QED
        BY <4>2, <4>3, <4>4
    <3>2. CASE Goes(w)
      <4>1. PICK to \in {"off", "revert", "insert", "exit"} : worker' = [worker EXCEPT ![w] = to]
        BY <3>2, ZenonT(60) DEF Goes
      <4>2. task' = task /\ workers' = workers /\ got' = got /\ task[w] = <<>>
        BY <1>2, <3>2 DEF Goes
      <4>4. \A v \in Workers : worker'[v] = IF v = w THEN to ELSE worker[v]
        BY <1>0, <4>1, ZenonT(60)
      <4> QED
        BY <4>2, <4>4
    <3> QED
      BY <1>7, <3>1, <3>2
  <2>2. w \notin Range(workers) /\ ~\E s \in Submitters : got[s] = w
    BY <1>2, <1>7 DEF Receives, Goes
  <2> QED
    BY <1>0, <1>1, <1>2, <2>1, <2>2, OwnFrom, ZenonT(60)
<1>8. ASSUME NEW w \in Workers, Inserts(w) PROVE OwnInv'
  <2>1. /\ worker[w] = "insert" /\ worker' = [worker EXCEPT ![w] = "idle"]
        /\ workers' = Append(workers, w) /\ got' = got /\ task' = task
    BY <1>8, ZenonT(60) DEF Inserts
  <2>2. w \notin Range(workers) /\ (\A t \in Submitters : got[t] # w) /\ task[w] = <<>>
    BY <1>2, <2>1
  <2>3. Range(workers') = Range(workers) \cup {w} /\ IsInjective(workers')
    BY <1>0, <2>1, <2>2, AppendElements, ZenonT(60)
  <2>4. \A v \in Workers : worker'[v] = IF v = w THEN "idle" ELSE worker[v]
    BY <1>0, <2>1, ZenonT(60)
  <2>5. \A t \in Submitters :
            /\ got'[t] \notin Range(workers')
            /\ \A u \in Submitters : got'[u] = got'[t] /\ got'[t] # NoWorker => u = t
    BY <1>1, <2>1, <2>2, <2>3
  <2>6. ASSUME NEW v \in Workers
        PROVE  /\ (v \in Range(workers') \/ \E t \in Submitters : got'[t] = v)
                    <=> worker'[v] = "idle" /\ task'[v] = <<>>
               /\ worker'[v] # "idle" => task'[v] = <<>>
    <3>1. v \in Range(workers') <=> v \in Range(workers) \/ v = w
      BY <2>3
    <3>2. CASE v = w
      BY <2>1, <2>2, <2>4, <3>1, <3>2, ZenonT(60)
    <3>3. CASE v # w
      BY <1>2, <2>1, <2>4, <3>1, <3>3, ZenonT(60)
    <3> QED
      BY <3>2, <3>3
  <2> QED
    BY <2>3, <2>5, <2>6, OwnFrom, ZenonT(60)
<1>9. ASSUME NEW ws \in SUBSET Range(workers), Stops(ws) PROVE OwnInv'
  <2>1. /\ IsInjective(workers') /\ Range(workers') = Range(workers) \ ws
        /\ \A w \in Workers : task'[w] = IF w \in ws THEN <<"nil">> ELSE task[w]
        /\ got' = got /\ worker' = worker
    BY <1>9 DEF Stops
  <2>2. <<"nil">> # <<>>
    OBVIOUS
  <2>3. \A w \in ws : worker[w] = "idle" /\ ~\E t \in Submitters : got[t] = w
    BY <1>0, <1>1, <1>2
  <2>4. \A t \in Submitters :
            /\ got'[t] \notin Range(workers')
            /\ \A u \in Submitters : got'[u] = got'[t] /\ got'[t] # NoWorker => u = t
    BY <1>1, <2>1, ZenonT(60)
  <2>5. ASSUME NEW v \in Workers
        PROVE  /\ (v \in Range(workers') \/ \E t \in Submitters : got'[t] = v)
                    <=> worker'[v] = "idle" /\ task'[v] = <<>>
               /\ worker'[v] # "idle" => task'[v] = <<>>
    <3>1. v \in Range(workers') <=> v \in Range(workers) /\ v \notin ws
      BY <2>1
    <3>2. CASE v \in ws
      BY <2>1, <2>2, <2>3, <3>1, <3>2, ZenonT(60)
    <3>3. CASE v \notin ws
      BY <1>2, <2>1, <3>1, <3>3, ZenonT(60)
    <3> QED
      BY <3>2, <3>3, ZenonT(60)
  <2> QED
    BY <2>1, <2>4, <2>5, OwnFrom, ZenonT(60)
<1> QED
  BY <1>3, <1>4, <1>5, <1>6, <1>7, <1>8, <1>9, WorkerSteps, SMTT(60) DEF WorkerStep

\* Only the receipt of a task starts it.
LEMMA RanSteps ==
  ASSUME [Next]_vars
  PROVE  ran' = ran \/ \E w \in Workers : Receive(w)
<1>1. ASSUME NEW s \in Submitters, Submitting(s) PROVE ran' = ran
  BY <1>1, ZenonT(60) DEF Submitting, Submit, RetrieveWorker, Block, Woken, SpawnIfOpen, SpawnWorker, SendTask,
              goroutines
<1>2. ASSUME NEW w \in Workers, Working(w) PROVE ran' = ran \/ Receive(w)
  BY <1>2, ZenonT(60) DEF Working, TaskEnds, RevertWorker, InsertWorker, WorkerEnds
<1>3. ASSUME EndSignal \/ Purge \/ PurgeCheck \/ PurgeBroadcast PROVE ran' = ran
  BY <1>3, ZenonT(60) DEF EndSignal, Purge, PurgeCheck, PurgeBroadcast, goroutines
<1>4. ASSUME ReleaseReset \/ ReleaseBroadcast \/ Release \/ \E c \in Tunes : Tune(c) PROVE ran' = ran
  BY <1>4 DEF ReleaseReset, ReleaseBroadcast, Release, Tune, goroutines
<1>5. CASE UNCHANGED vars
  BY <1>5 DEF vars, goroutines
<1> QED
  BY <1>1, <1>2, <1>3, <1>4, <1>5, ZenonT(60) DEF Next, Progress

\* A step that neither sends nor receives leaves the tasks where they are, and
\* the goroutines that are to receive them in their loops.
TasksStay ==
    /\ \A s \in Submitters : (submit'[s] = "ok" <=> submit[s] = "ok") /\ ran'[s] = ran[s]
    /\ \A w \in Workers, s \in Submitters :
        /\ task'[w] = <<s>> <=> task[w] = <<s>>
        /\ worker[w] = "idle" /\ task[w] = <<s>> => worker'[w] = "idle"

LEMMA TaskSteps ==
  ASSUME AntsInv, [Next]_vars
  PROVE  \/ TasksStay
         \/ \E s \in Submitters : SendTask(s)
         \/ \E w \in Workers : Receive(w)
<1> SUFFICES ASSUME \A s \in Submitters : ~SendTask(s), \A w \in Workers : ~Receive(w)
             PROVE  TasksStay
  BY ZenonT(60)
<1>0. /\ submit \in [Submitters -> SubmitSteps]
      /\ worker \in [Workers -> {"off", "idle", "busy", "revert", "insert", "exit"}]
      /\ Range(workers) \subseteq Workers
  <2>1. /\ submit \in [Submitters -> SubmitSteps] /\ workers \in Seq(Workers)
        /\ worker \in [Workers -> {"off", "idle", "busy", "revert", "insert", "exit"}]
    BY ZenonT(60) DEF AntsInv, TypeOK
  <2> QED
    BY <2>1, ElementsOf
<1>1. ran' = ran
  BY RanSteps, ZenonT(60)
<1>2. ASSUME NEW t \in Submitters PROVE submit'[t] = "ok" <=> submit[t] = "ok"
  <2>1. CASE UNCHANGED <<submit, got, waiting>>
    BY <2>1, ZenonT(60)
  <2>2. CASE Signal \/ Broadcast
    <3>1. submit'[t] = submit[t] \/ (submit[t] = "waiting" /\ submit'[t] = "woken")
      BY <2>2, Woke, ZenonT(60) DEF AntsInv
    <3> QED
      BY <3>1
  <2>3. ASSUME NEW s \in Submitters, CallMoves(s) \/ CallSleeps(s) \/ CallGets(s)
        PROVE  submit'[t] = "ok" <=> submit[t] = "ok"
    BY <1>0, <2>3, ZenonT(60) DEF CallMoves, CallSleeps, CallGets
  <2>4. \A s \in Submitters : ~CallSends(s)
    BY DEF CallSends
  <2> QED
    BY <2>1, <2>2, <2>3, <2>4, CallSteps, ZenonT(60) DEF CallStep
<1>3. ASSUME NEW w \in Workers, NEW s \in Submitters
      PROVE  /\ task'[w] = <<s>> <=> task[w] = <<s>>
             /\ worker[w] = "idle" /\ task[w] = <<s>> => worker'[w] = "idle"
  <2>1. CASE UNCHANGED <<workers, got, worker, task>> \/ \E t \in Submitters : Detaches(t)
    BY <2>1, ZenonT(60) DEF Detaches
  <2>2. CASE \E t \in Submitters : Spawns(t)
    BY <1>0, <2>2, ZenonT(60) DEF Spawns
  <2>3. CASE \E v \in Workers : Goes(v) \/ Inserts(v)
    BY <1>0, <2>3, ZenonT(60) DEF Goes, Inserts
  <2>4. ASSUME NEW ws \in SUBSET Range(workers), Stops(ws)
        PROVE  /\ task'[w] = <<s>> <=> task[w] = <<s>>
               /\ worker[w] = "idle" /\ task[w] = <<s>> => worker'[w] = "idle"
    <3>1. worker' = worker /\ task'[w] = IF w \in ws THEN <<"nil">> ELSE task[w]
      BY <2>4 DEF Stops
    <3>2. <<"nil">> # <<s>>
      BY AntsAssumption
    <3>3. w \in ws => task[w] = <<>>
      BY ZenonT(60) DEF AntsInv, OneOwner, Owned
    <3>4. <<>> # <<s>>
      BY ZenonT(60)
    <3> QED
      BY <3>1, <3>2, <3>3, <3>4, ZenonT(60)
  <2>5. (\A t \in Submitters : ~Sends(t)) /\ (\A v \in Workers : ~Receives(v))
    BY DEF Sends, Receives
  <2> QED
    BY <2>1, <2>2, <2>3, <2>4, <2>5, WorkerSteps, ZenonT(60) DEF WorkerStep
<1> QED
  BY <1>1, <1>2, <1>3, ZenonT(60) DEF TasksStay

\* What is in the channels has not run, and what was accepted is there or has run.
RunInv ==
    /\ \A w \in Workers, s \in Submitters :
        task[w] = <<s>> =>
            /\ submit[s] = "ok" /\ ran[s] = 0
            /\ \A v \in Workers : task[v] = <<s>> => v = w
    /\ AcceptedRuns

LEMMA RunStep ==
  ASSUME AntsInv, [Next]_vars
  PROVE  RunInv'
<1>0. /\ task \in [Workers -> Seq(Submitters \cup {"nil"})] /\ ran \in [Submitters -> Nat]
      /\ submit \in [Submitters -> SubmitSteps] /\ got \in [Submitters -> Workers \cup {NoWorker}]
      /\ worker \in [Workers -> {"off", "idle", "busy", "revert", "insert", "exit"}]
      /\ HoldInv /\ RunInv
  BY ZenonT(60) DEF AntsInv, TypeOK, TaskInv, RunInv
<1>a. \A w \in Workers, s \in Submitters :
        task[w] = <<s>> =>
            /\ submit[s] = "ok" /\ ran[s] = 0
            /\ \A v \in Workers : task[v] = <<s>> => v = w
  BY <1>0, ZenonT(60) DEF RunInv
<1>b. \A s \in Submitters :
        /\ ran[s] =< 1 /\ (ran[s] = 1 => submit[s] = "ok")
        /\ submit[s] = "ok" /\ ran[s] = 0 =>
            \E w \in Workers : worker[w] = "idle" /\ task[w] = <<s>>
  BY <1>0, ZenonT(60) DEF RunInv, AcceptedRuns
<1>1. CASE TasksStay
  <2>1. ASSUME NEW v \in Workers, NEW t \in Submitters, task'[v] = <<t>>
        PROVE  /\ submit'[t] = "ok" /\ ran'[t] = 0
               /\ \A u \in Workers : task'[u] = <<t>> => u = v
    BY <1>1, <1>a, <2>1, ZenonT(60) DEF TasksStay
  <2>2. ASSUME NEW t \in Submitters
        PROVE  /\ ran'[t] =< 1 /\ (ran'[t] = 1 => submit'[t] = "ok")
               /\ submit'[t] = "ok" /\ ran'[t] = 0 =>
                    \E v \in Workers : worker'[v] = "idle" /\ task'[v] = <<t>>
    BY <1>1, <1>b, ZenonT(60) DEF TasksStay
  <2> QED
    BY <2>1, <2>2, ZenonT(60) DEF RunInv, AcceptedRuns
<1>2. ASSUME NEW s \in Submitters, SendTask(s) PROVE RunInv'
  <2>1. PICK w \in Workers : w = got[s]
    BY <1>0, <1>2, ZenonT(60) DEF SendTask, HoldInv
  <2>2. /\ submit[s] = "send" /\ task[w] = <<>> /\ worker' = worker /\ ran' = ran
        /\ task' = [task EXCEPT ![w] = <<s>>] /\ submit' = [submit EXCEPT ![s] = "ok"]
    BY <1>2, <2>1 DEF SendTask, Goto
  <2>3. /\ \A v \in Workers : task'[v] = IF v = w THEN <<s>> ELSE task[v]
        /\ \A t \in Submitters : submit'[t] = IF t = s THEN "ok" ELSE submit[t]
    BY <1>0, <2>2, ZenonT(60)
  <2>4. worker[w] = "idle"
    BY <2>1, ZenonT(60) DEF AntsInv, OneOwner, Owned
  <2>5. ran[s] = 0 /\ \A v \in Workers : task[v] # <<s>>
    <3>1. ran[s] \in Nat /\ ran[s] =< 1 /\ ran[s] # 1
      BY <1>0, <2>2 DEF RunInv, AcceptedRuns
    <3>2. \A v \in Workers : task[v] # <<s>>
      BY <1>0, <2>2, ZenonT(60) DEF RunInv
    <3> QED
      BY <3>1, <3>2
  <2>6. \A t \in Submitters : <<t>> # <<>> /\ (<<t>> = <<s>> => t = s)
    BY ZenonT(60)
  <2>7. ASSUME NEW v \in Workers, NEW t \in Submitters, task'[v] = <<t>>
        PROVE  /\ submit'[t] = "ok" /\ ran'[t] = 0
               /\ \A u \in Workers : task'[u] = <<t>> => u = v
    <3>1. CASE t = s
      <4>1. submit'[t] = "ok" /\ ran'[t] = 0
        BY <2>2, <2>3, <2>5, <3>1, ZenonT(60)
      <4>2. \A u \in Workers : task'[u] = <<t>> => u = w
        BY <2>3, <2>5, <3>1, ZenonT(60)
      <4> QED
        BY <2>7, <4>1, <4>2, ZenonT(60)
    <3>2. CASE t # s
      <4>1. v # w /\ task[v] = <<t>>
        BY <2>3, <2>6, <2>7, <3>2, ZenonT(60)
      <4>2. \A u \in Workers : task'[u] = <<t>> => task[u] = <<t>>
        BY <2>3, <2>6, <3>2, ZenonT(60)
      <4>3. /\ submit[t] = "ok" /\ ran[t] = 0 /\ submit'[t] = submit[t]
            /\ \A u \in Workers : task[u] = <<t>> => u = v
        BY <1>a, <2>3, <3>2, <4>1, ZenonT(60)
      <4> QED
        BY <2>2, <4>2, <4>3, ZenonT(60)
    <3> QED
      BY <3>1, <3>2
  <2>8. ASSUME NEW t \in Submitters
        PROVE  /\ ran'[t] =< 1 /\ (ran'[t] = 1 => submit'[t] = "ok")
               /\ submit'[t] = "ok" /\ ran'[t] = 0 =>
                    \E v \in Workers : worker'[v] = "idle" /\ task'[v] = <<t>>
    <3>1. CASE t = s
      BY <1>0, <2>2, <2>3, <2>4, <3>1, ZenonT(60) DEF RunInv, AcceptedRuns
    <3>2. CASE t # s
      <4>1. \A v \in Workers : task[v] = <<t>> => task'[v] = <<t>>
        BY <2>2, <2>3, <2>6, ZenonT(60)
      <4> QED
        <5>1. ran'[t] = ran[t] /\ submit'[t] = submit[t]
          BY <2>2, <2>3, <3>2, ZenonT(60)
        <5>2. \A v \in Workers : worker[v] = "idle" /\ task[v] = <<t>>
                                    => worker'[v] = "idle" /\ task'[v] = <<t>>
          BY <2>2, <4>1, ZenonT(60)
        <5> QED
          BY <1>b, <5>1, <5>2, ZenonT(60)
    <3> QED
      BY <3>1, <3>2
  <2> QED
    BY <2>7, <2>8, ZenonT(60) DEF RunInv, AcceptedRuns
<1>3. ASSUME NEW w \in Workers, Receive(w) PROVE RunInv'
  <2>1. /\ submit' = submit /\ task' = [task EXCEPT ![w] = <<>>]
        /\ \A v \in Workers : v # w => worker'[v] = worker[v]
    BY <1>0, <1>3 DEF Receive, Become, calls
  <2>2. \A v \in Workers : task'[v] = IF v = w THEN <<>> ELSE task[v]
    BY <1>0, <2>1, ZenonT(60)
  <2>3. \A t \in Submitters : <<t>> # <<>> /\ <<t>> # <<"nil">>
    BY AntsAssumption
  <2>4. CASE task[w] = <<"nil">>
    <3>1. ran' = ran
      BY <1>3, <2>4 DEF Receive
    <3>2. \A v \in Workers, t \in Submitters :
            /\ task'[v] = <<t>> <=> task[v] = <<t>>
            /\ task[v] = <<t>> => worker'[v] = worker[v]
      BY <2>1, <2>2, <2>3, <2>4, ZenonT(60)
    <3> QED
      <4>1. TasksStay
        BY <2>1, <3>1, <3>2, ZenonT(60) DEF TasksStay
      <4> QED
        BY <1>1, <4>1
  <2>5. CASE task[w] # <<"nil">>
    <3>1. PICK s \in Submitters : task[w] = <<s>> /\ Head(task[w]) = s
      <4>1. PICK e \in Submitters \cup {"nil"} : task[w] = <<e>> /\ Head(task[w]) = e
        BY <1>3, ChannelCases, ZenonT(60) DEF Receive, AntsInv
      <4> QED
        BY <2>5, <4>1, SMTT(60)
    <3>2. ran' = [ran EXCEPT ![s] = @ + 1]
      BY <1>3, <2>5, <3>1 DEF Receive
    <3>3. submit[s] = "ok" /\ ran[s] = 0 /\ \A v \in Workers : task[v] = <<s>> => v = w
      BY <1>0, <3>1, ZenonT(60) DEF RunInv
    <3>4. ran'[s] = 1 /\ \A t \in Submitters : t # s => ran'[t] = ran[t]
      BY <1>0, <3>2, <3>3
    <3>5. \A t \in Submitters : <<t>> = <<s>> => t = s
      OBVIOUS
    <3>6. ASSUME NEW v \in Workers, NEW t \in Submitters, task'[v] = <<t>>
          PROVE  /\ submit'[t] = "ok" /\ ran'[t] = 0
                 /\ \A u \in Workers : task'[u] = <<t>> => u = v
      <4>1. v # w /\ task[v] = <<t>>
        BY <2>2, <2>3, <3>6, ZenonT(60)
      <4>2. t # s
        BY <3>3, <4>1, ZenonT(60)
      <4> QED
        <5>1. \A u \in Workers : task'[u] = <<t>> => task[u] = <<t>>
          BY <2>2, <2>3, ZenonT(60)
        <5> QED
          BY <1>a, <2>1, <3>4, <4>1, <4>2, <5>1, ZenonT(60)
    <3>7. ASSUME NEW t \in Submitters
          PROVE  /\ ran'[t] =< 1 /\ (ran'[t] = 1 => submit'[t] = "ok")
                 /\ submit'[t] = "ok" /\ ran'[t] = 0 =>
                      \E v \in Workers : worker'[v] = "idle" /\ task'[v] = <<t>>
      <4>1. CASE t = s
        BY <2>1, <3>3, <3>4, <4>1
      <4>2. CASE t # s
        <5>1. \A v \in Workers : task[v] = <<t>> => v # w
          BY <3>1, <3>5, <4>2, ZenonT(60)
        <5> QED
          <6>1. ran'[t] = ran[t] /\ submit'[t] = submit[t]
            BY <2>1, <3>4, <4>2, ZenonT(60)
          <6>2. \A v \in Workers : worker[v] = "idle" /\ task[v] = <<t>>
                                      => worker'[v] = "idle" /\ task'[v] = <<t>>
            BY <2>1, <2>2, <5>1, ZenonT(60)
          <6> QED
            BY <1>b, <6>1, <6>2, ZenonT(60)
      <4> QED
        BY <4>1, <4>2, SMTT(60)
    <3> QED
      BY <3>6, <3>7, ZenonT(60) DEF RunInv, AcceptedRuns
  <2> QED
    BY <2>4, <2>5
<1> QED
  BY <1>1, <1>2, <1>3, TaskSteps

\* The pool is closed from the call of Release on, and its queue stays empty once
\* reset was called.
LEMMA EndStep ==
  ASSUME AntsInv, [Next]_vars
  PROVE  CloseInv' /\ (release' \in {"broadcast", "done"} => workers' = <<>>)
<1>0. /\ CloseInv /\ (release \in {"broadcast", "done"} => workers = <<>>)
      /\ release \in {"notCalled", "reset", "broadcast", "done"} /\ closed \in BOOLEAN
  BY ZenonT(60) DEF AntsInv, WorkersEnd, TypeOK
<1>1. ASSUME NEW s \in Submitters, Submitting(s)
      PROVE  UNCHANGED <<closed, release>> /\ (workers = <<>> => UNCHANGED workers)
  BY <1>1, SMTT(60) DEF Submitting, Submit, RetrieveWorker, Block, Woken, SpawnIfOpen, SpawnWorker, SendTask,
              Detach, closing, queue
<1>2. ASSUME NEW w \in Workers, Working(w)
      PROVE  UNCHANGED <<closed, release>> /\ (closed => UNCHANGED workers)
  BY <1>2 DEF Working, Receive, TaskEnds, RevertWorker, InsertWorker, WorkerEnds, closing, queue
<1>3. ASSUME Purge PROVE UNCHANGED <<closed, release>> /\ (closed => UNCHANGED workers)
  BY <1>3 DEF Purge
<1>4. ASSUME EndSignal \/ PurgeCheck \/ PurgeBroadcast \/ \E c \in Tunes : Tune(c)
      PROVE  UNCHANGED <<closed, release, workers>>
  BY <1>4, ZenonT(60) DEF EndSignal, PurgeCheck, PurgeBroadcast, Tune, closing, queue
<1>5. ASSUME Release \/ ReleaseReset \/ ReleaseBroadcast
      PROVE  CloseInv' /\ (release' \in {"broadcast", "done"} => workers' = <<>>)
  BY <1>0, <1>5, ZenonT(60) DEF Release, ReleaseReset, ReleaseBroadcast, CloseInv, queue
<1>6. CASE UNCHANGED vars
  BY <1>0, <1>6 DEF CloseInv, vars, closing, queue
<1>7. ASSUME UNCHANGED <<closed, release>>, closed => UNCHANGED workers
      PROVE  CloseInv' /\ (release' \in {"broadcast", "done"} => workers' = <<>>)
  BY <1>0, <1>7 DEF CloseInv
<1>8. ASSUME UNCHANGED <<closed, release>>, workers = <<>> => UNCHANGED workers
      PROVE  CloseInv' /\ (release' \in {"broadcast", "done"} => workers' = <<>>)
  BY <1>0, <1>8 DEF CloseInv
<1> QED
  BY <1>1, <1>2, <1>3, <1>4, <1>5, <1>6, <1>7, <1>8, ZenonT(60) DEF Next, Progress

\* NewPool starts with an empty queue, no goroutine and no call.
LEMMA AntsInit ==
  ASSUME Init
  PROVE  AntsInv
<1>1. TypeOK
  <2>1. /\ options \in OptionSet /\ (\E n \in Sizes : capacity = IF n =< 0 THEN -1 ELSE n)
        /\ (options.preAlloc => capacity # -1) /\ size = (IF options.preAlloc THEN capacity ELSE 0)
        /\ limit = [s \in Submitters |-> capacity]
    BY ZenonT(60) DEF Init
  <2>2. capacity \in Capacities
    BY <2>1, AntsAssumption DEF Capacities
  <2>3. limit \in [Submitters -> Capacities] /\ options.preAlloc \in BOOLEAN
    BY <2>1, <2>2, AntsAssumption
  <2>4. size \in Nat
    BY <2>1, <2>2, <2>3 DEF Capacities
  <2>5. lock = {} /\ workers = <<>> /\ waiting = <<>> /\ task = [w \in Workers |-> <<>>]
    BY ZenonT(60) DEF Init, Free
  <2>6. lock \in {Free} \cup {{t} : t \in Submitters}
    BY <2>5 DEF Free
  <2>7. workers \in Seq(Workers) /\ waiting \in Seq(Submitters) /\ Len(workers) =< size
    BY <2>4, <2>5
  <2>8. task \in [Workers -> Seq(Submitters \cup {"nil"})] /\ \A w \in Workers : Len(task[w]) =< 1
    BY <2>5
  <2>9. /\ worker = [w \in Workers |-> "off"] /\ submit = [s \in Submitters |-> "new"]
        /\ got = [s \in Submitters |-> NoWorker] /\ signals = 0 /\ tunes = 0
        /\ ran = [s \in Submitters |-> 0]
    BY ZenonT(60) DEF Init
  <2>10. /\ worker \in [Workers -> {"off", "idle", "busy", "revert", "insert", "exit"}]
         /\ submit \in [Submitters -> SubmitSteps] /\ got \in [Submitters -> Workers \cup {NoWorker}]
    BY <2>9 DEF SubmitSteps
  <2>11. signals \in Nat /\ ran \in [Submitters -> Nat] /\ tunes \in 0 .. MaxTunes
    BY <2>9, AntsAssumption
  <2>12. /\ closed \in BOOLEAN /\ purger \in {"wait", "check", "broadcast", "ended"}
         /\ release \in {"notCalled", "reset", "broadcast", "done"}
    BY ZenonT(60) DEF Init
  <2> QED
    BY <2>1, <2>2, <2>3, <2>4, <2>6, <2>7, <2>8, <2>10, <2>11, <2>12, ZenonT(60) DEF TypeOK
<1>2. HoldInv /\ CloseInv
  BY ZenonT(60) DEF Init, HoldInv, CloseInv
<1>3. Range(workers) = {} /\ Range(waiting) = {} /\ IsInjective(workers) /\ IsInjective(waiting)
  BY EmptyElements, ZenonT(60) DEF Init
<1>4. (\A w \in Workers : worker[w] = "off" /\ task[w] = <<>>) /\ \A s \in Submitters : <<s>> # <<>>
  BY ZenonT(60) DEF Init
<1>5. \A s \in Submitters : got[s] = NoWorker /\ submit[s] = "new" /\ ran[s] = 0
  BY DEF Init
<1>6. WaitInv /\ TaskInv
  BY <1>3, <1>4, ZenonT(60) DEF WaitInv, TaskInv
<1>7. OneOwner
  <2>1. \A w \in Workers : ~Owned(w)
    BY <1>3, <1>5, AntsAssumption, SMTT(60) DEF Owned
  <2> QED
    BY <1>3, <1>5, <2>1, ZenonT(60) DEF OneOwner
<1>8. AcceptedRuns
  BY <1>5 DEF AcceptedRuns
<1>9. WorkersEnd
  BY <1>4 DEF WorkersEnd, Init
<1> QED
  BY <1>1, <1>2, <1>6, <1>7, <1>8, <1>9 DEF AntsInv

\* AntsInv is inductive: every step of Submit, of a worker's goroutine, of the
\* scavenger, of Tune and of Release keeps it.
THEOREM AntsInvariant == Spec => []AntsInv
<1>1. Init => AntsInv
  BY AntsInit
<1>2. AntsInv /\ [Next]_vars => AntsInv'
  <2> SUFFICES ASSUME AntsInv, [Next]_vars PROVE AntsInv'
    OBVIOUS
  <2>1. OwnInv' /\ RunInv'
    BY OwnStep, RunStep
  <2>2. TaskInv' /\ OneOwner' /\ AcceptedRuns'
    BY <2>1, ZenonT(60) DEF OwnInv, RunInv, TaskInv
  <2>3. WorkersEnd'
    BY <2>1, EndStep, ZenonT(60) DEF OwnInv, WorkersEnd
  <2> QED
    BY <2>2, <2>3, TypeStep, HoldStep, WaitStep, EndStep, ZenonT(60) DEF AntsInv
<1> QED
  BY <1>1, <1>2, PTL DEF Spec

\* The variables of the pool have their types: no queue of a pre-allocated pool is
\* longer than its size, a capacity is positive or -1, a channel holds one item.
THEOREM AntsTypes == Spec => []TypeOK
<1>1. AntsInv => TypeOK
  BY DEF AntsInv
<1> QED
  BY <1>1, AntsInvariant, PTL

\* A worker of the pool is never in the hands of two calls of Submit, nor in the
\* queue while a call has it, and who has it can send without blocking.
THEOREM WorkerHasOneOwner == Spec => []OneOwner
<1>1. AntsInv => OneOwner
  BY DEF AntsInv
<1> QED
  BY <1>1, AntsInvariant, PTL

\* A task whose Submit returned nil is run once, or waits for the one goroutine
\* that has it in its channel; no other task runs.
THEOREM AcceptedTasksRun == Spec => []AcceptedRuns
<1>1. AntsInv => AcceptedRuns
  BY DEF AntsInv
<1> QED
  BY <1>1, AntsInvariant, PTL

\* A worker's goroutine that waits is in the queue or held by a call, and the queue
\* stays empty after the reset of Release.
THEOREM NoWorkerForgotten == Spec => []WorkersEnd
<1>1. AntsInv => WorkersEnd
  BY DEF AntsInv
<1> QED
  BY <1>1, AntsInvariant, PTL
=============================================================================
