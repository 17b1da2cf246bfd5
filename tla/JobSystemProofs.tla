-------------------------- MODULE JobSystemProofs --------------------------
(***************************************************************************)
(* Proofs about the thread pool, for every finite set of workers, every    *)
(* set of jobs and every bound on spurious wake-ups and calls of stop().   *)
(***************************************************************************)
EXTENDS JobSystem, FiniteSetTheorems, SequenceTheorems, TLAPS

\* The awake workers that are on their way to the queue.
Heading == At("top") \cup At("woken")

\* The supporting facts: m_Closing is set exactly from the first stop() on; a worker that started a job after closing
\* is past its second extractJob(); jobs are discarded only when every worker
\* has exited.
ClosingIsStop  == closing <=> stops > 0
StopIsClosing  == stopPc # "out" => closing
DrainAfterJoin == stopPc = "draining" => At("exited") = Workers
ExitOnlyOnClose == At("exited") # {} => closing
LateWorker     == \A w \in Workers : late[w] > 0 => closing /\ pc[w] \notin {"waiting", "woken"}
DiscardAfterJoin == discarded # <<>> => At("exited") = Workers

IInv ==
    /\ TypeOK
    /\ SleepersCounted
    /\ WorkConserving
    /\ JobsInOrder
    /\ NoSleeperWhenClosing
    /\ AtMostOneLateJob
    /\ StoppedMeansStopped
    /\ ClosingIsStop
    /\ StopIsClosing
    /\ DrainAfterJoin
    /\ ExitOnlyOnClose
    /\ LateWorker
    /\ DiscardAfterJoin
----------------------------------------------------------------------------
\* Every set of workers has a cardinality, a natural number.
LEMMA WorkerSets ==
    ASSUME NEW S, S \subseteq Workers
    PROVE  IsFiniteSet(S) /\ Cardinality(S) \in Nat
  BY WorkersAssumption, FS_Subset, FS_CardinalityType

\* Taking a worker out of a set lowers its cardinality by one, putting one in
\* raises it by one.
LEMMA OneWorkerLess ==
    ASSUME NEW S, S \subseteq Workers, NEW w \in S
    PROVE  Cardinality(S \ {w}) = Cardinality(S) - 1
  BY WorkerSets, FS_RemoveElement

LEMMA OneWorkerMore ==
    ASSUME NEW S, S \subseteq Workers, NEW w \in Workers \ S
    PROVE  Cardinality(S \cup {w}) = Cardinality(S) + 1
  BY WorkerSets, FS_AddElement

\* Type correctness is inductive.
LEMMA TypeInit == Init => TypeOK
  <1> SUFFICES ASSUME Init PROVE TypeOK
    OBVIOUS
  <1>1. queue \in Seq(Jobs) /\ added \in Seq(Jobs) /\ started \in Seq(Jobs) /\ discarded \in Seq(Jobs)
    BY EmptySeq DEF Init
  <1>2. pc \in [Workers -> PCs] /\ late \in [Workers -> Nat]
    BY DEF Init, PCs
  <1> QED
    BY Zenon, <1>1, <1>2 DEF Init, TypeOK

LEMMA TypeStep == TypeOK /\ [Next]_vars => TypeOK'
  <1> SUFFICES ASSUME TypeOK, [Next]_vars PROVE TypeOK'
    OBVIOUS
  <1>1. ASSUME NEW j \in Jobs, AddJob(j) PROVE TypeOK'
    <2>1. queue' \in Seq(Jobs) /\ added' \in Seq(Jobs)
      BY <1>1, AppendProperties DEF TypeOK, AddJob
    <2>2. pc' \in [Workers -> PCs]
      BY Zenon, <1>1 DEF TypeOK, AddJob, NotifyOne, PCs, At
    <2>3. sleeping' \in Nat
      BY <1>1 DEF TypeOK, AddJob
    <2> QED
      BY <1>1, <2>1, <2>2, <2>3 DEF TypeOK, AddJob
  <1>a. ASSUME NEW w \in Workers, ExtractJob(w),
               UNCHANGED <<closing, stopPc, stops, spurious, added, discarded>>
        PROVE  TypeOK'
    <2>1. queue' \in Seq(Jobs) /\ started' \in Seq(Jobs)
      BY <1>a, HeadTailProperties, AppendProperties DEF TypeOK, ExtractJob
    <2>2. pc' \in [Workers -> PCs] /\ late' \in [Workers -> Nat]
      BY <1>a DEF TypeOK, ExtractJob, PCs
    <2> QED
      BY <1>a, <2>1, <2>2 DEF TypeOK, ExtractJob
  <1>2. ASSUME NEW w \in Workers, WorkerTop(w) PROVE TypeOK'
    <2>1. CASE ExtractJob(w)
      BY <1>2, <1>a, <2>1 DEF WorkerTop
    <2>2. CASE Suspend(w)
      BY <1>2, <2>2 DEF TypeOK, WorkerTop, Suspend, PCs
    <2>3. CASE closing
      BY Zenon, <1>2, <2>3 DEF TypeOK, WorkerTop, PCs
    <2> QED
      BY <1>2, <2>1, <2>2, <2>3 DEF WorkerTop
  <1>3. ASSUME NEW w \in Workers, WorkerWoken(w) PROVE TypeOK'
    <2>1. CASE ExtractJob(w)
      BY <1>3, <1>a, <2>1 DEF WorkerWoken
    <2>2. CASE ~ExtractJob(w)
      BY Zenon, <1>3, <2>2 DEF TypeOK, WorkerWoken, PCs
    <2> QED
      BY <2>1, <2>2
  <1>4. ASSUME NEW w \in Workers, FinishJob(w) PROVE TypeOK'
    BY <1>4 DEF TypeOK, FinishJob, PCs
  <1>5. ASSUME NEW w \in Workers, SpuriousWakeup(w) PROVE TypeOK'
    BY <1>5 DEF TypeOK, SpuriousWakeup, PCs
  <1>6. CASE StopBegin
    BY <1>6 DEF TypeOK, StopBegin, NotifyAll, PCs
  <1>7. CASE StopJoin
    BY <1>7 DEF TypeOK, StopJoin
  <1>8. CASE StopDrain
    <2>1. queue' \in Seq(Jobs) /\ discarded' \in Seq(Jobs)
      BY <1>8, EmptySeq, ConcatProperties DEF TypeOK, StopDrain
    <2> QED
      BY <1>8, <2>1 DEF TypeOK, StopDrain
  <1>9. CASE UNCHANGED vars
    BY <1>9 DEF TypeOK, vars
  <1> QED
    BY <1>1, <1>2, <1>3, <1>4, <1>5, <1>6, <1>7, <1>8, <1>9 DEF Next, Worker, Stopper
----------------------------------------------------------------------------
\* How the sets of sleeping and of heading workers move: a worker that is
\* notified (or wakes by itself) goes from the first to the second, ...
LEMMA WakeMoves ==
    ASSUME TypeOK, NEW w \in Workers, pc[w] = "waiting",
           pc' = [pc EXCEPT ![w] = "woken"]
    PROVE  /\ Cardinality(At("waiting")') = Cardinality(At("waiting")) - 1
           /\ Cardinality(Heading') = Cardinality(Heading) + 1
  <1>1. At("waiting")' = At("waiting") \ {w} /\ w \in At("waiting")
    BY DEF At, TypeOK
  <1>2. Heading' = Heading \cup {w} /\ w \notin Heading
    BY DEF At, TypeOK, Heading
  <1>3. At("waiting") \subseteq Workers /\ Heading \subseteq Workers
    BY DEF At, Heading
  <1> QED
    BY <1>1, <1>2, <1>3, OneWorkerLess, OneWorkerMore

\* ... and one that extracts a job leaves the second.
LEMMA ExtractMoves ==
    ASSUME TypeOK, NEW w \in Workers, pc[w] \in {"top", "woken"},
           pc' = [pc EXCEPT ![w] = "run"]
    PROVE  /\ At("waiting")' = At("waiting")
           /\ Cardinality(Heading') = Cardinality(Heading) - 1
  <1>1. Heading' = Heading \ {w} /\ w \in Heading
    BY DEF At, TypeOK, Heading
  <1>2. At("waiting")' = At("waiting") /\ Heading \subseteq Workers
    BY DEF At, TypeOK, Heading
  <1> QED
    BY <1>1, <1>2, OneWorkerLess

\* The count of sleepers is right and no wake-up is lost: one step per action.
LEMMA CountStep ==
    ASSUME IInv, [Next]_vars
    PROVE  SleepersCounted' /\ WorkConserving'
  <1> DEFINE Sl == At("waiting")
  <1> USE DEF SleepersCounted, WorkConserving
  <1>0. /\ TypeOK /\ TypeOK'
        /\ sleeping >= Cardinality(Sl)
        /\ Sl # {} => Len(queue) <= Cardinality(Heading)
        /\ Len(queue) \in Nat /\ Len(queue') \in Nat
        /\ sleeping \in Nat /\ sleeping' \in Nat
    BY Zenon, TypeStep, LenProperties DEF IInv, TypeOK, Heading
  <1>c. /\ Cardinality(Sl) \in Nat /\ Cardinality(Heading) \in Nat
        /\ Cardinality(Sl') \in Nat /\ Cardinality(Heading') \in Nat
        /\ Cardinality({}) = 0
        /\ Sl = {} <=> Cardinality(Sl) = 0
    <2>1. Sl \subseteq Workers /\ Heading \subseteq Workers /\ Sl' \subseteq Workers /\ Heading' \subseteq Workers
      BY DEF At, Heading
    <2> QED
      BY <2>1, WorkerSets, FS_EmptySet
  <1>g. SUFFICES /\ sleeping' >= Cardinality(Sl')
                 /\ Sl' # {} => Len(queue') <= Cardinality(Heading')
    BY DEF Heading
  <1>1. ASSUME NEW j \in Jobs, AddJob(j) PROVE <1>g!1
    <2>1. Len(queue') = Len(queue) + 1
      BY <1>0, <1>1, AppendProperties DEF AddJob, TypeOK
    <2>2. CASE Sl = {}
      <3>1. Sl' = {}
        BY <1>1, <2>2 DEF AddJob, NotifyOne, At
      <3>2. Cardinality(Sl') = 0
        BY <1>c, <3>1
      <3> QED
        BY <1>0, <3>1, <3>2
    <2>3. CASE Sl # {}
      <3>1. sleeping > 0 /\ sleeping' = sleeping - 1
        BY <1>0, <1>1, <1>c, <2>3 DEF AddJob, TypeOK
      <3>2. PICK w \in Sl : pc' = [pc EXCEPT ![w] = "woken"]
        BY <1>1, <2>3, <3>1 DEF AddJob, NotifyOne
      <3>3. /\ Cardinality(Sl') = Cardinality(Sl) - 1
            /\ Cardinality(Heading') = Cardinality(Heading) + 1
        BY Zenon, <1>0, <3>2, WakeMoves DEF At
      <3> QED
        BY <1>0, <1>c, <2>1, <2>3, <3>1, <3>3
    <2> QED
      BY <2>2, <2>3
  <1>a. ASSUME NEW w \in Workers, pc[w] \in {"top", "woken"}, ExtractJob(w)
        PROVE  <1>g!1
    <2>1. Len(queue') = Len(queue) - 1 /\ sleeping' = sleeping
      BY <1>0, <1>a, HeadTailProperties DEF ExtractJob, TypeOK
    <2>2. Sl' = Sl /\ Cardinality(Heading') = Cardinality(Heading) - 1
      BY Zenon, <1>0, <1>a, ExtractMoves DEF ExtractJob
    <2> QED
      BY <1>0, <1>c, <2>1, <2>2
  <1>2. ASSUME NEW w \in Workers, WorkerTop(w) PROVE <1>g!1
    <2>1. CASE ExtractJob(w)
      BY <1>2, <1>a, <2>1 DEF WorkerTop
    <2>2. CASE queue = <<>> /\ Suspend(w)
      <3>1. Sl' = Sl \cup {w} /\ w \notin Sl /\ Sl \subseteq Workers
        BY <1>0, <1>2, <2>2 DEF WorkerTop, Suspend, At, TypeOK
      <3>2. Cardinality(Sl') = Cardinality(Sl) + 1
        BY <3>1, OneWorkerMore
      <3>3. sleeping' = sleeping + 1 /\ Len(queue') = 0
        BY <2>2, EmptySeq DEF Suspend
      <3> QED
        BY <1>0, <1>c, <3>2, <3>3 DEF TypeOK
    <2>3. CASE closing
      <3>1. Sl = {} /\ Sl' = {}
        BY <1>0, <1>2, <2>3 DEF IInv, NoSleeperWhenClosing, WorkerTop, At, TypeOK
      <3> QED
        BY Zenon, <1>0, <1>2, <1>c, <2>3, <3>1 DEF WorkerTop, TypeOK
    <2> QED
      BY <1>2, <2>1, <2>2, <2>3 DEF WorkerTop
  <1>3. ASSUME NEW w \in Workers, WorkerWoken(w) PROVE <1>g!1
    <2>1. CASE ExtractJob(w)
      BY <1>3, <1>a, <2>1 DEF WorkerWoken
    <2>2. CASE ~ExtractJob(w)
      <3>1. Sl' = Sl /\ Heading' = Heading
        BY <1>0, <1>3, <2>2 DEF WorkerWoken, At, Heading, TypeOK
      <3> QED
        BY <1>0, <1>3, <2>2, <3>1 DEF WorkerWoken
    <2> QED
      BY <2>1, <2>2
  <1>4. ASSUME NEW w \in Workers, FinishJob(w) PROVE <1>g!1
    <2>1. Sl' = Sl /\ Heading' = Heading \cup {w} /\ w \notin Heading /\ Heading \subseteq Workers
      BY <1>0, <1>4 DEF FinishJob, At, Heading, TypeOK
    <2>2. Cardinality(Heading') = Cardinality(Heading) + 1
      BY <2>1, OneWorkerMore
    <2> QED
      BY <1>0, <1>4, <1>c, <2>1, <2>2 DEF FinishJob
  <1>5. ASSUME NEW w \in Workers, SpuriousWakeup(w) PROVE <1>g!1
    <2>1. /\ Cardinality(Sl') = Cardinality(Sl) - 1
          /\ Cardinality(Heading') = Cardinality(Heading) + 1
          /\ Sl # {}
      BY Zenon, <1>0, <1>5, WakeMoves DEF SpuriousWakeup, At
    <2> QED
      BY <1>0, <1>5, <1>c, <2>1 DEF SpuriousWakeup, TypeOK
  <1>6. CASE StopBegin
    <2>1. Sl' = {}
      BY <1>6 DEF StopBegin, NotifyAll, At
    <2>2. Cardinality(Sl') = 0
      BY <1>c, <2>1
    <2> QED
      BY <1>0, <1>c, <2>1, <2>2
  <1>7. CASE StopJoin
    BY <1>0, <1>7 DEF StopJoin, At, Heading
  <1>8. CASE StopDrain
    <2>1. Len(queue') = 0 /\ Sl' = Sl /\ sleeping' = sleeping
      BY <1>8, EmptySeq DEF StopDrain, At
    <2> QED
      BY <1>0, <1>c, <2>1
  <1>9. CASE UNCHANGED vars
    BY <1>0, <1>9 DEF vars, At, Heading
  <1> QED
    BY <1>1, <1>2, <1>3, <1>4, <1>5, <1>6, <1>7, <1>8, <1>9 DEF Next, Worker, Stopper

\* Nothing is lost, repeated or reordered between addJob, extractJob and stop().
LEMMA MoveHead ==
    ASSUME NEW S, NEW s \in Seq(S), NEW q \in Seq(S), q # <<>>
    PROVE  Append(s, Head(q)) \o Tail(q) = s \o q
  <1>1. /\ Head(q) \in S /\ Tail(q) \in Seq(S) /\ Len(q) \in Nat \ {0}
    BY HeadTailProperties, EmptySeq
  <1>2. Tail(q) = SubSeq(q, 2, Len(q))
    BY TailIsSubSeq
  <1>3. SubSeq(q, 1, Len(q)) = <<q[1]>> \o SubSeq(q, 1 + 1, Len(q))
    BY <1>1, SubSeqRecursiveFirst
  <1>4. q = <<Head(q)>> \o Tail(q)
    BY <1>2, <1>3, SubSeqFull
  <1>5. Append(s, Head(q)) = s \o <<Head(q)>>
    BY <1>1, AppendIsConcat
  <1>6. (s \o <<Head(q)>>) \o Tail(q) = s \o (<<Head(q)>> \o Tail(q))
    <2> DEFINE h == <<Head(q)>>  t == Tail(q)
    <2>1. h \in Seq(S) /\ t \in Seq(S)
      BY <1>1
    <2> HIDE DEF h, t
    <2>2. (s \o h) \o t = s \o (h \o t)
      BY SMTT(30), <2>1, ConcatAssociative
    <2> QED
      BY <2>2 DEF h, t
  <1> QED
    BY <1>4, <1>5, <1>6

LEMMA OrderStep ==
    ASSUME IInv, [Next]_vars
    PROVE  JobsInOrder'
  <1>0. /\ queue \in Seq(Jobs) /\ added \in Seq(Jobs)
        /\ started \in Seq(Jobs) /\ discarded \in Seq(Jobs)
        /\ started \o discarded \in Seq(Jobs)
    BY ConcatProperties DEF IInv, TypeOK
  <1>e. (started \o discarded) \o queue = added
    BY DEF IInv, JobsInOrder
  <1>x. \A s, t, u \in Seq(Jobs) : (s \o t) \o u = s \o (t \o u)
    BY SMTT(30), ConcatAssociative
  <1>1. ASSUME NEW j \in Jobs, AddJob(j) PROVE JobsInOrder'
    <2>1. Append(queue, j) = queue \o <<j>> /\ Append(added, j) = added \o <<j>> /\ <<j>> \in Seq(Jobs)
      BY <1>0, AppendIsConcat
    <2>2. (started \o discarded) \o (queue \o <<j>>) = ((started \o discarded) \o queue) \o <<j>>
      <3> DEFINE sd == started \o discarded  l == <<j>>
      <3>1. sd \in Seq(Jobs) /\ l \in Seq(Jobs)
        BY <1>0, <2>1
      <3> HIDE DEF sd, l
      <3>2. queue \in Seq(Jobs)
        BY <1>0
      <3>3. (sd \o queue) \o l = sd \o (queue \o l)
        BY <3>1, <3>2, ConcatAssociative
      <3> QED
        BY <3>3 DEF sd, l
    <2> QED
      BY Zenon, <1>e, <1>1, <2>1, <2>2 DEF AddJob, JobsInOrder
  <1>2. ASSUME NEW w \in Workers, pc[w] # "exited", ExtractJob(w), UNCHANGED <<added, discarded>>
        PROVE  JobsInOrder'
    <2>1. discarded = <<>>
      BY <1>2 DEF IInv, DiscardAfterJoin, At
    <2>2. started' \in Seq(Jobs)
      BY <1>0, <1>2, HeadTailProperties, AppendProperties DEF ExtractJob
    <2>3. started \o discarded = started /\ started' \o discarded' = started'
      BY <1>0, <1>2, <2>1, <2>2, ConcatEmptySeq
    <2>4. Append(started, Head(queue)) \o Tail(queue) = started \o queue
      BY Zenon, <1>0, <1>2, MoveHead DEF ExtractJob
    <2> QED
      BY Zenon, <1>e, <1>2, <2>3, <2>4 DEF ExtractJob, JobsInOrder
  <1>3. CASE StopDrain
    <2>1. (started \o discarded) \o queue = started \o (discarded \o queue)
      BY Zenon, <1>0, <1>x
    <2>2. (started \o (discarded \o queue)) \o <<>> = started \o (discarded \o queue)
      BY <1>0, ConcatProperties, ConcatEmptySeq
    <2> QED
      BY <1>e, <1>3, <2>1, <2>2 DEF StopDrain, JobsInOrder
  <1>4. CASE UNCHANGED <<queue, added, started, discarded>>
    BY <1>e, <1>4 DEF JobsInOrder
  <1>5. ASSUME NEW w \in Workers, WorkerTop(w) \/ WorkerWoken(w) PROVE JobsInOrder'
    BY <1>2, <1>4, <1>5 DEF WorkerTop, WorkerWoken, Suspend
  <1>6. ASSUME NEW w \in Workers, FinishJob(w) \/ SpuriousWakeup(w) PROVE JobsInOrder'
    BY <1>4, <1>6 DEF FinishJob, SpuriousWakeup
  <1>7. CASE StopBegin \/ StopJoin \/ UNCHANGED vars
    BY <1>4, <1>7 DEF StopBegin, StopJoin, vars
  <1> QED
    BY <1>1, <1>3, <1>5, <1>6, <1>7 DEF Next, Worker, Stopper

\* The facts about closing, joining and late jobs.
Control ==
    /\ NoSleeperWhenClosing
    /\ AtMostOneLateJob
    /\ StoppedMeansStopped
    /\ ClosingIsStop
    /\ StopIsClosing
    /\ DrainAfterJoin
    /\ ExitOnlyOnClose
    /\ LateWorker
    /\ DiscardAfterJoin

LEMMA ControlStep ==
    ASSUME IInv, [Next]_vars
    PROVE  Control'
  <1> USE DEF Control, NoSleeperWhenClosing, AtMostOneLateJob, StoppedMeansStopped, ClosingIsStop,
              StopIsClosing, DrainAfterJoin, ExitOnlyOnClose, LateWorker, DiscardAfterJoin, At
  <1>0. TypeOK /\ Control
    BY DEF IInv
  <1>1. ASSUME NEW j \in Jobs, AddJob(j) PROVE Control'
    <2>1. \A w \in Workers : pc'[w] # pc[w] => pc[w] = "waiting" /\ pc'[w] = "woken"
      BY <1>0, <1>1 DEF AddJob, NotifyOne, TypeOK
    <2> QED
      BY Zenon, <1>0, <1>1, <2>1, WorkersAssumption DEF AddJob, TypeOK
  <1>2. ASSUME NEW w \in Workers, pc[w] \in {"top", "woken"}, closing => pc[w] = "woken",
               ExtractJob(w), UNCHANGED <<closing, stopPc, stops, discarded>>
        PROVE  Control'
    BY <1>0, <1>2 DEF ExtractJob, TypeOK
  <1>3. ASSUME NEW w \in Workers, WorkerTop(w) PROVE Control'
    <2>1. CASE ~closing /\ ExtractJob(w)
      BY <1>2, <1>3, <2>1 DEF WorkerTop
    <2>2. CASE ~closing /\ Suspend(w)
      BY <1>0, <1>3, <2>2 DEF WorkerTop, Suspend, TypeOK
    <2>3. CASE closing
      BY <1>0, <1>3, <2>3 DEF WorkerTop, TypeOK
    <2> QED
      BY <1>3, <2>1, <2>2, <2>3 DEF WorkerTop
  <1>4. ASSUME NEW w \in Workers, WorkerWoken(w) PROVE Control'
    <2>1. CASE ExtractJob(w)
      BY <1>2, <1>4, <2>1 DEF WorkerWoken
    <2>2. CASE ~ExtractJob(w)
      BY <1>0, <1>4, <2>2 DEF WorkerWoken, TypeOK
    <2> QED
      BY <2>1, <2>2
  <1>5. ASSUME NEW w \in Workers, FinishJob(w) PROVE Control'
    BY <1>0, <1>5 DEF FinishJob, TypeOK
  <1>6. ASSUME NEW w \in Workers, SpuriousWakeup(w) PROVE Control'
    BY <1>0, <1>6 DEF SpuriousWakeup, TypeOK
  <1>7. CASE StopBegin
    BY <1>0, <1>7 DEF StopBegin, NotifyAll, TypeOK
  <1>8. CASE StopJoin
    BY <1>0, <1>8 DEF StopJoin, TypeOK
  <1>9. CASE StopDrain
    BY <1>0, <1>9 DEF StopDrain, TypeOK
  <1>10. CASE UNCHANGED vars
    BY <1>0, <1>10 DEF vars
  <1> QED
    BY Zenon, <1>1, <1>3, <1>4, <1>5, <1>6, <1>7, <1>8, <1>9, <1>10 DEF Next, Worker, Stopper
----------------------------------------------------------------------------
\* The inductive invariant holds in every behaviour of the pool.
THEOREM Invariant == Spec => []IInv
  <1>1. Init => IInv
    <2> SUFFICES ASSUME Init PROVE IInv
      OBVIOUS
    <2>1. TypeOK
      BY TypeInit
    <2>2. At("waiting") = {} /\ At("exited") = {} /\ Cardinality(At("waiting")) = 0
      BY FS_EmptySet DEF Init, At
    <2>3. JobsInOrder
      BY EmptySeq, ConcatEmptySeq DEF Init, JobsInOrder
    <2> QED
      BY <2>1, <2>2, <2>3
      DEF Init, IInv, SleepersCounted, WorkConserving, NoSleeperWhenClosing, AtMostOneLateJob,
          StoppedMeansStopped, ClosingIsStop, StopIsClosing, DrainAfterJoin, ExitOnlyOnClose,
          LateWorker, DiscardAfterJoin
  <1>2. IInv /\ [Next]_vars => IInv'
    <2> SUFFICES ASSUME IInv, [Next]_vars PROVE IInv'
      OBVIOUS
    <2>1. TypeOK'
      BY TypeStep DEF IInv
    <2>2. SleepersCounted' /\ WorkConserving' /\ JobsInOrder' /\ Control'
      BY CountStep, OrderStep, ControlStep
    <2> QED
      BY <2>1, <2>2 DEF IInv, Control
  <1> QED
    BY <1>1, <1>2, PTL DEF Spec

\* m_NumThreadsSleeping never undercounts the sleepers, so addJob's test of it
\* never leaves a job to a pool in which everybody sleeps.
THEOREM NoLostWakeup == Spec => [](SleepersCounted /\ WorkConserving)
  BY Invariant, PTL DEF IInv

\* Jobs start in the order of addJob; none is lost, repeated, or started after
\* stop() discarded one.
THEOREM FifoJobs == Spec => []JobsInOrder
  BY Invariant, PTL DEF IInv

\* When stop() has joined its threads nothing runs any more, and until then nobody
\* sleeps through the closing.
THEOREM CleanStop == Spec => [](StoppedMeansStopped /\ NoSleeperWhenClosing)
  BY Invariant, PTL DEF IInv

\* Though extractJob is called after the wait without a look at m_Closing, each worker starts
\* at most one job once stop() has begun.
THEOREM FewLateJobs == Spec => []AtMostOneLateJob
  BY Invariant, PTL DEF IInv
=============================================================================
