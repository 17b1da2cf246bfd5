----------------------------- MODULE JobSystem -----------------------------
(***************************************************************************)
(* The thread pool of src/MiepMiep/JobSystem.{h,cpp}: a FIFO queue of jobs *)
(* behind m_JobsMutex, worker threads that sleep on m_QueueCv when they    *)
(* find the queue empty, the hand-kept count m_NumThreadsSleeping that     *)
(* decides whether addJob notifies anybody, and stop().                    *)
(*                                                                         *)
(* Every critical section of m_JobsMutex is one action.  The wait inside   *)
(* suspend() gives the mutex up, so it splits the worker's iteration in    *)
(* two: up to the wait, and from the moment the woken thread has the mutex *)
(* back.                                                                   *)
(***************************************************************************)
EXTENDS Naturals, Sequences, FiniteSets, Functions

CONSTANTS
    Workers,        \* m_WorkerThreads
    Jobs,           \* the closures given to addJob, each one once
    MaxSpurious,    \* bound: spurious wake-ups of the condition variable
    MaxStops        \* bound: calls of stop() (~Network, then ~JobSystem)

ASSUME WorkersAssumption == IsFiniteSet(Workers) /\ Workers # {}
ASSUME BoundsAssumption  == MaxSpurious \in Nat /\ MaxStops \in Nat

VARIABLES
    queue,      \* m_GlobalQueue
    closing,    \* m_Closing
    sleeping,   \* m_NumThreadsSleeping
    pc,         \* where each worker thread is
    stopPc,     \* where the thread inside stop() is
    stops,      \* calls of stop() made so far
    spurious,   \* spurious wake-ups so far
    added,      \* history: the jobs passed to addJob, in order
    started,    \* history: the jobs extracted by a worker, in order
    discarded,  \* history: the jobs stop() threw away, in order
    late        \* history: jobs each worker started after m_Closing was set

vars == <<queue, closing, sleeping, pc, stopPc, stops, spurious,
          added, started, discarded, late>>

\* top: about to lock at the top of the loop; waiting: blocked in wait();
\* woken: notified, about to get the mutex back; run: in m_WorkFunc();
\* exited: the thread function returned.
PCs == {"top", "waiting", "woken", "run", "exited"}

At(l) == {w \in Workers : pc[w] = l}

Init ==
    /\ queue = <<>>
    /\ closing = FALSE
    /\ sleeping = 0
    /\ pc = [w \in Workers |-> "top"]
    /\ stopPc = "out"
    /\ stops = 0
    /\ spurious = 0
    /\ added = <<>>
    /\ started = <<>>
    /\ discarded = <<>>
    /\ late = [w \in Workers |-> 0]

\* m_QueueCv.notify_one(): one of the blocked threads, if there is any.
NotifyOne ==
    IF At("waiting") = {}
      THEN pc' = pc
      ELSE \E w \in At("waiting") : pc' = [pc EXCEPT ![w] = "woken"]

\* m_QueueCv.notify_all()
NotifyAll == pc' = [w \in Workers |-> IF pc[w] = "waiting" THEN "woken" ELSE pc[w]]

\* Slips for the runs to catch, named after the operator they replace: here a
\* notification only when the queue was empty.
AddJob_IfEmpty(j) ==
    /\ j \notin Range(added)
    /\ added' = Append(added, j)
    /\ queue' = Append(queue, j)
    /\ IF sleeping > 0 /\ queue = <<>>
         THEN NotifyOne /\ sleeping' = sleeping - 1
         ELSE UNCHANGED <<pc, sleeping>>
    /\ UNCHANGED <<closing, stopPc, stops, spurious, started, discarded, late>>

\* Slip: the notify_one() left out.
AddJob_Silent(j) ==
    /\ j \notin Range(added)
    /\ added' = Append(added, j)
    /\ queue' = Append(queue, j)
    /\ UNCHANGED <<pc, sleeping, closing, stopPc, stops, spurious, started, discarded, late>>

\* addJob(cb), from any thread, before or after stop().
AddJob(j) ==
    /\ j \notin Range(added)
    /\ added' = Append(added, j)
    /\ queue' = Append(queue, j)
    /\ \/ sleeping > 0 /\ NotifyOne /\ sleeping' = sleeping - 1
       \/ sleeping = 0 /\ UNCHANGED <<pc, sleeping>>
    /\ UNCHANGED <<closing, stopPc, stops, spurious, started, discarded, late>>

\* Slip: a stack for a queue.
ExtractJob_Last(w) ==
    /\ queue # <<>>
    /\ queue' = SubSeq(queue, 1, Len(queue) - 1)
    /\ started' = Append(started, queue[Len(queue)])
    /\ late' = IF closing THEN [late EXCEPT ![w] = @ + 1] ELSE late
    /\ pc' = [pc EXCEPT ![w] = "run"]
    /\ UNCHANGED sleeping

\* extractJob() finding a job, and the unlock before the job is executed.
ExtractJob(w) ==
    /\ queue # <<>>
    /\ queue' = Tail(queue)
    /\ started' = Append(started, Head(queue))
    /\ late' = IF closing THEN [late EXCEPT ![w] = @ + 1] ELSE late
    /\ pc' = [pc EXCEPT ![w] = "run"]
    /\ UNCHANGED sleeping

\* suspend(): count oneself as sleeping and block.
Suspend(w) ==
    /\ sleeping' = sleeping + 1
    /\ pc' = [pc EXCEPT ![w] = "waiting"]
    /\ UNCHANGED <<queue, started, late>>

\* Slip: look at m_Closing only when there is nothing to do.
WorkerTop_Drains(w) ==
    /\ pc[w] = "top"
    /\ \/ ExtractJob(w)
       \/ /\ closing /\ queue = <<>>
          /\ pc' = [pc EXCEPT ![w] = "exited"]
          /\ UNCHANGED <<queue, sleeping, started, late>>
       \/ ~closing /\ queue = <<>> /\ Suspend(w)
    /\ UNCHANGED <<closing, stopPc, stops, spurious, added, discarded>>

\* The loop up to the wait: leave when closing, else take a job or block.
WorkerTop(w) ==
    /\ pc[w] = "top"
    /\ \/ /\ closing
          /\ pc' = [pc EXCEPT ![w] = "exited"]
          /\ UNCHANGED <<queue, sleeping, started, late>>
       \/ ~closing /\ ExtractJob(w)
       \/ ~closing /\ queue = <<>> /\ Suspend(w)
    /\ UNCHANGED <<closing, stopPc, stops, spurious, added, discarded>>

\* wait() returns: the second extractJob(), with no second look at m_Closing.
WorkerWoken(w) ==
    /\ pc[w] = "woken"
    /\ \/ ExtractJob(w)
       \/ /\ queue = <<>>
          /\ pc' = [pc EXCEPT ![w] = "top"]
          /\ UNCHANGED <<queue, sleeping, started, late>>
    /\ UNCHANGED <<closing, stopPc, stops, spurious, added, discarded>>

\* m_WorkFunc() returns.
FinishJob(w) ==
    /\ pc[w] = "run"
    /\ pc' = [pc EXCEPT ![w] = "top"]
    /\ UNCHANGED <<queue, closing, sleeping, stopPc, stops, spurious, added, started, discarded, late>>

\* std::condition_variable may wake a thread nobody notified.
SpuriousWakeup(w) ==
    /\ spurious < MaxSpurious
    /\ pc[w] = "waiting"
    /\ spurious' = spurious + 1
    /\ pc' = [pc EXCEPT ![w] = "woken"]
    /\ UNCHANGED <<queue, closing, sleeping, stopPc, stops, added, started, discarded, late>>

\* Slip: notify_one() for notify_all().
StopBegin_NotifiesOne ==
    /\ stopPc = "out"
    /\ stops < MaxStops
    /\ stops' = stops + 1
    /\ closing' = TRUE
    /\ NotifyOne
    /\ stopPc' = "joining"
    /\ UNCHANGED <<queue, sleeping, spurious, added, started, discarded, late>>

\* stop(): the first critical section.
StopBegin ==
    /\ stopPc = "out"
    /\ stops < MaxStops
    /\ stops' = stops + 1
    /\ closing' = TRUE
    /\ NotifyAll
    /\ stopPc' = "joining"
    /\ UNCHANGED <<queue, sleeping, spurious, added, started, discarded, late>>

\* Slip: detach() for join().
StopJoin_Detached ==
    /\ stopPc = "joining"
    /\ stopPc' = "draining"
    /\ UNCHANGED <<queue, closing, sleeping, pc, stops, spurious, added, started, discarded, late>>

\* stop(): m_WorkerThreads.clear() joins every thread.
StopJoin ==
    /\ stopPc = "joining"
    /\ At("exited") = Workers
    /\ stopPc' = "draining"
    /\ UNCHANGED <<queue, closing, sleeping, pc, stops, spurious, added, started, discarded, late>>

\* stop(): the second critical section empties the queue.
StopDrain ==
    /\ stopPc = "draining"
    /\ queue' = <<>>
    /\ discarded' = discarded \o queue
    /\ stopPc' = "out"
    /\ UNCHANGED <<closing, sleeping, pc, stops, spurious, added, started, late>>

Worker(w) == WorkerTop(w) \/ WorkerWoken(w) \/ FinishJob(w)
Stopper   == StopBegin \/ StopJoin \/ StopDrain

Next ==
    \/ \E j \in Jobs : AddJob(j)
    \/ \E w \in Workers : Worker(w) \/ SpuriousWakeup(w)
    \/ Stopper

Spec == Init /\ [][Next]_vars

\* Threads are scheduled, jobs return, and a stop() that began goes on; nobody
\* is obliged to call addJob or stop, or to suffer a spurious wake-up.
Fairness ==
    /\ \A w \in Workers : WF_vars(Worker(w))
    /\ WF_vars(StopJoin \/ StopDrain)

FairSpec == Spec /\ Fairness
----------------------------------------------------------------------------
\* Type correctness of the pool's state.
TypeOK ==
    /\ queue \in Seq(Jobs)
    /\ closing \in BOOLEAN
    /\ sleeping \in Nat
    /\ pc \in [Workers -> PCs]
    /\ stopPc \in {"out", "joining", "draining"}
    /\ stops \in Nat
    /\ spurious \in Nat
    /\ added \in Seq(Jobs)
    /\ started \in Seq(Jobs)
    /\ discarded \in Seq(Jobs)
    /\ late \in [Workers -> Nat]

\* m_NumThreadsSleeping never undercounts the threads blocked in wait(): addJob,
\* which notifies only when the count is positive, never overlooks a sleeper.
SleepersCounted == sleeping >= Cardinality(At("waiting"))

\* While a worker sleeps un-notified, every queued job has an awake worker of
\* its own on the way to the queue (addJob, extractJob and suspend together):
\* no wake-up is lost, and no job waits behind a busy worker while another one
\* sleeps.
WorkConserving ==
    At("waiting") # {} => Len(queue) <= Cardinality(At("top") \cup At("woken"))

\* The jobs extracted, then the jobs stop() discarded, then the jobs still queued
\* are exactly the jobs added, in order: addJob, extractJob and stop() lose,
\* repeat and reorder nothing, and nothing starts once a job was discarded.
JobsInOrder == (started \o discarded) \o queue = added

\* Nobody sleeps once m_Closing is set, so the join in stop() is not waiting for
\* a thread that nobody will notify.
NoSleeperWhenClosing == closing => At("waiting") = {}

\* extractJob is called a second time after the wait without looking at m_Closing
\* again; a worker still starts at most one job after closing began.
AtMostOneLateJob == \A w \in Workers : late[w] <= 1

\* Once the join of the first stop() is over, no worker thread is left and so no
\* job is executing: what a job uses may be destroyed.
StoppedMeansStopped == (stops > 0 /\ stopPc # "joining") => At("exited") = Workers

\* Every job handed to addJob is eventually started, unless stop() is called.
EveryJobStarts == \A j \in Jobs : j \in Range(added) ~> (j \in Range(started) \/ closing)

\* stop() returns.
StopReturns == stopPc # "out" ~> stopPc = "out"
=============================================================================
