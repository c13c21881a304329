--------------------------- MODULE EngineDispatcher ---------------------------
(***************************************************************************)
(* The thread pool of src/EngineDispatcher.cpp: enqueue, workerLoop and    *)
(* shutdown.  Callers push sessions on queue_ and then release one permit  *)
(* of queueSem_; a worker takes a permit and then pops.  What a worker     *)
(* does with its session (runSession) is in DispatcherSession: here it     *)
(* takes some time and ends.                                               *)
(*                                                                         *)
(* running_ and shuttingDown_ are atomics, queueMu_ guards queue_ alone,   *)
(* and the semaphore is its own: each access is a step.  Each session is   *)
(* enqueued once, by a thread of its own.  The semaphore's limit of 10000  *)
(* is not reached.                                                         *)
(***************************************************************************)
EXTENDS Naturals, Sequences, FiniteSets

CONSTANTS
    Worker,        \* workers_
    Session,       \* the sessions that callers enqueue
    NoSession      \* a worker that has none

ASSUME WorkerAssumption == IsFiniteSet(Worker)
ASSUME SessionAssumption == IsFiniteSet(Session) /\ NoSession \notin Session

VARIABLES
    queue,         \* queue_
    permits,       \* the count of queueSem_
    running,       \* running_
    shuttingDown,  \* shuttingDown_
    stopper,       \* where shutdown(), and the destructor that calls it, is
    toWake,        \* permits shutdown() has still to release
    caller,        \* session -> where the thread that enqueues it is
    worker,        \* worker -> where its loop is
    current,       \* worker -> the session it runs
    served         \* the sessions that have been run

poolVars ==
    <<queue, permits, running, shuttingDown, stopper, toWake, caller, worker, current, served>>

CallerAt == {"new", "accepted", "pushed", "returned", "rejected"}
\* A "lost" worker has used the freed memory of queue_: nothing is known of it.
WorkerAt == {"top", "acquire", "check", "pop", "run", "exited", "lost"}
StopperAt == {"none", "store", "wake", "returned", "destroyed", "joined"}

\* The members declared after workers_ have been destroyed.
Destroyed == stopper \in {"destroyed", "joined"}

CallerGoto(s, label) == caller' = [caller EXCEPT ![s] = label]
WorkerGoto(w, label) == worker' = [worker EXCEPT ![w] = label]

-----------------------------------------------------------------------------
(* enqueue.                                                                *)

\* The flags are read one after the other; shuttingDown_ is set before running_
\* is cleared, so the read of shuttingDown_ decides.
CheckOpen(s) ==
    /\ caller[s] = "new" /\ ~Destroyed
    /\ CallerGoto(s, IF ~running \/ shuttingDown THEN "rejected" ELSE "accepted")
    /\ UNCHANGED <<queue, permits, running, shuttingDown, stopper, toWake, worker, current, served>>

Push(s) ==
    /\ caller[s] = "accepted"
    /\ queue' = Append(queue, s)
    /\ CallerGoto(s, "pushed")
    /\ UNCHANGED <<permits, running, shuttingDown, stopper, toWake, worker, current, served>>

\* Mutant: a caller that finds others in the queue relies on their permits.
BugReleasePermit(s) ==
    /\ caller[s] = "pushed"
    /\ permits' = IF Len(queue) > 1 THEN permits ELSE permits + 1
    /\ CallerGoto(s, "returned")
    /\ UNCHANGED <<queue, running, shuttingDown, stopper, toWake, worker, current, served>>

\* Another caller's permit may have let a worker take s already.
ReleasePermit(s) ==
    /\ caller[s] = "pushed"
    /\ permits' = permits + 1
    /\ CallerGoto(s, "returned")
    /\ UNCHANGED <<queue, running, shuttingDown, stopper, toWake, worker, current, served>>

-----------------------------------------------------------------------------
(* workerLoop.                                                             *)

LoopTest(w) ==
    /\ worker[w] = "top"
    /\ WorkerGoto(w, IF running THEN "acquire" ELSE "exited")
    /\ UNCHANGED <<queue, permits, running, shuttingDown, stopper, toWake, caller, current, served>>

AcquirePermit(w) ==
    /\ worker[w] = "acquire"
    /\ permits > 0
    /\ permits' = permits - 1
    /\ WorkerGoto(w, "check")
    /\ UNCHANGED <<queue, running, shuttingDown, stopper, toWake, caller, current, served>>

CheckRunning(w) ==
    /\ worker[w] = "check"
    /\ WorkerGoto(w, IF running THEN "pop" ELSE "exited")
    /\ UNCHANGED <<queue, permits, running, shuttingDown, stopper, toWake, caller, current, served>>

\* Mutant: front() without pop().
BugPop(w) ==
    /\ worker[w] = "pop" /\ ~Destroyed
    /\ IF queue = <<>> THEN WorkerGoto(w, "top") /\ UNCHANGED <<queue, current>>
       ELSE /\ current' = [current EXCEPT ![w] = Head(queue)]
            /\ WorkerGoto(w, "run")
            /\ UNCHANGED queue
    /\ UNCHANGED <<permits, running, shuttingDown, stopper, toWake, caller, served>>

Pop(w) ==
    /\ worker[w] = "pop" /\ ~Destroyed
    /\ IF queue = <<>> THEN WorkerGoto(w, "top") /\ UNCHANGED <<queue, current>>
       ELSE /\ queue' = Tail(queue)
            /\ current' = [current EXCEPT ![w] = Head(queue)]
            /\ WorkerGoto(w, "run")
    /\ UNCHANGED <<permits, running, shuttingDown, stopper, toWake, caller, served>>

\* The destroyed deque still says whether it was empty; its elements are freed.
PopDestroyed(w) ==
    /\ worker[w] = "pop" /\ stopper = "destroyed"
    /\ WorkerGoto(w, IF queue = <<>> THEN "top" ELSE "lost")
    /\ UNCHANGED <<queue, permits, running, shuttingDown, stopper, toWake, caller, current, served>>

RunSession(w) ==
    /\ worker[w] = "run"
    /\ served' = served \cup {current[w]}
    /\ current' = [current EXCEPT ![w] = NoSession]
    /\ WorkerGoto(w, "top")
    /\ UNCHANGED <<queue, permits, running, shuttingDown, stopper, toWake, caller>>

-----------------------------------------------------------------------------
(* shutdown and the destructor.                                            *)

\* A second call finds shuttingDown_ set and returns at once.
BeginShutdown ==
    /\ stopper = "none"
    /\ shuttingDown' = TRUE
    /\ stopper' = "store"
    /\ UNCHANGED <<queue, permits, running, toWake, caller, worker, current, served>>

\* Mutant: one permit is enough to wake the pool.
BugStopRunning ==
    /\ stopper = "store"
    /\ running' = FALSE
    /\ toWake' = 1
    /\ stopper' = "wake"
    /\ UNCHANGED <<queue, permits, shuttingDown, caller, worker, current, served>>

StopRunning ==
    /\ stopper = "store"
    /\ running' = FALSE
    /\ toWake' = Cardinality(Worker)
    /\ stopper' = "wake"
    /\ UNCHANGED <<queue, permits, shuttingDown, caller, worker, current, served>>

WakeWorkers ==
    /\ stopper = "wake"
    /\ IF toWake = 0 THEN stopper' = "returned" /\ UNCHANGED <<permits, toWake>>
       ELSE permits' = permits + 1 /\ toWake' = toWake - 1 /\ UNCHANGED stopper
    /\ UNCHANGED <<queue, running, shuttingDown, caller, worker, current, served>>

\* The destructor's body has returned.  The members die in the reverse order of
\* their declaration: flags, semaphore, mutex and queue_, with the sessions in it,
\* before workers_.  The flags and the semaphore keep their values, having no
\* destructor to run; `queue` is then what the dead object's memory still says.
\* Nobody calls enqueue on an object that is being destroyed.
DestroyMembers ==
    /\ stopper = "returned"
    /\ \A s \in Session : caller[s] \notin {"accepted", "pushed"}
    /\ stopper' = "destroyed"
    /\ UNCHANGED <<queue, permits, running, shuttingDown, toWake, caller, worker, current, served>>

\* ~vector<jthread> joins each worker.
JoinWorkers ==
    /\ stopper = "destroyed"
    /\ \A w \in Worker : worker[w] = "exited"
    /\ queue' = <<>>
    /\ stopper' = "joined"
    /\ UNCHANGED <<permits, running, shuttingDown, toWake, caller, worker, current, served>>

-----------------------------------------------------------------------------
PoolInit ==
    /\ queue = <<>> /\ permits = 0 /\ toWake = 0
    /\ running = TRUE /\ shuttingDown = FALSE
    /\ stopper = "none"
    /\ caller = [s \in Session |-> "new"]
    /\ worker = [w \in Worker |-> "top"]
    /\ current = [w \in Worker |-> NoSession]
    /\ served = {}

Caller(s) == Push(s) \/ ReleasePermit(s)
WorkerStep(w) ==
    \/ LoopTest(w) \/ AcquirePermit(w) \/ CheckRunning(w)
    \/ Pop(w) \/ PopDestroyed(w) \/ RunSession(w)
Stopper == StopRunning \/ WakeWorkers \/ DestroyMembers \/ JoinWorkers

PoolNext ==
    \/ \E s \in Session : CheckOpen(s) \/ Caller(s)
    \/ \E w \in Worker : WorkerStep(w)
    \/ BeginShutdown \/ Stopper

PoolSpec == PoolInit /\ [][PoolNext]_poolVars

\* Threads that have started something go on, and sessions end.  Nothing is
\* assumed of which of several workers a permit goes to.
PoolFairness ==
    /\ \A s \in Session : WF_poolVars(Caller(s))
    /\ \A w \in Worker : WF_poolVars(WorkerStep(w))
    /\ WF_poolVars(Stopper)

FairPoolSpec == PoolSpec /\ PoolFairness

-----------------------------------------------------------------------------
(* Properties.                                                             *)

\* Every variable has its type; no permit is taken that was not released.
PoolTypeOK ==
    /\ queue \in Seq(Session)
    /\ permits \in Nat /\ toWake \in Nat
    /\ running \in BOOLEAN /\ shuttingDown \in BOOLEAN
    /\ stopper \in StopperAt
    /\ caller \in [Session -> CallerAt]
    /\ worker \in [Worker -> WorkerAt]
    /\ current \in [Worker -> Session \cup {NoSession}]
    /\ served \subseteq Session

Owing == {s \in Session : caller[s] = "pushed"}
Holding == {w \in Worker : worker[w] \in {"check", "pop"}}

\* While the pool runs, the queue holds one session for each permit that is free,
\* owed by a caller between its push and its release, or held by a worker that
\* has not popped yet: no session is stranded and no worker finds the queue empty.
PermitAccounting ==
    running => Len(queue) = permits + Cardinality(Owing) + Cardinality(Holding)

\* A session that was accepted is in one place only: with its caller, in the queue
\* once, with one worker, served, or gone with the destroyed queue.
RunOnce ==
    \A s \in Session :
        LET places == Cardinality({i \in DOMAIN queue : queue[i] = s})
                      + Cardinality({w \in Worker : current[w] = s})
                      + (IF s \in served THEN 1 ELSE 0)
        IN  /\ places <= 1
            /\ caller[s] \in {"pushed", "returned"} /\ stopper # "joined" => places = 1
            /\ caller[s] \in {"new", "accepted", "rejected"} => places = 0

\* Unless the pool is shut down, every accepted session is run.
AcceptedIsServed ==
    \A s \in Session : caller[s] = "accepted" ~> (s \in served \/ shuttingDown)

\* Once shutdown() is called, every worker leaves its loop and is joined, whatever
\* it is doing then and whoever else is enqueueing, or one of them has used the
\* queue after its destruction (see JoinedFirst).
ShutdownEnds == shuttingDown ~> (stopper = "joined" \/ \E w \in Worker : worker[w] = "lost")

-----------------------------------------------------------------------------
(* Comments of the code that do not hold: no run checks them.             *)

\* "graceful: stops accepting, drains queue, joins workers" (EngineDispatcher.hpp:52),
\* first half: when all is over, every session whose enqueue() returned was run.
\* The workers stop at the first permit they take after running_ is cleared.
DrainsQueue ==
    stopper = "joined" => \A s \in Session : caller[s] = "returned" => s \in served

\* The second half: the workers are joined, so none of them takes a session from a
\* queue that has been destroyed.  shutdown() joins nobody, and workers_, declared
\* before queue_ (EngineDispatcher.hpp:108-116), is destroyed after it.
JoinedFirst == \A w \in Worker : worker[w] # "lost"
=============================================================================
