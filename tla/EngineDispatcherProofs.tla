------------------------ MODULE EngineDispatcherProofs ------------------------
(***************************************************************************)
(* The permits of the thread pool are right, and every session is run at   *)
(* most once, for any number of workers and sessions.  PermitAccounting is *)
(* inductive together with the types and with two facts about control: a   *)
(* worker in runSession has a session, and shutdown() releases its extra   *)
(* permits only after running_ is cleared.  RunOnce counts; the invariant  *)
(* behind it, OnePlace, says the same without numbers.                     *)
(***************************************************************************)
EXTENDS EngineDispatcher, FiniteSetTheorems, TLAPS

\* A worker that runs a session has one.
RunningHasSession == \A w \in Worker : worker[w] = "run" => current[w] \in Session

\* running_ is cleared before shutdown() wakes anybody.
StoppedBeforeWaking == running <=> stopper \in {"none", "store"}

PoolTypes == PoolTypeOK /\ RunningHasSession /\ StoppedBeforeWaking

-----------------------------------------------------------------------------
LEMMA PoolTypesInit == PoolInit => PoolTypes
<1> SUFFICES ASSUME PoolInit PROVE PoolTypes
  OBVIOUS
<1>1. /\ queue \in Seq(Session) /\ permits \in Nat /\ toWake \in Nat
      /\ current \in [Worker -> Session \cup {NoSession}] /\ served \subseteq Session
  BY DEF PoolInit
<1>2. /\ stopper \in StopperAt
      /\ caller \in [Session -> CallerAt] /\ worker \in [Worker -> WorkerAt]
  BY DEF PoolInit, CallerAt, WorkerAt, StopperAt
<1>3. running \in BOOLEAN /\ shuttingDown \in BOOLEAN /\ StoppedBeforeWaking
  BY Zenon DEF PoolInit, StoppedBeforeWaking
<1>4. RunningHasSession
  BY DEF PoolInit, RunningHasSession
<1>5. QED BY <1>1, <1>2, <1>3, <1>4 DEF PoolTypes, PoolTypeOK

\* Every step preserves the types and the two control facts.
LEMMA PoolTypesStep == PoolTypes /\ [PoolNext]_poolVars => PoolTypes'
<1> SUFFICES ASSUME PoolTypes, [PoolNext]_poolVars
             PROVE  PoolTypes'
  OBVIOUS
<1> USE DEF PoolTypes, PoolTypeOK, RunningHasSession, StoppedBeforeWaking,
            CallerAt, WorkerAt, StopperAt, Destroyed
<1>1. ASSUME NEW s \in Session, CheckOpen(s) PROVE PoolTypes'
  BY <1>1 DEF CheckOpen, CallerGoto
<1>2. ASSUME NEW s \in Session, Push(s) PROVE PoolTypes'
  BY <1>2 DEF Push, CallerGoto
<1>3. ASSUME NEW s \in Session, ReleasePermit(s) PROVE PoolTypes'
  BY <1>3 DEF ReleasePermit, CallerGoto
<1>4. ASSUME NEW w \in Worker, LoopTest(w) PROVE PoolTypes'
  BY <1>4 DEF LoopTest, WorkerGoto
<1>5. ASSUME NEW w \in Worker, AcquirePermit(w) PROVE PoolTypes'
  BY <1>5 DEF AcquirePermit, WorkerGoto
<1>6. ASSUME NEW w \in Worker, CheckRunning(w) PROVE PoolTypes'
  BY <1>6 DEF CheckRunning, WorkerGoto
<1>7. ASSUME NEW w \in Worker, Pop(w) PROVE PoolTypes'
  <2>1. CASE queue = <<>>
    BY <1>7, <2>1 DEF Pop, WorkerGoto
  <2>2. CASE queue # <<>>
    <3>1. Head(queue) \in Session /\ Tail(queue) \in Seq(Session)
      BY <2>2
    <3>2. QED BY <1>7, <2>2, <3>1 DEF Pop, WorkerGoto
  <2>3. QED BY <2>1, <2>2
<1>8. ASSUME NEW w \in Worker, RunSession(w) PROVE PoolTypes'
  BY <1>8 DEF RunSession, WorkerGoto
<1>9. CASE BeginShutdown
  BY <1>9 DEF BeginShutdown
<1>10. CASE StopRunning
  <2>1. Cardinality(Worker) \in Nat
    BY WorkerAssumption, FS_CardinalityType
  <2>2. QED BY <1>10, <2>1 DEF StopRunning
<1>11. CASE WakeWorkers
  BY <1>11 DEF WakeWorkers
<1>12. CASE DestroyMembers \/ JoinWorkers
  <2>1. CASE DestroyMembers
    BY <2>1 DEF DestroyMembers
  <2>2. CASE JoinWorkers
    BY <2>2 DEF JoinWorkers
  <2>3. QED BY <1>12, <2>1, <2>2
<1>13. ASSUME NEW w \in Worker, PopDestroyed(w) PROVE PoolTypes'
  BY <1>13 DEF PopDestroyed, WorkerGoto
<1>14. CASE UNCHANGED poolVars
  BY <1>14 DEF poolVars
<1>15. QED
  BY <1>1, <1>2, <1>3, <1>4, <1>5, <1>6, <1>7, <1>8, <1>9, <1>10, <1>11, <1>12, <1>13, <1>14
     DEF PoolNext, Caller, WorkerStep, Stopper

\* The dispatcher's state always has its type; in particular the semaphore never
\* gives out a permit that nobody released.
THEOREM PoolTypeCorrect == PoolSpec => []PoolTypeOK
<1>1. PoolTypes => PoolTypeOK
  BY DEF PoolTypes
<1>2. QED BY <1>1, PoolTypesInit, PoolTypesStep, PTL DEF PoolSpec

-----------------------------------------------------------------------------
\* What entering or leaving a set of threads does to its size.
LEMMA SizeAfterMove ==
    ASSUME NEW S, IsFiniteSet(S), NEW x
    PROVE  /\ Cardinality(S) \in Nat
           /\ x \notin S => Cardinality(S \cup {x}) = Cardinality(S) + 1
           /\ x \in S => Cardinality(S \ {x}) = Cardinality(S) - 1 /\ Cardinality(S) > 0
<1>1. Cardinality(S) \in Nat
  BY FS_CardinalityType
<1>2. x \notin S => Cardinality(S \cup {x}) = Cardinality(S) + 1
  BY FS_AddElement
<1>3. ASSUME x \in S
      PROVE  Cardinality(S \ {x}) = Cardinality(S) - 1 /\ Cardinality(S) > 0
  <2>1. Cardinality(S \ {x}) = Cardinality(S) - 1
    BY <1>3, FS_RemoveElement
  <2>2. Cardinality(S) # 0
    BY <1>3, FS_EmptySet
  <2>3. QED BY <1>1, <2>1, <2>2
<1>4. QED BY <1>1, <1>2, <1>3

\* Callers and workers are finitely many.
LEMMA OwingHoldingFinite == IsFiniteSet(Owing) /\ IsFiniteSet(Holding)
<1>1. Owing \subseteq Session /\ Holding \subseteq Worker
  BY DEF Owing, Holding
<1>2. QED BY <1>1, WorkerAssumption, SessionAssumption, FS_Subset

\* Every step keeps the queue and the permits in balance while the pool runs.
LEMMA PermitAccountingStep ==
    PoolTypes /\ PermitAccounting /\ [PoolNext]_poolVars => PermitAccounting'
<1> SUFFICES ASSUME PoolTypes, PermitAccounting, [PoolNext]_poolVars, running'
             PROVE  Len(queue') = permits' + Cardinality(Owing') + Cardinality(Holding')
  BY DEF PermitAccounting
<1> USE DEF PoolTypes, PoolTypeOK
<1>0. running => /\ Len(queue) = permits + Cardinality(Owing) + Cardinality(Holding)
                 /\ Len(queue) \in Nat /\ permits \in Nat
                 /\ Cardinality(Owing) \in Nat /\ Cardinality(Holding) \in Nat
  BY OwingHoldingFinite, FS_CardinalityType DEF PermitAccounting
<1>1. ASSUME NEW s \in Session, CheckOpen(s)
      PROVE  Len(queue') = permits' + Cardinality(Owing') + Cardinality(Holding')
  <2>1. Owing' = Owing /\ Holding' = Holding
    BY <1>1 DEF CheckOpen, CallerGoto, Owing, Holding
  <2>2. QED BY <1>0, <1>1, <2>1 DEF CheckOpen
<1>2. ASSUME NEW s \in Session, Push(s)
      PROVE  Len(queue') = permits' + Cardinality(Owing') + Cardinality(Holding')
  <2>1. s \notin Owing /\ Owing' = Owing \cup {s} /\ Holding' = Holding
    BY <1>2 DEF Push, CallerGoto, Owing, Holding
  <2>2. Len(queue') = Len(queue) + 1 /\ permits' = permits /\ running
    BY <1>2 DEF Push
  <2>3. Cardinality(Owing') = Cardinality(Owing) + 1 /\ Cardinality(Holding') = Cardinality(Holding)
    BY <2>1, OwingHoldingFinite, SizeAfterMove
  <2>4. QED BY <1>0, <2>2, <2>3
<1>3. ASSUME NEW s \in Session, ReleasePermit(s)
      PROVE  Len(queue') = permits' + Cardinality(Owing') + Cardinality(Holding')
  <2>1. s \in Owing /\ Owing' = Owing \ {s} /\ Holding' = Holding
    BY <1>3 DEF ReleasePermit, CallerGoto, Owing, Holding
  <2>2. queue' = queue /\ permits' = permits + 1 /\ running
    BY <1>3 DEF ReleasePermit
  <2>3. Cardinality(Owing') = Cardinality(Owing) - 1
    BY <2>1, OwingHoldingFinite, SizeAfterMove
  <2>4. QED BY <1>0, <2>1, <2>2, <2>3
<1>4. ASSUME NEW w \in Worker, LoopTest(w) \/ CheckRunning(w) \/ RunSession(w)
      PROVE  Len(queue') = permits' + Cardinality(Owing') + Cardinality(Holding')
  <2>1. queue' = queue /\ permits' = permits /\ running /\ caller' = caller
    BY <1>4 DEF LoopTest, CheckRunning, RunSession
  <2>2. Owing' = Owing
    BY <2>1 DEF Owing
  <2>3. \A v \in Worker : worker'[v] \in {"check", "pop"} <=> worker[v] \in {"check", "pop"}
    BY <1>4, <2>1 DEF LoopTest, CheckRunning, RunSession, WorkerGoto
  <2>4. Holding' = Holding
    BY <2>3 DEF Holding
  <2>5. QED BY <1>0, <2>1, <2>2, <2>4
<1>5. ASSUME NEW w \in Worker, AcquirePermit(w)
      PROVE  Len(queue') = permits' + Cardinality(Owing') + Cardinality(Holding')
  <2>1. w \notin Holding /\ Holding' = Holding \cup {w} /\ Owing' = Owing
    BY <1>5 DEF AcquirePermit, WorkerGoto, Owing, Holding
  <2>2. queue' = queue /\ permits' = permits - 1 /\ running
    BY <1>5 DEF AcquirePermit
  <2>3. Cardinality(Holding') = Cardinality(Holding) + 1
    BY <2>1, OwingHoldingFinite, SizeAfterMove
  <2>4. QED BY <1>0, <2>1, <2>2, <2>3
<1>6. ASSUME NEW w \in Worker, Pop(w)
      PROVE  Len(queue') = permits' + Cardinality(Owing') + Cardinality(Holding')
  <2>1. w \in Holding /\ permits' = permits /\ running /\ caller' = caller
    BY <1>6 DEF Pop, Holding
  <2>2. Cardinality(Holding \ {w}) = Cardinality(Holding) - 1 /\ Cardinality(Holding) > 0
    BY <2>1, OwingHoldingFinite, SizeAfterMove
  <2>3. queue # <<>>
    BY <1>0, <2>1, <2>2
  <2>4. Len(queue') = Len(queue) - 1
    BY <1>6, <2>3 DEF Pop
  <2>5. Holding' = Holding \ {w} /\ Owing' = Owing
    BY <1>6, <2>1, <2>3 DEF Pop, WorkerGoto, Holding, Owing
  <2>6. QED BY <1>0, <2>1, <2>2, <2>4, <2>5
<1>7. CASE BeginShutdown
  <2>1. Owing' = Owing /\ Holding' = Holding
    BY <1>7 DEF BeginShutdown, Owing, Holding
  <2>2. QED BY <1>0, <1>7, <2>1 DEF BeginShutdown
<1>8. CASE Stopper \/ \E w \in Worker : PopDestroyed(w)
  \* Past the store to running_: nothing to show.
  BY <1>8 DEF Stopper, StopRunning, WakeWorkers, DestroyMembers, JoinWorkers, PopDestroyed,
              StoppedBeforeWaking
<1>9. CASE UNCHANGED poolVars
  <2>1. Owing' = Owing /\ Holding' = Holding
    BY <1>9 DEF poolVars, Owing, Holding
  <2>2. QED BY <1>0, <1>9, <2>1 DEF poolVars
<1>10. QED
  BY <1>1, <1>2, <1>3, <1>4, <1>5, <1>6, <1>7, <1>8, <1>9
     DEF PoolNext, Caller, WorkerStep

\* While the pool runs, each queued session has exactly one permit, free, owed or
\* held: no session is stranded behind sleeping workers, for any number of them.
THEOREM PermitAccountingHolds == PoolSpec => []PermitAccounting
<1>1. ASSUME PoolInit PROVE PermitAccounting
  <2>1. Owing = {} /\ Holding = {} /\ Len(queue) = 0 /\ permits = 0
    BY <1>1 DEF PoolInit, Owing, Holding
  <2>2. Cardinality({}) = 0
    BY FS_EmptySet
  <2>3. Len(queue) = permits + Cardinality(Owing) + Cardinality(Holding)
    BY <2>1, <2>2
  <2>4. QED BY <2>3 DEF PermitAccounting
<1>2. QED
  BY <1>1, PoolTypesInit, PoolTypesStep, PermitAccountingStep, PTL DEF PoolSpec

-----------------------------------------------------------------------------
(* RunOnce.                                                                *)

Enqueued == {s \in Session : caller[s] \in {"pushed", "returned"}}

\* The places a session can be in once it has been pushed.
Queued(s) == \E i \in 1..Len(queue) : queue[i] = s
Run(s) == \E w \in Worker : current[w] = s
Somewhere(s) == Queued(s) \/ Run(s) \/ s \in served

\* No two positions of the queue, no two workers and no two of the three places
\* have the same session.
NotTwice ==
    /\ \A i, j \in 1..Len(queue) : queue[i] = queue[j] => i = j
    /\ \A v, w \in Worker : current[v] \in Session /\ current[v] = current[w] => v = w
    /\ \A s \in Session :
          ~(Queued(s) /\ Run(s)) /\ ~(Queued(s) /\ s \in served) /\ ~(Run(s) /\ s \in served)

\* What is anywhere was enqueued; what was enqueued is somewhere, until the queue
\* is destroyed.
EnqueuedIsSomewhere ==
    \A s \in Session :
        /\ Somewhere(s) => s \in Enqueued
        /\ s \in Enqueued /\ stopper # "joined" => Somewhere(s)

\* Only a worker that runs a session has one.
HasOnlyWhileRunning == \A w \in Worker : current[w] # NoSession => worker[w] = "run"

OnePlace == NotTwice /\ EnqueuedIsSomewhere /\ HasOnlyWhileRunning

\* OnePlace is about the queue, the workers' sessions and what has been served:
\* a step that leaves those alone, and moves nobody into or out of Enqueued or
\* runSession, preserves it.
LEMMA OnePlaceKept ==
    ASSUME OnePlace, queue' = queue, current' = current, served' = served,
           Enqueued' = Enqueued,
           stopper = "joined" => stopper' = "joined",
           \A w \in Worker : worker[w] = "run" => worker'[w] = "run"
    PROVE  OnePlace'
<1>1. \A s : (Queued(s)' <=> Queued(s)) /\ (Run(s)' <=> Run(s)) /\ (s \in served' <=> s \in served)
  BY DEF Queued, Run
<1>2. NotTwice'
  BY <1>1 DEF OnePlace, NotTwice
<1>3. EnqueuedIsSomewhere'
  BY <1>1 DEF OnePlace, EnqueuedIsSomewhere, Somewhere
<1>4. HasOnlyWhileRunning'
  BY DEF OnePlace, HasOnlyWhileRunning
<1>5. QED BY <1>2, <1>3, <1>4 DEF OnePlace

\* Every step keeps each session in one place.
LEMMA OnePlaceStep == PoolTypes /\ OnePlace /\ [PoolNext]_poolVars => OnePlace'
<1> SUFFICES ASSUME PoolTypes, OnePlace, [PoolNext]_poolVars
             PROVE  OnePlace'
  OBVIOUS
<1> USE DEF PoolTypes, PoolTypeOK
<1>1. ASSUME NEW s \in Session, CheckOpen(s) PROVE OnePlace'
  <2>1. Enqueued' = Enqueued
    BY <1>1 DEF CheckOpen, CallerGoto, Enqueued
  <2>2. QED BY <1>1, <2>1, OnePlaceKept DEF CheckOpen
<1>2. ASSUME NEW s \in Session, Push(s) PROVE OnePlace'
  <2>1. s \notin Enqueued /\ Enqueued' = Enqueued \cup {s}
    BY <1>2 DEF Push, CallerGoto, Enqueued
  <2>2. ~Queued(s) /\ ~Run(s) /\ s \notin served
    BY <2>1 DEF OnePlace, EnqueuedIsSomewhere, Somewhere
  <2>3. /\ Len(queue') = Len(queue) + 1 /\ Len(queue) \in Nat
        /\ \A i \in 1..Len(queue) : queue'[i] = queue[i]
        /\ queue'[Len(queue) + 1] = s
        /\ current' = current /\ served' = served /\ stopper' = stopper /\ worker' = worker
    BY <1>2 DEF Push
  <2>4. \A r : /\ Queued(r)' <=> (Queued(r) \/ r = s)
               /\ Run(r)' <=> Run(r)
               /\ r \in served' <=> r \in served
    BY <2>3 DEF Queued, Run
  <2>5. \A i, j \in 1..Len(queue') : queue'[i] = queue'[j] => i = j
    BY <2>2, <2>3 DEF OnePlace, NotTwice, Queued
  <2>6. NotTwice'
    BY <2>2, <2>3, <2>4, <2>5 DEF OnePlace, NotTwice
  <2>7. EnqueuedIsSomewhere'
    BY <2>1, <2>3, <2>4 DEF OnePlace, EnqueuedIsSomewhere, Somewhere
  <2>8. QED BY <2>3, <2>6, <2>7 DEF OnePlace, HasOnlyWhileRunning
<1>3. ASSUME NEW s \in Session, ReleasePermit(s) PROVE OnePlace'
  <2>1. Enqueued' = Enqueued
    BY <1>3 DEF ReleasePermit, CallerGoto, Enqueued
  <2>2. QED BY <1>3, <2>1, OnePlaceKept DEF ReleasePermit
<1>4. ASSUME NEW w \in Worker,
             LoopTest(w) \/ AcquirePermit(w) \/ CheckRunning(w) \/ PopDestroyed(w)
      PROVE  OnePlace'
  <2>1. /\ queue' = queue /\ current' = current /\ served' = served
        /\ caller' = caller /\ stopper' = stopper
    BY <1>4 DEF LoopTest, AcquirePermit, CheckRunning, PopDestroyed
  <2>2. \A v \in Worker : worker[v] = "run" => worker'[v] = "run"
    BY <1>4 DEF LoopTest, AcquirePermit, CheckRunning, PopDestroyed, WorkerGoto
  <2>3. Enqueued' = Enqueued
    BY <2>1 DEF Enqueued
  <2>4. QED BY <2>1, <2>2, <2>3, OnePlaceKept
<1>5. ASSUME NEW w \in Worker, Pop(w) PROVE OnePlace'
  <2>0. Enqueued' = Enqueued /\ served' = served /\ stopper' = stopper
    BY <1>5 DEF Pop, Enqueued
  <2>1. CASE queue = <<>>
    <3>1. \A v \in Worker : worker[v] = "run" => worker'[v] = "run"
      BY <1>5, <2>1 DEF Pop, WorkerGoto
    <3>2. queue' = queue /\ current' = current
      BY <1>5, <2>1 DEF Pop
    <3>3. QED BY <2>0, <3>1, <3>2, OnePlaceKept
  <2>2. CASE queue # <<>>
    <3> DEFINE s == Head(queue)
    <3>1. /\ s \in Session /\ s = queue[1] /\ 1 \in 1..Len(queue) /\ Len(queue) \in Nat
          /\ Len(queue') = Len(queue) - 1
          /\ \A i \in 1..Len(queue') : queue'[i] = queue[i + 1]
      BY <1>5, <2>2 DEF Pop
    <3>2. /\ current[w] = NoSession
          /\ current'[w] = s /\ worker'[w] = "run"
          /\ \A v \in Worker \ {w} : current'[v] = current[v] /\ worker'[v] = worker[v]
      BY <1>5, <2>2 DEF Pop, WorkerGoto, OnePlace, HasOnlyWhileRunning
    <3>3. \A r \in Session : Run(r)' <=> (Run(r) \/ r = s)
      BY <3>2, SessionAssumption DEF Run
    <3>4. ASSUME NEW r \in Session PROVE Queued(r)' <=> (Queued(r) /\ r # s)
      <4>1. ASSUME Queued(r)' PROVE Queued(r) /\ r # s
        <5>1. PICK i \in 1..Len(queue') : queue'[i] = r
          BY <4>1 DEF Queued
        <5>2. i + 1 \in 1..Len(queue) /\ queue[i + 1] = r /\ i + 1 # 1
          BY <3>1, <5>1
        <5>3. QED BY <3>1, <5>2 DEF Queued, OnePlace, NotTwice
      <4>2. ASSUME Queued(r), r # s PROVE Queued(r)'
        <5>1. PICK i \in 1..Len(queue) : queue[i] = r
          BY <4>2 DEF Queued
        <5>2. i - 1 \in 1..Len(queue') /\ (i - 1) + 1 = i
          BY <3>1, <4>2, <5>1
        <5>3. QED BY <3>1, <5>1, <5>2 DEF Queued
      <4>3. QED BY <4>1, <4>2
    <3>5. Queued(s)
      BY <3>1 DEF Queued
    <3>6. ~Run(s) /\ s \notin served
      BY <3>1, <3>5 DEF OnePlace, NotTwice
    <3>7. \A i, j \in 1..Len(queue') : queue'[i] = queue'[j] => i = j
      <4>1. \A i \in 1..Len(queue') : i + 1 \in 1..Len(queue)
        BY <3>1
      <4>2. QED BY <3>1, <4>1 DEF OnePlace, NotTwice
    <3>8. \A u, v \in Worker : current'[u] \in Session /\ current'[u] = current'[v] => u = v
      BY <3>2, <3>6 DEF OnePlace, NotTwice, Run
    <3>9. NotTwice'
      BY <2>0, <3>3, <3>4, <3>6, <3>7, <3>8 DEF OnePlace, NotTwice
    <3>10. EnqueuedIsSomewhere'
      BY <2>0, <3>1, <3>3, <3>4, <3>5 DEF OnePlace, EnqueuedIsSomewhere, Somewhere
    <3>11. HasOnlyWhileRunning'
      BY <3>2 DEF OnePlace, HasOnlyWhileRunning
    <3>12. QED BY <3>9, <3>10, <3>11 DEF OnePlace
  <2>3. QED BY <2>1, <2>2
<1>6. ASSUME NEW w \in Worker, RunSession(w) PROVE OnePlace'
  <2> DEFINE s == current[w]
  <2>1. /\ s \in Session /\ served' = served \cup {s} /\ queue' = queue
        /\ Enqueued' = Enqueued /\ stopper' = stopper
        /\ current'[w] = NoSession
        /\ \A v \in Worker \ {w} : current'[v] = current[v] /\ worker'[v] = worker[v]
    BY <1>6 DEF RunSession, WorkerGoto, RunningHasSession, Enqueued
  <2>2. Run(s)
    BY DEF Run
  <2>3. \A r \in Session : Run(r)' <=> (Run(r) /\ r # s)
    BY <2>1, SessionAssumption DEF Run, OnePlace, NotTwice
  <2>4. \A r : (Queued(r)' <=> Queued(r)) /\ (r \in served' <=> (r \in served \/ r = s))
    BY <2>1 DEF Queued
  <2>5. NotTwice'
    BY <2>1, <2>2, <2>3, <2>4, SessionAssumption DEF OnePlace, NotTwice
  <2>6. EnqueuedIsSomewhere'
    BY <2>1, <2>2, <2>3, <2>4 DEF OnePlace, EnqueuedIsSomewhere, Somewhere
  <2>7. HasOnlyWhileRunning'
    BY <2>1 DEF OnePlace, HasOnlyWhileRunning
  <2>8. QED BY <2>5, <2>6, <2>7 DEF OnePlace
<1>7. CASE BeginShutdown \/ StopRunning \/ WakeWorkers \/ DestroyMembers
  <2>1. /\ queue' = queue /\ current' = current /\ served' = served /\ worker' = worker
        /\ caller' = caller /\ (stopper = "joined" => stopper' = "joined")
    BY <1>7 DEF BeginShutdown, StopRunning, WakeWorkers, DestroyMembers
  <2>2. Enqueued' = Enqueued
    BY <2>1 DEF Enqueued
  <2>3. QED BY <2>1, <2>2, OnePlaceKept
<1>8. CASE JoinWorkers
  <2>1. /\ Len(queue') = 0 /\ current' = current /\ served' = served /\ worker' = worker
        /\ caller' = caller /\ stopper' = "joined"
    BY <1>8 DEF JoinWorkers
  <2>2. \A r : ~Queued(r)' /\ (Run(r)' <=> Run(r))
    BY <2>1 DEF Queued, Run
  <2>3. NotTwice' /\ EnqueuedIsSomewhere' /\ HasOnlyWhileRunning'
    BY <2>1, <2>2
       DEF OnePlace, NotTwice, EnqueuedIsSomewhere, HasOnlyWhileRunning, Somewhere, Enqueued
  <2>4. QED BY <2>3 DEF OnePlace
<1>9. CASE UNCHANGED poolVars
  <2>1. Enqueued' = Enqueued
    BY <1>9 DEF poolVars, Enqueued
  <2>2. QED BY <1>9, <2>1, OnePlaceKept DEF poolVars
<1>10. QED
  BY <1>1, <1>2, <1>3, <1>4, <1>5, <1>6, <1>7, <1>8, <1>9
     DEF PoolNext, Caller, WorkerStep, Stopper

\* A set in which no two elements differ has one element, or none.
LEMMA AtMostOne ==
    ASSUME NEW S, \A x, y \in S : x = y
    PROVE  Cardinality(S) = IF S = {} THEN 0 ELSE 1
<1>1. CASE S = {}
  BY <1>1, FS_EmptySet
<1>2. CASE S # {}
  <2>1. PICK x : S = {x}
    BY <1>2
  <2>2. QED BY <1>2, <2>1, FS_Singleton
<1>3. QED BY <1>1, <1>2

\* No session is run twice and none is lost: from enqueue to the end of
\* runSession an accepted session is in exactly one place, however many workers
\* pop (EngineDispatcher::enqueue, workerLoop, shutdown).
THEOREM RunOnceHolds == PoolSpec => []RunOnce
<1>1. ASSUME PoolInit PROVE OnePlace
  <2>1. \A s \in Session : ~Queued(s) /\ ~Run(s) /\ s \notin served /\ s \notin Enqueued
    BY <1>1, SessionAssumption DEF PoolInit, Queued, Run, Enqueued
  <2>2. NotTwice
    BY <1>1, <2>1, SessionAssumption DEF PoolInit, NotTwice
  <2>3. EnqueuedIsSomewhere /\ HasOnlyWhileRunning
    BY <1>1, <2>1 DEF PoolInit, EnqueuedIsSomewhere, HasOnlyWhileRunning, Somewhere
  <2>4. QED BY <2>2, <2>3 DEF OnePlace
<1>2. ASSUME PoolTypes, OnePlace PROVE RunOnce
  <2> SUFFICES ASSUME NEW s \in Session
               PROVE LET places == Cardinality({i \in DOMAIN queue : queue[i] = s})
                                   + Cardinality({w \in Worker : current[w] = s})
                                   + (IF s \in served THEN 1 ELSE 0)
                     IN  /\ places <= 1
                         /\ caller[s] \in {"pushed", "returned"} /\ stopper # "joined" => places = 1
                         /\ caller[s] \in {"new", "accepted", "rejected"} => places = 0
    BY DEF RunOnce
  <2> DEFINE Q == {i \in DOMAIN queue : queue[i] = s}
             W == {w \in Worker : current[w] = s}
  <2>1. DOMAIN queue = 1..Len(queue)
    BY <1>2 DEF PoolTypes, PoolTypeOK
  <2>2. Cardinality(Q) = IF Queued(s) THEN 1 ELSE 0
    <3>1. \A i, j \in Q : i = j
      BY <1>2, <2>1 DEF OnePlace, NotTwice
    <3>2. Q = {} <=> ~Queued(s)
      BY <2>1 DEF Queued
    <3>3. QED BY <3>1, <3>2, AtMostOne
  <2>3. Cardinality(W) = IF Run(s) THEN 1 ELSE 0
    <3>1. \A v, w \in W : v = w
      BY <1>2 DEF OnePlace, NotTwice
    <3>2. W = {} <=> ~Run(s)
      BY DEF Run
    <3>3. QED BY <3>1, <3>2, AtMostOne
  <2>4. /\ ~(Queued(s) /\ Run(s)) /\ ~(Queued(s) /\ s \in served) /\ ~(Run(s) /\ s \in served)
    BY <1>2 DEF OnePlace, NotTwice
  <2>5. /\ Somewhere(s) => caller[s] \in {"pushed", "returned"}
        /\ caller[s] \in {"pushed", "returned"} /\ stopper # "joined" => Somewhere(s)
    BY <1>2 DEF OnePlace, EnqueuedIsSomewhere, Enqueued
  <2> HIDE DEF Q, W
  <2>6. /\ Cardinality(Q) + Cardinality(W) + (IF s \in served THEN 1 ELSE 0) <= 1
        /\ Cardinality(Q) + Cardinality(W) + (IF s \in served THEN 1 ELSE 0)
               = IF Somewhere(s) THEN 1 ELSE 0
    BY <2>2, <2>3, <2>4 DEF Somewhere
  <2>7. QED BY <2>5, <2>6 DEF Q, W
<1>3. QED
  BY <1>1, <1>2, PoolTypesInit, PoolTypesStep, OnePlaceStep, PTL DEF PoolSpec

=============================================================================
