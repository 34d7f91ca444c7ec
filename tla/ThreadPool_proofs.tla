--------------------------- MODULE ThreadPool_proofs --------------------------
(***************************************************************************)
(* Theorems about ThreadPool, for any number of workers and tasks.         *)
(***************************************************************************)
EXTENDS ThreadPool, FiniteSetTheorems, TLAPS

\* m_activeTasks counts the workers with a task in hand or just run.
Busy == {w \in Workers : worker[w] \in {"running", "ran"}}
ActiveCounts == active = Cardinality(Busy)

\* An accepted task is queued, in the hands of a worker, or done.
Accounted ==
  \A x \in accepted :
    \/ x \in done
    \/ \E i \in 1..Len(queue) : queue[i] = x
    \/ \E w \in Workers : worker[w] = "running" /\ task[w] = x

\* And nothing else is.
OnlyAccepted ==
  /\ done \subseteq accepted /\ before \subseteq accepted
  /\ \A i \in 1..Len(queue) : queue[i] \in accepted
  /\ \A w \in Workers : worker[w] = "running" => task[w] \in accepted

\* Workers leave a stopped and empty pool, which takes no more tasks.
LeftIsOver ==
  /\ owner \in {"notifyAll", "joining", "gone"} => stop
  /\ stop => owner \in {"notifyAll", "joining", "gone"}
  /\ \A w \in Workers : worker[w] = "left" => stop /\ queue = <<>>
  /\ owner = "gone" => \A w \in Workers : worker[w] = "left"

PoolInv ==
  TypeOK /\ ActiveCounts /\ Accounted /\ OnlyAccepted /\ LeftIsOver
-----------------------------------------------------------------------------

LEMMA BusyIsFinite ==
  /\ IsFiniteSet(Busy) /\ Cardinality(Busy) \in 0..Cardinality(Workers)
  /\ Cardinality(Busy) = 0 <=> Busy = {}
<1>1. Busy \in SUBSET Workers
  BY DEF Busy
<1>2. IsFiniteSet(Busy) /\ Cardinality(Busy) <= Cardinality(Workers)
  BY <1>1, WorkersAssumption, FS_Subset
<1>3. Cardinality(Busy) \in Nat /\ Cardinality(Workers) \in Nat
  BY <1>2, WorkersAssumption, FS_CardinalityType
<1> QED
  BY <1>2, <1>3, FS_EmptySet

LEMMA PoolInitial == Init => PoolInv
<1> SUFFICES ASSUME Init
             PROVE  PoolInv
  OBVIOUS
<1>1. Busy = {} /\ Cardinality({}) = 0
  BY FS_EmptySet DEF Init, Busy
<1>2. Cardinality(Workers) \in Nat
  BY WorkersAssumption, FS_CardinalityType
<1>3. stop \in BOOLEAN /\ missed \in BOOLEAN
  BY DEF Init
<1>4. TypeOK
  BY <1>2, <1>3 DEF Init, TypeOK, WorkerPcs, OwnerPcs, WaiterPcs
<1>5. Accounted /\ OnlyAccepted /\ LeftIsOver
  BY DEF Init, Accounted, OnlyAccepted, LeftIsOver
<1> QED
  BY <1>1, <1>4, <1>5 DEF Init, PoolInv, ActiveCounts

\* A worker that neither takes nor gives back a task leaves the count as it is.
LEMMA SameBusy ==
  ASSUME PoolInv, active' = active,
         \A w \in Workers : worker'[w] \in {"running", "ran"} <=> worker[w] \in {"running", "ran"}
  PROVE  ActiveCounts'
<1>1. Busy' = Busy
  BY DEF Busy
<1> QED
  BY <1>1 DEF PoolInv, ActiveCounts

\* The owner's steps, and those of the caller of waitAll.
LEMMA OwnerPoolStep ==
  ASSUME PoolInv,
         \/ \E x \in Tasks : Enqueue(x)
         \/ Destroy \/ OwnerStep \/ WaitAll \/ WaiterStep \/ WakeSpuriously
  PROVE  PoolInv'
<1> USE DEF PoolInv, TypeOK, WorkerPcs, OwnerPcs, WaiterPcs, histVars
<1>1. ASSUME NEW x \in Tasks, Enqueue(x)
      PROVE  PoolInv'
  <2>1. /\ owner = "free" /\ ~stop /\ queue' = Append(queue, x)
        /\ accepted' = accepted \cup {x} /\ owner' = "notify"
        /\ UNCHANGED <<active, stop, holder, worker, task, waiter, done, before, missed>>
    BY <1>1 DEF Enqueue
  <2>2. /\ queue' \in Seq(Tasks) /\ Len(queue') = Len(queue) + 1 /\ Len(queue) \in Nat
        /\ queue'[Len(queue) + 1] = x
        /\ \A i \in 1..Len(queue) : queue'[i] = queue[i]
    BY <2>1
  <2>3. TypeOK'
    BY <2>1, <2>2
  <2>4. ActiveCounts'
    BY <2>1, SameBusy
  <2>5. Accounted'
    BY <2>1, <2>2 DEF Accounted
  <2>6. OnlyAccepted'
    BY <2>1, <2>2 DEF OnlyAccepted
  <2>7. LeftIsOver'
    BY <2>1 DEF LeftIsOver
  <2> QED
    BY <2>3, <2>4, <2>5, <2>6, <2>7
<1>2. CASE Destroy
  <2>1. TypeOK' /\ ActiveCounts'
    BY <1>2, SameBusy DEF Destroy
  <2>2. Accounted' /\ OnlyAccepted' /\ LeftIsOver'
    BY <1>2 DEF Destroy, Accounted, OnlyAccepted, LeftIsOver
  <2> QED
    BY <2>1, <2>2
<1>3. CASE NotifyOne \/ NotifyAll \/ WakeSpuriously
  <2>1. /\ worker' \in [Workers -> WorkerPcs]
        /\ \A w \in Workers :
             worker'[w] = worker[w] \/ (worker[w] = "asleep" /\ worker'[w] = "ready")
        /\ UNCHANGED <<queue, active, stop, holder, task, accepted, done, before, missed>>
    BY <1>3 DEF NotifyOne, NotifyAll, WakeSpuriously, WorkerTo, Asleep
  <2>2. /\ owner' \in OwnerPcs /\ waiter' \in WaiterPcs
        /\ \/ owner' = owner
           \/ owner = "notify" /\ owner' = "free"
           \/ owner = "notifyAll" /\ owner' = "joining"
    BY <1>3 DEF NotifyOne, NotifyAll, WakeSpuriously
  <2>3. TypeOK'
    BY <2>1, <2>2
  <2>4. ActiveCounts'
    BY <2>1, SameBusy
  <2>5. Accounted' /\ OnlyAccepted'
    BY <2>1 DEF Accounted, OnlyAccepted
  <2>6. LeftIsOver'
    BY <2>1, <2>2 DEF LeftIsOver
  <2> QED
    BY <2>3, <2>4, <2>5, <2>6
<1>4. CASE Joined
  <2>1. TypeOK' /\ ActiveCounts'
    BY <1>4, SameBusy DEF Joined
  <2>2. Accounted' /\ OnlyAccepted' /\ LeftIsOver'
    BY <1>4 DEF Joined, Accounted, OnlyAccepted, LeftIsOver
  <2> QED
    BY <2>1, <2>2
<1>5. CASE WaitAll \/ WaiterStep
  <2>1. /\ UNCHANGED <<queue, active, stop, worker, task, owner, accepted, done>>
        /\ waiter' \in WaiterPcs /\ holder' \in Workers \cup {Waiter, None}
        /\ before' \in {before, accepted} /\ missed' \in BOOLEAN
    BY <1>5 DEF WaitAll, WaiterStep, WaitReturns, WaitFindsWork, WaitParks
  <2>2. TypeOK' /\ ActiveCounts'
    BY <2>1, SameBusy
  <2>3. Accounted' /\ OnlyAccepted' /\ LeftIsOver'
    BY <2>1 DEF Accounted, OnlyAccepted, LeftIsOver
  <2> QED
    BY <2>2, <2>3
<1> QED
  BY <1>1, <1>2, <1>3, <1>4, <1>5 DEF OwnerStep

\* A worker's steps.
LEMMA WorkerPoolStep ==
  ASSUME PoolInv, NEW w \in Workers, WorkerStep(w)
  PROVE  PoolInv'
<1> USE DEF PoolInv, TypeOK, WorkerPcs, OwnerPcs, WaiterPcs, histVars, WorkerTo
<1>1. CASE Take(w)
  <2>1. /\ worker[w] = "ready" /\ queue # <<>>
        /\ task' = [task EXCEPT ![w] = Head(queue)] /\ queue' = Tail(queue)
        /\ active' = active + 1 /\ worker' = [worker EXCEPT ![w] = "running"]
        /\ UNCHANGED <<stop, holder, owner, waiter, accepted, done, before, missed>>
    BY <1>1 DEF Take
  <2>2. /\ Head(queue) = queue[1] /\ Head(queue) \in Tasks /\ 1 \in 1..Len(queue)
        /\ queue' \in Seq(Tasks) /\ Len(queue') = Len(queue) - 1 /\ Len(queue) \in Nat
    BY <2>1
  <2>3. \A i \in 1..Len(queue') : i + 1 \in 1..Len(queue) /\ queue'[i] = queue[i + 1]
    BY <2>1, <2>2
  <2>4. Busy' = Busy \cup {w} /\ w \notin Busy
    BY <2>1 DEF Busy
  <2>5. ActiveCounts'
    BY <2>1, <2>4, BusyIsFinite, FS_AddElement DEF ActiveCounts
  <2>6. active' \in 0..Cardinality(Workers)
    <3>1. Busy' \in SUBSET Workers
      BY <2>4 DEF Busy
    <3>2. Cardinality(Busy') <= Cardinality(Workers) /\ IsFiniteSet(Busy')
      BY <3>1, WorkersAssumption, FS_Subset
    <3>3. Cardinality(Busy') \in Nat /\ Cardinality(Workers) \in Nat
      BY <3>2, WorkersAssumption, FS_CardinalityType
    <3> QED
      BY <2>5, <3>2, <3>3 DEF ActiveCounts
  <2>7. TypeOK'
    BY <2>1, <2>2, <2>6
  <2>8. Accounted'
    <3> SUFFICES ASSUME NEW x \in accepted, x \notin done
                 PROVE  \/ \E i \in 1..Len(queue') : queue'[i] = x
                        \/ \E u \in Workers : worker'[u] = "running" /\ task'[u] = x
      BY <2>1 DEF Accounted
    <3>1. CASE \E u \in Workers : worker[u] = "running" /\ task[u] = x
      BY <2>1, <3>1
    <3>2. ASSUME NEW i \in 1..Len(queue), queue[i] = x
          PROVE  \/ \E j \in 1..Len(queue') : queue'[j] = x
                 \/ \E u \in Workers : worker'[u] = "running" /\ task'[u] = x
      <4>1. CASE i = 1
        <5>1. worker'[w] = "running" /\ task'[w] = x
          BY <2>1, <2>2, <3>2, <4>1
        <5> QED
          BY <5>1
      <4>2. CASE i # 1
        <5>1. i - 1 \in 1..Len(queue') /\ queue'[i - 1] = queue[(i - 1) + 1]
          BY <2>2, <2>3, <4>2
        <5> QED
          BY <3>2, <5>1
      <4> QED
        BY <4>1, <4>2
    <3> QED
      BY <3>1, <3>2 DEF Accounted
  <2>9. OnlyAccepted'
    BY <2>1, <2>2, <2>3 DEF OnlyAccepted
  <2>10. LeftIsOver'
    BY <2>1, <2>2 DEF LeftIsOver
  <2> QED
    BY <2>5, <2>7, <2>8, <2>9, <2>10
<1>2. CASE Leave(w) \/ FindNothing(w) \/ Park(w)
  <2>1. /\ UNCHANGED <<queue, active, stop, task, owner, waiter, accepted, done, before, missed>>
        /\ worker[w] \in {"ready", "parking"}
        /\ holder' \in Workers \cup {Waiter, None}
        /\ \/ worker' = [worker EXCEPT ![w] = "left"] /\ stop /\ queue = <<>>
           \/ worker' = [worker EXCEPT ![w] = "parking"]
           \/ worker' = [worker EXCEPT ![w] = "asleep"]
    BY <1>2 DEF Leave, FindNothing, Park
  <2>2. /\ worker' \in [Workers -> WorkerPcs]
        /\ \A u \in Workers : u # w => worker'[u] = worker[u]
        /\ worker'[w] \notin {"running", "ran"}
        /\ worker'[w] = "left" => stop /\ queue = <<>>
        /\ worker[w] # "left"
    BY <2>1
  <2>3. TypeOK'
    BY <2>1, <2>2
  <2>4. ActiveCounts'
    BY <2>1, <2>2, SameBusy
  <2>5. Accounted' /\ OnlyAccepted' /\ LeftIsOver'
    BY <2>1, <2>2 DEF Accounted, OnlyAccepted, LeftIsOver
  <2> QED
    BY <2>3, <2>4, <2>5
<1>3. CASE Run(w)
  <2>1. /\ worker[w] = "running" /\ done' = done \cup {task[w]}
        /\ task' = [task EXCEPT ![w] = None] /\ worker' = [worker EXCEPT ![w] = "ran"]
        /\ UNCHANGED <<queue, active, stop, holder, owner, waiter, accepted, before, missed>>
    BY <1>3 DEF Run
  <2>2. task[w] \in accepted
    BY <2>1 DEF OnlyAccepted
  <2>3. TypeOK'
    BY <2>1, <2>2
  <2>4. ActiveCounts'
    BY <2>1, SameBusy
  <2>5. Accounted'
    BY <2>1 DEF Accounted
  <2>6. OnlyAccepted' /\ LeftIsOver'
    BY <2>1, <2>2 DEF OnlyAccepted, LeftIsOver
  <2> QED
    BY <2>3, <2>4, <2>5, <2>6
<1>4. CASE Retire(w)
  <2>1. /\ worker[w] = "ran" /\ active' = active - 1
        /\ worker' = [worker EXCEPT ![w] = "signal"]
        /\ UNCHANGED <<queue, stop, holder, task, owner, waiter, accepted, done, before, missed>>
    BY <1>4 DEF Retire
  <2>2. Busy' = Busy \ {w} /\ w \in Busy
    BY <2>1 DEF Busy
  <2>3. ActiveCounts' /\ active' \in 0..Cardinality(Workers)
    <3>1. Cardinality(Busy') = Cardinality(Busy) - 1 /\ IsFiniteSet(Busy')
      BY <2>2, BusyIsFinite, FS_RemoveElement
    <3>2. Cardinality(Busy') \in Nat /\ Cardinality(Workers) \in Nat
      BY <3>1, WorkersAssumption, FS_CardinalityType
    <3> QED
      BY <2>1, <3>1, <3>2, BusyIsFinite DEF ActiveCounts
  <2>4. TypeOK'
    BY <2>1, <2>3
  <2>5. Accounted' /\ OnlyAccepted' /\ LeftIsOver'
    BY <2>1 DEF Accounted, OnlyAccepted, LeftIsOver
  <2> QED
    BY <2>3, <2>4, <2>5
<1>5. CASE SignalDone(w)
  <2>1. /\ worker[w] = "signal" /\ worker' = [worker EXCEPT ![w] = "ready"]
        /\ UNCHANGED <<queue, active, stop, holder, task, owner, accepted, done, before>>
        /\ waiter' \in WaiterPcs /\ missed' \in BOOLEAN
    BY <1>5 DEF SignalDone
  <2>2. TypeOK'
    BY <2>1
  <2>3. ActiveCounts'
    BY <2>1, SameBusy
  <2>4. Accounted' /\ OnlyAccepted' /\ LeftIsOver'
    BY <2>1 DEF Accounted, OnlyAccepted, LeftIsOver
  <2> QED
    BY <2>2, <2>3, <2>4
<1> QED
  BY <1>1, <1>2, <1>3, <1>4, <1>5 DEF WorkerStep

LEMMA PoolStep == PoolInv /\ [Next]_vars => PoolInv'
<1> SUFFICES ASSUME PoolInv, [Next]_vars
             PROVE  PoolInv'
  OBVIOUS
<1>1. CASE UNCHANGED vars
  <2>1. ActiveCounts'
    BY <1>1, SameBusy DEF vars
  <2>2. TypeOK' /\ Accounted' /\ OnlyAccepted' /\ LeftIsOver'
    BY <1>1 DEF vars, histVars, PoolInv, TypeOK, Accounted, OnlyAccepted, LeftIsOver
  <2> QED
    BY <2>1, <2>2 DEF PoolInv
<1>2. CASE Next
  BY <1>2, OwnerPoolStep, WorkerPoolStep DEF Next
<1> QED
  BY <1>1, <1>2

\* An idle pool has run all it took.
LEMMA IdleIsDone == PoolInv /\ queue = <<>> /\ Busy = {} => done = accepted
<1> SUFFICES ASSUME PoolInv, queue = <<>>, Busy = {}
             PROVE  done = accepted
  OBVIOUS
<1>1. ~ \E i \in 1..Len(queue) : TRUE
  OBVIOUS
<1>2. ~ \E w \in Workers : worker[w] = "running"
  BY DEF Busy
<1>3. \A x \in accepted : x \in done
  BY <1>1, <1>2 DEF PoolInv, Accounted
<1> QED
  BY <1>3 DEF PoolInv, OnlyAccepted

\* Those not yet run are no more than the queue holds and the workers have in hand.
LEMMA NotYetRun == PoolInv => PendingNotUnderstated
<1> SUFFICES ASSUME PoolInv
             PROVE  PendingNotUnderstated
  OBVIOUS
<1> DEFINE Queued == {queue[i] : i \in 1..Len(queue)}
           InHand == {task[w] : w \in Busy}
<1>1. Len(queue) \in Nat
  BY DEF PoolInv, TypeOK
<1>2. IsFiniteSet(Queued) /\ Cardinality(Queued) <= Len(queue)
  <2>1. [i \in 1..Len(queue) |-> queue[i]] \in Surjection(1..Len(queue), Queued)
    BY DEF Surjection
  <2>2. IsFiniteSet(1..Len(queue)) /\ Cardinality(1..Len(queue)) = Len(queue)
    <3>1. \A n \in Nat : n \in Int /\ (IF 1 > n THEN 0 ELSE n - 1 + 1) = n
      OBVIOUS
    <3>2. \A n \in Nat : IsFiniteSet(1..n) /\ Cardinality(1..n) = n
      BY <3>1, FS_Interval
    <3> QED
      BY <1>1, <3>2
  <2> HIDE DEF Queued
  <2>3. IsFiniteSet(Queued) /\ Cardinality(Queued) <= Cardinality(1..Len(queue))
    BY <2>1, <2>2, FS_Surjection
  <2> QED
    BY <2>2, <2>3
<1>3. IsFiniteSet(InHand) /\ Cardinality(InHand) <= Cardinality(Busy)
  <2>1. [w \in Busy |-> task[w]] \in Surjection(Busy, InHand)
    BY DEF Surjection
  <2> QED
    BY <2>1, BusyIsFinite, FS_Surjection
<1>4. (accepted \ done) \in SUBSET (Queued \cup InHand)
  BY DEF PoolInv, Accounted, Busy
<1> HIDE DEF Queued, InHand
<1>5. /\ IsFiniteSet(Queued \cup InHand)
      /\ Cardinality(Queued \cup InHand) =
           Cardinality(Queued) + Cardinality(InHand) - Cardinality(Queued \cap InHand)
  BY <1>2, <1>3, FS_Union
<1>6. IsFiniteSet(Queued \cap InHand)
  BY <1>2, FS_Subset
<1>7. /\ Cardinality(Queued) \in Nat /\ Cardinality(InHand) \in Nat
      /\ Cardinality(Queued \cap InHand) \in Nat /\ Cardinality(Busy) \in Nat
  BY <1>2, <1>3, <1>6, BusyIsFinite, FS_CardinalityType
<1>8. IsFiniteSet(accepted \ done) /\ Cardinality(accepted \ done) <= Cardinality(Queued \cup InHand)
  BY <1>4, <1>5, FS_Subset
<1>9. Cardinality(accepted \ done) \in Nat
  BY <1>8, FS_CardinalityType
<1>10. Cardinality(Queued \cup InHand) <= Len(queue) + Cardinality(Busy)
  BY <1>1, <1>2, <1>3, <1>5, <1>7
<1> QED
  BY <1>1, <1>5, <1>7, <1>8, <1>9, <1>10 DEF PendingNotUnderstated, PoolInv, ActiveCounts
-----------------------------------------------------------------------------

\* For any workers and tasks, every variable keeps its type, and the count of active
\* tasks never leaves 0 to the number of workers.
THEOREM PoolTypes == Spec => []TypeOK
<1>1. PoolInv => TypeOK
  BY DEF PoolInv
<1> QED
  BY PoolInitial, PoolStep, <1>1, PTL DEF Spec

\* For any workers and tasks, pendingTasks() is never less than what is accepted and not
\* yet run.
THEOREM PendingIsEnough == Spec => []PendingNotUnderstated
BY PoolInitial, PoolStep, NotYetRun, PTL DEF Spec

\* For any workers and tasks, the destructor returns only when all accepted tasks ran.
THEOREM DestructorHasDrained == Spec => []DestructorDrains
<1>1. PoolInv => DestructorDrains
  <2> SUFFICES ASSUME PoolInv, owner = "gone"
               PROVE  done = accepted
    BY DEF DestructorDrains
  <2>1. \A w \in Workers : worker[w] = "left"
    BY DEF PoolInv, LeftIsOver
  <2>2. queue = <<>>
    BY <2>1, WorkersAssumption DEF PoolInv, LeftIsOver
  <2>3. Busy = {}
    BY <2>1 DEF Busy
  <2> QED
    BY <2>2, <2>3, IdleIsDone
<1> QED
  BY PoolInitial, PoolStep, <1>1, PTL DEF Spec

\* For any workers and tasks, waitAll returns only when all tasks accepted before it was
\* called have run.
THEOREM WaitAllWaits == Spec => WaitAllIsBarrier
<1>1. PoolInv /\ [Next]_vars =>
        [waiter = "ready" /\ waiter' = "out" => before \subseteq done]_vars
  <2> SUFFICES ASSUME PoolInv, Next, waiter = "ready", waiter' = "out"
               PROVE  before \subseteq done
    BY DEF vars
  <2>1. WaitReturns
    BY DEF Next, Enqueue, Destroy, OwnerStep, NotifyOne, NotifyAll, Joined, WorkerStep, Take,
           Leave, FindNothing, Park, Run, Retire, SignalDone, WaitAll, WaiterStep,
           WaitFindsWork, WaitParks, WakeSpuriously
  <2>2. Busy = {} /\ queue = <<>>
    BY <2>1, BusyIsFinite DEF WaitReturns, PoolInv, ActiveCounts
  <2> QED
    BY <2>2, IdleIsDone DEF PoolInv, OnlyAccepted
<1> QED
  BY PoolInitial, PoolStep, <1>1, PTL DEF Spec, WaitAllIsBarrier
=============================================================================
