----------------------------- MODULE ThreadPool ------------------------------
(***************************************************************************)
(* core/ThreadPool: a queue of tasks behind one mutex, workers parked on   *)
(* one condition variable and waitAll on another, and a destructor that    *)
(* drains.  One thread owns the pool (Application's interface thread): it  *)
(* enqueues every task and destroys the pool.  packaged_task keeps what a  *)
(* task throws, so a task always ends.  A wait is taken apart where the    *)
(* mutex is released: a notification reaches only threads already asleep.  *)
(***************************************************************************)
EXTENDS Naturals, Sequences, FiniteSets

CONSTANTS
  Workers,  \* m_workers
  Tasks,    \* the tasks the owner may enqueue, each once: bounds the queue
  Waiter,   \* a thread that calls waitAll
  None      \* nobody holds m_mutex; no task in hand

ASSUME NamesAssumption ==
  /\ Waiter \notin Workers
  /\ None \notin Workers \cup Tasks \cup {Waiter}
ASSUME WorkersAssumption == IsFiniteSet(Workers) /\ Workers # {}

VARIABLES
  queue,    \* m_tasks
  active,   \* m_activeTasks
  stop,     \* m_stop
  holder,   \* who holds m_mutex across steps
  worker,   \* where each worker is in its loop
  task,     \* the task each worker has in hand
  owner,    \* where the owner is
  waiter,   \* where the caller of waitAll is
  accepted, \* history: the tasks enqueue took
  done,     \* history: the tasks run to their end
  before,   \* history: the tasks accepted when waitAll was called
  missed    \* history: a notify_all fell between waitAll's test and its sleep

histVars == <<accepted, done, before, missed>>
vars == <<queue, active, stop, holder, worker, task, owner, waiter, histVars>>

WorkerPcs == {"ready", "parking", "asleep", "running", "ran", "signal", "left"}
OwnerPcs == {"free", "notify", "notifyAll", "joining", "gone"}
WaiterPcs == {"out", "ready", "parking", "asleep"}

LockFree == holder = None
Asleep == {w \in Workers : worker[w] = "asleep"}

Init ==
  /\ queue = <<>> /\ active = 0 /\ stop = FALSE
  /\ holder = None
  /\ worker = [w \in Workers |-> "ready"]
  /\ task = [w \in Workers |-> None]
  /\ owner = "free" /\ waiter = "out"
  /\ accepted = {} /\ done = {} /\ before = {} /\ missed = FALSE

WorkerTo(w, l) == worker' = [worker EXCEPT ![w] = l]

-----------------------------------------------------------------------------
(* The owner.                                                              *)

\* enqueue up to the release of m_mutex; a stopped pool would throw.
Enqueue(x) ==
  /\ owner = "free" /\ x \notin accepted
  /\ LockFree /\ ~stop
  /\ queue' = Append(queue, x)
  /\ accepted' = accepted \cup {x}
  /\ owner' = "notify"
  /\ UNCHANGED <<active, stop, holder, worker, task, waiter, done, before, missed>>

\* Variant: a new task wakes nobody.
NotifyNobody ==
  /\ owner = "notify"
  /\ owner' = "free"
  /\ UNCHANGED <<queue, active, stop, holder, worker, task, waiter, histVars>>

\* m_condition.notify_one(): one sleeper if there is one, or nobody.
NotifyOne ==
  /\ owner = "notify"
  /\ IF Asleep = {} THEN UNCHANGED worker
                    ELSE \E w \in Asleep : WorkerTo(w, "ready")
  /\ owner' = "free"
  /\ UNCHANGED <<queue, active, stop, holder, task, waiter, histVars>>

\* Variant: m_stop is set without m_mutex.
DestroyUnlocked ==
  /\ owner = "free" /\ waiter = "out"
  /\ stop' = TRUE
  /\ owner' = "notifyAll"
  /\ UNCHANGED <<queue, active, holder, worker, task, waiter, histVars>>

\* The destructor; nobody may be inside waitAll of an object being destroyed.
Destroy ==
  /\ owner = "free" /\ waiter = "out"
  /\ LockFree
  /\ stop' = TRUE
  /\ owner' = "notifyAll"
  /\ UNCHANGED <<queue, active, holder, worker, task, waiter, histVars>>

NotifyAll ==
  /\ owner = "notifyAll"
  /\ worker' = [w \in Workers |-> IF w \in Asleep THEN "ready" ELSE worker[w]]
  /\ owner' = "joining"
  /\ UNCHANGED <<queue, active, stop, holder, task, waiter, histVars>>

Joined ==
  /\ owner = "joining"
  /\ \A w \in Workers : worker[w] = "left"
  /\ owner' = "gone"
  /\ UNCHANGED <<queue, active, stop, holder, worker, task, waiter, histVars>>

-----------------------------------------------------------------------------
(* A worker.                                                               *)

\* Variant: the task taken is not counted as active.
TakeUncounted(w) ==
  /\ worker[w] = "ready" /\ LockFree
  /\ queue # <<>>
  /\ task' = [task EXCEPT ![w] = Head(queue)]
  /\ queue' = Tail(queue)
  /\ WorkerTo(w, "running")
  /\ UNCHANGED <<active, stop, holder, owner, waiter, histVars>>

\* The critical section when there is a task, stopped or not.
Take(w) ==
  /\ worker[w] = "ready" /\ LockFree
  /\ queue # <<>>
  /\ task' = [task EXCEPT ![w] = Head(queue)]
  /\ queue' = Tail(queue)
  /\ active' = active + 1
  /\ WorkerTo(w, "running")
  /\ UNCHANGED <<stop, holder, owner, waiter, histVars>>

\* Variant: a stopped pool drops what is queued.
LeaveWhenStopped(w) ==
  /\ worker[w] = "ready" /\ LockFree
  /\ stop
  /\ WorkerTo(w, "left")
  /\ UNCHANGED <<queue, active, stop, holder, task, owner, waiter, histVars>>

Leave(w) ==
  /\ worker[w] = "ready" /\ LockFree
  /\ stop /\ queue = <<>>
  /\ WorkerTo(w, "left")
  /\ UNCHANGED <<queue, active, stop, holder, task, owner, waiter, histVars>>

\* m_condition.wait: the predicate is false, and m_mutex is held until asleep.
FindNothing(w) ==
  /\ worker[w] = "ready" /\ LockFree
  /\ ~stop /\ queue = <<>>
  /\ WorkerTo(w, "parking")
  /\ holder' = w
  /\ UNCHANGED <<queue, active, stop, task, owner, waiter, histVars>>

Park(w) ==
  /\ worker[w] = "parking"
  /\ WorkerTo(w, "asleep")
  /\ holder' = None
  /\ UNCHANGED <<queue, active, stop, task, owner, waiter, histVars>>

Run(w) ==
  /\ worker[w] = "running"
  /\ done' = done \cup {task[w]}
  /\ task' = [task EXCEPT ![w] = None]
  /\ WorkerTo(w, "ran")
  /\ UNCHANGED <<queue, active, stop, holder, owner, waiter, accepted, before, missed>>

\* --m_activeTasks, without m_mutex.
Retire(w) ==
  /\ worker[w] = "ran"
  /\ active' = active - 1
  /\ WorkerTo(w, "signal")
  /\ UNCHANGED <<queue, stop, holder, task, owner, waiter, histVars>>

\* Variant: nobody is told.
SignalNobody(w) ==
  /\ worker[w] = "signal"
  /\ WorkerTo(w, "ready")
  /\ UNCHANGED <<queue, active, stop, holder, task, owner, waiter, histVars>>

\* m_allDone.notify_all(), without m_mutex: it may come before the waiter sleeps.
SignalDone(w) ==
  /\ worker[w] = "signal"
  /\ WorkerTo(w, "ready")
  /\ waiter' = IF waiter = "asleep" THEN "ready" ELSE waiter
  /\ missed' = (missed \/ waiter = "parking")
  /\ UNCHANGED <<queue, active, stop, holder, task, owner, accepted, done, before>>

-----------------------------------------------------------------------------
(* waitAll, by a thread other than the owner.                              *)

WaitAll ==
  /\ waiter = "out" /\ owner \in {"free", "notify"}
  /\ waiter' = "ready"
  /\ before' = accepted
  /\ missed' = FALSE
  /\ UNCHANGED <<queue, active, stop, holder, worker, task, owner, accepted, done>>

\* Variant: tasks being run do not count.
WaitReturnsQueueOnly ==
  /\ waiter = "ready" /\ LockFree
  /\ queue = <<>>
  /\ waiter' = "out"
  /\ UNCHANGED <<queue, active, stop, holder, worker, task, owner, histVars>>

WaitReturns ==
  /\ waiter = "ready" /\ LockFree
  /\ queue = <<>> /\ active = 0
  /\ waiter' = "out"
  /\ UNCHANGED <<queue, active, stop, holder, worker, task, owner, histVars>>

WaitFindsWork ==
  /\ waiter = "ready" /\ LockFree
  /\ queue # <<>> \/ active # 0
  /\ waiter' = "parking"
  /\ holder' = Waiter
  /\ missed' = FALSE
  /\ UNCHANGED <<queue, active, stop, worker, task, owner, accepted, done, before>>

WaitParks ==
  /\ waiter = "parking"
  /\ waiter' = "asleep"
  /\ holder' = None
  /\ UNCHANGED <<queue, active, stop, worker, task, owner, histVars>>

\* A condition variable may wake for no reason.
WakeSpuriously ==
  \/ /\ \E w \in Asleep : WorkerTo(w, "ready")
     /\ UNCHANGED <<queue, active, stop, holder, task, owner, waiter, histVars>>
  \/ /\ waiter = "asleep" /\ waiter' = "ready"
     /\ UNCHANGED <<queue, active, stop, holder, worker, task, owner, histVars>>

-----------------------------------------------------------------------------

OwnerStep == NotifyOne \/ NotifyAll \/ Joined

WorkerStep(w) ==
  \/ Take(w) \/ Leave(w) \/ FindNothing(w) \/ Park(w)
  \/ Run(w) \/ Retire(w) \/ SignalDone(w)

WaiterStep == WaitReturns \/ WaitFindsWork \/ WaitParks

Next ==
  \/ \E x \in Tasks : Enqueue(x)
  \/ Destroy \/ OwnerStep
  \/ \E w \in Workers : WorkerStep(w)
  \/ WaitAll \/ WaiterStep
  \/ WakeSpuriously

Spec == Init /\ [][Next]_vars

\* Threads run and tasks end.  Strong fairness because whoever needs m_mutex finds it
\* taken again and again, and a mutex starves nobody.  No spurious wakeup is relied on.
Fairness ==
  /\ WF_vars(OwnerStep)
  /\ \A w \in Workers : SF_vars(WorkerStep(w))
  /\ SF_vars(WaiterStep)

FairSpec == Spec /\ Fairness

-----------------------------------------------------------------------------

TypeOK ==
  /\ queue \in Seq(Tasks)
  /\ active \in 0..Cardinality(Workers)
  /\ stop \in BOOLEAN
  /\ holder \in Workers \cup {Waiter, None}
  /\ worker \in [Workers -> WorkerPcs]
  /\ task \in [Workers -> Tasks \cup {None}]
  /\ owner \in OwnerPcs /\ waiter \in WaiterPcs
  /\ accepted \subseteq Tasks /\ done \subseteq Tasks /\ before \subseteq Tasks
  /\ missed \in BOOLEAN

\* pendingTasks() never reports fewer tasks than are accepted and not yet run
\* (ThreadPool.cpp:39-42, with the increment of line 18 inside the lock).
PendingNotUnderstated ==
  Cardinality(accepted \ done) <= Len(queue) + active

\* The destructor drains: when it returns, every task ever accepted has run
\* (ThreadPool.cpp:15, 28-37).
DestructorDrains == owner = "gone" => done = accepted

\* waitAll is a barrier: it returns only when the tasks accepted before the call have
\* run, those a worker has already popped included (ThreadPool.cpp:44-49).
WaitAllIsBarrier ==
  [][waiter = "ready" /\ waiter' = "out" => before \subseteq done]_vars

\* Every accepted task is run, whether the workers were asleep, parking, busy or
\* told to stop when it arrived: no wakeup of m_condition is lost.
AcceptedTasksRun == \A x \in Tasks : x \in accepted ~> x \in done

\* The destructor returns: no worker goes to sleep after the last notification, as one
\* that tested m_stop just before it was set would (line 31, under m_mutex).
DestructorReturns == owner = "joining" ~> owner = "gone"

\* The one way waitAll can sleep on over an idle pool is the decrement and
\* notification outside m_mutex (lines 21-22) falling between its test and its sleep.
WaitAllWakes ==
  (waiter = "asleep" /\ queue = <<>> /\ active = 0) ~>
    (waiter # "asleep" \/ queue # <<>> \/ active # 0 \/ missed)
=============================================================================
