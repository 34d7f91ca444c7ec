------------------------ MODULE ServerLifecycle_proofs ------------------------
(***************************************************************************)
(* Theorems about ProcessMonitor, for any number of callers and processes, *)
(* and about ServerLifecycle, for any number of restart threads, any       *)
(* processes and any limit on attempts.  The manager's steps are steps of  *)
(* the process monitor, so what is proved of that carries over.            *)
(***************************************************************************)
EXTENDS ServerLifecycle, TLAPS
-----------------------------------------------------------------------------
(* The process monitor: what makes its safety inductive.                   *)

\* At most one caller is inside a locked operation.
OneHolder ==
  \A t, u \in Callers : pc[t] # "idle" /\ pc[u] # "idle" => t = u

\* A live server is the tracked one, behind a state that admits to it.
Tracked ==
  \A p \in Up : /\ p = pid
                /\ \/ mstate \in {"Running", "Stopping"}
                   \/ \E t \in Callers : pc[t] = "launch"

\* A start keeps its own state, and has not forked over a live server; a kill
\* that has signalled leaves none.
StartsClean ==
  \A t \in Callers :
    /\ pc[t] \in {"fork", "launch"} => mstate = "Starting"
    /\ pc[t] \in {"fork", "kill"} => Up = {}

\* From the monitor's read of m_processId to its last write nobody starts a server,
\* the pid read is the tracked one or was killed, and a verdict of death is right.
VerdictHolds ==
  /\ monPc \in ReportWindow => ~StartInProgress
  /\ monPc = "wait" => pid \in {monPid, NoPid}
  /\ monPc \in Condemned => Up = {}

\* What holds as long as no start has overlapped a report or been accepted in Stopping.
Orderly == Tracked /\ StartsClean /\ VerdictHolds

IInv == TypeOK /\ OneHolder /\ (excuse = {} => Orderly)
-----------------------------------------------------------------------------

\* Every step keeps the type invariant.
LEMMA TypeStep == TypeOK /\ [Next]_vars => TypeOK'
<1> SUFFICES ASSUME TypeOK, [Next]_vars
             PROVE  TypeOK'
  OBVIOUS
<1> USE DEF TypeOK, States, ProcStates, CallerPcs, MonitorPcs, Excuses
<1>1. ASSUME NEW t \in Callers, StartAccepted(t)
      PROVE  TypeOK'
  BY <1>1 DEF StartAccepted, StartExcuse, Goto, monVars
<1>2. ASSUME NEW t \in Callers, StopProcess(t)
      PROVE  TypeOK'
  BY <1>2 DEF StopProcess, Goto, monVars
<1>3. ASSUME NEW t \in Callers, KillSignalled(t)
      PROVE  TypeOK'
  BY <1>3 DEF KillSignalled, Goto, monVars, Up
<1>4. ASSUME NEW t \in Callers, CallerStep(t)
      PROVE  TypeOK'
  <2>1. CASE Fork(t)
    BY <2>1 DEF Fork, Goto, monVars
  <2>2. CASE ForkFailed(t) \/ Launched(t)
    BY <2>2 DEF ForkFailed, Launched, Goto, monVars
  <2>3. CASE KillStored(t)
    BY <2>3 DEF KillStored, Goto, monVars
  <2>4. CASE Notified(t)
    BY <2>4 DEF Notified, Goto, monVars
  <2> QED
    BY <1>4, <2>1, <2>2, <2>3, <2>4 DEF CallerStep
<1>5. CASE MonitorStart \/ MonitorStop
  BY <1>5 DEF MonitorStart, MonitorStop, monVars
<1>6. CASE MonitorExit \/ MonitorPoll \/ MonitorLoad
  BY <1>6 DEF MonitorExit, MonitorPoll, MonitorLoad
<1>7. CASE MonitorWait
  BY <1>7 DEF MonitorWait, Conclude
<1>8. CASE MonitorDecide \/ MonitorStore \/ MonitorReport
  BY <1>8 DEF MonitorDecide, MonitorStore, MonitorReport
<1>9. CASE MonitorCalledBack \/ MonitorClear
  BY <1>9 DEF MonitorCalledBack, MonitorClear
<1>10. ASSUME NEW p \in Pids, Exit(p)
       PROVE  TypeOK'
  BY <1>10 DEF Exit, monVars
<1>11. CASE UNCHANGED vars
  BY <1>11 DEF vars, monVars
<1> QED
  BY <1>1, <1>2, <1>3, <1>4, <1>5, <1>6, <1>7, <1>8, <1>9, <1>10, <1>11
     DEF Next, MonitorStep

\* The type invariant: no step of a caller, of the monitor thread or of a child
\* leaves a variable outside its domain, and the monitor stores Stopped or Crashed
\* and nothing else (ProcessMonitor.cpp:191-196).
THEOREM TypeCorrect == Spec => []TypeOK
<1>1. Init => TypeOK
  BY DEF Init, TypeOK, States, ProcStates, CallerPcs, MonitorPcs, Excuses
<1> QED
  BY <1>1, TypeStep, PTL DEF Spec

-----------------------------------------------------------------------------

\* m_mutex: an operation begins only when no other is inside one.
LEMMA HolderStep == TypeOK /\ OneHolder /\ [Next]_vars => OneHolder'
<1> SUFFICES ASSUME TypeOK, OneHolder, [Next]_vars
             PROVE  OneHolder'
  OBVIOUS
<1> USE DEF OneHolder
<1>1. ASSUME NEW t \in Callers,
             StartAccepted(t) \/ StopProcess(t) \/ KillSignalled(t)
      PROVE  OneHolder'
  BY <1>1 DEF TypeOK, StartAccepted, StopProcess, KillSignalled, LockFree, Goto
<1>2. ASSUME NEW t \in Callers, CallerStep(t)
      PROVE  OneHolder'
  <2>1. pc[t] # "idle" /\ \E l \in CallerPcs : pc' = [pc EXCEPT ![t] = l]
    BY <1>2 DEF CallerStep, Fork, ForkFailed, Launched, KillStored, Notified, Goto, CallerPcs
  <2> QED
    BY <2>1 DEF TypeOK
<1>3. CASE UNCHANGED pc
  BY <1>3
<1> QED
  BY <1>1, <1>2, <1>3
     DEF Next, MonitorStart, MonitorStop, MonitorStep, MonitorExit, MonitorPoll,
         MonitorLoad, MonitorWait, Conclude, MonitorDecide, MonitorStore,
         MonitorReport, MonitorCalledBack, MonitorClear, Exit, vars

\* A step that gives no new excuse keeps the books in order.
LEMMA OrderlyStep ==
  ASSUME TypeOK, OneHolder, Orderly, excuse = {}, [Next]_vars, excuse' = {}
  PROVE  Orderly'
<1> USE DEF Orderly, Tracked, StartsClean, VerdictHolds, Up, StartInProgress,
            ReportWindow, Condemned
<1>1. ASSUME NEW t \in Callers, StartAccepted(t)
      PROVE  Orderly'
  <2>1. mstate # "Stopping" /\ monPc \notin ReportWindow
    BY <1>1 DEF StartAccepted, StartExcuse
  <2>2. Up = {}
    BY <1>1, <2>1 DEF StartAccepted, LockFree
  <2>3. UNCHANGED <<pid, proc, monPc, monPid>> /\ mstate' = "Starting"
        /\ pc' = [pc EXCEPT ![t] = "fork"] /\ LockFree
    BY <1>1 DEF StartAccepted, Goto, monVars
  <2> QED
    BY <2>1, <2>2, <2>3 DEF TypeOK, LockFree
<1>2. ASSUME NEW t \in Callers, Fork(t)
      PROVE  Orderly'
  <2>1. PICK p \in Pids : /\ proc[p] = "unborn"
                          /\ proc' = [proc EXCEPT ![p] = "up"]
                          /\ pid' = p
    BY <1>2 DEF Fork
  <2>2. /\ pc[t] = "fork" /\ pc' = [pc EXCEPT ![t] = "launch"]
        /\ UNCHANGED <<mstate, monPc, monPid>>
    BY <1>2 DEF Fork, Goto, monVars
  <2>3. Up = {} /\ mstate = "Starting" /\ monPc \notin ReportWindow
    BY <2>2
  <2>4. pc'[t] = "launch" /\ \A u \in Callers : u # t => pc'[u] = "idle"
    BY <2>2 DEF TypeOK, OneHolder
  <2>5. \A q \in Up' : q = p
    BY <2>1, <2>3 DEF TypeOK
  <2> QED
    BY <2>1, <2>2, <2>3, <2>4, <2>5
<1>3. ASSUME NEW t \in Callers,
             ForkFailed(t) \/ Launched(t) \/ KillStored(t) \/ Notified(t)
      PROVE  Orderly'
  <2>1. /\ UNCHANGED <<pid, proc, monPc, monPid>>
        /\ pc[t] # "idle"
        /\ \E l \in CallerPcs \ {"fork", "launch", "kill"} : pc' = [pc EXCEPT ![t] = l]
    BY <1>3 DEF ForkFailed, Launched, KillStored, Notified, Goto, monVars, CallerPcs
  <2>2. \A u \in Callers : u # t => pc'[u] = "idle"
    BY <2>1 DEF TypeOK, OneHolder
  <2>3. pc'[t] \notin {"fork", "launch", "kill"}
    BY <2>1 DEF TypeOK
  <2>4. Up # {} => mstate' \in {"Running", "Stopping"}
    BY <1>3, <2>2 DEF ForkFailed, Launched, KillStored, Notified, TypeOK, OneHolder
  <2> QED
    BY <2>1, <2>2, <2>3, <2>4
<1>4. ASSUME NEW t \in Callers, StopProcess(t)
      PROVE  Orderly'
  BY <1>4 DEF StopProcess, LockFree, Goto, monVars, TypeOK
<1>5. ASSUME NEW t \in Callers, KillSignalled(t)
      PROVE  Orderly'
  <2>1. /\ LockFree /\ pc' = [pc EXCEPT ![t] = "kill"] /\ pid' = NoPid
        /\ UNCHANGED <<mstate, monPc, monPid>>
    BY <1>5 DEF KillSignalled, Goto, monVars
  <2>2. Up' = {}
    BY <1>5 DEF KillSignalled, TypeOK
  <2> QED
    BY <2>1, <2>2 DEF LockFree, TypeOK
<1>6. CASE MonitorStart \/ MonitorStop \/ MonitorExit \/ MonitorPoll
  BY <1>6 DEF MonitorStart, MonitorStop, MonitorExit, MonitorPoll, monVars
<1>7. CASE MonitorLoad
  <2>1. ~StartInProgress
    BY <1>7 DEF MonitorLoad
  <2>2. pid = NoPid => Up = {}
    BY NoPidAssumption
  <2> QED
    BY <1>7, <2>1, <2>2 DEF MonitorLoad
<1>8. CASE MonitorWait
  <2>1. UNCHANGED <<mstate, pid, pc>> /\ monPc = "wait" /\ Up' = Up
    BY <1>8 DEF MonitorWait, Conclude, TypeOK
  <2>2. monPc' \in {"poll", "decide"}
    BY <1>8 DEF MonitorWait, Conclude
  <2>3. monPc' = "decide" => Up = {}
    BY <1>8, <2>1, NoPidAssumption DEF MonitorWait, Conclude, TypeOK
  <2> QED
    BY <2>1, <2>2, <2>3
<1>9. CASE MonitorDecide \/ MonitorStore \/ MonitorReport \/ MonitorCalledBack
  BY <1>9 DEF MonitorDecide, MonitorStore, MonitorReport, MonitorCalledBack
<1>10. CASE MonitorClear
  BY <1>10 DEF MonitorClear
<1>11. ASSUME NEW p \in Pids, Exit(p)
       PROVE  Orderly'
  <2>1. Up' \subseteq Up /\ UNCHANGED <<mstate, pid, pc, monPc, monPid>>
    BY <1>11 DEF Exit, TypeOK, monVars
  <2> QED
    BY <2>1
<1>12. CASE UNCHANGED vars
  BY <1>12 DEF vars, monVars
<1> QED
  BY <1>1, <1>2, <1>3, <1>4, <1>5, <1>6, <1>7, <1>8, <1>9, <1>10, <1>11, <1>12
     DEF Next, CallerStep, MonitorStep

\* An excuse is never taken back.
LEMMA ExcuseGrows == [Next]_vars => excuse \subseteq excuse'
  BY DEF Next, vars, monVars, StartAccepted, StopProcess, KillSignalled, CallerStep,
         Fork, ForkFailed, Launched, KillStored, Notified, MonitorStart, MonitorStop,
         MonitorStep, MonitorExit, MonitorPoll, MonitorLoad, MonitorWait, Conclude,
         MonitorDecide, MonitorStore, MonitorReport, MonitorCalledBack, MonitorClear, Exit

\* The inductive invariant holds of every behaviour.
LEMMA Inductive == Spec => []IInv
<1>1. Init => IInv
  BY DEF Init, IInv, TypeOK, States, ProcStates, CallerPcs, MonitorPcs, Excuses, OneHolder,
         Orderly, Tracked, StartsClean, VerdictHolds, Up, StartInProgress, ReportWindow,
         Condemned
<1>2. IInv /\ [Next]_vars => IInv'
  BY TypeStep, HolderStep, OrderlyStep, ExcuseGrows DEF IInv
<1> QED
  BY <1>1, <1>2, PTL DEF Spec

\* A live server is the one m_processId names, behind a state that admits to it,
\* unless a start overlapped the monitor's report or was accepted in Stopping.
THEOREM LiveTracked == Spec => []LiveServerIsTracked
<1>1. IInv => LiveServerIsTracked
  BY DEF IInv, Orderly, Tracked, LiveServerIsTracked
<1> QED
  BY <1>1, Inductive, PTL

\* Outside the monitor's report, m_processId never names a child waitpid has reaped,
\* so killProcess signals a process of ours or none.
THEOREM TrackedPidOurs == Spec => []TrackedPidIsOurChild
<1>1. Init => TrackedPidIsOurChild
  BY DEF Init, TrackedPidIsOurChild
<1>2. TypeOK /\ TrackedPidIsOurChild /\ [Next]_vars => TrackedPidIsOurChild'
  <2> SUFFICES ASSUME TypeOK, TrackedPidIsOurChild, [Next]_vars
               PROVE  TrackedPidIsOurChild'
    OBVIOUS
  <2> USE DEF TrackedPidIsOurChild, Condemned, monVars, TypeOK
  <2>1. ASSUME NEW t \in Callers,
               StartAccepted(t) \/ StopProcess(t) \/ KillSignalled(t) \/ CallerStep(t)
        PROVE  TrackedPidIsOurChild'
    BY <2>1 DEF StartAccepted, StopProcess, KillSignalled, CallerStep, Fork, ForkFailed,
                Launched, KillStored, Notified
  <2>2. CASE MonitorStart \/ MonitorStop \/ MonitorExit \/ MonitorPoll \/ MonitorLoad
    BY <2>2 DEF MonitorStart, MonitorStop, MonitorExit, MonitorPoll, MonitorLoad
  <2>3. CASE MonitorWait
    BY <2>3 DEF MonitorWait, Conclude
  <2>4. CASE \/ MonitorDecide \/ MonitorStore \/ MonitorReport
             \/ MonitorCalledBack \/ MonitorClear
    BY <2>4 DEF MonitorDecide, MonitorStore, MonitorReport, MonitorCalledBack, MonitorClear
  <2>5. ASSUME NEW p \in Pids, Exit(p)
        PROVE  TrackedPidIsOurChild'
    BY <2>5 DEF Exit
  <2>6. CASE UNCHANGED vars
    BY <2>6 DEF vars
  <2> QED
    BY <2>1, <2>2, <2>3, <2>4, <2>5, <2>6 DEF Next, MonitorStep
<1> QED
  BY <1>1, <1>2, TypeCorrect, PTL DEF Spec

-----------------------------------------------------------------------------
(* The refinement of SupervisedServer.                                     *)

Retired == {p \in Pids : proc[p] \in {"dying", "zombie", "reaped"}}

\* The three ways an orderly step can look from outside, or it changes nothing seen.
Visible ==
  \/ /\ UNCHANGED <<Up, Retired>>
     /\ mstate' \in States
     /\ mstate' \in {"Stopped", "Crashed", "Starting"} => Up = {} \/ mstate' = mstate
  \/ /\ Up # {} /\ Up' = {} /\ Retired' = Retired \cup Up
     /\ UNCHANGED mstate
  \/ /\ \E p \in Pids : Up = {} /\ p \notin Retired /\ Up' = {p}
     /\ mstate = "Starting"
     /\ UNCHANGED <<Retired, mstate>>

LEMMA OrderlyStepVisible ==
  ASSUME TypeOK, OneHolder, Orderly, excuse = {}, [Next]_vars, excuse' = {}
  PROVE  Visible
<1> USE DEF Visible, States, Up, Retired
<1>1. ASSUME NEW t \in Callers, StartAccepted(t)
      PROVE  Visible
  <2>1. Up = {}
    BY <1>1 DEF StartAccepted, StartExcuse, LockFree, Orderly, Tracked
  <2> QED
    BY <1>1, <2>1 DEF StartAccepted
<1>2. ASSUME NEW t \in Callers, Fork(t)
      PROVE  Visible
  <2>1. PICK p \in Pids : proc[p] = "unborn" /\ proc' = [proc EXCEPT ![p] = "up"]
    BY <1>2 DEF Fork
  <2>2. Up = {} /\ mstate = "Starting" /\ mstate' = mstate
    BY <1>2 DEF Fork, Orderly, StartsClean
  <2>3. Up' = {p} /\ Retired' = Retired /\ p \notin Retired
    BY <2>1, <2>2 DEF TypeOK
  <2> QED
    BY <2>2, <2>3
<1>3. ASSUME NEW t \in Callers, ForkFailed(t) \/ Launched(t) \/ KillStored(t) \/ Notified(t)
      PROVE  Visible
  BY <1>3 DEF ForkFailed, Launched, KillStored, Notified, Orderly, StartsClean, TypeOK
<1>4. ASSUME NEW t \in Callers, StopProcess(t)
      PROVE  Visible
  BY <1>4 DEF StopProcess
<1>5. ASSUME NEW t \in Callers, KillSignalled(t)
      PROVE  Visible
  <2>1. mstate' = mstate /\ mstate \in States
    BY <1>5 DEF KillSignalled, TypeOK
  <2>2. CASE pid \in Up
    <3>1. Up = {pid}
      BY <2>2 DEF Orderly, Tracked
    <3>2. proc' = [proc EXCEPT ![pid] = "dying"]
      BY <1>5, <2>2 DEF KillSignalled
    <3>3. Up' = {} /\ Retired' = Retired \cup Up
      BY <3>1, <3>2 DEF TypeOK
    <3> QED
      BY <2>1, <3>1, <3>3
  <2>3. CASE pid \notin Up
    BY <1>5, <2>1, <2>3 DEF KillSignalled
  <2> QED
    BY <2>2, <2>3
<1>6. CASE MonitorStart \/ MonitorStop \/ MonitorExit \/ MonitorPoll \/ MonitorLoad
  BY <1>6 DEF MonitorStart, MonitorStop, MonitorExit, MonitorPoll, MonitorLoad, TypeOK
<1>7. CASE MonitorWait
  BY <1>7 DEF MonitorWait, Conclude, TypeOK
<1>8. CASE MonitorDecide \/ MonitorReport \/ MonitorCalledBack \/ MonitorClear
  BY <1>8 DEF MonitorDecide, MonitorReport, MonitorCalledBack, MonitorClear, TypeOK
<1>9. CASE MonitorStore
  BY <1>9 DEF MonitorStore, Orderly, VerdictHolds, Condemned, TypeOK
<1>10. ASSUME NEW p \in Pids, Exit(p)
       PROVE  Visible
  <2>1. /\ proc' = [proc EXCEPT ![p] = "zombie"]
        /\ proc[p] \in {"up", "dying"}
        /\ mstate' = mstate /\ mstate \in States
    BY <1>10 DEF Exit, TypeOK
  <2>2. CASE proc[p] = "up"
    <3>1. Up = {p}
      BY <2>2 DEF Orderly, Tracked
    <3> QED
      BY <2>1, <3>1 DEF TypeOK
  <2>3. CASE proc[p] = "dying"
    BY <2>1, <2>3 DEF TypeOK
  <2> QED
    BY <2>1, <2>2, <2>3
<1>11. CASE UNCHANGED vars
  BY <1>11 DEF vars, TypeOK
<1> QED
  BY <1>1, <1>2, <1>3, <1>4, <1>5, <1>6, <1>7, <1>8, <1>9, <1>10, <1>11
     DEF Next, CallerStep, MonitorStep

\* The monitor implements SupervisedServer: one server at a time, none launched over
\* a live one, none alive behind Stopped or Crashed, as long as nothing is excused.
THEOREM Implements == Spec => OneServerAtATime
<1> USE DEF Up, Retired
<1>1. Init => Supervised!Init
  BY DEF Init, Supervised!Init
<1>2. IInv /\ [Next]_vars => [Supervised!Next]_(Supervised!vars)
  <2> SUFFICES ASSUME IInv, [Next]_vars
               PROVE  [Supervised!Next]_(Supervised!vars)
    OBVIOUS
  <2>1. CASE excuse' = {}
    <3>1. excuse = {}
      BY <2>1, ExcuseGrows
    <3>2. Visible
      BY <2>1, <3>1, OrderlyStepVisible DEF IInv
    <3> QED
      BY <2>1, <3>1, <3>2
         DEF Visible, States, Supervised!Next, Supervised!vars, Supervised!Show,
             Supervised!End, Supervised!Launch, Supervised!Gone
  <2>2. CASE excuse' # {}
    BY <2>2 DEF Supervised!Next
  <2> QED
    BY <2>1, <2>2
<1> QED
  BY <1>1, <1>2, Inductive, PTL DEF Spec, OneServerAtATime, Supervised!Spec
-----------------------------------------------------------------------------
(* The server manager on top of it.                                        *)

\* The manager never asks for a graceful stop of the process.
NeverStopping ==
  /\ mstate # "Stopping" /\ monArg # "Stopping"
  /\ \A t \in Callers : pc[t] # "cbStopping"

\* Who is killing for stopServer or the countdown is inside killProcess.
KillsInside == \A t \in Callers : job[t] = "killing" => pc[t] \in {"kill", "cbStopped"}

\* A kill that reports still leaves no live server.
KilledClean == excuse = {} => \A t \in Callers : pc[t] = "cbStopped" => Up = {}

\* While an increment is under way the counter is the one compared, or was reset.
CountIsCompared ==
  cb.at = "bump" => cb.seen < MaxAttempts /\ attempts \in {0, cb.seen}

LInv ==
  IInv /\ LTypeOK /\ NeverStopping /\ KillsInside /\ KilledClean /\ CountIsCompared
-----------------------------------------------------------------------------

\* Every step of the composition is one of the process monitor, or none.
LEMMA LStepIsStep == [LNext]_lvars => [Next]_vars
<1> SUFFICES ASSUME [LNext]_lvars
             PROVE  [Next]_vars
  OBVIOUS
<1> UI \in Callers /\ Restarters \subseteq Callers
  BY CallersAssumption
<1>1. CASE MonitorStart \/ MonitorContinues
  BY <1>1 DEF MonitorContinues, MonitorNotifies, CompareAttempts, SpawnRestart, Next,
              MonitorStep
<1>2. ASSUME NEW t \in Callers, CallerContinues(t)
      PROVE  [Next]_vars
  BY <1>2 DEF CallerContinues, CallerNotified, CheckRunning, KillNow, Next, CallerStep
<1>3. ASSUME NEW r \in Restarters, RestarterFires(r)
      PROVE  [Next]_vars
  BY <1>3 DEF RestarterFires, Next
<1>4. CASE StartServer \/ ForceKill \/ RestartLaunches
  BY <1>4 DEF StartServer, ForceKill, RestartLaunches, Next
<1>5. CASE EnableAutoRestart \/ JoinCountdown \/ CountdownEnds
  BY <1>5 DEF EnableAutoRestart, JoinCountdown, CountdownEnds
<1>6. ASSUME NEW graceful \in BOOLEAN, NEW again \in BOOLEAN, StopServer(graceful, again)
      PROVE  [Next]_vars
  BY <1>6 DEF StopServer
<1>7. ASSUME NEW p \in Pids, Exit(p)
      PROVE  [Next]_vars
  BY <1>7 DEF Next
<1>8. CASE UNCHANGED lvars
  BY <1>8 DEF lvars
<1> QED
  BY <1>1, <1>2, <1>3, <1>4, <1>5, <1>6, <1>7, <1>8 DEF LNext

\* The process monitor's invariant is kept.
LEMMA MonitorInvStep == IInv /\ [Next]_vars => IInv'
<1> SUFFICES ASSUME IInv, [Next]_vars
             PROVE  IInv'
  OBVIOUS
<1>1. TypeOK' /\ OneHolder'
  BY TypeStep, HolderStep DEF IInv
<1>2. excuse' = {} => Orderly'
  BY OrderlyStep, ExcuseGrows DEF IInv
<1> QED
  BY <1>1, <1>2 DEF IInv

LEMMA LInitial == LInit => LInv
<1> SUFFICES ASSUME LInit
             PROVE  LInv
  OBVIOUS
<1>1. IInv
  BY DEF LInit, Init, IInv, TypeOK, States, ProcStates, CallerPcs, MonitorPcs, Excuses,
         OneHolder, Orderly, Tracked, StartsClean, VerdictHolds, Up, StartInProgress,
         ReportWindow, Condemned
<1>2. LTypeOK
  <2>1. 0 \in 0..MaxAttempts
    BY LimitsAssumption
  <2>2. cb \in [at : {"none", "bump"}, seen : 0..MaxAttempts]
    BY <2>1 DEF LInit, NoCount
  <2>3. job \in [Callers -> Jobs]
    BY DEF LInit, Jobs
  <2>4. TypeOK /\ attempts = 0 /\ autoRestart \in BOOLEAN /\ restart \in BOOLEAN
    BY <1>1 DEF IInv, LInit
  <2> QED
    BY <2>1, <2>2, <2>3, <2>4 DEF LTypeOK
<1> QED
  BY <1>1, <1>2 DEF LInit, Init, LInv, NeverStopping, KillsInside, KilledClean,
                    CountIsCompared, NoCount
-----------------------------------------------------------------------------

\* Every step keeps the manager's variables in their domains; the counter passes its
\* limit neither by the increment of the value compared nor by that of the value reset.
LEMMA LTypeStep == LInv /\ [LNext]_lvars => LTypeOK'
<1> SUFFICES ASSUME LInv, [LNext]_lvars
             PROVE  LTypeOK'
  OBVIOUS
<1> UI \in Callers /\ Countdown \in Callers /\ Restarters \subseteq Callers
  BY CallersAssumption
<1> MaxAttempts \in Nat /\ 0 \in 0..MaxAttempts
  BY LimitsAssumption
<1> TypeOK'
  BY LStepIsStep, MonitorInvStep DEF LInv, IInv
<1> USE DEF LInv, LTypeOK, Become, AfterStop, ResetAttempts, managerVars
<1>1. CASE (\E t \in Callers : CallerNotified(t)) \/ MonitorNotifies
  BY <1>1 DEF CallerNotified, MonitorNotifies, Jobs
<1>2. CASE CompareAttempts
  BY <1>2 DEF CompareAttempts
<1>3. ASSUME NEW r \in Restarters, SpawnRestart(r)
      PROVE  LTypeOK'
  <2>1. attempts' \in 0..MaxAttempts
    BY <1>3 DEF SpawnRestart, CountIsCompared
  <2>2. cb' \in [at : {"none", "bump"}, seen : 0..MaxAttempts]
    BY <1>3 DEF SpawnRestart, NoCount
  <2>3. job' \in [Callers -> Jobs] /\ UNCHANGED <<autoRestart, restart>>
    BY <1>3 DEF SpawnRestart, Jobs
  <2> QED
    BY <2>1, <2>2, <2>3
<1>4. ASSUME NEW t \in Callers, CheckRunning(t) \/ KillNow(t) \/ RestarterFires(t)
      PROVE  LTypeOK'
  BY <1>4 DEF CheckRunning, KillNow, RestarterFires, Jobs
<1>5. CASE StartServer \/ EnableAutoRestart
  BY <1>5 DEF StartServer, EnableAutoRestart
<1>6. ASSUME NEW graceful \in BOOLEAN, NEW again \in BOOLEAN, StopServer(graceful, again)
      PROVE  LTypeOK'
  BY <1>6 DEF StopServer, Jobs
<1>7. CASE JoinCountdown \/ RestartLaunches \/ CountdownEnds
  BY <1>7 DEF JoinCountdown, RestartLaunches, CountdownEnds, Jobs
<1>8. CASE UNCHANGED managerVars
  BY <1>8
<1> QED
  BY <1>1, <1>2, <1>3, <1>4, <1>5, <1>6, <1>7, <1>8
     DEF LNext, MonitorContinues, CallerContinues, ForceKill, lvars

\* Nothing the manager calls puts the process in Stopping.
LEMMA NeverStoppingStep == LInv /\ [LNext]_lvars => NeverStopping'
<1> SUFFICES ASSUME LInv, [LNext]_lvars
             PROVE  NeverStopping'
  OBVIOUS
<1> UI \in Callers /\ Restarters \subseteq Callers
  BY CallersAssumption
<1> USE DEF LInv, NeverStopping, LTypeOK, TypeOK, Goto, monVars
<1>1. ASSUME NEW t \in Callers, StartAccepted(t) \/ KillSignalled(t)
      PROVE  NeverStopping'
  BY <1>1 DEF StartAccepted, KillSignalled
<1>2. ASSUME NEW t \in Callers, CallerStep(t)
      PROVE  NeverStopping'
  BY <1>2 DEF CallerStep, Fork, ForkFailed, Launched, KillStored, Notified
<1>3. CASE MonitorStart \/ MonitorPoll \/ MonitorLoad \/ MonitorWait
  BY <1>3 DEF MonitorStart, MonitorPoll, MonitorLoad, MonitorWait, Conclude
<1>4. CASE \/ MonitorDecide \/ MonitorStore \/ MonitorReport
           \/ MonitorCalledBack \/ MonitorClear
  BY <1>4 DEF MonitorDecide, MonitorStore, MonitorReport, MonitorCalledBack, MonitorClear
<1>5. ASSUME NEW p \in Pids, Exit(p)
      PROVE  NeverStopping'
  BY <1>5 DEF Exit
<1>6. CASE UNCHANGED vars
  BY <1>6 DEF vars
<1> QED
  BY <1>1, <1>2, <1>3, <1>4, <1>5, <1>6 DEF
     LNext, MonitorContinues, MonitorNotifies, CompareAttempts, SpawnRestart,
     CallerContinues, CallerNotified, CallerStep, CheckRunning, KillNow, RestarterFires,
     StartServer, ForceKill, EnableAutoRestart, StopServer, JoinCountdown,
     RestartLaunches, CountdownEnds, lvars

\* A step taken for stopServer or the countdown outside the lock leaves killers alone.
LEMMA KillsInsideStep == LInv /\ [LNext]_lvars => KillsInside'
<1> SUFFICES ASSUME LInv, [LNext]_lvars
             PROVE  KillsInside'
  OBVIOUS
<1> UI \in Callers /\ Countdown \in Callers /\ Restarters \subseteq Callers
  BY CallersAssumption
<1> USE DEF LInv, KillsInside, LTypeOK, TypeOK, Become, Goto, AfterStop, managerVars
<1>1. CASE (MonitorStart \/ MonitorContinues) /\ UNCHANGED <<pc, job>>
  BY <1>1
<1>2. ASSUME NEW r \in Restarters, SpawnRestart(r)
      PROVE  KillsInside'
  BY <1>2 DEF SpawnRestart, MonitorCalledBack
<1>3. ASSUME NEW t \in Callers,
             Fork(t) \/ ForkFailed(t) \/ Launched(t) \/ KillStored(t), UNCHANGED managerVars
      PROVE  KillsInside'
  BY <1>3 DEF Fork, ForkFailed, Launched, KillStored
<1>4. ASSUME NEW t \in Callers, CallerNotified(t)
      PROVE  KillsInside'
  BY <1>4 DEF CallerNotified, Notified
<1>5. ASSUME NEW t \in Callers, CheckRunning(t) \/ KillNow(t)
      PROVE  KillsInside'
  BY <1>5 DEF CheckRunning, KillNow, KillSignalled, LockFree, vars
<1>6. ASSUME NEW r \in Restarters, RestarterFires(r)
      PROVE  KillsInside'
  BY <1>6 DEF RestarterFires, StartAccepted, LockFree, vars
<1>7. CASE StartServer \/ ForceKill \/ EnableAutoRestart
  BY <1>7 DEF StartServer, ForceKill, EnableAutoRestart, StartAccepted, KillSignalled,
              LockFree, vars
<1>8. ASSUME NEW graceful \in BOOLEAN, NEW again \in BOOLEAN, StopServer(graceful, again)
      PROVE  KillsInside'
  BY <1>8 DEF StopServer, vars
<1>9. CASE JoinCountdown \/ CountdownEnds
  BY <1>9 DEF JoinCountdown, CountdownEnds, vars
<1>10. CASE RestartLaunches
  BY <1>10 DEF RestartLaunches, StartAccepted, LockFree, vars
<1>11. ASSUME NEW p \in Pids, Exit(p), UNCHANGED managerVars
       PROVE  KillsInside'
  BY <1>11 DEF Exit
<1>12. CASE UNCHANGED lvars
  BY <1>12 DEF lvars, vars
<1>13. MonitorStart /\ UNCHANGED managerVars => UNCHANGED <<pc, job>>
  BY DEF MonitorStart
<1>14. MonitorContinues => UNCHANGED <<pc, job>> \/ \E r \in Restarters : SpawnRestart(r)
  BY DEF MonitorContinues, MonitorNotifies, CompareAttempts, MonitorPoll, MonitorLoad,
         MonitorWait, Conclude, MonitorDecide, MonitorStore, MonitorReport,
         MonitorCalledBack, MonitorClear, vars
<1> QED
  BY <1>1, <1>2, <1>3, <1>4, <1>5, <1>6, <1>7, <1>8, <1>9, <1>10, <1>11, <1>12, <1>13,
     <1>14 DEF LNext, CallerContinues

\* Between the kill and its report nobody forks: the killer holds m_mutex.
LEMMA KilledCleanStep == IInv /\ KilledClean /\ [Next]_vars => KilledClean'
<1> SUFFICES ASSUME IInv, KilledClean, [Next]_vars, excuse' = {},
                    NEW t \in Callers, pc'[t] = "cbStopped"
             PROVE  Up' = {}
  BY DEF KilledClean
<1> excuse = {}
  BY ExcuseGrows
<1> TypeOK /\ OneHolder /\ StartsClean
  BY DEF IInv, Orderly
<1> USE DEF KilledClean, TypeOK, Up, Goto, monVars
<1>1. ASSUME NEW u \in Callers, StartAccepted(u) \/ StopProcess(u) \/ KillSignalled(u)
      PROVE  Up' = {}
  BY <1>1 DEF StartAccepted, StopProcess, KillSignalled, LockFree
<1>2. ASSUME NEW u \in Callers, KillStored(u)
      PROVE  Up' = {}
  BY <1>2 DEF KillStored, StartsClean, OneHolder
<1>3. ASSUME NEW u \in Callers, Fork(u)
      PROVE  Up' = {}
  BY <1>3 DEF Fork, OneHolder
<1>4. ASSUME NEW u \in Callers, ForkFailed(u) \/ Launched(u) \/ Notified(u)
      PROVE  Up' = {}
  BY <1>4 DEF ForkFailed, Launched, Notified
<1>5. CASE MonitorWait
  BY <1>5 DEF MonitorWait, Conclude
<1>6. ASSUME NEW p \in Pids, Exit(p)
      PROVE  Up' = {}
  BY <1>6 DEF Exit
<1>7. CASE UNCHANGED <<pc, proc>>
  BY <1>7
<1> QED
  BY <1>1, <1>2, <1>3, <1>4, <1>5, <1>6, <1>7
     DEF Next, CallerStep, MonitorStep, MonitorStart, MonitorStop, MonitorExit, MonitorPoll,
         MonitorLoad, MonitorDecide, MonitorStore, MonitorReport, MonitorCalledBack,
         MonitorClear, vars

\* The increment under way finds the value it compared, or the zero of a launch.
LEMMA CountStep == LInv /\ [LNext]_lvars => CountIsCompared'
<1> SUFFICES ASSUME LInv, [LNext]_lvars
             PROVE  CountIsCompared'
  OBVIOUS
<1> MaxAttempts \in Nat /\ attempts \in 0..MaxAttempts
  BY LimitsAssumption DEF LInv, LTypeOK
<1> USE DEF LInv, CountIsCompared
<1>1. CASE CompareAttempts
  <2>1. CASE attempts >= MaxAttempts
    BY <1>1, <2>1 DEF CompareAttempts
  <2>2. CASE attempts < MaxAttempts
    <3>1. cb' = [at |-> "bump", seen |-> attempts] /\ attempts' = attempts
      BY <1>1, <2>2 DEF CompareAttempts
    <3> QED
      BY <2>2, <3>1
  <2> QED
    BY <2>1, <2>2
<1>2. CASE \E r \in Restarters : SpawnRestart(r)
  BY <1>2 DEF SpawnRestart, NoCount
<1>3. CASE UNCHANGED cb /\ (attempts' = 0 \/ UNCHANGED attempts)
  BY <1>3
<1> QED
  BY <1>1, <1>2, <1>3
     DEF LNext, MonitorContinues, MonitorNotifies, ResetAttempts, CallerContinues,
         CallerNotified, CheckRunning, KillNow, RestarterFires, StartServer, ForceKill,
         EnableAutoRestart, StopServer, JoinCountdown, RestartLaunches, CountdownEnds,
         managerVars, lvars

LEMMA LInductive == LSpec => []LInv
<1>1. LInv /\ [LNext]_lvars => LInv'
  BY LStepIsStep, MonitorInvStep, LTypeStep, NeverStoppingStep, KillsInsideStep,
     KilledCleanStep, CountStep DEF LInv
<1> QED
  BY <1>1, LInitial, PTL DEF LSpec

\* The manager's variables stay in their domains; in particular m_restartAttempts never
\* passes server.maxRestartAttempts, although its increment and the reset by a launch
\* share no lock (ServerManager.cpp:170-186).
THEOREM LTypes == LSpec => []LTypeOK
<1>1. LInv => LTypeOK
  BY DEF LInv
<1> QED
  BY <1>1, LInductive, PTL
-----------------------------------------------------------------------------

\* For any number of restart threads: the process monitor under the manager is the one
\* ProcessMonitor specifies, so the composition still implements SupervisedServer, tracks a
\* live server and never takes a stranger's pid for it.
THEOREM ManagerKeepsMonitor ==
  LSpec => OneServerAtATime /\ []LiveServerIsTracked /\ []TrackedPidIsOurChild
<1>1. LInit => Init
  BY DEF LInit
<1>2. LSpec => Spec
  BY <1>1, LStepIsStep, PTL DEF LSpec, Spec
<1> QED
  BY <1>2, Implements, LiveTracked, TrackedPidOurs

\* When stopServer or the countdown thread is done, no server is alive but one whose
\* start was under way, unless a start overlapped the monitor's report of a death
\* (ServerManager.cpp:69-72, 161-163).
THEOREM ShutdownIsClean == LSpec => ShutdownLeavesNoServer
<1> DEFINE Done(t) == /\ job[t] \in {"check", "killing"}
                      /\ job'[t] \in {"idle", "settle"}
           Gone == Up' = {} \/ StartInProgress \/ excuse # {}
<1>1. LInv /\ [LNext]_lvars => [\A t \in {UI, Countdown} : Done(t) => Gone]_lvars
  <2> SUFFICES ASSUME LInv, [LNext]_lvars, NEW t \in {UI, Countdown}, Done(t)
               PROVE  Gone
    OBVIOUS
  <2> /\ UI \in Callers /\ Countdown \in Callers /\ Restarters \subseteq Callers
      /\ t \in Callers /\ t \notin Restarters /\ job \in [Callers -> Jobs]
    BY CallersAssumption DEF LInv, LTypeOK
  <2> USE DEF Become, AfterStop
  <2>1. ASSUME NEW u \in Callers, CallerNotified(u)
        PROVE  Gone
    <3>1. u = t /\ job[t] = "killing" /\ Notified(t) /\ UNCHANGED proc
      BY <2>1 DEF CallerNotified, Notified
    <3>2. pc[t] = "cbStopped"
      BY <3>1 DEF LInv, KillsInside, Notified
    <3> QED
      BY <3>1, <3>2 DEF LInv, KilledClean, Up
  <2>2. ASSUME NEW u \in Callers, CheckRunning(u)
        PROVE  Gone
    <3>1. mstate # "Running" /\ UNCHANGED proc
      BY <2>2 DEF CheckRunning, vars
    <3>2. CASE excuse = {}
      <4>1. Up # {} => StartInProgress
        BY <3>1, <3>2 DEF LInv, NeverStopping, IInv, Orderly, Tracked, StartInProgress
      <4> QED
        BY <3>1, <4>1 DEF Up
    <3> QED
      BY <3>2
  <2>3. ASSUME NEW u \in Callers, KillNow(u)
        PROVE  FALSE
    BY <2>3 DEF KillNow
  <2>4. ASSUME NEW r \in Restarters, SpawnRestart(r) \/ RestarterFires(r)
        PROVE  FALSE
    BY <2>4 DEF SpawnRestart, RestarterFires
  <2>5. CASE StopServer(TRUE, TRUE) \/ StopServer(TRUE, FALSE)
             \/ StopServer(FALSE, TRUE) \/ StopServer(FALSE, FALSE)
    BY <2>5 DEF StopServer, UIFree
  <2>6. CASE JoinCountdown \/ RestartLaunches \/ CountdownEnds
    BY <2>6 DEF JoinCountdown, RestartLaunches, CountdownEnds
  <2>7. CASE UNCHANGED job
    BY <2>7
  <2> QED
    BY <2>1, <2>2, <2>3, <2>4, <2>5, <2>6, <2>7
       DEF LNext, MonitorContinues, MonitorNotifies, CompareAttempts, CallerContinues,
           StartServer, ForceKill, EnableAutoRestart, managerVars, lvars
<1> QED
  BY <1>1, LInductive, PTL DEF LSpec, ShutdownLeavesNoServer
=============================================================================
