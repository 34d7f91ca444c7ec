--------------------------- MODULE ProcessMonitor ---------------------------
(***************************************************************************)
(* server/ProcessMonitor: one child process (the game server), a mutex     *)
(* taken by startProcess, stopProcess and killProcess, and a polling       *)
(* thread that takes no lock.  The POSIX branch is modelled (fork, kill,   *)
(* waitpid with WNOHANG); every read or write of m_state or m_processId    *)
(* the two sides can interleave on is a step of its own.                   *)
(*                                                                         *)
(* The state-change callbacks run inside the steps "cb..." of a caller and *)
(* "callback" of the monitor thread; what ServerManager does in them is    *)
(* added by ServerLifecycle.                                               *)
(***************************************************************************)
CONSTANTS
  Callers,   \* threads that call startProcess, stopProcess or killProcess
  Pids,      \* process ids fork may return, each at most once: bounds the forks
  NoPid      \* m_processId = 0

ASSUME NoPidAssumption == NoPid \notin Pids

VARIABLES
  mstate,     \* m_state
  pid,        \* m_processId
  proc,       \* the operating system's view of each child
  pc,         \* where each caller is inside a locked operation
  monPc,      \* where the monitor thread is in its loop
  monPid,     \* the pid that checkProcess passed its "> 0" test with
  monArg,     \* monitorThread's locals: the state to store, then to report
  monitoring, \* m_monitoring
  excuse      \* history: why the monitor may have lost track of a server

monVars == <<monPc, monPid, monArg>>
vars == <<mstate, pid, proc, pc, monPc, monPid, monArg, monitoring, excuse>>

States == {"Stopped", "Starting", "Running", "Crashed", "Stopping"}

\* unborn: not forked; dying: SIGKILL sent; zombie: exited, not waited for.
ProcStates == {"unborn", "up", "dying", "zombie", "reaped"}

CallerPcs == {"idle", "fork", "launch", "kill", "cbRunning", "cbStopped", "cbStopping"}

MonitorPcs == {"off", "poll", "check", "wait", "decide", "store", "report",
               "callback", "clear"}

\* The monitor has concluded that the server is dead and has not finished saying so.
Condemned == {"decide", "store", "report", "callback", "clear"}

\* From the monitor's read of m_processId to its last write of it.
ReportWindow == Condemned \cup {"wait"}

Excuses == {"overlap", "stopping"}

Up == {p \in Pids : proc[p] = "up"}
LockFree == \A t \in Callers : pc[t] = "idle"
StartInProgress == \E t \in Callers : pc[t] \in {"fork", "launch"}

Init ==
  /\ mstate = "Stopped"
  /\ pid = NoPid
  /\ proc = [p \in Pids |-> "unborn"]
  /\ pc = [t \in Callers |-> "idle"]
  /\ monPc = "off"
  /\ monPid = NoPid
  /\ monArg = "Stopped"
  /\ monitoring = FALSE
  /\ excuse = {}

-----------------------------------------------------------------------------
(* Locked operations.  A caller holds m_mutex exactly while its pc is not  *)
(* "idle"; the lambdas registered with onStateChange run in the cb steps.  *)

Goto(t, l) == pc' = [pc EXCEPT ![t] = l]

StartExcuse == (IF mstate = "Stopping" THEN {"stopping"} ELSE {})
               \cup (IF monPc \in ReportWindow THEN {"overlap"} ELSE {})

\* Variant: the check of m_state is missing.
StartAcceptedAnyState(t) ==
  /\ LockFree
  /\ mstate' = "Starting"
  /\ Goto(t, "fork")
  /\ excuse' = excuse \cup StartExcuse
  /\ UNCHANGED <<pid, proc, monVars, monitoring>>

\* startProcess returns false, changing nothing, only when m_state is Running.
StartAccepted(t) ==
  /\ LockFree
  /\ mstate # "Running"
  /\ mstate' = "Starting"
  /\ Goto(t, "fork")
  /\ excuse' = excuse \cup StartExcuse
  /\ UNCHANGED <<pid, proc, monVars, monitoring>>

\* fork() and m_processId = pid: nothing another thread does can tell them apart.
Fork(t) ==
  /\ pc[t] = "fork"
  /\ \E p \in Pids :
       /\ proc[p] = "unborn"
       /\ proc' = [proc EXCEPT ![p] = "up"]
       /\ pid' = p
  /\ Goto(t, "launch")
  /\ UNCHANGED <<mstate, monVars, monitoring, excuse>>

\* A failed fork stores Stopped without telling the callbacks.
ForkFailed(t) ==
  /\ pc[t] = "fork"
  /\ mstate' = "Stopped"
  /\ Goto(t, "idle")
  /\ UNCHANGED <<pid, proc, monVars, monitoring, excuse>>

Launched(t) ==
  /\ pc[t] = "launch"
  /\ mstate' = "Running"
  /\ Goto(t, "cbRunning")
  /\ UNCHANGED <<pid, proc, monVars, monitoring, excuse>>

StopProcess(t) ==
  /\ LockFree
  /\ mstate = "Running"
  /\ mstate' = "Stopping"
  /\ Goto(t, "cbStopping")
  /\ UNCHANGED <<pid, proc, monVars, monitoring, excuse>>

\* Variant: the pid is forgotten and the process left alone.
KillNoSignal(t) ==
  /\ LockFree
  /\ pid' = NoPid
  /\ Goto(t, "kill")
  /\ UNCHANGED <<mstate, proc, monVars, monitoring, excuse>>

\* killProcess: SIGKILL to the tracked pid, if any, which is then forgotten.
KillSignalled(t) ==
  /\ LockFree
  /\ proc' = IF pid \in Up THEN [proc EXCEPT ![pid] = "dying"] ELSE proc
  /\ pid' = NoPid
  /\ Goto(t, "kill")
  /\ UNCHANGED <<mstate, monVars, monitoring, excuse>>

\* ... and Stopped stored whatever the state was.
KillStored(t) ==
  /\ pc[t] = "kill"
  /\ mstate' = "Stopped"
  /\ Goto(t, "cbStopped")
  /\ UNCHANGED <<pid, proc, monVars, monitoring, excuse>>

\* The callbacks have returned; m_mutex is released.
Notified(t) ==
  /\ pc[t] \in {"cbRunning", "cbStopped", "cbStopping"}
  /\ Goto(t, "idle")
  /\ UNCHANGED <<mstate, pid, proc, monVars, monitoring, excuse>>

-----------------------------------------------------------------------------
(* The monitor thread, which never takes m_mutex.                          *)

MonitorStart ==
  /\ ~monitoring /\ monPc = "off"
  /\ monitoring' = TRUE
  /\ monPc' = "poll"
  /\ UNCHANGED <<mstate, pid, proc, pc, monPid, monArg, excuse>>

\* stop(): the flag is cleared, then the thread is joined (MonitorExit).
MonitorStop ==
  /\ monitoring
  /\ monitoring' = FALSE
  /\ UNCHANGED <<mstate, pid, proc, pc, monVars, excuse>>

MonitorExit ==
  /\ ~monitoring /\ monPc = "poll"
  /\ monPc' = "off"
  /\ UNCHANGED <<mstate, pid, proc, pc, monPid, monArg, monitoring, excuse>>

MonitorPoll ==
  /\ monitoring /\ monPc = "poll"
  /\ mstate \in {"Running", "Stopping"}
  /\ monPc' = "check"
  /\ UNCHANGED <<mstate, pid, proc, pc, monPid, monArg, monitoring, excuse>>

\* checkProcess: "if (m_processId <= 0) return false".
MonitorLoad ==
  /\ monPc = "check"
  /\ monPid' = pid
  /\ monPc' = IF pid = NoPid THEN "decide" ELSE "wait"
  /\ excuse' = IF StartInProgress THEN excuse \cup {"overlap"} ELSE excuse
  /\ UNCHANGED <<mstate, pid, proc, pc, monArg, monitoring>>

Conclude(verdict) ==
  /\ monPc' = verdict
  /\ monPid' = IF verdict = "poll" THEN NoPid ELSE monPid
  /\ UNCHANGED <<mstate, pid, pc, monArg, monitoring, excuse>>

\* Variant: waitpid's result is not looked at.
MonitorWaitIgnoresResult ==
  /\ monPc = "wait"
  /\ UNCHANGED proc
  /\ Conclude("poll")

\* waitpid(m_processId, WNOHANG).  The plain field is read a second time with
\* no lock: the compiler may keep the first value or load the field again, and
\* a pid of 0 waits for any child.
MonitorWait ==
  /\ monPc = "wait"
  /\ \E target \in {monPid, pid} :
       LET children == IF target = NoPid THEN Pids ELSE {target}
           zombies == {p \in children : proc[p] = "zombie"}
           living == {p \in children : proc[p] \in {"up", "dying"}}
       IN \/ /\ \E z \in zombies : proc' = [proc EXCEPT ![z] = "reaped"]
             /\ Conclude("decide")
          \/ /\ zombies = {}
             /\ UNCHANGED proc
             /\ Conclude(IF living # {} THEN "poll" ELSE "decide")

\* Variant: the state read is stored back unconverted.
MonitorDecideKeepsState ==
  /\ monPc = "decide"
  /\ monArg' = mstate
  /\ monPc' = "store"
  /\ UNCHANGED <<mstate, pid, proc, pc, monPid, monitoring, excuse>>

\* oldState = m_state.load() chooses what to store.
MonitorDecide ==
  /\ monPc = "decide"
  /\ monArg' = IF mstate = "Stopping" THEN "Stopped" ELSE "Crashed"
  /\ monPc' = "store"
  /\ UNCHANGED <<mstate, pid, proc, pc, monPid, monitoring, excuse>>

MonitorStore ==
  /\ monPc = "store"
  /\ mstate' = monArg
  /\ monPc' = "report"
  /\ UNCHANGED <<pid, proc, pc, monPid, monArg, monitoring, excuse>>

\* cb(oldState, m_state.load()): the callbacks get whatever m_state is by now.
MonitorReport ==
  /\ monPc = "report"
  /\ monArg' = mstate
  /\ monPc' = "callback"
  /\ UNCHANGED <<mstate, pid, proc, pc, monPid, monitoring, excuse>>

MonitorCalledBack ==
  /\ monPc = "callback"
  /\ monPc' = "clear"
  /\ UNCHANGED <<mstate, pid, proc, pc, monPid, monArg, monitoring, excuse>>

\* Variant: the pid of the server that died is kept.
MonitorClearKeepsPid ==
  /\ monPc = "clear"
  /\ monPc' = "poll"
  /\ monPid' = NoPid
  /\ monArg' = "Stopped"
  /\ UNCHANGED <<mstate, pid, proc, pc, monitoring, excuse>>

\* m_processId = 0, whoever's it is by now.
MonitorClear ==
  /\ monPc = "clear"
  /\ pid' = NoPid
  /\ monPc' = "poll"
  /\ monPid' = NoPid
  /\ monArg' = "Stopped"
  /\ UNCHANGED <<mstate, proc, pc, monitoring, excuse>>

-----------------------------------------------------------------------------

\* The server exits by itself, or the SIGKILL takes effect.
Exit(p) ==
  /\ proc[p] \in {"up", "dying"}
  /\ proc' = [proc EXCEPT ![p] = "zombie"]
  /\ UNCHANGED <<mstate, pid, pc, monVars, monitoring, excuse>>

\* The rest of a locked operation once begun.
CallerStep(t) ==
  Fork(t) \/ ForkFailed(t) \/ Launched(t) \/ KillStored(t) \/ Notified(t)

MonitorStep ==
  \/ MonitorExit \/ MonitorPoll \/ MonitorLoad \/ MonitorWait \/ MonitorDecide
  \/ MonitorStore \/ MonitorReport \/ MonitorCalledBack \/ MonitorClear

Next ==
  \/ \E t \in Callers : \/ StartAccepted(t) \/ StopProcess(t) \/ KillSignalled(t)
                        \/ CallerStep(t)
  \/ MonitorStart \/ MonitorStop \/ MonitorStep
  \/ \E p \in Pids : Exit(p)

Spec == Init /\ [][Next]_vars

\* Threads are scheduled, and a process that was sent SIGKILL dies.
Fairness ==
  /\ \A t \in Callers : WF_vars(CallerStep(t))
  /\ WF_vars(MonitorStep)
  /\ \A p \in Pids : WF_vars(proc[p] = "dying" /\ Exit(p))

FairSpec == Spec /\ Fairness

-----------------------------------------------------------------------------

TypeOK ==
  /\ mstate \in States
  /\ pid \in Pids \cup {NoPid}
  /\ proc \in [Pids -> ProcStates]
  /\ pc \in [Callers -> CallerPcs]
  /\ monPc \in MonitorPcs
  /\ monPid \in Pids \cup {NoPid}
  /\ monArg \in States
  /\ monPc = "store" => monArg \in {"Stopped", "Crashed"}
  /\ monitoring \in BOOLEAN
  /\ excuse \subseteq Excuses

\* A live server is the one m_processId names, so there is at most one, and
\* m_state admits to it, unless a startProcess ran while the monitor was in its
\* report window or was accepted in Stopping (ProcessMonitor.cpp:65, 187-209).
LiveServerIsTracked ==
  excuse = {} =>
    \A p \in Up : /\ p = pid
                  /\ \/ mstate \in {"Running", "Stopping"}
                     \/ \E t \in Callers : pc[t] = "launch"

\* Outside the monitor's report, m_processId never names a child that waitpid
\* has already reaped: only a killProcess that lands between waitpid and
\* "m_processId = 0" can send SIGKILL to a recycled pid (lines 155-157, 182, 207).
TrackedPidIsOurChild ==
  pid # NoPid /\ proc[pid] = "reaped" => monPc \in Condemned

\* What the monitor promises whoever watches it (SupervisedServer): one server at
\* a time, launched only when there is none, and never a server alive behind a
\* Stopped or Crashed display, until an excuse forfeits the promise.
Supervised == INSTANCE SupervisedServer WITH
  live <- Up,
  retired <- {p \in Pids : proc[p] \in {"dying", "zombie", "reaped"}},
  shown <- mstate,
  forfeited <- (excuse # {})

OneServerAtATime == Supervised!Spec

\* A server that died is noticed: m_state does not stay Running over a dead or
\* forgotten process while the monitor thread runs.
DeathIsNoticed ==
  (mstate = "Running" /\ pid \notin Up) ~>
    (mstate # "Running" \/ pid \in Up \/ ~monitoring)
=============================================================================
