-------------------------- MODULE ServerLifecycle ---------------------------
(***************************************************************************)
(* server/ServerManager on top of ProcessMonitor, as Application wires     *)
(* them: the interface thread, the countdown thread of a graceful          *)
(* shutdown, the detached threads of pending automatic restarts, and the   *)
(* monitor thread, which runs the state-change callback that decides on a  *)
(* restart.  Config values are constants.  HTTP calls to the server have   *)
(* no result the program looks at: a server asked to shut down may exit,   *)
(* as it may at any other time.  The events the callback defers have no    *)
(* subscriber that acts on the manager and are left to EventBus.           *)
(***************************************************************************)
EXTENDS ProcessMonitor, Naturals

CONSTANTS
  UI,           \* the interface thread, which issues the user's requests
  Countdown,    \* m_countdownThread
  Restarters,   \* slots for the detached threads of autoRestartCheck
  MaxAttempts,  \* server.maxRestartAttempts
  CountdownOn   \* server.shutdownCountdown > 0

ASSUME CallersAssumption ==
  /\ UI # Countdown /\ {UI, Countdown} \cap Restarters = {}
  /\ Callers = {UI, Countdown} \cup Restarters
ASSUME LimitsAssumption ==
  /\ MaxAttempts \in Nat /\ CountdownOn \in BOOLEAN

VARIABLES
  attempts,    \* m_restartAttempts
  autoRestart, \* m_autoRestart
  job,         \* what each caller is doing for ServerManager
  restart,     \* the interface is inside restartServer
  cb           \* autoRestartCheck between its comparison and its increment

managerVars == <<attempts, autoRestart, job, restart, cb>>
lvars == <<vars, managerVars>>

Jobs == {"idle", "join", "announce", "check", "kill", "killing", "settle", "sleep"}

\* No increment of m_restartAttempts is under way.
NoCount == [at |-> "none", seen |-> 0]

LInit ==
  /\ Init
  /\ attempts = 0
  /\ autoRestart \in BOOLEAN
  /\ job = [t \in Callers |-> "idle"]
  /\ restart = FALSE
  /\ cb = NoCount

Become(t, j) == job' = [job EXCEPT ![t] = j]

\* What the caller does when stopServer returns: restartServer goes on.
AfterStop(t) == IF t = UI /\ restart THEN "settle" ELSE "idle"

-----------------------------------------------------------------------------
(* The state-change callback of ServerManager's constructor.               *)

\* A launch, and nothing else, resets the counter.
ResetAttempts(state) ==
  IF state = "Running" THEN attempts' = 0 ELSE UNCHANGED attempts

\* The callbacks of a locked operation; stopServer returns once they have run.
CallerNotified(t) ==
  /\ Notified(t)
  /\ ResetAttempts(IF pc[t] = "cbRunning" THEN "Running" ELSE "Stopped")
  /\ Become(t, IF job[t] = "killing" THEN AfterStop(t) ELSE job[t])
  /\ UNCHANGED <<autoRestart, restart, cb>>

\* The monitor's report of anything but a crash to be answered.
MonitorNotifies ==
  /\ cb.at = "none"
  /\ monArg # "Crashed" \/ ~autoRestart
  /\ MonitorCalledBack
  /\ ResetAttempts(monArg)
  /\ UNCHANGED <<autoRestart, job, restart, cb>>

\* Variant: one attempt too many.
CompareAttemptsOffByOne ==
  /\ monPc = "callback" /\ cb.at = "none"
  /\ monArg = "Crashed" /\ autoRestart
  /\ IF attempts > MaxAttempts
     THEN MonitorCalledBack /\ UNCHANGED cb
     ELSE cb' = [at |-> "bump", seen |-> attempts] /\ UNCHANGED vars
  /\ UNCHANGED <<attempts, autoRestart, job, restart>>

\* autoRestartCheck: "if (m_restartAttempts >= maxAttempts) return".
CompareAttempts ==
  /\ monPc = "callback" /\ cb.at = "none"
  /\ monArg = "Crashed" /\ autoRestart
  /\ IF attempts >= MaxAttempts
     THEN MonitorCalledBack /\ UNCHANGED cb
     ELSE cb' = [at |-> "bump", seen |-> attempts] /\ UNCHANGED vars
  /\ UNCHANGED <<attempts, autoRestart, job, restart>>

\* Variant: the restart thread is never created.
SpawnNothing(r) ==
  /\ cb.at = "bump"
  /\ attempts' \in {cb.seen + 1, attempts + 1}
  /\ cb' = NoCount
  /\ MonitorCalledBack
  /\ UNCHANGED <<autoRestart, job, restart>>

\* m_restartAttempts++ on an int the start path resets with no common lock: the
\* increment may use the value compared or the present one.  Then the detached
\* thread is created.
SpawnRestart(r) ==
  /\ cb.at = "bump"
  /\ job[r] = "idle" /\ pc[r] = "idle"
  /\ attempts' \in {cb.seen + 1, attempts + 1}
  /\ cb' = NoCount
  /\ MonitorCalledBack
  /\ Become(r, "sleep")
  /\ UNCHANGED <<autoRestart, restart>>

-----------------------------------------------------------------------------
(* ServerManager's operations, called by the interface thread.             *)

UIFree == job[UI] = "idle" /\ pc[UI] = "idle"

StartServer ==
  /\ UIFree
  /\ StartAccepted(UI)
  /\ UNCHANGED <<attempts, autoRestart, job, restart, cb>>

ForceKill ==
  /\ UIFree
  /\ KillSignalled(UI)
  /\ UNCHANGED managerVars

\* stopServer(graceful), and restartServer(graceful) when again is TRUE.
StopServer(graceful, again) ==
  /\ UIFree
  /\ restart' = again
  /\ IF graceful /\ CountdownOn
     THEN Become(UI, "join")
     ELSE Become(UI, "check")
  /\ UNCHANGED <<vars, attempts, autoRestart, cb>>

\* gracefulShutdownWithCountdown, a button of its own too: the interface thread
\* joins the previous countdown, if one still runs, and starts the next.
JoinCountdown ==
  /\ job[UI] = "join" /\ job[Countdown] = "idle"
  /\ job' = [job EXCEPT ![UI] = AfterStop(UI), ![Countdown] = "announce"]
  /\ UNCHANGED <<vars, attempts, autoRestart, restart, cb>>

\* restartServer's last line, after three seconds: start, or be refused.
RestartLaunches ==
  /\ job[UI] = "settle"
  /\ \/ StartAccepted(UI)
     \/ LockFree /\ mstate = "Running" /\ UNCHANGED vars
  /\ Become(UI, "idle")
  /\ restart' = FALSE
  /\ UNCHANGED <<attempts, autoRestart, cb>>

EnableAutoRestart ==
  /\ UIFree
  /\ autoRestart' = ~autoRestart
  /\ UNCHANGED <<vars, attempts, job, restart, cb>>

-----------------------------------------------------------------------------
(* The countdown thread, and the end it shares with stopServer.            *)

\* Variant: the loop does not count down.
CountdownRepeats ==
  /\ job[Countdown] = "announce"
  /\ UNCHANGED lvars

\* Announcements, saveWorld, then vanilla.shutdown and five seconds.
CountdownEnds ==
  /\ job[Countdown] = "announce"
  /\ Become(Countdown, "check")
  /\ UNCHANGED <<vars, attempts, autoRestart, restart, cb>>

\* Variant: the server is taken to have obeyed.
CheckRunningTrusts(t) ==
  /\ job[t] = "check"
  /\ Become(t, AfterStop(t))
  /\ UNCHANGED <<vars, attempts, autoRestart, restart, cb>>

\* isProcessRunning(), with no lock kept until killProcess.
CheckRunning(t) ==
  /\ job[t] = "check"
  /\ Become(t, IF mstate = "Running" THEN "kill" ELSE AfterStop(t))
  /\ UNCHANGED <<vars, attempts, autoRestart, restart, cb>>

KillNow(t) ==
  /\ job[t] = "kill"
  /\ KillSignalled(t)
  /\ Become(t, "killing")
  /\ UNCHANGED <<attempts, autoRestart, restart, cb>>

\* A detached restart thread wakes up and calls startServer.
RestarterFires(r) ==
  /\ job[r] = "sleep"
  /\ \/ StartAccepted(r)
     \/ LockFree /\ mstate = "Running" /\ UNCHANGED vars
  /\ Become(r, "idle")
  /\ UNCHANGED <<attempts, autoRestart, restart, cb>>

-----------------------------------------------------------------------------

CallerContinues(t) ==
  \/ (Fork(t) \/ ForkFailed(t) \/ Launched(t) \/ KillStored(t)) /\ UNCHANGED managerVars
  \/ CallerNotified(t)
  \/ CheckRunning(t) \/ KillNow(t)

MonitorContinues ==
  \/ /\ MonitorPoll \/ MonitorLoad \/ MonitorWait \/ MonitorDecide
        \/ MonitorStore \/ MonitorReport \/ MonitorClear
     /\ UNCHANGED managerVars
  \/ MonitorNotifies \/ CompareAttempts
  \/ \E r \in Restarters : SpawnRestart(r)

LNext ==
  \/ MonitorStart /\ UNCHANGED managerVars
  \/ MonitorContinues
  \/ \E t \in Callers : CallerContinues(t)
  \/ \E r \in Restarters : RestarterFires(r)
  \/ StartServer \/ ForceKill \/ EnableAutoRestart
  \/ \E graceful, again \in BOOLEAN : StopServer(graceful, again)
  \/ JoinCountdown \/ RestartLaunches \/ CountdownEnds
  \/ \E p \in Pids : Exit(p) /\ UNCHANGED managerVars

LSpec == LInit /\ [][LNext]_lvars

\* Threads are scheduled and sleeps end; the user need not do anything.
LFairness ==
  /\ WF_lvars(MonitorContinues)
  /\ \A t \in Callers : WF_lvars(CallerContinues(t))
  /\ \A r \in Restarters : WF_lvars(RestarterFires(r))
  /\ WF_lvars(JoinCountdown)
  /\ WF_lvars(RestartLaunches)
  /\ WF_lvars(CountdownEnds)

LFairSpec == LSpec /\ LFairness

-----------------------------------------------------------------------------

LTypeOK ==
  /\ TypeOK
  /\ attempts \in 0..MaxAttempts
  /\ autoRestart \in BOOLEAN
  /\ job \in [Callers -> Jobs]
  /\ restart \in BOOLEAN
  /\ cb \in [at : {"none", "bump"}, seen : 0..MaxAttempts]

\* When stopServer or the countdown thread is done, no server is alive but one
\* whose start was under way (ServerManager.cpp:69-72, 161-163).
ShutdownLeavesNoServer ==
  [][\A t \in {UI, Countdown} :
       /\ job[t] \in {"check", "killing"}
       /\ job'[t] \in {"idle", "settle"}
       => Up' = {} \/ StartInProgress \/ excuse # {}]_lvars

\* Once the crash callback has found an attempt left, the server does not stay
\* crashed: the pending restart or somebody else acts (ServerManager.cpp:175-186).
CrashIsAnswered == (cb.at = "bump" /\ mstate = "Crashed") ~> mstate # "Crashed"

\* No request blocks the interface for good, not even one that joins a running
\* countdown (ServerManager.cpp:128-137).
InterfaceReturns == (job[UI] # "idle" \/ pc[UI] # "idle") ~> (job[UI] = "idle" /\ pc[UI] = "idle")
=============================================================================
