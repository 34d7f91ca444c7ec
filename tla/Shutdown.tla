------------------------------ MODULE Shutdown -------------------------------
(***************************************************************************)
(* The end of Application: shutdown() stops the background threads one by  *)
(* one, then the members are destroyed in reverse order of declaration;    *)
(* an exception out of run() goes straight to the destructors.  Threads    *)
(* run on meanwhile, using the parts Uses names; which of them is still    *)
(* alive depends on the order of declaration alone.                        *)
(*                                                                         *)
(* Of each thread it is kept whether it waits or works; what the work does *)
(* is left to the other modules, and so is what ends the whole program.    *)
(* run() has started the threads.  Saving the configuration, a step of     *)
(* shutdown() between the joins and the close, touches nothing kept here.  *)
(***************************************************************************)
EXTENDS Sequences, SequencesExt

CONSTANTS
  Refreshes,  \* refresh tasks of the interface on the pool
  Scans,      \* scan tasks of the interface on the pool
  Restarters  \* detached threads of automatic restarts

\* The threads with a loop and a flag that ends it.
Loops == {"rest", "backup", "scan", "sync", "monitor"}
Tasks == Refreshes \cup Scans
Threads == Loops \cup {"countdown"} \cup Tasks \cup Restarters

ASSUME NamesAssumption ==
  /\ Refreshes \cap Scans = {} /\ Tasks \cap Restarters = {}
  /\ (Tasks \cup Restarters) \cap (Loops \cup {"countdown"}) = {}

VARIABLES
  phase,  \* "run", "leaving" or "gone": the main thread
  todo,   \* what the main thread has still to stop, close and destroy
  at,     \* each thread: "off", "waiting" or "working"
  asked,  \* the threads whose m_running, m_monitoring or m_stop is set to end them
  dead,   \* the parts destroyed
  open    \* the database is open

vars == <<phase, todo, at, asked, dead, open>>

-----------------------------------------------------------------------------

\* Variant: the database is the last member.
DeclaredDatabaseLast ==
  <<"config", "logger", "threadPool", "eventBus", "net", "parser", "serverManager",
    "backupManager", "processMonitor", "scanEngine", "uiManager", "restServer", "database">>

\* The members of Application; "net" stands for the five clients.
Declared ==
  <<"config", "database", "logger", "threadPool", "eventBus", "net", "parser",
    "serverManager", "backupManager", "processMonitor", "scanEngine", "uiManager",
    "restServer">>

Parts == ToSet(Declared)

Step(op, part) == [op |-> op, part |-> part]

\* Variant: the database is closed before the threads are stopped.
ShutdownClosesFirst ==
  <<Step("close", "database"), Step("stop", "restServer"), Step("stop", "backupManager"),
    Step("stop", "scanEngine"), Step("stop", "parser"), Step("stop", "processMonitor")>>

ShutdownSteps ==
  <<Step("stop", "restServer"), Step("stop", "backupManager"), Step("stop", "scanEngine"),
    Step("stop", "parser"), Step("stop", "processMonitor"), Step("close", "database")>>

Destructors == [i \in DOMAIN Declared |-> Step("destroy", Reverse(Declared)[i])]

\* Variant: ~ServerManager leaves its thread alone.
JoinsNoCountdown(part) ==
  CASE part = "restServer" -> {"rest"}
    [] part = "backupManager" -> {"backup"}
    [] part = "scanEngine" -> {"scan"}
    [] part = "parser" -> {"sync"}
    [] part = "processMonitor" -> {"monitor"}
    [] part = "threadPool" -> Tasks
    [] OTHER -> {}

\* The threads, or pool tasks, that stopping or destroying a part waits for.
Joins(part) ==
  CASE part = "restServer" -> {"rest"}
    [] part = "backupManager" -> {"backup"}
    [] part = "scanEngine" -> {"scan"}
    [] part = "parser" -> {"sync"}
    [] part = "processMonitor" -> {"monitor"}
    [] part = "serverManager" -> {"countdown"}
    [] part = "threadPool" -> Tasks
    [] OTHER -> {}

UsesOfScan == {"scanEngine", "parser", "database", "eventBus"}

\* The parts a thread's work refers to.
Uses(t) ==
  CASE t = "rest" -> {"restServer", "serverManager", "parser", "scanEngine", "database",
                      "logger"}
    [] t = "backup" -> {"backupManager", "config", "logger", "database"}
    [] t = "scan" -> UsesOfScan \cup {"config", "net"}
    [] t = "sync" -> {"parser"}
    [] t = "monitor" -> {"processMonitor", "serverManager", "eventBus", "config"}
    [] t = "countdown" -> {"serverManager", "net", "processMonitor"}
    [] t \in Refreshes -> {"uiManager", "threadPool", "serverManager", "net"}
    [] t \in Scans -> UsesOfScan \cup {"uiManager", "threadPool"}
    [] t \in Restarters -> {"serverManager", "config", "processMonitor", "eventBus"}

-----------------------------------------------------------------------------

\* The REST server may be disabled, or have failed to bind and returned.
Init ==
  /\ phase = "run" /\ todo = <<>>
  /\ \E rest \in {"off", "waiting"} :
       at = [t \in Threads |-> IF t = "rest" THEN rest
                               ELSE IF t \in Loops THEN "waiting" ELSE "off"]
  /\ asked = {} /\ dead = {} /\ open = TRUE

Become(t, s) == at' = [at EXCEPT ![t] = s]

-----------------------------------------------------------------------------
(* The interface thread, while it draws frames.                            *)

StartCountdown ==
  /\ phase = "run" /\ at["countdown"] = "off"
  /\ Become("countdown", "waiting")
  /\ UNCHANGED <<phase, todo, asked, dead, open>>

Enqueue(x) ==
  /\ phase = "run" /\ at[x] = "off"
  /\ Become(x, "waiting")
  /\ UNCHANGED <<phase, todo, asked, dead, open>>

\* The window is closed or a signal arrives: run() returns, shutdown() follows.
RunReturns ==
  /\ phase = "run"
  /\ phase' = "leaving"
  /\ todo' = ShutdownSteps \o Destructors
  /\ UNCHANGED <<at, asked, dead, open>>

\* An exception leaves run(): main catches it outside the scope of the Application.
RunThrows ==
  /\ phase = "run"
  /\ phase' = "leaving"
  /\ todo' = Destructors
  /\ UNCHANGED <<at, asked, dead, open>>

-----------------------------------------------------------------------------
(* The main thread, leaving.                                               *)

Doing == Head(todo)
Leaving == phase = "leaving" /\ todo # <<>>

\* stop(), stopScheduler(), stopAutoSync() or a destructor: first the flag, if any.
AskToStop ==
  /\ Leaving /\ Doing.op \in {"stop", "destroy"}
  /\ ~ Joins(Doing.part) \subseteq asked
  /\ asked' = asked \cup Joins(Doing.part)
  /\ UNCHANGED <<phase, todo, at, dead, open>>

\* Variant: the threads are not joined.
JoinedAtOnce ==
  /\ Leaving /\ Doing.op \in {"stop", "destroy"}
  /\ Joins(Doing.part) \subseteq asked
  /\ todo' = Tail(todo)
  /\ dead' = IF Doing.op = "destroy" THEN dead \cup {Doing.part} ELSE dead
  /\ open' = (open /\ Doing # Step("destroy", "database"))
  /\ UNCHANGED <<phase, at, asked>>

\* ... then the join; a destructor's part is dead when it returns.
Joined ==
  /\ Leaving /\ Doing.op \in {"stop", "destroy"}
  /\ Joins(Doing.part) \subseteq asked
  /\ \A t \in Joins(Doing.part) : at[t] = "off"
  /\ todo' = Tail(todo)
  /\ dead' = IF Doing.op = "destroy" THEN dead \cup {Doing.part} ELSE dead
  /\ open' = (open /\ Doing # Step("destroy", "database"))
  /\ UNCHANGED <<phase, at, asked>>

CloseDatabase ==
  /\ Leaving /\ Doing.op = "close"
  /\ todo' = Tail(todo)
  /\ open' = FALSE
  /\ UNCHANGED <<phase, at, asked, dead>>

\* main returns; a detached thread dies with the process.
Exit ==
  /\ phase = "leaving" /\ todo = <<>>
  /\ phase' = "gone"
  /\ UNCHANGED <<todo, at, asked, dead, open>>

-----------------------------------------------------------------------------
(* The other threads.                                                      *)

\* A loop tests its flag before it works.  The REST server tests it before accept:
\* a client that connects after that is served.
Begin(t) ==
  /\ phase # "gone" /\ at[t] = "waiting"
  /\ t \in Loops \ {"rest"} => t \notin asked
  /\ Become(t, "working")
  /\ UNCHANGED <<phase, todo, asked, dead, open>>

\* Variant: the flag is tested only when nothing came to be done.
FinishGoesOn(t) ==
  /\ phase # "gone" /\ at[t] = "working"
  /\ Become(t, IF t \in Loops THEN "waiting" ELSE "off")
  /\ UNCHANGED <<phase, todo, asked, dead, open>>

\* A loop waits again unless it was asked to stop; any other thread or task is over.
Finish(t) ==
  /\ phase # "gone" /\ at[t] = "working"
  /\ Become(t, IF t \in Loops \ asked THEN "waiting" ELSE "off")
  /\ UNCHANGED <<phase, todo, asked, dead, open>>

\* The sleeps of the loops are cut short, and accept times out.
Leave(t) ==
  /\ phase # "gone" /\ at[t] = "waiting"
  /\ t \in Loops \cap asked
  /\ Become(t, "off")
  /\ UNCHANGED <<phase, todo, asked, dead, open>>

\* The monitor reports a crash: autoRestartCheck detaches a thread.
SpawnRestart(r) ==
  /\ phase # "gone" /\ at["monitor"] = "working" /\ at[r] = "off"
  /\ Become(r, "waiting")
  /\ UNCHANGED <<phase, todo, asked, dead, open>>

-----------------------------------------------------------------------------

MainStep == AskToStop \/ Joined \/ CloseDatabase \/ Exit

Next ==
  \/ StartCountdown \/ (\E x \in Tasks : Enqueue(x)) \/ RunReturns \/ RunThrows
  \/ MainStep
  \/ \E t \in Threads : Begin(t) \/ Finish(t) \/ Leave(t)
  \/ \E r \in Restarters : SpawnRestart(r)

Spec == Init /\ [][Next]_vars

\* Threads run, what they do ends, and what the pool has queued is begun.
Fairness ==
  /\ WF_vars(MainStep)
  /\ \A t \in Threads : WF_vars(Finish(t)) /\ WF_vars(Leave(t))
  /\ \A t \in Tasks \cup {"countdown"} : WF_vars(Begin(t))

FairSpec == Spec /\ Fairness

-----------------------------------------------------------------------------

TypeOK ==
  /\ phase \in {"run", "leaving", "gone"}
  /\ todo \in Seq([op : {"stop", "close", "destroy"}, part : Parts])
  /\ phase # "leaving" => todo = <<>>
  /\ at \in [Threads -> {"off", "waiting", "working"}]
  /\ asked \subseteq Threads /\ dead \subseteq Parts /\ open \in BOOLEAN
  /\ \A p \in dead : \A t \in Joins(p) : at[t] = "off"

\* However the program ends, the threads with a loop never outlive a part they use:
\* the order of the members (Application.h:70-86) and the joins in the destructors see
\* to it even when shutdown() is skipped.
LoopsUseLiveParts ==
  \A t \in Loops : at[t] # "off" => Uses(t) \cap dead = {}

\* What outlives its parts is known, and how far: a countdown may find the process
\* monitor destroyed (ServerManager.cpp:38, 161), a pool task everything declared after
\* the pool, but neither the database nor the configuration.  Only a detached restart
\* may find any of its parts gone.
StragglersBounded ==
  /\ at["countdown"] # "off" => Uses("countdown") \cap dead \subseteq {"processMonitor"}
  /\ \A t \in Tasks : at[t] # "off" =>
       dead \cap {"config", "database", "logger", "threadPool"} = {}

\* No thread records anything in a closed database but a scan task of the interface,
\* which the pool still runs after shutdown() has closed it (Application.cpp:261).
WritesReachDatabase ==
  \A t \in Threads :
    at[t] = "working" /\ "database" \in Uses(t) /\ ~open => t \in Scans

\* The program ends once the window is closed or an exception leaves run(), whatever
\* each thread was doing.
ShutdownEnds == phase = "leaving" ~> phase = "gone"
=============================================================================
