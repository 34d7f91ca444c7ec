# Palworld Server Manager: verification project

TLA+ models of the program under `src/`, TLC runs that check them on small instances,
and TLAPS proofs of what matters most for instances of any size. Paths below are relative
to `src/src/` unless they start with `src/`.

Contents: 1 the system, 2 the modules and the code, 3 the runs, 4 bounds, 5 fairness,
6 what is proved, 7 disagreements found, 8 what is not modelled, 9 plan.

To run everything from this directory:

    tlc -config ProcessMonitor.cfg ProcessMonitor      # likewise for each run of section 3
    tlapm ServerLifecycle_proofs.tla                    # likewise for each module of section 6

## 1. The system

One process, a desktop application that manages a Palworld dedicated server.
`Application` builds every part, starts the background threads, and then draws frames; at
the end of each frame it processes the deferred events.

Threads: the interface thread (draws, and runs every button's handler synchronously); the
process monitor's polling thread; a countdown thread while a graceful shutdown is
announced; one detached thread per pending automatic restart; the backup scheduler; the
scan scheduler; the parser's sync thread; the pool's workers (refresh and scan tasks); the
REST server's thread.

| Part | State | Operations | Who it talks to | What is hard | What makes it correct |
|---|---|---|---|---|---|
| `server/ProcessMonitor` | `m_state`, `m_processId`, `m_monitoring`; the child | `startProcess`, `stopProcess`, `killProcess` under `m_mutex`; `start`/`stop`; a polling thread without the lock | calls the state-change callbacks (`ServerManager`), with the lock held or from the polling thread | the polling thread reads, decides and writes with no lock | a live server is tracked and alone; a death is noticed |
| `server/ServerManager` | `m_restartAttempts`, `m_autoRestart`, countdown thread, cached info | start, stop, restart, force-kill, graceful shutdown, automatic restart, `refreshData` | ProcessMonitor, REST API, RCON, EventBus, Config | several threads start and kill the same server; a plain `int` counter | a finished shutdown leaves no server; a crash is answered within its limit; the interface is not blocked for good |
| `core/ThreadPool` | task queue, active count, stop flag, two condition variables | `enqueue`, `waitAll`, `pendingTasks`, destructor | tasks of the interface | lost and spurious wakeups, draining | accepted tasks run; the destructor returns; `waitAll` is a barrier |
| `core/EventBus` | subscriptions, deferred queue | `subscribe`, `unsubscribe`, `publish`, `publishDeferred`, `processQueue` | every part publishes; the interface subscribes | handlers run under the lock while others publish | deferred events arrive once and in order; no call after `unsubscribe` |
| `net/RconClient` | socket, `m_connected`, `m_authenticated`, `m_requestId`, host | `connect`, `sendCommand` (which reconnects), `disconnect` | the game server's console | late, split or missing answers, rejected passwords | no command without authentication; answers match commands; calls return |
| `net/PalDefenderRCON` | host, port, password | one function per console command | RconClient | | commands are attempted |
| `server/BackupManager` | `m_running`, scheduler, the backups table | create, list, restore, delete, clean up | Database, file system | two threads and the game server on the same files; exceptions | a recorded backup is the whole save directory |
| `scanner/ScanEngine` and rules | nine rules; flags and the whitelist in the database | scan one or all players, scheduler, automatic actions, reports | parser, database, RCON, EventBus | two scans store flags for the same players while the administrator dismisses reports and edits the whitelist | trust takes effect; a dismissed report stays settled; automatic actions are on record (they need not be: section 7); its thread never outlives what it uses |
| `scanner/FlagQueue`, `SuspicionScore` | queue of flags; the scores made of them | unused by the program | | a decay with a floor, a boost that ends | flags are taken in order; time alone raises no score |
| `pst/LevelSavParser` | players, pals, guilds, previous online list | `parse` (a stub: it stores nothing), getters, sync thread, callbacks | scan engine, interface | its thread's life; `setPath` races with it | it never outlives what it uses |
| `core/Database` | SQLite handle | one statement per call under a mutex | scanner, backups, interface | lists come back as text | |
| `core/Config` | JSON document and its file | get, set, save, load, reset | every page and part | pages and parts keep copies; `save` truncates in place | one value per setting; what is saved is found again |
| `core/Logger` | ring of lines, file | log | everyone | | |
| `net/HttpClient`, `VanillaAPI`, `PalDefenderAPI` | none | stateless requests | game server, ServerManager | a request may fail, time out or bring JSON of another shape | the display follows the server |
| `api/RestServer` | thread, running flag | `start`, `stop`, request loop | ServerManager's cached data, parser, scan engine, database | `stop` may come while it accepts or answers a client | `stop` returns; requests find their parts alive |
| `Application`, `main.cpp` | the members, in order of declaration | `run`, `shutdown`, the destructors | everyone | leaving while every thread is anywhere in its work, also by an exception | loops find their parts alive; the program ends |
| `server/MultiServerManager` | list of servers, active id, a flag in each | unused by the program | Config | which one is active is kept twice | there is an active server whenever there is one |
| `ui/UIManager` | the page shown, flags and targets of dialogs, buffers of the settings pages | the buttons, menus and dialogs of thirteen pages | every part | flags that outlive their page; buffers beside the document | a dialog carries out what was asked, once |
| `ui/panels/PlayerPanel`, `MapPanel` with `MapRenderer` | lists, selection, view, dialogs and their targets | rows, popups, clicks, dialogs; not instantiated yet | ServerManager, PalDefenderRCON | lists change and clicks arrive under an open dialog | a dialog acts on what it showed |
| `ui/NotificationManager` | list of notifications | push, update, render; nothing pushes yet | | two limits and a duration | seen unless displaced |
| other `ui/*`, `models/*` | drawing, plain data | | | | |

How they interact where the models care:

* The interface calls `startServer` (`ui/UIManager.cpp:130`, 365), `stopServer(true)` (413) and
  `gracefulShutdownWithCountdown` (947). `forceKill`, `restartServer` and
  `enableAutoRestart` are public operations of `ServerManager` without a button;
  `ProcessMonitor::stopProcess` has no caller at all. They are modelled, because they are
  the components' interfaces. So is `waitAll`, which no caller uses yet.
* `ProcessMonitor` reports each change to `ServerManager`'s callback
  (`server/ServerManager.cpp:16-35`), which resets the restart counter on Running and may
  create a restart thread on Crashed.
* `BackupManager` is entered by its scheduler thread and by the interface; the Backups page
  lists the backups in each frame.
* `PalDefenderRCON` only forwards to `RconClient`.
* The interface enqueues a refresh every two seconds and a scan on demand into the pool;
  their results reach it through `m_cachedInfo`, `m_fpsHistory` and the database.
* Every settings page reads and writes the one document of `Config` and saves all of it.

PROJECT.json lists under "hazards" what in this code a test would hardly reach, each at its
line, with the properties that would catch it.

## 2. The modules and the code

The map in PROJECT.json names the lines of each definition. In every module one action is
one stretch of code that no other thread can split observably; a mutex is a `holder`
variable or "some thread's pc is inside". Definitions with the comment "Variant:" are not
part of any specification: each is a plausible mistake (a dropped check, a missing reset)
in the definition after it, used to see that a property can fail.

**ProcessMonitor** (`server/ProcessMonitor.cpp`, POSIX branch). `mstate` and `pid` are
`m_state` and `m_processId`; `proc` is what the operating system knows of each child
(`up`, `dying` after SIGKILL, `zombie`, `reaped`). A caller's `pc` is "idle" exactly when it
does not hold `m_mutex`. The polling thread's steps follow `monitorThread`: poll, check
(`m_processId <= 0`), wait (`waitpid` with WNOHANG, whose second unlocked read of the pid
may differ from the first), decide, store, report, callback, clear. `excuse` is a history
variable: it records that a start ran while the monitor was between its read of the pid
and its last write ("overlap"), or was accepted in Stopping ("stopping"). In those
two situations the code really loses a live server, and the properties say so.

**SupervisedServer** is the abstract specification: at most one server alive, launched only
when none is, displayed as Stopped or Crashed only when it is gone. `ProcessMonitor`
implements it under live = the children that are up, shown = `m_state`, and forfeited = an
excuse exists: `OneServerAtATime`.

**ServerLifecycle** extends ProcessMonitor with `server/ServerManager.cpp`, wired as in
`Application`. Its callers are the interface thread, the countdown thread and the restart
threads; it conjoins to ProcessMonitor's steps what the state-change callback does in them,
so the composition is of whole steps. `m_restartAttempts++` is two steps, because the start
path resets the same `int` under no common lock. The Starting callback of `startProcess`
is ignored by the manager and the events it defers have no subscriber that acts, so both
are left out.

**ServerLifecycleHistory** adds two history variables to state what the settings page says of
automatic restarts.

**ThreadPool** (`core/ThreadPool.cpp`, `.h`). A wait is taken apart into test, release and
sleep, so that a notification can fall between; `missed` records that the
notification of line 22, sent without the mutex, did. Spurious wakeups are an action.

**EventBus** (`core/EventBus.cpp`) keeps the mutex from the first to the last handler of an event,
as the code does, and visits every subscription, skipping those of other types (`PassBy`); `owed` and
`seen` record who must be and was called. **MCEventBus** gives
it two publishers and two handlers.

**RconClient** (`net/RconClient.cpp`). `call` is the program counter of the one call that
can be in progress; `wire` is the session: packets in each direction, whether the server
accepted the password (`granted`), whether it closed. The server may answer at once, late, in
two packets, or never. `excuse` records the two things that defeat the properties:
a "split" answer, and an authentication judged on fields never written
("uninitialised": after an empty first packet the second receive is not checked).
**RconApplication** is the same client with only the calls the application makes.

**BackupManager** (`server/BackupManager.cpp`, with `Database::recordBackup` and the two
places of `UIManager.cpp` that use it). A backup is copied file by file; the game writes
meanwhile (`raced`), and a second backup in the same second goes to the same directory
(`tainted`). Both are the limits of what the code can promise.

**Shutdown** (`Application.cpp`, `Application.h`, `main.cpp`, and the starts, stops and loops of
the parts). `todo` is what the main thread has still to stop, close and destroy: `shutdown()`
followed by the members in reverse order, or the members alone when an exception leaves
`run()`. `at` keeps of each thread whether it waits or works, `Uses` which parts its work
refers to. The REST loop tests its flag before `accept` and may serve one more client
after it was asked to stop; the other loops test it right before they work. Three kinds of
stragglers do outlive parts they use, and the properties say how far: a countdown
joined by `~ServerManager` after the process monitor is destroyed, pool tasks drained by
`~ThreadPool` after the managers are, and detached restart threads. A scan task drained then also
finds the database closed.

**Settings** (`core/Config.cpp`, the settings tabs of `UIManager.cpp`, `ui/Theme.cpp`). One setting is
followed through the file, the document, the page's buffer and the part that uses it; its
kind decides how its page and its part behave. A save opens (and so empties) the file, then
writes it; the process may die at any step. `promised` is the document the next start
should find, `clean` says nobody has touched the setting since it was saved or read.

**Refresh** (`ServerManager::refreshData`, `VanillaAPI`, `HttpClient`). `got[w]` is the `ServerInfo`
pool worker w is filling from two requests, `cached` the shared one, written field by field
with no lock. `reach` is what the base URL leads to.

**ScanRules** (`scanner/rules/`) has the nine rules as operators: how many flags each raises for what
`buildContext` gathers. **ScanRecords** (`scanner/ScanEngine.cpp`, the scan tables of
`core/Database.cpp`, the scanner page of `UIManager.cpp`) runs them: `scan[t]` is where the scheduler
and the pool's scan tasks are, `flags` the table, `trusted` the whitelist, `admin` the report the
administrator is looking at and dismissing, flag by flag. Any statement may fail and any query
deliver fewer rows, as `Database::execute` and `query` report and no caller looks: a flag
whose INSERT fails is still one of the scan's findings, a whitelist that does not answer says no.
`late` records who has evaluated, and whether automatic actions have met, which player since he
was put on the whitelist; `blind` of a scan, about whom it got no answer.

**Console** (the rest of `ui/UIManager.cpp`, `PalDefenderRCON.cpp`, `ConfirmDialog`). `page`, `asking`
and `target` are the page on display, the three dialog flags and the target kick and ban
share; every other button is a call at once. A page that throws ends the program.
**PlayerPanel** (`ui/panels/PlayerPanel.cpp`) has the lists, popups and the five dialogs with their one
target. **MapView** (`ui/panels/MapPanel.cpp`, `ui/MapRenderer.cpp`) has the view in exact lengths along
one axis, the selection, the menu's point and the two dialogs; clicks on the map are the
raw ones the renderer asks for, so they arrive under a dialog. `pan` keeps with a drag the
zoom and the canvas it began with.

**ServerProfiles** (`server/MultiServerManager.cpp`), **FlagQueue** (`scanner/FlagQueue.cpp`,
`scanner/SuspicionScore.cpp`, scores in thousandths) and **Notifications** (`ui/NotificationManager.cpp`) have
one action per public operation, in any order: nothing in the program calls them yet. **Lists** has
what `erase` and `remove_if` leave of a list, as a recursive function the proofs can unfold.
A profile may have the empty identifier, which loading gives to an entry without one, and be
active with it; a load may stop at an entry it cannot convert, behind a list already replaced
(`LoadCutShort`). `stray` says that the active identifier was last set to one nobody has,
or left as it was by such a load.
**MCInterface** puts these components side by side for TLC. They share no state, so `focus`
picks the one that runs and the others stay where they began: the run checks each
against its own properties and not the product of them all. The scans run twice, with the
whitelist changing and with reports being reviewed.

## 3. The runs

| Run | Module, configuration | Shows |
|---|---|---|
| process_monitor | ProcessMonitor | `LiveServerIsTracked`, `TrackedPidIsOurChild`, `DeathIsNoticed`, and the refinement `OneServerAtATime`, with two callers against the monitor |
| server_lifecycle | ServerLifecycle | `ShutdownLeavesNoServer`: a stop or countdown that ends leaves no server but one being started; `CrashIsAnswered`; `InterfaceReturns` |
| restart_cap | ServerLifecycleHistory, ServerLifecycleCap.cfg | violated: more automatic restarts in a row than "Max restart attempts" |
| restart_after_shutdown | ServerLifecycleHistory, ServerLifecycleCrash.cfg | violated: the exit of a server that was asked to shut down is answered by a restart |
| thread_pool | ThreadPool | `DestructorDrains`, `PendingNotUnderstated`, `WaitAllIsBarrier`, `AcceptedTasksRun`, `DestructorReturns`; `WaitAllWakes` pins the one lost wakeup to its cause |
| event_bus | MCEventBus | `NoCallAfterUnsubscribe`, `DeferredInOrder`, `DeferredDelivered` |
| rcon_client | RconClient | `CommandsNeedAuth`, `ConnectedMeansAuthenticated`, `AnswerIsOwn`, `CallsReturn` |
| rcon_application | RconApplication | violated: with the calls the application makes, no RCON command is ever attempted |
| backup | BackupManager | `RecordedIsFaithful`, `StopReturns` |
| shutdown | Shutdown | `LoopsUseLiveParts`, `StragglersBounded`, `WritesReachDatabase`, `ShutdownEnds`, however and whenever the program is left |
| backup_schedule | BackupManager, BackupSchedule.cfg | violated: the first clean-up after a recorded backup ends the program |
| interface | MCInterface | `SettingsKept`, `RefreshKept`, `TrustTakesEffect`, `DismissedIsSettled`, `ConsoleKept`, `QueueKept`, `PanelKept`, `ActiveIsListed`, `SeenUnlessFlooded`, each of one component: see below |

The properties of the interface run:

* `SettingsKept`: `QuietSettingHasOneValue` (page, document and part agree on a setting nobody
  is editing; automatic restart, which is read at the next start, excepted) and
  `SavedIsFoundAgain` (a start finds the document last saved, unless a save was cut short
  or failed).
* `RefreshKept`: `HistoryInOrder`, and `DisplayFollowsServer`: although answers overtake each other and
  mix, the display settles on what the server stays.
* `TrustTakesEffect`: the whitelist is asked once for each player and scan, before the lock and
  never again before automatic actions, so a scan that has asked goes on. It is bounded all the same: while
  a player stays on the whitelist, however many scans come, each thread begins to evaluate
  him at most once more, and he is warned, kicked or banned automatically at most once more.
  Only scans that got no answer about him are excused.
* `DismissedIsSettled`: when a dismissal is over and none of its statements failed, the database's
  score of the player counts only flags recorded since the click and flags with at least as many
  others as new as they as a report lists. It does not speak of the page's score, which counts
  dismissed flags as well (section 7).
* `ConsoleKept`: `OneDialog` and `AsAsked` (a confirmed dialog carries out something asked for, not
  yet answered, about the player picked then).
* `QueueKept`: `TakenInOrder`, `ScoreIsBounded`, `ScoreOnlyRisesByFlags`.
* `PanelKept`: five dialogs, one at a time, about whom they were opened for.
* `ActiveIsListed`: a profile is active whenever there is one, whatever is added, removed and
  loaded, unless `setActiveServer` was given an identifier nobody has or a load was cut
  short, and from then only until an operation names a profile.
* `SeenUnlessFlooded`: what nobody saw is dropped only from behind a screenful of newer ones, or
  by a frame longer than it had to live.

`MCInterface` also assumes, for TLC to evaluate, that the rules' count of repeated passives and
pals is the number of surplus copies, for every list of up to four (`RepeatsAreSurplus`);
Interface_proofs proves it for every list.

Each module has one type invariant; the interface run checks the conjunction of its
components'. Those of ThreadPool, EventBus and BackupManager are proved and not run: their
other invariants say more of the same variables. Deadlock is checked for process_monitor and
server_lifecycle, whose threads never all stop. It is off where the system does stop: a
destroyed pool, all events published, all commands issued, the program ended, a component's
bounded history used up.

## 4. Bounds

* ProcessMonitor: two callers, so that a background thread can race the interface; three
  forks: one to lose, one launched over it, one after. ServerLifecycle: the three kinds of
  caller, two servers (a crash and its restart), `MaxAttempts` = 1, which a race between the
  increment and a reset can reach although a crash loop cannot. A restart slot is reused;
  with all slots taken the callback waits, where the code would create another thread.
* ThreadPool: two workers and three tasks: one asleep, one busy and one task queued.
* EventBus: three events by two threads, two of them by the same one; each handler
  subscribes until it has been given an event.
* RconClient: three commands, one that fails, one on the session it leaves and one more; two
  explicit connects. Each command is issued once.
* BackupManager: two files (a copy can be torn), two seconds (paths collide or not), two
  versions of each file, two records.
* Shutdown: one refresh task, one scan task and one restart thread besides the program's own
  threads; tasks and restart threads do not interact, so a second of a kind adds nothing.
* Settings: two values besides the default, so that a page, the document and the part can hold
  three. Refresh: two workers, so that answers overtake each other; a history of two
  points. ScanRecords: two players, one of whom one rule and the other both rules concern,
  and one click. In the first part two threads scan and the click changes the whitelist or a
  rule; nothing is stored, which neither the whitelist nor the automatic actions read. In the
  second the scheduler alone scans, also while a report is gone through; it stores two flags,
  within one second or two, and a report lists one, so that the limit bites and ties
  occur. The product of both is too large to check; the theorems are about all of it. Console and PlayerPanel: two players. MapView: two zooms, two widths of the canvas, two pixels, two
  bases and a player. ServerProfiles: three profiles and
  three identifiers, one of them the empty one. FlagQueue: three flags of three
  severities over four days, the last at the decay's floor. Notifications: two on the
  screen, three in the list, five pushed, and frames shorter and as long as a duration.

Guards that only bound are named by their constants (`Quota`, `MaxConnects`, `MaxClock`,
`MaxVersion`, `MaxBackups`, `Pids`, `Tasks`, `MaxPending`, `MaxTime`, `MaxFlags`, `MaxClicks`,
`MaxProfiles`, `MaxQueued`, `MaxDay`, `MaxNotices`, `Centers`).

## 5. Fairness

The user, the game server and the network owe nothing: no fairness on requests, on a
server's exit, on answers or on spurious wakeups. What is assumed:

* threads that can run are scheduled (weak fairness on each thread's continuation);
* a process sent SIGKILL dies;
* sleeps and socket operations end: the code sets a receive timeout of five seconds and
  sleeps for fixed times;
* in Refresh, the interface keeps drawing, so its timer keeps enqueuing, and the workers keep
  taking and finishing refreshes (weak fairness); the clock need not move;
* in ThreadPool and EventBus, strong fairness on steps that need a contended mutex: a
  thread waiting for it is not starved.

## 6. What is proved

Every theorem holds for any value of the constants that meets the named assumptions of its
module: that marks such as `NoPid`, `Nobody`, `NoCommand`, `NoUid`, `Default` or the scans' "none" are
none of the values they are told from, that bounds are natural numbers, that workers and
files are finite sets, that decay falls from 1000 to no less than 100 thousandths as a flag
ages, that the screen shows fewer notifications than the list keeps (5 and 20 in the code).

| Module | Theorems | Inductive invariant |
|---|---|---|
| ServerLifecycle_proofs | of ProcessMonitor: `TypeCorrect`, `LiveTracked` (`LiveServerIsTracked`), `TrackedPidOurs` (`TrackedPidIsOurChild`), `Implements` (the refinement of SupervisedServer) | `IInv` |
| | of ServerLifecycle: `LTypes` (`LTypeOK`), `ManagerKeepsMonitor` (all of the above for the composition), `ShutdownIsClean` (`ShutdownLeavesNoServer`) | `LInv` |
| ThreadPool_proofs | `PoolTypes`, `PendingIsEnough` (`PendingNotUnderstated`), `DestructorHasDrained` (`DestructorDrains`), `WaitAllWaits` (`WaitAllIsBarrier`) | `PoolInv` |
| EventBus_proofs | `BusKeepsTypes`, `UnsubscribedIsNotCalled` (`NoCallAfterUnsubscribe`), `DeferredComeInOrder` (`DeferredInOrder`) | `BusInv` |
| RconClient_proofs | `RconKeepsTypes`, `CommandsAreAuthorised` (`CommandsNeedAuth`), `ConnectedIsAuthenticated` (`ConnectedMeansAuthenticated`), `AnswersAreOwn` (`AnswerIsOwn`) | `RconInv` |
| BackupManager_proofs | `BackupTypes`, `RecordsAreFaithful` (`RecordedIsFaithful`) | `BackupInv` |
| Shutdown_proofs | `ShutdownTypes`, `LoopsAreOutlived` (`LoopsUseLiveParts`), `StragglersAreBounded` (`StragglersBounded`), `WritesAreKept` (`WritesReachDatabase`) | `ShutdownInv` |
| Pages_proofs | `SettingsTypes`, `SettingsAreKept` (`SettingsKept`) | `SettingsInv` |
| | `ConsoleTypes`, `ConsoleIsKept` (`ConsoleKept`) | `ConsoleInv`, `ConsoleTypeOK` |
| | `PanelTypes`, `PanelIsKept` (`PanelKept`) | `PanelInv` |
| | `MapTypes` (`MapTypeOK`), `MapIsHeld` (`PointIsHeld`) | `MapTypeOK` |
| | `RefreshIsOrdered` (`RefreshTypeOK`, `HistoryInOrder`) | `RefreshInv` |
| | `ActiveProfileIsListed` (`ProfilesTypeOK`, `ActiveIsListed`) | itself |
| | `NoticesAreBounded` (`NoticesTypeOK`), `NoticesAreSeen` (`SeenUnlessFlooded`) | `NoticesInv` |
| Interface_proofs | of the scans: `RepeatsAreSurplusCopies`, `ScansKeepTypes` (`ScanTypeOK`), `TrustIsKept` (`TrustTakesEffect`), `DismissalsSettle` (`DismissedIsSettled`) | `ScanInv` |
| | of the review queue: `QueueTypesKept` (`QueueTypeOK`), `QueueIsKept` (`QueueKept`) | `QueueInv` |
| | of MCInterface: `ComponentsKeepTheirSpecs`, `InterfaceTypes` (`InterfaceTypeOK`), `InterfaceKeeps` (all the properties of the run but the liveness in `RefreshKept`, and `PointIsHeld`) | those of the components |

ProcessMonitor. `LiveServerIsTracked` is not inductive: a fork replaces the pid, so one must know no
server is up at that point; a monitor that has read the pid will clear it later, so one must know it
condemned the right child. `IInv` adds, as long as there is no excuse: `StartsClean`
(a start that has not forked, and a kill that has signalled, have no live server),
`VerdictHolds` (between the monitor's read and its last write no start is under way, the pid
read is still the tracked one or was killed, and a verdict of death is true), and
`OneHolder` (the mutex). `excuse` only grows, so a step that leaves it empty started with it empty,
and `OrderlyStep` covers that case action by action. `TrackedPidIsOurChild` needs no excuse: it
is inductive with the type invariant alone. For the refinement, a step that
ends with no excuse maps to Show, End, Launch or a stutter; any other maps to the
disjunct that forfeits. TLC checked `IInv` as an invariant before it was proved.

ServerLifecycle. Every step of the manager is one of the process monitor or changes none of its
variables (`LStepIsStep`), so `IInv` carries over. `LInv` adds what the composition has of its own: the manager never
calls `stopProcess`, so the process is never in Stopping (`NeverStopping`) and a check that does
not find it Running finds no live server but one being started; who kills for a stop or a
countdown is inside `killProcess` (`KillsInside`), whose mutex keeps a fork away until it
has reported (`KilledClean`). `CountIsCompared` bounds the counter, whose increment and reset share no lock.

ThreadPool. `ActiveCounts` ties `m_activeTasks` to the workers that have a task in hand or have just
run it; `Accounted` says where an accepted task can be: queued, in hand or done. Counting
both sides gives `PendingNotUnderstated`; an empty queue with nobody busy means everything is
done, which gives the barrier and, with `LeftIsOver` (workers leave only a stopped, empty pool),
the draining destructor.

EventBus. `DeferredInOrder` speaks of what handlers were given and needs to know what is still to
come: what waits is in order, the batch before the queue (`QueuesInOrder`), the event being
dispatched comes before both (`EventInOrder`), and what a handler was given comes before all
of these unless it has been given that event (`SeenInOrder`, `LoopVisitsSubs`).

RconClient. Without request ids only the state of the wire keeps answers apart: while every
answer is one packet, `WireIsClear` says a session carries at most one packet not accounted
for, and what waits for an answer waits for that one. `OnlyPassword` and `AuthIsGranted` say that an
acceptance on its way comes from a server that granted this session.

BackupManager. `JobIsFaithful` follows the copy in progress: unless the game wrote meanwhile, what
is copied is what was there at the start, and earlier records of the same directory are
tainted; `OneJob` is the mutex.

Settings. `FileKeepsPromise` relates the file and the last save; `PageSaves` says that a page whose
save is in progress shows the value that is being saved.

Console. `WaitingIsAsked` (what waits for an answer is what was asked, on any page) needs
`OnePlayerDialog`: kick and ban share a target, and neither can wait on another page.

Shutdown. Whichever way `run` is left, the main thread goes through one of two fixed plans:
the steps of `shutdown()` and then the destructors, or the destructors alone. `Progress` says
that the state is the one reached after the first k steps of a plan (`Reached`): `todo` is the
rest, what is dead was destroyed by those steps, the database is closed by one of them only,
and every thread that a step joins is off once the step is behind. Each property then asks
whether some step before another joins the right thread, which is a question about the two
plans and no longer about interleavings (`LoopsUseLiveParts` and `WritesReachDatabase` hold in both).

PlayerPanel. `DialogsAreWanted` is what the five dialogs' flags and their one target mean: the open
one is wanted, of the target, and while it is open no popup is, so nothing can retarget it.
MapView. `PointIsHeld`: the wheel holds the point under the mouse, and a drag the point it began
on, also when the zoom or the canvas has changed in the middle of it and changed back; while
such a change lasts the code's drag is off, which the property leaves out. That is
arithmetic on lengths, for which the type invariant is enough; it is proved and not run.

Refresh. `PastPoints` (no point is younger than the clock) makes `HistoryInOrder` inductive.
ServerProfiles. The invariant is the property with the types: removal, replacement and loading
each keep a profile with the active id, if there is one, and otherwise name the first of the list.

Notifications. That nothing unseen is dropped needs `Proper`: a notification not yet drawn has seen
at least as many newer ones arrive as stand before it, and one a frame has aged without
drawing it had a screenful of them. What the limit drops is the last, which therefore was
drawn or flooded.

Scans. `Sound` ties a scan's place to its player and rule. `Fresh` says that whoever waits for
the lock with a trusted player, having had his answer, has not evaluated him since he is
trusted: the answer came before. `ActsOnce` says that a player the automatic actions have met since then has no
finding in the scan under way, or has had his turn in it, unless that scan got no answer: a
later scan that did ask leaves him out. `Settling` says of a report being dismissed without a
failure that each of the player's flags there were when it was opened is still to be gone
through, dismissed, or has as many others as new as it as a report lists; the listing's
order gives it at the click. The action properties follow from these at the step they are about.

FlagQueue. `QueueInv` orders the three lists: what was taken was announced before what is queued. The
scores are sums over the undismissed places; that days and reviews do not raise them needs,
flag by flag, that decay falls, that the boost only ends and that the halving is monotone
(`PointsAge`), and for what leaves the queue or is dismissed that a sum over fewer places of
naturals is no greater. `FirstOfWorst` is the loop of `getBreakdown`.

What a recursive definition computes (the sums of the community modules, `Kept`, the loop of
`HighestSeverityRule`) is proved without the library's induction theorems, which take an operator
as a parameter: of the arguments where a claim fails there would be a smallest one, a number
(`SmallestNat`) or a subset (`SmallestBad`), and the definition's equation refutes it. That a function
with such an equation exists is proved the same way (`SumSolvable`, `KeepingExists`,
`FindingExists`).

The composition. A step of `MCInterface` is a step of the component in focus and changes nothing of
the others (`ComponentsStep`), so each of its behaviours is a behaviour of every component, and
what is proved of the components holds of it.

Only model-checked: every liveness property (`DeathIsNoticed`, `CrashIsAnswered`, `InterfaceReturns`,
`AcceptedTasksRun`, `DestructorReturns`, `WaitAllWakes`, `DeferredDelivered`, `CallsReturn`, `StopReturns`,
`ShutdownEnds`, and `DisplayFollowsServer` in `RefreshKept`), because fairness and ENABLED are out of
the prover's reach. Every safety property of a passing run is a theorem.

## 7. Disagreements between code and documentation

1. `server/ServerManager.cpp:23` resets the restart counter at each launch, automatic ones
   included, so "Max restart attempts" (`ui/UIManager.cpp:1342`) never limits a crash loop.
2. A graceful shutdown leaves `m_state` Running, so the exit it asked for is stored as Crashed
   (`server/ProcessMonitor.cpp:192`) and, with "Auto-restart on crash"
   (`ui/UIManager.cpp:1340`), the server comes back.
3. Nothing calls `PalDefenderRCON::connect`, and `sendCommand` reconnects only to a
   host an earlier connect has set: actions "via RCON" (`src/README.md:94`) are never sent.
4. Backup rows are read back as JSON strings and converted with `get<int>`, which throws: the
   first clean-up after a recorded backup ends the scheduler thread, and with it the program
   (`src/README.md:16` promises a retention policy). Restore and deletion are
   behind the same list.

Met while reading, without a run: the deferred STARTED and CRASHED events of one launch can be
published in the wrong order; a reconnect passes host names to `inet_pton`, which takes only
addresses; a killed child is never waited for; setting automatic restart takes effect only at
the next start; the backup tab copies the document over its buffers in every frame, so what
is typed there is lost before it can be saved; the scanner page kicks and bans without
asking; `scanPlayer` keeps a flag whose INSERT failed (`scanner/ScanEngine.cpp:81-84`; `recordScanResult`
drops what `execute` returns) and `processAutoActions` acts on it, so a player can be banned with
nothing in the "persistent storage of [...] scan results" (`src/README.md:102`) to say why;
`getReports` counts dismissed flags in a report's score (`scanner/ScanEngine.cpp:187`), so after "Dismiss All"
(`ui/UIManager.cpp:1172`) the row and its score stay, while the database's own score leaves
dismissed flags out (`core/Database.cpp:232`); the map's raw clicks (`ui/MapRenderer.cpp:232`) select another
base under the open "Destroy Base" dialog, which then stands over that one, comes back over
any base selected later, and destroys the first; the guild rule charges every
player scanned with any guild's crowded base (`scanner/rules/GuildScanRules.h:17`); with a row to
show, the Backups page ends the program, and so does a Guilds page whose answer has other
types; `broadcastMessage` reports success whatever happened; a load of server profiles that
meets a field of another type leaves part of the list with the identifier that was active
before (`server/MultiServerManager.cpp:75-92`); "Teleport To..." sets a flag nothing reads; `parseGvas` stores
no player, so "PST parses Level.sav" and everything downstream of it (scans, joins and
leaves) has nothing to work on.

## 8. What is not modelled, and why

* The Windows branches: the build modelled is the POSIX one.
* Restore, deletion and the removal of old backups: unreachable once there is anything to list.
* Decompression and GVAS extraction: stubs in the source. `PlayerData` and `GvasProperty` are parsing code
  nothing calls. What players ScanRecords scans is therefore what a parser would deliver,
  and the joins and leaves that `detectPlayerChanges` derives cannot occur and are left out.
* The parsing of players, guilds and pals in the REST clients, command texts, the JSON of
  `models/`: data no modelled decision depends on.
* The tables of sessions, actions, positions and player statistics: written, if at all, and read by
  nothing that acts on them. (`recordPlayerLeave`'s UPDATE with ORDER BY and LIMIT, which plain SQLite
  refuses, has no caller.)
* The REST server's requests: copies of data kept elsewhere. Its thread is in Shutdown.
* Logger, colours, charts, layout, DashboardPanel, ScanPanel's own drawing: no control of their own.
* Where the map draws players and bases, its layers and its heat map.
* EventBus handlers that call the bus would lock a non-recursive mutex twice; none does.
* Reads torn at the level of bytes (`setPath` while the sync thread parses): the models keep no
  texts. The refresh, whose fields do mix, is modelled by field.

## 9. Plan

Done: the process side (ProcessMonitor with its abstract specification, ServerLifecycle), the
infrastructure (ThreadPool, EventBus, RconClient, BackupManager, Shutdown), the operator's side
(Settings, Refresh, ScanRules, ScanRecords, Console, PlayerPanel, MapView, ServerProfiles, FlagQueue,
Notifications), and the proofs of section 6.

What would add most next: the mechanisms behind the liveness properties as
theorems (no worker sleeps over a task whose notification was not lost; a joined thread
always has a step), and the exact reach of the stragglers; restoring backups, once their
list can be read; joins and leaves, once the parser stores players.
