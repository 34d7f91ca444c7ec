--------------------------- MODULE BackupManager -----------------------------
(***************************************************************************)
(* server/BackupManager: backups of the save directory, made by the        *)
(* interface thread on request and by a scheduler thread, one at a time    *)
(* under m_mutex, while the game server writes the same directory.  Every  *)
(* read of the backup list converts text to numbers with get<int>, which   *)
(* throws as soon as there is a row: what would follow (clean-up, restore, *)
(* deletion) is never reached and not modelled.                            *)
(***************************************************************************)
EXTENDS Naturals, FiniteSets

CONSTANTS
  Files,       \* the files of the save directory
  MaxClock,    \* seconds: bounds the distinct backup paths
  MaxVersion,  \* bounds what the game server writes
  MaxBackups   \* bounds the records

ASSUME BoundsAssumption ==
  MaxClock \in Nat /\ MaxVersion \in Nat /\ MaxBackups \in Nat
ASSUME FilesAssumption == IsFiniteSet(Files)

VARIABLES
  clock,    \* the time in seconds, all that distinguishes two backup paths
  save,     \* the save directory: the version of each file
  dirs,     \* dirs[s]: the directory made at second s, Absent for a file not there
  records,  \* the backups table
  job,      \* the createBackup each thread is in, holding m_mutex
  ui,       \* the interface thread
  sched,    \* the scheduler thread
  running,  \* m_running
  aborted,  \* std::terminate was called
  tainted   \* history: records of a directory written again after it was recorded

vars == <<clock, save, dirs, records, job, ui, sched, running, aborted, tainted>>

Absent == MaxVersion + 1
Versions == 0..MaxVersion
Empty == [f \in Files |-> Absent]

\* left: files still to copy; from: history, the save directory at the start; raced:
\* history, the game has written it since.
NoJob == [path |-> 0, left |-> {}, from |-> Empty, raced |-> FALSE]

Init ==
  /\ clock = 0
  /\ save = [f \in Files |-> 0]
  /\ dirs = [s \in 0..MaxClock |-> Empty]
  /\ records = {}
  /\ job = [t \in {"ui", "scheduler"} |-> NoJob]
  /\ ui = "frame" /\ sched = "sleep" /\ running = TRUE
  /\ aborted = FALSE
  /\ tainted = {}

Threads == {"ui", "scheduler"}
Alive == ~aborted
MutexFree == \A t \in Threads : job[t] = NoJob

-----------------------------------------------------------------------------
(* createBackup, in either thread.                                         *)

Entering(t) ==
  /\ Alive /\ job[t] = NoJob
  /\ IF t = "ui" THEN ui = "create" ELSE sched = "create"

Working(t) == Alive /\ job[t] # NoJob

\* Where a thread goes when createBackup returns, true or false.
Returns(t) ==
  IF t = "ui" THEN ui' = "frame" /\ UNCHANGED sched
              ELSE sched' = "clean" /\ UNCHANGED ui

Finish(t) == Returns(t) /\ job' = [job EXCEPT ![t] = NoJob]

\* Variant: m_mutex is not taken.
BeginUnlocked(t) ==
  /\ Entering(t)
  /\ job' = [job EXCEPT ![t] = [path |-> clock, left |-> Files, from |-> save,
                                raced |-> FALSE]]
  /\ tainted' = tainted \cup {r.id : r \in {q \in records : q.path = clock}}
  /\ UNCHANGED <<clock, save, dirs, records, ui, sched, running, aborted>>

\* The path is named after the second; a directory of that name is written over.
Begin(t) ==
  /\ Entering(t) /\ MutexFree
  /\ job' = [job EXCEPT ![t] = [path |-> clock, left |-> Files, from |-> save,
                                raced |-> FALSE]]
  /\ tainted' = tainted \cup {r.id : r \in {q \in records : q.path = clock}}
  /\ UNCHANGED <<clock, save, dirs, records, ui, sched, running, aborted>>

\* No save path is configured.
NotConfigured(t) ==
  /\ Entering(t) /\ MutexFree
  /\ Returns(t)
  /\ UNCHANGED <<clock, save, dirs, records, job, running, aborted, tainted>>

\* create_directories throws outside the try: the interface thread unwinds out of
\* run() and the destructors stop the scheduler; the scheduler thread has no handler.
DirectoryFails(t) ==
  /\ Entering(t) /\ MutexFree
  /\ IF t = "ui" THEN ui' = "join" /\ running' = FALSE /\ UNCHANGED aborted
                 ELSE aborted' = TRUE /\ UNCHANGED <<ui, running>>
  /\ UNCHANGED <<clock, save, dirs, records, job, sched, tainted>>

CopyFile(t, f) ==
  /\ Working(t) /\ f \in job[t].left
  /\ dirs' = [dirs EXCEPT ![job[t].path][f] = save[f]]
  /\ job' = [job EXCEPT ![t].left = @ \ {f}]
  /\ UNCHANGED <<clock, save, records, ui, sched, running, aborted, tainted>>

NewRecord(t) ==
  [id |-> Cardinality(records) + 1, path |-> job[t].path, from |-> job[t].from,
   raced |-> job[t].raced]

\* Variant: what was copied before an exception is recorded too.
FailRecords(t) ==
  /\ Working(t)
  /\ Cardinality(records) < MaxBackups
  /\ records' = records \cup {NewRecord(t)}
  /\ Finish(t)
  /\ UNCHANGED <<clock, save, dirs, running, aborted, tainted>>

\* An exception: the directory stays as it is, without a record.
Fail(t) ==
  /\ Working(t)
  /\ Finish(t)
  /\ UNCHANGED <<clock, save, dirs, records, running, aborted, tainted>>

\* recordBackup, after the last file.
Record(t) ==
  /\ Working(t) /\ job[t].left = {}
  /\ Cardinality(records) < MaxBackups
  /\ records' = records \cup {NewRecord(t)}
  /\ Finish(t)
  /\ UNCHANGED <<clock, save, dirs, running, aborted, tainted>>

-----------------------------------------------------------------------------
(* The interface thread.                                                   *)

ClickBackup ==
  /\ Alive /\ ui = "frame" /\ Cardinality(records) < MaxBackups
  /\ ui' = "create"
  /\ UNCHANGED <<clock, save, dirs, records, job, sched, running, aborted, tainted>>

\* The Backups page lists the backups in every frame: with a row to convert the
\* exception leaves run(), and the destructors stop the scheduler.  Closing the
\* window stops it as well.
Leave ==
  /\ Alive /\ ui = "frame"
  /\ ui' = "join"
  /\ running' = FALSE
  /\ UNCHANGED <<clock, save, dirs, records, job, sched, aborted, tainted>>

Joined ==
  /\ Alive /\ ui = "join" /\ sched = "left"
  /\ ui' = "gone"
  /\ UNCHANGED <<clock, save, dirs, records, job, sched, running, aborted, tainted>>

-----------------------------------------------------------------------------
(* The scheduler thread.                                                   *)

IntervalEnds ==
  /\ Alive /\ sched = "sleep" /\ running
  /\ Cardinality(records) < MaxBackups
  /\ sched' = "create"
  /\ UNCHANGED <<clock, save, dirs, records, job, ui, running, aborted, tainted>>

\* Variant: the sleep is not cut short.
SchedulerSleepsOn ==
  /\ Alive /\ sched = "sleep" /\ ~running
  /\ UNCHANGED vars

SchedulerLeaves ==
  /\ Alive /\ sched = "sleep" /\ ~running
  /\ sched' = "left"
  /\ UNCHANGED <<clock, save, dirs, records, job, ui, running, aborted, tainted>>

\* cleanOldBackups: over no rows it does nothing; over any it throws in a thread
\* with no handler.
CleanUp ==
  /\ Alive /\ sched = "clean"
  /\ IF records = {} THEN sched' = "sleep" /\ UNCHANGED aborted
                     ELSE aborted' = TRUE /\ UNCHANGED sched
  /\ UNCHANGED <<clock, save, dirs, records, job, ui, running, tainted>>

-----------------------------------------------------------------------------

Tick ==
  /\ Alive /\ clock < MaxClock
  /\ clock' = clock + 1
  /\ UNCHANGED <<save, dirs, records, job, ui, sched, running, aborted, tainted>>

\* The game server writes one of its files.
GameWrites(f) ==
  /\ Alive /\ save[f] < MaxVersion
  /\ save' = [save EXCEPT ![f] = @ + 1]
  /\ job' = [t \in Threads |-> IF job[t] = NoJob THEN NoJob ELSE [job[t] EXCEPT !.raced = TRUE]]
  /\ UNCHANGED <<clock, dirs, records, ui, sched, running, aborted, tainted>>

BackupStep ==
  \E t \in Threads :
    \/ Begin(t) \/ NotConfigured(t) \/ DirectoryFails(t)
    \/ \E f \in Files : CopyFile(t, f)
    \/ Fail(t) \/ Record(t)

Next ==
  \/ BackupStep
  \/ ClickBackup \/ Leave \/ Joined
  \/ IntervalEnds \/ SchedulerLeaves \/ CleanUp
  \/ Tick \/ \E f \in Files : GameWrites(f)

Spec == Init /\ [][Next]_vars

\* Both threads run; the interval itself is not waited for.
FairSpec ==
  Spec /\ WF_vars(BackupStep) /\ WF_vars(Joined) /\ WF_vars(SchedulerLeaves)
       /\ WF_vars(CleanUp)

-----------------------------------------------------------------------------

Directories == [Files -> Versions \cup {Absent}]

TypeOK ==
  /\ clock \in 0..MaxClock
  /\ save \in [Files -> Versions]
  /\ dirs \in [0..MaxClock -> Directories]
  /\ records \subseteq [id : 1..MaxBackups, path : 0..MaxClock, from : Directories,
                        raced : BOOLEAN]
  /\ job \in [Threads -> [path : 0..MaxClock, left : SUBSET Files, from : Directories,
                          raced : BOOLEAN]]
  /\ job["ui"] # NoJob => ui = "create"
  /\ job["scheduler"] # NoJob => sched = "create"
  /\ ui \in {"frame", "create", "join", "gone"}
  /\ sched \in {"sleep", "create", "clean", "left"}
  /\ running \in BOOLEAN /\ aborted \in BOOLEAN
  /\ tainted \subseteq 1..MaxBackups

\* A recorded backup holds the whole save directory as it was when the backup began:
\* a failed copy is never recorded, and two threads never fill one directory at once.
\* Out of BackupManager's hands are the game writing its files meanwhile, and a second
\* backup in the same second (BackupManager.cpp:21, 29-66).
RecordedIsFaithful ==
  \A r \in records : r.raced \/ r.id \in tainted \/ dirs[r.path] = r.from

\* stopScheduler returns whatever the scheduler thread is doing, a backup and the
\* clean-up after it included, unless the program dies (BackupManager.cpp:139-159).
StopReturns == ui = "join" ~> ui = "gone" \/ aborted

\* "Automatic scheduled backups, restore, retention policy" (src/README.md:16): the
\* clean-up that applies the retention policy hands back to the schedule.
ScheduleGoesOn == [][sched = "clean" => ~aborted']_vars
=============================================================================
