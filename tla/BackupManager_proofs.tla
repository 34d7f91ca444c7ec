------------------------- MODULE BackupManager_proofs -------------------------
(***************************************************************************)
(* Theorems about BackupManager, for any files and any bounds.             *)
(***************************************************************************)
EXTENDS BackupManager, FiniteSetTheorems, TLAPS

\* m_mutex lets one backup go on at a time.
OneJob == job["ui"] = NoJob \/ job["scheduler"] = NoJob

\* The backup in progress: unless the game wrote meanwhile, the save directory is as it
\* was, and so is every file already copied; earlier records of the directory it fills
\* are tainted.
JobIsFaithful ==
  \A t \in Threads : job[t] # NoJob =>
    /\ \/ job[t].raced
       \/ /\ save = job[t].from
          /\ \A f \in Files \ job[t].left : dirs[job[t].path][f] = job[t].from[f]
    /\ \A r \in records : r.path = job[t].path => r.raced \/ r.id \in tainted

BackupInv ==
  TypeOK /\ IsFiniteSet(records) /\ OneJob /\ JobIsFaithful /\ RecordedIsFaithful
-----------------------------------------------------------------------------

LEMMA EmptyIsDirectory == Empty \in Directories /\ Absent \in Nat
BY BoundsAssumption DEF Empty, Directories, Absent, Versions

LEMMA BackupInitial == Init => BackupInv
<1> SUFFICES ASSUME Init
             PROVE  BackupInv
  OBVIOUS
<1>1. TypeOK
  <2>1. job \in [Threads -> [path : 0..MaxClock, left : SUBSET Files, from : Directories,
                             raced : BOOLEAN]]
    BY EmptyIsDirectory, BoundsAssumption DEF Init, NoJob, Threads
  <2>2. save \in [Files -> Versions] /\ dirs \in [0..MaxClock -> Directories]
    BY EmptyIsDirectory, BoundsAssumption DEF Init, Versions
  <2>3. \A t \in Threads : job[t] = NoJob
    BY DEF Init, Threads
  <2>4. /\ clock \in 0..MaxClock /\ records = {} /\ tainted = {}
        /\ ui = "frame" /\ sched = "sleep"
    BY BoundsAssumption DEF Init
  <2>5. running \in BOOLEAN /\ aborted \in BOOLEAN
    BY DEF Init
  <2> QED
    BY <2>1, <2>2, <2>3, <2>4, <2>5 DEF TypeOK, Threads
<1>2. IsFiniteSet(records)
  BY FS_EmptySet DEF Init
<1> QED
  BY <1>1, <1>2 DEF Init, BackupInv, OneJob, JobIsFaithful, RecordedIsFaithful, Threads

\* The record of a finished backup has the type of a record.
LEMMA NewRecordType ==
  ASSUME BackupInv, NEW t \in Threads, Cardinality(records) < MaxBackups
  PROVE  /\ NewRecord(t) \in [id : 1..MaxBackups, path : 0..MaxClock, from : Directories,
                              raced : BOOLEAN]
         /\ IsFiniteSet(records \cup {NewRecord(t)})
<1>1. Cardinality(records) \in Nat
  BY FS_CardinalityType DEF BackupInv
<1>2. Cardinality(records) + 1 \in 1..MaxBackups
  BY <1>1, BoundsAssumption
<1>3. job[t] \in [path : 0..MaxClock, left : SUBSET Files, from : Directories,
                  raced : BOOLEAN]
  BY DEF BackupInv, TypeOK
<1>4. IsFiniteSet(records \cup {NewRecord(t)})
  BY FS_AddElement DEF BackupInv
<1> QED
  BY <1>2, <1>3, <1>4 DEF NewRecord

\* createBackup, step by step, and what goes on beside it, keep the types.
LEMMA BackupTypeStep ==
  BackupInv /\ [Next]_vars => TypeOK' /\ IsFiniteSet(records') /\ OneJob'
<1> SUFFICES ASSUME BackupInv, [Next]_vars
             PROVE  TypeOK' /\ IsFiniteSet(records') /\ OneJob'
  OBVIOUS
<1>0. /\ TypeOK /\ IsFiniteSet(records) /\ OneJob
      /\ NoJob \in [path : 0..MaxClock, left : SUBSET Files, from : Directories,
                    raced : BOOLEAN]
  BY EmptyIsDirectory, BoundsAssumption DEF BackupInv, NoJob
<1> USE <1>0 DEF TypeOK, OneJob, Threads
<1>1. ASSUME NEW t \in Threads, Begin(t)
      PROVE  TypeOK' /\ IsFiniteSet(records') /\ OneJob'
  <2>1. [path |-> clock, left |-> Files, from |-> save, raced |-> FALSE]
          \in [path : 0..MaxClock, left : SUBSET Files, from : Directories, raced : BOOLEAN]
    BY DEF Directories
  <2>2. tainted' \subseteq 1..MaxBackups
    BY <1>1 DEF Begin
  <2> QED
    BY <1>1, <2>1, <2>2 DEF Begin, Entering, MutexFree
<1>2. ASSUME NEW t \in Threads, NotConfigured(t) \/ DirectoryFails(t)
      PROVE  TypeOK' /\ IsFiniteSet(records') /\ OneJob'
  BY <1>2 DEF NotConfigured, DirectoryFails, Entering, MutexFree, Returns
<1>3. ASSUME NEW t \in Threads, NEW f \in Files, CopyFile(t, f)
      PROVE  TypeOK' /\ IsFiniteSet(records') /\ OneJob'
  <2>1. [job[t] EXCEPT !.left = @ \ {f}]
          \in [path : 0..MaxClock, left : SUBSET Files, from : Directories, raced : BOOLEAN]
    OBVIOUS
  <2>2. job' = [job EXCEPT ![t] = [job[t] EXCEPT !.left = @ \ {f}]]
    BY <1>3 DEF CopyFile
  <2>3. dirs' \in [0..MaxClock -> Directories]
    BY <1>3 DEF CopyFile, Directories
  <2> QED
    BY <1>3, <2>1, <2>2, <2>3 DEF CopyFile, Working
<1>4. ASSUME NEW t \in Threads, Fail(t)
      PROVE  TypeOK' /\ IsFiniteSet(records') /\ OneJob'
  BY <1>4 DEF Fail, Finish, Returns, Working
<1>5. ASSUME NEW t \in Threads, Record(t)
      PROVE  TypeOK' /\ IsFiniteSet(records') /\ OneJob'
  <2>1. Cardinality(records) < MaxBackups /\ records' = records \cup {NewRecord(t)}
    BY <1>5 DEF Record
  <2>2. /\ records' \subseteq [id : 1..MaxBackups, path : 0..MaxClock, from : Directories,
                               raced : BOOLEAN]
        /\ IsFiniteSet(records')
    BY <2>1, NewRecordType
  <2> QED
    BY <1>5, <2>2 DEF Record, Finish, Returns, Working
<1>6. CASE ClickBackup \/ Leave \/ Joined
  BY <1>6 DEF ClickBackup, Leave, Joined
<1>7. CASE IntervalEnds \/ SchedulerLeaves \/ CleanUp
  BY <1>7 DEF IntervalEnds, SchedulerLeaves, CleanUp
<1>8. CASE Tick
  BY <1>8, BoundsAssumption DEF Tick
<1>9. ASSUME NEW f \in Files, GameWrites(f)
      PROVE  TypeOK' /\ IsFiniteSet(records') /\ OneJob'
  <2>1. save' \in [Files -> Versions]
    BY <1>9, BoundsAssumption DEF GameWrites, Versions
  <2>2. job' \in [Threads -> [path : 0..MaxClock, left : SUBSET Files, from : Directories,
                              raced : BOOLEAN]]
    BY <1>9 DEF GameWrites
  <2>3. \A t \in Threads : job[t] = NoJob => job'[t] = NoJob
    BY <1>9 DEF GameWrites
  <2> QED
    BY <1>9, <2>1, <2>2, <2>3 DEF GameWrites
<1>10. CASE UNCHANGED vars
  BY <1>10 DEF vars
<1> QED
  BY <1>1, <1>2, <1>3, <1>4, <1>5, <1>6, <1>7, <1>8, <1>9, <1>10 DEF Next, BackupStep

\* They keep the backup in progress, and those recorded, faithful.
LEMMA BackupFaithfulStep ==
  BackupInv /\ [Next]_vars => JobIsFaithful' /\ RecordedIsFaithful'
<1> SUFFICES ASSUME BackupInv, [Next]_vars
             PROVE  JobIsFaithful' /\ RecordedIsFaithful'
  OBVIOUS
<1>0. TypeOK /\ OneJob /\ JobIsFaithful /\ RecordedIsFaithful
  BY DEF BackupInv
<1>1. ASSUME NEW t \in Threads, Begin(t)
      PROVE  JobIsFaithful' /\ RecordedIsFaithful'
  <2>1. /\ job' = [job EXCEPT ![t] = [path |-> clock, left |-> Files, from |-> save,
                                      raced |-> FALSE]]
        /\ tainted' = tainted \cup {r.id : r \in {q \in records : q.path = clock}}
        /\ UNCHANGED <<save, dirs, records>>
        /\ \A u \in Threads : job[u] = NoJob
    BY <1>1 DEF Begin, MutexFree
  <2>2. \A r \in records : r.path = clock => r.id \in tainted'
    BY <2>1
  <2> QED
    BY <1>0, <2>1, <2>2 DEF JobIsFaithful, RecordedIsFaithful, TypeOK
<1>2. ASSUME NEW t \in Threads, NEW f \in Files, CopyFile(t, f)
      PROVE  JobIsFaithful' /\ RecordedIsFaithful'
  <2>1. /\ job[t] # NoJob /\ f \in job[t].left
        /\ dirs' = [dirs EXCEPT ![job[t].path][f] = save[f]]
        /\ job' = [job EXCEPT ![t].left = @ \ {f}]
        /\ UNCHANGED <<save, records, tainted>>
    BY <1>2 DEF CopyFile, Working
  <2>2. \A u \in Threads : u # t => job[u] = NoJob
    BY <1>0, <2>1 DEF OneJob, Threads
  <2>3. /\ job'[t].path = job[t].path /\ job'[t].from = job[t].from
        /\ job'[t].raced = job[t].raced /\ job'[t].left = job[t].left \ {f}
        /\ \A u \in Threads : u # t => job'[u] = NoJob
    BY <1>0, <2>1, <2>2 DEF TypeOK
  <2>4. /\ dirs'[job[t].path][f] = save[f]
        /\ \A g \in Files : g # f => dirs'[job[t].path][g] = dirs[job[t].path][g]
        /\ \A s \in 0..MaxClock : s # job[t].path => dirs'[s] = dirs[s]
    BY <1>0, <2>1 DEF TypeOK, Directories
  <2>5. JobIsFaithful'
    BY <1>0, <2>1, <2>3, <2>4 DEF JobIsFaithful
  <2>6. RecordedIsFaithful'
    BY <1>0, <2>1, <2>4 DEF JobIsFaithful, RecordedIsFaithful, TypeOK
  <2> QED
    BY <2>5, <2>6
<1>3. ASSUME NEW t \in Threads, Record(t)
      PROVE  JobIsFaithful' /\ RecordedIsFaithful'
  <2>1. /\ job[t] # NoJob /\ job[t].left = {}
        /\ records' = records \cup {NewRecord(t)}
        /\ job' = [job EXCEPT ![t] = NoJob]
        /\ UNCHANGED <<save, dirs, tainted>>
    BY <1>3 DEF Record, Working, Finish
  <2>2. \A u \in Threads : job'[u] = NoJob
    BY <1>0, <2>1 DEF OneJob, Threads, TypeOK
  <2>3. job[t].raced \/ dirs[job[t].path] = job[t].from
    <3>1. dirs[job[t].path] \in Directories /\ job[t].from \in Directories
      BY <1>0 DEF TypeOK
    <3>2. job[t].raced \/ \A f \in Files : dirs[job[t].path][f] = job[t].from[f]
      BY <1>0, <2>1 DEF JobIsFaithful
    <3> QED
      BY <3>1, <3>2 DEF Directories
  <2> QED
    BY <1>0, <2>1, <2>2, <2>3 DEF JobIsFaithful, RecordedIsFaithful, NewRecord
<1>4. ASSUME NEW t \in Threads, NotConfigured(t) \/ DirectoryFails(t) \/ Fail(t)
      PROVE  JobIsFaithful' /\ RecordedIsFaithful'
  <2>1. /\ UNCHANGED <<save, dirs, records, tainted>>
        /\ job' = job \/ job' = [job EXCEPT ![t] = NoJob]
    BY <1>4 DEF NotConfigured, DirectoryFails, Fail, Finish
  <2>2. \A u \in Threads : job'[u] # NoJob => job[u] # NoJob /\ job'[u] = job[u]
    BY <1>0, <2>1 DEF TypeOK
  <2> QED
    BY <1>0, <2>1, <2>2 DEF JobIsFaithful, RecordedIsFaithful
<1>5. CASE ClickBackup \/ Leave \/ Joined \/ IntervalEnds \/ SchedulerLeaves \/ CleanUp \/ Tick
  BY <1>0, <1>5
  DEF ClickBackup, Leave, Joined, IntervalEnds, SchedulerLeaves, CleanUp, Tick,
      JobIsFaithful, RecordedIsFaithful
<1>6. ASSUME NEW f \in Files, GameWrites(f)
      PROVE  JobIsFaithful' /\ RecordedIsFaithful'
  <2>1. /\ UNCHANGED <<dirs, records, tainted>>
        /\ \A t \in Threads : job'[t] # NoJob =>
             job[t] # NoJob /\ job'[t].raced /\ job'[t].path = job[t].path
    BY <1>0, <1>6 DEF GameWrites, TypeOK
  <2> QED
    BY <1>0, <2>1 DEF JobIsFaithful, RecordedIsFaithful
<1>7. CASE UNCHANGED vars
  BY <1>0, <1>7 DEF vars, JobIsFaithful, RecordedIsFaithful
<1> QED
  BY <1>1, <1>2, <1>3, <1>4, <1>5, <1>6, <1>7 DEF Next, BackupStep
-----------------------------------------------------------------------------

\* For any files and bounds, every variable keeps its type, and a thread in the middle
\* of createBackup is where the code put it.
THEOREM BackupTypes == Spec => []TypeOK
<1>1. BackupInv /\ [Next]_vars => BackupInv'
  BY BackupTypeStep, BackupFaithfulStep DEF BackupInv
<1>2. BackupInv => TypeOK
  BY DEF BackupInv
<1> QED
  BY BackupInitial, <1>1, <1>2, PTL DEF Spec

\* For any files and bounds, a recorded backup holds the whole save directory as it was
\* when the backup began, unless the game or a backup of the same second wrote into it.
THEOREM RecordsAreFaithful == Spec => []RecordedIsFaithful
<1>1. BackupInv /\ [Next]_vars => BackupInv'
  BY BackupTypeStep, BackupFaithfulStep DEF BackupInv
<1>2. BackupInv => RecordedIsFaithful
  BY DEF BackupInv
<1> QED
  BY BackupInitial, <1>1, <1>2, PTL DEF Spec
=============================================================================
