------------------------------ MODULE Settings -------------------------------
(***************************************************************************)
(* One setting of the application in the places that hold it: the file,   *)
(* core/Config's document, the page that shows it, the part that uses it. *)
(* The operations treat settings alike but for the kind of `setting`, so   *)
(* one is followed and the other pages appear as saves of the document.    *)
(* Only the interface thread writes; the process may die at any step.      *)
(***************************************************************************)
EXTENDS Naturals

CONSTANTS
  Options,  \* what the user may choose instead of the default
  Default   \* the setting's default

ASSUME OptionsAssumption ==
  /\ Default \notin Options
  /\ {"absent", "odd", "missing", "torn", "unread"} \cap (Options \cup {Default}) = {}

VARIABLES
  setting,  \* which kind of setting is followed; constant
  file,     \* config/settings.json
  conf,     \* m_data
  shown,    \* the page's buffer, "unread" until its tab is first drawn
  live,     \* the copy of the part that keeps one
  running,  \* the process is up
  saving,   \* the save in progress, by who asked for it
  opened,   \* that save has opened, and so emptied, the file
  clean,    \* history: no edit, test or reset since the setting was saved or read
  promised, \* history: the document the next start should find
  excused   \* history: a save since was cut short or failed

settingsVars == <<setting, file, conf, shown, live, running, saving, opened,
                  clean, promised, excused>>

Vals == Options \cup {Default}
\* "absent": no such key, or a value of another type (a theme nobody registered);
\* "odd": its section is not an object.
Docs == Vals \cup {"absent", "odd"}
Kinds == {"connection", "exePath", "autoRestart", "scan", "backup", "theme"}

\* The tabs whose buffers are static locals, initialised when first drawn.
Lazy == {"autoRestart", "scan"}
Typed == {"connection", "exePath"} \cup Lazy

\* The document a start works with.
Loaded(f) == IF f \in Docs THEN f ELSE Default

Lookup(d) == IF d = "odd" THEN "absent" ELSE d
Get(d) == IF Lookup(d) \in Vals THEN Lookup(d) ELSE Default
CanSet(d) == d # "odd"

\* The schedulers read the document, the other parts keep a copy.
InUse == IF setting \in {"scan", "backup"} THEN Get(conf) ELSE live

\* What the page's Save button stores: the backup tab copies the document to its
\* buffers in every frame, over what was typed in the last.
OnPage == IF setting \in Typed THEN shown ELSE Get(conf)

FirstShown(d) == IF setting \in Lazy THEN "unread" ELSE Get(d)

SettingsInit ==
  /\ setting \in Kinds
  /\ file = "missing" /\ conf = Default
  /\ shown = "unread" /\ live = Default
  /\ running = FALSE /\ saving = "no" /\ opened = FALSE
  /\ clean = TRUE /\ promised = Default /\ excused = FALSE

Between == running /\ saving = "no"

-----------------------------------------------------------------------------
Start ==
  /\ ~running /\ running' = TRUE
  /\ conf' = Loaded(file)
  /\ live' = Get(conf')
  /\ shown' = FirstShown(conf')
  /\ clean' = TRUE
  /\ UNCHANGED <<setting, file, saving, opened, promised, excused>>

DrawTab ==
  /\ Between /\ setting \in Lazy /\ shown = "unread"
  /\ shown' = Get(conf)
  /\ UNCHANGED <<setting, file, conf, live, running, saving, opened, clean,
                 promised, excused>>

Type(v) ==
  /\ Between /\ setting \in Typed /\ shown # "unread"
  /\ shown' = v /\ clean' = FALSE
  /\ UNCHANGED <<setting, file, conf, live, running, saving, opened, promised, excused>>

\* "Test Connection" puts the buffers into use without saving them.
Test ==
  /\ Between /\ setting = "connection"
  /\ live' = shown
  /\ UNCHANGED <<setting, file, conf, shown, running, saving, opened, clean,
                 promised, excused>>

ResetToDefaults ==
  /\ Between
  /\ conf' = Default /\ clean' = FALSE
  /\ UNCHANGED <<setting, file, shown, live, running, saving, opened, promised, excused>>

\* save is called for `who` once the document is d.
BeginSave(who, d) ==
  /\ conf' = d /\ saving' = who
  /\ promised' = d /\ excused' = FALSE
  /\ UNCHANGED <<setting, file, shown, running, opened, clean>>

SavePage ==
  /\ Between /\ setting # "theme" /\ OnPage # "unread" /\ CanSet(conf)
  /\ BeginSave("page", OnPage)
  /\ UNCHANGED live

ApplyTheme(v) ==
  /\ Between /\ setting = "theme" /\ CanSet(conf)
  /\ live' = v
  /\ BeginSave("page", v)

\* The menu, or another page: whatever the document holds is saved with it.
SaveDocument ==
  /\ Between
  /\ BeginSave("other", conf)
  /\ UNCHANGED live

\* Storing into a section that is not an object throws, past main's loop.
SetThrows ==
  /\ Between /\ ~CanSet(conf) /\ OnPage # "unread"
  /\ running' = FALSE
  /\ UNCHANGED <<setting, file, conf, shown, live, saving, opened, clean, promised, excused>>

\* Variant: the program ends without a save.
ExitUnsaved ==
  /\ Between
  /\ running' = FALSE /\ promised' = conf /\ excused' = FALSE
  /\ UNCHANGED <<setting, file, conf, shown, live, saving, opened, clean>>

Exit ==
  /\ Between
  /\ BeginSave("exit", conf)
  /\ UNCHANGED live

Open ==
  /\ running /\ saving # "no" /\ ~opened
  /\ opened' = TRUE /\ file' = "torn"
  /\ UNCHANGED <<setting, conf, shown, live, running, saving, clean, promised, excused>>

\* Back in the caller: a page's save is followed by the parts' own copies.
SaveReturns(failed) ==
  /\ saving' = "no" /\ opened' = FALSE
  /\ running' = (saving # "exit")
  /\ live' = IF saving = "page" /\ setting \in {"connection", "exePath"} THEN shown ELSE live
  /\ clean' = (clean \/ saving = "page")
  /\ excused' = failed
  /\ UNCHANGED <<setting, conf, shown, promised>>

OpenFails ==
  /\ running /\ saving # "no" /\ ~opened
  /\ SaveReturns(TRUE)
  /\ UNCHANGED file

\* The stream's state is not looked at: a full disk goes unnoticed.
Write ==
  /\ running /\ opened
  /\ \/ file' = conf /\ SaveReturns(FALSE)
     \/ file' = "torn" /\ SaveReturns(TRUE)

Crash ==
  /\ running /\ running' = FALSE
  /\ saving' = "no" /\ opened' = FALSE
  /\ excused' = (excused \/ saving # "no")
  /\ UNCHANGED <<setting, file, conf, shown, live, clean, promised>>

\* Somebody edits the file while the application is down.
EditFile(f) ==
  /\ ~running
  /\ file' = f /\ promised' = Loaded(f) /\ excused' = FALSE
  /\ UNCHANGED <<setting, conf, shown, live, running, saving, opened, clean>>

SettingsNext ==
  \/ Start \/ DrawTab \/ Test \/ ResetToDefaults
  \/ SavePage \/ SaveDocument \/ SetThrows \/ Exit
  \/ Open \/ OpenFails \/ Write \/ Crash
  \/ \E v \in Vals : Type(v) \/ ApplyTheme(v)
  \/ \E f \in Docs \cup {"torn"} : EditFile(f)

SettingsSpec == SettingsInit /\ [][SettingsNext]_settingsVars

-----------------------------------------------------------------------------
SettingsTypeOK ==
  /\ setting \in Kinds
  /\ file \in Docs \cup {"missing", "torn"} /\ conf \in Docs /\ promised \in Docs
  /\ shown \in Vals \cup {"unread"} /\ live \in Vals
  /\ saving \in {"no", "page", "other", "exit"}
  /\ running \in BOOLEAN /\ opened \in BOOLEAN
  /\ clean \in BOOLEAN /\ excused \in BOOLEAN

\* A start finds the configuration last saved, by any page, by the menu or by a
\* regular exit, or written by hand: a crash, or an exception out of a page, loses only
\* what was not saved, unless it cut a save short or a save had failed.
SavedIsFoundAgain ==
  [][~running /\ running' /\ ~excused => conf' = promised]_settingsVars

\* A setting nobody is editing, testing or resetting has one value: the page shows what
\* the document says and the part works with it.  autoRestart is the exception: its part
\* reads it at the next start.
QuietSettingHasOneValue ==
  running /\ clean /\ setting # "autoRestart" =>
    /\ OnPage \in {"unread", Get(conf)}
    /\ InUse = Get(conf)

\* The two together.
SettingsKept == []QuietSettingHasOneValue /\ SavedIsFoundAgain
=============================================================================
