----------------------------- MODULE Pages_proofs -----------------------------
(***************************************************************************)
(* Theorems about the pages of the interface and the lists behind them:    *)
(* Settings, for any values the user may choose; Console and PlayerPanel,  *)
(* for any players; MapView, for any map, canvas and zoom; Refresh, for    *)
(* any number of workers; ServerProfiles and Notifications, for lists of   *)
(* any length.                                                             *)
(***************************************************************************)
EXTENDS Settings, Console, PlayerPanel, MapView, Refresh, ServerProfiles, Notifications,
        SequenceTheorems, WellFoundedInduction, TLAPS
-----------------------------------------------------------------------------
(* Lists.                                                                  *)

\* Of the numbers that fail, one is the smallest.
LEMMA SmallestNat ==
  ASSUME NEW Bad, Bad \subseteq Nat, Bad # {}
  PROVE  \E n \in Bad : \A m \in Bad : n <= m
<1> DEFINE R == {ss \in Nat \X Nat : ss[1] < ss[2]}
<1>1. IsWellFoundedOn(R, Nat)
  BY NatLessThanWellFounded DEF OpToRel
<1>2. PICK n \in Bad : \A m \in Bad : ~ (<<m, n>> \in R)
  <2> HIDE DEF R
  <2> QED
    BY <1>1, WFMin
<1>3. \A m \in Bad : ~ (m < n)
  BY <1>2
<1> QED
  BY <1>3

\* What Kept makes of the first m elements.
Keeping(f, s, keep, m) ==
  f = [n \in 0..m |->
        IF n = 0 THEN <<>>
        ELSE IF n \in keep THEN Append(f[n - 1], s[n]) ELSE f[n - 1]]

LEMMA KeepingExists ==
  ASSUME NEW s, NEW keep, NEW m \in Nat
  PROVE  \E f : Keeping(f, s, keep, m)
<1> DEFINE Bad == {n \in Nat : ~ \E f : Keeping(f, s, keep, n)}
<1> SUFFICES ASSUME Bad # {} PROVE FALSE
  OBVIOUS
<1>1. PICK n \in Bad : \A k \in Bad : n <= k
  <2> HIDE DEF Bad
  <2> QED
    BY SmallestNat, Bad \subseteq Nat DEF Bad
<1>2. n # 0
  <2>1. Keeping([k \in 0..0 |-> <<>>], s, keep, 0)
    BY DEF Keeping
  <2> QED
    BY <2>1
<1>3. PICK f : Keeping(f, s, keep, n - 1)
  BY <1>1, <1>2
<1> DEFINE g == [k \in 0..n |-> IF k < n THEN f[k]
                                ELSE IF n \in keep THEN Append(f[n - 1], s[n]) ELSE f[n - 1]]
<1>4. Keeping(g, s, keep, n)
  <2>1. ASSUME NEW k \in 0..n
        PROVE  g[k] = IF k = 0 THEN <<>>
                      ELSE IF k \in keep THEN Append(g[k - 1], s[k]) ELSE g[k - 1]
    <3>1. CASE k < n
      <4>1. g[k] = f[k] /\ (k # 0 => g[k - 1] = f[k - 1]) /\ k \in 0..(n - 1)
        BY <3>1
      <4>2. f[k] = IF k = 0 THEN <<>>
                   ELSE IF k \in keep THEN Append(f[k - 1], s[k]) ELSE f[k - 1]
        BY <1>3, <4>1 DEF Keeping
      <4> QED
        BY <4>1, <4>2
    <3>2. CASE k = n
      <4>1. g[n - 1] = f[n - 1]
        BY <1>2
      <4> QED
        BY <1>2, <3>2, <4>1
    <3> QED
      BY <3>1, <3>2
  <2>2. g = [k \in 0..n |-> g[k]]
    OBVIOUS
  <2> HIDE DEF g
  <2> QED
    BY <2>1, <2>2 DEF Keeping
<1> QED
  BY <1>4

\* Kept neither makes up, nor forgets, nor moves an element to a later place.
LEMMA KeptIs ==
  ASSUME NEW S, NEW s \in Seq(S), NEW keep
  PROVE  /\ Kept(s, keep) \in Seq(S)
         /\ Len(Kept(s, keep)) <= Len(s)
         /\ \A k \in 1..Len(Kept(s, keep)) :
              \E i \in 1..Len(s) : i \in keep /\ k <= i /\ Kept(s, keep)[k] = s[i]
         /\ \A i \in 1..Len(s) : i \in keep =>
              \E k \in 1..Len(Kept(s, keep)) : k <= i /\ Kept(s, keep)[k] = s[i]
<1>0. Len(s) \in Nat
  OBVIOUS
<1> DEFINE f == CHOOSE g : Keeping(g, s, keep, Len(s))
<1>1. Keeping(f, s, keep, Len(s))
  BY <1>0, KeepingExists
<1>2. Kept(s, keep) = f[Len(s)]
  BY DEF Kept, Keeping
<1> HIDE DEF f
<1> DEFINE Good(n) == /\ f[n] \in Seq(S)
                      /\ Len(f[n]) <= n
                      /\ \A k \in 1..Len(f[n]) :
                           \E i \in 1..n : i \in keep /\ k <= i /\ f[n][k] = s[i]
                      /\ \A i \in 1..n : i \in keep =>
                           \E k \in 1..Len(f[n]) : k <= i /\ f[n][k] = s[i]
           Bad == {n \in 0..Len(s) : ~ Good(n)}
<1>3. SUFFICES ASSUME Bad # {} PROVE FALSE
  BY <1>0, <1>2
<1>4. PICK n \in Bad : \A k \in Bad : n <= k
  <2>1. Bad \subseteq Nat
    BY <1>0
  <2> HIDE DEF Bad
  <2> QED
    BY <1>3, <2>1, SmallestNat
<1>5. n # 0
  <2>1. f[0] = <<>> /\ <<>> \in Seq(S) /\ Len(<<>>) = 0
    BY <1>0, <1>1 DEF Keeping
  <2>2. Good(0)
    BY <2>1
  <2> QED
    BY <1>4, <2>2
<1>6. n - 1 \in 0..Len(s) /\ n \in 1..Len(s) /\ s[n] \in S
  BY <1>0, <1>5
<1>7. Good(n - 1)
  BY <1>4, <1>6
<1>8. f[n] = IF n \in keep THEN Append(f[n - 1], s[n]) ELSE f[n - 1]
  <2>1. \A k \in 0..Len(s) : f[k] = IF k = 0 THEN <<>>
                                   ELSE IF k \in keep THEN Append(f[k - 1], s[k]) ELSE f[k - 1]
    BY <1>1 DEF Keeping
  <2> HIDE DEF Bad
  <2> QED
    BY <1>5, <1>6, <2>1
<1>9. CASE n \notin keep
  <2>1. f[n] = f[n - 1]
    BY <1>8, <1>9
  <2>2. 1..n = 1..(n - 1) \cup {n}
    BY <1>6
  <2>3. Len(f[n]) <= n /\ Len(f[n]) \in Nat
    BY <1>6, <1>7, <2>1
  <2>4. \A i \in 1..n : i \in keep => i \in 1..(n - 1)
    BY <1>9, <2>2
  <2>5. /\ f[n] \in Seq(S)
        /\ \A k \in 1..Len(f[n]) :
             \E i \in 1..(n - 1) : i \in keep /\ k <= i /\ f[n][k] = s[i]
        /\ \A i \in 1..(n - 1) : i \in keep =>
             \E k \in 1..Len(f[n]) : k <= i /\ f[n][k] = s[i]
    <3>1. /\ f[n - 1] \in Seq(S)
          /\ \A k \in 1..Len(f[n - 1]) :
               \E i \in 1..(n - 1) : i \in keep /\ k <= i /\ f[n - 1][k] = s[i]
          /\ \A i \in 1..(n - 1) : i \in keep =>
               \E k \in 1..Len(f[n - 1]) : k <= i /\ f[n - 1][k] = s[i]
      BY <1>7, Zenon
    <3> DEFINE t == f[n - 1]
               u == f[n]
    <3>2. u = t
      BY <2>1
    <3>3. /\ t \in Seq(S)
          /\ \A k \in 1..Len(t) : \E i \in 1..(n - 1) : i \in keep /\ k <= i /\ t[k] = s[i]
          /\ \A i \in 1..(n - 1) : i \in keep => \E k \in 1..Len(t) : k <= i /\ t[k] = s[i]
      BY <3>1
    <3> HIDE DEF t, u
    <3>4. /\ u \in Seq(S)
          /\ \A k \in 1..Len(u) : \E i \in 1..(n - 1) : i \in keep /\ k <= i /\ u[k] = s[i]
          /\ \A i \in 1..(n - 1) : i \in keep => \E k \in 1..Len(u) : k <= i /\ u[k] = s[i]
      BY <3>2, <3>3, Zenon
    <3> QED
      BY <3>4 DEF u
  <2>6. \A i \in 1..(n - 1) : i \in 1..n
    BY <2>2
  <2>7. Good(n)
    <3> DEFINE u == f[n]
    <3> HIDE DEF u
    <3>1. /\ u \in Seq(S) /\ Len(u) <= n
          /\ \A k \in 1..Len(u) : \E i \in 1..n : i \in keep /\ k <= i /\ u[k] = s[i]
          /\ \A i \in 1..n : i \in keep => \E k \in 1..Len(u) : k <= i /\ u[k] = s[i]
      BY <2>3, <2>4, <2>5, <2>6 DEF u
    <3> QED
      BY <3>1 DEF u
  <2> QED
    BY <2>7
<1>10. CASE n \in keep
  <2> DEFINE t == f[n - 1]
             u == f[n]
  <2> HIDE DEF t, u
  <2>1. u = Append(t, s[n])
    BY <1>8, <1>10 DEF t, u
  <2>2. /\ t \in Seq(S) /\ Len(t) \in Nat /\ Len(t) <= n - 1
        /\ \A k \in 1..Len(t) : \E i \in 1..(n - 1) : i \in keep /\ k <= i /\ t[k] = s[i]
        /\ \A i \in 1..(n - 1) : i \in keep => \E k \in 1..Len(t) : k <= i /\ t[k] = s[i]
    <3>1. t \in Seq(S) /\ Len(t) <= n - 1
      BY <1>7 DEF t
    <3>2. Len(t) \in Nat
      BY <3>1
    <3>3. \A k \in 1..Len(t) : \E i \in 1..(n - 1) : i \in keep /\ k <= i /\ t[k] = s[i]
      BY <1>7 DEF t
    <3>4. \A i \in 1..(n - 1) : i \in keep => \E k \in 1..Len(t) : k <= i /\ t[k] = s[i]
      BY <1>7 DEF t
    <3> QED
      BY <3>1, <3>2, <3>3, <3>4
  <2>3. /\ u \in Seq(S) /\ Len(u) = Len(t) + 1
        /\ \A k \in 1..Len(t) : u[k] = t[k]
        /\ u[Len(t) + 1] = s[n]
    BY <1>6, <2>1, <2>2
  <2>4. 1..Len(u) = 1..Len(t) \cup {Len(t) + 1} /\ 1..n = 1..(n - 1) \cup {n}
    BY <1>6, <2>2, <2>3
  <2>5. ASSUME NEW k \in 1..Len(u)
        PROVE  \E i \in 1..n : i \in keep /\ k <= i /\ u[k] = s[i]
    <3>1. CASE k \in 1..Len(t)
      <4>1. PICK i \in 1..(n - 1) : i \in keep /\ k <= i /\ t[k] = s[i]
        BY <2>2, <3>1
      <4>2. i \in 1..n /\ u[k] = s[i]
        BY <2>3, <2>4, <3>1, <4>1
      <4> QED
        BY <4>1, <4>2
    <3>2. CASE k = Len(t) + 1
      <4>1. n \in 1..n /\ k <= n
        BY <1>6, <2>2, <3>2
      <4>2. u[k] = s[n]
        BY <2>3, <3>2
      <4> QED
        BY <1>10, <4>1, <4>2
    <3> QED
      BY <2>4, <3>1, <3>2
  <2>6. ASSUME NEW i \in 1..n, i \in keep
        PROVE  \E k \in 1..Len(u) : k <= i /\ u[k] = s[i]
    <3>1. CASE i \in 1..(n - 1)
      <4>1. PICK k \in 1..Len(t) : k <= i /\ t[k] = s[i]
        BY <2>2, <2>6, <3>1
      <4>2. k \in 1..Len(u) /\ u[k] = s[i]
        BY <2>3, <2>4, <4>1
      <4> QED
        BY <4>1, <4>2
    <3>2. CASE i = n
      BY <1>6, <2>2, <2>3, <2>4, <3>2
    <3> QED
      BY <2>4, <3>1, <3>2
  <2>7. Good(n)
    BY <1>6, <2>2, <2>3, <2>5, <2>6 DEF u
  <2> QED
    BY <2>7
<1> QED
  BY <1>9, <1>10
-----------------------------------------------------------------------------
(* Settings.                                                               *)

\* What the file and the promise have to do with each other: equal while no save is in
\* progress and none failed; during a save the promise is the document being written.
FileKeepsPromise ==
  /\ saving = "no" /\ ~excused => Loaded(file) = promised
  /\ saving # "no" => running /\ promised = conf
  /\ saving = "no" => ~opened

\* A page whose save is in progress shows the document's value, and its part either
\* has it already or takes it from the page when the save returns.
PageSaves ==
  saving = "page" =>
    /\ OnPage = Get(conf)
    /\ setting = "theme" => live = Get(conf)

\* The buffers the constructor fills are never unread.
BuffersFilled == running /\ setting \in {"connection", "exePath"} => shown # "unread"

SettingsInv ==
  SettingsTypeOK /\ FileKeepsPromise /\ PageSaves /\ BuffersFilled /\ QuietSettingHasOneValue
-----------------------------------------------------------------------------

LEMMA SettingsInitial == SettingsInit => SettingsInv
BY OptionsAssumption
DEF SettingsInit, SettingsInv, SettingsTypeOK, FileKeepsPromise, PageSaves, BuffersFilled,
    QuietSettingHasOneValue, Kinds, Docs, Vals, Loaded

\* What is read from a document: a value of the setting, and one that is there as it is.
LEMMA GetValue == \A d : Get(d) \in Vals /\ (d \in Vals => Get(d) = d)
BY OptionsAssumption DEF Get, Lookup, Vals

\* Every step keeps the types.
LEMMA SettingsTypeStep == SettingsInv /\ [SettingsNext]_settingsVars => SettingsTypeOK'
<1> SUFFICES ASSUME SettingsInv, [SettingsNext]_settingsVars
             PROVE  SettingsTypeOK'
  OBVIOUS
<1> USE GetValue DEF SettingsInv, SettingsTypeOK, Between, Docs
<1>1. CASE Start
  BY <1>1 DEF Start, Loaded, FirstShown, Vals
<1>2. CASE DrawTab \/ Test \/ ResetToDefaults
  <2>1. CASE DrawTab
    BY <2>1 DEF DrawTab
  <2>2. CASE Test
    BY <2>2 DEF Test, BuffersFilled
  <2>3. CASE ResetToDefaults
    BY <2>3 DEF ResetToDefaults, Vals
  <2> QED
    BY <1>2, <2>1, <2>2, <2>3
<1>3. CASE SavePage \/ SaveDocument \/ Exit
  <2>1. CASE SavePage
    <3>1. OnPage \in Vals
      BY <2>1 DEF SavePage, OnPage
    <3> QED
      BY <2>1, <3>1 DEF SavePage, BeginSave
  <2>2. CASE SaveDocument \/ Exit
    BY <2>2 DEF SaveDocument, Exit, BeginSave
  <2> QED
    BY <1>3, <2>1, <2>2
<1>4. CASE SetThrows \/ Crash \/ Open
  BY <1>4 DEF SetThrows, Crash, Open
<1>5. CASE OpenFails \/ Write
  <2>1. /\ UNCHANGED <<setting, conf, shown, promised>>
        /\ saving' = "no" /\ opened' = FALSE /\ running' = (saving # "exit")
        /\ clean' = (clean \/ saving = "page") /\ excused' \in BOOLEAN
        /\ live' = IF saving = "page" /\ setting \in {"connection", "exePath"}
                     THEN shown ELSE live
    BY <1>5 DEF OpenFails, Write, SaveReturns
  <2>2. running /\ file' \in {file, conf, "torn"}
    BY <1>5 DEF OpenFails, Write
  <2>3. live' \in Vals
    BY <2>1, <2>2 DEF BuffersFilled
  <2>4. running' \in BOOLEAN /\ clean' \in BOOLEAN
    BY <2>1
  <2> QED
    BY <2>1, <2>2, <2>3, <2>4
<1>6. ASSUME NEW v \in Vals, Type(v) \/ ApplyTheme(v)
      PROVE  SettingsTypeOK'
  BY <1>6 DEF Type, ApplyTheme, BeginSave
<1>7. ASSUME NEW f \in Docs \cup {"torn"}, EditFile(f)
      PROVE  SettingsTypeOK'
  <2>1. f \in Docs \cup {"missing", "torn"} /\ Loaded(f) \in Docs
    BY <1>7 DEF Loaded, Vals
  <2> QED
    BY <1>7, <2>1 DEF EditFile
<1>8. CASE UNCHANGED settingsVars
  BY <1>8 DEF settingsVars
<1> QED
  BY <1>1, <1>2, <1>3, <1>4, <1>5, <1>6, <1>7, <1>8 DEF SettingsNext

\* Every step keeps the relation between the file and what was promised.
LEMMA PromiseStep == SettingsInv /\ [SettingsNext]_settingsVars => FileKeepsPromise'
<1> SUFFICES ASSUME SettingsInv, [SettingsNext]_settingsVars
             PROVE  FileKeepsPromise'
  OBVIOUS
<1> USE DEF SettingsInv, SettingsTypeOK, FileKeepsPromise, Between, Loaded
<1>1. CASE Start \/ DrawTab \/ Test \/ ResetToDefaults \/ SetThrows \/ Crash
  BY <1>1 DEF Start, DrawTab, Test, ResetToDefaults, SetThrows, Crash
<1>2. CASE SavePage \/ SaveDocument \/ Exit
  BY <1>2 DEF SavePage, SaveDocument, Exit, BeginSave
<1>3. CASE Open \/ OpenFails \/ Write
  BY <1>3 DEF Open, OpenFails, Write, SaveReturns
<1>4. ASSUME NEW v \in Vals, Type(v) \/ ApplyTheme(v)
      PROVE  FileKeepsPromise'
  BY <1>4 DEF Type, ApplyTheme, BeginSave
<1>5. ASSUME NEW f \in Docs \cup {"torn"}, EditFile(f)
      PROVE  FileKeepsPromise'
  BY <1>5 DEF EditFile
<1>6. CASE UNCHANGED settingsVars
  BY <1>6 DEF settingsVars
<1> QED
  BY <1>1, <1>2, <1>3, <1>4, <1>5, <1>6 DEF SettingsNext

\* Every step keeps the page, the document and the parts in agreement.
LEMMA AgreementStep ==
  SettingsInv /\ [SettingsNext]_settingsVars =>
    PageSaves' /\ BuffersFilled' /\ QuietSettingHasOneValue'
<1> SUFFICES ASSUME SettingsInv, [SettingsNext]_settingsVars
             PROVE  PageSaves' /\ BuffersFilled' /\ QuietSettingHasOneValue'
  OBVIOUS
<1> USE GetValue
    DEF SettingsInv, SettingsTypeOK, FileKeepsPromise, PageSaves, BuffersFilled,
        QuietSettingHasOneValue, Kinds, OnPage, InUse, Typed, Lazy, Between
<1>1. CASE Start
  BY <1>1, OptionsAssumption DEF Start, FirstShown, Vals
<1>2. CASE DrawTab
  BY <1>2, OptionsAssumption DEF DrawTab, Vals
<1>3. CASE Test \/ ResetToDefaults
  BY <1>3 DEF Test, ResetToDefaults
<1>4. CASE SavePage
  BY <1>4 DEF SavePage, BeginSave
<1>5. CASE SaveDocument \/ Exit
  BY <1>5 DEF SaveDocument, Exit, BeginSave
<1>6. CASE SetThrows \/ Crash \/ Open
  BY <1>6 DEF SetThrows, Crash, Open
<1>7. CASE OpenFails \/ Write
  <2>1. /\ UNCHANGED <<setting, conf, shown>>
        /\ saving' = "no" /\ running' = (saving # "exit")
        /\ clean' = (clean \/ saving = "page")
        /\ live' = IF saving = "page" /\ setting \in {"connection", "exePath"}
                     THEN shown ELSE live
    BY <1>7 DEF OpenFails, Write, SaveReturns
  <2>2. saving # "no" /\ running
    BY <1>7 DEF OpenFails, Write
  <2> QED
    BY <2>1, <2>2
<1>8. ASSUME NEW v \in Vals, Type(v)
      PROVE  PageSaves' /\ BuffersFilled' /\ QuietSettingHasOneValue'
  BY <1>8, OptionsAssumption DEF Type, Vals
<1>9. ASSUME NEW v \in Vals, ApplyTheme(v)
      PROVE  PageSaves' /\ BuffersFilled' /\ QuietSettingHasOneValue'
  BY <1>9 DEF ApplyTheme, BeginSave
<1>10. ASSUME NEW f \in Docs \cup {"torn"}, EditFile(f)
       PROVE  PageSaves' /\ BuffersFilled' /\ QuietSettingHasOneValue'
  BY <1>10 DEF EditFile
<1>11. CASE UNCHANGED settingsVars
  BY <1>11 DEF settingsVars
<1> QED
  BY <1>1, <1>2, <1>3, <1>4, <1>5, <1>6, <1>7, <1>8, <1>9, <1>10, <1>11
  DEF SettingsNext

\* A start after saves that were not cut short works with the document last saved.
LEMMA StartFindsPromise ==
  SettingsInv /\ [SettingsNext]_settingsVars =>
    (~running /\ running' /\ ~excused => conf' = promised)
<1> SUFFICES ASSUME SettingsInv, SettingsNext, ~running, running', ~excused
             PROVE  conf' = promised
  BY DEF settingsVars
<1>1. Start
  BY DEF SettingsNext, Start, DrawTab, Test, ResetToDefaults, SavePage, SaveDocument,
         SetThrows, Exit, Open, OpenFails, Write, Crash, Type, ApplyTheme, EditFile,
         Between, BeginSave, SaveReturns
<1> QED
  BY <1>1 DEF Start, SettingsInv, FileKeepsPromise

LEMMA SettingsStep == SettingsInv /\ [SettingsNext]_settingsVars => SettingsInv'
  BY SettingsTypeStep, PromiseStep, AgreementStep DEF SettingsInv
-----------------------------------------------------------------------------

\* For any values every variable keeps its type.
THEOREM SettingsTypes == SettingsSpec => []SettingsTypeOK
<1>1. SettingsInv => SettingsTypeOK
  BY DEF SettingsInv
<1> QED
  BY <1>1, SettingsInitial, SettingsStep, PTL DEF SettingsSpec

\* For any values: a quiet setting has one value on the page, in the document and in the
\* part that uses it, and every start finds what was last saved unless a save was cut
\* short or failed.
THEOREM SettingsAreKept == SettingsSpec => SettingsKept
<1>0. SettingsInv /\ [SettingsNext]_settingsVars => SettingsInv'
  BY SettingsStep
<1>1. SettingsInv => QuietSettingHasOneValue
  BY DEF SettingsInv
<1>2. SettingsInv /\ [SettingsNext]_settingsVars =>
        [~running /\ running' /\ ~excused => conf' = promised]_settingsVars
  BY StartFindsPromise
<1> QED
  BY SettingsInitial, <1>0, <1>1, <1>2, PTL
  DEF SettingsSpec, SettingsKept, SavedIsFoundAgain
-----------------------------------------------------------------------------
(* Console.                                                                *)

\* Kick and ban share one target: one of them at a time, and only on its page.
OnePlayerDialog ==
  /\ ~("kick" \in asking /\ "ban" \in asking)
  /\ "kick" \in asking \/ "ban" \in asking => page = "Players"

\* A dialog that waits, drawn or not, is about what was asked for.
WaitingIsAsked ==
  \A what \in asking :
    what \in {"stop", "kick", "ban"} /\ <<what, About(what)>> \in asked

ConsoleInv == OnePlayerDialog /\ WaitingIsAsked
-----------------------------------------------------------------------------

LEMMA ConsoleInitial == ConsoleInit => ConsoleInv
BY DEF ConsoleInit, ConsoleInv, OnePlayerDialog, WaitingIsAsked

\* Kick and ban are on the screen whenever they wait, so nothing else can be clicked.
LEMMA PlayersReact ==
  ConsoleInv /\ Reacts => "kick" \notin asking /\ "ban" \notin asking
BY DEF ConsoleInv, OnePlayerDialog, Reacts, Dialogs, DialogsOf

LEMMA ConsoleStep == ConsoleInv /\ [ConsoleNext]_consoleVars => ConsoleInv'
<1> SUFFICES ASSUME ConsoleInv, [ConsoleNext]_consoleVars
             PROVE  ConsoleInv'
  OBVIOUS
<1> USE DEF ConsoleInv, OnePlayerDialog, WaitingIsAsked, About
<1>1. ASSUME NEW p \in Pages, Visit(p)
      PROVE  ConsoleInv'
  BY <1>1, PlayersReact DEF Visit
<1>2. CASE MenuStop \/ PageStop
  BY <1>2, PlayersReact DEF MenuStop, PageStop
<1>3. ASSUME NEW what \in {"kick", "ban"}, NEW uid \in Uids, AskAbout(what, uid)
      PROVE  ConsoleInv'
  <2>1. /\ asking' = asking \cup {what} /\ asked' = asked \cup {<<what, uid>>}
        /\ target' = uid /\ page' = page /\ page = "Players"
        /\ "kick" \notin asking /\ "ban" \notin asking
    BY <1>3, PlayersReact DEF AskAbout
  <2>2. OnePlayerDialog'
    BY <2>1
  <2>3. WaitingIsAsked'
    BY <2>1
  <2> QED
    BY <2>2, <2>3
<1>4. ASSUME NEW what \in {"stop", "kick", "ban"}, Close(what)
      PROVE  ConsoleInv'
  <2>1. /\ asking' = asking \ {what} /\ target' = target /\ page' = page
        /\ asked' = asked \ {a \in asked : a[1] = what}
    BY <1>4 DEF Close
  <2>2. OnePlayerDialog'
    BY <2>1
  <2>3. ASSUME NEW other \in asking'
        PROVE  /\ other \in {"stop", "kick", "ban"}
               /\ <<other, IF other = "stop" THEN NoUid ELSE target'>> \in asked'
    <3>1. other \in asking /\ other # what
      BY <2>1, <2>3
    <3>2. <<other, IF other = "stop" THEN NoUid ELSE target>>[1] # what
      BY <3>1
    <3> QED
      BY <2>1, <3>1, <3>2
  <2> QED
    BY <2>2, <2>3
<1>5. ASSUME NEW call \in MenuButtons \cup Buttons, NEW uid \in Named(call), Press(call, uid)
      PROVE  ConsoleInv'
  BY <1>5 DEF Press
<1>6. CASE PageThrows \/ StateChanges
  BY <1>6 DEF PageThrows, StateChanges
<1>7. CASE UNCHANGED consoleVars
  BY <1>7 DEF consoleVars
<1> QED
  BY <1>1, <1>2, <1>3, <1>4, <1>5, <1>6, <1>7 DEF ConsoleNext, Confirm, Cancel

\* No page shows two dialogs: the two of the Players page never wait together.
LEMMA DialogsExclude == ConsoleInv => OneDialog
<1> SUFFICES ASSUME ConsoleInv
             PROVE  OneDialog
  OBVIOUS
<1>1. \A a, b \in Dialogs : a = b
  BY DEF ConsoleInv, OnePlayerDialog, Dialogs, DialogsOf
<1>2. asking \cap {"kick", "ban"} # {} => page = "Players"
  BY DEF ConsoleInv, OnePlayerDialog
<1> QED
  BY <1>1, <1>2 DEF OneDialog

\* A confirmed dialog carries out a request that is still open.
LEMMA ConfirmedIsAsked ==
  ConsoleInv => \A what \in {"stop", "kick", "ban"} :
                  Confirm(what) => <<what, sent'[2]>> \in asked
BY DEF ConsoleInv, WaitingIsAsked, Confirm, Close, Dialogs

LEMMA ConsoleTypeInitial == ConsoleInit => ConsoleTypeOK
BY DEF ConsoleInit, ConsoleTypeOK, Pages, Calls

\* What the console can call is in the list of its calls.
LEMMA ConsoleCalls ==
  /\ MenuButtons \cup Buttons \subseteq Calls
  /\ \A what \in {"stop", "kick", "ban"} : CallOf(what) \in Calls
  /\ \A call : Named(call) \subseteq Uids \cup {NoUid}
<1>1. MenuButtons \cup Buttons \subseteq Calls
  BY DEF Calls, Buttons, MenuButtons, DashboardButtons, GuildButtons, CommunicationButtons,
         ResearchButtons, SpawningButtons, WorldButtons, BackupButtons, SecurityButtons,
         ScannerButtons
<1>2. \A what \in {"stop", "kick", "ban"} : CallOf(what) \in Calls
  BY DEF Calls, CallOf, ScannerButtons
<1>3. \A call : Named(call) \subseteq Uids \cup {NoUid}
  BY DEF Named
<1> QED
  BY <1>1, <1>2, <1>3

LEMMA ConsoleTypeStep == ConsoleTypeOK /\ [ConsoleNext]_consoleVars => ConsoleTypeOK'
<1> SUFFICES ASSUME ConsoleTypeOK, [ConsoleNext]_consoleVars
             PROVE  ConsoleTypeOK'
  OBVIOUS
<1> USE DEF ConsoleTypeOK
<1>1. ASSUME NEW p \in Pages, Visit(p)
      PROVE  ConsoleTypeOK'
  BY <1>1 DEF Visit
<1>2. CASE MenuStop \/ PageStop
  <2>1. <<"stop", NoUid>> \in {"stop", "kick", "ban"} \X (Uids \cup {NoUid})
    OBVIOUS
  <2> QED
    BY <1>2, <2>1 DEF MenuStop, PageStop
<1>3. ASSUME NEW what \in {"kick", "ban"}, NEW uid \in Uids, AskAbout(what, uid)
      PROVE  ConsoleTypeOK'
  BY <1>3 DEF AskAbout
<1>4. ASSUME NEW what \in {"stop", "kick", "ban"}, Confirm(what) \/ Cancel(what)
      PROVE  ConsoleTypeOK'
  <2>1. /\ asking' = asking \ {what} /\ UNCHANGED <<page, target, state>>
        /\ asked' = asked \ {a \in asked : a[1] = what}
    BY <1>4 DEF Confirm, Cancel, Close
  <2>2. sent' \in {sent, <<CallOf(what), About(what)>>}
    BY <1>4 DEF Confirm, Cancel
  <2>3. <<CallOf(what), About(what)>> \in Calls \X (Uids \cup {NoUid})
    BY ConsoleCalls DEF About
  <2> QED
    BY <2>1, <2>2, <2>3
<1>5. ASSUME NEW call \in MenuButtons \cup Buttons, NEW uid \in Named(call), Press(call, uid)
      PROVE  ConsoleTypeOK'
  <2>1. <<call, uid>> \in Calls \X (Uids \cup {NoUid})
    BY ConsoleCalls
  <2> QED
    BY <1>5, <2>1 DEF Press
<1>6. CASE PageThrows \/ StateChanges
  BY <1>6 DEF PageThrows, StateChanges
<1>7. CASE UNCHANGED consoleVars
  BY <1>7 DEF consoleVars
<1> QED
  BY <1>1, <1>2, <1>3, <1>4, <1>5, <1>6, <1>7 DEF ConsoleNext
-----------------------------------------------------------------------------

\* For any players every variable keeps its type; whatever is called is a call of a button
\* or a dialog, about a player it may name.
THEOREM ConsoleTypes == ConsoleSpec => []ConsoleTypeOK
  BY ConsoleTypeInitial, ConsoleTypeStep, PTL DEF ConsoleSpec

\* For any players: no two dialogs are ever on the screen together, and what a dialog
\* carries out is what the operator asked for and has not yet answered.
THEOREM ConsoleIsKept == ConsoleSpec => ConsoleKept
<1>1. ConsoleInv /\ [ConsoleNext]_consoleVars =>
        [\A what \in {"stop", "kick", "ban"} :
           Confirm(what) => <<what, sent'[2]>> \in asked]_consoleVars
  BY ConfirmedIsAsked
<1> QED
  BY ConsoleInitial, ConsoleStep, DialogsExclude, <1>1, PTL
  DEF ConsoleSpec, ConsoleKept, AsAsked
-----------------------------------------------------------------------------
(* PlayerPanel.                                                            *)

\* The dialogs that wait are known, one at most, and no popup is open beside it.
DialogsAreWanted ==
  /\ \A a, b \in dialogs : a = b
  /\ wanted = {<<what, panelTarget>> : what \in dialogs}
  /\ dialogs # {} => popup = NoPopup

PanelInv == PanelTypeOK /\ DialogsAreWanted
-----------------------------------------------------------------------------

LEMMA Pairs == \A a, b : <<a, b>>[1] = a /\ <<a, b>>[2] = b
OBVIOUS

\* Whom one call, or two with the same player, are about.
LEMMA OneCallAbout ==
  ASSUME NEW a, NEW b, NEW S, S \subseteq {<<a, b>>}
  PROVE  \A c \in S : c[2] = b
<1> SUFFICES ASSUME NEW c \in S PROVE c[2] = b
  OBVIOUS
<1>1. c = <<a, b>>
  OBVIOUS
<1> QED
  BY <1>1

LEMMA NoPopupIs == NoPopup[1] = "none" /\ NoPopup[2] = NoPlayer
BY DEF NoPopup

LEMMA PanelInitial == PanelInit => PanelInv
BY NoPopupIs DEF PanelInit, PanelInv, PanelTypeOK, DialogsAreWanted

\* A button that opens a dialog can be clicked only while no dialog is open.
LEMMA OpensAlone ==
  ASSUME DialogsAreWanted, NEW uid \in PlayerIds,
         NEW what \in RowOpens(uid) \cup MenuOpens(uid) \cup DetailOpens(uid)
  PROVE  dialogs = {} /\ what \in AllDialogs
BY DEF DialogsAreWanted, RowOpens, MenuOpens, DetailOpens, NothingOver, NoPopup, AllDialogs

\* Closing a dialog forgets what it was wanted for.
LEMMA ShutStep ==
  ASSUME PanelInv, NEW what, Shut(what)
  PROVE  /\ what \in dialogs /\ dialogs' = {} /\ wanted' = {} /\ popup' = popup
         /\ panelTarget \in PlayerIds
<1>1. dialogs = {what} /\ wanted = {<<what, panelTarget>>}
  BY DEF Shut, PanelInv, DialogsAreWanted
<1>2. {w \in wanted : w[1] # what} = {}
  BY <1>1
<1>3. panelTarget \in PlayerIds
  BY <1>1 DEF PanelInv, PanelTypeOK
<1> QED
  BY <1>1, <1>2, <1>3 DEF Shut, asks

\* A dialog calls about the shared target.
LEMMA CallsOfDialogs ==
  ASSUME Kick \/ Ban \/ Rename \/ (\E what \in AllDialogs : CloseDialog(what))
         \/ \E k \in Gifts : Give(k)
  PROVE  \A c \in calls' : c[2] = panelTarget
<1>1. CASE Kick
  BY <1>1, OneCallAbout DEF Kick
<1>2. CASE Rename
  BY <1>2, OneCallAbout DEF Rename
<1>3. CASE Ban
  <2>1. ASSUME NEW c \in calls' PROVE c \in {<<"pdban", panelTarget>>} \/ c \in {<<"pdipban", panelTarget>>}
    BY <1>3, <2>1 DEF Ban
  <2> QED
    BY <2>1, OneCallAbout
<1>4. CASE \E what \in AllDialogs : CloseDialog(what)
  BY <1>4 DEF CloseDialog
<1>5. ASSUME NEW k \in Gifts, Give(k)
      PROVE  \A c \in calls' : c[2] = panelTarget
  BY <1>5, OneCallAbout DEF Give
<1> QED
  BY <1>1, <1>2, <1>3, <1>4, <1>5

\* A popup and the Whitelist tab call about their own player.
LEMMA OtherCalls ==
  /\ \A c : PopupCall(c) => \A k \in calls' : k[2] = popup[2]
  /\ \A c, uid : WhitelistCall(c, uid) => \A k \in calls' : k[2] = uid
<1>1. ASSUME NEW c, PopupCall(c) PROVE \A k \in calls' : k[2] = popup[2]
  <2>1. calls' = {<<c, popup[2]>>}
    BY <1>1 DEF PopupCall
  <2> QED
    BY <2>1, OneCallAbout
<1>2. ASSUME NEW c, NEW uid, WhitelistCall(c, uid) PROVE \A k \in calls' : k[2] = uid
  <2>1. calls' = {<<c, uid>>}
    BY <1>2 DEF WhitelistCall
  <2> QED
    BY <2>1, OneCallAbout
<1> QED
  BY <1>1, <1>2

LEMMA PanelStep == PanelInv /\ [PanelNext]_panelVars => PanelInv'
<1> SUFFICES ASSUME PanelInv, [PanelNext]_panelVars
             PROVE  PanelInv'
  OBVIOUS
<1> USE DEF PanelInv, PanelTypeOK, DialogsAreWanted, rows, view, asks
<1>1. ASSUME NEW uid \in PlayerIds, JoinOrLeave(uid)
      PROVE  PanelInv'
  BY <1>1 DEF JoinOrLeave
<1>2. CASE UpdateCache
  BY <1>2 DEF UpdateCache, NoPopup
<1>3. CASE ClosePopup
  BY <1>3 DEF ClosePopup, NoPopup
<1>4. CASE TickIpBan
  BY <1>4 DEF TickIpBan
<1>5. ASSUME NEW t \in {"Online", "All Players", "Whitelist"}, SelectTab(t)
      PROVE  PanelInv'
  BY <1>5 DEF SelectTab
<1>6. ASSUME NEW uid \in PlayerIds \cup {NoPlayer}, ShowDetail(uid)
      PROVE  PanelInv'
  BY <1>6 DEF ShowDetail
<1>7. ASSUME NEW uid \in PlayerIds, NEW name \in {"msg", "more"}, OpenPopup(name, uid)
      PROVE  PanelInv'
  BY <1>7 DEF OpenPopup, NothingOver
<1>8. ASSUME NEW what \in AllDialogs, NEW uid \in PlayerIds, OpenDialog(what, uid)
      PROVE  PanelInv'
  <2>1. dialogs = {} /\ wanted = {}
    BY <1>8, OpensAlone DEF OpenDialog
  <2>2. /\ dialogs' = {what} /\ wanted' = {<<what, uid>>} /\ panelTarget' = uid
        /\ popup' = NoPopup /\ calls' = {}
        /\ UNCHANGED <<online, listed, tab, selected, alsoIpBan>>
    BY <1>8, <2>1 DEF OpenDialog
  <2>3. <<what, uid>> \in AllDialogs \X PlayerIds
    BY <1>8
  <2>4. wanted' = {<<x, panelTarget'>> : x \in dialogs'}
    BY <2>2
  <2> QED
    BY <2>2, <2>3, <2>4, NoPopupIs
<1>9. CASE Kick \/ Ban \/ Rename \/ \E what \in AllDialogs : CloseDialog(what)
  <2>1. PICK what : Shut(what)
    BY <1>9 DEF Kick, Ban, Rename, CloseDialog
  <2>2. \A c \in calls' : c[2] = panelTarget
    BY <1>9, CallsOfDialogs
  <2>3. /\ what \in dialogs /\ dialogs' = {} /\ wanted' = {} /\ popup' = popup
        /\ panelTarget \in PlayerIds
    BY <2>1, ShutStep
  <2>4. UNCHANGED <<online, listed, tab, selected, panelTarget, alsoIpBan>>
    BY <2>1 DEF Shut
  <2> QED
    BY <2>2, <2>3, <2>4
<1>10. ASSUME NEW c \in PopupCalls, PopupCall(c)
       PROVE  PanelInv'
  <2>1. \A k \in calls' : k[2] = popup[2]
    BY <1>10, OtherCalls
  <2> QED
    BY <1>10, <2>1, NoPopupIs DEF PopupCall
<1>11. ASSUME NEW c \in Gifts, Give(c)
       PROVE  PanelInv'
  <2>1. \A k \in calls' : k[2] = panelTarget
    BY <1>11, CallsOfDialogs
  <2> QED
    BY <1>11, <2>1 DEF Give
<1>12. ASSUME NEW c, NEW uid \in PlayerIds \cup {NoPlayer}, WhitelistCall(c, uid)
       PROVE  PanelInv'
  <2>1. \A k \in calls' : k[2] = uid
    BY <1>12, OtherCalls
  <2> QED
    BY <1>12, <2>1 DEF WhitelistCall
<1>13. CASE UNCHANGED panelVars
  BY <1>13 DEF panelVars
<1> QED
  BY <1>1, <1>2, <1>3, <1>4, <1>5, <1>6, <1>7, <1>8, <1>9, <1>10, <1>11, <1>12, <1>13
  DEF PanelNext

\* While a dialog is open, only it calls, about the player it was opened for.
LEMMA CallsAreWanted ==
  ASSUME PanelInv, PanelNext, dialogs # {}, NEW c \in calls'
  PROVE  \E what \in dialogs : <<what, c[2]>> \in wanted
<1>1. ~ (\E k \in PopupCalls : PopupCall(k))
  BY NoPopupIs DEF PanelInv, DialogsAreWanted, PopupCalls
<1>2. ~ (\E k, uid : WhitelistCall(k, uid))
  BY DEF WhitelistCall, NothingOver
<1>3. Kick \/ Ban \/ Rename \/ \E k \in Gifts : Give(k)
  BY <1>1, <1>2
  DEF PanelNext, JoinOrLeave, UpdateCache, ClosePopup, TickIpBan, SelectTab, ShowDetail,
      OpenPopup, OpenDialog, CloseDialog
<1>4. c[2] = panelTarget
  BY <1>3, CallsOfDialogs
<1>5. PICK what \in dialogs : TRUE
  OBVIOUS
<1>6. <<what, panelTarget>> \in wanted
  BY <1>5 DEF PanelInv, DialogsAreWanted
<1> QED
  BY <1>4, <1>5, <1>6

\* For any players: every variable of the panel keeps its type.
THEOREM PanelTypes == PanelSpec => []PanelTypeOK
<1>1. PanelInv => PanelTypeOK
  BY DEF PanelInv
<1> QED
  BY <1>1, PanelInitial, PanelStep, PTL DEF PanelSpec

\* For any players, whoever joins or leaves under an open dialog: one dialog is open at a
\* time, about the player it was opened for, and whatever it calls is about him.
THEOREM PanelIsKept == PanelSpec => PanelKept
<1>1. PanelInv => /\ \A a, b \in dialogs : a = b
                  /\ wanted = {<<what, panelTarget>> : what \in dialogs}
  BY DEF PanelInv, DialogsAreWanted
<1>2. PanelInv /\ [PanelNext]_panelVars =>
        [\A c \in calls' : dialogs # {} => \E what \in dialogs : <<what, c[2]>> \in wanted]_panelVars
  BY CallsAreWanted
<1> QED
  BY <1>1, <1>2, PanelInitial, PanelStep, PTL DEF PanelSpec, PanelKept
-----------------------------------------------------------------------------
(* MapView.                                                                *)

LEMMA CommandIs ==
  \A name, x : command' = <<name, x>> => command'[1] = name /\ command'[2] = x
OBVIOUS

LEMMA MapNumbers == Centers \subseteq Int /\ Pixels \subseteq Int /\ Extents \subseteq Int
BY MapAssumption

LEMMA MapInitial == MapInit => MapTypeOK
<1> SUFFICES ASSUME MapInit PROVE MapTypeOK
  OBVIOUS
<1>1. command[1] = "none"
  BY Pairs DEF MapInit, NoCommand
<1>2. Nothing # 0 /\ 0 \in Centers /\ Home \in Extents
  BY MapAssumption
<1> QED
  BY <1>1, <1>2 DEF MapInit, MapTypeOK

\* Pixels per unit of the world, and the width of the canvas, are positive integers.
LEMMA MapScale ==
  /\ Width \in Nat \ {0} /\ Width \in {Wide, Narrow}
  /\ \A e \in Extents : e \div Width \in Int
  /\ Width \div 2 \in Int
BY MapAssumption DEF Width

\* One unit of drag is one unit of the world, whatever the scale q.
LEMMA Drags ==
  ASSUME NEW c \in Int, NEW m \in Int, NEW s \in Int, NEW h \in Int, NEW q \in Int
  PROVE  (c - (m - s) * q) + (m - h) * q = c + (s - h) * q
OBVIOUS

\* A new drag, or none, leaves the view where the wheel has put it.
LEMMA MoveFromHere ==
  ASSUME MapTypeOK, NEW m \in Pixels, NEW e \in Extents, NEW held \in BOOLEAN,
         Move(m, e, held), ~ held \/ pan = Nothing
  PROVE  center' = Zoomed(m, e)
<1>1. CASE ~ held
  BY <1>1 DEF Move
<1>2. CASE held
  <2> DEFINE q == e \div Width
             began == [start |-> m, center |-> Zoomed(m, e), extent |-> e, width |-> Width]
  <2>1. pan' = began /\ center' = pan'.center - (m - pan'.start) * q
    BY <1>2 DEF Move, Dragged
  <2>2. m \in Int /\ q \in Int
    BY MapAssumption, MapScale
  <2>3. (m - m) * q = 0
    BY <2>2
  <2>4. Zoomed(m, e) \in Int
    <3>1. WorldAt(center, e, Width, m) \in Int /\ WorldAt(center, extent, Width, m) \in Int
      BY MapAssumption, MapScale DEF WorldAt, MapTypeOK
    <3> QED
      BY <3>1, MapAssumption DEF Zoomed, MapTypeOK
  <2> QED
    BY <2>1, <2>3, <2>4
<1> QED
  BY <1>1, <1>2

LEMMA MapStep == MapTypeOK /\ [MapNext]_mapVars => MapTypeOK'
<1> SUFFICES ASSUME MapTypeOK, [MapNext]_mapVars
             PROVE  MapTypeOK'
  OBVIOUS
<1> USE DEF MapTypeOK, mapView, mapDialogs, Quiet, NoCommand
<1>0. Nothing \notin Bases \cup MapPlayers /\ Nothing \notin Points \cup {0}
  <2>1. Points \subseteq Int
    <3> SUFFICES ASSUME NEW c \in Centers, NEW e \in Extents, NEW w \in {Wide, Narrow},
                        NEW m \in Pixels
                 PROVE  WorldAt(c, e, w, m) \in Int
      BY DEF Points
    <3> QED
      BY MapAssumption DEF WorldAt
  <2> QED
    BY <2>1, MapAssumption
<1>1. ASSUME NEW m \in Pixels, RightClick(m)
      PROVE  MapTypeOK'
  <2>1. context' \in Points
    BY <1>1, MapScale DEF RightClick, Points
  <2> QED
    BY <1>1, <2>1 DEF RightClick
<1>2. ASSUME NEW m \in Pixels, NEW e \in Extents, NEW held \in BOOLEAN, Move(m, e, held)
      PROVE  MapTypeOK'
  <2>1. center' \in Centers /\ extent' \in Extents
    BY <1>2 DEF Move
  <2>2. pan' # Nothing => pan' \in [start : Pixels, center : Centers, extent : Extents,
                                    width : {Wide, Narrow}]
    <3>1. CASE ~ held \/ pan # Nothing
      BY <1>2, <3>1 DEF Move
    <3>2. CASE held /\ pan = Nothing
      <4>1. pan' = [start |-> m, center |-> Zoomed(m, e), extent |-> e, width |-> Width]
        BY <1>2, <3>2 DEF Move
      <4>2. Zoomed(m, e) \in Centers
        BY <1>2, <2>1, <3>2, MoveFromHere
      <4> QED
        BY <4>1, <4>2, MapScale
    <3> QED
      BY <3>1, <3>2
  <2> QED
    BY <1>2, <2>1, <2>2 DEF Move
<1>3. ASSUME NEW x \in Bases \cup MapPlayers, PressOn(x)
      PROVE  MapTypeOK'
  BY <1>3 DEF PressOn
<1>4. CASE LeaveMap \/ CloseMenu \/ NearestBase
  <2>1. command'[1] \in {"none", "pdnearestbase"}
    BY <1>4, CommandIs DEF LeaveMap, CloseMenu, NearestBase
  <2> QED
    BY <1>4, <2>1 DEF LeaveMap, CloseMenu, NearestBase
<1>5. CASE ResetView
  BY <1>5, MapAssumption DEF ResetView
<1>6. CASE SpawnHere
  BY <1>0, <1>6 DEF SpawnHere
<1>7. CASE Spawn \/ CancelSpawn
  BY <1>7, Pairs DEF Spawn, CancelSpawn
<1>8. CASE ClearSelection
  BY <1>8 DEF ClearSelection
<1>9. CASE DestroyBase
  BY <1>9 DEF DestroyBase
<1>10. CASE ConfirmDestroy \/ CancelDestroy
  <2>1. command'[1] \in {"none", "pddestroybase"}
    BY <1>10, CommandIs DEF ConfirmDestroy, CancelDestroy
  <2> QED
    BY <1>10, <2>1 DEF ConfirmDestroy, CancelDestroy
<1>11. CASE UNCHANGED mapVars
  BY <1>11 DEF mapVars
<1> QED
  BY <1>1, <1>2, <1>3, <1>4, <1>5, <1>6, <1>7, <1>8, <1>9, <1>10, <1>11 DEF MapNext

\* What a move leaves under the mouse.
LEMMA MoveHolds ==
  ASSUME MapTypeOK, NEW m \in Pixels, NEW e \in Extents, NEW held \in BOOLEAN, Move(m, e, held)
  PROVE  LET under == WorldAt(center', e, Width, m) IN
         IF held /\ pan # Nothing
           THEN pan.extent = e /\ pan.width = Width =>
                  under = WorldAt(pan.center, e, Width, pan.start)
           ELSE under = WorldAt(center, extent, Width, m)
<1> DEFINE q == e \div Width
           h == Width \div 2
<1>1. m \in Int /\ q \in Int /\ h \in Int /\ center \in Int /\ extent \div Width \in Int
  BY MapAssumption, MapScale DEF MapTypeOK
<1>2. CASE held /\ pan # Nothing
  <2>0. pan \in [start : Pixels, center : Centers, extent : Extents, width : {Wide, Narrow}]
    BY <1>2 DEF MapTypeOK
  <2>1. pan.center \in Int /\ pan.start \in Int
    <3>1. pan.center \in Centers /\ pan.start \in Pixels
      BY <2>0
    <3> QED
      BY <3>1, MapNumbers
  <2>2. center' = pan.center - (m - pan.start) * q
    BY <1>2 DEF Move, Dragged
  <2>3. (pan.center - (m - pan.start) * q) + (m - h) * q = pan.center + (pan.start - h) * q
    BY <1>1, <2>1, Drags
  <2> QED
    BY <1>2, <2>2, <2>3 DEF WorldAt
<1>3. CASE ~ held \/ pan = Nothing
  <2>1. center' = Zoomed(m, e)
    BY <1>3, MoveFromHere
  <2> DEFINE a == (m - h) * q
             b == (m - h) * (extent \div Width)
  <2>2. a \in Int /\ b \in Int
    BY <1>1
  <2>3. center' = center - ((center + a) - (center + b))
    BY <2>1 DEF Zoomed, WorldAt
  <2>4. center' + a = center + b
    <3> HIDE DEF a, b
    <3> QED
      BY <1>1, <2>2, <2>3
  <2> QED
    BY <1>3, <2>4 DEF WorldAt
<1> QED
  BY <1>2, <1>3

\* For any map, canvas and zoom: every variable of the map keeps its type.
THEOREM MapTypes == MapSpec => []MapTypeOK
  BY MapInitial, MapStep, PTL DEF MapSpec

\* For any map, canvas and zoom: the wheel and the drag hold the point they began on.
THEOREM MapIsHeld == MapSpec => PointIsHeld
<1> DEFINE Held == pan' # Nothing \/ mapView' # mapView =>
       \A m \in Pixels, e \in Extents, held \in BOOLEAN :
         Move(m, e, held) =>
           LET under == WorldAt(center', e, Width, m) IN
           IF held /\ pan # Nothing
             THEN pan.extent = e /\ pan.width = Width =>
                    under = WorldAt(pan.center, e, Width, pan.start)
             ELSE under = WorldAt(center, extent, Width, m)
<1>1. MapTypeOK /\ [MapNext]_mapVars => [Held]_mapVars
  BY MoveHolds
<1> QED
  BY <1>1, MapInitial, MapStep, PTL DEF MapSpec, PointIsHeld
-----------------------------------------------------------------------------
(* Refresh.                                                                *)

\* No point of the history is later than the clock.
PastPoints == \A i \in 1..Len(history) : history[i] <= time

RefreshInv == RefreshTypeOK /\ HistoryInOrder /\ PastPoints
-----------------------------------------------------------------------------

LEMMA RefreshInitial == RefreshInit => RefreshInv
BY RefreshAssumption
DEF RefreshInit, RefreshInv, RefreshTypeOK, HistoryInOrder, PastPoints, Reaches, Steps,
    Infos, NoInfo

\* The oldest point goes when a new one makes the history too long.
LEMMA AddPointStep ==
  ASSUME RefreshInv, NEW w \in PoolWorkers, AddPoint(w)
  PROVE  /\ history' \in Seq(Nat) /\ Len(history') <= HistoryCap
         /\ HistoryInOrder' /\ PastPoints'
<1> DEFINE longer == Append(history, time)
<1>1. /\ history \in Seq(Nat) /\ Len(history) \in Nat /\ Len(history) <= HistoryCap
      /\ time \in Nat /\ time' = time
  BY DEF RefreshInv, RefreshTypeOK, AddPoint
<1>2. /\ longer \in Seq(Nat) /\ Len(longer) = Len(history) + 1
      /\ \A i \in 1..Len(history) : longer[i] = history[i]
      /\ longer[Len(history) + 1] = time
  BY <1>1
<1>3. history' = IF Len(longer) > HistoryCap THEN Tail(longer) ELSE longer
  BY DEF AddPoint
<1> HIDE DEF longer
<1>4. \A i, j \in 1..Len(longer) : i <= j => longer[i] <= longer[j]
  <2> SUFFICES ASSUME NEW i \in 1..Len(longer), NEW j \in 1..Len(longer), i <= j
               PROVE  longer[i] <= longer[j]
    OBVIOUS
  <2>1. CASE j \in 1..Len(history)
    <3>1. i \in 1..Len(history)
      BY <1>1, <2>1
    <3> QED
      BY <1>2, <2>1, <3>1 DEF RefreshInv, HistoryInOrder
  <2>2. CASE j = Len(history) + 1
    <3>1. \A k \in 1..Len(history) : history[k] <= time
      BY DEF RefreshInv, PastPoints
    <3>2. time <= time
      BY <1>1
    <3>3. i \in 1..Len(history) \/ i = Len(history) + 1
      BY <1>1, <2>2
    <3> QED
      BY <1>2, <2>2, <3>1, <3>2, <3>3
  <2>3. j \in 1..Len(history) \/ j = Len(history) + 1
    BY <1>1, <1>2
  <2> QED
    BY <2>1, <2>2, <2>3
<1>5. \A i \in 1..Len(longer) : longer[i] <= time
  <2> SUFFICES ASSUME NEW i \in 1..Len(longer) PROVE longer[i] <= time
    OBVIOUS
  <2>1. CASE i \in 1..Len(history)
    BY <1>2, <2>1 DEF RefreshInv, PastPoints
  <2>2. CASE i = Len(history) + 1
    BY <1>1, <1>2, <2>2
  <2> QED
    BY <1>1, <1>2, <2>1, <2>2
<1>6. CASE Len(longer) > HistoryCap
  <2>1. longer # <<>>
    BY <1>1, <1>2
  <2>2. /\ history' \in Seq(Nat) /\ Len(history') = Len(longer) - 1
        /\ \A i \in 1..Len(history') : history'[i] = longer[i + 1]
    BY <1>2, <1>3, <1>6, <2>1, HeadTailProperties
  <2>3. \A i \in 1..Len(history') : i + 1 \in 1..Len(longer)
    BY <1>1, <1>2, <2>2
  <2>4. HistoryInOrder'
    <3> SUFFICES ASSUME NEW i \in 1..Len(history'), NEW j \in 1..Len(history'), i <= j
                 PROVE  history'[i] <= history'[j]
      BY DEF HistoryInOrder
    <3>1. i + 1 \in 1..Len(longer) /\ j + 1 \in 1..Len(longer) /\ i + 1 <= j + 1
      BY <2>3
    <3> QED
      BY <1>4, <2>2, <3>1
  <2>5. PastPoints'
    BY <1>1, <1>5, <2>2, <2>3 DEF PastPoints
  <2> QED
    BY <1>1, <1>2, <2>2, <2>4, <2>5
<1>7. CASE ~ (Len(longer) > HistoryCap)
  BY <1>1, <1>2, <1>3, <1>4, <1>5, <1>7, RefreshAssumption DEF HistoryInOrder, PastPoints
<1> QED
  BY <1>6, <1>7

LEMMA RefreshStepKeeps == RefreshInv /\ [RefreshNext]_refreshVars => RefreshInv'
<1> SUFFICES ASSUME RefreshInv, [RefreshNext]_refreshVars
             PROVE  RefreshInv'
  OBVIOUS
<1> USE DEF RefreshInv, RefreshTypeOK, HistoryInOrder, PastPoints
<1>1. CASE EnqueueRefresh
  BY <1>1, RefreshAssumption DEF EnqueueRefresh
<1>2. CASE ReachChanges
  BY <1>2 DEF ReachChanges
<1>3. CASE TimePasses
  BY <1>3 DEF TimePasses
<1>4. ASSUME NEW w \in PoolWorkers, TakeRefresh(w)
      PROVE  RefreshInv'
  BY <1>4, RefreshAssumption DEF TakeRefresh, Steps
<1>5. ASSUME NEW w \in PoolWorkers, FetchInfo(w) \/ FetchMetrics(w)
      PROVE  RefreshInv'
  <2>1. UNCHANGED <<reach, pending, cached, history, time>>
    BY <1>5 DEF FetchInfo, FetchMetrics, Fetch
  <2>2. step' \in [PoolWorkers -> Steps]
    BY <1>5 DEF FetchInfo, FetchMetrics, Fetch, Steps
  <2>3. got' \in [PoolWorkers -> Infos]
    <3>1. PICK b \in BOOLEAN : \/ got' = [got EXCEPT ![w].online = b]
                               \/ got' = [got EXCEPT ![w].stats = b]
      BY <1>5 DEF FetchInfo, FetchMetrics, Fetch
    <3> QED
      BY <3>1 DEF Infos
  <2> QED
    BY <2>1, <2>2, <2>3
<1>6. ASSUME NEW w \in PoolWorkers, StoreInfo(w)
      PROVE  RefreshInv'
  <2>1. UNCHANGED <<reach, pending, got, history, time>>
    BY <1>6 DEF StoreInfo, Store
  <2>2. step' \in [PoolWorkers -> Steps]
    BY <1>6 DEF StoreInfo, Store, Steps
  <2>3. cached' \in Infos
    <3>1. got[w].online \in BOOLEAN /\ got[w].stats \in BOOLEAN
      BY DEF Infos
    <3>2. \E b \in BOOLEAN : cached' = [cached EXCEPT !.online = b]
                             \/ cached' = [cached EXCEPT !.stats = b]
      BY <1>6, <3>1 DEF StoreInfo, Store
    <3> QED
      BY <3>2 DEF Infos
  <2> QED
    BY <2>1, <2>2, <2>3
<1>7. ASSUME NEW w \in PoolWorkers, AddPoint(w)
      PROVE  RefreshInv'
  <2>1. /\ UNCHANGED <<reach, pending, cached, time>>
        /\ step' \in [PoolWorkers -> Steps] /\ got' \in [PoolWorkers -> Infos]
    BY <1>7 DEF AddPoint, Steps, Infos, NoInfo
  <2> QED
    BY <1>7, <2>1, AddPointStep
<1>8. CASE UNCHANGED refreshVars
  BY <1>8 DEF refreshVars
<1> QED
  BY <1>1, <1>2, <1>3, <1>4, <1>5, <1>6, <1>7, <1>8 DEF RefreshNext, RefreshStep

\* For any number of workers, any limit and any clock: every variable keeps its type, the
\* history its limit, and the points of the graph are in the order of their times.
THEOREM RefreshIsOrdered == RefreshSpec => [](RefreshTypeOK /\ HistoryInOrder)
<1>1. RefreshInv => RefreshTypeOK /\ HistoryInOrder
  BY DEF RefreshInv
<1> QED
  BY <1>1, RefreshInitial, RefreshStepKeeps, PTL DEF RefreshSpec
-----------------------------------------------------------------------------
(* ServerProfiles.                                                         *)

ProfilesInv == ProfilesTypeOK /\ ActiveIsListed
-----------------------------------------------------------------------------

LEMMA ProfilesInitial == ProfilesInit => ProfilesInv
<1> SUFFICES ASSUME ProfilesInit PROVE ProfilesInv
  OBVIOUS
<1>1. servers = <<>> /\ activeId = NoId /\ stray = FALSE
  BY DEF ProfilesInit
<1>2. servers \in Seq(Profiles) /\ Len(servers) = 0
  BY <1>1
<1>3. Len(servers) <= MaxProfiles
  BY <1>2, ProfilesAssumption
<1>4. ProfilesTypeOK
  BY <1>1, <1>2, <1>3, ProfilesAssumption DEF ProfilesTypeOK
<1>5. ActiveIsListed
  BY <1>1 DEF ActiveIsListed
<1> QED
  BY <1>4, <1>5 DEF ProfilesInv

\* Of the profiles with an identifier, one is the first.
LEMMA FirstWithId ==
  ASSUME ProfilesTypeOK, NEW id, HasId(id)
  PROVE  \E i \in DOMAIN servers :
           servers[i].id = id /\ \A j \in 1..(i - 1) : servers[j].id # id
<1> DEFINE Having == {i \in DOMAIN servers : servers[i].id = id}
<1>1. Having \subseteq Nat /\ Having # {} /\ DOMAIN servers = 1..Len(servers)
      /\ Len(servers) \in Nat
  BY DEF ProfilesTypeOK, HasId
<1>2. PICK i \in Having : \A j \in Having : i <= j
  <2> HIDE DEF Having
  <2> QED
    BY <1>1, SmallestNat
<1>3. \A j \in 1..(i - 1) : j \in DOMAIN servers /\ j < i
  BY <1>1, <1>2
<1>4. \A j \in 1..(i - 1) : servers[j].id # id
  BY <1>1, <1>2, <1>3
<1> QED
  BY <1>2, <1>4

\* The identifier of the first of a list's profiles, if any.
LEMMA FirstIdIs ==
  ASSUME NEW list \in Seq(Profiles)
  PROVE  /\ FirstId(list) \in Ids
         /\ list # <<>> => 1 \in DOMAIN list /\ FirstId(list) = list[1].id
<1>1. CASE list = <<>>
  BY <1>1, ProfilesAssumption DEF FirstId
<1>2. CASE list # <<>>
  <2>1. Len(list) \in Nat /\ Len(list) # 0 /\ DOMAIN list = 1..Len(list)
    BY <1>2, EmptySeq
  <2>2. list[1] \in Profiles
    BY <2>1
  <2> QED
    BY <1>2, <2>1, <2>2 DEF FirstId, Profiles
<1> QED
  BY <1>1, <1>2

\* Marking a list's active profile changes nothing else.
LEMMA MarkIs ==
  ASSUME NEW list \in Seq(Profiles), NEW id
  PROVE  /\ Mark(list, id) \in Seq(Profiles) /\ Len(Mark(list, id)) = Len(list)
         /\ \A i \in DOMAIN list : i \in DOMAIN Mark(list, id) /\ Mark(list, id)[i].id = list[i].id
<1>1. Len(list) \in Nat /\ DOMAIN list = 1..Len(list)
  OBVIOUS
<1>2. ASSUME NEW i \in 1..Len(list)
      PROVE  /\ [list[i] EXCEPT !.isActive = (list[i].id = id)] \in Profiles
             /\ [list[i] EXCEPT !.isActive = (list[i].id = id)].id = list[i].id
  <2>1. list[i] \in Profiles /\ (list[i].id = id) \in BOOLEAN
    BY <1>1
  <2> QED
    BY <2>1 DEF Profiles
<1>3. Mark(list, id) = [i \in 1..Len(list) |-> [list[i] EXCEPT !.isActive = (list[i].id = id)]]
  BY <1>1 DEF Mark
<1>4. DOMAIN Mark(list, id) = 1..Len(list)
  BY <1>3
<1>5. \A i \in 1..Len(list) : Mark(list, id)[i] \in Profiles /\ Mark(list, id)[i].id = list[i].id
  BY <1>2, <1>3
<1>6. Mark(list, id) \in Seq(Profiles) /\ Len(Mark(list, id)) = Len(list)
  <2> DEFINE t == Mark(list, id)
  <2>1. t \in [1..Len(list) -> Profiles]
    BY <1>2, <1>3
  <2> HIDE DEF t
  <2>2. t \in Seq(Profiles) /\ Len(t) = Len(list)
    BY <1>1, <2>1
  <2> QED
    BY <2>2 DEF t
<1> QED
  BY <1>1, <1>4, <1>5, <1>6

\* However the next list comes about: the first of it is named, or the one named stays.
LEMMA NamedIsListed ==
  ASSUME ProfilesTypeOK', activeId' = FirstId(servers')
  PROVE  ActiveIsListed'
<1>1. servers' \in Seq(Profiles)
  BY DEF ProfilesTypeOK
<1>2. CASE servers' = <<>>
  BY <1>2 DEF ActiveIsListed
<1>3. CASE servers' # <<>>
  <2>1. 1 \in DOMAIN servers' /\ activeId' = servers'[1].id
    BY <1>1, <1>3, FirstIdIs
  <2> QED
    BY <2>1 DEF ActiveIsListed, HasId
<1> QED
  BY <1>2, <1>3

LEMMA AddServerStep ==
  ASSUME ProfilesInv, NEW p \in Profiles, AddServer(p)
  PROVE  ProfilesInv'
<1>1. /\ servers \in Seq(Profiles) /\ Len(servers) \in Nat /\ Len(servers) <= MaxProfiles
      /\ DOMAIN servers = 1..Len(servers) /\ activeId \in Ids /\ stray \in BOOLEAN
      /\ p.id \in Ids
  BY DEF ProfilesInv, ProfilesTypeOK, Profiles
<1>2. CASE HasId(p.id)
  <2> DEFINE i == CHOOSE i \in DOMAIN servers :
                    servers[i].id = p.id /\ \A j \in 1..(i - 1) : servers[j].id # p.id
  <2>1. i \in DOMAIN servers /\ servers[i].id = p.id
    BY <1>2, FirstWithId DEF ProfilesInv
  <2>2. servers' = [servers EXCEPT ![i] = p] /\ UNCHANGED <<activeId, stray>>
    BY <1>2 DEF AddServer
  <2> HIDE DEF i
  <2>3. servers' \in Seq(Profiles) /\ Len(servers') = Len(servers)
    BY <1>1, <2>1, <2>2
  <2>4. \A j \in DOMAIN servers : j \in DOMAIN servers' /\ servers'[j].id = servers[j].id
    BY <1>1, <2>1, <2>2
  <2>5. HasId(activeId) => HasId(activeId)'
    BY <2>2, <2>4 DEF HasId
  <2>6. servers' # <<>> => servers # <<>>
    BY <1>1, <2>3, EmptySeq
  <2>7. servers = <<>> => servers' = <<>>
    BY <1>1, <2>3, EmptySeq
  <2> QED
    BY <1>1, <2>2, <2>3, <2>5, <2>6, <2>7 DEF ProfilesInv, ProfilesTypeOK, ActiveIsListed
<1>3. CASE ~ HasId(p.id) /\ servers = <<>>
  <2>1. <<p>> \in Seq(Profiles) /\ Len(<<p>>) = 1 /\ 1 \in DOMAIN <<p>> /\ <<p>>[1] = p
    OBVIOUS
  <2>2. /\ servers' = Mark(<<p>>, p.id) /\ activeId' = p.id /\ stray' = FALSE
        /\ Len(servers) < MaxProfiles
    BY <1>3 DEF AddServer
  <2>3. /\ servers' \in Seq(Profiles) /\ Len(servers') = 1
        /\ 1 \in DOMAIN servers' /\ servers'[1].id = p.id
    BY <2>1, <2>2, MarkIs
  <2>4. HasId(activeId)'
    BY <2>2, <2>3 DEF HasId
  <2>5. Len(servers') <= MaxProfiles
    <3>1. MaxProfiles \in Nat /\ Len(servers') = 1
      BY <2>3, ProfilesAssumption
    <3>2. Len(servers) < MaxProfiles
      BY <2>2
    <3> QED
      BY <1>1, <3>1, <3>2
  <2>6. ProfilesTypeOK'
    BY <1>1, <2>2, <2>3, <2>5 DEF ProfilesTypeOK
  <2> QED
    BY <1>1, <2>2, <2>4, <2>6, ProfilesAssumption DEF ProfilesInv, ActiveIsListed
<1>4. CASE ~ HasId(p.id) /\ servers # <<>>
  <2>1. /\ servers' = Append(servers, p) /\ activeId' = activeId
        /\ stray' = (stray /\ p.id # activeId) /\ Len(servers) < MaxProfiles
    BY <1>4 DEF AddServer
  <2>2. /\ servers' \in Seq(Profiles) /\ Len(servers') = Len(servers) + 1
        /\ DOMAIN servers' = 1..(Len(servers) + 1)
        /\ \A i \in DOMAIN servers : servers'[i] = servers[i]
        /\ servers'[Len(servers) + 1] = p
    BY <1>1, <2>1
  <2>3. HasId(activeId) => HasId(activeId)'
    BY <1>1, <2>1, <2>2 DEF HasId
  <2>4. p.id = activeId => HasId(activeId)'
    BY <1>1, <2>1, <2>2 DEF HasId
  <2> QED
    BY <1>1, <1>4, <2>1, <2>2, <2>3, <2>4, ProfilesAssumption
    DEF ProfilesInv, ProfilesTypeOK, ActiveIsListed
<1> QED
  BY <1>2, <1>3, <1>4

LEMMA RemoveServerStep ==
  ASSUME ProfilesInv, NEW id \in Ids, RemoveServer(id)
  PROVE  ProfilesInv'
<1>1. /\ servers \in Seq(Profiles) /\ Len(servers) \in Nat /\ Len(servers) <= MaxProfiles
      /\ DOMAIN servers = 1..Len(servers) /\ activeId \in Ids /\ stray \in BOOLEAN
  BY DEF ProfilesInv, ProfilesTypeOK
<1>2. /\ servers' \in Seq(Profiles) /\ Len(servers') <= Len(servers)
      /\ \A i \in DOMAIN servers : servers[i].id # id =>
           \E k \in 1..Len(servers') : servers'[k] = servers[i]
  <2> DEFINE keep == Others(id)
  <2>1. servers' = Kept(servers, keep)
    BY DEF RemoveServer
  <2>2. \A i \in DOMAIN servers : servers[i].id # id => i \in 1..Len(servers) /\ i \in keep
    BY <1>1 DEF Others
  <2> HIDE DEF keep
  <2>3. /\ servers' \in Seq(Profiles) /\ Len(servers') <= Len(servers)
        /\ \A i \in 1..Len(servers) : i \in keep =>
              \E k \in 1..Len(servers') : k <= i /\ servers'[k] = servers[i]
    BY <1>1, <2>1, KeptIs
  <2> QED
    BY <2>2, <2>3
<1>3. Len(servers') \in Nat /\ DOMAIN servers' = 1..Len(servers')
  BY <1>2
<1>4. CASE activeId = id
  <2>1. activeId' = FirstId(servers') /\ stray' = FALSE
    BY <1>4 DEF RemoveServer
  <2>2. activeId' \in Ids
    BY <1>2, <2>1, FirstIdIs
  <2>3. Len(servers') <= MaxProfiles
    BY <1>1, <1>2, <1>3, ProfilesAssumption
  <2>4. ProfilesTypeOK'
    BY <1>2, <2>1, <2>2, <2>3 DEF ProfilesTypeOK
  <2> QED
    BY <2>1, <2>4, NamedIsListed DEF ProfilesInv
<1>5. CASE activeId # id
  <2>1. UNCHANGED <<activeId, stray>>
    BY <1>5 DEF RemoveServer
  <2>2. HasId(activeId) => HasId(activeId)'
    BY <1>2, <1>3, <1>5, <2>1 DEF HasId
  <2>3. servers = <<>> => servers' = <<>>
    BY <1>1, <1>2, <1>3, EmptySeq
  <2> QED
    BY <1>1, <1>2, <1>3, <2>1, <2>2, <2>3, ProfilesAssumption
    DEF ProfilesInv, ProfilesTypeOK, ActiveIsListed
<1> QED
  BY <1>4, <1>5

LEMMA ProfilesStep == ProfilesInv /\ [ProfilesNext]_profilesVars => ProfilesInv'
<1> SUFFICES ASSUME ProfilesInv, [ProfilesNext]_profilesVars
             PROVE  ProfilesInv'
  OBVIOUS
<1>1. /\ servers \in Seq(Profiles) /\ Len(servers) \in Nat /\ Len(servers) <= MaxProfiles
      /\ DOMAIN servers = 1..Len(servers) /\ activeId \in Ids /\ stray \in BOOLEAN
  BY DEF ProfilesInv, ProfilesTypeOK
<1>2. ASSUME NEW id \in Ids, SetActiveServer(id)
      PROVE  ProfilesInv'
  <2>1. /\ servers' \in Seq(Profiles) /\ Len(servers') = Len(servers)
        /\ \A i \in DOMAIN servers : i \in DOMAIN servers' /\ servers'[i].id = servers[i].id
    BY <1>1, <1>2, MarkIs DEF SetActiveServer
  <2>2. activeId' = id /\ stray' = ~HasId(id)
    BY <1>2 DEF SetActiveServer
  <2>3. HasId(id) => HasId(activeId)'
    BY <2>1, <2>2 DEF HasId
  <2> QED
    BY <1>1, <2>1, <2>2, <2>3, ProfilesAssumption DEF ProfilesInv, ProfilesTypeOK, ActiveIsListed
<1>3. ASSUME NEW n \in 0..MaxProfiles, NEW ids \in [1..n -> Ids],
             Load(ids) \/ LoadCutShort(ids)
      PROVE  ProfilesInv'
  <2>1. servers' = [i \in 1..n |-> [id |-> ids[i], isActive |-> FALSE]]
    BY <1>3 DEF Load, LoadCutShort
  <2>2. n \in Nat /\ n <= MaxProfiles
    BY ProfilesAssumption
  <2>3. servers' \in Seq(Profiles) /\ Len(servers') = n /\ DOMAIN servers' = 1..n
    BY <2>1, <2>2 DEF Profiles
  <2>4. CASE Load(ids)
    <3>1. activeId' = FirstId(servers') /\ stray' = FALSE
      BY <2>4 DEF Load
    <3>2. ProfilesTypeOK'
      BY <2>2, <2>3, <3>1, FirstIdIs DEF ProfilesTypeOK
    <3> QED
      BY <3>1, <3>2, NamedIsListed DEF ProfilesInv
  <2>5. CASE LoadCutShort(ids)
    <3>1. activeId' = activeId /\ stray' = (activeId \notin {ids[i] : i \in 1..n})
      BY <2>5 DEF LoadCutShort
    <3>2. ProfilesTypeOK'
      BY <1>1, <2>2, <2>3, <3>1 DEF ProfilesTypeOK
    <3>3. ~ stray' => HasId(activeId)'
      <4> SUFFICES ASSUME ~ stray' PROVE HasId(activeId)'
        OBVIOUS
      <4>1. PICK i \in 1..n : ids[i] = activeId
        BY <3>1
      <4>2. servers'[i].id = activeId'
        BY <2>1, <3>1, <4>1
      <4> QED
        BY <2>3, <4>2 DEF HasId
    <3> QED
      BY <3>2, <3>3 DEF ProfilesInv, ActiveIsListed
  <2> QED
    BY <1>3, <2>4, <2>5
<1>4. CASE SaveAndLoad
  <2> DEFINE ids == [i \in 1..Len(servers) |-> servers[i].id]
  <2>1. ids \in [1..Len(servers) -> Ids]
    <3>1. \A i \in 1..Len(servers) : servers[i] \in Profiles
      BY <1>1
    <3> QED
      BY <3>1 DEF Profiles
  <2>2. Load(ids)
    BY <1>1, <1>4 DEF SaveAndLoad, Load
  <2>3. Len(servers) \in 0..MaxProfiles
    BY <1>1, ProfilesAssumption
  <2> HIDE DEF ids
  <2> QED
    BY <1>3, <2>1, <2>2, <2>3
<1>5. CASE UNCHANGED profilesVars
  BY <1>5 DEF profilesVars, ProfilesInv, ProfilesTypeOK, ActiveIsListed, HasId
<1> QED
  BY <1>2, <1>3, <1>4, <1>5, AddServerStep, RemoveServerStep DEF ProfilesNext, SwitchTo

\* For any identifiers, the empty one among them, and any number of profiles: every variable
\* keeps its type, and after any sequence of calls there is an active profile whenever there
\* is one at all, but for the time after setActiveServer was given an identifier nobody has
\* or a load was cut short, until an operation names a profile or adds the one named.
THEOREM ActiveProfileIsListed == ProfilesSpec => [](ProfilesTypeOK /\ ActiveIsListed)
<1>1. ProfilesInv => ProfilesTypeOK /\ ActiveIsListed
  BY DEF ProfilesInv
<1> QED
  BY <1>1, ProfilesInitial, ProfilesStep, PTL DEF ProfilesSpec
-----------------------------------------------------------------------------
(* Notifications.                                                          *)

Notice == [id : Nat, elapsed : Nat, dismissed : BOOLEAN, drawn : BOOLEAN, burst : Nat]

\* A notification not yet drawn is as far down as newer ones came before it, and one that
\* a frame has aged without drawing it had as many of them as fit on the screen.
Waiting(n, i) ==
  ~ n.drawn => /\ ~ n.dismissed
               /\ n.burst + 1 >= i
               /\ n.elapsed > 0 => n.burst >= MaxVisible

Proper(n, i, count) ==
  /\ n \in Notice /\ n.id \in 1..count /\ n.elapsed < Duration
  /\ Waiting(n, i)

NoticesInv ==
  /\ notices \in Seq(Notice) /\ Len(notices) <= MaxKept /\ pushed \in 0..MaxNotices
  /\ \A i \in 1..Len(notices) : Proper(notices[i], i, pushed)
-----------------------------------------------------------------------------

LEMMA NoticesInitial == NoticesInit => NoticesInv
<1> SUFFICES ASSUME NoticesInit PROVE NoticesInv
  OBVIOUS
<1>1. notices = <<>> /\ pushed = 0
  BY DEF NoticesInit
<1>2. notices \in Seq(Notice) /\ Len(notices) = 0
  BY <1>1
<1> QED
  BY <1>1, <1>2, NoticesAssumption DEF NoticesInv

\* Every type the run checks.
LEMMA NoticesTypes == NoticesInv => NoticesTypeOK
<1> SUFFICES ASSUME NoticesInv PROVE NoticesTypeOK
  OBVIOUS
<1>1. DOMAIN notices = 1..Len(notices)
  BY DEF NoticesInv
<1>2. ASSUME NEW i \in DOMAIN notices
      PROVE  /\ notices[i].id \in 1..pushed /\ notices[i].elapsed \in 0..(Duration - 1)
             /\ notices[i].dismissed \in BOOLEAN /\ notices[i].drawn \in BOOLEAN
             /\ notices[i].burst \in Nat
  <2>1. Proper(notices[i], i, pushed)
    BY <1>1 DEF NoticesInv
  <2>2. notices[i].elapsed \in Nat /\ notices[i].elapsed < Duration /\ Duration \in Nat
    BY <2>1, NoticesAssumption DEF Proper, Notice
  <2>3. notices[i].elapsed \in 0..(Duration - 1)
    BY <2>2
  <2> QED
    BY <2>1, <2>3 DEF Proper, Notice
<1> QED
  BY <1>2 DEF NoticesInv, NoticesTypeOK

\* A push moves everything one place down, and drops what exceeds the limit.
LEMMA PushIs ==
  ASSUME NoticesInv, Push
  PROVE  /\ NoticesInv'
         /\ \A i \in 1..Len(notices) :
              \/ i + 1 \in 1..Len(notices') /\ notices'[i + 1].id = notices[i].id
              \/ i = MaxKept
<1> DEFINE new == [id |-> pushed', elapsed |-> 0, dismissed |-> FALSE, drawn |-> FALSE,
                   burst |-> 0]
           older == [i \in DOMAIN notices |->
                       IF notices[i].drawn THEN notices[i]
                       ELSE [notices[i] EXCEPT !.burst = @ + 1]]
           all == <<new>> \o older
<1>1. /\ pushed \in Nat /\ pushed' = pushed + 1 /\ pushed' \in 0..MaxNotices
      /\ notices' = IF Len(all) > MaxKept THEN Front(all) ELSE all
  BY NoticesAssumption DEF Push, NoticesInv
<1>2. /\ Len(notices) \in Nat /\ DOMAIN notices = 1..Len(notices) /\ MaxKept \in Nat
      /\ Len(notices) <= MaxKept
  BY NoticesAssumption DEF NoticesInv
<1>3. new \in Notice /\ Proper(new, 1, pushed')
  <2>1. new \in Notice
    BY <1>1 DEF Notice
  <2>2. pushed' \in 1..pushed'
    BY <1>1
  <2>3. Duration \in Nat /\ 0 < Duration
    BY NoticesAssumption
  <2>4. /\ new.id = pushed' /\ new.elapsed = 0 /\ new.dismissed = FALSE
        /\ new.drawn = FALSE /\ new.burst = 0
    OBVIOUS
  <2> HIDE DEF new
  <2> QED
    BY <2>1, <2>2, <2>3, <2>4 DEF Proper, Waiting
<1>4. ASSUME NEW i \in 1..Len(notices)
      PROVE  older[i] \in Notice /\ Proper(older[i], i + 1, pushed') /\ older[i].id = notices[i].id
  <2>1. Proper(notices[i], i, pushed) /\ notices[i] \in Notice
    BY DEF NoticesInv, Proper
  <2>2. notices[i].id \in 1..pushed'
    BY <1>1, <2>1 DEF Proper, Notice
  <2>3. CASE notices[i].drawn
    <3>1. older[i] = notices[i]
      BY <1>2, <2>3
    <3> HIDE DEF older
    <3> QED
      BY <2>1, <2>2, <2>3, <3>1 DEF Proper, Waiting
  <2>4. CASE ~ notices[i].drawn
    <3> DEFINE n == notices[i]
    <3>1. n.burst \in Nat /\ n.burst + 1 >= i /\ (n.elapsed > 0 => n.burst >= MaxVisible)
          /\ ~ n.dismissed /\ n.elapsed < Duration /\ MaxVisible \in Nat
      BY <2>1, <2>4, NoticesAssumption DEF Proper, Waiting, Notice
    <3>2. older[i] = [n EXCEPT !.burst = n.burst + 1]
      BY <1>2, <2>4
    <3>3. /\ older[i] \in Notice /\ older[i].id = n.id /\ older[i].elapsed = n.elapsed
          /\ older[i].dismissed = n.dismissed /\ older[i].burst = n.burst + 1
      <4>1. n \in Notice /\ n.burst + 1 \in Nat
        BY <2>1, <3>1
      <4> HIDE DEF n
      <4> QED
        BY <3>2, <4>1 DEF Notice
    <3>4. n.burst + 1 + 1 >= i + 1 /\ (n.elapsed > 0 => n.burst + 1 >= MaxVisible)
      BY <3>1
    <3> HIDE DEF older
    <3> QED
      BY <2>2, <3>1, <3>3, <3>4 DEF Proper, Waiting
  <2> QED
    BY <2>3, <2>4
<1>5. /\ all \in Seq(Notice) /\ Len(all) = Len(notices) + 1
      /\ all[1] = new /\ \A i \in 1..Len(notices) : all[i + 1] = older[i]
  <2>1. older \in Seq(Notice) /\ Len(older) = Len(notices)
    <3>1. older \in [1..Len(notices) -> Notice]
      BY <1>2, <1>4
    <3> HIDE DEF older
    <3> QED
      BY <1>2, <3>1
  <2>2. <<new>> \in Seq(Notice) /\ Len(<<new>>) = 1 /\ <<new>>[1] = new
    BY <1>3
  <2> HIDE DEF new, older
  <2> QED
    BY <1>2, <2>1, <2>2, ConcatProperties
<1>6. \A i \in 1..(Len(notices) + 1) : Proper(all[i], i, pushed')
  <2> SUFFICES ASSUME NEW i \in 1..(Len(notices) + 1) PROVE Proper(all[i], i, pushed')
    OBVIOUS
  <2>1. CASE i = 1
    BY <1>3, <1>5, <2>1
  <2>2. CASE i # 1
    <3>1. i - 1 \in 1..Len(notices) /\ (i - 1) + 1 = i
      BY <1>2, <2>2
    <3> HIDE DEF all, older
    <3>2. all[(i - 1) + 1] = older[i - 1] /\ Proper(older[i - 1], (i - 1) + 1, pushed')
      BY <1>4, <1>5, <3>1
    <3> QED
      BY <3>1, <3>2
  <2> QED
    BY <2>1, <2>2
<1>7. /\ notices' \in Seq(Notice) /\ Len(notices') <= MaxKept
      /\ Len(notices') \in {Len(notices), Len(notices) + 1}
      /\ Len(notices') = Len(notices) => Len(notices) = MaxKept
      /\ \A i \in 1..Len(notices') : notices'[i] = all[i]
  <2> HIDE DEF all
  <2>1. CASE Len(all) > MaxKept
    <3>1. notices' = Front(all) /\ Len(all) = MaxKept + 1
      BY <1>1, <1>2, <1>5, <2>1
    <3>2. notices' = SubSeq(all, 1, MaxKept)
      BY <1>2, <3>1 DEF Front
    <3>3. \A i \in 1..MaxKept : all[i] \in Notice
      BY <1>2, <1>5, <3>1
    <3>4. /\ notices' \in Seq(Notice) /\ Len(notices') = MaxKept
          /\ \A i \in 1..MaxKept : notices'[i] = all[i]
      BY <1>2, <3>2, <3>3
    <3> QED
      BY <1>2, <1>5, <3>1, <3>4
  <2>2. CASE ~ (Len(all) > MaxKept)
    <3>1. notices' = all
      BY <1>1, <2>2
    <3>2. Len(all) \in Nat /\ Len(all) <= MaxKept /\ Len(all) = Len(notices) + 1
      BY <1>2, <1>5, <2>2
    <3>3. \A a, b \in Nat : a = b + 1 => a # b
      OBVIOUS
    <3>4. Len(all) # Len(notices)
      BY <1>2, <3>2, <3>3
    <3> QED
      BY <1>5, <3>1, <3>2, <3>4
  <2> QED
    BY <2>1, <2>2
<1> HIDE DEF all, older, new
<1>8. \A i \in 1..Len(notices') : Proper(notices'[i], i, pushed')
  <2>1. \A m \in Nat : \A k \in {m, m + 1} : 1..k \subseteq 1..(m + 1)
    OBVIOUS
  <2>2. 1..Len(notices') \subseteq 1..(Len(notices) + 1)
    BY <1>2, <1>7, <2>1
  <2> QED
    BY <1>6, <1>7, <2>2
<1>9. NoticesInv'
  BY <1>1, <1>7, <1>8 DEF NoticesInv
<1>10. ASSUME NEW i \in 1..Len(notices), i # MaxKept
       PROVE  i + 1 \in 1..Len(notices') /\ notices'[i + 1].id = notices[i].id
  <2>1. i + 1 \in 1..Len(notices')
    BY <1>2, <1>7, <1>10
  <2>2. notices'[i + 1] = older[i]
    BY <1>5, <1>7, <2>1
  <2> QED
    BY <1>4, <2>1, <2>2
<1> QED
  BY <1>9, <1>10

\* A frame ages everything, and takes away what was closed or is due: of what was not yet
\* drawn, only what waited behind enough others, or what one long frame outlived.
LEMMA FrameIs ==
  ASSUME NoticesInv, NEW delta \in FrameTimes, Frame(delta)
  PROVE  /\ NoticesInv'
         /\ \A i \in 1..Len(notices) : ~ notices[i].drawn =>
              \/ \E k \in 1..Len(notices') : notices'[k].id = notices[i].id
              \/ notices[i].burst >= MaxVisible
              \/ delta >= Duration
<1> DEFINE aged == [i \in DOMAIN notices |-> [notices[i] EXCEPT !.elapsed = @ + delta]]
           keep == {i \in DOMAIN aged : ~ aged[i].dismissed /\ aged[i].elapsed < Duration}
           left == Kept(aged, keep)
<1>1. /\ Len(notices) \in Nat /\ DOMAIN notices = 1..Len(notices) /\ Len(notices) <= MaxKept
      /\ MaxKept \in Nat /\ MaxVisible \in Nat /\ Duration \in Nat /\ delta \in Nat
      /\ pushed' = pushed
  BY NoticesAssumption DEF NoticesInv, Frame
<1>2. ASSUME NEW i \in 1..Len(notices)
      PROVE  /\ aged[i] \in Notice /\ aged[i].id = notices[i].id
             /\ aged[i].elapsed = notices[i].elapsed + delta
             /\ aged[i].dismissed = notices[i].dismissed /\ aged[i].drawn = notices[i].drawn
             /\ aged[i].burst = notices[i].burst
  <2>1. notices[i] \in Notice
    BY DEF NoticesInv, Proper
  <2>2. aged[i] = [notices[i] EXCEPT !.elapsed = notices[i].elapsed + delta]
    BY <1>1
  <2>3. notices[i].elapsed + delta \in Nat
    BY <1>1, <2>1 DEF Notice
  <2> QED
    BY <2>1, <2>2, <2>3 DEF Notice
<1>3. aged \in Seq(Notice) /\ Len(aged) = Len(notices) /\ DOMAIN aged = 1..Len(notices)
  <2>1. aged \in [1..Len(notices) -> Notice]
    BY <1>1, <1>2
  <2> HIDE DEF aged
  <2> QED
    BY <1>1, <2>1
<1>4. \A i \in 1..Len(notices) :
        i \in keep <=> ~ notices[i].dismissed /\ notices[i].elapsed + delta < Duration
  BY <1>2, <1>3
<1>5. /\ left \in Seq(Notice) /\ Len(left) <= Len(notices)
      /\ \A k \in 1..Len(left) : \E i \in 1..Len(notices) :
           i \in keep /\ k <= i /\ left[k] = aged[i]
      /\ \A i \in 1..Len(notices) : i \in keep =>
           \E k \in 1..Len(left) : k <= i /\ left[k] = aged[i]
  <2> HIDE DEF aged, keep
  <2> QED
    BY <1>3, KeptIs
<1>6. notices' = [k \in DOMAIN left |->
                    IF k <= MaxVisible THEN [left[k] EXCEPT !.drawn = TRUE] ELSE left[k]]
  BY DEF Frame, Updated
<1> HIDE DEF left, keep, aged
<1>7. Len(left) \in Nat /\ DOMAIN left = 1..Len(left)
  BY <1>5
<1>8. ASSUME NEW k \in 1..Len(left)
      PROVE  /\ notices'[k] \in Notice /\ notices'[k].id = left[k].id
             /\ notices'[k].elapsed = left[k].elapsed
             /\ notices'[k].dismissed = left[k].dismissed
             /\ notices'[k].burst = left[k].burst
             /\ ~ notices'[k].drawn => k > MaxVisible /\ ~ left[k].drawn
  <2>1. left[k] \in Notice
    BY <1>5
  <2>2. notices'[k] = IF k <= MaxVisible THEN [left[k] EXCEPT !.drawn = TRUE] ELSE left[k]
    BY <1>6, <1>7
  <2>3. CASE k <= MaxVisible
    BY <2>1, <2>2, <2>3 DEF Notice
  <2>4. CASE ~ (k <= MaxVisible)
    BY <1>1, <1>7, <2>1, <2>2, <2>4
  <2> QED
    BY <2>3, <2>4
<1>9. notices' \in Seq(Notice) /\ Len(notices') = Len(left)
  <2>1. notices' \in [1..Len(left) -> Notice]
    BY <1>6, <1>7, <1>8
  <2> QED
    BY <1>7, <2>1
<1>10. ASSUME NEW k \in 1..Len(left)
       PROVE  Proper(notices'[k], k, pushed')
  <2>1. PICK i \in 1..Len(notices) : i \in keep /\ k <= i /\ left[k] = aged[i]
    BY <1>5
  <2>2. Proper(notices[i], i, pushed)
    BY DEF NoticesInv
  <2>3. /\ notices'[k].id = notices[i].id /\ notices'[k].burst = notices[i].burst
        /\ notices'[k].elapsed = notices[i].elapsed + delta
        /\ notices'[k].dismissed = notices[i].dismissed
        /\ ~ notices'[k].drawn => k > MaxVisible /\ ~ notices[i].drawn
    BY <1>2, <1>8, <2>1
  <2>4. notices'[k].elapsed < Duration
    BY <1>4, <2>1, <2>3
  <2>5. notices'[k] \in Notice /\ notices[i].burst \in Nat
    BY <1>8, <2>2 DEF Proper, Notice
  <2>6. Waiting(notices'[k], k)
    <3>1. SUFFICES ASSUME ~ notices'[k].drawn PROVE Waiting(notices'[k], k)
      BY DEF Waiting
    <3>2. ~ notices[i].dismissed /\ notices[i].burst + 1 >= i
      BY <2>2, <2>3, <3>1 DEF Proper, Waiting
    <3>3. k \in Nat /\ i \in Nat /\ k > MaxVisible /\ k <= i
      BY <1>1, <1>7, <2>1, <2>3, <3>1
    <3>4. notices[i].burst + 1 >= k /\ notices[i].burst >= MaxVisible
      BY <1>1, <2>5, <3>2, <3>3
    <3> QED
      BY <2>3, <3>2, <3>4 DEF Waiting
  <2> QED
    BY <1>1, <2>2, <2>3, <2>4, <2>5, <2>6 DEF Proper
<1>11. NoticesInv'
  <2>1. Len(notices') <= MaxKept
    BY <1>1, <1>5, <1>7, <1>9
  <2> QED
    BY <1>1, <1>9, <1>10, <2>1 DEF NoticesInv
<1>12. ASSUME NEW i \in 1..Len(notices), ~ notices[i].drawn,
              notices[i].burst < MaxVisible, delta < Duration
       PROVE  \E k \in 1..Len(notices') : notices'[k].id = notices[i].id
  <2>1. Proper(notices[i], i, pushed)
    BY DEF NoticesInv
  <2>2. ~ notices[i].dismissed /\ notices[i].elapsed \in Nat /\ notices[i].burst \in Nat
        /\ (notices[i].elapsed > 0 => notices[i].burst >= MaxVisible)
    BY <1>12, <2>1 DEF Proper, Waiting, Notice
  <2>3. notices[i].elapsed = 0
    BY <1>1, <1>12, <2>2
  <2>4. i \in keep
    BY <1>1, <1>4, <1>12, <2>2, <2>3
  <2>5. PICK k \in 1..Len(left) : left[k] = aged[i]
    BY <1>5, <2>4
  <2>6. notices'[k].id = notices[i].id
    BY <1>2, <1>8, <2>5
  <2> QED
    BY <1>9, <2>6
<1>13. ASSUME NEW i \in 1..Len(notices)
       PROVE  notices[i].burst \in Nat
  BY DEF NoticesInv, Proper, Notice
<1> QED
  BY <1>1, <1>11, <1>12, <1>13

\* Only one that is on the screen has a button to close it.
LEMMA CloseNoticeIs ==
  ASSUME NoticesInv, NEW i \in 1..MaxVisible, CloseNotice(i)
  PROVE  /\ NoticesInv'
         /\ Len(notices') = Len(notices)
         /\ \A k \in 1..Len(notices) : notices'[k].id = notices[k].id
<1>1. /\ Len(notices) \in Nat /\ DOMAIN notices = 1..Len(notices) /\ i \in 1..Len(notices)
      /\ pushed' = pushed /\ notices[i].drawn
      /\ notices' = [notices EXCEPT ![i] = [notices[i] EXCEPT !.dismissed = TRUE]]
  BY NoticesAssumption DEF NoticesInv, CloseNotice
<1>2. [notices[i] EXCEPT !.dismissed = TRUE] \in Notice
  BY <1>1 DEF NoticesInv, Proper, Notice
<1>3. notices' \in Seq(Notice) /\ Len(notices') = Len(notices)
  BY <1>1, <1>2 DEF NoticesInv
<1>4. ASSUME NEW k \in 1..Len(notices)
      PROVE  Proper(notices'[k], k, pushed') /\ notices'[k].id = notices[k].id
  <2>1. Proper(notices[k], k, pushed)
    BY DEF NoticesInv
  <2>2. CASE k # i
    BY <1>1, <2>1, <2>2
  <2>3. CASE k = i
    <3>1. notices'[k] = [notices[k] EXCEPT !.dismissed = TRUE]
      BY <1>1, <2>3
    <3>2. /\ notices'[k].id = notices[k].id /\ notices'[k].elapsed = notices[k].elapsed
          /\ notices'[k].drawn /\ notices'[k] \in Notice
      BY <1>1, <1>2, <2>1, <2>3, <3>1 DEF Proper, Notice
    <3> QED
      BY <1>1, <2>1, <3>2 DEF Proper, Waiting
  <2> QED
    BY <2>2, <2>3
<1> QED
  BY <1>1, <1>3, <1>4 DEF NoticesInv

LEMMA NoticesStep ==
  ASSUME NoticesInv, [NoticesNext]_noticesVars
  PROVE  NoticesInv'
<1>1. CASE UNCHANGED noticesVars
  BY <1>1 DEF NoticesInv, Proper, Waiting, noticesVars
<1>2. CASE NoticesNext
  BY <1>2, PushIs, FrameIs, CloseNoticeIs DEF NoticesNext
<1> QED
  BY <1>1, <1>2

\* For any limits, durations and frames: every variable keeps its type, and the list never
\* exceeds its limit.
THEOREM NoticesAreBounded == NoticesSpec => []NoticesTypeOK
<1> QED
  BY NoticesInitial, NoticesTypes, NoticesStep, PTL DEF NoticesSpec

\* What a step may make of a notification nobody has seen yet.
LEMMA NoticesStepShows ==
  ASSUME NoticesInv, NoticesNext
  PROVE  \A i \in DOMAIN notices :
           LET n == notices[i] IN
           ~ n.drawn /\ (\A j \in DOMAIN notices' : notices'[j].id # n.id) =>
             \/ n.burst >= MaxVisible
             \/ \E delta \in FrameTimes : delta >= Duration /\ Frame(delta)
<1>1. SUFFICES ASSUME NEW i \in DOMAIN notices, ~ notices[i].drawn,
                      \A j \in DOMAIN notices' : notices'[j].id # notices[i].id
               PROVE  \/ notices[i].burst >= MaxVisible
                      \/ \E delta \in FrameTimes : delta >= Duration /\ Frame(delta)
  OBVIOUS
<1>2. i \in 1..Len(notices) /\ Proper(notices[i], i, pushed)
  BY DEF NoticesInv
<1>3. NoticesInv'
  BY NoticesStep
<1>4. DOMAIN notices' = 1..Len(notices')
  BY <1>3 DEF NoticesInv
<1>5. CASE Push
  <2>1. i = MaxKept
    BY <1>1, <1>2, <1>4, <1>5, PushIs
  <2>2. notices[i].burst \in Nat /\ notices[i].burst + 1 >= i
    BY <1>1, <1>2 DEF Proper, Waiting, Notice
  <2>3. MaxKept \in Nat /\ MaxVisible \in Nat /\ MaxVisible < MaxKept
    BY NoticesAssumption
  <2> QED
    BY <2>1, <2>2, <2>3
<1>6. ASSUME NEW delta \in FrameTimes, Frame(delta)
      PROVE  \/ notices[i].burst >= MaxVisible
             \/ delta >= Duration /\ Frame(delta)
  BY <1>1, <1>2, <1>4, <1>6, FrameIs
<1>7. ASSUME NEW k \in 1..MaxVisible, CloseNotice(k)
      PROVE  FALSE
  BY <1>1, <1>2, <1>4, <1>7, CloseNoticeIs
<1> QED
  BY <1>5, <1>6, <1>7 DEF NoticesNext

\* For any limits, durations and frames: what nobody ever saw is dropped only from behind as
\* many newer ones as fit on the screen, or by a frame longer than it had to live.
THEOREM NoticesAreSeen == NoticesSpec => SeenUnlessFlooded
<1>1. NoticesInv /\ [NoticesNext]_noticesVars =>
        [\A i \in DOMAIN notices :
           LET n == notices[i] IN
           ~ n.drawn /\ (\A j \in DOMAIN notices' : notices'[j].id # n.id) =>
             \/ n.burst >= MaxVisible
             \/ \E delta \in FrameTimes : delta >= Duration /\ Frame(delta)]_noticesVars
  BY NoticesStepShows
<1> QED
  BY <1>1, NoticesInitial, NoticesStep, PTL DEF NoticesSpec, SeenUnlessFlooded
=============================================================================
