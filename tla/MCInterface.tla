---------------------------- MODULE MCInterface -----------------------------
(***************************************************************************)
(* The components around the interface, each alone: their modules share no *)
(* state, so one run checks them one after the other.  focus names the one *)
(* that runs; the others stay in an initial state.                         *)
(***************************************************************************)
EXTENDS Settings, Refresh, ScanRecords, Console, PlayerPanel, ServerProfiles,
        MapView, FlagQueue, Notifications

VARIABLE focus

othersVars == <<settingsVars, refreshVars, scanVars, consoleVars, panelVars, mapVars,
                profilesVars, queueVars, noticesVars>>

Components ==
  {"settings", "refresh", "whitelist", "reports", "console", "panel", "map", "profiles",
   "queue", "notices"}

\* What differs among the initial states of a component that does not run is fixed.
Init ==
  /\ focus \in Components
  /\ SettingsInit /\ (focus # "settings" => setting = "scan")
  /\ RefreshInit
  /\ ScanInit /\ (focus # "whitelist" => trusted = {})
  /\ ConsoleInit /\ (focus # "console" => state = "Stopped")
  /\ PanelInit /\ MapInit /\ ProfilesInit /\ QueueInit /\ NoticesInit

Settings1 ==
  /\ focus = "settings" /\ SettingsNext
  /\ UNCHANGED <<focus, refreshVars, scanVars, consoleVars, panelVars,
                 mapVars, profilesVars, queueVars, noticesVars>>
Refresh1 ==
  /\ focus = "refresh" /\ RefreshNext
  /\ UNCHANGED <<focus, settingsVars, scanVars, consoleVars, panelVars,
                 mapVars, profilesVars, queueVars, noticesVars>>
\* The scans come twice: the whitelist and the rules change while the scheduler and the
\* pool scan and store nothing; the scheduler alone stores what is reviewed meanwhile.
Whitelist1 ==
  /\ focus = "whitelist" /\ ScanNext /\ flags' = flags /\ clock' = clock
  /\ UNCHANGED <<focus, settingsVars, refreshVars, consoleVars, panelVars,
                 mapVars, profilesVars, queueVars, noticesVars>>
Reports1 ==
  /\ focus = "reports" /\ ScanNext /\ trusted' = trusted /\ enabled' = enabled
  /\ \A t \in ScanTasks : scan'[t] = scan[t]
  /\ UNCHANGED <<focus, settingsVars, refreshVars, consoleVars, panelVars,
                 mapVars, profilesVars, queueVars, noticesVars>>
Console1 ==
  /\ focus = "console" /\ ConsoleNext
  /\ UNCHANGED <<focus, settingsVars, refreshVars, scanVars, panelVars,
                 mapVars, profilesVars, queueVars, noticesVars>>
Panel1 ==
  /\ focus = "panel" /\ PanelNext
  /\ UNCHANGED <<focus, settingsVars, refreshVars, scanVars, consoleVars,
                 mapVars, profilesVars, queueVars, noticesVars>>
Map1 ==
  /\ focus = "map" /\ MapNext
  /\ UNCHANGED <<focus, settingsVars, refreshVars, scanVars, consoleVars,
                 panelVars, profilesVars, queueVars, noticesVars>>
Profiles1 ==
  /\ focus = "profiles" /\ ProfilesNext
  /\ UNCHANGED <<focus, settingsVars, refreshVars, scanVars, consoleVars,
                 panelVars, mapVars, queueVars, noticesVars>>
Queue1 ==
  /\ focus = "queue" /\ QueueNext
  /\ UNCHANGED <<focus, settingsVars, refreshVars, scanVars, consoleVars,
                 panelVars, mapVars, profilesVars, noticesVars>>
Notices1 ==
  /\ focus = "notices" /\ NoticesNext
  /\ UNCHANGED <<focus, settingsVars, refreshVars, scanVars, consoleVars,
                 panelVars, mapVars, profilesVars, queueVars>>

Next ==
  \/ Settings1 \/ Refresh1 \/ Whitelist1 \/ Reports1 \/ Console1 \/ Panel1
  \/ Map1 \/ Profiles1 \/ Queue1 \/ Notices1

\* The fairness of the refresh, when it is the one that runs.
InterfaceFairness == focus = "refresh" => RefreshFairness

Spec == Init /\ [][Next]_<<focus, othersVars>> /\ InterfaceFairness

-----------------------------------------------------------------------------
MCPlayers == {"p1", "p2"}
MCRules == {"TECH_BEYOND_LEVEL", "PAL_ILLEGAL_STATS"}
MCPal == [rank |-> 5, level |-> 50, passives |-> <<>>, instanceId |-> "a"]
\* Both know too much for their level; p1 has a pal of too high a rank.
MCContexts == [p \in MCPlayers |->
  [level |-> 1, stats |-> 12, techs |-> 7, inventory |-> <<>>, bases |-> <<>>,
   pals |-> IF p = "p1" THEN <<MCPal>> ELSE <<>>]]
\* The rules count surplus copies, whatever their order: of n passives or pals, of d kinds,
\* n - d are flagged; a pal without an id is nobody's copy.
ShortLists == UNION {[1..n -> {"", "a", "b"}] : n \in 0..4}
ASSUME RepeatsAreSurplus ==
  \A s \in ShortLists :
    LET surplus(K) == Cardinality({i \in DOMAIN s : s[i] \in K}) - Cardinality({s[i] : i \in DOMAIN s} \cap K)
        pals == [i \in DOMAIN s |-> [instanceId |-> s[i]]]
    IN /\ Cardinality(Repeats(s)) = surplus({"", "a", "b"})
       /\ DuplicatePalUUID([pals |-> pals]) = surplus({"a", "b"})
MCCenters == 0..1
MCSeverity == [r \in {"info", "low", "critical"} |->
                 CASE r = "info" -> 0 [] r = "low" -> 1 [] r = "critical" -> 4]
\* Three days and then the floor.
MCDecay == [age \in 0..3 |-> <<1000, 905, 819, 100>>[age + 1]]

\* Every component's variables have their types.
InterfaceTypeOK ==
  /\ SettingsTypeOK /\ RefreshTypeOK /\ ScanTypeOK /\ ConsoleTypeOK
  /\ PanelTypeOK /\ MapTypeOK
  /\ ProfilesTypeOK /\ QueueTypeOK /\ NoticesTypeOK
=============================================================================
