----------------------------- MODULE ScanRecords -----------------------------
(***************************************************************************)
(* Scans and what becomes of their findings: ScanEngine in the scheduler's *)
(* thread and in a pool thread, the flags and the whitelist in Database    *)
(* (each statement under its mutex), and the administrator who reads the   *)
(* reports, dismisses flags and acts on them.  A statement may fail, and   *)
(* a query deliver none or some of its rows: no caller looks.  The parser  *)
(* delivers players (as it stands it stores none), and what is known of    *)
(* each stays the same while he is scanned: Contexts.                      *)
(***************************************************************************)
EXTENDS ScanRules

CONSTANTS
  ScanTasks,  \* the scans that run in threads of the pool
  Players,
  Rules,      \* m_rules
  Contexts,   \* Contexts[p]: what buildContext gathers about p
  Threshold,  \* scan.suspicionThreshold
  ListLimit,  \* how many flags a report reads, 200 in the code
  Marks,      \* what the panel records of an action taken: "warn", "kick", "ban"
  MaxFlags,   \* bounds the flags recorded
  MaxClock,   \* bounds the clock
  MaxClicks   \* bounds what the administrator does

ASSUME ScanAssumption ==
  /\ ScanTasks \cap {"scheduler", "actions"} = {}
  /\ "none" \notin Players /\ Rules \subseteq RuleIds
  /\ \A p \in Players : IsContext(Contexts[p])
  /\ Threshold \in Int /\ ListLimit \in Nat
  /\ MaxFlags \in Nat /\ MaxClock \in Nat /\ MaxClicks \in Nat

VARIABLES
  flags,    \* scan_flags, by id
  trusted,  \* scan_whitelist
  enabled,  \* the rules switched on
  scan,     \* the scan each thread is in
  admin,    \* the administrator's click at work: the flags it goes through
  clicks,   \* what the administrator has done so far
  clock,    \* seconds, the resolution of a flag's timestamp
  late      \* history: who has evaluated which player, and which the automatic actions
            \* have met, since he was put on the whitelist

scanVars == <<flags, trusted, enabled, scan, admin, clicks, clock, late>>

Scanners == {"scheduler"} \cup ScanTasks

\* hits: the flags rule has found at second at that are not yet recorded; found: the
\* scores of this scan's flags; blind: history, the trusted players in whose query for
\* the whitelist this scan got no answer.
NoScan == [pc |-> "off", left |-> {}, player |-> "none", todo |-> {}, rule |-> "none",
           hits |-> 0, at |-> 0, found |-> [p \in Players |-> 0], blind |-> {}]
\* seen: history, the flags there were at the click; failed: history, a statement of it
\* failed.
NoClick == [does |-> "nothing", player |-> "none", ids |-> {}, seen |-> {}, failed |-> FALSE]

ScanInit ==
  /\ flags = <<>> /\ trusted \in SUBSET Players /\ enabled = Rules
  /\ scan = [t \in Scanners |-> NoScan]
  /\ admin = NoClick /\ clicks = 0 /\ clock = 0 /\ late = {}

Goes(t, s) == scan' = [scan EXCEPT ![t] = s]

-----------------------------------------------------------------------------
(* A scan.                                                                 *)

\* scanAllPlayers in either thread, or scanPlayer for the panel in a pool thread.
BeginScan(t, who) ==
  /\ scan[t].pc = "off"
  /\ t = "scheduler" => who = Players
  /\ Goes(t, [NoScan EXCEPT !.pc = "next", !.left = who])
  /\ UNCHANGED <<flags, trusted, enabled, admin, clicks, clock, late>>

\* Variant: the answer is not looked at.
CheckTrustedForgets(t, p) ==
  /\ scan[t].pc = "next" /\ p \in scan[t].left
  /\ Goes(t, [scan[t] EXCEPT !.left = @ \ {p}, !.pc = "lock", !.player = p])
  /\ UNCHANGED <<flags, trusted, enabled, admin, clicks, clock, late>>

\* The whitelist is asked before the lock is taken; no answer is taken for a no.
CheckTrusted(t, p) ==
  /\ scan[t].pc = "next" /\ p \in scan[t].left
  /\ \E answered \in BOOLEAN :
       LET s == [scan[t] EXCEPT !.left = @ \ {p}] IN
       Goes(t, IF p \in trusted /\ answered THEN s
               ELSE [s EXCEPT !.pc = "lock", !.player = p, !.blind = @ \cup ({p} \cap trusted)])
  /\ UNCHANGED <<flags, trusted, enabled, admin, clicks, clock, late>>

\* Whoever concerns a player although the whitelist has him.
Concerning(who, s, p) == IF p \in trusted \ s.blind THEN {<<who, p>>} ELSE {}

MutexIsFree == \A t \in Scanners : scan[t].pc # "rules"

LockEngine(t) ==
  /\ scan[t].pc = "lock" /\ MutexIsFree
  /\ Goes(t, [scan[t] EXCEPT !.pc = "rules", !.todo = Rules])
  /\ late' = late \cup Concerning(t, scan[t], scan[t].player)
  /\ UNCHANGED <<flags, trusted, enabled, admin, clicks, clock>>

\* One turn of the loop over the rules, m_mutex held; isEnabled is read as it goes.
Evaluate(t, r) ==
  /\ scan[t].pc = "rules" /\ scan[t].hits = 0 /\ r \in scan[t].todo
  /\ Goes(t, [scan[t] EXCEPT
                !.todo = @ \ {r}, !.rule = r,
                !.hits = IF r \in enabled THEN FlagsOf(r, Contexts[scan[t].player]) ELSE 0,
                !.at = clock])
  /\ UNCHANGED <<flags, trusted, enabled, admin, clicks, clock, late>>

\* recordScanResult of one of the flags found; it is one of the scan's findings even if
\* the INSERT fails.
RecordFlag(t) ==
  /\ scan[t].hits > 0
  /\ \/ /\ Len(flags) < MaxFlags
        /\ flags' = Append(flags, [player |-> scan[t].player, rule |-> scan[t].rule,
                                   at |-> scan[t].at, dismissed |-> FALSE, action |-> "none"])
     \/ UNCHANGED flags
  /\ Goes(t, [scan[t] EXCEPT !.hits = @ - 1,
                             !.found[scan[t].player] = @ + Impact(scan[t].rule)])
  /\ UNCHANGED <<trusted, enabled, admin, clicks, clock, late>>

UnlockEngine(t) ==
  /\ scan[t].pc = "rules" /\ scan[t].todo = {} /\ scan[t].hits = 0
  /\ Goes(t, [scan[t] EXCEPT !.pc = "next", !.player = "none", !.rule = "none", !.at = 0])
  /\ UNCHANGED <<flags, trusted, enabled, admin, clicks, clock, late>>

\* The scheduler goes on to automatic actions if the configuration says so.
EndScan(t) ==
  /\ scan[t].pc = "next" /\ scan[t].left = {}
  /\ \/ Goes(t, NoScan)
     \/ t = "scheduler" /\ Goes(t, [scan[t] EXCEPT !.pc = "act", !.left = Players])
  /\ UNCHANGED <<flags, trusted, enabled, admin, clicks, clock, late>>

\* What processAutoActions does to a player with such a score in this scan; those
\* without a flag are not looked at.
AutoAction(score) ==
  IF score = 0 \/ score < Threshold THEN "nothing"
  ELSE IF score >= 3 * Threshold THEN "ban"
  ELSE IF score >= 2 * Threshold THEN "kick" ELSE "warn"

\* The message, kick or ban goes out over RCON; the whitelist is not asked again.
ActOnPlayer(p) ==
  LET s == scan["scheduler"] IN
  /\ s.pc = "act" /\ p \in s.left
  /\ Goes("scheduler", [s EXCEPT !.left = @ \ {p}])
  /\ late' = late \cup (IF AutoAction(s.found[p]) = "nothing" THEN {}
                        ELSE Concerning("actions", s, p))
  /\ UNCHANGED <<flags, trusted, enabled, admin, clicks, clock>>

EndActions ==
  /\ scan["scheduler"].pc = "act" /\ scan["scheduler"].left = {}
  /\ Goes("scheduler", NoScan)
  /\ UNCHANGED <<flags, trusted, enabled, admin, clicks, clock, late>>

-----------------------------------------------------------------------------
(* The administrator, in the interface thread.                             *)

\* Variant: the oldest come first.
OldestListings(n) ==
  LET all == 1..Len(flags) IN
  {ids \in kSubset(n, all) : \A i \in ids, j \in all \ ids : flags[i].at <= flags[j].at}

\* getScanHistory("", 200) when n rows arrive: the newest flags of all players together,
\* ties in any order.
Listings(n) ==
  LET all == 1..Len(flags) IN
  {ids \in kSubset(n, all) : \A i \in ids, j \in all \ ids : flags[j].at <= flags[i].at}
\* How many rows arrive unless the query fails before its end.
Full == IF Len(flags) < ListLimit THEN Len(flags) ELSE ListLimit
\* getReports: the listed flags of one player.
ReportOf(p, listing) == {i \in listing : flags[i].player = p}

Click == admin = NoClick /\ clicks < MaxClicks /\ clicks' = clicks + 1

\* A button of p's report: the scanner page's Dismiss All, the panel's Dismiss, Warn,
\* Kick or Ban; then every listed flag, dismissed or not, is gone through.
ClickReport(p, does) ==
  /\ Click
  /\ \E n \in 1..Full : \E listing \in Listings(n) :
       /\ ReportOf(p, listing) # {}
       /\ admin' = [does |-> does, player |-> p, ids |-> ReportOf(p, listing),
                    seen |-> 1..Len(flags), failed |-> n # Full]
  /\ UNCHANGED <<flags, trusted, enabled, scan, clock, late>>

\* dismissScanFlag or setFlagActioned, one flag after the other; an UPDATE may fail.
UpdateFlag(i) ==
  /\ i \in admin.ids
  /\ \/ /\ flags' = IF admin.does = "dismiss" THEN [flags EXCEPT ![i].dismissed = TRUE]
                    ELSE [flags EXCEPT ![i].action = admin.does]
        /\ admin' = [admin EXCEPT !.ids = @ \ {i}]
     \/ /\ UNCHANGED flags
        /\ admin' = [admin EXCEPT !.ids = @ \ {i}, !.failed = TRUE]
  /\ UNCHANGED <<trusted, enabled, scan, clicks, clock, late>>

ClickDone ==
  /\ admin # NoClick /\ admin.ids = {}
  /\ admin' = NoClick
  /\ UNCHANGED <<flags, trusted, enabled, scan, clicks, clock, late>>

\* addScanWhitelist or removeScanWhitelist; either may fail.
Trust(p) ==
  /\ Click
  /\ \/ p \notin trusted /\ trusted' = trusted \cup {p} /\ UNCHANGED late
     \/ p \in trusted /\ trusted' = trusted \ {p} /\ late' = {l \in late : l[2] # p}
     \/ UNCHANGED <<trusted, late>>
  /\ UNCHANGED <<flags, enabled, scan, admin, clock>>

ToggleRule(r) ==
  /\ Click
  /\ enabled' = IF r \in enabled THEN enabled \ {r} ELSE enabled \cup {r}
  /\ UNCHANGED <<flags, trusted, scan, admin, clock, late>>

SecondPasses ==
  /\ clock < MaxClock /\ clock' = clock + 1
  /\ UNCHANGED <<flags, trusted, enabled, scan, admin, clicks, late>>

ScanNext ==
  \/ \E t \in Scanners :
       \/ \E who \in {Players} \cup {{p} : p \in Players} : BeginScan(t, who)
       \/ \E p \in Players : CheckTrusted(t, p)
       \/ LockEngine(t) \/ RecordFlag(t) \/ UnlockEngine(t) \/ EndScan(t)
       \/ \E r \in Rules : Evaluate(t, r)
  \/ EndActions \/ ClickDone \/ SecondPasses
  \/ \E p \in Players : ActOnPlayer(p) \/ Trust(p)
  \/ \E p \in Players, d \in Marks \cup {"dismiss"} : ClickReport(p, d)
  \/ \E i \in admin.ids : UpdateFlag(i)
  \/ \E r \in Rules : ToggleRule(r)

ScanSpec == ScanInit /\ [][ScanNext]_scanVars

-----------------------------------------------------------------------------
Flags == [player : Players, rule : Rules, at : 0..MaxClock, dismissed : BOOLEAN,
          action : Marks \cup {"none"}]

ScanTypeOK ==
  /\ flags \in Seq(Flags) /\ trusted \subseteq Players /\ enabled \subseteq Rules
  /\ \A t \in Scanners :
       /\ scan[t].pc \in {"off", "next", "lock", "rules", "act"}
       /\ scan[t].player \in Players \cup {"none"} /\ scan[t].at \in 0..MaxClock
       /\ scan[t].left \cup scan[t].blind \subseteq Players /\ scan[t].todo \subseteq Rules
       /\ scan[t].rule \in Rules \cup {"none"} /\ scan[t].hits \in Nat
  /\ admin.ids \subseteq 1..Len(flags) /\ admin.failed \in BOOLEAN /\ clock \in 0..MaxClock
  /\ late \subseteq (Scanners \cup {"actions"}) \X trusted

ImpactOf(ids) == SumFunctionOnSet([i \in ids |-> Impact(flags[i].rule)], ids)

\* getPlayerSuspicionScore
Score(p) == ImpactOf({i \in 1..Len(flags) : flags[i].player = p /\ ~flags[i].dismissed})

\* The whitelist is asked once for each player and scan, without the lock, so what began
\* before a player was put on it goes on: but of all the scans that run and are still to
\* come, each thread starts to evaluate him at most once more, and he is warned, kicked
\* or banned automatically at most once more, for as long as he stays on it.  Excused
\* are the scans that got no answer when they asked about him.
TrustTakesEffect ==
  [][/\ \A t \in Scanners :
          LockEngine(t) /\ scan[t].player \in trusted \ scan[t].blind =>
            <<t, scan[t].player>> \notin late
     /\ \A p \in trusted \ scan["scheduler"].blind :
          ActOnPlayer(p) /\ AutoAction(scan["scheduler"].found[p]) # "nothing" =>
            <<"actions", p>> \notin late]_scanVars

\* The flags there were at the click, as new as i.
AsNewAs(i) == {j \in admin.seen \ {i} : flags[j].at >= flags[i].at}

\* The dismissal of a report is over, and no statement of it has failed.
Dismissed == admin.does = "dismiss" /\ ~admin.failed /\ admin' = NoClick

\* Dismissing a player's report leaves him no suspicion score (Database's: the page's
\* totalScore counts dismissed flags too) but that of flags recorded since the click and
\* of those ListLimit others, of whichever players, were as new as.
DismissedIsSettled ==
  [][Dismissed =>
       LET left == {i \in 1..Len(flags) :
                      /\ flags[i].player = admin.player
                      /\ i \in admin.seen => Cardinality(AsNewAs(i)) >= ListLimit}
       IN Score(admin.player) <= ImpactOf(left)]_scanVars
=============================================================================
