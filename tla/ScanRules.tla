------------------------------ MODULE ScanRules ------------------------------
(***************************************************************************)
(* The nine rules of the scanner: how many flags each raises about what    *)
(* buildContext gathers of a player.  A context has his level, the sum of  *)
(* six stats, the number of unlocked technologies, the items of his        *)
(* inventory, his pals, and the number of pals in every base of every      *)
(* guild: the rules see all guilds, whoever is scanned.  An item's id is   *)
(* told by how many endgame names it contains and how many debug prefixes  *)
(* (at most one) it starts with.                                           *)
(***************************************************************************)
EXTENDS Naturals, Sequences, FiniteSetsExt, Functions

\* What buildContext gathers; the rules do not look at the playtime.
IsContext(c) ==
  /\ {c.level, c.stats, c.techs} \subseteq Nat /\ c.bases \in Seq(Nat)
  /\ c.inventory \in Seq([endgame : Nat, debug : 0..1, count : Nat, maxStack : Nat])
  /\ c.pals \in Seq([rank : Nat, level : Nat, passives : Seq(STRING), instanceId : STRING])

SumOf(s, Count(_)) == SumFunction([i \in DOMAIN s |-> Count(s[i])])
Holds(b) == IF b THEN 1 ELSE 0

LowLevelEndgameItem(c) ==
  IF c.level >= 10 THEN 0 ELSE SumOf(c.inventory, LAMBDA item : item.endgame)

ImpossibleStack(c) ==
  SumOf(c.inventory, LAMBDA item : Holds(item.maxStack > 0 /\ item.count > item.maxStack * 2))

DebugItem(c) == SumOf(c.inventory, LAMBDA item : item.debug)

IllegalPalStats(c) ==
  SumOf(c.pals, LAMBDA pal : Holds(pal.rank > 4) + Holds(pal.level > 55))

\* The members of s that repeat an earlier one, by their places.
Repeats(s) == {j \in DOMAIN s : \E i \in 1..(j - 1) : s[i] = s[j]}

ImpossiblePassives(c) ==
  SumOf(c.pals, LAMBDA pal : Holds(Len(pal.passives) > 4) + Cardinality(Repeats(pal.passives)))

\* "" is seen like any other id, but never flagged.
DuplicatePalUUID(c) ==
  LET ids == [i \in DOMAIN c.pals |-> c.pals[i].instanceId]
  IN  Cardinality({j \in Repeats(ids) : ids[j] # ""})

TechBeyondLevel(c) == Holds(c.techs > c.level * 3 * 2)
StatsExceedingCap(c) == Holds(c.stats > c.level * 4 * 3)

AbnormalBasePalCount(c) == SumOf(c.bases, LAMBDA palCount : Holds(palCount > 50))

-----------------------------------------------------------------------------
RuleIds ==
  {"INV_LOW_LEVEL_ENDGAME", "INV_IMPOSSIBLE_STACK", "INV_DEBUG_ITEM", "PAL_ILLEGAL_STATS",
   "PAL_IMPOSSIBLE_PASSIVES", "PAL_DUPLICATE_UUID", "TECH_BEYOND_LEVEL",
   "STAT_EXCEEDING_CAP", "GUILD_ABNORMAL_PAL_COUNT"}

FlagsOf(r, c) ==
  CASE r = "INV_LOW_LEVEL_ENDGAME"    -> LowLevelEndgameItem(c)
    [] r = "INV_IMPOSSIBLE_STACK"     -> ImpossibleStack(c)
    [] r = "INV_DEBUG_ITEM"           -> DebugItem(c)
    [] r = "PAL_ILLEGAL_STATS"        -> IllegalPalStats(c)
    [] r = "PAL_IMPOSSIBLE_PASSIVES"  -> ImpossiblePassives(c)
    [] r = "PAL_DUPLICATE_UUID"       -> DuplicatePalUUID(c)
    [] r = "TECH_BEYOND_LEVEL"        -> TechBeyondLevel(c)
    [] r = "STAT_EXCEEDING_CAP"       -> StatsExceedingCap(c)
    [] r = "GUILD_ABNORMAL_PAL_COUNT" -> AbnormalBasePalCount(c)

\* severityToScore of the rule's severity: critical, high or medium.
Impact(r) ==
  CASE r \in {"INV_DEBUG_ITEM", "PAL_DUPLICATE_UUID"} -> 50
    [] r \in {"INV_LOW_LEVEL_ENDGAME", "INV_IMPOSSIBLE_STACK", "PAL_ILLEGAL_STATS",
              "STAT_EXCEEDING_CAP"} -> 30
    [] r \in {"PAL_IMPOSSIBLE_PASSIVES", "TECH_BEYOND_LEVEL",
              "GUILD_ABNORMAL_PAL_COUNT"} -> 15
=============================================================================
