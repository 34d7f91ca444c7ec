----------------------------- MODULE FlagQueue ------------------------------
(***************************************************************************)
(* FlagQueue, the review queue of scan flags, and the score                *)
(* SuspicionScoreCalculator gives what is in it as days go by.  Every      *)
(* operation holds m_mutex from end to end, callbacks included, so one     *)
(* action is one call of any thread.  Scores are in thousandths of a       *)
(* point.  Neither class has a caller in the program yet.                  *)
(***************************************************************************)
EXTENDS Naturals, Sequences, FiniteSetsExt, SequencesExt

CONSTANTS
  Culprits,     \* playerUid of a flag
  ScanRules,    \* ruleId of a flag
  SeverityOf,   \* the severity each rule gives: 0 for Info to 4 for Critical
  Decay,        \* exp(-m_decayRate * age) in thousandths, at least 100, for each age
  MaxQueued,    \* bounds the flags ever queued
  MaxDay        \* bounds the calendar

ASSUME QueueAssumption ==
  /\ SeverityOf \in [ScanRules -> 0..4] /\ MaxQueued \in Nat /\ MaxDay \in Nat
  /\ Decay \in [0..MaxDay -> 100..1000]
  /\ \A a, b \in 0..MaxDay : a <= b => Decay[a] >= Decay[b]

VARIABLES
  queue,      \* m_queue
  announced,  \* history: what the callbacks were given, in order
  taken,      \* history: what dequeue returned, in order
  day         \* the time of the clock, in days

queueVars == <<queue, announced, taken, day>>

NewFlag(n, p, r) == [id |-> n, player |-> p, rule |-> r, at |-> day, dismissed |-> FALSE]
\* Flags of one player, as a scan delivers them.
Batches ==
  {[i \in 1..Len(rs) |-> NewFlag(Len(announced) + i, p, rs[i])] :
     p \in Culprits, rs \in {<<r>> : r \in ScanRules} \cup {<<r, q>> : r, q \in ScanRules}}

QueueInit == queue = <<>> /\ announced = <<>> /\ taken = <<>> /\ day = 0

-----------------------------------------------------------------------------
\* enqueue and enqueueMultiple: each flag is announced as it is added.
Enqueue(flags) ==
  /\ Len(announced) + Len(flags) <= MaxQueued
  /\ queue' = queue \o flags
  /\ announced' = announced \o [i \in DOMAIN flags |-> flags[i].id]
  /\ UNCHANGED <<taken, day>>

\* Variant: pop_back for pop_front.
DequeueLast ==
  /\ queue # <<>>
  /\ queue' = Front(queue) /\ taken' = Append(taken, Last(queue).id)
  /\ UNCHANGED <<announced, day>>

Dequeue ==
  /\ queue # <<>>
  /\ queue' = Tail(queue) /\ taken' = Append(taken, Head(queue).id)
  /\ UNCHANGED <<announced, day>>

Clear == queue' = <<>> /\ UNCHANGED <<announced, taken, day>>

DismissWhere(Test(_)) ==
  /\ queue' = [i \in DOMAIN queue |->
                 IF Test(queue[i]) THEN [queue[i] EXCEPT !.dismissed = TRUE] ELSE queue[i]]
  /\ UNCHANGED <<announced, taken, day>>

DismissAll(p) == DismissWhere(LAMBDA f : f.player = p)
DismissByRule(r) == DismissWhere(LAMBDA f : f.rule = r)

DayPasses ==
  /\ day < MaxDay /\ day' = day + 1
  /\ UNCHANGED <<queue, announced, taken>>

QueueNext ==
  \/ \E flags \in Batches : Enqueue(flags)
  \/ Dequeue \/ Clear \/ DayPasses
  \/ \E p \in Culprits : DismissAll(p)
  \/ \E r \in ScanRules : DismissByRule(r)

QueueSpec == QueueInit /\ [][QueueNext]_queueVars

-----------------------------------------------------------------------------
(* SuspicionScoreCalculator, over the flags in the queue.                  *)

Weights == <<1, 5, 15, 30, 50>>
Weight(f) == Weights[SeverityOf[f.rule] + 1]
Undismissed == {i \in DOMAIN queue : ~queue[i].dismissed}
Total(Points(_)) == SumFunctionOnSet([i \in Undismissed |-> Points(queue[i])], Undismissed)

\* calculateScore
PlainScore == Total(LAMBDA f : 1000 * Weight(f))

\* The newest day's flags count half as much again.
RecencyBoost(f) == IF f.at + 1 >= day THEN 3 ELSE 2

\* calculateScoreWithDecay
ScoreWithDecay == Total(LAMBDA f : (Weight(f) * Decay[day - f.at] * RecencyBoost(f)) \div 2)

\* getBreakdown's loop: the rule that set the highest severity so far, and that severity.
HighestSeverityRule ==
  LET best[n \in 0..Len(queue)] ==
        IF n = 0 THEN <<0, "">>
        ELSE IF n \in Undismissed /\ SeverityOf[queue[n].rule] > best[n - 1][1]
               THEN <<SeverityOf[queue[n].rule], queue[n].rule>> ELSE best[n - 1]
  IN  best[Len(queue)][2]

\* getRecommendedAction's steps, from CLEAN to BAN.
Recommended(score) == Cardinality({t \in {5, 20, 50, 100, 150} : score >= 1000 * t})

-----------------------------------------------------------------------------
QueueTypeOK ==
  /\ queue \in Seq([id : 1..MaxQueued, player : Culprits, rule : ScanRules, at : 0..MaxDay,
                    dismissed : BOOLEAN])
  /\ taken \in Seq(1..MaxQueued) /\ announced \in Seq(1..MaxQueued) /\ day \in 0..MaxDay

\* Flags leave in the order in which they were announced, each at most once, whichever
\* were dismissed or cleared in between.
TakenInOrder ==
  LET order == taken \o [i \in DOMAIN queue |-> queue[i].id] IN
  \A i, j \in DOMAIN order : i < j => order[i] < order[j]

\* A player's standing only gets worse by a new flag: days, reviews and dismissals never
\* raise the decayed score, however boosts run out and decay reaches its floor.
ScoreOnlyRisesByFlags ==
  [][announced' = announced => /\ ScoreWithDecay' <= ScoreWithDecay
                               /\ Recommended(ScoreWithDecay') <= Recommended(ScoreWithDecay)]_queueVars

\* Decay and boost leave a tenth to one and a half times the plain score, and the rule
\* reported as the most severe is the first of those undismissed that are, if any is
\* above Info.
ScoreIsBounded ==
  /\ PlainScore <= 10 * ScoreWithDecay /\ 2 * ScoreWithDecay <= 3 * PlainScore
  /\ LET severity(i) == SeverityOf[queue[i].rule]
         worst == {i \in Undismissed : severity(i) > 0 /\
                     \A j \in Undismissed : severity(j) <= severity(i)}
     IN  IF worst = {} THEN HighestSeverityRule = ""
         ELSE \E i \in worst : /\ HighestSeverityRule = queue[i].rule
                               /\ \A j \in worst : i <= j

QueueKept == [](TakenInOrder /\ ScoreIsBounded) /\ ScoreOnlyRisesByFlags
=============================================================================
