--------------------------- MODULE Shutdown_proofs ---------------------------
(***************************************************************************)
(* Theorems about Shutdown, for any number of refreshes, scans and restart *)
(* threads.  Whichever way the program ends, the main thread goes through  *)
(* one of two plans; what is dead, closed and joined follows from how far  *)
(* it has come.                                                            *)
(***************************************************************************)
EXTENDS Shutdown, Integers, SequenceTheorems, TLAPS

\* Application's members in the order of their destruction.
Order == Reverse(Declared)

Steps == [op : {"stop", "close", "destroy"}, part : Parts]

\* What the main thread has to do after run() has returned, or thrown.
Plans == {ShutdownSteps \o Destructors, Destructors}

\* The state after the first k steps of a plan.
Reached(plan, k) ==
  /\ todo = SubSeq(plan, k + 1, Len(plan))
  /\ dead = {plan[i].part : i \in {j \in 1..k : plan[j].op = "destroy"}}
  /\ open = (\A i \in 1..k : plan[i].op # "stop" => plan[i].part # "database")
  /\ \A i \in 1..k : plan[i].op # "close" => \A t \in Joins(plan[i].part) : at[t] = "off"

Progress ==
  IF phase = "run"
    THEN todo = <<>> /\ dead = {} /\ open = TRUE
    ELSE \E plan \in Plans : \E k \in 0..Len(plan) :
           Reached(plan, k) /\ (phase = "gone" => k = Len(plan))

ShutdownInv ==
  /\ phase \in {"run", "leaving", "gone"}
  /\ at \in [Threads -> {"off", "waiting", "working"}]
  /\ asked \subseteq Threads
  /\ Progress
-----------------------------------------------------------------------------
(* The plans.                                                              *)

LEMMA OrderIs ==
  Order = <<"restServer", "uiManager", "scanEngine", "processMonitor", "backupManager",
            "serverManager", "parser", "net", "eventBus", "threadPool", "logger",
            "database", "config">>
  BY DEF Order, Declared, Reverse

LEMMA PartsAre ==
  Parts = {"restServer", "uiManager", "scanEngine", "processMonitor", "backupManager",
           "serverManager", "parser", "net", "eventBus", "threadPool", "logger",
           "database", "config"}
  BY DEF Parts, Declared, ToSet

LEMMA DestructorsAre ==
  /\ Destructors \in Seq(Steps) /\ Len(Destructors) = 13
  /\ \A i \in 1..13 : Destructors[i] = Step("destroy", Order[i])
<1>1. DOMAIN Declared = 1..13
  BY DEF Declared
<1>2. Destructors = [i \in 1..13 |-> Step("destroy", Order[i])]
  BY <1>1 DEF Destructors, Order
<1>3. \A i \in 1..13 : Order[i] \in Parts
  BY OrderIs, PartsAre
<1>4. \A i \in 1..13 : Step("destroy", Order[i]) \in Steps
  BY <1>3 DEF Step, Steps
<1> QED
  BY <1>2, <1>4

LEMMA ShutdownStepsAre ==
  /\ ShutdownSteps \in Seq(Steps) /\ Len(ShutdownSteps) = 6
  /\ \A i \in 1..6 : ShutdownSteps[i].op # "destroy"
<1>1. {"restServer", "backupManager", "scanEngine", "parser", "processMonitor", "database"}
        \subseteq Parts
  BY PartsAre
<1> QED
  BY <1>1 DEF ShutdownSteps, Step, Steps

LEMMA PlansAre ==
  ASSUME NEW plan \in Plans
  PROVE  /\ plan \in Seq(Steps) /\ Len(plan) \in Nat
         /\ \A i \in 1..Len(plan) : plan[i] \in Steps
<1>1. plan \in Seq(Steps)
  BY DestructorsAre, ShutdownStepsAre, ConcatProperties DEF Plans
<1> QED
  BY <1>1, LenProperties, ElementOfSeq

\* Nothing but the database is closed.
LEMMA ClosesDatabase ==
  ASSUME NEW plan \in Plans, NEW i \in 1..Len(plan), plan[i].op = "close"
  PROVE  plan[i].part = "database"
<1>1. \A j \in 1..13 : Destructors[j].op # "close"
  <2>1. \A p : Step("destroy", p).op = "destroy"
    BY DEF Step
  <2> QED
    BY <2>1, DestructorsAre
<1>2. \A j \in 1..6 : ShutdownSteps[j].op = "close" => ShutdownSteps[j].part = "database"
  BY DEF ShutdownSteps, Step
<1>3. CASE plan = Destructors
  BY <1>1, <1>3, DestructorsAre
<1>4. CASE plan = ShutdownSteps \o Destructors
  <2>1. /\ Len(plan) = 19
        /\ \A j \in 1..19 : plan[j] = IF j <= 6 THEN ShutdownSteps[j] ELSE Destructors[j - 6]
    <3>1. /\ Len(plan) = Len(ShutdownSteps) + Len(Destructors)
          /\ \A j \in 1..(Len(ShutdownSteps) + Len(Destructors)) :
               plan[j] = IF j <= Len(ShutdownSteps) THEN ShutdownSteps[j]
                         ELSE Destructors[j - Len(ShutdownSteps)]
      BY <1>4, ConcatProperties, DestructorsAre, ShutdownStepsAre
    <3> QED
      BY <3>1, DestructorsAre, ShutdownStepsAre
  <2> QED
    BY <1>1, <1>2, <2>1
<1> QED
  BY <1>3, <1>4 DEF Plans

LEMMA JoinsAre == \A p : Joins(p) \subseteq Loops \cup {"countdown"} \cup Tasks
  BY DEF Joins, Loops

\* What is left of a plan begins with its next step.
LEMMA PlanGoesOn ==
  ASSUME NEW plan \in Plans, NEW k \in 0..Len(plan), todo = SubSeq(plan, k + 1, Len(plan))
  PROVE  /\ todo # <<>> => /\ k + 1 \in 1..Len(plan)
                           /\ Head(todo) = plan[k + 1]
                           /\ Tail(todo) = SubSeq(plan, k + 2, Len(plan))
         /\ todo = <<>> => k = Len(plan)
<1> plan \in Seq(Steps) /\ Len(plan) \in Nat
  BY PlansAre
<1>1. CASE k = Len(plan)
  <2>1. todo = <<>>
    BY <1>1, SubSeqEmpty
  <2> QED
    BY <1>1, <2>1
<1>2. CASE k < Len(plan)
  <2>1. /\ Head(todo) = plan[k + 1]
        /\ Tail(todo) = SubSeq(plan, k + 1 + 1, Len(plan))
    BY <1>2, HeadTailOfSubSeq
  <2>2. \A i \in (k + 1)..Len(plan) : plan[i] \in Steps
    BY PlansAre
  <2>3. Len(todo) = Len(plan) - (k + 1) + 1
    BY <1>2, <2>2, SubSeqProperties
  <2>4. Len(todo) # 0
    BY <1>2, <2>3
  <2>5. Len(<<>>) = 0
    OBVIOUS
  <2>6. todo # <<>>
    BY <2>4, <2>5
  <2> QED
    BY <1>2, <2>1, <2>6
<1> QED
  BY <1>1, <1>2
-----------------------------------------------------------------------------
(* The invariant.                                                          *)

\* A thread that has been joined stays off: only the interface starts threads, but for
\* the monitor's detached ones, which nobody joins.
LEMMA JoinedStayOff ==
  ASSUME ShutdownInv, [Next]_vars, phase # "run", NEW p, NEW t \in Joins(p), at[t] = "off"
  PROVE  at'[t] = "off"
<1> t \in Threads /\ t \notin Restarters
  BY JoinsAre, NamesAssumption DEF Threads
<1> at \in [Threads -> {"off", "waiting", "working"}]
  BY DEF ShutdownInv
<1>1. ASSUME NEW u \in Threads, Begin(u) \/ Finish(u) \/ Leave(u)
      PROVE  at'[t] = "off"
  BY <1>1 DEF Begin, Finish, Leave, Become
<1>2. ASSUME NEW r \in Restarters, SpawnRestart(r)
      PROVE  at'[t] = "off"
  BY <1>2 DEF SpawnRestart, Become
<1>3. CASE MainStep \/ UNCHANGED vars
  BY <1>3 DEF MainStep, AskToStop, Joined, CloseDatabase, Exit, vars
<1>4. ~ (StartCountdown \/ (\E x \in Tasks : Enqueue(x)) \/ RunReturns \/ RunThrows)
  BY DEF StartCountdown, Enqueue, RunReturns, RunThrows
<1> QED
  BY <1>1, <1>2, <1>3, <1>4 DEF Next

\* A step of the main thread that is done takes it one step further in its plan.
LEMMA NextReached ==
  ASSUME NEW plan \in Plans, NEW k \in 0..Len(plan), Reached(plan, k), todo # <<>>,
         ShutdownInv, [Next]_vars, phase # "run",
         todo' = Tail(todo),
         dead' = IF Doing.op = "destroy" THEN dead \cup {Doing.part} ELSE dead,
         open' = (open /\ (Doing.op # "stop" => Doing.part # "database")),
         Doing.op # "close" => \A t \in Joins(Doing.part) : at[t] = "off"
  PROVE  k + 1 \in 0..Len(plan) /\ Reached(plan, k + 1)'
<1>1. /\ k + 1 \in 1..Len(plan) /\ Len(plan) \in Nat
      /\ Doing = plan[k + 1]
      /\ todo' = SubSeq(plan, k + 1 + 1, Len(plan))
  BY PlanGoesOn, PlansAre DEF Reached, Doing
<1>2. 1..(k + 1) = 1..k \cup {k + 1}
  BY <1>1
<1>3. dead' = {plan[i].part : i \in {j \in 1..(k + 1) : plan[j].op = "destroy"}}
  BY <1>1, <1>2 DEF Reached
<1>4. open' = (\A i \in 1..(k + 1) : plan[i].op # "stop" => plan[i].part # "database")
  BY <1>1, <1>2 DEF Reached
<1>5. ASSUME NEW i \in 1..(k + 1), plan[i].op # "close", NEW t \in Joins(plan[i].part)
      PROVE  at'[t] = "off"
  <2>1. at[t] = "off"
    BY <1>1, <1>2, <1>5 DEF Reached
  <2> QED
    BY <2>1, <1>5, JoinedStayOff
<1>6. Reached(plan, k + 1)'
  BY <1>1, <1>3, <1>4, <1>5 DEF Reached
<1> QED
  BY <1>1, <1>6

LEMMA ShutdownInitial == Init => ShutdownInv
  BY DEF Init, ShutdownInv, Progress

LEMMA ShutdownStep == ShutdownInv /\ [Next]_vars => ShutdownInv'
<1> SUFFICES ASSUME ShutdownInv, [Next]_vars
             PROVE  ShutdownInv'
  OBVIOUS
<1>1. /\ phase' \in {"run", "leaving", "gone"}
      /\ at' \in [Threads -> {"off", "waiting", "working"}]
      /\ asked' \subseteq Threads
  <2> USE DEF ShutdownInv, Become
  <2>1. CASE StartCountdown \/ (\E x \in Tasks : Enqueue(x)) \/ RunReturns \/ RunThrows
    BY <2>1 DEF StartCountdown, Enqueue, RunReturns, RunThrows
  <2>2. CASE AskToStop
    BY <2>2, JoinsAre DEF AskToStop, Threads
  <2>3. CASE Joined \/ CloseDatabase \/ Exit
    BY <2>3 DEF Joined, CloseDatabase, Exit
  <2>4. ASSUME NEW t \in Threads, Begin(t) \/ Finish(t) \/ Leave(t)
        PROVE  <1>1!1 /\ <1>1!2 /\ <1>1!3
    BY <2>4 DEF Begin, Finish, Leave
  <2>5. ASSUME NEW r \in Restarters, SpawnRestart(r)
        PROVE  <1>1!1 /\ <1>1!2 /\ <1>1!3
    BY <2>5 DEF SpawnRestart
  <2>6. CASE UNCHANGED vars
    BY <2>6 DEF vars
  <2> QED
    BY <2>1, <2>2, <2>3, <2>4, <2>5, <2>6 DEF Next, MainStep
<1>2. Progress'
  <2>1. CASE phase' = "run"
    <3>1. phase = "run" /\ UNCHANGED <<todo, dead, open>>
      BY <2>1 DEF Next, StartCountdown, Enqueue, RunReturns, RunThrows, MainStep, AskToStop,
                  Joined, CloseDatabase, Exit, Leaving, Begin, Finish, Leave, SpawnRestart,
                  vars, ShutdownInv
    <3> QED
      BY <2>1, <3>1 DEF ShutdownInv, Progress
  <2>2. CASE RunReturns \/ RunThrows
    <3>1. PICK plan \in Plans : todo' = plan
      BY <2>2 DEF RunReturns, RunThrows, Plans
    <3>2. dead' = {} /\ open' = TRUE /\ phase' = "leaving"
      BY <2>2 DEF RunReturns, RunThrows, ShutdownInv, Progress
    <3>3. todo' = SubSeq(plan, 0 + 1, Len(plan)) /\ 0 \in 0..Len(plan)
      BY <3>1, PlansAre, SubSeqFull
    <3>4. Reached(plan, 0)'
      BY <3>2, <3>3 DEF Reached
    <3> QED
      BY <3>2, <3>3, <3>4 DEF Progress
  <2>3. CASE phase # "run"
    <3>0. PICK plan \in Plans : \E k \in 0..Len(plan) :
            Reached(plan, k) /\ (phase = "gone" => k = Len(plan))
      BY <2>3 DEF ShutdownInv, Progress
    <3>1. PICK k \in 0..Len(plan) : Reached(plan, k) /\ (phase = "gone" => k = Len(plan))
      BY <3>0
    <3>2. phase' # "run"
      BY <2>3 DEF Next, StartCountdown, Enqueue, RunReturns, RunThrows, MainStep, AskToStop,
                  Joined, CloseDatabase, Exit, Begin, Finish, Leave, SpawnRestart, vars
    <3>3. CASE Joined \/ CloseDatabase
      <4>1. todo # <<>> /\ todo' = Tail(todo) /\ phase' = phase /\ phase = "leaving"
        BY <3>3 DEF Joined, CloseDatabase, Leaving
      <4>2. Doing = plan[k + 1] /\ k + 1 \in 1..Len(plan)
        BY <3>1, <4>1, PlanGoesOn DEF Reached, Doing
      <4>3. Doing \in Steps /\ (Doing.op = "close" => Doing.part = "database")
        BY <4>2, PlansAre, ClosesDatabase
      <4>4. /\ dead' = IF Doing.op = "destroy" THEN dead \cup {Doing.part} ELSE dead
            /\ open' = (open /\ (Doing.op # "stop" => Doing.part # "database"))
            /\ Doing.op # "close" => \A t \in Joins(Doing.part) : at[t] = "off"
        <5>1. CASE Joined
          BY <4>3, <5>1 DEF Joined, Step, Steps
        <5>2. CASE CloseDatabase
          BY <4>3, <5>2 DEF CloseDatabase
        <5> QED
          BY <3>3, <5>1, <5>2
      <4>5. k + 1 \in 0..Len(plan) /\ Reached(plan, k + 1)'
        BY <2>3, <3>1, <4>1, <4>4, NextReached
      <4> QED
        BY <3>2, <4>1, <4>5 DEF Progress
    <3>4. CASE UNCHANGED <<todo, dead, open>>
      <4>1. \A p, t : t \in Joins(p) /\ at[t] = "off" => at'[t] = "off"
        BY <2>3, JoinedStayOff
      <4>2. Reached(plan, k)'
        BY <3>1, <3>4, <4>1 DEF Reached
      <4>3. phase' = "gone" => k = Len(plan)
        <5>1. CASE Exit
          BY <3>1, <5>1, PlanGoesOn DEF Exit, Reached
        <5>2. CASE ~ Exit
          BY <3>1, <5>2 DEF Next, StartCountdown, Enqueue, RunReturns, RunThrows, MainStep,
                            AskToStop, Joined, CloseDatabase, Begin, Finish, Leave,
                            SpawnRestart, vars
        <5> QED
          BY <5>1, <5>2
      <4> QED
        BY <3>1, <3>2, <4>2, <4>3 DEF Progress
    <3> QED
      BY <2>3, <3>3, <3>4
         DEF Next, StartCountdown, Enqueue, RunReturns, RunThrows, MainStep, AskToStop, Exit,
             Begin, Finish, Leave, SpawnRestart, vars
  <2> QED
    BY <2>1, <2>2, <2>3
       DEF Next, StartCountdown, Enqueue, MainStep, AskToStop, Joined, CloseDatabase, Exit,
           Leaving, Begin, Finish, Leave, SpawnRestart, vars, ShutdownInv
<1> QED
  BY <1>1, <1>2 DEF ShutdownInv

LEMMA ShutdownInductive == Spec => []ShutdownInv
  BY ShutdownInitial, ShutdownStep, PTL DEF Spec
-----------------------------------------------------------------------------
(* What is dead, closed and joined.                                        *)

\* The two plans, step by step.
LEMMA PlansStepByStep ==
  ASSUME NEW plan \in Plans
  PROVE  \/ /\ plan = Destructors /\ Len(plan) = 13
            /\ \A i \in 1..13 : plan[i] = Step("destroy", Order[i])
         \/ /\ Len(plan) = 19
            /\ \A i \in 1..6 : plan[i] = ShutdownSteps[i]
            /\ \A i \in 1..13 : plan[i + 6] = Step("destroy", Order[i])
<1>1. CASE plan = Destructors
  BY <1>1, DestructorsAre
<1>2. CASE plan = ShutdownSteps \o Destructors
  <2>1. /\ Len(plan) = Len(ShutdownSteps) + Len(Destructors)
        /\ \A j \in 1..(Len(ShutdownSteps) + Len(Destructors)) :
             plan[j] = IF j <= Len(ShutdownSteps) THEN ShutdownSteps[j]
                       ELSE Destructors[j - Len(ShutdownSteps)]
    BY <1>2, ConcatProperties, DestructorsAre, ShutdownStepsAre
  <2>2. /\ Len(plan) = 19
        /\ \A j \in 1..19 : plan[j] = IF j <= 6 THEN ShutdownSteps[j] ELSE Destructors[j - 6]
    BY <2>1, DestructorsAre, ShutdownStepsAre
  <2>3. \A i \in 1..13 : plan[i + 6] = Destructors[i]
    BY <2>2
  <2> QED
    BY <2>2, <2>3, DestructorsAre
<1> QED
  BY <1>1, <1>2 DEF Plans

\* Parts die in the order of their destruction.
LEMMA DeadInOrder ==
  ASSUME ShutdownInv
  PROVE  \E n \in 0..13 : dead = {Order[j] : j \in 1..n}
<1>1. CASE phase = "run"
  <2>1. dead = {Order[j] : j \in 1..0}
    BY <1>1 DEF ShutdownInv, Progress
  <2> QED
    BY <2>1
<1>2. CASE phase # "run"
  <2>1. PICK plan \in Plans : \E k \in 0..Len(plan) : Reached(plan, k)
    BY <1>2 DEF ShutdownInv, Progress
  <2>2. PICK k \in 0..Len(plan) : Reached(plan, k)
    BY <2>1
  <2>3. dead = {plan[i].part : i \in {j \in 1..k : plan[j].op = "destroy"}}
    BY <2>2 DEF Reached
  <2>4. CASE /\ plan = Destructors /\ Len(plan) = 13
             /\ \A i \in 1..13 : plan[i] = Step("destroy", Order[i])
    <3>1. \A i \in 1..k : plan[i].op = "destroy" /\ plan[i].part = Order[i]
      BY <2>4 DEF Step
    <3>2. dead = {Order[j] : j \in 1..k}
      BY <2>3, <3>1
    <3> QED
      BY <2>4, <3>2
  <2>5. CASE /\ Len(plan) = 19
             /\ \A i \in 1..6 : plan[i] = ShutdownSteps[i]
             /\ \A i \in 1..13 : plan[i + 6] = Step("destroy", Order[i])
    <3>1. \A i \in 1..13 : plan[i + 6].op = "destroy" /\ plan[i + 6].part = Order[i]
      BY <2>5 DEF Step
    <3>2. \A i \in 1..6 : plan[i].op # "destroy"
      BY <2>5, ShutdownStepsAre
    <3>3. CASE k <= 6
      <4>1. dead = {Order[j] : j \in 1..0}
        BY <2>3, <3>2, <3>3
      <4> QED
        BY <4>1
    <3>4. CASE k > 6
      <4>1. k - 6 \in 1..13
        BY <2>5, <3>4
      <4>2. ASSUME NEW p \in dead PROVE p \in {Order[j] : j \in 1..(k - 6)}
        <5>1. PICK i \in 1..k : plan[i].op = "destroy" /\ p = plan[i].part
          BY <2>3, <4>2
        <5>2. i > 6 /\ i - 6 \in 1..(k - 6) /\ i = (i - 6) + 6
          BY <3>2, <5>1
        <5>3. i - 6 \in 1..13
          BY <4>1, <5>2
        <5>4. plan[(i - 6) + 6].part = Order[i - 6]
          BY <3>1, <5>3
        <5>5. p = Order[i - 6]
          BY <5>1, <5>2, <5>4
        <5> QED
          BY <5>2, <5>5
      <4>3. ASSUME NEW j \in 1..(k - 6) PROVE Order[j] \in dead
        <5>1. j + 6 \in 1..k /\ j \in 1..13
          BY <4>1
        <5> QED
          BY <2>3, <3>1, <5>1
      <4>4. dead = {Order[j] : j \in 1..(k - 6)}
        BY <4>2, <4>3
      <4>5. k - 6 \in 0..13
        BY <4>1
      <4> QED
        BY <4>4, <4>5
    <3> QED
      BY <3>3, <3>4, <2>5
  <2> QED
    BY <2>4, <2>5, PlansStepByStep
<1> QED
  BY <1>1, <1>2

\* So do not the parts after one that is alive.
LEMMA AliveAfter ==
  ASSUME ShutdownInv, NEW i \in 1..13, Order[i] \notin dead, NEW j \in i..13
  PROVE  Order[j] \notin dead
<1>1. PICK n \in 0..13 : dead = {Order[m] : m \in 1..n}
  BY DeadInOrder
<1>2. n < i
  BY <1>1
<1>3. \A m \in 1..13 : Order[m] = Order[j] => m = j
  BY OrderIs
<1> QED
  BY <1>1, <1>2, <1>3

\* A part whose destructor waits for a thread is alive while the thread is on.
LEMMA OwnerIsAlive ==
  ASSUME ShutdownInv, NEW p, NEW t \in Joins(p), at[t] # "off"
  PROVE  p \notin dead
<1>1. CASE phase = "run"
  BY <1>1 DEF ShutdownInv, Progress
<1>2. CASE phase # "run"
  <2>1. PICK plan \in Plans : \E k \in 0..Len(plan) : Reached(plan, k)
    BY <1>2 DEF ShutdownInv, Progress
  <2>2. PICK k \in 0..Len(plan) : Reached(plan, k)
    BY <2>1
  <2>3. ASSUME p \in dead PROVE FALSE
    <3>1. PICK i \in 1..k : plan[i].op = "destroy" /\ p = plan[i].part
      BY <2>2, <2>3 DEF Reached
    <3>2. \A u \in Joins(plan[i].part) : at[u] = "off"
      BY <2>2, <3>1 DEF Reached
    <3> QED
      BY <3>1, <3>2
  <2> QED
    BY <2>3
<1> QED
  BY <1>1, <1>2

LEMMA OwnersAre ==
  /\ "rest" \in Joins("restServer") /\ "backup" \in Joins("backupManager")
  /\ "scan" \in Joins("scanEngine") /\ "sync" \in Joins("parser")
  /\ "monitor" \in Joins("processMonitor") /\ "countdown" \in Joins("serverManager")
  /\ Joins("threadPool") = Tasks
  BY DEF Joins

LEMMA UsesAre ==
  /\ Uses("rest") = {"restServer", "serverManager", "parser", "scanEngine", "database",
                     "logger"}
  /\ Uses("backup") = {"backupManager", "config", "logger", "database"}
  /\ Uses("scan") = UsesOfScan \cup {"config", "net"}
  /\ Uses("sync") = {"parser"}
  /\ Uses("monitor") = {"processMonitor", "serverManager", "eventBus", "config"}
  /\ Uses("countdown") = {"serverManager", "net", "processMonitor"}
<1>1. ASSUME NEW t \in Loops \cup {"countdown"} PROVE t \notin Tasks \cup Restarters
  BY NamesAssumption
<1> QED
  BY <1>1 DEF Uses, Loops, Tasks

\* The database is closed only once the threads that record in it are joined.
LEMMA ClosedAfterJoins ==
  ASSUME ShutdownInv, ~ open
  PROVE  at["rest"] = "off" /\ at["backup"] = "off" /\ at["scan"] = "off"
<1>1. phase # "run"
  BY DEF ShutdownInv, Progress
<1>2. PICK plan \in Plans : \E k \in 0..Len(plan) : Reached(plan, k)
  BY <1>1 DEF ShutdownInv, Progress
<1>3. PICK k \in 0..Len(plan) : Reached(plan, k)
  BY <1>2
<1>4. PICK i \in 1..k : plan[i].op # "stop" /\ plan[i].part = "database"
  BY <1>3 DEF Reached
<1>5. \A j \in 1..k : plan[j].op # "close" => \A t \in Joins(plan[j].part) : at[t] = "off"
  BY <1>3 DEF Reached
<1>6. CASE /\ plan = Destructors /\ Len(plan) = 13
           /\ \A j \in 1..13 : plan[j] = Step("destroy", Order[j])
  <2>1. \A j \in 1..13 : plan[j].op = "destroy" /\ plan[j].part = Order[j]
    BY <1>6 DEF Step
  <2>2. i = 12
    BY <1>4, <1>6, <2>1, OrderIs
  <2>3. {1, 3, 5} \subseteq 1..k
    BY <2>2, <1>6
  <2>4. Order[1] = "restServer" /\ Order[3] = "scanEngine" /\ Order[5] = "backupManager"
    BY OrderIs
  <2>5. \A j \in {1, 3, 5} : \A t \in Joins(Order[j]) : at[t] = "off"
    <3>1. \A j \in {1, 3, 5} : j \in 1..k /\ j \in 1..13
      BY <2>3
    <3>2. \A j \in {1, 3, 5} : plan[j].op # "close" /\ plan[j].part = Order[j]
      BY <2>1, <3>1
    <3> SUFFICES ASSUME NEW j \in {1, 3, 5} PROVE \A t \in Joins(Order[j]) : at[t] = "off"
      OBVIOUS
    <3>3. j \in 1..k /\ plan[j].op # "close" /\ plan[j].part = Order[j]
      BY <3>1, <3>2
    <3> QED
      BY <1>5, <3>3
  <2> QED
    BY <2>4, <2>5, OwnersAre
<1>7. CASE /\ Len(plan) = 19
           /\ \A j \in 1..6 : plan[j] = ShutdownSteps[j]
           /\ \A j \in 1..13 : plan[j + 6] = Step("destroy", Order[j])
  <2>1. /\ plan[1] = Step("stop", "restServer") /\ plan[2] = Step("stop", "backupManager")
        /\ plan[3] = Step("stop", "scanEngine") /\ plan[4] = Step("stop", "parser")
        /\ plan[5] = Step("stop", "processMonitor")
    BY <1>7 DEF ShutdownSteps
  <2>2. i \notin {1, 2, 3, 4, 5}
    BY <1>4, <2>1 DEF Step
  <2>3. {1, 2, 3} \subseteq 1..k
    BY <2>2, <1>7
  <2> QED
    BY <1>5, <2>1, <2>3, OwnersAre DEF Step
<1> QED
  BY <1>6, <1>7, PlansStepByStep
-----------------------------------------------------------------------------
(* The theorems.                                                           *)

\* The state has its type, what is left of a plan is a sequence of its steps, and a part
\* is destroyed only with every thread its destructor joins off.
THEOREM ShutdownTypes == Spec => []TypeOK
<1>1. ShutdownInv => TypeOK
  <2> SUFFICES ASSUME ShutdownInv PROVE TypeOK
    OBVIOUS
  <2>1. /\ phase \in {"run", "leaving", "gone"}
        /\ at \in [Threads -> {"off", "waiting", "working"}]
        /\ asked \subseteq Threads
    BY DEF ShutdownInv
  <2>2. \A p \in dead : \A t \in Joins(p) : at[t] = "off"
    BY OwnerIsAlive
  <2>3. dead \subseteq Parts
    <3>1. PICK n \in 0..13 : dead = {Order[m] : m \in 1..n}
      BY DeadInOrder
    <3>2. \A m \in 1..13 : Order[m] \in Parts
      BY OrderIs, PartsAre
    <3> QED
      BY <3>1, <3>2
  <2>4. /\ todo \in Seq(Steps) /\ open \in BOOLEAN
        /\ phase # "leaving" => todo = <<>>
    <3>1. CASE phase = "run"
      BY <3>1 DEF ShutdownInv, Progress
    <3>2. CASE phase # "run"
      <4>1. PICK plan \in Plans : \E k \in 0..Len(plan) :
              Reached(plan, k) /\ (phase = "gone" => k = Len(plan))
        BY <3>2 DEF ShutdownInv, Progress
      <4>2. PICK k \in 0..Len(plan) : Reached(plan, k) /\ (phase = "gone" => k = Len(plan))
        BY <4>1
      <4>3. plan \in Seq(Steps) /\ Len(plan) \in Nat
        BY PlansAre
      <4>4. \A i \in (k + 1)..Len(plan) : plan[i] \in Steps
        BY <4>3, PlansAre
      <4>5. todo \in Seq(Steps)
        BY <4>2, <4>3, <4>4, SubSeqProperties DEF Reached
      <4>6. phase = "gone" => todo = <<>>
        BY <4>2, <4>3, SubSeqEmpty DEF Reached
      <4> QED
        BY <2>1, <3>2, <4>2, <4>5, <4>6 DEF Reached
    <3> QED
      BY <3>1, <3>2
  <2> QED
    BY <2>1, <2>2, <2>3, <2>4 DEF TypeOK, Steps
<1> QED
  BY <1>1, ShutdownInductive, PTL

\* However the program ends, with however many tasks, none of the threads with a loop
\* outlives a part it uses.
THEOREM LoopsAreOutlived == Spec => []LoopsUseLiveParts
<1>1. ShutdownInv => LoopsUseLiveParts
  <2> SUFFICES ASSUME ShutdownInv, NEW t \in Loops, at[t] # "off", NEW p \in Uses(t)
               PROVE  p \notin dead
    BY DEF LoopsUseLiveParts
  <2>1. CASE t = "rest"
    <3>1. Order[1] \notin dead
      BY <2>1, OwnersAre, OwnerIsAlive, OrderIs
    <3>2. \E j \in 1..13 : p = Order[j]
      BY <2>1, OrderIs, UsesAre
    <3> QED
      BY <3>1, <3>2, AliveAfter
  <2>2. CASE t = "backup"
    <3>1. Order[5] \notin dead
      BY <2>2, OwnersAre, OwnerIsAlive, OrderIs
    <3>2. \E j \in 5..13 : p = Order[j]
      BY <2>2, OrderIs, UsesAre
    <3> QED
      BY <3>1, <3>2, AliveAfter
  <2>3. CASE t = "scan"
    <3>1. Order[3] \notin dead
      BY <2>3, OwnersAre, OwnerIsAlive, OrderIs
    <3>2. \E j \in 3..13 : p = Order[j]
      BY <2>3, OrderIs, UsesAre DEF UsesOfScan
    <3> QED
      BY <3>1, <3>2, AliveAfter
  <2>4. CASE t = "sync"
    <3>1. "parser" \notin dead
      BY <2>4, OwnersAre, OwnerIsAlive
    <3> QED
      BY <2>4, <3>1, UsesAre
  <2>5. CASE t = "monitor"
    <3>1. Order[4] \notin dead
      BY <2>5, OwnersAre, OwnerIsAlive, OrderIs
    <3>2. \E j \in 4..13 : p = Order[j]
      BY <2>5, OrderIs, UsesAre
    <3> QED
      BY <3>1, <3>2, AliveAfter
  <2> QED
    BY <2>1, <2>2, <2>3, <2>4, <2>5 DEF Loops
<1> QED
  BY <1>1, ShutdownInductive, PTL

\* A countdown outlives at most the process monitor, and a task of the pool neither the
\* pool nor what is declared before it.
THEOREM StragglersAreBounded == Spec => []StragglersBounded
<1>1. ShutdownInv => StragglersBounded
  <2> SUFFICES ASSUME ShutdownInv PROVE StragglersBounded
    OBVIOUS
  <2>1. ASSUME at["countdown"] # "off", NEW p \in Uses("countdown"), p # "processMonitor"
        PROVE  p \notin dead
    <3>1. Order[6] \notin dead
      BY <2>1, OwnersAre, OwnerIsAlive, OrderIs
    <3>2. p \in {"serverManager", "net"}
      BY <2>1, UsesAre
    <3>3. \E j \in 6..13 : p = Order[j]
      BY <3>2, OrderIs
    <3> QED
      BY <3>1, <3>3, AliveAfter
  <2>2. ASSUME NEW t \in Tasks, at[t] # "off",
               NEW p \in {"config", "database", "logger", "threadPool"}
        PROVE  p \notin dead
    <3>1. Order[10] \notin dead
      BY <2>2, OwnersAre, OwnerIsAlive, OrderIs
    <3>2. \E j \in 10..13 : p = Order[j]
      BY <2>2, OrderIs
    <3> QED
      BY <3>1, <3>2, AliveAfter
  <2> QED
    BY <2>1, <2>2 DEF StragglersBounded
<1> QED
  BY <1>1, ShutdownInductive, PTL

\* Nothing but a scan task of the interface works on a closed database.
THEOREM WritesAreKept == Spec => []WritesReachDatabase
<1>1. ShutdownInv => WritesReachDatabase
  <2> SUFFICES ASSUME ShutdownInv, NEW t \in Threads, at[t] = "working",
                      "database" \in Uses(t), ~ open, t \notin Scans
               PROVE  FALSE
    BY DEF WritesReachDatabase
  <2>1. t \notin {"rest", "backup", "scan"}
    BY ClosedAfterJoins
  <2>2. CASE t \in {"sync", "monitor", "countdown"}
    BY <2>2, NamesAssumption DEF Uses, Loops, Tasks
  <2>3. CASE t \in Refreshes
    BY <2>3, NamesAssumption DEF Uses, Loops, Tasks
  <2>4. CASE t \in Restarters
    BY <2>4, NamesAssumption DEF Uses, Loops, Tasks
  <2> QED
    BY <2>1, <2>2, <2>3, <2>4 DEF Threads, Tasks, Loops
<1> QED
  BY <1>1, ShutdownInductive, PTL
=============================================================================
