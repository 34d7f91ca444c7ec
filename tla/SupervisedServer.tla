-------------------------- MODULE SupervisedServer --------------------------
(***************************************************************************)
(* What a process monitor promises: at most one server is alive, each is   *)
(* launched when none is, and the state shown to the user is Stopped or    *)
(* Crashed only when the server is gone.  A forfeited promise binds no     *)
(* more.                                                                   *)
(***************************************************************************)
CONSTANT Pids

VARIABLES
  live,      \* the servers alive: empty or a singleton
  retired,   \* the servers that were alive once
  shown,     \* the state displayed
  forfeited  \* the promise no longer binds

vars == <<live, retired, shown, forfeited>>

Gone == {"Stopped", "Crashed"}

Init ==
  /\ live = {}
  /\ retired = {}
  /\ shown = "Stopped"
  /\ forfeited = FALSE

Launch(p) ==
  /\ live = {} /\ p \notin retired
  /\ shown = "Starting"
  /\ live' = {p}
  /\ UNCHANGED <<retired, shown>>

End ==
  /\ live # {}
  /\ live' = {}
  /\ retired' = retired \cup live
  /\ UNCHANGED shown

Show ==
  /\ shown' \in {"Starting", "Running", "Stopping"} \cup Gone
  /\ shown' \in Gone \cup {"Starting"} => live = {}
  /\ UNCHANGED <<live, retired>>

Next ==
  \/ forfeited' = TRUE
  \/ /\ forfeited' = FALSE
     /\ Show \/ End \/ \E p \in Pids : Launch(p)

Spec == Init /\ [][Next]_vars
=============================================================================
