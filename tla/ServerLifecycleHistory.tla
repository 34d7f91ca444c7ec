----------------------- MODULE ServerLifecycleHistory -----------------------
(***************************************************************************)
(* ServerLifecycle with two history variables, to state what the settings  *)
(* page says of automatic restarts.                                        *)
(***************************************************************************)
EXTENDS ServerLifecycle

VARIABLES
  asked,   \* servers alive when the countdown thread posted the shutdown request
  streak   \* automatic restarts since the user last started the server

hvars == <<lvars, asked, streak>>

RestartSpawned == \E r \in Restarters : job[r] = "idle" /\ job'[r] = "sleep"
ShutdownPosted == job[Countdown] = "announce" /\ job'[Countdown] = "check"
UserStarted == pc[UI] = "idle" /\ pc'[UI] = "fork"

HInit == LInit /\ asked = {} /\ streak = 0

HNext ==
  /\ LNext
  /\ asked' = IF ShutdownPosted THEN asked \cup Up ELSE asked
  /\ streak' = IF UserStarted THEN 0
               ELSE IF RestartSpawned THEN streak + 1 ELSE streak

HSpec == HInit /\ [][HNext]_hvars

\* "Max restart attempts" (src/ui/UIManager.cpp:1342): no more automatic restarts
\* in a row than the configured maximum.
RestartCapRespected == streak <= MaxAttempts

\* "Auto-restart on crash" (src/ui/UIManager.cpp:1340): no automatic restart
\* answers the exit of a server that was asked to shut down.
RestartOnlyOnCrash == [][RestartSpawned => monPid \notin asked]_hvars
=============================================================================
