--------------------------- MODULE RconApplication ---------------------------
(***************************************************************************)
(* RconClient as Application uses it: PalDefenderRCON sends every command  *)
(* through sendCommand, and nothing calls PalDefenderRCON::connect, the    *)
(* one place that gives RconClient a host ("Test Connection" uses a client *)
(* of its own).                                                            *)
(***************************************************************************)
EXTENDS RconClient

AppNext ==
  \/ \E c \in Commands : SendCommand(c)
  \/ CallStep
  \/ ServerJudgesPassword \/ ServerExecutes \/ ServerCloses

AppSpec == Init /\ [][AppNext]_vars

\* "Actions: Dismiss / Warn / Kick / Ban (via RCON)" (src/README.md:94), "with
\* auto-reconnect" (line 100): a command issued without a session makes the client dial
\* the server; it is not refused on the spot.
CommandsAreAttempted ==
  [][\A c \in Commands : c \in issued' \ issued => call' # Idle]_vars
=============================================================================
