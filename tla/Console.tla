------------------------------ MODULE Console -------------------------------
(***************************************************************************)
(* The operator's console: UIManager's pages, their buttons and the three  *)
(* dialogs that ask before a shutdown, a kick or a ban.  Everything runs   *)
(* in the interface thread, at most one click a frame.  While a dialog is  *)
(* on the screen it is modal: menu, sidebar and page do not react.  The    *)
(* flags of the dialogs outlive the page that shows them, one shutdown     *)
(* flag serves two pages and the menu of all, and one target serves kick   *)
(* and ban.  The settings pages are in Settings, reports in ScanRecords.   *)
(***************************************************************************)
EXTENDS FiniteSets

CONSTANTS
  Uids,   \* players' identifiers, all but the empty one
  NoUid   \* the empty identifier

ASSUME UidAssumption == NoUid \notin Uids

VARIABLES
  page,    \* m_currentPanel; "none" when an exception has ended the program
  asking,  \* which of m_showShutdownConfirm, m_showKickConfirm, m_showBanConfirm hold
  target,  \* m_confirmTargetUid and m_confirmTargetName
  state,   \* ProcessMonitor's state: "Stopped" is Crashed too, "Changing" the other two
  sent,    \* the last call made for the operator: what, and about whom
  asked    \* history: what the operator has asked for and not yet answered

consoleVars == <<page, asking, target, state, sent, asked>>

-----------------------------------------------------------------------------
(* What the buttons call at once, page by page.                            *)

MenuButtons == {"start", "save", "backup"}
DashboardButtons ==
  {"save", "broadcast"} \cup (IF state = "Stopped" THEN {"start"} ELSE {})
GuildButtons == {"pdexportguilds"}
CommunicationButtons == {"broadcast", "pdalert", "pdsendmessage"}
ResearchButtons ==
  {"pdgivetechpoints", "pdgiveancienttechpoints", "pdunlocktech", "pdunlockalltech",
   "pdremovetech", "pdremovealltech", "pdgettechids", "pdgetskinids"}
SpawningButtons == {"pdgivepal", "pdgivepalegg", "pdspawnpal", "pdspawnpaltemplate"}
WorldButtons == {"pdsettime", "save", "pdreload"}
\* Restore and Delete are in the rows of a table that is never drawn: see PageThrows.
BackupButtons == {"backup"}
SecurityButtons == {"pdbanip", "pdunbanip"}
\* The scanner's table kicks and bans without asking.
ScannerButtons == {"scan", "pdkick", "pdban"}

Pages ==
  {"Dashboard", "Players", "Map", "Inventory", "Guilds", "Communication", "Research",
   "PalSpawning", "WorldControl", "Backups", "Analytics", "Security", "Scanner"}

Buttons ==
  CASE page = "Dashboard" -> DashboardButtons
    [] page = "Guilds" -> GuildButtons
    [] page = "Communication" -> CommunicationButtons
    [] page = "Research" -> ResearchButtons
    [] page = "PalSpawning" -> SpawningButtons
    [] page = "WorldControl" -> WorldButtons
    [] page = "Backups" -> BackupButtons
    [] page = "Security" -> SecurityButtons
    [] page = "Scanner" -> ScannerButtons
    [] OTHER -> {}

\* The commands that name a player; those about items, points and pals add more words.
PlayerCommands ==
  {"pdkick", "pdban", "pdgivetechpoints", "pdgiveancienttechpoints", "pdunlocktech",
   "pdunlockalltech", "pdremovetech", "pdremovealltech", "pdgivepal", "pdgivepalegg",
   "pdsendmessage"}

\* Only the message form looks whether the identifier is empty.
Named(call) ==
  CASE call = "pdsendmessage" -> Uids
    [] call \in {"pdkick", "pdban"} -> Uids   \* from the row of a report
    [] call \in PlayerCommands -> Uids \cup {NoUid}
    [] OTHER -> {NoUid}

-----------------------------------------------------------------------------
\* The dialogs each page draws, when their flag holds.
DialogsOf(p) ==
  IF p = "Players" THEN {"kick", "ban"}
  ELSE IF p \in {"Dashboard", "WorldControl"} THEN {"stop"} ELSE {}

Dialogs == asking \cap DialogsOf(page)
Reacts == page # "none" /\ Dialogs = {}

ConsoleInit ==
  /\ page = "Dashboard" /\ asking = {} /\ target = NoUid
  /\ state \in {"Running", "Stopped"}
  /\ sent = <<"nothing", NoUid>> /\ asked = {}

Visit(p) ==
  /\ Reacts /\ page' = p
  /\ UNCHANGED <<asking, target, state, sent, asked>>

\* "Stop Server" in the menu, whatever the page and the server's state.
MenuStop ==
  /\ Reacts
  /\ asking' = asking \cup {"stop"} /\ asked' = asked \cup {<<"stop", NoUid>>}
  /\ UNCHANGED <<page, target, state, sent>>

\* The Dashboard's Shutdown and World Control's Graceful Shutdown.
PageStop ==
  /\ Reacts
  /\ \/ page = "Dashboard" /\ state = "Running"
     \/ page = "WorldControl"
  /\ asking' = asking \cup {"stop"} /\ asked' = asked \cup {<<"stop", NoUid>>}
  /\ UNCHANGED <<page, target, state, sent>>

\* Kick or Ban in the row of a player, who is online as the frame's request told.
AskAbout(what, uid) ==
  /\ Reacts /\ page = "Players"
  /\ target' = uid
  /\ asking' = asking \cup {what} /\ asked' = asked \cup {<<what, uid>>}
  /\ UNCHANGED <<page, state, sent>>

About(what) == IF what = "stop" THEN NoUid ELSE target

\* What a confirmed dialog calls: kicks go over the REST interface, bans over RCON.
CallOf(what) ==
  CASE what = "kick" -> "kick"
    [] what = "ban" -> "pdban"
    [] what = "stop" -> IF page = "Dashboard" THEN "stopServer" ELSE "countdown"

\* Variant: the dialog closes without *open = false.
CloseKeepsFlag(what) ==
  /\ what \in Dialogs
  /\ asked' = asked \ {a \in asked : a[1] = what}
  /\ UNCHANGED <<page, asking, target, state>>

Close(what) ==
  /\ what \in Dialogs
  /\ asking' = asking \ {what}
  /\ asked' = asked \ {a \in asked : a[1] = what}
  /\ UNCHANGED <<page, target, state>>

Confirm(what) == Close(what) /\ sent' = <<CallOf(what), About(what)>>
Cancel(what) == Close(what) /\ UNCHANGED sent

Press(call, uid) ==
  /\ Reacts /\ call \in MenuButtons \cup Buttons /\ uid \in Named(call)
  /\ sent' = <<call, uid>>
  /\ UNCHANGED <<page, asking, target, state, asked>>

\* Two pages read a list in every frame: guilds, which throws on an answer of an
\* unexpected shape, and backups, which throws as soon as one is recorded.  Nothing
\* catches it below main.
PageThrows ==
  /\ page \in {"Guilds", "Backups"} /\ page' = "none"
  /\ UNCHANGED <<asking, target, state, sent, asked>>

StateChanges ==
  /\ state' \in {"Running", "Stopped", "Changing"} \ {state}
  /\ UNCHANGED <<page, asking, target, sent, asked>>

ConsoleNext ==
  \/ \E p \in Pages : Visit(p)
  \/ MenuStop \/ PageStop
  \/ \E uid \in Uids : AskAbout("kick", uid) \/ AskAbout("ban", uid)
  \/ \E what \in {"stop", "kick", "ban"} : Confirm(what) \/ Cancel(what)
  \/ \E call \in MenuButtons \cup Buttons : \E uid \in Named(call) : Press(call, uid)
  \/ PageThrows \/ StateChanges

ConsoleSpec == ConsoleInit /\ [][ConsoleNext]_consoleVars

-----------------------------------------------------------------------------
Calls == {"nothing", "stopServer", "countdown", "kick"} \cup MenuButtons \cup GuildButtons
  \cup {"broadcast"} \cup CommunicationButtons \cup ResearchButtons \cup SpawningButtons
  \cup WorldButtons \cup BackupButtons \cup SecurityButtons \cup ScannerButtons

ConsoleTypeOK ==
  /\ page \in Pages \cup {"none"} /\ asking \subseteq {"stop", "kick", "ban"}
  /\ target \in Uids \cup {NoUid} /\ state \in {"Running", "Stopped", "Changing"}
  /\ sent \in Calls \X (Uids \cup {NoUid})
  /\ asked \subseteq ({"stop", "kick", "ban"} \X (Uids \cup {NoUid}))

\* No two dialogs are on the screen together, on any page, and none of kick and ban
\* waits behind another page: the target they share is never replaced under one.
OneDialog ==
  /\ \A a, b \in Dialogs : a = b
  /\ asking \cap {"kick", "ban"} # {} => page = "Players"

\* What a dialog carries out is what the operator asked for and has not yet answered,
\* about the player he picked then: each request is carried out at most once, wherever
\* it was made and whichever pages he has visited in between.
AsAsked ==
  [][\A what \in {"stop", "kick", "ban"} : Confirm(what) =>
       <<what, sent'[2]>> \in asked]_consoleVars

ConsoleKept == []OneDialog /\ AsAsked
=============================================================================
