----------------------------- MODULE PlayerPanel -----------------------------
(***************************************************************************)
(* PlayerPanel: the players' lists, their rows' buttons and popups, the    *)
(* detail panel and five modal dialogs that share one target.  The class   *)
(* is built into the program, which does not instantiate it yet; here it   *)
(* is rendered frame after frame, with at most one click a frame.  The     *)
(* rows come from lists read every two seconds: a player may have left,    *)
(* and his row vanished, while a popup or a dialog about him is open.      *)
(***************************************************************************)
EXTENDS FiniteSets

CONSTANTS
  PlayerIds,  \* players' identifiers, all but the empty one
  NoPlayer    \* the empty identifier

VARIABLES
  online,       \* who is on the server
  listed,        \* m_cachedOnline; m_cachedAll has everybody
  tab,          \* the tab selected
  selected,     \* m_selectedPlayerUid, NoPlayer while m_showPlayerDetail is false
  popup,        \* the row popup that is open, and about whom
  dialogs,      \* which of the m_show...Dialog flags hold
  panelTarget,  \* m_targetUid and m_targetName
  alsoIpBan,    \* the ban dialog's tick, static
  calls,        \* the calls of the last click: what, and about whom
  wanted        \* history: the dialogs opened and not closed, and about whom

rows == <<online, listed>>
view == <<tab, selected>>
asks == <<dialogs, panelTarget, wanted>>
panelVars == <<rows, view, popup, asks, alsoIpBan, calls>>

AllDialogs == {"kick", "ban", "rename", "exp", "item"}
NoPopup == <<"none", NoPlayer>>

PanelInit ==
  /\ online = {} /\ listed = {} /\ tab = "Online" /\ selected = NoPlayer
  /\ popup = NoPopup /\ dialogs = {} /\ panelTarget = NoPlayer /\ alsoIpBan = FALSE
  /\ calls = {} /\ wanted = {}

JoinOrLeave(uid) ==
  /\ online' = IF uid \in online THEN online \ {uid} ELSE online \cup {uid}
  /\ UNCHANGED <<listed, view, popup, asks, alsoIpBan>> /\ calls' = {}

\* render, when its timer has reached two seconds: a request that fails shows nobody.
\* The popup of a row that is no longer drawn closes.
UpdateCache ==
  /\ listed' \in {online, {}}
  /\ popup' = IF popup[2] \in listed' THEN popup ELSE NoPopup
  /\ UNCHANGED <<online, view, asks, alsoIpBan>> /\ calls' = {}

\* Variant: the dialogs are no modal ones.
NoPopupOver == popup = NoPopup

\* A modal dialog takes every click; a click outside a popup only closes it.
NothingOver == dialogs = {} /\ popup = NoPopup

SelectTab(t) ==
  /\ NothingOver /\ tab' = t
  /\ UNCHANGED <<rows, selected, popup, asks, alsoIpBan>> /\ calls' = {}

\* A name in either list; NoPlayer for the detail panel's Close.
ShowDetail(uid) ==
  /\ NothingOver
  /\ \/ tab = "Online" /\ uid \in listed
     \/ tab = "All Players" /\ uid \in PlayerIds
     \/ selected # NoPlayer /\ uid = NoPlayer
  /\ selected' = uid
  /\ UNCHANGED <<rows, tab, popup, asks, alsoIpBan>> /\ calls' = {}

OpenPopup(name, uid) ==
  /\ NothingOver /\ tab = "Online" /\ uid \in listed
  /\ popup' = <<name, uid>>
  /\ UNCHANGED <<rows, view, asks, alsoIpBan>> /\ calls' = {}

ClosePopup ==
  /\ popup # NoPopup /\ popup' = NoPopup
  /\ UNCHANGED <<rows, view, asks, alsoIpBan>> /\ calls' = {}

\* Which dialogs the buttons of a row, its popup and the detail panel open.
RowOpens(uid) ==
  IF NothingOver /\ tab = "Online" /\ uid \in listed THEN {"kick", "ban", "item"} ELSE {}
MenuOpens(uid) == IF popup = <<"more", uid>> THEN {"rename", "exp"} ELSE {}
DetailOpens(uid) ==
  IF NothingOver /\ selected = uid THEN AllDialogs \ {"rename"} ELSE {}

OpenDialog(what, uid) ==
  /\ what \in RowOpens(uid) \cup MenuOpens(uid) \cup DetailOpens(uid)
  /\ panelTarget' = uid /\ dialogs' = dialogs \cup {what} /\ wanted' = wanted \cup {<<what, uid>>}
  /\ popup' = NoPopup
  /\ UNCHANGED <<rows, view, alsoIpBan>> /\ calls' = {}

\* The message popup closes when it has sent, the menu after any item.
PopupCalls ==
  CASE popup[1] = "msg"  -> {"pdsendmessage"}
    [] popup[1] = "more" -> {"pdipban", "pdgetip", "pdgrantadmin", "pdrevokeadmin",
                             "pdwhitelist add", "scanPlayer"}
    [] OTHER -> {}

PopupCall(c) ==
  /\ c \in PopupCalls
  /\ calls' = {<<c, popup[2]>>} /\ popup' = NoPopup
  /\ UNCHANGED <<rows, view, asks, alsoIpBan>>

Shut(what) ==
  /\ what \in dialogs
  /\ dialogs' = dialogs \ {what} /\ wanted' = {w \in wanted : w[1] # what}
  /\ UNCHANGED <<rows, view, popup, panelTarget, alsoIpBan>>

Kick == Shut("kick") /\ calls' = {<<"pdkick", panelTarget>>}

\* Two calls when "Also IP ban" is ticked; the tick stays for the next dialog.
Ban ==
  /\ Shut("ban")
  /\ calls' = {<<"pdban", panelTarget>>} \cup
              (IF alsoIpBan THEN {<<"pdipban", panelTarget>>} ELSE {})

TickIpBan ==
  /\ "ban" \in dialogs /\ alsoIpBan' = ~alsoIpBan
  /\ UNCHANGED <<rows, view, popup, asks>> /\ calls' = {}

Rename == Shut("rename") /\ calls' = {<<"pdrename", panelTarget>>}

CloseDialog(what) == Shut(what) /\ calls' = {}

\* The two dialogs that give stay open for more.
Gifts ==
  (IF "exp" \in dialogs THEN {"pdgiveexp", "pdgivestatuspoints", "pdgivetechpoints",
                              "pdgiveancienttechpoints", "pdgiveeffigies"} ELSE {})
  \cup (IF "item" \in dialogs THEN {"pdgiveitem"} ELSE {})

Give(c) ==
  /\ c \in Gifts
  /\ calls' = {<<c, panelTarget>>}
  /\ UNCHANGED <<rows, view, popup, asks, alsoIpBan>>

\* The Whitelist tab names whomever is typed there.
WhitelistCall(c, uid) ==
  /\ NothingOver /\ tab = "Whitelist" /\ (c = "pdwhitelist list" <=> uid = NoPlayer)
  /\ calls' = {<<c, uid>>}
  /\ UNCHANGED <<rows, view, popup, asks, alsoIpBan>>

PanelNext ==
  \/ \E uid \in PlayerIds : JoinOrLeave(uid)
  \/ UpdateCache \/ ClosePopup \/ Kick \/ Ban \/ TickIpBan \/ Rename
  \/ \E t \in {"Online", "All Players", "Whitelist"} : SelectTab(t)
  \/ \E uid \in PlayerIds \cup {NoPlayer} : ShowDetail(uid)
  \/ \E uid \in PlayerIds : OpenPopup("msg", uid) \/ OpenPopup("more", uid)
  \/ \E what \in AllDialogs : CloseDialog(what) \/ \E uid \in PlayerIds : OpenDialog(what, uid)
  \/ \E c \in PopupCalls : PopupCall(c)
  \/ \E c \in Gifts : Give(c)
  \/ \E c \in {"pdwhitelist add", "pdwhitelist remove", "pdwhitelist list"},
        uid \in PlayerIds \cup {NoPlayer} : WhitelistCall(c, uid)

PanelSpec == PanelInit /\ [][PanelNext]_panelVars

-----------------------------------------------------------------------------
PanelTypeOK ==
  /\ online \cup listed \subseteq PlayerIds /\ {selected, panelTarget, popup[2]} \subseteq PlayerIds \cup {NoPlayer}
  /\ tab \in {"Online", "All Players", "Whitelist"} /\ popup[1] \in {"none", "msg", "more"}
  /\ dialogs \subseteq AllDialogs /\ alsoIpBan \in BOOLEAN
  /\ \A c \in calls : c[2] \in PlayerIds \cup {NoPlayer}
  /\ wanted \subseteq AllDialogs \X PlayerIds

\* However long a dialog stays open, whoever joins, leaves or is listed meanwhile, the
\* five dialogs that share a target are open one at a time, about the player they were
\* opened for, and whatever is called from one is about him.
PanelKept ==
  /\ [](/\ \A a, b \in dialogs : a = b
        /\ wanted = {<<what, panelTarget>> : what \in dialogs})
  /\ [][\A c \in calls' : dialogs # {} => \E what \in dialogs : <<what, c[2]>> \in wanted]_panelVars
=============================================================================
