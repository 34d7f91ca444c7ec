------------------------------ MODULE MapView --------------------------------
(***************************************************************************)
(* MapPanel and MapRenderer: the view that is zoomed and dragged, the      *)
(* selected player or base, the context menu at a point of the world and   *)
(* the dialogs that spawn a pal or destroy a base.  One axis stands for    *)
(* both.  The renderer asks ImGui for raw clicks, so the map reacts under  *)
(* an open dialog too.  Where players and bases are drawn is left out: a   *)
(* press may hit any of them.  Lengths are exact, where the code has       *)
(* floats.  The class has no instance in the program yet.                  *)
(***************************************************************************)
EXTENDS Integers

CONSTANTS
  Bases, MapPlayers,  \* what can be selected
  Nothing,            \* no selection, no dialog, no drag
  Wide, Narrow,       \* the canvas in pixels, without and with the side panel
  Extents,            \* how much of the world fits the canvas: its width / m_zoom
  Home,               \* that of zoom 1
  Pixels,             \* where the mouse may be
  Centers             \* bounds the view's movements

ASSUME MapAssumption ==
  /\ Bases \cap MapPlayers = {} /\ Nothing \notin Bases \cup MapPlayers \cup Int
  /\ Wide \in Nat \ {0} /\ Narrow \in Nat \ {0} /\ Wide % 2 = 0 /\ Narrow % 2 = 0
  /\ Extents \subseteq Nat \ {0} /\ Home \in Extents
  /\ \A e \in Extents : e % Wide = 0 /\ e % Narrow = 0
  /\ Pixels \subseteq Nat /\ 0 \in Centers /\ Centers \subseteq Int

VARIABLES
  center,     \* m_viewCenterX
  extent,     \* the world's width / m_zoom
  pan,        \* m_panStart and m_panStartCenterX, with history: the view they are of
  selection,  \* m_selection
  context,    \* m_contextWorldX
  menu,       \* the context menu is open
  spawn,      \* m_spawnX while m_showSpawnDialog holds
  destroy,    \* m_destroyBaseId while m_showDestroyConfirm holds
  command     \* this frame's RCON command and what it names

mapView == <<center, extent, pan>>
mapDialogs == <<context, menu, spawn, destroy>>
mapVars == <<mapView, selection, mapDialogs, command>>

NoCommand == <<"none", Nothing>>
Quiet == command' = NoCommand

\* The side panel takes its width from the canvas.
Width == IF selection = Nothing THEN Wide ELSE Narrow

\* screenToWorld
WorldAt(c, e, w, m) == c + (m - w \div 2) * (e \div w)

MapInit ==
  /\ center = 0 /\ extent = Home /\ pan = Nothing
  /\ selection = Nothing /\ context = 0 /\ menu = FALSE /\ spawn = Nothing /\ destroy = Nothing
  /\ command = NoCommand

DestroyShown == destroy # Nothing /\ selection \in Bases
Modal == spawn # Nothing \/ DestroyShown

-----------------------------------------------------------------------------
(* Frames in which the mouse is over the map.                              *)

\* Where a wheel step that changes the extent to e leaves the center.
Zoomed(m, e) == center - (WorldAt(center, e, Width, m) - WorldAt(center, extent, Width, m))

\* Where a drag takes the center: it counts from where it began.
Dragged(m, e, from) == from.center - (m - from.start) * (e \div Width)

\* handleInput: the wheel, then the drag.
Move(m, e, held) ==
  /\ m <= Width /\ extent' = e
  /\ LET z == Zoomed(m, e)
         began == [start |-> m, center |-> z, extent |-> e, width |-> Width] IN
     /\ pan' = IF ~held THEN Nothing ELSE IF pan = Nothing THEN began ELSE pan
     /\ center' = IF ~held THEN z ELSE Dragged(m, e, pan')
  /\ center' \in Centers
  /\ UNCHANGED <<selection, mapDialogs>> /\ Quiet

LeaveMap ==
  /\ pan' = Nothing
  /\ UNCHANGED <<center, extent, selection, mapDialogs>> /\ Quiet

\* A left click on a player or a base, or on what a dialog shows above it; a menu that
\* is open may close by it.
PressOn(x) ==
  /\ selection' = x
  /\ menu' \in {menu, FALSE}
  /\ UNCHANGED <<mapView, context, spawn, destroy>> /\ Quiet

\* A right click: the selection becomes a coordinate and, once the menu has it, none.
\* The menu shows unless a dialog is in its place.
RightClick(m) ==
  /\ m <= Width
  /\ context' = WorldAt(center, extent, Width, m)
  /\ selection' = Nothing
  /\ menu' = (spawn = Nothing)
  /\ UNCHANGED <<mapView, spawn, destroy>> /\ Quiet

-----------------------------------------------------------------------------
(* ImGui's own widgets, which a modal dialog shields.                      *)

ResetView ==
  /\ ~Modal /\ center' = 0 /\ extent' = Home
  /\ UNCHANGED <<pan, selection, mapDialogs>> /\ Quiet

CloseMenu ==
  /\ menu /\ menu' = FALSE
  /\ UNCHANGED <<mapView, selection, context, spawn, destroy>> /\ Quiet

SpawnHere ==
  /\ menu /\ ~Modal
  /\ menu' = FALSE /\ spawn' = context
  /\ UNCHANGED <<mapView, selection, context, destroy>> /\ Quiet

NearestBase ==
  /\ menu /\ ~Modal
  /\ menu' = FALSE /\ command' = <<"pdnearestbase", context>>
  /\ UNCHANGED <<mapView, selection, context, spawn, destroy>>

Spawn ==
  /\ spawn # Nothing
  /\ command' = <<"pdspawnpal", spawn>> /\ spawn' = Nothing
  /\ UNCHANGED <<mapView, selection, context, menu, destroy>>

CancelSpawn ==
  /\ spawn # Nothing /\ spawn' = Nothing
  /\ UNCHANGED <<mapView, selection, context, menu, destroy>> /\ Quiet

ClearSelection ==
  /\ ~Modal /\ selection # Nothing /\ selection' = Nothing
  /\ UNCHANGED <<mapView, mapDialogs>> /\ Quiet

DestroyBase ==
  /\ ~Modal /\ selection \in Bases
  /\ destroy' = selection
  /\ UNCHANGED <<mapView, selection, context, menu, spawn>> /\ Quiet

\* The dialog is drawn, and can be answered, while any base is selected.
ConfirmDestroy ==
  /\ DestroyShown
  /\ command' = <<"pddestroybase", destroy>>
  /\ destroy' = Nothing /\ selection' = Nothing
  /\ UNCHANGED <<mapView, context, menu, spawn>>

CancelDestroy ==
  /\ DestroyShown /\ destroy' = Nothing
  /\ UNCHANGED <<mapView, selection, context, menu, spawn>> /\ Quiet

MapNext ==
  \/ \E m \in Pixels : RightClick(m) \/ \E e \in Extents, held \in BOOLEAN : Move(m, e, held)
  \/ \E x \in Bases \cup MapPlayers : PressOn(x)
  \/ LeaveMap \/ ResetView \/ CloseMenu \/ SpawnHere \/ NearestBase \/ Spawn \/ CancelSpawn
  \/ ClearSelection \/ DestroyBase \/ ConfirmDestroy \/ CancelDestroy

MapSpec == MapInit /\ [][MapNext]_mapVars

-----------------------------------------------------------------------------
Points == {WorldAt(c, e, w, m) : c \in Centers, e \in Extents, w \in {Wide, Narrow}, m \in Pixels}

MapTypeOK ==
  /\ center \in Centers /\ extent \in Extents
  /\ pan # Nothing => pan \in [start : Pixels, center : Centers, extent : Extents,
                               width : {Wide, Narrow}]
  /\ selection \in Bases \cup MapPlayers \cup {Nothing}
  /\ context \in Points \cup {0} /\ spawn \in Points \cup {0, Nothing}
  /\ destroy \in Bases \cup {Nothing} /\ menu \in BOOLEAN
  /\ command[1] \in {"none", "pdnearestbase", "pdspawnpal", "pddestroybase"}

\* The wheel keeps the point of the world under the mouse there, and so does a drag with
\* the point it began on, also after a wheel step or a change of the canvas in the middle
\* of it has been undone; while such a change lasts the drag is off.
PointIsHeld ==
  [][pan' # Nothing \/ mapView' # mapView =>
       \A m \in Pixels, e \in Extents, held \in BOOLEAN :
         Move(m, e, held) =>
           LET under == WorldAt(center', e, Width, m) IN
           IF held /\ pan # Nothing
             THEN pan.extent = e /\ pan.width = Width =>
                    under = WorldAt(pan.center, e, Width, pan.start)
             ELSE under = WorldAt(center, extent, Width, m)]_mapVars
=============================================================================
