---------------------------- MODULE Notifications ---------------------------
(***************************************************************************)
(* NotificationManager: the newest notification first, at most MaxVisible  *)
(* on the screen, at most MaxKept in the list, each for its duration.  A   *)
(* frame first ages and removes, then draws.  The class has no caller in   *)
(* the program yet; all of it belongs to the interface thread.             *)
(***************************************************************************)
EXTENDS Naturals, Sequences, SequencesExt, Lists

CONSTANTS
  MaxVisible,  \* m_maxVisible, 5 in the code
  MaxKept,     \* push's limit, 20 in the code
  Duration,    \* how long a notification is to be seen
  FrameTimes,  \* how long a frame may take
  MaxNotices   \* bounds the notifications pushed

ASSUME NoticesAssumption ==
  /\ MaxVisible \in Nat \ {0} /\ MaxKept \in Nat \ {0} /\ MaxVisible < MaxKept
  /\ Duration \in Nat \ {0} /\ FrameTimes \subseteq Nat \ {0} /\ MaxNotices \in Nat

VARIABLES
  notices,  \* m_notifications, with history: drawn, and burst, those pushed
            \* after it before it was drawn
  pushed    \* how many were pushed so far

noticesVars == <<notices, pushed>>

NoticesInit == notices = <<>> /\ pushed = 0

Push ==
  /\ pushed < MaxNotices /\ pushed' = pushed + 1
  /\ LET new == [id |-> pushed', elapsed |-> 0, dismissed |-> FALSE, drawn |-> FALSE, burst |-> 0]
         older == [i \in DOMAIN notices |->
                     IF notices[i].drawn THEN notices[i] ELSE [notices[i] EXCEPT !.burst = @ + 1]]
         all == <<new>> \o older IN
     notices' = IF Len(all) > MaxKept THEN Front(all) ELSE all

\* update: what is due or was closed goes.
Updated(delta) ==
  LET aged == [i \in DOMAIN notices |-> [notices[i] EXCEPT !.elapsed = @ + delta]]
  IN  Kept(aged, {i \in DOMAIN aged : ~aged[i].dismissed /\ aged[i].elapsed < Duration})

\* Variant: the oldest are drawn.
FrameOfOldest(delta) ==
  /\ notices' = [i \in DOMAIN Updated(delta) |->
                   [Updated(delta)[i] EXCEPT !.drawn = @ \/ i + MaxVisible > Len(Updated(delta))]]
  /\ UNCHANGED pushed

\* render draws the first MaxVisible of what is left.
Frame(delta) ==
  /\ notices' = [i \in DOMAIN Updated(delta) |->
                   IF i <= MaxVisible THEN [Updated(delta)[i] EXCEPT !.drawn = TRUE]
                                      ELSE Updated(delta)[i]]
  /\ UNCHANGED pushed

\* The close button of one that is on the screen; the next frame removes it.
CloseNotice(i) ==
  /\ i <= Len(notices) /\ i <= MaxVisible /\ notices[i].drawn
  /\ notices' = [notices EXCEPT ![i].dismissed = TRUE]
  /\ UNCHANGED pushed

NoticesNext ==
  \/ Push
  \/ \E delta \in FrameTimes : Frame(delta)
  \/ \E i \in 1..MaxVisible : CloseNotice(i)

NoticesSpec == NoticesInit /\ [][NoticesNext]_noticesVars

-----------------------------------------------------------------------------
NoticesTypeOK ==
  /\ pushed \in 0..MaxNotices /\ Len(notices) <= MaxKept
  /\ \A i \in DOMAIN notices :
       /\ notices[i].id \in 1..pushed /\ notices[i].elapsed \in 0..(Duration - 1)
       /\ notices[i].dismissed \in BOOLEAN /\ notices[i].drawn \in BOOLEAN
       /\ notices[i].burst \in Nat

\* A notification leaves unseen only when as many newer ones as fit on the screen came
\* before it could be drawn, or when one frame took longer than it had to live.
SeenUnlessFlooded ==
  [][\A i \in DOMAIN notices :
       LET n == notices[i] IN
       ~n.drawn /\ (\A j \in DOMAIN notices' : notices'[j].id # n.id) =>
         \/ n.burst >= MaxVisible
         \/ \E delta \in FrameTimes : delta >= Duration /\ Frame(delta)]_noticesVars
=============================================================================
