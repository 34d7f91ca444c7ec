----------------------------- MODULE RconClient ------------------------------
(***************************************************************************)
(* net/RconClient: one TCP session to the game server's remote console.    *)
(* m_mutex is held for a whole connect or sendCommand, so one call is in   *)
(* progress at a time; what it interleaves with is the network and the     *)
(* server, which may answer, answer late, in several packets or never, and *)
(* may close the session.  The server and the sockets are external.  Of a  *)
(* packet's body only whose answer it is is kept.                          *)
(***************************************************************************)
EXTENDS Integers, Sequences

CONSTANTS
  Commands,    \* sendCommand calls, each made once
  NoCommand,
  MaxConnects  \* bounds the explicit calls of connect

ASSUME CommandsAssumption == NoCommand \notin Commands
ASSUME MaxConnectsAssumption == MaxConnects \in Nat

VARIABLES
  connected,  \* m_connected
  authed,     \* m_authenticated
  hostSet,    \* m_host is not empty
  requestId,  \* m_requestId
  call,       \* the call in progress: which, for what command, at what step
  wire,       \* the open session: packets each way, and what the server did
  issued,     \* the commands sendCommand was called with
  answer,     \* whose answer each call of sendCommand returned as its own
  connects,   \* calls of connect
  excuse      \* history: why an answer or an authentication may be wrong

vars == <<connected, authed, hostSet, requestId, call, wire, issued, answer,
          connects, excuse>>
history == <<issued, answer, connects>>

Idle == [kind |-> "none", cmd |-> NoCommand, at |-> "idle"]
NoWire == [out |-> <<>>, in |-> <<>>, granted |-> FALSE, closed |-> FALSE]

\* A rejected password is answered with this request id.
Rejected == -1

At(l) == call.at = l
Proceed(l) == call' = [call EXCEPT !.at = l]

\* A packet leaves for the server, or for nobody if the server has closed.
Send(p) == wire' = IF wire.closed THEN wire ELSE [wire EXCEPT !.out = Append(@, p)]

Init ==
  /\ connected = FALSE /\ authed = FALSE /\ hostSet = FALSE
  /\ requestId = 0
  /\ call = Idle
  /\ wire = NoWire
  /\ issued = {}
  /\ answer = [c \in Commands |-> NoCommand]
  /\ connects = 0
  /\ excuse = {}

-----------------------------------------------------------------------------
(* Entering a call, and dialling.                                          *)

\* connect(): m_host keeps its argument whatever follows.
Connect ==
  /\ At("idle") /\ connects < MaxConnects
  /\ connects' = connects + 1
  /\ hostSet' = TRUE
  /\ call' = [kind |-> "connect", cmd |-> NoCommand, at |-> "dial"]
  /\ UNCHANGED <<connected, authed, requestId, wire, issued, answer, excuse>>

\* Variant: m_authenticated is not looked at.
SendCommandUnchecked(c) ==
  /\ At("idle") /\ c \notin issued
  /\ issued' = issued \cup {c}
  /\ call' = IF connected
             THEN [kind |-> "send", cmd |-> c, at |-> "exec"]
             ELSE IF hostSet THEN [kind |-> "send", cmd |-> c, at |-> "dial"] ELSE Idle
  /\ UNCHANGED <<connected, authed, hostSet, requestId, wire, answer, connects, excuse>>

\* sendCommand(): on the session at hand, on a new one, or "Not connected".
SendCommand(c) ==
  /\ At("idle") /\ c \notin issued
  /\ issued' = issued \cup {c}
  /\ call' = IF connected /\ authed
             THEN [kind |-> "send", cmd |-> c, at |-> "exec"]
             ELSE IF hostSet THEN [kind |-> "send", cmd |-> c, at |-> "dial"] ELSE Idle
  /\ UNCHANGED <<connected, authed, hostSet, requestId, wire, answer, connects, excuse>>

\* disconnect(), by the owner of a client (testConnection): the next call redials.
Disconnect ==
  /\ At("idle") /\ connected
  /\ connected' = FALSE /\ authed' = FALSE
  /\ wire' = NoWire
  /\ UNCHANGED <<hostSet, requestId, call, history, excuse>>

\* Variant: disconnect() does not reset m_authenticated.
DialKeepsAuth ==
  /\ At("dial")
  /\ wire' = NoWire
  /\ \/ connected' = TRUE /\ Proceed("auth")
     \/ connected' = FALSE /\ call' = Idle
  /\ UNCHANGED <<authed, hostSet, requestId, history, excuse>>

\* disconnect(), then a connection the network grants or refuses.
Dial ==
  /\ At("dial")
  /\ authed' = FALSE
  /\ wire' = NoWire
  /\ \/ connected' = TRUE /\ Proceed("auth")
     \/ connected' = FALSE /\ call' = Idle
  /\ UNCHANGED <<hostSet, requestId, history, excuse>>

-----------------------------------------------------------------------------
(* authenticate().                                                         *)

\* Variant: connect() goes on to send a command.
AuthenticatedGoesOn(ok, w) ==
  /\ authed' = ok
  /\ IF ok THEN Proceed("exec") ELSE call' = Idle
  /\ wire' = w /\ UNCHANGED connected

\* What follows its result: connect() disconnects on failure; sendCommand returns
\* with the session still open, m_connected set and m_authenticated not.
Authenticated(ok, w) ==
  /\ authed' = ok
  /\ call' = IF ok /\ call.kind = "send" THEN [call EXCEPT !.at = "exec"] ELSE Idle
  /\ IF ok \/ call.kind = "send"
     THEN wire' = w /\ UNCHANGED connected
     ELSE wire' = NoWire /\ connected' = FALSE

SendAuth ==
  /\ At("auth")
  /\ requestId' = requestId + 1
  /\ \/ /\ Send([type |-> "auth", id |-> requestId', of |-> NoCommand])
        /\ Proceed("authReply")
        /\ UNCHANGED <<connected, authed>>
     \/ wire.closed /\ Authenticated(FALSE, wire)
  /\ UNCHANGED <<hostSet, history, excuse>>

\* A first empty value is skipped; the packet after it is judged whatever it is.
ReceiveAuth ==
  /\ At("authReply") \/ At("authReplyAgain")
  /\ wire.in # <<>>
  /\ LET p == Head(wire.in)
         rest == [wire EXCEPT !.in = Tail(@)]
     IN IF At("authReply") /\ p.type = "value"
        THEN Proceed("authReplyAgain") /\ wire' = rest /\ UNCHANGED <<connected, authed>>
        ELSE Authenticated(p.id = requestId /\ p.type = "authResponse", rest)
  /\ UNCHANGED <<hostSet, requestId, history, excuse>>

\* No packet within five seconds, or a broken one.  After a first empty value the
\* failure goes unnoticed: an id and a type never written are judged.
ReceiveAuthFails ==
  \/ /\ At("authReply")
     /\ Authenticated(FALSE, wire)
     /\ UNCHANGED <<hostSet, requestId, history, excuse>>
  \/ /\ At("authReplyAgain")
     /\ \E garbage \in BOOLEAN :
          /\ Authenticated(garbage, wire)
          /\ excuse' = IF garbage THEN excuse \cup {"uninitialised"} ELSE excuse
     /\ UNCHANGED <<hostSet, requestId, history>>

-----------------------------------------------------------------------------
(* The command.                                                            *)

SendExec ==
  /\ At("exec")
  /\ requestId' = requestId + 1
  /\ \/ /\ Send([type |-> "exec", id |-> requestId', of |-> call.cmd])
        /\ Proceed("reply")
        /\ UNCHANGED connected
     \/ /\ wire.closed
        /\ connected' = FALSE
        /\ call' = Idle
        /\ UNCHANGED wire
  /\ UNCHANGED <<authed, hostSet, history, excuse>>

\* Whatever packet comes first is the answer: its id is not compared.
ReceiveReply ==
  /\ At("reply")
  /\ wire.in # <<>>
  /\ answer' = [answer EXCEPT ![call.cmd] = Head(wire.in).of]
  /\ wire' = [wire EXCEPT !.in = Tail(@)]
  /\ call' = Idle
  /\ UNCHANGED <<connected, authed, hostSet, requestId, issued, connects, excuse>>

\* Variant: the session is kept after a failed receive.
ReceiveFailsKeepsSession ==
  /\ At("reply")
  /\ call' = Idle
  /\ UNCHANGED <<connected, authed, hostSet, requestId, wire, history, excuse>>

\* Variant: no receive timeout is set.
ReceiveFailsWhenClosed ==
  /\ At("reply") /\ wire.closed
  /\ connected' = FALSE
  /\ call' = Idle
  /\ UNCHANGED <<authed, hostSet, requestId, wire, history, excuse>>

\* A timeout, a short read, an absurd size or a closed session.
ReceiveFails ==
  /\ At("reply")
  /\ connected' = FALSE
  /\ call' = Idle
  /\ UNCHANGED <<authed, hostSet, requestId, wire, history, excuse>>

-----------------------------------------------------------------------------
(* The game server.                                                        *)

Reads(type) == wire.out # <<>> /\ Head(wire.out).type = type
Replies(packets, grant) ==
  wire' = [wire EXCEPT !.out = Tail(@), !.in = @ \o packets, !.granted = grant]

\* The password is judged, after an empty value or without one.
ServerJudgesPassword ==
  /\ Reads("auth")
  /\ LET p == Head(wire.out)
         verdict(id) == [type |-> "authResponse", id |-> id, of |-> NoCommand]
         empty == [type |-> "value", id |-> p.id, of |-> NoCommand]
     IN \E ok \in BOOLEAN, first \in {<<>>, <<empty>>} :
          Replies(first \o <<verdict(IF ok THEN p.id ELSE Rejected)>>, ok)
  /\ UNCHANGED <<connected, authed, hostSet, requestId, call, history, excuse>>

\* A command is answered in one packet, or, if the answer is long, in two.
ServerExecutes ==
  /\ Reads("exec")
  /\ LET p == Head(wire.out)
         value == [type |-> "value", id |-> p.id, of |-> p.of]
     IN \/ Replies(<<value>>, wire.granted) /\ UNCHANGED excuse
        \/ Replies(<<value, value>>, wire.granted) /\ excuse' = excuse \cup {"split"}
  /\ UNCHANGED <<connected, authed, hostSet, requestId, call, history>>

\* What the server has not read is lost.
ServerCloses ==
  /\ connected /\ ~wire.closed
  /\ wire' = [wire EXCEPT !.closed = TRUE, !.out = <<>>]
  /\ UNCHANGED <<connected, authed, hostSet, requestId, call, history, excuse>>

-----------------------------------------------------------------------------

CallStep ==
  \/ Dial \/ SendAuth \/ ReceiveAuth \/ ReceiveAuthFails
  \/ SendExec \/ ReceiveReply \/ ReceiveFails

Next ==
  \/ Connect \/ Disconnect \/ \E c \in Commands : SendCommand(c)
  \/ CallStep
  \/ ServerJudgesPassword \/ ServerExecutes \/ ServerCloses

Spec == Init /\ [][Next]_vars

\* A call goes on: socket operations time out.  Nothing is asked of the server.
FairSpec == Spec /\ WF_vars(CallStep)

-----------------------------------------------------------------------------

Packets == [type : {"auth", "authResponse", "exec", "value"},
            id : Nat \cup {Rejected}, of : Commands \cup {NoCommand}]

TypeOK ==
  /\ connected \in BOOLEAN /\ authed \in BOOLEAN /\ hostSet \in BOOLEAN
  /\ requestId \in Nat
  /\ call \in [kind : {"none", "connect", "send"}, cmd : Commands \cup {NoCommand},
               at : {"idle", "dial", "auth", "authReply", "authReplyAgain",
                     "exec", "reply"}]
  /\ call.kind = "send" <=> call.cmd # NoCommand
  /\ call.kind = "connect" => call.at \notin {"idle", "exec", "reply"}
  /\ wire \in [out : Seq(Packets), in : Seq(Packets), granted : BOOLEAN,
               closed : BOOLEAN]
  /\ issued \subseteq Commands
  /\ answer \in [Commands -> Commands \cup {NoCommand}]
  /\ connects \in 0..MaxConnects
  /\ excuse \subseteq {"split", "uninitialised"}

\* No command goes out on a session whose password the server has not accepted, not
\* even after sendCommand left a rejected session open (RconClient.cpp:114, 136-139).
CommandsNeedAuth ==
  Reads("exec") => wire.granted \/ "uninitialised" \in excuse

\* isConnected(), which the interface reads at any moment of a call: it is true only
\* of a session the server has authenticated (RconClient.cpp:78-93, 107).
ConnectedMeansAuthenticated ==
  connected /\ authed => wire.granted \/ "uninitialised" \in excuse

\* Although no request id is compared, a command never gets the answer of an earlier
\* one that came late: every failure abandons the session it would come on.  A second
\* packet of a long answer is the exception, and a verdict on a packet never received
\* (RconClient.cpp:103-107, 145-155).
AnswerIsOwn ==
  \A c \in Commands : answer[c] \in {c, NoCommand} \/ excuse # {}

\* Every call returns and gives m_mutex up, whatever the server does or omits.
CallsReturn == ~At("idle") ~> At("idle")
=============================================================================
