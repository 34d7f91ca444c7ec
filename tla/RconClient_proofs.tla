-------------------------- MODULE RconClient_proofs ---------------------------
(***************************************************************************)
(* Theorems about RconClient, for any commands and any number of calls.    *)
(***************************************************************************)
EXTENDS RconClient, TLAPS

Kinds == {"none", "connect", "send"}
Steps == {"idle", "dial", "auth", "authReply", "authReplyAgain", "exec", "reply"}
Calls == [kind : Kinds, cmd : Commands \cup {NoCommand}, at : Steps]
Wires == [out : Seq(Packets), in : Seq(Packets), granted : BOOLEAN, closed : BOOLEAN]

\* A call is in progress when one was made, and only sendCommand goes past the password.
CallIsPlaced ==
  /\ call.kind = "none" <=> call.at = "idle"
  /\ call.kind = "connect" => call.at \notin {"idle", "exec", "reply"}
  /\ call.at \in {"exec", "reply"} => authed
  /\ call.at \in {"auth", "authReply", "authReplyAgain"} => ~authed
  /\ call.at = "auth" => wire.out = <<>> /\ wire.in = <<>>

NoAuthOut == \A i \in 1..Len(wire.out) : wire.out[i].type # "auth"

\* Before the password is accepted nothing but the password is on its way.
OnlyPassword ==
  ~authed => \/ wire.out = <<>>
             \/ Len(wire.out) = 1 /\ wire.out[1].type = "auth"

\* An accepted password, and the packet that says so, come from a server that granted
\* the session and has no other password to judge.
AuthIsGranted ==
  "uninitialised" \notin excuse =>
    /\ authed => wire.granted /\ NoAuthOut
    /\ \A i \in 1..Len(wire.in) :
         wire.in[i].type = "authResponse" /\ wire.in[i].id # Rejected =>
           wire.granted /\ NoAuthOut

\* While every answer is one packet, a session carries at most one packet that is not
\* yet accounted for, and what waits for an answer waits for that one.
WireIsClear ==
  excuse = {} =>
    /\ call.at = "exec" \/ (call.at = "idle" /\ connected /\ authed) =>
         wire.out = <<>> /\ wire.in = <<>>
    /\ call.at = "reply" =>
         \/ wire.out = <<>> /\ wire.in = <<>>
         \/ wire.out = <<>> /\ Len(wire.in) = 1 /\ wire.in[1].of = call.cmd
         \/ wire.in = <<>> /\ Len(wire.out) = 1 /\ wire.out[1].of = call.cmd
    /\ call.at = "authReplyAgain" => wire.out = <<>> /\ Len(wire.in) \in {0, 1}
    /\ call.at = "authReply" =>
         \/ wire.in = <<>>
         \/ wire.out = <<>> /\ Len(wire.in) = 1
         \/ wire.out = <<>> /\ Len(wire.in) = 2 /\ wire.in[1].type = "value"

RconTypes ==
  /\ TypeOK
  /\ call \in Calls /\ wire \in Wires

RconInv ==
  RconTypes /\ CallIsPlaced /\ OnlyPassword /\ AuthIsGranted /\ WireIsClear /\ AnswerIsOwn
-----------------------------------------------------------------------------

LEMMA RconInitial == Init => RconInv
<1> SUFFICES ASSUME Init
             PROVE  RconInv
  OBVIOUS
<1>1. /\ wire.out = <<>> /\ wire.in = <<>> /\ wire.granted = FALSE
      /\ call.kind = "none" /\ call.cmd = NoCommand /\ call.at = "idle"
      /\ authed = FALSE /\ connected = FALSE
  BY DEF Init, NoWire, Idle
<1>2. wire \in Wires /\ call \in Calls
  BY DEF Init, NoWire, Idle, Wires, Calls, Kinds, Steps
<1>3. connected \in BOOLEAN /\ authed \in BOOLEAN /\ hostSet \in BOOLEAN
  BY DEF Init
<1>4. /\ requestId \in Nat /\ issued \subseteq Commands /\ connects \in 0..MaxConnects
      /\ answer \in [Commands -> Commands \cup {NoCommand}]
      /\ excuse \subseteq {"split", "uninitialised"}
  BY MaxConnectsAssumption DEF Init
<1>5. RconTypes
  BY <1>1, <1>2, <1>3, <1>4 DEF RconTypes, TypeOK, Wires, Calls, Kinds, Steps
<1>6. CallIsPlaced /\ OnlyPassword /\ AuthIsGranted /\ WireIsClear
  BY <1>1 DEF CallIsPlaced, OnlyPassword, AuthIsGranted, WireIsClear
<1>7. AnswerIsOwn
  BY DEF Init, AnswerIsOwn
<1> QED
  BY <1>5, <1>6, <1>7 DEF RconInv

\* Where Authenticated leaves a call.
LEMMA AuthenticatedStep ==
  ASSUME RconInv, call.at \in {"auth", "authReply", "authReplyAgain"},
         NEW ok \in BOOLEAN, NEW w \in Wires, Authenticated(ok, w)
  PROVE  /\ authed' = ok /\ wire' \in Wires /\ connected' \in BOOLEAN
         /\ call' \in Calls
         /\ ok => wire' = w
         /\ call'.at \in {"idle", "exec"}
         /\ call'.at = "exec" => ok /\ call'.kind = "send" /\ call'.cmd # NoCommand
         /\ call'.at = "idle" => call'.kind = "none" /\ call'.cmd = NoCommand
         /\ wire' = w \/ wire' = NoWire
<1>1. NoWire \in Wires /\ Idle \in Calls
  BY DEF NoWire, Wires, Idle, Calls, Kinds, Steps
<1>2. call \in Calls /\ connected \in BOOLEAN /\ (call.kind = "send" <=> call.cmd # NoCommand)
  BY DEF RconInv, RconTypes, TypeOK
<1>3. ok /\ call.kind = "send" => call' = [call EXCEPT !.at = "exec"]
  BY DEF Authenticated
<1>4. ~(ok /\ call.kind = "send") => call' = Idle
  BY DEF Authenticated
<1>5. /\ authed' = ok /\ wire' \in Wires /\ connected' \in BOOLEAN
      /\ ok => wire' = w
      /\ wire' = w \/ wire' = NoWire
  BY <1>1, <1>2 DEF Authenticated
<1> QED
  BY <1>1, <1>2, <1>3, <1>4, <1>5 DEF Calls, Kinds, Steps, Idle

LEMMA TailOf ==
  ASSUME NEW s \in Seq(Packets), s # <<>>
  PROVE  /\ Head(s) \in Packets /\ Head(s) = s[1]
         /\ Len(s) \in Nat /\ Len(s) > 0
         /\ Tail(s) \in Seq(Packets) /\ Len(Tail(s)) = Len(s) - 1
         /\ \A i \in 1..Len(Tail(s)) : i + 1 \in 1..Len(s) /\ Tail(s)[i] = s[i + 1]
         /\ Len(s) = 1 => Tail(s) = <<>>
<1>1. Head(s) \in Packets /\ Head(s) = s[1] /\ Len(s) \in Nat /\ Len(s) > 0
  OBVIOUS
<1>2. Tail(s) \in Seq(Packets) /\ Len(Tail(s)) = Len(s) - 1
  OBVIOUS
<1>3. \A i \in 1..Len(Tail(s)) : i + 1 \in 1..Len(s) /\ Tail(s)[i] = s[i + 1]
  BY <1>1, <1>2
<1>4. Len(s) = 1 => Tail(s) = <<>>
  <2>1. \A t \in Seq(Packets) : Len(t) = 0 => t = <<>>
    OBVIOUS
  <2> SUFFICES ASSUME Len(s) = 1
               PROVE  Tail(s) = <<>>
    OBVIOUS
  <2>2. Len(Tail(s)) = 0
    BY <1>2
  <2> QED
    BY ONLY <1>2, <2>1, <2>2
<1> QED
  BY <1>1, <1>2, <1>3, <1>4

\* Taking the first packet off what has come in.
LEMMA TakeIn ==
  ASSUME wire \in Wires, wire.in # <<>>
  PROVE  /\ [wire EXCEPT !.in = Tail(@)] \in Wires
         /\ Head(wire.in) \in Packets /\ Head(wire.in) = wire.in[1]
         /\ Len(wire.in) \in Nat /\ Len(wire.in) > 0
         /\ Tail(wire.in) \in Seq(Packets) /\ Len(Tail(wire.in)) = Len(wire.in) - 1
         /\ \A i \in 1..Len(Tail(wire.in)) :
              i + 1 \in 1..Len(wire.in) /\ Tail(wire.in)[i] = wire.in[i + 1]
         /\ Len(wire.in) = 1 => Tail(wire.in) = <<>>
BY TailOf DEF Wires

\* Sending appends one packet, or nothing once the server has closed.
LEMMA SendAppends ==
  ASSUME wire \in Wires, NEW p \in Packets, Send(p)
  PROVE  /\ wire' \in Wires
         /\ wire'.in = wire.in /\ wire'.granted = wire.granted
         /\ wire'.out \in {wire.out, Append(wire.out, p)}
<1>1. Append(wire.out, p) \in Seq(Packets)
  BY DEF Wires
<1>2. CASE wire.closed
  BY <1>2 DEF Send
<1>3. CASE ~wire.closed
  BY <1>1, <1>3 DEF Send, Wires
<1> QED
  BY <1>2, <1>3

\* The calls made by the program, and dialling.
LEMMA EnterStep ==
  ASSUME RconInv,
         \/ Connect \/ Disconnect \/ Dial
         \/ \E c \in Commands : SendCommand(c)
  PROVE  RconInv'
<1> USE DEF RconInv, RconTypes, TypeOK, Calls, Kinds, Steps, Wires, At, history
<1>0. NoWire \in Wires /\ NoWire.out = <<>> /\ NoWire.in = <<>>
  BY DEF NoWire
<1>1. CASE Connect
  <2>1. /\ call.at = "idle" /\ call'.kind = "connect" /\ call'.at = "dial"
        /\ call'.cmd = NoCommand /\ call' \in Calls
        /\ connects' \in 0..MaxConnects /\ hostSet' \in BOOLEAN
        /\ UNCHANGED <<connected, authed, requestId, wire, issued, answer, excuse>>
    BY <1>1, MaxConnectsAssumption DEF Connect
  <2>2. RconTypes'
    BY <2>1
  <2>3. CallIsPlaced' /\ OnlyPassword' /\ AuthIsGranted' /\ WireIsClear' /\ AnswerIsOwn'
    BY <2>1
    DEF CallIsPlaced, OnlyPassword, AuthIsGranted, NoAuthOut, WireIsClear, AnswerIsOwn
  <2> QED
    BY <2>2, <2>3
<1>2. CASE Disconnect
  <2>1. /\ call.at = "idle" /\ connected' = FALSE /\ authed' = FALSE /\ wire' = NoWire
        /\ UNCHANGED <<hostSet, requestId, call, issued, answer, connects, excuse>>
    BY <1>2 DEF Disconnect
  <2>2. RconTypes'
    BY <1>0, <2>1
  <2>3. CallIsPlaced' /\ OnlyPassword' /\ AuthIsGranted' /\ WireIsClear' /\ AnswerIsOwn'
    BY <1>0, <2>1
    DEF CallIsPlaced, OnlyPassword, AuthIsGranted, NoAuthOut, WireIsClear, AnswerIsOwn
  <2> QED
    BY <2>2, <2>3
<1>3. CASE Dial
  <2>1. /\ call.at = "dial" /\ authed' = FALSE /\ wire' = NoWire
        /\ UNCHANGED <<hostSet, requestId, issued, answer, connects, excuse>>
        /\ \/ connected' = TRUE /\ call' = [call EXCEPT !.at = "auth"]
           \/ connected' = FALSE /\ call' = Idle
    BY <1>3 DEF Dial, Proceed
  <2>2. RconTypes' /\ CallIsPlaced'
    <3>1. CASE call' = Idle
      BY <1>0, <2>1, <3>1 DEF Idle, CallIsPlaced
    <3>2. CASE call' = [call EXCEPT !.at = "auth"]
      BY <1>0, <2>1, <3>2 DEF CallIsPlaced
    <3> QED
      BY <2>1, <3>1, <3>2
  <2>3. OnlyPassword' /\ AuthIsGranted' /\ WireIsClear' /\ AnswerIsOwn'
    BY <1>0, <2>1, <2>2
    DEF OnlyPassword, AuthIsGranted, NoAuthOut, WireIsClear, AnswerIsOwn, Idle
  <2> QED
    BY <2>2, <2>3
<1>4. ASSUME NEW c \in Commands, SendCommand(c)
      PROVE  RconInv'
  <2>1. /\ call.at = "idle" /\ issued' = issued \cup {c}
        /\ UNCHANGED <<connected, authed, hostSet, requestId, wire, answer, connects, excuse>>
        /\ \/ connected /\ authed /\ call' = [kind |-> "send", cmd |-> c, at |-> "exec"]
           \/ call' = [kind |-> "send", cmd |-> c, at |-> "dial"]
           \/ call' = Idle
    BY <1>4 DEF SendCommand
  <2>2. RconTypes'
    BY <2>1, CommandsAssumption DEF Idle
  <2>3. CallIsPlaced' /\ OnlyPassword' /\ AuthIsGranted' /\ AnswerIsOwn'
    BY <2>1 DEF CallIsPlaced, OnlyPassword, AuthIsGranted, NoAuthOut, AnswerIsOwn, Idle
  <2>4. WireIsClear'
    BY <2>1 DEF WireIsClear, Idle
  <2> QED
    BY <2>2, <2>3, <2>4
<1> QED
  BY <1>1, <1>2, <1>3, <1>4

\* authenticate: the password goes out, and what comes back is judged.
LEMMA AuthStep ==
  ASSUME RconInv, SendAuth \/ ReceiveAuth \/ ReceiveAuthFails
  PROVE  RconInv'
<1> USE DEF RconInv, RconTypes, TypeOK, Calls, Kinds, Steps, Wires, At, history
<1>0. NoWire \in Wires /\ NoWire.out = <<>> /\ NoWire.in = <<>>
  BY DEF NoWire
<1>1. CASE SendAuth
  <2>1. /\ call.at = "auth" /\ wire.out = <<>> /\ wire.in = <<>> /\ ~authed
        /\ requestId' = requestId + 1 /\ requestId' \in Nat
        /\ UNCHANGED <<hostSet, issued, answer, connects, excuse>>
    BY <1>1 DEF SendAuth, CallIsPlaced
  <2>2. CASE Authenticated(FALSE, wire)
    <3>1. /\ authed' = FALSE /\ wire' \in Wires /\ connected' \in BOOLEAN
          /\ call' \in Calls /\ call'.at = "idle" /\ call'.kind = "none"
          /\ call'.cmd = NoCommand
          /\ wire'.out = <<>> /\ wire'.in = <<>>
      BY <1>0, <2>1, <2>2, AuthenticatedStep
    <3>2. RconTypes' /\ CallIsPlaced' /\ OnlyPassword'
      BY <2>1, <3>1 DEF CallIsPlaced, OnlyPassword
    <3>3. AuthIsGranted' /\ WireIsClear' /\ AnswerIsOwn'
      BY <2>1, <3>1 DEF AuthIsGranted, NoAuthOut, WireIsClear, AnswerIsOwn
    <3> QED
      BY <3>2, <3>3
  <2>3. CASE /\ Send([type |-> "auth", id |-> requestId', of |-> NoCommand])
             /\ Proceed("authReply")
             /\ UNCHANGED <<connected, authed>>
    <3>1. [type |-> "auth", id |-> requestId', of |-> NoCommand] \in Packets
      BY <2>1 DEF Packets
    <3>2. /\ wire' \in Wires /\ wire'.in = <<>>
          /\ \/ wire'.out = <<>>
             \/ Len(wire'.out) = 1 /\ wire'.out[1].type = "auth"
      BY <2>1, <2>3, <3>1, SendAppends
    <3>3. call' \in Calls /\ call'.at = "authReply" /\ call'.kind = call.kind /\ call'.cmd = call.cmd
      BY <2>3 DEF Proceed
    <3>4. RconTypes' /\ CallIsPlaced' /\ OnlyPassword'
      BY <2>1, <2>3, <3>2, <3>3 DEF CallIsPlaced, OnlyPassword
    <3>5. AuthIsGranted' /\ WireIsClear' /\ AnswerIsOwn'
      BY <2>1, <2>3, <3>2, <3>3 DEF AuthIsGranted, WireIsClear, AnswerIsOwn
    <3> QED
      BY <3>4, <3>5
  <2> QED
    BY <1>1, <2>2, <2>3 DEF SendAuth
<1>2. CASE ReceiveAuth
  <2> DEFINE p == Head(wire.in)
             rest == [wire EXCEPT !.in = Tail(@)]
  <2>1. /\ call.at \in {"authReply", "authReplyAgain"} /\ ~authed /\ wire.in # <<>>
        /\ UNCHANGED <<hostSet, requestId, issued, answer, connects, excuse>>
    BY <1>2 DEF ReceiveAuth, CallIsPlaced
  <2>2. /\ rest \in Wires /\ p = wire.in[1] /\ p \in Packets
        /\ rest.out = wire.out /\ rest.in = Tail(wire.in) /\ rest.granted = wire.granted
    BY <2>1, TakeIn
  <2>3. /\ Len(wire.in) \in Nat /\ Len(wire.in) > 0
        /\ \A i \in 1..Len(rest.in) :
             i + 1 \in 1..Len(wire.in) /\ rest.in[i] = wire.in[i + 1]
        /\ Len(rest.in) = Len(wire.in) - 1
        /\ Len(wire.in) = 1 => rest.in = <<>>
    BY <2>1, <2>2, TakeIn
  <2>4. "uninitialised" \notin excuse =>
          \A i \in 1..Len(rest.in) :
            rest.in[i].type = "authResponse" /\ rest.in[i].id # Rejected =>
              wire.granted /\ NoAuthOut
    BY <2>3 DEF AuthIsGranted
  <2>5. CASE call.at = "authReply" /\ p.type = "value"
    <3>1. /\ call' = [call EXCEPT !.at = "authReplyAgain"] /\ wire' = rest
          /\ UNCHANGED <<connected, authed>>
      BY <1>2, <2>5 DEF ReceiveAuth, Proceed
    <3>2. RconTypes' /\ CallIsPlaced'
      BY <2>1, <2>2, <3>1 DEF CallIsPlaced
    <3>3. OnlyPassword'
      BY <2>1, <2>2, <3>1 DEF OnlyPassword
    <3>4. AuthIsGranted'
      BY <2>1, <2>2, <2>4, <3>1 DEF AuthIsGranted, NoAuthOut
    <3>5. WireIsClear'
      BY <2>1, <2>2, <2>3, <2>5, <3>1 DEF WireIsClear
    <3>6. AnswerIsOwn'
      BY <2>1 DEF AnswerIsOwn
    <3> QED
      BY <3>2, <3>3, <3>4, <3>5, <3>6
  <2>6. CASE ~(call.at = "authReply" /\ p.type = "value")
    <3> DEFINE ok == p.id = requestId /\ p.type = "authResponse"
    <3>1. Authenticated(ok, rest)
      BY <1>2, <2>6 DEF ReceiveAuth
    <3>2. /\ authed' = ok /\ wire' \in Wires /\ connected' \in BOOLEAN
          /\ call' \in Calls
          /\ ok => wire' = rest
          /\ call'.at \in {"idle", "exec"}
          /\ call'.at = "exec" => ok /\ call'.kind = "send" /\ call'.cmd # NoCommand
          /\ call'.at = "idle" => call'.kind = "none" /\ call'.cmd = NoCommand
          /\ wire' = rest \/ wire' = NoWire
      <4>1. ok \in BOOLEAN
        OBVIOUS
      <4> HIDE DEF ok, rest
      <4> QED
        BY <2>1, <2>2, <3>1, <4>1, AuthenticatedStep
    <3>3. ok => p.type = "authResponse" /\ p.id # Rejected
      BY DEF Rejected
    <3>4. RconTypes' /\ CallIsPlaced'
      <4>1. ok \in BOOLEAN
        OBVIOUS
      <4> HIDE DEF ok, rest, p
      <4> QED
        BY <2>1, <3>2, <4>1 DEF CallIsPlaced
    <3>5. OnlyPassword'
      BY <1>0, <2>1, <2>2, <3>2 DEF OnlyPassword
    <3>6. AuthIsGranted'
      <4>1. ok /\ "uninitialised" \notin excuse => wire.granted /\ NoAuthOut
        <5>1. 1 \in 1..Len(wire.in) /\ wire.in[1] = p
          BY <2>2, <2>3
        <5> HIDE DEF ok, rest, p
        <5> QED
          BY <3>3, <5>1 DEF AuthIsGranted
      <4> HIDE DEF ok, rest, p
      <4>2. CASE wire' = rest
        <5>1. wire'.out = wire.out /\ wire'.granted = wire.granted /\ wire'.in = rest.in
          BY <2>2, <4>2
        <5>2. NoAuthOut' <=> NoAuthOut
          BY <5>1 DEF NoAuthOut
        <5>3. "uninitialised" \notin excuse' /\ authed' => wire'.granted /\ NoAuthOut'
          BY <2>1, <3>2, <4>1, <5>1, <5>2
        <5>4. "uninitialised" \notin excuse' =>
                \A i \in 1..Len(wire'.in) :
                  wire'.in[i].type = "authResponse" /\ wire'.in[i].id # Rejected =>
                    wire'.granted /\ NoAuthOut'
          BY <2>1, <2>4, <5>1, <5>2
        <5> QED
          BY <5>3, <5>4 DEF AuthIsGranted
      <4>3. CASE wire' = NoWire /\ ~ok
        BY <1>0, <2>1, <3>2, <4>3 DEF AuthIsGranted
      <4> QED
        BY <3>2, <4>2, <4>3
    <3>7. WireIsClear'
      <4>1. ok /\ excuse = {} => rest.out = <<>> /\ rest.in = <<>>
        BY <2>1, <2>2, <2>3, <2>6, <3>3 DEF WireIsClear
      <4> HIDE DEF ok, rest, p
      <4>2. excuse' = {} /\ (call'.at = "exec" \/ authed') => wire'.out = <<>> /\ wire'.in = <<>>
        BY <2>1, <3>2, <4>1
      <4> QED
        BY <3>2, <4>2 DEF WireIsClear
    <3>8. AnswerIsOwn'
      BY <2>1 DEF AnswerIsOwn
    <3> QED
      BY <3>4, <3>5, <3>6, <3>7, <3>8
  <2> QED
    BY <2>5, <2>6
<1>3. CASE ReceiveAuthFails
  <2>1. /\ call.at \in {"authReply", "authReplyAgain"} /\ ~authed
        /\ UNCHANGED <<hostSet, requestId, issued, answer, connects>>
        /\ excuse' \subseteq {"split", "uninitialised"} /\ (excuse' = {} => excuse = {})
        /\ "uninitialised" \notin excuse' => "uninitialised" \notin excuse
    BY <1>3 DEF ReceiveAuthFails, CallIsPlaced
  <2>2. PICK ok \in BOOLEAN : /\ Authenticated(ok, wire)
                              /\ ok => "uninitialised" \in excuse'
    BY <1>3 DEF ReceiveAuthFails
  <2>3. /\ authed' = ok /\ wire' \in Wires /\ connected' \in BOOLEAN
        /\ call' \in Calls
        /\ ok => wire' = wire
        /\ call'.at \in {"idle", "exec"}
        /\ call'.at = "exec" => ok /\ call'.kind = "send" /\ call'.cmd # NoCommand
        /\ call'.at = "idle" => call'.kind = "none" /\ call'.cmd = NoCommand
        /\ wire' = wire \/ wire' = NoWire
    BY <2>1, <2>2, AuthenticatedStep
  <2>4. RconTypes' /\ CallIsPlaced'
    BY <2>1, <2>3 DEF CallIsPlaced
  <2>5. OnlyPassword'
    BY <1>0, <2>1, <2>3 DEF OnlyPassword
  <2>6. AuthIsGranted'
    BY <1>0, <2>1, <2>2, <2>3 DEF AuthIsGranted, NoAuthOut
  <2>7. WireIsClear' /\ AnswerIsOwn'
    BY <2>1, <2>2, <2>3 DEF WireIsClear, AnswerIsOwn
  <2> QED
    BY <2>4, <2>5, <2>6, <2>7
<1> QED
  BY <1>1, <1>2, <1>3

\* The command goes out on an authenticated session; the first packet is its answer.
LEMMA CommandStep ==
  ASSUME RconInv, SendExec \/ ReceiveReply \/ ReceiveFails
  PROVE  RconInv'
<1> USE DEF RconInv, RconTypes, TypeOK, Calls, Kinds, Steps, Wires, At, history
<1>1. CASE SendExec
  <2>1. /\ call.at = "exec" /\ authed
        /\ requestId' = requestId + 1 /\ requestId' \in Nat
        /\ UNCHANGED <<authed, hostSet, issued, answer, connects, excuse>>
    BY <1>1 DEF SendExec, CallIsPlaced
  <2>2. CASE wire.closed /\ connected' = FALSE /\ call' = Idle /\ UNCHANGED wire
    <3>1. RconTypes' /\ CallIsPlaced'
      BY <2>1, <2>2 DEF Idle, CallIsPlaced
    <3>2. OnlyPassword' /\ AuthIsGranted' /\ WireIsClear' /\ AnswerIsOwn'
      BY <2>1, <2>2 DEF OnlyPassword, AuthIsGranted, NoAuthOut, WireIsClear, AnswerIsOwn, Idle
    <3> QED
      BY <3>1, <3>2
  <2>3. CASE /\ Send([type |-> "exec", id |-> requestId', of |-> call.cmd])
             /\ Proceed("reply") /\ UNCHANGED connected
    <3> DEFINE p == [type |-> "exec", id |-> requestId', of |-> call.cmd]
    <3>1. p \in Packets /\ p.type = "exec" /\ p.of = call.cmd
      BY <2>1 DEF Packets
    <3>2. /\ wire' \in Wires /\ wire'.in = wire.in /\ wire'.granted = wire.granted
          /\ wire'.out \in {wire.out, Append(wire.out, p)}
      BY <2>3, <3>1, SendAppends
    <3>3. call' \in Calls /\ call'.at = "reply" /\ call'.kind = call.kind /\ call'.cmd = call.cmd
      BY <2>3 DEF Proceed
    <3> HIDE DEF p
    <3>4. RconTypes' /\ CallIsPlaced' /\ OnlyPassword'
      BY <2>1, <2>3, <3>2, <3>3 DEF CallIsPlaced, OnlyPassword
    <3>5. NoAuthOut => NoAuthOut'
      <4>1. CASE wire'.out = wire.out
        BY <4>1 DEF NoAuthOut
      <4>2. CASE wire'.out = Append(wire.out, p)
        <5>1. /\ wire.out \in Seq(Packets) /\ Len(wire'.out) = Len(wire.out) + 1
              /\ wire'.out[Len(wire.out) + 1] = p
              /\ \A i \in 1..Len(wire.out) : wire'.out[i] = wire.out[i]
          BY <3>1, <4>2
        <5> QED
          BY <3>1, <5>1 DEF NoAuthOut
      <4> QED
        BY <3>2, <4>1, <4>2
    <3>6. AuthIsGranted'
      BY <2>1, <3>2, <3>5 DEF AuthIsGranted
    <3>7. WireIsClear'
      <4>1. wire.out = <<>> => Append(wire.out, p) = <<p>>
        OBVIOUS
      <4>2. Len(<<p>>) = 1 /\ <<p>>[1] = p
        OBVIOUS
      <4>3. excuse = {} => wire.out = <<>> /\ wire.in = <<>>
        BY <2>1 DEF WireIsClear
      <4>4. excuse = {} => /\ wire'.in = <<>>
                           /\ \/ wire'.out = <<>>
                              \/ Len(wire'.out) = 1 /\ wire'.out[1].of = call'.cmd
        <5>1. SUFFICES ASSUME excuse = {}
                       PROVE  /\ wire'.in = <<>>
                              /\ \/ wire'.out = <<>>
                                 \/ Len(wire'.out) = 1 /\ wire'.out[1].of = call'.cmd
          OBVIOUS
        <5>2. wire.out = <<>> /\ wire.in = <<>>
          BY <4>3, <5>1
        <5> QED
          BY <3>1, <3>2, <3>3, <4>1, <4>2, <5>2
      <4> QED
        BY <2>1, <3>3, <4>4 DEF WireIsClear
    <3>8. AnswerIsOwn'
      BY <2>1 DEF AnswerIsOwn
    <3> QED
      BY <3>4, <3>6, <3>7, <3>8
  <2> QED
    BY <1>1, <2>2, <2>3 DEF SendExec
<1>2. CASE ReceiveReply
  <2>1. /\ call.at = "reply" /\ wire.in # <<>> /\ call' = Idle
        /\ answer' = [answer EXCEPT ![call.cmd] = Head(wire.in).of]
        /\ wire' = [wire EXCEPT !.in = Tail(@)]
        /\ UNCHANGED <<connected, authed, hostSet, requestId, issued, connects, excuse>>
    BY <1>2 DEF ReceiveReply
  <2>2. /\ wire' \in Wires /\ Head(wire.in) \in Packets /\ Head(wire.in) = wire.in[1]
        /\ wire'.out = wire.out /\ wire'.in = Tail(wire.in) /\ wire'.granted = wire.granted
        /\ \A i \in 1..Len(wire'.in) :
             i + 1 \in 1..Len(wire.in) /\ wire'.in[i] = wire.in[i + 1]
        /\ Len(wire.in) = 1 => wire'.in = <<>>
    BY <2>1, TakeIn
  <2>3. Head(wire.in).of \in Commands \cup {NoCommand}
    BY <2>2 DEF Packets
  <2>4. RconTypes' /\ CallIsPlaced'
    BY <2>1, <2>2, <2>3 DEF Idle, CallIsPlaced
  <2>5. OnlyPassword' /\ (NoAuthOut' <=> NoAuthOut)
    BY <2>1, <2>2 DEF OnlyPassword, NoAuthOut
  <2>6. AuthIsGranted'
    BY <2>1, <2>2, <2>5 DEF AuthIsGranted
  <2>7. WireIsClear'
    BY <2>1, <2>2 DEF WireIsClear, Idle
  <2>8. AnswerIsOwn'
    BY <2>1, <2>2 DEF AnswerIsOwn, WireIsClear
  <2> QED
    BY <2>4, <2>5, <2>6, <2>7, <2>8
<1>3. CASE ReceiveFails
  <2>1. /\ connected' = FALSE /\ call' = Idle /\ call.at = "reply"
        /\ UNCHANGED <<authed, hostSet, requestId, wire, issued, answer, connects, excuse>>
    BY <1>3 DEF ReceiveFails
  <2>2. RconTypes' /\ CallIsPlaced'
    BY <2>1 DEF Idle, CallIsPlaced
  <2>3. OnlyPassword' /\ AuthIsGranted' /\ WireIsClear' /\ AnswerIsOwn'
    BY <2>1 DEF OnlyPassword, AuthIsGranted, NoAuthOut, WireIsClear, AnswerIsOwn, Idle
  <2> QED
    BY <2>2, <2>3
<1> QED
  BY <1>1, <1>2, <1>3

\* What the server does to a packet it reads: it takes it, and answers.
LEMMA RepliesWith ==
  ASSUME wire \in Wires, wire.out # <<>>, NEW packets \in Seq(Packets),
         NEW grant \in BOOLEAN, Replies(packets, grant)
  PROVE  /\ wire' \in Wires /\ wire'.granted = grant
         /\ wire'.out = Tail(wire.out) /\ wire'.in = wire.in \o packets
         /\ Head(wire.out) = wire.out[1] /\ Head(wire.out) \in Packets
         /\ Len(wire.out) \in Nat /\ Len(wire.out) > 0
         /\ Len(Tail(wire.out)) = Len(wire.out) - 1
         /\ \A i \in 1..Len(wire'.out) :
              i + 1 \in 1..Len(wire.out) /\ wire'.out[i] = wire.out[i + 1]
         /\ Len(wire.out) = 1 => wire'.out = <<>>
         /\ wire.in = <<>> => wire'.in = packets
         /\ Len(wire'.in) = Len(wire.in) + Len(packets)
         /\ \A i \in 1..Len(wire'.in) :
              \/ i \in 1..Len(wire.in) /\ wire'.in[i] = wire.in[i]
              \/ i - Len(wire.in) \in 1..Len(packets) /\ wire'.in[i] = packets[i - Len(wire.in)]
<1>1. /\ wire.out \in Seq(Packets) /\ wire.in \in Seq(Packets)
      /\ Tail(wire.out) \in Seq(Packets) /\ wire.in \o packets \in Seq(Packets)
  BY DEF Wires
<1>2. /\ wire' \in Wires /\ wire'.granted = grant
      /\ wire'.out = Tail(wire.out) /\ wire'.in = wire.in \o packets
  BY <1>1 DEF Replies, Wires
<1>3. /\ Head(wire.out) = wire.out[1] /\ Head(wire.out) \in Packets
      /\ Len(wire.out) \in Nat /\ Len(wire.out) > 0
      /\ Len(Tail(wire.out)) = Len(wire.out) - 1
      /\ \A i \in 1..Len(Tail(wire.out)) :
           i + 1 \in 1..Len(wire.out) /\ Tail(wire.out)[i] = wire.out[i + 1]
      /\ Len(wire.out) = 1 => Tail(wire.out) = <<>>
  BY <1>1, TailOf
<1>4. /\ wire.in = <<>> => wire.in \o packets = packets
      /\ Len(wire.in \o packets) = Len(wire.in) + Len(packets)
      /\ \A i \in 1..Len(wire.in \o packets) :
           \/ i \in 1..Len(wire.in) /\ (wire.in \o packets)[i] = wire.in[i]
           \/ /\ i - Len(wire.in) \in 1..Len(packets)
              /\ (wire.in \o packets)[i] = packets[i - Len(wire.in)]
  BY <1>1
<1> QED
  BY <1>2, <1>3, <1>4

\* The server judges a password, runs a command, or closes the session.
LEMMA ServerStep ==
  ASSUME RconInv, ServerJudgesPassword \/ ServerExecutes \/ ServerCloses
  PROVE  RconInv'
<1> USE DEF RconInv, RconTypes, TypeOK, Calls, Kinds, Steps, At, history
<1>1. CASE ServerJudgesPassword
  <2> DEFINE p == Head(wire.out)
             verdict(ok) == [type |-> "authResponse", id |-> IF ok THEN p.id ELSE Rejected,
                             of |-> NoCommand]
             empty == [type |-> "value", id |-> p.id, of |-> NoCommand]
  <2>1. /\ wire.out # <<>> /\ p.type = "auth" /\ p \in Packets /\ p = wire.out[1]
        /\ UNCHANGED <<connected, authed, hostSet, requestId, call, issued, answer,
                       connects, excuse>>
    BY <1>1 DEF ServerJudgesPassword, Reads, Wires
  <2>2. PICK ok \in BOOLEAN, first \in {<<>>, <<empty>>} : Replies(first \o <<verdict(ok)>>, ok)
    BY <1>1 DEF ServerJudgesPassword
  <2> DEFINE v == verdict(ok)
             packets == first \o <<v>>
  <2>3. /\ v \in Packets /\ v.type = "authResponse" /\ (v.id # Rejected => ok)
        /\ empty \in Packets /\ empty.type = "value"
    BY <2>1 DEF Packets
  <2>4. Replies(packets, ok) /\ packets = first \o <<v>>
    BY <2>2
  <2> HIDE DEF v, packets, empty, verdict, p
  <2>5. /\ packets \in Seq(Packets)
        /\ Len(packets) = 1 \/ (Len(packets) = 2 /\ packets[1].type = "value")
        /\ \A i \in 1..Len(packets) :
             packets[i].type = "authResponse" /\ packets[i].id # Rejected => ok
    <3>1. CASE first = <<>>
      <4>1. packets = <<v>>
        BY <2>3, <2>4, <3>1
      <4>2. Len(packets) = 1 /\ packets[1] = v /\ packets \in Seq(Packets)
        BY <2>3, <4>1
      <4> QED
        BY <2>3, <4>2
    <3>2. CASE first = <<empty>>
      <4>1. /\ <<empty>> \in Seq(Packets) /\ Len(<<empty>>) = 1 /\ <<empty>>[1] = empty
            /\ <<v>> \in Seq(Packets) /\ Len(<<v>>) = 1 /\ <<v>>[1] = v
        BY <2>3
      <4>2. /\ Len(packets) = 2 /\ packets[1] = empty /\ packets[2] = v
            /\ packets \in Seq(Packets)
        BY <2>4, <3>2, <4>1
      <4> QED
        BY <2>3, <4>2
    <3> QED
      BY <3>1, <3>2
  <2>7. /\ wire' \in Wires /\ wire'.granted = ok /\ wire.in \in Seq(Packets)
        /\ Len(wire.out) \in Nat /\ Len(wire.out) > 0 /\ wire.out[1].type = "auth"
        /\ \A i \in 1..Len(wire'.out) :
             i + 1 \in 1..Len(wire.out) /\ wire'.out[i] = wire.out[i + 1]
        /\ Len(wire.out) = 1 => wire'.out = <<>>
        /\ wire.in = <<>> => wire'.in = packets
        /\ \A i \in 1..Len(wire'.in) :
             \/ i \in 1..Len(wire.in) /\ wire'.in[i] = wire.in[i]
             \/ i - Len(wire.in) \in 1..Len(packets) /\ wire'.in[i] = packets[i - Len(wire.in)]
    <3>1. wire.in \in Seq(Packets) /\ wire.out # <<>> /\ packets \in Seq(Packets)
      BY <2>1, <2>5 DEF Wires
    <3>2. wire'.granted = ok /\ Replies(packets, wire'.granted)
      BY <2>4 DEF Replies, Wires
    <3> QED
      BY <2>1, <3>1, <3>2, RepliesWith DEF p
  <2>8. ~NoAuthOut
    BY <2>7 DEF NoAuthOut
  <2>9. ~authed => wire'.out = <<>>
    BY <2>7 DEF OnlyPassword
  <2>10. RconTypes'
    BY <2>1, <2>7 DEF Wires
  <2>11. call.at # "auth"
    BY <2>1 DEF CallIsPlaced
  <2>12. CallIsPlaced' /\ OnlyPassword' /\ AnswerIsOwn'
    BY <2>1, <2>9, <2>11 DEF CallIsPlaced, OnlyPassword, AnswerIsOwn
  <2>13. AuthIsGranted'
    <3> SUFFICES ASSUME "uninitialised" \notin excuse
                 PROVE  /\ authed' => wire'.granted /\ NoAuthOut'
                        /\ \A i \in 1..Len(wire'.in) :
                             wire'.in[i].type = "authResponse" /\ wire'.in[i].id # Rejected =>
                               wire'.granted /\ NoAuthOut'
      BY <2>1 DEF AuthIsGranted
    <3>1. ~authed
      BY <2>8 DEF AuthIsGranted
    <3>2. NoAuthOut'
      BY <2>9, <3>1 DEF NoAuthOut
    <3>3. \A i \in 1..Len(wire.in) :
            ~(wire.in[i].type = "authResponse" /\ wire.in[i].id # Rejected)
      BY <2>8 DEF AuthIsGranted
    <3>4. \A i \in 1..Len(wire'.in) :
            wire'.in[i].type = "authResponse" /\ wire'.in[i].id # Rejected => ok
      <4> SUFFICES ASSUME NEW i \in 1..Len(wire'.in),
                          wire'.in[i].type = "authResponse", wire'.in[i].id # Rejected
                   PROVE  ok
        OBVIOUS
      <4>1. CASE i \in 1..Len(wire.in) /\ wire'.in[i] = wire.in[i]
        BY <3>3, <4>1
      <4>2. CASE /\ i - Len(wire.in) \in 1..Len(packets)
                 /\ wire'.in[i] = packets[i - Len(wire.in)]
        BY <2>5, <4>2
      <4> QED
        BY <2>7, <4>1, <4>2
    <3> QED
      BY <2>1, <2>7, <3>1, <3>2, <3>4
  <2>14. WireIsClear'
    <3> SUFFICES ASSUME excuse = {}
                 PROVE  WireIsClear'
      BY <2>1 DEF WireIsClear
    <3>1. ~authed
      BY <2>8 DEF AuthIsGranted
    <3>2. call.at \notin {"exec", "reply", "authReplyAgain"}
      BY <2>1, <3>1 DEF WireIsClear, CallIsPlaced
    <3>3. call.at = "authReply" => wire.in = <<>>
      BY <2>1 DEF WireIsClear
    <3> QED
      BY <2>1, <2>5, <2>7, <2>9, <3>1, <3>2, <3>3 DEF WireIsClear
  <2> QED
    BY <2>10, <2>12, <2>13, <2>14
<1>2. CASE ServerExecutes
  <2> DEFINE value == [type |-> "value", id |-> Head(wire.out).id, of |-> Head(wire.out).of]
  <2>1. /\ wire.out # <<>> /\ Head(wire.out).type = "exec"
        /\ Head(wire.out) \in Packets /\ Head(wire.out) = wire.out[1]
        /\ UNCHANGED <<connected, authed, hostSet, requestId, call, issued, answer, connects>>
    BY <1>2 DEF ServerExecutes, Reads, Wires
  <2>2. value \in Packets /\ value.type = "value" /\ value.of = wire.out[1].of
    BY <2>1 DEF Packets
  <2>3. PICK packets \in {<<value>>, <<value, value>>} :
          /\ Replies(packets, wire.granted)
          /\ \/ packets = <<value>> /\ excuse' = excuse
             \/ excuse' = excuse \cup {"split"}
    BY <1>2 DEF ServerExecutes
  <2> HIDE DEF value
  <2>4. /\ packets \in Seq(Packets) /\ Len(packets) \in {1, 2}
        /\ \A i \in 1..Len(packets) : packets[i] = value
        /\ packets = <<value>> => Len(packets) = 1
    <3>1. CASE packets = <<value>>
      BY <2>2, <3>1
    <3>2. CASE packets = <<value, value>>
      BY <2>2, <3>2
    <3> QED
      BY <3>1, <3>2
  <2>5. /\ wire' \in Wires /\ wire'.granted = wire.granted /\ wire.in \in Seq(Packets)
        /\ Len(wire.out) \in Nat /\ Len(wire.out) > 0 /\ wire.out[1].type = "exec"
        /\ \A i \in 1..Len(wire'.out) :
             i + 1 \in 1..Len(wire.out) /\ wire'.out[i] = wire.out[i + 1]
        /\ Len(wire.out) = 1 => wire'.out = <<>>
        /\ wire.in = <<>> => wire'.in = packets
        /\ \A i \in 1..Len(wire'.in) :
             \/ i \in 1..Len(wire.in) /\ wire'.in[i] = wire.in[i]
             \/ i - Len(wire.in) \in 1..Len(packets) /\ wire'.in[i] = packets[i - Len(wire.in)]
    <3>1. wire.granted \in BOOLEAN
      BY DEF Wires
    <3> QED
      BY <2>1, <2>3, <2>4, <3>1, RepliesWith DEF Wires
  <2>6. authed
    BY <2>5 DEF OnlyPassword
  <2>7. RconTypes'
    BY <2>1, <2>3, <2>5 DEF Wires
  <2>8. CallIsPlaced' /\ OnlyPassword' /\ AnswerIsOwn'
    BY <2>1, <2>3, <2>6 DEF CallIsPlaced, OnlyPassword, AnswerIsOwn
  <2>9. AuthIsGranted'
    <3>1. NoAuthOut => NoAuthOut'
      <4>1. \A i \in 1..Len(wire'.out) :
              i + 1 \in 1..Len(wire.out) /\ wire'.out[i] = wire.out[i + 1]
        BY <2>5
      <4> QED
        BY ONLY <4>1 DEF NoAuthOut
    <3>2. "uninitialised" \notin excuse' => "uninitialised" \notin excuse
      BY <2>3
    <3>3. "uninitialised" \notin excuse => wire.granted /\ NoAuthOut
      BY <2>6 DEF AuthIsGranted
    <3> QED
      BY <2>1, <2>5, <3>1, <3>2, <3>3 DEF AuthIsGranted
  <2>10. WireIsClear'
    <3> SUFFICES ASSUME excuse' = {}
                 PROVE  WireIsClear'
      BY DEF WireIsClear
    <3>1. excuse = {} /\ Len(packets) = 1 /\ packets[1].of = wire.out[1].of
      BY <2>2, <2>3, <2>4
    <3>2. call.at # "exec" /\ ~(call.at = "idle" /\ connected) /\ ~call.at = "authReplyAgain"
          /\ ~call.at = "authReply"
      BY <2>1, <2>6, <3>1 DEF WireIsClear, CallIsPlaced
    <3>3. call.at = "reply" =>
            wire.in = <<>> /\ Len(wire.out) = 1 /\ wire.out[1].of = call.cmd
      BY <2>1, <3>1 DEF WireIsClear
    <3> QED
      BY <2>1, <2>5, <3>1, <3>2, <3>3 DEF WireIsClear
  <2> QED
    BY <2>7, <2>8, <2>9, <2>10
<1>3. CASE ServerCloses
  <2>1. /\ wire' \in Wires /\ wire'.out = <<>> /\ wire'.in = wire.in
        /\ wire'.granted = wire.granted
        /\ UNCHANGED <<connected, authed, hostSet, requestId, call, issued, answer,
                       connects, excuse>>
    <3>1. wire' = [wire EXCEPT !.closed = TRUE, !.out = <<>>]
      BY <1>3 DEF ServerCloses
    <3>2. wire' \in Wires /\ wire'.out = <<>> /\ wire'.in = wire.in /\ wire'.granted = wire.granted
      <4>1. wire \in Wires /\ <<>> \in Seq(Packets)
        BY DEF Wires
      <4> QED
        BY ONLY <3>1, <4>1 DEF Wires
    <3> QED
      BY <1>3, <3>2 DEF ServerCloses
  <2>2. RconTypes' /\ CallIsPlaced' /\ OnlyPassword' /\ AnswerIsOwn'
    BY <2>1 DEF CallIsPlaced, OnlyPassword, AnswerIsOwn, Wires
  <2>3. NoAuthOut'
    BY <2>1 DEF NoAuthOut
  <2>4. AuthIsGranted'
    BY <2>1, <2>3 DEF AuthIsGranted
  <2>5. WireIsClear'
    BY <2>1 DEF WireIsClear
  <2> QED
    BY <2>2, <2>4, <2>5
<1> QED
  BY <1>1, <1>2, <1>3
-----------------------------------------------------------------------------

LEMMA RconStep == RconInv /\ [Next]_vars => RconInv'
<1> SUFFICES ASSUME RconInv, [Next]_vars
             PROVE  RconInv'
  OBVIOUS
<1>1. CASE UNCHANGED vars
  BY <1>1
  DEF vars, RconInv, RconTypes, TypeOK, CallIsPlaced, OnlyPassword, AuthIsGranted, NoAuthOut,
      WireIsClear, AnswerIsOwn
<1>2. CASE Next
  BY <1>2, EnterStep, AuthStep, CommandStep, ServerStep DEF Next, CallStep
<1> QED
  BY <1>1, <1>2

\* What the invariant says to those who use the client.
LEMMA RconInvProtects ==
  RconInv => TypeOK /\ CommandsNeedAuth /\ ConnectedMeansAuthenticated /\ AnswerIsOwn
<1> SUFFICES ASSUME RconInv
             PROVE  TypeOK /\ CommandsNeedAuth /\ ConnectedMeansAuthenticated /\ AnswerIsOwn
  OBVIOUS
<1>1. CommandsNeedAuth
  <2> SUFFICES ASSUME Reads("exec")
               PROVE  wire.granted \/ "uninitialised" \in excuse
    BY DEF CommandsNeedAuth
  <2>1. wire.out # <<>> /\ wire.out[1].type = "exec"
    BY DEF Reads, RconInv, RconTypes, Wires
  <2> QED
    BY <2>1 DEF RconInv, OnlyPassword, AuthIsGranted
<1>2. ConnectedMeansAuthenticated
  BY DEF ConnectedMeansAuthenticated, RconInv, AuthIsGranted
<1> QED
  BY <1>1, <1>2 DEF RconInv, RconTypes
-----------------------------------------------------------------------------

\* For any commands, every variable keeps its type: a call is where the code puts it.
THEOREM RconKeepsTypes == Spec => []TypeOK
BY RconInitial, RconStep, RconInvProtects, PTL DEF Spec

\* For any commands and any server, no command is sent on a session whose password the
\* server has not accepted, but for the verdict on a packet never received.
THEOREM CommandsAreAuthorised == Spec => []CommandsNeedAuth
BY RconInitial, RconStep, RconInvProtects, PTL DEF Spec

\* For any commands and any server, isConnected() is true only of such a session.
THEOREM ConnectedIsAuthenticated == Spec => []ConnectedMeansAuthenticated
BY RconInitial, RconStep, RconInvProtects, PTL DEF Spec

\* For any commands and any server, a command is given its own answer or none, as long as
\* no answer is split and no verdict is made up.
THEOREM AnswersAreOwn == Spec => []AnswerIsOwn
BY RconInitial, RconStep, RconInvProtects, PTL DEF Spec
=============================================================================
