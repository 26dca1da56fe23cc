------------------------------ MODULE WifiJoin ------------------------------
(***************************************************************************)
(* Telling the camera to join a WiFi network, over the TCP connection its  *)
(* own access point carries: JoinNetwork and GetWifiInfo (pkg/wifi/join.go) *)
(* and the three commands that use them: `wifi join`, `wifi info`, and     *)
(* `stream --wifi-ssid`, which dials the camera's new address afterwards.  *)
(*                                                                         *)
(* The camera that joins a network gives up the access point, and with it  *)
(* this connection: that it is lost, an answer or not, is part of the      *)
(* protocol.  The connection's keep-alive and packets are module           *)
(* WifiStream's; here a packet is read whole.                              *)
(***************************************************************************)
EXTENDS Naturals, Sequences

CONSTANTS
  Ops,          \* the commands in play, a subset of AllOps
  MaxPackets,   \* bound: packets the camera sends
  InCap         \* bound: packets on their way to the host

AllOps == {"join", "info", "stream"}

ASSUME WifiJoinAssumption ==
  /\ Ops \subseteq AllOps
  /\ MaxPackets \in Nat
  /\ InCap \in Nat \ {0}

\* What the camera may have to tell of its attempt to join.
Fates == {"joined", "timeout", "failed"}

\* Packets.  "ok", "error" and "odd" answer the command, with code 200, 500 or
\* another; "result" is notification 8232, which tells the fate, and of the network
\* nothing, something, or the camera's address, unless it is garbled; a "stray"
\* answers, with 200 or 500, a command of another number; "noise" is anything the
\* loops skip: keep-alives, streams, packets too short to parse.
Plain(t) == [type |-> t, fate |-> "none", info |-> "none"]
Results == [type : {"result"}, fate : Fates, info : {"none", "network", "address", "garbled"}]
Noise == {Plain("stray 200"), Plain("stray 500"), Plain("noise")}
Packets == Results \cup Noise \cup {Plain("ok"), Plain("error"), Plain("odd")}

VARIABLES
  at,           \* where the command is
  op,           \* which command it is
  deadline,     \* the read deadline: not set, ahead or past
  cancelled,    \* whether the context is done
  gotOK,        \* JoinNetwork has seen the camera accept the command
  hand,         \* the packet just read
  inbox,        \* packets on their way to the host
  up,           \* whether the connection works
  cut,          \* history: why the last read failed
  outcome,      \* what JoinNetwork or GetWifiInfo returned
  reported,     \* whether it came with an address
  answer,       \* the camera: how it answered the command
  fate,         \* the camera: what came of its attempt to join
  told,         \* the camera: whether it has sent the result
  sent          \* how many packets the camera has sent

camVars == <<answer, fate, told, sent>>
linkVars == <<inbox, up>>
resVars == <<cut, outcome, reported>>
vars == <<at, op, deadline, cancelled, gotOK, hand, linkVars, resVars, camVars>>

None == Plain("none")

\* Proto3 leaves out a field with its default value, and WIFI_SUCCESS is 0: a success
\* with nothing to add has no body.
EmptyBody(p) == p.fate = "joined" /\ p.info = "none"

TypeOK ==
  /\ at \in {"send", "top", "read", "have", "settle", "redial", "returned"}
  /\ op \in AllOps
  /\ deadline \in {"off", "ahead", "past"}
  /\ cancelled \in BOOLEAN /\ gotOK \in BOOLEAN /\ up \in BOOLEAN /\ told \in BOOLEAN
  /\ hand \in Packets \cup {None} /\ (hand # None <=> at = "have")
  /\ inbox \in Seq(Packets) /\ Len(inbox) <= InCap
  /\ cut \in {"none", "lost", "deadline"}
  /\ outcome \in {"none", "joined", "rejected", "camera failed", "failed", "info"}
  /\ (outcome # "none" <=> at \in {"settle", "redial", "returned"})
  /\ reported \in BOOLEAN
  /\ answer \in {"none", "unread", "ok", "error", "odd"}
  /\ fate \in Fates \cup {"none"}
  /\ sent \in 0 .. MaxPackets

Init ==
  /\ at = "send" /\ op \in Ops
  /\ deadline = "off" /\ cancelled = FALSE /\ gotOK = FALSE
  /\ hand = None /\ inbox = <<>> /\ up = TRUE
  /\ cut = "none" /\ outcome = "none" /\ reported = FALSE
  /\ answer = "none" /\ fate = "none" /\ told = FALSE /\ sent = 0

\* Ctrl+C.
Cancel ==
  /\ ~ cancelled /\ cancelled' = TRUE
  /\ UNCHANGED <<at, op, deadline, gotOK, hand, linkVars, resVars, camVars>>

\* The deadline passes.
Expire ==
  /\ deadline = "ahead" /\ deadline' = "past"
  /\ UNCHANGED <<at, op, cancelled, gotOK, hand, linkVars, resVars, camVars>>

------------------------------------------------------------------------------
(* JoinNetwork and GetWifiInfo.                                             *)

\* A stream command that goes on without an address.
FinishAnyhow(o, ip) ==
  /\ outcome' = o
  /\ reported' = ip
  /\ deadline' = "off"
  /\ up' = FALSE
  /\ at' = IF op = "stream" /\ o = "joined" THEN "settle" ELSE "returned"

\* JoinNetwork or GetWifiInfo returns o; the deferred reset of the deadline.  Of
\* the commands that use it only `stream` goes on, and only if it was given the
\* camera's new address.  The connection is closed.
Finish(o, ip) ==
  /\ outcome' = o
  /\ reported' = ip
  /\ deadline' = "off"
  /\ up' = FALSE
  /\ at' = IF op = "stream" /\ o = "joined" /\ ip THEN "settle" ELSE "returned"

\* A command sent without a deadline for its answer.
SendWithoutDeadline ==
  /\ at = "send" /\ up
  /\ at' = "top" /\ answer' = "unread"
  /\ UNCHANGED <<op, deadline, cancelled, gotOK, hand, linkVars, resVars, fate, told, sent>>

\* The command is written and the read deadline set, or the write fails.
Send ==
  /\ at = "send"
  /\ \/ up /\ at' = "top" /\ deadline' = "ahead" /\ answer' = "unread"
        /\ UNCHANGED <<up, outcome, reported>>
     \/ ~ up /\ Finish("failed", FALSE) /\ UNCHANGED answer
  /\ UNCHANGED <<op, cancelled, gotOK, hand, inbox, cut, fate, told, sent>>

\* The top of the loop: the context, then, in JoinNetwork only, the clock.
Top ==
  /\ at = "top"
  /\ IF cancelled \/ (op # "info" /\ deadline = "past")
     THEN Finish("failed", FALSE)
     ELSE at' = "read" /\ UNCHANGED <<deadline, up, outcome, reported>>
  /\ UNCHANGED <<op, cancelled, gotOK, hand, inbox, cut, camVars>>

\* ReadRaw: the next packet.  It may be read past the deadline, when it is in
\* Conn.buf already, and after the camera has closed the connection.
Read ==
  /\ at = "read" /\ inbox # <<>>
  /\ at' = "have" /\ hand' = Head(inbox) /\ inbox' = Tail(inbox)
  /\ UNCHANGED <<op, deadline, cancelled, gotOK, up, resVars, camVars>>

\* ReadRaw fails: the connection is lost, or the deadline passes during the read.
\* JoinNetwork takes either for success once the command was accepted.
ReadFails ==
  /\ at = "read"
  /\ \/ ~ up /\ cut' = "lost"
     \/ deadline = "past" /\ cut' = "deadline"
  /\ Finish(IF op # "info" /\ gotOK THEN "joined" ELSE "failed", FALSE)
  /\ UNCHANGED <<op, cancelled, gotOK, hand, inbox, camVars>>

Continue == at' = "top" /\ UNCHANGED <<deadline, up, outcome, reported>>

\* A result without a body that is returned as neither result nor error.
JoinResultLost ==
  /\ hand.type = "result"
  /\ Finish(IF EmptyBody(hand) \/ hand.info = "garbled" THEN "none"
            ELSE IF hand.fate = "joined" THEN "joined" ELSE "camera failed",
            hand.info = "address")
  /\ UNCHANGED gotOK

\* Notification 8232, whatever number it carries: parseWifiConnectionResult.
JoinResult ==
  /\ hand.type = "result"
  /\ Finish(IF EmptyBody(hand) \/ hand.info = "garbled" THEN "failed"
            ELSE IF hand.fate = "joined" THEN "joined" ELSE "camera failed",
            hand.info = "address")
  /\ UNCHANGED gotOK

\* Answers taken without a look at their number.
JoinAnswerOfAny ==
  \/ hand.type \in {"ok", "stray 200"} /\ gotOK' = TRUE /\ Continue
  \/ hand.type \in {"error", "odd", "stray 500"} /\ Finish("rejected", FALSE) /\ UNCHANGED gotOK

\* The answer to this command, by its number.
JoinAnswer ==
  \/ hand.type = "ok" /\ gotOK' = TRUE /\ Continue
  \/ hand.type \in {"error", "odd"} /\ Finish("rejected", FALSE) /\ UNCHANGED gotOK

JoinSkips == hand \in Noise /\ Continue /\ UNCHANGED gotOK

JoinNetwork == op # "info" /\ (JoinResult \/ JoinAnswer \/ JoinSkips)

\* Anything but the answer to this command is skipped; code 500 is an error, and
\* so is a body that does not parse.
GetWifiInfo ==
  /\ op = "info"
  /\ \/ hand.type = "error" /\ Finish("rejected", FALSE)
     \/ hand.type \in {"ok", "odd"} /\ \E o \in {"info", "failed"} : Finish(o, FALSE)
     \/ hand.type \notin {"ok", "error", "odd"} /\ Continue
  /\ UNCHANGED gotOK

Handle ==
  /\ at = "have"
  /\ JoinNetwork \/ GetWifiInfo
  /\ hand' = None
  /\ UNCHANGED <<op, cancelled, inbox, cut, camVars>>

\* joinWifiThenReconnect waits two seconds, then the stream is dialled.
Settle ==
  /\ at = "settle"
  /\ \/ at' = "redial" /\ UNCHANGED outcome
     \/ cancelled /\ at' = "returned" /\ outcome' = "failed"
  /\ UNCHANGED <<op, deadline, cancelled, gotOK, hand, linkVars, cut, reported, camVars>>

------------------------------------------------------------------------------
(* The camera (external).                                                   *)

Sends(p) ==
  /\ up /\ sent < MaxPackets /\ Len(inbox) < InCap
  /\ inbox' = Append(inbox, p)
  /\ sent' = sent + 1

\* It answers the command, once.
CameraAnswers(code) ==
  /\ answer = "unread"
  /\ answer' = code
  /\ Sends(Plain(code))
  /\ UNCHANGED <<at, op, deadline, cancelled, gotOK, hand, up, resVars, fate, told>>

\* It tries to join the network, unless it refused to.
CameraTries ==
  /\ op # "info" /\ answer \in {"unread", "ok"} /\ fate = "none"
  /\ fate' \in Fates
  /\ UNCHANGED <<at, op, deadline, cancelled, gotOK, hand, linkVars, resVars, answer, told, sent>>

\* It tells the result, once.
CameraTells ==
  /\ fate # "none" /\ ~ told
  /\ told' = TRUE
  /\ \E p \in Results : p.fate = fate /\ Sends(p)
  /\ UNCHANGED <<at, op, deadline, cancelled, gotOK, hand, up, resVars, answer, fate>>

CameraChatters ==
  /\ \E p \in Noise : Sends(p)
  /\ UNCHANGED <<at, op, deadline, cancelled, gotOK, hand, up, resVars, answer, fate, told>>

\* The access point goes, or the network fails; packets on their way may go with it.
Drops ==
  /\ up /\ up' = FALSE
  /\ inbox' \in {inbox, <<>>}
  /\ UNCHANGED <<at, op, deadline, cancelled, gotOK, hand, resVars, camVars>>

------------------------------------------------------------------------------
Host == Send \/ Top \/ Read \/ ReadFails \/ Handle \/ Settle

Camera ==
  \/ \E code \in {"ok", "error", "odd"} : CameraAnswers(code)
  \/ CameraTries \/ CameraTells \/ CameraChatters \/ Drops

Next == Host \/ Camera \/ Cancel \/ Expire

Spec == Init /\ [][Next]_vars

\* The goroutine is scheduled and the deadline passes.  Camera and network promise
\* nothing.
FairSpec == Spec /\ WF_vars(Host) /\ WF_vars(Expire)

------------------------------------------------------------------------------
(* Properties.                                                              *)

\* What is reported rests on the camera's word about this command, and never on an
\* answer to another: success on a result that says so or on a link cut after the
\* camera accepted, a rejection on its refusal, a failure to join on its attempt's
\* (join.go:77-117, 146-160).
CameraSaidSo ==
  /\ outcome = "joined" => fate = "joined" \/ (answer = "ok" /\ cut # "none")
  /\ outcome = "rejected" => answer \in {"error", "odd"}
  /\ outcome = "camera failed" => fate \in {"timeout", "failed"}

\* `stream --wifi-ssid` dials the new address only of a camera that joined: success
\* assumed from a lost connection never leads there (cmd_stream.go:243-245).
RedialsJoined == at = "redial" => fate = "joined" /\ told

\* The command comes back by its deadline, whatever the camera does.
JoinReturns == at = "top" ~> at \in {"returned", "redial"}

\* A join that timed out is reported as timed out (join.go:70-74).
TimeoutIsAnError == outcome = "joined" => cut # "deadline"

------------------------------------------------------------------------------
(* The inductive invariant behind CameraSaidSo and RedialsJoined; WifiJoinProof *)
(* proves it inductive.                                                         *)

\* The camera stands behind what a packet says.
Backed(p) ==
  /\ p.type \in {"ok", "error", "odd"} => answer = p.type
  /\ p.type = "result" => fate = p.fate /\ told

IInv ==
  /\ TypeOK
  /\ at = "send" => answer = "none"
  /\ \A i \in 1 .. Len(inbox) : Backed(inbox[i])
  /\ at = "have" => Backed(hand)
  /\ gotOK => answer = "ok"
  /\ told => fate # "none"
  /\ at \in {"settle", "redial"} => fate = "joined" /\ told
  /\ CameraSaidSo
=============================================================================
