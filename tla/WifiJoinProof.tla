---------------------------- MODULE WifiJoinProof ----------------------------
(* Machine-checked proofs about WifiJoin.                                    *)
EXTENDS WifiJoin, TLAPS

LEMMA NoneIsNoPacket == None \notin Packets
BY DEF None, Plain, Packets, Results, Noise

Outcomes == {"joined", "rejected", "camera failed", "failed", "info"}

\* Whatever JoinNetwork or GetWifiInfo returns, it has returned something.
LEMMA FinishTypes ==
  ASSUME NEW o \in Outcomes, NEW ip \in BOOLEAN, Finish(o, ip)
  PROVE  /\ at' \in {"settle", "returned"}
         /\ deadline' = "off" /\ up' = FALSE
         /\ outcome' = o
         /\ reported' \in BOOLEAN
BY DEF Finish

\* A packet handled ends the command or sends its loop round again.
LEMMA HandleEnds ==
  Handle => Continue \/ \E o \in Outcomes, ip \in BOOLEAN : Finish(o, ip)
<1> SUFFICES ASSUME Handle PROVE Continue \/ \E o \in Outcomes, ip \in BOOLEAN : Finish(o, ip)
  OBVIOUS
<1>1. CASE JoinNetwork
  <2>1. CASE JoinResult
    <3>1. (hand.info = "address") \in BOOLEAN
      OBVIOUS
    <3>2. QED
      BY <2>1, <3>1 DEF JoinResult, Outcomes
  <2>2. QED
    BY <1>1, <2>1 DEF JoinNetwork, JoinAnswer, JoinSkips, Outcomes
<1>2. CASE GetWifiInfo
  BY <1>2 DEF GetWifiInfo, Outcomes
<1>3. QED
  BY <1>1, <1>2 DEF Handle

\* What the host does to its own variables keeps them within their types.
LEMMA HostTypes == TypeOK /\ Host => TypeOK'
<1> SUFFICES ASSUME TypeOK, Host PROVE TypeOK'
  OBVIOUS
<1> USE WifiJoinAssumption, NoneIsNoPacket
<1>1. CASE Send
  BY <1>1 DEF TypeOK, Send, Finish
<1>2. CASE Top
  <2>1. CASE Finish("failed", FALSE)
    <3>1. "failed" \in Outcomes /\ FALSE \in BOOLEAN
      BY DEF Outcomes
    <3>2. /\ at' \in {"settle", "returned"} /\ deadline' = "off" /\ up' = FALSE
          /\ outcome' = "failed" /\ reported' \in BOOLEAN
      BY <2>1, <3>1, FinishTypes
    <3>3. QED
      BY <1>2, <3>2 DEF TypeOK, Top, camVars
  <2>2. CASE at' = "read" /\ UNCHANGED <<deadline, up, outcome, reported>>
    BY <1>2, <2>2 DEF TypeOK, Top, camVars
  <2>3. QED
    BY <1>2, <2>1, <2>2 DEF Top
<1>3. CASE Read
  <2>1. Head(inbox) \in Packets /\ Tail(inbox) \in Seq(Packets) /\ Len(Tail(inbox)) <= InCap
    BY <1>3 DEF Read, TypeOK
  <2>3. QED
    BY <1>3, <2>1 DEF TypeOK, Read, resVars, camVars
<1>4. CASE ReadFails
  BY <1>4 DEF TypeOK, ReadFails, Finish, camVars
<1>5. CASE Handle
  <2>1. CASE \E o \in Outcomes, ip \in BOOLEAN : Finish(o, ip)
    <3>1. PICK o \in Outcomes, ip \in BOOLEAN : Finish(o, ip)
      BY <2>1
    <3>2. /\ at' \in {"settle", "returned"} /\ deadline' = "off" /\ up' = FALSE
          /\ outcome' \in Outcomes /\ reported' \in BOOLEAN
      BY <3>1, FinishTypes
    <3>3. gotOK' \in BOOLEAN
      BY <1>5 DEF TypeOK, Handle, JoinNetwork, JoinResult, JoinAnswer, JoinSkips, GetWifiInfo
    <3>4. QED
      BY ZenonT(60), <1>5, <3>2, <3>3 DEF TypeOK, Handle, Outcomes, camVars
  <2>2. CASE Continue
    <3>1. gotOK' \in BOOLEAN
      BY <1>5 DEF TypeOK, Handle, JoinNetwork, JoinResult, JoinAnswer, JoinSkips, GetWifiInfo
    <3>2. QED
      BY <1>5, <2>2, <3>1 DEF TypeOK, Handle, Continue, camVars
  <2>3. QED
    BY <1>5, <2>1, <2>2, HandleEnds
<1>6. CASE Settle
  <2>1. /\ at = "settle" /\ at' \in {"redial", "returned"} /\ outcome' \in {outcome, "failed"}
        /\ UNCHANGED <<op, deadline, cancelled, gotOK, hand, inbox, up, cut, reported, answer, fate, told, sent>>
    BY <1>6 DEF Settle, linkVars, camVars
  <2>2. hand = None /\ outcome \in Outcomes
    BY <2>1 DEF TypeOK, Outcomes
  <2>3. outcome' \in Outcomes
    BY <2>1, <2>2 DEF Outcomes
  <2>4. /\ at' \in {"send", "top", "read", "have", "settle", "redial", "returned"}
        /\ hand' \in Packets \cup {None} /\ (hand' # None <=> at' = "have")
    BY <2>1, <2>2
  <2>5. /\ outcome' \in {"none", "joined", "rejected", "camera failed", "failed", "info"}
        /\ (outcome' # "none" <=> at' \in {"settle", "redial", "returned"})
    BY <2>1, <2>3 DEF Outcomes
  <2>6. /\ op' \in AllOps /\ deadline' \in {"off", "ahead", "past"}
        /\ cancelled' \in BOOLEAN /\ gotOK' \in BOOLEAN
        /\ up' \in BOOLEAN /\ told' \in BOOLEAN
    BY <2>1 DEF TypeOK
  <2>7. /\ inbox' \in Seq(Packets) /\ Len(inbox') <= InCap
        /\ cut' \in {"none", "lost", "deadline"} /\ reported' \in BOOLEAN
        /\ answer' \in {"none", "unread", "ok", "error", "odd"}
        /\ fate' \in Fates \cup {"none"}
        /\ sent' \in 0 .. MaxPackets
    BY <2>1 DEF TypeOK
  <2>8. QED
    BY <2>4, <2>5, <2>6, <2>7 DEF TypeOK
<1>7. QED
  BY <1>1, <1>2, <1>3, <1>4, <1>5, <1>6 DEF Host

\* What happens around the host leaves the host's own variables alone, and keeps the
\* others within their types.
LEMMA WorldFrame ==
  ASSUME TypeOK,
         UNCHANGED <<at, op, gotOK, hand, cut, outcome, reported>>,
         deadline' \in {"off", "ahead", "past"}, cancelled' \in BOOLEAN,
         up' \in BOOLEAN, told' \in BOOLEAN,
         inbox' \in Seq(Packets), Len(inbox') <= InCap,
         answer' \in {"none", "unread", "ok", "error", "odd"},
         fate' \in Fates \cup {"none"}, sent' \in 0 .. MaxPackets
  PROVE  TypeOK'
<1>1. /\ at' \in {"send", "top", "read", "have", "settle", "redial", "returned"}
      /\ op' \in AllOps /\ gotOK' \in BOOLEAN
      /\ cut' \in {"none", "lost", "deadline"} /\ reported' \in BOOLEAN
      /\ outcome' \in {"none", "joined", "rejected", "camera failed", "failed", "info"}
  BY DEF TypeOK
<1>2. hand' \in Packets \cup {None} /\ (hand' # None <=> at' = "have")
  BY DEF TypeOK
<1>3. outcome' # "none" <=> at' \in {"settle", "redial", "returned"}
  BY DEF TypeOK
<1>4. QED
  BY <1>1, <1>2, <1>3 DEF TypeOK

LEMMA WorldTypes == TypeOK /\ (Camera \/ Cancel \/ Expire \/ UNCHANGED vars) => TypeOK'
<1> SUFFICES ASSUME TypeOK, Camera \/ Cancel \/ Expire \/ UNCHANGED vars PROVE TypeOK'
  OBVIOUS
<1>0. /\ deadline \in {"off", "ahead", "past"} /\ cancelled \in BOOLEAN
      /\ up \in BOOLEAN /\ told \in BOOLEAN
      /\ inbox \in Seq(Packets) /\ Len(inbox) <= InCap
      /\ answer \in {"none", "unread", "ok", "error", "odd"}
      /\ fate \in Fates \cup {"none"} /\ sent \in 0 .. MaxPackets
  BY DEF TypeOK
<1>1. ASSUME NEW p \in Packets, Sends(p)
      PROVE  inbox' \in Seq(Packets) /\ Len(inbox') <= InCap /\ sent' \in 0 .. MaxPackets
  BY <1>0, <1>1, WifiJoinAssumption DEF Sends
<1>2. ASSUME NEW code \in {"ok", "error", "odd"}, CameraAnswers(code) PROVE TypeOK'
  <2>1. Plain(code) \in Packets
    BY DEF Packets, Plain
  <2>2. inbox' \in Seq(Packets) /\ Len(inbox') <= InCap /\ sent' \in 0 .. MaxPackets
    BY <1>1, <1>2, <2>1 DEF CameraAnswers
  <2>3. QED
    BY <1>0, <1>2, <2>2, WorldFrame DEF CameraAnswers, resVars
<1>3. CASE CameraTries
  BY <1>0, <1>3, WorldFrame DEF CameraTries, linkVars, resVars
<1>4. CASE CameraTells
  <2>1. inbox' \in Seq(Packets) /\ Len(inbox') <= InCap /\ sent' \in 0 .. MaxPackets
    BY <1>1, <1>4 DEF CameraTells, Packets
  <2>2. QED
    BY <1>0, <1>4, <2>1, WorldFrame DEF CameraTells, resVars
<1>5. CASE CameraChatters
  <2>1. inbox' \in Seq(Packets) /\ Len(inbox') <= InCap /\ sent' \in 0 .. MaxPackets
    BY <1>1, <1>5 DEF CameraChatters, Packets
  <2>2. QED
    BY <1>0, <1>5, <2>1, WorldFrame DEF CameraChatters, resVars
<1>6. CASE Drops
  <2>1. inbox' \in Seq(Packets) /\ Len(inbox') <= InCap
    <3>1. <<>> \in Seq(Packets) /\ Len(<<>>) = 0
      OBVIOUS
    <3>2. inbox' = inbox \/ inbox' = <<>>
      BY <1>6 DEF Drops
    <3>3. CASE inbox' = inbox
      BY <1>0, <3>3
    <3>4. CASE inbox' = <<>>
      <4>1. 0 <= InCap
        BY WifiJoinAssumption
      <4>2. QED
        BY <3>1, <3>4, <4>1
    <3>5. QED
      BY <3>2, <3>3, <3>4
  <2>2. QED
    BY <1>0, <1>6, <2>1, WorldFrame DEF Drops, resVars, camVars
<1>7. CASE Cancel
  BY <1>0, <1>7, WorldFrame DEF Cancel, linkVars, resVars, camVars
<1>8. CASE Expire
  BY <1>0, <1>8, WorldFrame DEF Expire, linkVars, resVars, camVars
<1>9. CASE UNCHANGED vars
  BY <1>0, <1>9, WorldFrame DEF vars, linkVars, resVars, camVars
<1>10. QED
  BY <1>2, <1>3, <1>4, <1>5, <1>6, <1>7, <1>8, <1>9 DEF Camera

\* The camera does not go back on what it has said.
LEMMA CameraKeepsItsWord ==
  ASSUME IInv, [Next]_vars
  PROVE  /\ answer \in {"ok", "error", "odd"} => answer' = answer
         /\ told => told' /\ fate' = fate
         /\ fate # "none" => fate' = fate
<1> USE DEF IInv
<1>1. CASE Host
  BY <1>1 DEF Host, Send, Top, Read, ReadFails, Handle, Settle, Finish, camVars
<1>2. CASE Camera
  BY <1>2 DEF Camera, CameraAnswers, CameraTries, CameraTells, CameraChatters, Drops, camVars
<1>3. CASE Cancel \/ Expire \/ UNCHANGED vars
  BY <1>3 DEF Cancel, Expire, vars, camVars
<1>4. QED
  BY <1>1, <1>2, <1>3 DEF Next

\* So a packet that the camera stands behind stays one.
LEMMA BackedStays ==
  ASSUME IInv, [Next]_vars, NEW p, Backed(p)
  PROVE  Backed(p)'
BY CameraKeepsItsWord DEF Backed

\* Every packet under way is one the camera stands behind.
LEMMA InboxStep ==
  ASSUME IInv, [Next]_vars
  PROVE  (\A i \in 1 .. Len(inbox) : Backed(inbox[i]))'
<1>1. CASE inbox' = inbox \/ inbox' = <<>>
  BY <1>1, BackedStays DEF IInv
<1>2. CASE Read
  <2>1. inbox # <<>> /\ inbox' = Tail(inbox) /\ inbox \in Seq(Packets)
    BY <1>2 DEF Read, IInv, TypeOK
  <2>2. \A i \in 1 .. Len(inbox') : i + 1 \in 1 .. Len(inbox) /\ inbox'[i] = inbox[i + 1]
    BY <2>1
  <2>3. QED
    BY <2>2, BackedStays DEF IInv
<1>3. ASSUME NEW p, Sends(p), Backed(p)'
      PROVE  (\A i \in 1 .. Len(inbox) : Backed(inbox[i]))'
  <2>1. inbox' = Append(inbox, p) /\ inbox \in Seq(Packets)
    BY <1>3 DEF Sends, IInv, TypeOK
  <2>2. \A i \in 1 .. Len(inbox') :
          \/ i \in 1 .. Len(inbox) /\ inbox'[i] = inbox[i]
          \/ inbox'[i] = p
    BY <2>1
  <2>3. QED
    BY <1>3, <2>2, BackedStays DEF IInv
<1>4. ASSUME NEW code \in {"ok", "error", "odd"}, CameraAnswers(code)
      PROVE  (\A i \in 1 .. Len(inbox) : Backed(inbox[i]))'
  <2>1. Backed(Plain(code))'
    BY <1>4 DEF CameraAnswers, Backed, Plain
  <2>2. QED
    BY <1>3, <1>4, <2>1 DEF CameraAnswers
<1>5. CASE CameraTells
  <2>1. PICK p \in Results : p.fate = fate /\ Sends(p)
    BY <1>5 DEF CameraTells
  <2>2. Backed(p)'
    BY <1>5, <2>1 DEF CameraTells, Backed, Results
  <2>3. QED
    BY <1>3, <2>1, <2>2
<1>6. CASE CameraChatters
  <2>1. PICK p \in Noise : Sends(p)
    BY <1>6 DEF CameraChatters
  <2>2. Backed(p)'
    <3>1. PICK t \in {"stray 200", "stray 500", "noise"} : p = Plain(t)
      BY <2>1 DEF Noise
    <3>2. p.type = t
      BY <3>1 DEF Plain
    <3>3. QED
      BY <3>1, <3>2 DEF Backed
  <2>3. QED
    BY <1>3, <2>1, <2>2
<1>7. QED
  <2>1. CASE Host
    BY <1>1, <1>2, <2>1 DEF Host, Send, Top, ReadFails, Handle, Settle, linkVars
  <2>2. CASE Camera
    BY <1>1, <1>4, <1>5, <1>6, <2>2 DEF Camera, CameraTries, Drops, linkVars
  <2>3. CASE Cancel \/ Expire \/ UNCHANGED vars
    BY <1>1, <2>3 DEF Cancel, Expire, vars, linkVars
  <2>4. QED
    BY <2>1, <2>2, <2>3 DEF Next

\* What is reported rests on the camera's word, and a stream is only dialled again
\* to a camera that joined.
LEMMA ReportStep ==
  ASSUME IInv, [Next]_vars
  PROVE  /\ (at \in {"settle", "redial"} => fate = "joined" /\ told)'
         /\ CameraSaidSo'
<1> USE CameraKeepsItsWord DEF IInv
<1>1. CASE Handle
  <2>1. CASE JoinNetwork /\ JoinResult
    <3>1. fate = hand.fate /\ told /\ fate \in Fates
      BY <1>1, <2>1 DEF Handle, JoinResult, Backed, TypeOK
    <3>2. UNCHANGED <<cut, camVars>>
      BY <1>1 DEF Handle
    <3>3. CASE outcome' = "joined"
      BY <2>1, <3>1, <3>2, <3>3 DEF JoinResult, Finish, CameraSaidSo, camVars
    <3>4. CASE outcome' = "camera failed" /\ at' = "returned"
      BY <2>1, <3>1, <3>2, <3>4 DEF JoinResult, Finish, CameraSaidSo, camVars, Fates
    <3>5. CASE outcome' = "failed" /\ at' = "returned"
      BY <3>5 DEF CameraSaidSo
    <3>6. QED
      BY <2>1, <3>3, <3>4, <3>5 DEF JoinResult, Finish
  <2>2. CASE JoinNetwork /\ JoinAnswer
    BY <1>1, <2>2 DEF Handle, JoinAnswer, Finish, Continue, CameraSaidSo, Backed, camVars, TypeOK
  <2>3. CASE JoinNetwork /\ JoinSkips
    BY <1>1, <2>3 DEF Handle, JoinSkips, Continue, CameraSaidSo, camVars, TypeOK
  <2>4. CASE GetWifiInfo
    BY <1>1, <2>4 DEF Handle, GetWifiInfo, Finish, Continue, CameraSaidSo, Backed, camVars, TypeOK
  <2>5. QED
    BY <1>1, <2>1, <2>2, <2>3, <2>4 DEF Handle, JoinNetwork
<1>2. CASE ReadFails
  BY <1>2 DEF ReadFails, Finish, CameraSaidSo, camVars
<1>3. CASE Send \/ Top \/ Read
  BY <1>3 DEF Send, Top, Read, Finish, CameraSaidSo, resVars, camVars, TypeOK
<1>4. CASE Settle
  BY <1>4 DEF Settle, CameraSaidSo, camVars
<1>5. CASE Camera \/ Cancel \/ Expire \/ UNCHANGED vars
  <2>1. UNCHANGED <<at, cut, outcome>>
    BY <1>5 DEF Camera, CameraAnswers, CameraTries, CameraTells, CameraChatters, Drops, Cancel,
       Expire, vars, resVars
  <2>2. QED
    BY <2>1 DEF CameraSaidSo
<1>6. QED
  BY <1>1, <1>2, <1>3, <1>4, <1>5 DEF Next, Host

\* The invariant is inductive.
LEMMA Inductive ==
  ASSUME IInv, [Next]_vars
  PROVE  IInv'
<1>1. TypeOK'
  BY HostTypes, WorldTypes DEF IInv, Next
<1>2. (at = "send" => answer = "none")'
  <2>1. CASE Host
    BY <2>1 DEF IInv, Host, Send, Top, Read, ReadFails, Handle, JoinNetwork, JoinResult,
       JoinAnswer, JoinSkips, GetWifiInfo, Settle, Finish, Continue
  <2>2. CASE Camera \/ Cancel \/ Expire \/ UNCHANGED vars
    BY <2>2 DEF IInv, Camera, CameraAnswers, CameraTries, CameraTells, CameraChatters, Drops,
       Cancel, Expire, vars, camVars
  <2>3. QED
    BY <2>1, <2>2 DEF Next
<1>3. (\A i \in 1 .. Len(inbox) : Backed(inbox[i]))'
  BY InboxStep
<1>4. (at = "have" => Backed(hand))'
  <2>1. CASE Read
    <3>1. inbox # <<>> /\ inbox \in Seq(Packets) /\ hand' = inbox[1] /\ 1 \in 1 .. Len(inbox)
      BY <2>1 DEF Read, IInv, TypeOK
    <3>2. Backed(inbox[1])
      BY <3>1 DEF IInv
    <3>3. answer' = answer /\ fate' = fate /\ told' = told
      BY <2>1 DEF Read, camVars
    <3>4. QED
      BY <3>1, <3>2, <3>3 DEF Backed
  <2>2. CASE ~ Read
    <3>1. at' = "have" => at = "have" /\ hand' = hand
      BY <2>2 DEF Next, Host, Send, Top, ReadFails, Handle, JoinNetwork, JoinResult,
         JoinAnswer, JoinSkips, GetWifiInfo, Settle, Finish, Continue, Camera, CameraAnswers,
         CameraTries, CameraTells, CameraChatters, Drops, Cancel, Expire, vars
    <3>2. QED
      BY <3>1, CameraKeepsItsWord DEF Backed, IInv
  <2>3. QED
    BY <2>1, <2>2
<1>5. (gotOK => answer = "ok")'
  <2>1. CASE Handle
    BY <2>1 DEF IInv, Handle, JoinNetwork, JoinResult, JoinAnswer, JoinSkips, GetWifiInfo,
       Backed, camVars, TypeOK
  <2>2. CASE ~ Handle
    <3>1. gotOK' = gotOK
      BY <2>2 DEF Next, Host, Send, Top, Read, ReadFails, Settle, Camera, CameraAnswers,
         CameraTries, CameraTells, CameraChatters, Drops, Cancel, Expire, vars
    <3>2. QED
      BY <3>1, CameraKeepsItsWord DEF IInv
  <2>3. QED
    BY <2>1, <2>2
<1>6. (told => fate # "none")'
  <2>1. CASE Host
    BY <2>1 DEF IInv, Host, Send, Top, Read, ReadFails, Handle, Settle, camVars
  <2>2. CASE Camera \/ Cancel \/ Expire \/ UNCHANGED vars
    BY <2>2 DEF IInv, Camera, CameraAnswers, CameraTries, CameraTells, CameraChatters, Drops,
       Cancel, Expire, vars, camVars, Fates
  <2>3. QED
    BY <2>1, <2>2 DEF Next
<1>7. QED
  BY <1>1, <1>2, <1>3, <1>4, <1>5, <1>6, ReportStep DEF IInv

LEMMA InitIInv == Init => IInv
<1> SUFFICES ASSUME Init PROVE IInv
  OBVIOUS
<1>1. inbox = <<>> /\ inbox \in Seq(Packets) /\ Len(inbox) = 0 /\ 0 <= InCap
  BY WifiJoinAssumption DEF Init
<1>2. TypeOK
  <2>1. /\ op \in AllOps /\ sent \in 0 .. MaxPackets
        /\ hand \in Packets \cup {None} /\ (hand # None <=> at = "have")
    BY WifiJoinAssumption DEF Init
  <2>2. outcome # "none" <=> at \in {"settle", "redial", "returned"}
    BY DEF Init
  <2>3. QED
    BY <1>1, <2>1, <2>2 DEF Init, TypeOK
<1>3. QED
  BY <1>1, <1>2 DEF Init, IInv, CameraSaidSo

\* The variables keep to their types.
THEOREM TypeCorrect == Spec => []TypeOK
<1>1. IInv => TypeOK
  BY DEF IInv
<1>2. QED
  BY InitIInv, Inductive, <1>1, PTL DEF Spec

\* Success, rejection and failure are reported on the camera's word about this very
\* command, or success on a cut link after its acceptance (join.go:77-117).
THEOREM ReportsRestOnTheCamera == Spec => []CameraSaidSo
<1>1. IInv => CameraSaidSo
  BY DEF IInv
<1>2. QED
  BY InitIInv, Inductive, <1>1, PTL DEF Spec

\* A stream is dialled at the new address only of a camera that said it joined
\* (cmd_stream.go:243-256).
THEOREM RedialsAreToJoined == Spec => []RedialsJoined
<1>1. IInv => RedialsJoined
  BY DEF IInv, RedialsJoined
<1>2. QED
  BY InitIInv, Inductive, <1>1, PTL DEF Spec
=============================================================================
