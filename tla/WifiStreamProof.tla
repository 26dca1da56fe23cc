---------------------------- MODULE WifiStreamProof ---------------------------
(***************************************************************************)
(* Proofs about module WifiStream, for any channel sizes and any interval:  *)
(* its types, that packets stay whole, that the camera hears from the host  *)
(* in time, and that video is written out in order.                         *)
(***************************************************************************)
EXTENDS WifiStream, SequenceTheorems, TLAPS

\* The initial states satisfy the invariant.
LEMMA InitHolds == Init => IInv
<1> SUFFICES ASSUME Init PROVE IInv
  OBVIOUS
<1>1. RunTypes
  <2>1. cancelled \in BOOLEAN /\ loopFailed \in BOOLEAN
    BY DEF Init
  <2> QED
    BY <2>1 DEF Init, RunTypes
<1>2. SocketTypes
  <2>1. torn \in BOOLEAN /\ up \in BOOLEAN
    BY DEF Init
  <2>2. wr \in [Writers -> {"idle", "lock", "header", "payload"}]
    BY DEF Init
  <2> QED
    BY <2>1, <2>2, WifiStreamAssumption DEF Init, SocketTypes
<1>3. PacketTypes
  <2>1. hand \in [Readers -> Packet \cup {None}]
    BY DEF Init
  <2>2. inbox \in Seq(Packet) /\ videoCh \in Seq(Nat) /\ Len(inbox) <= InCap /\ Len(videoCh) <= VideoCap
    BY WifiStreamAssumption DEF Init
  <2> QED
    BY <2>1, <2>2, WifiStreamAssumption DEF Init, PacketTypes
<1>4. MutexInv
  BY DEF Init, MutexInv, Writers
<1>5. TimeInv
  BY WifiStreamAssumption DEF Init, TimeInv, Writers
<1>6. ReaderInv
  BY DEF Init, ReaderInv, Writers, Readers
<1>7. OrderInv
  BY DEF Init, OrderInv, Readers, None
<1> QED
  BY <1>1, <1>2, <1>3, <1>4, <1>5, <1>6, <1>7 DEF IInv, TypeOK

\* The packets on their way after a read.
LEMMA ReadTypes ==
  ASSUME PacketTypes, inbox # <<>>
  PROVE  /\ Tail(inbox) \in Seq(Packet) /\ Len(Tail(inbox)) <= InCap
         /\ Head(inbox) \in Packet
<1>1. inbox \in Seq(Packet) /\ Len(inbox) <= InCap
  BY DEF PacketTypes
<1> QED
  BY <1>1, HeadTailProperties, WifiStreamAssumption

\* What dispatching a packet makes of the channels.
LEMMA DispatchTypes ==
  ASSUME PacketTypes, NEW p \in Packet \cup {None}, Dispatch(p)
  PROVE  /\ videoCh' \in Seq(Nat) /\ Len(videoCh') <= VideoCap
         /\ replies' \in 0 .. RespCap
<1>1. videoCh \in Seq(Nat) /\ Len(videoCh) <= VideoCap /\ replies \in 0 .. RespCap
  BY DEF PacketTypes
<1>2. CASE p.type = "video" /\ Len(videoCh) < VideoCap
  <2>1. videoCh' = Append(videoCh, p.n) /\ p.n \in Nat
    BY <1>2 DEF Dispatch, Packet, None
  <2>2. videoCh' \in Seq(Nat) /\ Len(videoCh') <= VideoCap
    BY ONLY <1>1, <1>2, <2>1, AppendProperties, WifiStreamAssumption
  <2> QED
    BY <1>1, <2>2, WifiStreamAssumption DEF Dispatch
<1>3. CASE ~ (p.type = "video" /\ Len(videoCh) < VideoCap)
  BY <1>1, <1>3, WifiStreamAssumption DEF Dispatch
<1> QED
  BY <1>2, <1>3

\* A packet that is dispatched, or dropped, keeps its place.
LEMMA DispatchOrder ==
  ASSUME PacketTypes, OrderInv, UNCHANGED <<inbox, shot, lastOut>>,
         NEW r \in Readers, hand' = [hand EXCEPT ![r] = None],
         Dispatch(hand[r]) \/ UNCHANGED chVars,
         \A q \in Readers : q # r => hand[q] = None
  PROVE  OrderInv'
<1>1. videoCh \in Seq(Nat) /\ hand[r] \in Packet \cup {None} /\ shot \in Nat /\ lastOut \in Nat
  BY DEF PacketTypes
<1>2. \A q \in Readers : hand'[q].type # "video"
  BY DEF PacketTypes, None
<1>3. CASE videoCh' = videoCh
  BY <1>2, <1>3 DEF OrderInv
<1>4. CASE hand[r].type = "video" /\ videoCh' = Append(videoCh, hand[r].n)
  <2>1. hand[r].n \in Nat
    BY <1>1, <1>4 DEF Packet, None
  <2>2. /\ Len(videoCh') = Len(videoCh) + 1
        /\ videoCh'[Len(videoCh) + 1] = hand[r].n
        /\ \A k \in 1 .. Len(videoCh) : videoCh'[k] = videoCh[k]
    BY <1>1, <1>4, <2>1, AppendProperties
  <2>3. Len(videoCh) \in Nat
    BY <1>1
  <2>4. \A k \in 1 .. Len(videoCh') : lastOut < videoCh'[k] /\ videoCh'[k] <= shot
    BY <1>4, <2>2, <2>3 DEF OrderInv
  <2>5. \A k, l \in 1 .. Len(videoCh') : k < l => videoCh'[k] < videoCh'[l]
    <3> SUFFICES ASSUME NEW k \in 1 .. Len(videoCh'), NEW l \in 1 .. Len(videoCh'), k < l
                 PROVE  videoCh'[k] < videoCh'[l]
      OBVIOUS
    <3>1. k \in 1 .. Len(videoCh)
      BY <2>2, <2>3
    <3>2. CASE l \in 1 .. Len(videoCh)
      BY <3>1, <3>2, <2>2 DEF OrderInv
    <3>3. CASE l = Len(videoCh) + 1
      BY <3>1, <3>3, <1>4, <2>2 DEF OrderInv
    <3> QED
      BY <3>2, <3>3, <2>2, <2>3
  <2>6. \A i \in 1 .. Len(inbox) : inbox[i].type = "video" =>
          \A k \in 1 .. Len(videoCh') : videoCh'[k] < inbox[i].n
    BY <1>4, <2>2, <2>3 DEF OrderInv
  <2> QED
    BY <1>2, <2>4, <2>5, <2>6 DEF OrderInv
<1> QED
  BY <1>3, <1>4 DEF Dispatch, chVars

\* Every step keeps the types of the goroutines' states.
LEMMA RunTypeStep ==
  ASSUME RunTypes, SocketTypes, ReaderInv, [Next]_vars
  PROVE  RunTypes'
<1>1. ASSUME Cancel PROVE RunTypes'
  BY <1>1 DEF RunTypes, Writers, Cancel, vars, sockVars, timeVars, camVars, chVars
<1>2. ASSUME TimePasses PROVE RunTypes'
  BY <1>2 DEF RunTypes, Writers, TimePasses, vars, sockVars, timeVars, camVars, chVars
<1>3. ASSUME Tick PROVE RunTypes'
  BY <1>3 DEF RunTypes, Writers, Tick, vars, sockVars, timeVars, camVars, chVars
<1>4. ASSUME KeepAliveEnds PROVE RunTypes'
  BY <1>4 DEF RunTypes, Writers, KeepAliveEnds, vars, sockVars, timeVars, camVars, chVars
<1>5. ASSUME Dial PROVE RunTypes'
  BY <1>5 DEF RunTypes, Writers, Dial, Return, vars, sockVars, timeVars, camVars, chVars
<1>6. ASSUME Echo PROVE RunTypes'
  BY <1>6 DEF RunTypes, Writers, Echo, vars, sockVars, timeVars, camVars, chVars
<1>7. ASSUME EchoFails PROVE RunTypes'
  BY <1>7 DEF RunTypes, Writers, EchoFails, Return, vars, sockVars, timeVars, camVars, chVars
<1>8. ASSUME AwaitTop PROVE RunTypes'
  BY <1>8 DEF RunTypes, Writers, AwaitTop, Return, vars, sockVars, timeVars, camVars, chVars
<1>9. ASSUME AwaitReads PROVE RunTypes'
  BY <1>9 DEF RunTypes, Writers, AwaitReads, vars, sockVars, timeVars, camVars, chVars
<1>10. ASSUME AwaitFails PROVE RunTypes'
  BY <1>10 DEF RunTypes, Writers, AwaitFails, Return, vars, sockVars, timeVars, camVars, chVars
<1>11. ASSUME AwaitHandles PROVE RunTypes'
  BY <1>11 DEF RunTypes, Writers, AwaitHandles, Return, Dispatch, vars, sockVars, timeVars,
    camVars, chVars
<1>12. ASSUME LoopTop PROVE RunTypes'
  BY <1>12 DEF RunTypes, Writers, LoopTop, vars, sockVars, timeVars, camVars, chVars
<1>13. ASSUME LoopReads PROVE RunTypes'
  BY <1>13 DEF RunTypes, Writers, LoopReads, vars, sockVars, timeVars, camVars, chVars
<1>14. ASSUME LoopHandles PROVE RunTypes'
  BY <1>14 DEF RunTypes, Writers, LoopHandles, Dispatch, vars, sockVars, timeVars, camVars, chVars
<1>15. ASSUME LoopFails PROVE RunTypes'
  BY <1>15 DEF RunTypes, Writers, LoopFails, vars, sockVars, timeVars, camVars, chVars
<1>16. ASSUME WriteVideo PROVE RunTypes'
  BY <1>16 DEF RunTypes, Writers, WriteVideo, vars, sockVars, timeVars, camVars, chVars
<1>17. ASSUME VideoDone PROVE RunTypes'
  BY <1>17 DEF RunTypes, Writers, VideoDone, vars, sockVars, timeVars, camVars, chVars
<1>18. ASSUME Breaks PROVE RunTypes'
  BY <1>18 DEF RunTypes, Writers, Breaks, vars, sockVars, timeVars, camVars, chVars
<1>19. ASSUME NEW w \in Writers, Lock(w) PROVE RunTypes'
  BY <1>19 DEF RunTypes, Writers, Lock, vars, sockVars, timeVars, camVars, chVars
<1>20. ASSUME NEW w \in Writers, Header(w) PROVE RunTypes'
  BY <1>20 DEF RunTypes, Writers, Header, vars, sockVars, timeVars, camVars, chVars
<1>21. ASSUME NEW w \in Writers, Payload(w) PROVE RunTypes'
  <2>1. CASE w = "ka"
    BY <1>21, <2>1 DEF Payload, Written, RunTypes
  <2>2. CASE w = "main"
    <3>1. main \in {"sync", "start", "stop"}
      BY <1>21, <2>2 DEF Payload, ReaderInv
    <3>2. main' \in {"echo", "await", "returned"} /\ ka' = ka
      BY <1>21, <2>2, <3>1 DEF Payload, Written
    <3>3. cancelled' \in BOOLEAN
      BY <1>21, <2>2 DEF Payload, Written, RunTypes
    <3> QED
      BY <1>21, <3>2, <3>3 DEF Payload, RunTypes
  <2> QED
    BY <2>1, <2>2 DEF Writers
<1>22. ASSUME NEW w \in Writers, WriteError(w) PROVE RunTypes'
  BY <1>22 DEF RunTypes, Writers, WriteError, Written, vars, sockVars, timeVars, camVars, chVars
<1>23. ASSUME NEW t \in Types, CameraSends(t) PROVE RunTypes'
  BY <1>23 DEF RunTypes, Writers, CameraSends, vars, sockVars, timeVars, camVars, chVars
<1>24. ASSUME UNCHANGED vars PROVE RunTypes'
  BY <1>24 DEF RunTypes, Writers, vars, sockVars, timeVars, camVars, chVars
<1> QED
  BY <1>1, <1>2, <1>3, <1>4, <1>5, <1>6, <1>7, <1>8, <1>9, <1>10, <1>11, <1>12, <1>13, <1>14,
    <1>15, <1>16, <1>17, <1>18, <1>19, <1>20, <1>21, <1>22, <1>23, <1>24
     DEF Next, Main, ReadLoop, KeepAlive, Write

\* Every step keeps the types of the socket.
LEMMA SocketTypeStep == ASSUME SocketTypes, [Next]_vars PROVE SocketTypes'
<1> USE WifiStreamAssumption
<1>1. ASSUME Cancel PROVE SocketTypes'
  BY <1>1 DEF SocketTypes, Writers, Cancel, vars, sockVars, timeVars, camVars, chVars
<1>2. ASSUME TimePasses PROVE SocketTypes'
  BY <1>2 DEF SocketTypes, Writers, TimePasses, vars, sockVars, timeVars, camVars, chVars
<1>3. ASSUME Tick PROVE SocketTypes'
  BY <1>3 DEF SocketTypes, Writers, Tick, vars, sockVars, timeVars, camVars, chVars
<1>4. ASSUME KeepAliveEnds PROVE SocketTypes'
  BY <1>4 DEF SocketTypes, Writers, KeepAliveEnds, vars, sockVars, timeVars, camVars, chVars
<1>5. ASSUME Dial PROVE SocketTypes'
  BY <1>5 DEF SocketTypes, Writers, Dial, Return, vars, sockVars, timeVars, camVars, chVars
<1>6. ASSUME Echo PROVE SocketTypes'
  BY <1>6 DEF SocketTypes, Writers, Echo, vars, sockVars, timeVars, camVars, chVars
<1>7. ASSUME EchoFails PROVE SocketTypes'
  BY <1>7 DEF SocketTypes, Writers, EchoFails, Return, vars, sockVars, timeVars, camVars, chVars
<1>8. ASSUME AwaitTop PROVE SocketTypes'
  BY <1>8 DEF SocketTypes, Writers, AwaitTop, Return, vars, sockVars, timeVars, camVars, chVars
<1>9. ASSUME AwaitReads PROVE SocketTypes'
  BY <1>9 DEF SocketTypes, Writers, AwaitReads, vars, sockVars, timeVars, camVars, chVars
<1>10. ASSUME AwaitFails PROVE SocketTypes'
  BY <1>10 DEF SocketTypes, Writers, AwaitFails, Return, vars, sockVars, timeVars, camVars, chVars
<1>11. ASSUME AwaitHandles PROVE SocketTypes'
  BY <1>11 DEF SocketTypes, Writers, AwaitHandles, Return, Dispatch, vars, sockVars, timeVars,
    camVars, chVars
<1>12. ASSUME LoopTop PROVE SocketTypes'
  BY <1>12 DEF SocketTypes, Writers, LoopTop, vars, sockVars, timeVars, camVars, chVars
<1>13. ASSUME LoopReads PROVE SocketTypes'
  BY <1>13 DEF SocketTypes, Writers, LoopReads, vars, sockVars, timeVars, camVars, chVars
<1>14. ASSUME LoopHandles PROVE SocketTypes'
  BY <1>14 DEF SocketTypes, Writers, LoopHandles, Dispatch, vars, sockVars, timeVars, camVars,
    chVars
<1>15. ASSUME LoopFails PROVE SocketTypes'
  BY <1>15 DEF SocketTypes, Writers, LoopFails, vars, sockVars, timeVars, camVars, chVars
<1>16. ASSUME WriteVideo PROVE SocketTypes'
  BY <1>16 DEF SocketTypes, Writers, WriteVideo, vars, sockVars, timeVars, camVars, chVars
<1>17. ASSUME VideoDone PROVE SocketTypes'
  BY <1>17 DEF SocketTypes, Writers, VideoDone, vars, sockVars, timeVars, camVars, chVars
<1>18. ASSUME Breaks PROVE SocketTypes'
  BY <1>18 DEF SocketTypes, Writers, Breaks, vars, sockVars, timeVars, camVars, chVars
<1>19. ASSUME NEW w \in Writers, Lock(w) PROVE SocketTypes'
  BY <1>19 DEF SocketTypes, Writers, Lock, vars, sockVars, timeVars, camVars, chVars
<1>20. ASSUME NEW w \in Writers, Header(w) PROVE SocketTypes'
  BY <1>20 DEF SocketTypes, Writers, Header, vars, sockVars, timeVars, camVars, chVars
<1>21. ASSUME NEW w \in Writers, Payload(w) PROVE SocketTypes'
  BY <1>21 DEF SocketTypes, Writers, Payload, Written, Delivered, vars, sockVars, timeVars,
    camVars, chVars
<1>22. ASSUME NEW w \in Writers, WriteError(w) PROVE SocketTypes'
  BY <1>22 DEF SocketTypes, Writers, WriteError, Written, vars, sockVars, timeVars, camVars,
    chVars
<1>23. ASSUME NEW t \in Types, CameraSends(t) PROVE SocketTypes'
  BY <1>23 DEF SocketTypes, Writers, CameraSends, vars, sockVars, timeVars, camVars, chVars
<1>24. ASSUME UNCHANGED vars PROVE SocketTypes'
  BY <1>24 DEF SocketTypes, Writers, vars, sockVars, timeVars, camVars, chVars
<1> QED
  BY <1>1, <1>2, <1>3, <1>4, <1>5, <1>6, <1>7, <1>8, <1>9, <1>10, <1>11, <1>12, <1>13, <1>14,
    <1>15, <1>16, <1>17, <1>18, <1>19, <1>20, <1>21, <1>22, <1>23, <1>24
     DEF Next, Main, ReadLoop, KeepAlive, Write

\* Every step keeps the types of what is read and written.
LEMMA PacketTypeStep ==
  ASSUME TypeOK, OrderInv, [Next]_vars
  PROVE  PacketTypes'
<1> USE WifiStreamAssumption
<1>1. ASSUME Cancel PROVE PacketTypes'
  BY <1>1 DEF TypeOK, PacketTypes, OrderInv, Writers, Cancel, vars, sockVars, timeVars, camVars,
    chVars
<1>2. ASSUME TimePasses PROVE PacketTypes'
  BY <1>2 DEF TypeOK, PacketTypes, OrderInv, Writers, TimePasses, vars, sockVars, timeVars,
    camVars, chVars
<1>3. ASSUME Tick PROVE PacketTypes'
  BY <1>3 DEF TypeOK, PacketTypes, OrderInv, Writers, Tick, vars, sockVars, timeVars, camVars,
    chVars
<1>4. ASSUME KeepAliveEnds PROVE PacketTypes'
  BY <1>4 DEF TypeOK, PacketTypes, OrderInv, Writers, KeepAliveEnds, vars, sockVars, timeVars,
    camVars, chVars
<1>5. ASSUME Dial PROVE PacketTypes'
  BY <1>5 DEF TypeOK, PacketTypes, OrderInv, Writers, Dial, Return, vars, sockVars, timeVars,
    camVars, chVars
<1>6. ASSUME Echo PROVE PacketTypes'
  BY <1>6 DEF TypeOK, PacketTypes, OrderInv, Writers, Echo, vars, sockVars, timeVars, camVars,
    chVars
<1>7. ASSUME EchoFails PROVE PacketTypes'
  BY <1>7 DEF TypeOK, PacketTypes, OrderInv, Writers, EchoFails, Return, vars, sockVars,
    timeVars, camVars, chVars
<1>8. ASSUME AwaitTop PROVE PacketTypes'
  BY <1>8 DEF TypeOK, PacketTypes, OrderInv, Writers, AwaitTop, Return, vars, sockVars,
    timeVars, camVars, chVars
<1>9. ASSUME AwaitReads PROVE PacketTypes'
  <2>1. Tail(inbox) \in Seq(Packet) /\ Len(Tail(inbox)) <= InCap /\ Head(inbox) \in Packet
    BY <1>9, ReadTypes DEF AwaitReads, TypeOK
  <2>2. hand' = [hand EXCEPT !["main"] = Head(inbox)] /\ inbox' = Tail(inbox)
    BY <1>9 DEF AwaitReads
  <2>3. hand' \in [Readers -> Packet \cup {None}]
    BY <2>1, <2>2 DEF TypeOK, PacketTypes, Readers
  <2> QED
    BY <1>9, <2>1, <2>2, <2>3 DEF AwaitReads, TypeOK, PacketTypes, vars, sockVars, timeVars,
      camVars, chVars
<1>10. ASSUME AwaitFails PROVE PacketTypes'
  BY <1>10 DEF TypeOK, PacketTypes, OrderInv, Writers, AwaitFails, Return, vars, sockVars,
    timeVars, camVars, chVars
<1>11. ASSUME AwaitHandles PROVE PacketTypes'
  <2>1. hand["main"] \in Packet \cup {None}
    BY DEF TypeOK, PacketTypes, Readers
  <2>2. hand' \in [Readers -> Packet \cup {None}]
    BY <1>11 DEF AwaitHandles, TypeOK, PacketTypes, Readers
  <2>3. Dispatch(hand["main"]) \/ UNCHANGED chVars
    BY <1>11 DEF AwaitHandles
  <2>4. videoCh' \in Seq(Nat) /\ Len(videoCh') <= VideoCap /\ replies' \in 0 .. RespCap
    BY <2>1, <2>3, DispatchTypes DEF TypeOK, PacketTypes, chVars
  <2> QED
    BY <1>11, <2>2, <2>4 DEF AwaitHandles, TypeOK, PacketTypes, vars, sockVars, timeVars,
      camVars, chVars
<1>12. ASSUME LoopTop PROVE PacketTypes'
  BY <1>12 DEF TypeOK, PacketTypes, OrderInv, Writers, LoopTop, vars, sockVars, timeVars,
    camVars, chVars
<1>13. ASSUME LoopReads PROVE PacketTypes'
  <2>1. Tail(inbox) \in Seq(Packet) /\ Len(Tail(inbox)) <= InCap /\ Head(inbox) \in Packet
    BY <1>13, ReadTypes DEF LoopReads, TypeOK
  <2>2. hand' = [hand EXCEPT !["loop"] = Head(inbox)] /\ inbox' = Tail(inbox)
    BY <1>13 DEF LoopReads
  <2>3. hand' \in [Readers -> Packet \cup {None}]
    BY <2>1, <2>2 DEF TypeOK, PacketTypes, Readers
  <2> QED
    BY <1>13, <2>1, <2>2, <2>3 DEF LoopReads, TypeOK, PacketTypes, vars, sockVars, timeVars,
      camVars, chVars
<1>14. ASSUME LoopHandles PROVE PacketTypes'
  <2>1. hand["loop"] \in Packet \cup {None}
    BY DEF TypeOK, PacketTypes, Readers
  <2>2. hand' \in [Readers -> Packet \cup {None}]
    BY <1>14 DEF LoopHandles, TypeOK, PacketTypes, Readers
  <2>3. Dispatch(hand["loop"]) \/ UNCHANGED chVars
    BY <1>14 DEF LoopHandles
  <2>4. videoCh' \in Seq(Nat) /\ Len(videoCh') <= VideoCap /\ replies' \in 0 .. RespCap
    BY <2>1, <2>3, DispatchTypes DEF TypeOK, PacketTypes, chVars
  <2> QED
    BY <1>14, <2>2, <2>4 DEF LoopHandles, TypeOK, PacketTypes, vars, sockVars, timeVars,
      camVars, chVars
<1>15. ASSUME LoopFails PROVE PacketTypes'
  BY <1>15 DEF TypeOK, PacketTypes, OrderInv, Writers, LoopFails, vars, sockVars, timeVars,
    camVars, chVars
<1>16. ASSUME WriteVideo PROVE PacketTypes'
  BY <1>16 DEF TypeOK, PacketTypes, OrderInv, Writers, WriteVideo, vars, sockVars, timeVars,
    camVars, chVars
<1>17. ASSUME VideoDone PROVE PacketTypes'
  BY <1>17 DEF TypeOK, PacketTypes, OrderInv, Writers, VideoDone, vars, sockVars, timeVars,
    camVars, chVars
<1>18. ASSUME Breaks PROVE PacketTypes'
  BY <1>18 DEF TypeOK, PacketTypes, OrderInv, Writers, Breaks, vars, sockVars, timeVars,
    camVars, chVars
<1>19. ASSUME NEW w \in Writers, Lock(w) PROVE PacketTypes'
  BY <1>19 DEF TypeOK, PacketTypes, OrderInv, Writers, Lock, vars, sockVars, timeVars, camVars,
    chVars
<1>20. ASSUME NEW w \in Writers, Header(w) PROVE PacketTypes'
  BY <1>20 DEF TypeOK, PacketTypes, OrderInv, Writers, Header, vars, sockVars, timeVars,
    camVars, chVars
<1>21. ASSUME NEW w \in Writers, Payload(w) PROVE PacketTypes'
  BY <1>21 DEF TypeOK, PacketTypes, OrderInv, Writers, Payload, Written, Delivered, vars,
    sockVars, timeVars, camVars, chVars
<1>22. ASSUME NEW w \in Writers, WriteError(w) PROVE PacketTypes'
  BY <1>22 DEF TypeOK, PacketTypes, OrderInv, Writers, WriteError, Written, vars, sockVars,
    timeVars, camVars, chVars
<1>23. ASSUME NEW t \in Types, CameraSends(t) PROVE PacketTypes'
  <2> DEFINE p == [type |-> t, n |-> IF t = "video" THEN shot + 1 ELSE 0]
  <2>1. inbox \in Seq(Packet) /\ Len(inbox) < InCap /\ shot \in Nat
    BY <1>23 DEF CameraSends, TypeOK, PacketTypes
  <2>2. p \in Packet
    BY <2>1 DEF Packet
  <2>3. inbox' = Append(inbox, p)
    BY <1>23 DEF CameraSends
  <2>4. inbox' \in Seq(Packet) /\ Len(inbox') <= InCap
    BY ONLY <2>1, <2>2, <2>3, AppendProperties, WifiStreamAssumption
  <2>5. cam' \in {"new", "synced", "asked", "streaming"}
    BY <1>23 DEF CameraSends, TypeOK, PacketTypes
  <2>6. sent' \in 0 .. MaxPackets /\ shot' \in 0 .. sent' /\ lastOut' \in 0 .. shot'
    BY SMTT(60), <1>23 DEF CameraSends, TypeOK, PacketTypes
  <2> QED
    BY <1>23, <2>4, <2>5, <2>6 DEF CameraSends, TypeOK, PacketTypes, vars, sockVars, timeVars,
      camVars, chVars
<1>24. ASSUME UNCHANGED vars PROVE PacketTypes'
  BY <1>24 DEF TypeOK, PacketTypes, OrderInv, Writers, vars, sockVars, timeVars, camVars, chVars
<1> QED
  BY <1>1, <1>2, <1>3, <1>4, <1>5, <1>6, <1>7, <1>8, <1>9, <1>10, <1>11, <1>12, <1>13, <1>14,
    <1>15, <1>16, <1>17, <1>18, <1>19, <1>20, <1>21, <1>22, <1>23, <1>24
     DEF Next, Main, ReadLoop, KeepAlive, Write

\* Every step leaves the wire to one writer at a time.
LEMMA MutexStep == 
  ASSUME TypeOK, ReaderInv, TimeInv, MutexInv, [Next]_vars
  PROVE  MutexInv'
<1>1. ASSUME Cancel PROVE MutexInv'
  BY <1>1 DEF TypeOK, RunTypes, SocketTypes, MutexInv, ReaderInv, TimeInv, Writers, Cancel,
    vars, sockVars, timeVars, camVars, chVars
<1>2. ASSUME TimePasses PROVE MutexInv'
  BY <1>2 DEF TypeOK, RunTypes, SocketTypes, MutexInv, ReaderInv, TimeInv, Writers, TimePasses,
    vars, sockVars, timeVars, camVars, chVars
<1>3. ASSUME Tick PROVE MutexInv'
  <2>1. wr["ka"] = "idle"
    BY <1>3 DEF Tick, TimeInv, ReaderInv, TypeOK, SocketTypes, Writers
  <2>2. wr' = wr \/ wr' = [wr EXCEPT !["ka"] = "lock"]
    BY <1>3 DEF Tick
  <2>3. \A w \in Writers : /\ wr'[w] \in {"header", "payload"} <=> wr[w] \in {"header", "payload"}
                           /\ wr'[w] = "payload" <=> wr[w] = "payload"
    BY <2>1, <2>2 DEF TypeOK, SocketTypes, Writers
  <2>4. UNCHANGED <<mu, half, torn, up>> /\ main' # "dial"
    BY <1>3 DEF Tick, sockVars, ReaderInv, TimeInv, RunTypes, TypeOK
  <2>5. \A w \in Writers : mu' = w <=> wr'[w] \in {"header", "payload"}
    BY <2>3, <2>4 DEF MutexInv
  <2>6. up' => \A w \in Writers : half' = w <=> wr'[w] = "payload"
    BY <2>3, <2>4 DEF MutexInv
  <2>7. ~ torn'
    BY <2>4 DEF MutexInv
  <2> QED
    BY <2>4, <2>5, <2>6, <2>7 DEF MutexInv
<1>4. ASSUME KeepAliveEnds PROVE MutexInv'
  BY <1>4 DEF TypeOK, RunTypes, SocketTypes, MutexInv, ReaderInv, TimeInv, Writers,
    KeepAliveEnds, vars, sockVars, timeVars, camVars, chVars
<1>5. ASSUME Dial PROVE MutexInv'
  BY <1>5 DEF TypeOK, RunTypes, SocketTypes, MutexInv, ReaderInv, TimeInv, Writers, Dial,
    Return, vars, sockVars, timeVars, camVars, chVars
<1>6. ASSUME Echo PROVE MutexInv'
  <2>1. wr["main"] = "idle"
    BY <1>6 DEF Echo, TimeInv, ReaderInv, TypeOK, SocketTypes, Writers
  <2>2. wr' = wr \/ wr' = [wr EXCEPT !["main"] = "lock"]
    BY <1>6 DEF Echo
  <2>3. \A w \in Writers : /\ wr'[w] \in {"header", "payload"} <=> wr[w] \in {"header", "payload"}
                           /\ wr'[w] = "payload" <=> wr[w] = "payload"
    BY <2>1, <2>2 DEF TypeOK, SocketTypes, Writers
  <2>4. UNCHANGED <<mu, half, torn, up>> /\ main' # "dial"
    BY <1>6 DEF Echo, sockVars, ReaderInv, TimeInv, RunTypes, TypeOK
  <2>5. \A w \in Writers : mu' = w <=> wr'[w] \in {"header", "payload"}
    BY <2>3, <2>4 DEF MutexInv
  <2>6. up' => \A w \in Writers : half' = w <=> wr'[w] = "payload"
    BY <2>3, <2>4 DEF MutexInv
  <2>7. ~ torn'
    BY <2>4 DEF MutexInv
  <2> QED
    BY <2>4, <2>5, <2>6, <2>7 DEF MutexInv
<1>7. ASSUME EchoFails PROVE MutexInv'
  BY <1>7 DEF TypeOK, RunTypes, SocketTypes, MutexInv, ReaderInv, TimeInv, Writers, EchoFails,
    Return, vars, sockVars, timeVars, camVars, chVars
<1>8. ASSUME AwaitTop PROVE MutexInv'
  BY <1>8 DEF TypeOK, RunTypes, SocketTypes, MutexInv, ReaderInv, TimeInv, Writers, AwaitTop,
    Return, vars, sockVars, timeVars, camVars, chVars
<1>9. ASSUME AwaitReads PROVE MutexInv'
  BY <1>9 DEF TypeOK, RunTypes, SocketTypes, MutexInv, ReaderInv, TimeInv, Writers, AwaitReads,
    vars, sockVars, timeVars, camVars, chVars
<1>10. ASSUME AwaitFails PROVE MutexInv'
  BY <1>10 DEF TypeOK, RunTypes, SocketTypes, MutexInv, ReaderInv, TimeInv, Writers, AwaitFails,
    Return, vars, sockVars, timeVars, camVars, chVars
<1>11. ASSUME AwaitHandles PROVE MutexInv'
  BY <1>11 DEF TypeOK, RunTypes, SocketTypes, MutexInv, ReaderInv, TimeInv, Writers,
    AwaitHandles, Return, Dispatch, vars, sockVars, timeVars, camVars, chVars
<1>12. ASSUME LoopTop PROVE MutexInv'
  BY <1>12 DEF TypeOK, RunTypes, SocketTypes, MutexInv, ReaderInv, TimeInv, Writers, LoopTop,
    vars, sockVars, timeVars, camVars, chVars
<1>13. ASSUME LoopReads PROVE MutexInv'
  BY <1>13 DEF TypeOK, RunTypes, SocketTypes, MutexInv, ReaderInv, TimeInv, Writers, LoopReads,
    vars, sockVars, timeVars, camVars, chVars
<1>14. ASSUME LoopHandles PROVE MutexInv'
  BY <1>14 DEF TypeOK, RunTypes, SocketTypes, MutexInv, ReaderInv, TimeInv, Writers,
    LoopHandles, Dispatch, vars, sockVars, timeVars, camVars, chVars
<1>15. ASSUME LoopFails PROVE MutexInv'
  BY <1>15 DEF TypeOK, RunTypes, SocketTypes, MutexInv, ReaderInv, TimeInv, Writers, LoopFails,
    vars, sockVars, timeVars, camVars, chVars
<1>16. ASSUME WriteVideo PROVE MutexInv'
  <2>1. wr["main"] = "idle"
    BY <1>16 DEF WriteVideo, TimeInv, ReaderInv, TypeOK, SocketTypes, Writers
  <2>2. wr' = wr \/ wr' = [wr EXCEPT !["main"] = "lock"]
    BY <1>16 DEF WriteVideo
  <2>3. \A w \in Writers : /\ wr'[w] \in {"header", "payload"} <=> wr[w] \in {"header", "payload"}
                           /\ wr'[w] = "payload" <=> wr[w] = "payload"
    BY <2>1, <2>2 DEF TypeOK, SocketTypes, Writers
  <2>4. UNCHANGED <<mu, half, torn, up>> /\ main' # "dial"
    BY <1>16 DEF WriteVideo, sockVars, ReaderInv, TimeInv, RunTypes, TypeOK
  <2>5. \A w \in Writers : mu' = w <=> wr'[w] \in {"header", "payload"}
    BY <2>3, <2>4 DEF MutexInv
  <2>6. up' => \A w \in Writers : half' = w <=> wr'[w] = "payload"
    BY <2>3, <2>4 DEF MutexInv
  <2>7. ~ torn'
    BY <2>4 DEF MutexInv
  <2> QED
    BY <2>4, <2>5, <2>6, <2>7 DEF MutexInv
<1>17. ASSUME VideoDone PROVE MutexInv'
  <2>1. wr["main"] = "idle"
    BY <1>17 DEF VideoDone, TimeInv, ReaderInv, TypeOK, SocketTypes, Writers
  <2>2. wr' = wr \/ wr' = [wr EXCEPT !["main"] = "lock"]
    BY <1>17 DEF VideoDone
  <2>3. \A w \in Writers : /\ wr'[w] \in {"header", "payload"} <=> wr[w] \in {"header", "payload"}
                           /\ wr'[w] = "payload" <=> wr[w] = "payload"
    BY <2>1, <2>2 DEF TypeOK, SocketTypes, Writers
  <2>4. UNCHANGED <<mu, half, torn, up>> /\ main' # "dial"
    BY <1>17 DEF VideoDone, sockVars, ReaderInv, TimeInv, RunTypes, TypeOK
  <2>5. \A w \in Writers : mu' = w <=> wr'[w] \in {"header", "payload"}
    BY <2>3, <2>4 DEF MutexInv
  <2>6. up' => \A w \in Writers : half' = w <=> wr'[w] = "payload"
    BY <2>3, <2>4 DEF MutexInv
  <2>7. ~ torn'
    BY <2>4 DEF MutexInv
  <2> QED
    BY <2>4, <2>5, <2>6, <2>7 DEF MutexInv
<1>18. ASSUME Breaks PROVE MutexInv'
  BY <1>18 DEF TypeOK, RunTypes, SocketTypes, MutexInv, ReaderInv, TimeInv, Writers, Breaks,
    vars, sockVars, timeVars, camVars, chVars
<1>19. ASSUME NEW w \in Writers, Lock(w) PROVE MutexInv'
  BY <1>19 DEF TypeOK, RunTypes, SocketTypes, MutexInv, ReaderInv, TimeInv, Writers, Lock, vars,
    sockVars, timeVars, camVars, chVars
<1>20. ASSUME NEW w \in Writers, Header(w) PROVE MutexInv'
  BY <1>20 DEF TypeOK, RunTypes, SocketTypes, MutexInv, ReaderInv, TimeInv, Writers, Header,
    vars, sockVars, timeVars, camVars, chVars
<1>21. ASSUME NEW w \in Writers, Payload(w) PROVE MutexInv'
  <2>1. half = w /\ mu = w /\ wr[w] = "payload" /\ up
    BY <1>21 DEF Payload, MutexInv
  <2>2. \A v \in Writers : v # w => wr[v] \notin {"header", "payload"}
    BY <2>1 DEF MutexInv
  <2>3. wr' = [wr EXCEPT ![w] = "idle"] /\ mu' = "free" /\ half' = "none"
    BY <1>21 DEF Payload, Written
  <2>4. \A v \in Writers : wr'[v] \notin {"header", "payload"}
    BY <2>2, <2>3 DEF TypeOK, SocketTypes
  <2>5. ~ torn'
    BY <1>21, <2>1 DEF Payload, MutexInv
  <2>6. main' # "dial"
    BY <1>21 DEF Payload, Written, ReaderInv, Writers, MutexInv
  <2>7. \A v \in Writers : v # "free" /\ v # "none"
    BY DEF Writers
  <2> QED
    BY <2>3, <2>4, <2>5, <2>6, <2>7 DEF MutexInv
<1>22. ASSUME NEW w \in Writers, WriteError(w) PROVE MutexInv'
  BY <1>22 DEF TypeOK, RunTypes, SocketTypes, MutexInv, ReaderInv, TimeInv, Writers, WriteError,
    Written, vars, sockVars, timeVars, camVars, chVars
<1>23. ASSUME NEW t \in Types, CameraSends(t) PROVE MutexInv'
  BY <1>23 DEF TypeOK, RunTypes, SocketTypes, MutexInv, ReaderInv, TimeInv, Writers,
    CameraSends, vars, sockVars, timeVars, camVars, chVars
<1>24. ASSUME UNCHANGED vars PROVE MutexInv'
  BY <1>24 DEF TypeOK, RunTypes, SocketTypes, MutexInv, ReaderInv, TimeInv, Writers, vars,
    sockVars, timeVars, camVars, chVars
<1> QED
  BY <1>1, <1>2, <1>3, <1>4, <1>5, <1>6, <1>7, <1>8, <1>9, <1>10, <1>11, <1>12, <1>13, <1>14,
    <1>15, <1>16, <1>17, <1>18, <1>19, <1>20, <1>21, <1>22, <1>23, <1>24
     DEF Next, Main, ReadLoop, KeepAlive, Write

\* Every step leaves time to the next tick.
LEMMA TimeStep ==
  ASSUME TypeOK, ReaderInv, MutexInv, TimeInv, [Next]_vars
  PROVE  TimeInv'
<1> USE WifiStreamAssumption
<1>1. ASSUME Cancel PROVE TimeInv'
  BY <1>1 DEF TypeOK, RunTypes, SocketTypes, ReaderInv, MutexInv, TimeInv, Writers, Cancel,
    vars, sockVars, timeVars, camVars, chVars
<1>2. ASSUME TimePasses PROVE TimeInv'
  BY <1>2 DEF TypeOK, RunTypes, SocketTypes, ReaderInv, MutexInv, TimeInv, Writers, TimePasses,
    vars, sockVars, timeVars, camVars, chVars
<1>3. ASSUME Tick PROVE TimeInv'
  BY <1>3 DEF TypeOK, RunTypes, SocketTypes, ReaderInv, MutexInv, TimeInv, Writers, Tick, vars,
    sockVars, timeVars, camVars, chVars
<1>4. ASSUME KeepAliveEnds PROVE TimeInv'
  BY <1>4 DEF TypeOK, RunTypes, SocketTypes, ReaderInv, MutexInv, TimeInv, Writers,
    KeepAliveEnds, vars, sockVars, timeVars, camVars, chVars
<1>5. ASSUME Dial PROVE TimeInv'
  BY <1>5 DEF TypeOK, RunTypes, SocketTypes, ReaderInv, MutexInv, TimeInv, Writers, Dial,
    Return, vars, sockVars, timeVars, camVars, chVars
<1>6. ASSUME Echo PROVE TimeInv'
  BY <1>6 DEF TypeOK, RunTypes, SocketTypes, ReaderInv, MutexInv, TimeInv, Writers, Echo, vars,
    sockVars, timeVars, camVars, chVars
<1>7. ASSUME EchoFails PROVE TimeInv'
  BY <1>7 DEF TypeOK, RunTypes, SocketTypes, ReaderInv, MutexInv, TimeInv, Writers, EchoFails,
    Return, vars, sockVars, timeVars, camVars, chVars
<1>8. ASSUME AwaitTop PROVE TimeInv'
  BY <1>8 DEF TypeOK, RunTypes, SocketTypes, ReaderInv, MutexInv, TimeInv, Writers, AwaitTop,
    Return, vars, sockVars, timeVars, camVars, chVars
<1>9. ASSUME AwaitReads PROVE TimeInv'
  BY <1>9 DEF TypeOK, RunTypes, SocketTypes, ReaderInv, MutexInv, TimeInv, Writers, AwaitReads,
    vars, sockVars, timeVars, camVars, chVars
<1>10. ASSUME AwaitFails PROVE TimeInv'
  BY <1>10 DEF TypeOK, RunTypes, SocketTypes, ReaderInv, MutexInv, TimeInv, Writers, AwaitFails,
    Return, vars, sockVars, timeVars, camVars, chVars
<1>11. ASSUME AwaitHandles PROVE TimeInv'
  BY <1>11 DEF TypeOK, RunTypes, SocketTypes, ReaderInv, MutexInv, TimeInv, Writers,
    AwaitHandles, Return, Dispatch, vars, sockVars, timeVars, camVars, chVars
<1>12. ASSUME LoopTop PROVE TimeInv'
  BY <1>12 DEF TypeOK, RunTypes, SocketTypes, ReaderInv, MutexInv, TimeInv, Writers, LoopTop,
    vars, sockVars, timeVars, camVars, chVars
<1>13. ASSUME LoopReads PROVE TimeInv'
  BY <1>13 DEF TypeOK, RunTypes, SocketTypes, ReaderInv, MutexInv, TimeInv, Writers, LoopReads,
    vars, sockVars, timeVars, camVars, chVars
<1>14. ASSUME LoopHandles PROVE TimeInv'
  BY <1>14 DEF TypeOK, RunTypes, SocketTypes, ReaderInv, MutexInv, TimeInv, Writers,
    LoopHandles, Dispatch, vars, sockVars, timeVars, camVars, chVars
<1>15. ASSUME LoopFails PROVE TimeInv'
  BY <1>15 DEF TypeOK, RunTypes, SocketTypes, ReaderInv, MutexInv, TimeInv, Writers, LoopFails,
    vars, sockVars, timeVars, camVars, chVars
<1>16. ASSUME WriteVideo PROVE TimeInv'
  BY <1>16 DEF TypeOK, RunTypes, SocketTypes, ReaderInv, MutexInv, TimeInv, Writers, WriteVideo,
    vars, sockVars, timeVars, camVars, chVars
<1>17. ASSUME VideoDone PROVE TimeInv'
  BY <1>17 DEF TypeOK, RunTypes, SocketTypes, ReaderInv, MutexInv, TimeInv, Writers, VideoDone,
    vars, sockVars, timeVars, camVars, chVars
<1>18. ASSUME Breaks PROVE TimeInv'
  BY <1>18 DEF TypeOK, RunTypes, SocketTypes, ReaderInv, MutexInv, TimeInv, Writers, Breaks,
    vars, sockVars, timeVars, camVars, chVars
<1>19. ASSUME NEW w \in Writers, Lock(w) PROVE TimeInv'
  BY <1>19 DEF TypeOK, RunTypes, SocketTypes, ReaderInv, MutexInv, TimeInv, Writers, Lock, vars,
    sockVars, timeVars, camVars, chVars
<1>20. ASSUME NEW w \in Writers, Header(w) PROVE TimeInv'
  BY <1>20 DEF TypeOK, RunTypes, SocketTypes, ReaderInv, MutexInv, TimeInv, Writers, Header,
    vars, sockVars, timeVars, camVars, chVars
<1>21. ASSUME NEW w \in Writers, Payload(w) PROVE TimeInv'
  <2>1. CASE w = "ka"
    BY <1>21, <2>1 DEF Payload, Written, TimeInv, ReaderInv, TypeOK, RunTypes, SocketTypes,
      Writers, timeVars
  <2>2. CASE w = "main"
    <3>1. main \in {"sync", "start", "stop"}
      BY <1>21, <2>2 DEF Payload, ReaderInv
    <3>2. main' \in {"echo", "await", "returned"} /\ (main' = "echo" => main = "sync") /\ ka' = ka
      BY <1>21, <2>2, <3>1 DEF Payload, Written
    <3>3. wr'["ka"] = wr["ka"]
      BY <1>21, <2>2 DEF Payload, Written, TypeOK, SocketTypes, Writers
    <3>4. UNCHANGED <<idleFor, tickIn>>
      BY <1>21 DEF Payload, timeVars
    <3> QED
      BY <3>2, <3>3, <3>4 DEF TimeInv
  <2> QED
    BY <2>1, <2>2 DEF Writers
<1>22. ASSUME NEW w \in Writers, WriteError(w) PROVE TimeInv'
  BY <1>22 DEF TypeOK, RunTypes, SocketTypes, ReaderInv, MutexInv, TimeInv, Writers, WriteError,
    Written, vars, sockVars, timeVars, camVars, chVars
<1>23. ASSUME NEW t \in Types, CameraSends(t) PROVE TimeInv'
  BY <1>23 DEF TypeOK, RunTypes, SocketTypes, ReaderInv, MutexInv, TimeInv, Writers,
    CameraSends, vars, sockVars, timeVars, camVars, chVars
<1>24. ASSUME UNCHANGED vars PROVE TimeInv'
  BY <1>24 DEF TypeOK, RunTypes, SocketTypes, ReaderInv, MutexInv, TimeInv, Writers, vars,
    sockVars, timeVars, camVars, chVars
<1> QED
  BY <1>1, <1>2, <1>3, <1>4, <1>5, <1>6, <1>7, <1>8, <1>9, <1>10, <1>11, <1>12, <1>13, <1>14,
    <1>15, <1>16, <1>17, <1>18, <1>19, <1>20, <1>21, <1>22, <1>23, <1>24
     DEF Next, Main, ReadLoop, KeepAlive, Write

\* Every step leaves the socket to one reader at a time.
LEMMA ReaderStep ==
  ASSUME TypeOK, MutexInv, TimeInv, ReaderInv, [Next]_vars
  PROVE  ReaderInv'
<1>1. ASSUME Cancel PROVE ReaderInv'
  BY <1>1 DEF TypeOK, RunTypes, SocketTypes, PacketTypes, TimeInv, ReaderInv, Readers, Writers,
    Cancel, vars, sockVars, timeVars, camVars, chVars
<1>2. ASSUME TimePasses PROVE ReaderInv'
  BY <1>2 DEF TypeOK, RunTypes, SocketTypes, PacketTypes, TimeInv, ReaderInv, Readers, Writers,
    TimePasses, vars, sockVars, timeVars, camVars, chVars
<1>3. ASSUME Tick PROVE ReaderInv'
  BY <1>3 DEF TypeOK, RunTypes, SocketTypes, PacketTypes, TimeInv, ReaderInv, Readers, Writers,
    Tick, vars, sockVars, timeVars, camVars, chVars
<1>4. ASSUME KeepAliveEnds PROVE ReaderInv'
  BY <1>4 DEF TypeOK, RunTypes, SocketTypes, PacketTypes, TimeInv, ReaderInv, Readers, Writers,
    KeepAliveEnds, vars, sockVars, timeVars, camVars, chVars
<1>5. ASSUME Dial PROVE ReaderInv'
  BY <1>5 DEF TypeOK, RunTypes, SocketTypes, PacketTypes, TimeInv, ReaderInv, Readers, Writers,
    Dial, Return, vars, sockVars, timeVars, camVars, chVars
<1>6. ASSUME Echo PROVE ReaderInv'
  BY <1>6 DEF TypeOK, RunTypes, SocketTypes, PacketTypes, TimeInv, ReaderInv, Readers, Writers,
    Echo, vars, sockVars, timeVars, camVars, chVars
<1>7. ASSUME EchoFails PROVE ReaderInv'
  BY <1>7 DEF TypeOK, RunTypes, SocketTypes, PacketTypes, TimeInv, ReaderInv, Readers, Writers,
    EchoFails, Return, vars, sockVars, timeVars, camVars, chVars
<1>8. ASSUME AwaitTop PROVE ReaderInv'
  BY <1>8 DEF TypeOK, RunTypes, SocketTypes, PacketTypes, TimeInv, ReaderInv, Readers, Writers,
    AwaitTop, Return, vars, sockVars, timeVars, camVars, chVars
<1>9. ASSUME AwaitReads PROVE ReaderInv'
  BY <1>9 DEF TypeOK, RunTypes, SocketTypes, PacketTypes, TimeInv, ReaderInv, Readers, Writers,
    AwaitReads, vars, sockVars, timeVars, camVars, chVars
<1>10. ASSUME AwaitFails PROVE ReaderInv'
  BY <1>10 DEF TypeOK, RunTypes, SocketTypes, PacketTypes, TimeInv, ReaderInv, Readers, Writers,
    AwaitFails, Return, vars, sockVars, timeVars, camVars, chVars
<1>11. ASSUME AwaitHandles PROVE ReaderInv'
  BY <1>11 DEF TypeOK, RunTypes, SocketTypes, PacketTypes, TimeInv, ReaderInv, Readers, Writers,
    AwaitHandles, Return, Dispatch, vars, sockVars, timeVars, camVars, chVars
<1>12. ASSUME LoopTop PROVE ReaderInv'
  BY <1>12 DEF TypeOK, RunTypes, SocketTypes, PacketTypes, TimeInv, ReaderInv, Readers, Writers,
    LoopTop, vars, sockVars, timeVars, camVars, chVars
<1>13. ASSUME LoopReads PROVE ReaderInv'
  BY <1>13 DEF TypeOK, RunTypes, SocketTypes, PacketTypes, TimeInv, ReaderInv, Readers, Writers,
    LoopReads, vars, sockVars, timeVars, camVars, chVars
<1>14. ASSUME LoopHandles PROVE ReaderInv'
  BY <1>14 DEF TypeOK, RunTypes, SocketTypes, PacketTypes, TimeInv, ReaderInv, Readers, Writers,
    LoopHandles, Dispatch, vars, sockVars, timeVars, camVars, chVars
<1>15. ASSUME LoopFails PROVE ReaderInv'
  BY <1>15 DEF TypeOK, RunTypes, SocketTypes, PacketTypes, TimeInv, ReaderInv, Readers, Writers,
    LoopFails, vars, sockVars, timeVars, camVars, chVars
<1>16. ASSUME WriteVideo PROVE ReaderInv'
  BY <1>16 DEF TypeOK, RunTypes, SocketTypes, PacketTypes, TimeInv, ReaderInv, Readers, Writers,
    WriteVideo, vars, sockVars, timeVars, camVars, chVars
<1>17. ASSUME VideoDone PROVE ReaderInv'
  BY <1>17 DEF TypeOK, RunTypes, SocketTypes, PacketTypes, TimeInv, ReaderInv, Readers, Writers,
    VideoDone, vars, sockVars, timeVars, camVars, chVars
<1>18. ASSUME Breaks PROVE ReaderInv'
  BY <1>18 DEF TypeOK, RunTypes, SocketTypes, PacketTypes, TimeInv, ReaderInv, Readers, Writers,
    Breaks, vars, sockVars, timeVars, camVars, chVars
<1>19. ASSUME NEW w \in Writers, Lock(w) PROVE ReaderInv'
  BY <1>19 DEF TypeOK, RunTypes, SocketTypes, PacketTypes, TimeInv, ReaderInv, Readers, Writers,
    Lock, vars, sockVars, timeVars, camVars, chVars
<1>20. ASSUME NEW w \in Writers, Header(w) PROVE ReaderInv'
  BY <1>20 DEF TypeOK, RunTypes, SocketTypes, PacketTypes, TimeInv, ReaderInv, Readers, Writers,
    Header, vars, sockVars, timeVars, camVars, chVars
<1>21. ASSUME NEW w \in Writers, Payload(w) PROVE ReaderInv'
  BY <1>21 DEF TypeOK, RunTypes, SocketTypes, PacketTypes, TimeInv, ReaderInv, Readers, Writers,
    Payload, Written, Delivered, vars, sockVars, timeVars, camVars, chVars
<1>22. ASSUME NEW w \in Writers, WriteError(w) PROVE ReaderInv'
  BY <1>22 DEF TypeOK, RunTypes, SocketTypes, PacketTypes, TimeInv, ReaderInv, Readers, Writers,
    WriteError, Written, vars, sockVars, timeVars, camVars, chVars
<1>23. ASSUME NEW t \in Types, CameraSends(t) PROVE ReaderInv'
  BY <1>23 DEF TypeOK, RunTypes, SocketTypes, PacketTypes, TimeInv, ReaderInv, Readers, Writers,
    CameraSends, vars, sockVars, timeVars, camVars, chVars
<1>24. ASSUME UNCHANGED vars PROVE ReaderInv'
  BY <1>24 DEF TypeOK, RunTypes, SocketTypes, PacketTypes, TimeInv, ReaderInv, Readers, Writers,
    vars, sockVars, timeVars, camVars, chVars
<1> QED
  BY <1>1, <1>2, <1>3, <1>4, <1>5, <1>6, <1>7, <1>8, <1>9, <1>10, <1>11, <1>12, <1>13, <1>14,
    <1>15, <1>16, <1>17, <1>18, <1>19, <1>20, <1>21, <1>22, <1>23, <1>24
     DEF Next, Main, ReadLoop, KeepAlive, Write

\* Every step leaves the video in order.
LEMMA OrderStep ==
  ASSUME TypeOK, ReaderInv, OrderInv, [Next]_vars
  PROVE  OrderInv'
<1>1. ASSUME Cancel PROVE OrderInv'
  BY <1>1 DEF TypeOK, PacketTypes, OrderInv, Readers, Writers, Cancel, vars, sockVars, timeVars,
    camVars, chVars
<1>2. ASSUME TimePasses PROVE OrderInv'
  BY <1>2 DEF TypeOK, PacketTypes, OrderInv, Readers, Writers, TimePasses, vars, sockVars,
    timeVars, camVars, chVars
<1>3. ASSUME Tick PROVE OrderInv'
  BY <1>3 DEF TypeOK, PacketTypes, OrderInv, Readers, Writers, Tick, vars, sockVars, timeVars,
    camVars, chVars
<1>4. ASSUME KeepAliveEnds PROVE OrderInv'
  BY <1>4 DEF TypeOK, PacketTypes, OrderInv, Readers, Writers, KeepAliveEnds, vars, sockVars,
    timeVars, camVars, chVars
<1>5. ASSUME Dial PROVE OrderInv'
  BY <1>5 DEF TypeOK, PacketTypes, OrderInv, Readers, Writers, Dial, Return, vars, sockVars,
    timeVars, camVars, chVars
<1>6. ASSUME Echo PROVE OrderInv'
  BY <1>6 DEF TypeOK, PacketTypes, OrderInv, Readers, Writers, Echo, vars, sockVars, timeVars,
    camVars, chVars
<1>7. ASSUME EchoFails PROVE OrderInv'
  BY <1>7 DEF TypeOK, PacketTypes, OrderInv, Readers, Writers, EchoFails, Return, vars,
    sockVars, timeVars, camVars, chVars
<1>8. ASSUME AwaitTop PROVE OrderInv'
  BY <1>8 DEF TypeOK, PacketTypes, OrderInv, Readers, Writers, AwaitTop, Return, vars, sockVars,
    timeVars, camVars, chVars
<1>9. ASSUME AwaitReads PROVE OrderInv'
  BY <1>9 DEF TypeOK, PacketTypes, OrderInv, Readers, Writers, AwaitReads, vars, sockVars,
    timeVars, camVars, chVars
<1>10. ASSUME AwaitFails PROVE OrderInv'
  BY <1>10 DEF TypeOK, PacketTypes, OrderInv, Readers, Writers, AwaitFails, Return, vars,
    sockVars, timeVars, camVars, chVars
<1>11. ASSUME AwaitHandles PROVE OrderInv'
  <2>1. hand' = [hand EXCEPT !["main"] = None] /\ hand["loop"] = None
    BY <1>11 DEF AwaitHandles, ReaderInv
  <2>2. UNCHANGED <<inbox, shot, lastOut>> /\ (Dispatch(hand["main"]) \/ UNCHANGED chVars)
    BY <1>11 DEF AwaitHandles, camVars
  <2> QED
    BY <2>1, <2>2, DispatchOrder DEF Readers, TypeOK
<1>12. ASSUME LoopTop PROVE OrderInv'
  BY <1>12 DEF TypeOK, PacketTypes, OrderInv, Readers, Writers, LoopTop, vars, sockVars,
    timeVars, camVars, chVars
<1>13. ASSUME LoopReads PROVE OrderInv'
  BY <1>13 DEF TypeOK, PacketTypes, OrderInv, Readers, Writers, LoopReads, vars, sockVars,
    timeVars, camVars, chVars
<1>14. ASSUME LoopHandles PROVE OrderInv'
  <2>1. hand' = [hand EXCEPT !["loop"] = None] /\ hand["main"] = None
    BY <1>14 DEF LoopHandles, ReaderInv
  <2>2. UNCHANGED <<inbox, shot, lastOut>> /\ (Dispatch(hand["loop"]) \/ UNCHANGED chVars)
    BY <1>14 DEF LoopHandles, camVars
  <2> QED
    BY <2>1, <2>2, DispatchOrder DEF Readers, TypeOK
<1>15. ASSUME LoopFails PROVE OrderInv'
  BY <1>15 DEF TypeOK, PacketTypes, OrderInv, Readers, Writers, LoopFails, vars, sockVars,
    timeVars, camVars, chVars
<1>16. ASSUME WriteVideo PROVE OrderInv'
  BY SMTT(60), <1>16 DEF TypeOK, PacketTypes, OrderInv, Readers, Writers, WriteVideo, vars,
    sockVars,
    timeVars, camVars, chVars
<1>17. ASSUME VideoDone PROVE OrderInv'
  BY <1>17 DEF TypeOK, PacketTypes, OrderInv, Readers, Writers, VideoDone, vars, sockVars,
    timeVars, camVars, chVars
<1>18. ASSUME Breaks PROVE OrderInv'
  BY <1>18 DEF TypeOK, PacketTypes, OrderInv, Readers, Writers, Breaks, vars, sockVars,
    timeVars, camVars, chVars
<1>19. ASSUME NEW w \in Writers, Lock(w) PROVE OrderInv'
  BY <1>19 DEF TypeOK, PacketTypes, OrderInv, Readers, Writers, Lock, vars, sockVars, timeVars,
    camVars, chVars
<1>20. ASSUME NEW w \in Writers, Header(w) PROVE OrderInv'
  BY <1>20 DEF TypeOK, PacketTypes, OrderInv, Readers, Writers, Header, vars, sockVars,
    timeVars, camVars, chVars
<1>21. ASSUME NEW w \in Writers, Payload(w) PROVE OrderInv'
  BY <1>21 DEF TypeOK, PacketTypes, OrderInv, Readers, Writers, Payload, Written, Delivered,
    vars, sockVars, timeVars, camVars, chVars
<1>22. ASSUME NEW w \in Writers, WriteError(w) PROVE OrderInv'
  BY <1>22 DEF TypeOK, PacketTypes, OrderInv, Readers, Writers, WriteError, Written, vars,
    sockVars, timeVars, camVars, chVars
<1>23. ASSUME NEW t \in Types, CameraSends(t) PROVE OrderInv'
  <2> DEFINE p == [type |-> t, n |-> IF t = "video" THEN shot + 1 ELSE 0]
  <2>1. inbox \in Seq(Packet) /\ shot \in Nat /\ lastOut \in 0 .. shot /\ videoCh \in Seq(Nat)
    BY DEF TypeOK, PacketTypes
  <2>2. \A r \in Readers : hand[r].n \in Nat
    BY DEF TypeOK, PacketTypes, Packet, None
  <2>3. /\ Len(inbox') = Len(inbox) + 1
        /\ inbox'[Len(inbox) + 1] = p
        /\ \A i \in 1 .. Len(inbox) : inbox'[i] = inbox[i]
    <3>1. p \in Packet
      BY <2>1 DEF Packet
    <3>2. inbox' = Append(inbox, p)
      BY <1>23 DEF CameraSends
    <3> QED
      BY ONLY <2>1, <3>1, <3>2, AppendProperties
  <2>4. /\ UNCHANGED <<hand, videoCh, lastOut>>
        /\ shot <= shot' /\ (t = "video" => shot' = shot + 1) /\ shot' \in Nat
    BY <1>23, <2>1 DEF CameraSends, chVars
  <2>5. \A i \in 1 .. Len(inbox) : inbox[i].n \in Nat
    <3>1. \A i \in 1 .. Len(inbox) : inbox[i] \in Packet
      BY <2>1
    <3> QED
      BY <3>1 DEF Packet
  <2>6. \A k \in 1 .. Len(videoCh) : lastOut < videoCh[k] /\ videoCh[k] <= shot' /\ videoCh[k] \in Nat
    BY <2>1, <2>4 DEF OrderInv
  <2>7. \A r \in Readers : hand[r].type = "video" =>
          /\ lastOut < hand[r].n /\ hand[r].n <= shot'
          /\ \A k \in 1 .. Len(videoCh) : videoCh[k] < hand[r].n
    BY <2>1, <2>2, <2>4 DEF OrderInv
  <2>8. \A i \in 1 .. Len(inbox') : inbox'[i].type = "video" =>
          /\ lastOut < inbox'[i].n /\ inbox'[i].n <= shot'
          /\ \A k \in 1 .. Len(videoCh) : videoCh[k] < inbox'[i].n
          /\ \A r \in Readers : hand[r].type = "video" => hand[r].n < inbox'[i].n
    <3> SUFFICES ASSUME NEW i \in 1 .. Len(inbox'), inbox'[i].type = "video"
                 PROVE  /\ lastOut < inbox'[i].n /\ inbox'[i].n <= shot'
                        /\ \A k \in 1 .. Len(videoCh) : videoCh[k] < inbox'[i].n
                        /\ \A r \in Readers : hand[r].type = "video" => hand[r].n < inbox'[i].n
      OBVIOUS
    <3>1. CASE i \in 1 .. Len(inbox)
      BY <3>1, <2>1, <2>3, <2>4, <2>5 DEF OrderInv
    <3>2. CASE i = Len(inbox) + 1
      <4>1. inbox'[i].n = shot + 1 /\ shot' = shot + 1
        BY <3>2, <2>3, <2>4
      <4> QED
        BY <4>1, <2>1, <2>2, <2>4, <2>6 DEF OrderInv
    <3>3. Len(inbox) \in Nat
      BY <2>1
    <3> QED
      BY <3>1, <3>2, <3>3, <2>3
  <2>9. \A i, j \in 1 .. Len(inbox') :
          i < j /\ inbox'[i].type = "video" /\ inbox'[j].type = "video"
            => inbox'[i].n < inbox'[j].n
    <3> SUFFICES ASSUME NEW i \in 1 .. Len(inbox'), NEW j \in 1 .. Len(inbox'), i < j,
                        inbox'[i].type = "video", inbox'[j].type = "video"
                 PROVE  inbox'[i].n < inbox'[j].n
      OBVIOUS
    <3>1. Len(inbox) \in Nat /\ i \in 1 .. Len(inbox)
      BY <2>1, <2>3
    <3>2. CASE j \in 1 .. Len(inbox)
      BY <3>1, <3>2, <2>3 DEF OrderInv
    <3>3. CASE j = Len(inbox) + 1
      <4>1. inbox'[j].n = shot + 1 /\ inbox'[i] = inbox[i]
        BY <3>1, <3>3, <2>3
      <4>2. inbox[i].n <= shot /\ inbox[i].n \in Nat
        BY <3>1, <4>1, <2>5 DEF OrderInv
      <4> QED
        BY <4>1, <4>2, <2>1
    <3> QED
      BY <3>1, <3>2, <3>3, <2>3
  <2> QED
    BY <2>4, <2>6, <2>7, <2>8, <2>9, <1>23 DEF OrderInv, chVars
<1>24. ASSUME UNCHANGED vars PROVE OrderInv'
  BY <1>24 DEF TypeOK, PacketTypes, OrderInv, Readers, Writers, vars, sockVars, timeVars,
    camVars, chVars
<1> QED
  BY <1>1, <1>2, <1>3, <1>4, <1>5, <1>6, <1>7, <1>8, <1>9, <1>10, <1>11, <1>12, <1>13, <1>14,
    <1>15, <1>16, <1>17, <1>18, <1>19, <1>20, <1>21, <1>22, <1>23, <1>24
     DEF Next, Main, ReadLoop, KeepAlive, Write

\* The invariant is inductive, so it holds in every state of every run.
THEOREM Inductive == Spec => []IInv
<1>1. Init => IInv
  BY InitHolds
<1>2. IInv /\ [Next]_vars => IInv'
  <2> SUFFICES ASSUME IInv, [Next]_vars PROVE IInv'
    OBVIOUS
  <2> USE DEF IInv
  <2>1. RunTypes' /\ SocketTypes' /\ PacketTypes'
    BY RunTypeStep, SocketTypeStep, PacketTypeStep DEF TypeOK
  <2>2. MutexInv' /\ TimeInv' /\ ReaderInv'
    BY MutexStep, TimeStep, ReaderStep
  <2>3. OrderInv'
    BY OrderStep
  <2> QED
    BY <2>1, <2>2, <2>3 DEF TypeOK
<1> QED
  BY <1>1, <1>2, PTL DEF Spec

\* Every variable keeps its type; no bounded channel holds more than its capacity
\* (WifiStream.TypeOK).
THEOREM TypeCorrect == Spec => []TypeOK
<1>1. IInv => TypeOK
  BY DEF IInv
<1> QED
  BY <1>1, Inductive, PTL

\* A length prefix is followed by its own payload, whoever else writes
\* (conn.go:113-122).
THEOREM PacketsStayWhole == Spec => []WholePackets
<1>1. IInv => WholePackets
  BY DEF IInv, MutexInv, WholePackets
<1> QED
  BY <1>1, Inductive, PTL

\* Less than two intervals pass between packets to the camera, whatever the interval
\* (conn.go:210-233).
THEOREM CameraHearsInTime == Spec => []KeptAlive
<1>1. IInv => KeptAlive
  BY WifiStreamAssumption DEF IInv, TypeOK, RunTypes, SocketTypes, TimeInv, KeptAlive
<1> QED
  BY <1>1, Inductive, PTL

\* Video is written out in the order in which the camera took it (stream.go:235-240).
THEOREM VideoStaysInOrder == Spec => []VideoInOrder
<1>1. IInv => VideoInOrder
  BY DEF IInv, OrderInv, VideoInOrder
<1> QED
  BY <1>1, Inductive, PTL
===============================================================================
