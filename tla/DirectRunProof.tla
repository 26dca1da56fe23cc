---------------------------- MODULE DirectRunProof ----------------------------
(***************************************************************************)
(* Proofs about module DirectRun, for any cameras, filter and channel size: *)
(* its types, and that what the scan hears is offered, that an Init without *)
(* a warning leaves a synced camera which does not hold this host for not   *)
(* authorized, and that a control command reported as carried out was       *)
(* answered.                                                                *)
(***************************************************************************)
EXTENDS DirectRun, SequenceTheorems, TLAPS


\* The initial states satisfy the invariant.
LEMMA InitHolds == Init => IInv
<1> SUFFICES ASSUME Init PROVE IInv
  OBVIOUS
<1>1. ScanTypes
  <2>1. listening \in BOOLEAN /\ expired \in BOOLEAN
    BY DEF Init
  <2> QED
    BY <2>1, DirectRunAssumption DEF Init, ScanTypes
<1>2. RunTypes
  BY DEF Init, RunTypes, Commands
<1>3. LinkTypes
  <2>1. air \in Seq(Messages) /\ Len(air) <= AirCap
    BY DirectRunAssumption DEF Init
  <2>2. cam \in [synced : BOOLEAN, pending : Requests \cup {"none"}, auth : Statuses,
                answered : SUBSET Requests]
    BY DEF Init, Statuses
  <2> QED
    BY <2>1, <2>2 DEF Init, LinkTypes
<1>4. ScanInv /\ HeardIsOffered
  BY DEF Init, ScanInv, HeardIsOffered
<1>5. FormatInv
  BY DEF Init, FormatInv
<1>6. AirInv /\ RespInv
  BY DEF Init, AirInv, RespInv
<1>7. JobInv /\ SilentInitIsReady /\ OkWasAnswered
  BY DEF Init, JobInv, SilentInitIsReady, OkWasAnswered
<1> QED
  BY <1>1, <1>2, <1>3, <1>4, <1>5, <1>6, <1>7 DEF IInv, TypeOK

\* The channel of found devices after a receive.
LEMMA ReceiveTypes ==
  ASSUME ScanTypes, devCh # <<>>
  PROVE  /\ Tail(devCh) \in Seq(Cameras)
         /\ Len(Tail(devCh)) <= ChCap
         /\ Head(devCh) \in Cameras
<1>1. devCh \in Seq(Cameras) /\ Len(devCh) <= ChCap
  BY DEF ScanTypes
<1> QED
  BY <1>1, HeadTailProperties, DirectRunAssumption

\* What the radio may make of a message.
LEMMA SentTypes ==
  ASSUME LinkTypes, Len(air) < AirCap, NEW m \in Messages, Sent(m)
  PROVE  air' \in Seq(Messages) /\ Len(air') <= AirCap
<1>1. air \in Seq(Messages) /\ Len(air) <= AirCap
  BY DEF LinkTypes
<1>2. air' = air \/ air' = Append(air, m)
  BY DEF Sent
<1> QED
  BY <1>1, <1>2, AppendProperties, DirectRunAssumption

\* The notifications after one is handled.
LEMMA TakenTypes ==
  ASSUME LinkTypes, air # <<>>, air' = Tail(air)
  PROVE  /\ air' \in Seq(Messages) /\ Len(air') <= AirCap
         /\ Head(air) \in Messages
<1>1. air \in Seq(Messages) /\ Len(air) <= AirCap
  BY DEF LinkTypes
<1> QED
  BY <1>1, HeadTailProperties, DirectRunAssumption

\* Every step keeps the types of the scan.
LEMMA ScanTypeStep == ASSUME TypeOK, ScanInv, [Next]_vars PROVE ScanTypes'
<1> USE DirectRunAssumption
<1>1. ASSUME NEW c \in Cameras, NEW full \in BOOLEAN, Hear(c, full)
      PROVE  ScanTypes'
  BY <1>1 DEF TypeOK, ScanTypes, ScanInv, Hear, vars, scanVars, chVars, linkVars, talkVars,
    jobVars
<1>2. ASSUME Offer PROVE ScanTypes'
  <2>1. CASE scanner # "closed"
    <3>1. devCh \in Seq(Cameras) /\ cb \in Cameras /\ Len(devCh) < ChCap
      BY <1>2, <2>1 DEF Offer, TypeOK, ScanTypes
    <3>2. devCh' = Append(devCh, cb)
      BY <1>2, <2>1 DEF Offer
    <3>3. devCh' \in Seq(Cameras) /\ Len(devCh') <= ChCap
      BY ONLY <3>1, <3>2, AppendProperties, DirectRunAssumption
    <3> QED
      BY <1>2, <2>1, <3>3 DEF Offer, TypeOK, ScanTypes, vars, scanVars, chVars, linkVars,
        talkVars, jobVars
  <2>2. CASE scanner = "closed"
    BY <1>2, <2>2 DEF Offer, TypeOK, ScanTypes, vars, scanVars, chVars, linkVars, talkVars,
      jobVars
  <2> QED
    BY <2>1, <2>2
<1>3. ASSUME OfferCancelled PROVE ScanTypes'
  BY <1>3 DEF TypeOK, ScanTypes, ScanInv, OfferCancelled, vars, scanVars, chVars, linkVars,
    talkVars, jobVars
<1>4. ASSUME ScanReturns PROVE ScanTypes'
  BY <1>4 DEF TypeOK, ScanTypes, ScanInv, ScanReturns, vars, scanVars, chVars, linkVars,
    talkVars, jobVars
<1>5. ASSUME ReportError PROVE ScanTypes'
  <2>1. errCh = 0
    BY <1>5 DEF ReportError, TypeOK, ScanTypes, ScanInv
  <2>2. errCh' \in 0 .. 1
    BY <1>5, <2>1 DEF ReportError
  <2> QED
    BY <1>5, <2>2 DEF ReportError, TypeOK, ScanTypes, vars, scanVars, chVars, linkVars,
      talkVars, jobVars
<1>6. ASSUME CloseCh PROVE ScanTypes'
  BY <1>6 DEF TypeOK, ScanTypes, ScanInv, CloseCh, vars, scanVars, chVars, linkVars, talkVars,
    jobVars
<1>7. ASSUME List PROVE ScanTypes'
  <2>1. errCh' \in 0 .. 1
    BY <1>7 DEF List, ScanTypes, TypeOK, chVars
  <2>2. devCh' \in Seq(Cameras) /\ Len(devCh') <= ChCap
    BY <1>7, ReceiveTypes DEF List, ScanTypes, TypeOK, chVars
  <2> QED
    BY <1>7, <2>1, <2>2 DEF List, TypeOK, ScanTypes, vars, scanVars, chVars, linkVars, talkVars,
      jobVars
<1>8. ASSUME ListEnds PROVE ScanTypes'
  <2>1. errCh' \in 0 .. 1
    BY <1>8 DEF ListEnds, TypeOK, ScanTypes, chVars
  <2>2. expired' = TRUE
    BY <1>8 DEF ListEnds, Return
  <2> QED
    BY <1>8, <2>1, <2>2 DEF ListEnds, TypeOK, ScanTypes, vars, scanVars, chVars, linkVars,
      talkVars, jobVars
<1>9. ASSUME TakeDevice PROVE ScanTypes'
  <2>1. errCh' \in 0 .. 1
    BY <1>9 DEF TakeDevice, ScanTypes, TypeOK, chVars
  <2>2. devCh' \in Seq(Cameras) /\ Len(devCh') <= ChCap
    BY <1>9, ReceiveTypes DEF TakeDevice, ScanTypes, TypeOK, chVars
  <2> QED
    BY <1>9, <2>1, <2>2 DEF TakeDevice, TypeOK, ScanTypes, vars, scanVars, chVars, linkVars,
      talkVars, jobVars
<1>10. ASSUME TakeNil PROVE ScanTypes'
  BY <1>10 DEF TypeOK, ScanTypes, ScanInv, TakeNil, vars, scanVars, chVars, linkVars, talkVars,
    jobVars
<1>11. ASSUME GiveUp PROVE ScanTypes'
  <2>1. errCh' \in 0 .. 1
    BY <1>11 DEF GiveUp, TypeOK, ScanTypes, chVars
  <2>2. expired' = TRUE
    BY <1>11 DEF GiveUp, Return
  <2> QED
    BY <1>11, <2>1, <2>2 DEF GiveUp, TypeOK, ScanTypes, vars, scanVars, chVars, linkVars,
      talkVars, jobVars
<1>12. ASSUME Connect PROVE ScanTypes'
  BY <1>12 DEF TypeOK, ScanTypes, ScanInv, Connect, Return, vars, scanVars, chVars, linkVars,
    talkVars, jobVars
<1>13. ASSUME Discover PROVE ScanTypes'
  BY <1>13 DEF TypeOK, ScanTypes, ScanInv, Discover, Return, vars, scanVars, chVars, linkVars,
    talkVars, jobVars
<1>14. ASSUME Subscribe PROVE ScanTypes'
  BY <1>14 DEF TypeOK, ScanTypes, ScanInv, Subscribe, vars, scanVars, chVars, linkVars,
    talkVars, jobVars
<1>15. ASSUME SyncHandshake PROVE ScanTypes'
  BY <1>15 DEF TypeOK, ScanTypes, ScanInv, SyncHandshake, vars, scanVars, chVars, linkVars,
    talkVars, jobVars
<1>16. ASSUME WriteCheck PROVE ScanTypes'
  BY <1>16 DEF TypeOK, ScanTypes, ScanInv, WriteCheck, Write, Receives, Sent, vars, scanVars,
    chVars, linkVars, talkVars, jobVars
<1>17. ASSUME Checked PROVE ScanTypes'
  BY <1>17 DEF TypeOK, ScanTypes, ScanInv, Checked, vars, scanVars, chVars, linkVars, talkVars,
    jobVars
<1>18. ASSUME WriteRequest PROVE ScanTypes'
  BY <1>18 DEF TypeOK, ScanTypes, ScanInv, WriteRequest, Write, Receives, Sent, vars, scanVars,
    chVars, linkVars, talkVars, jobVars
<1>19. ASSUME Requested PROVE ScanTypes'
  BY <1>19 DEF TypeOK, ScanTypes, ScanInv, Requested, vars, scanVars, chVars, linkVars,
    talkVars, jobVars
<1>20. ASSUME AuthorizeFails PROVE ScanTypes'
  BY <1>20 DEF TypeOK, ScanTypes, ScanInv, AuthorizeFails, vars, scanVars, chVars, linkVars,
    talkVars, jobVars
<1>21. ASSUME WriteAction PROVE ScanTypes'
  BY <1>21 DEF TypeOK, ScanTypes, ScanInv, WriteAction, Write, Receives, Sent, vars, scanVars,
    chVars, linkVars, talkVars, jobVars
<1>22. ASSUME PowerOff PROVE ScanTypes'
  BY <1>22 DEF TypeOK, ScanTypes, ScanInv, PowerOff, Receives, Sent, vars, scanVars, chVars,
    linkVars, talkVars, jobVars
<1>23. ASSUME Acted PROVE ScanTypes'
  BY <1>23 DEF TypeOK, ScanTypes, ScanInv, Acted, ActedSo, vars, scanVars, chVars, linkVars,
    talkVars, jobVars
<1>24. ASSUME Close PROVE ScanTypes'
  BY <1>24 DEF TypeOK, ScanTypes, ScanInv, Close, Return, vars, scanVars, chVars, linkVars,
    talkVars, jobVars
<1>25. ASSUME HandleSync PROVE ScanTypes'
  BY <1>25 DEF TypeOK, ScanTypes, ScanInv, HandleSync, vars, scanVars, chVars, linkVars,
    talkVars, jobVars
<1>26. ASSUME HandleAnswer PROVE ScanTypes'
  BY <1>26 DEF TypeOK, ScanTypes, ScanInv, HandleAnswer, Waiting, vars, scanVars, chVars,
    linkVars, talkVars, jobVars
<1>27. ASSUME CameraHandles PROVE ScanTypes'
  BY <1>27 DEF TypeOK, ScanTypes, ScanInv, CameraHandles, Sent, AnswersTo, vars, scanVars,
    chVars, linkVars, talkVars, jobVars
<1>28. ASSUME Expire PROVE ScanTypes'
  BY <1>28 DEF TypeOK, ScanTypes, ScanInv, Expire, vars, scanVars, chVars, linkVars, talkVars,
    jobVars
<1>29. ASSUME UNCHANGED vars PROVE ScanTypes'
  BY <1>29 DEF TypeOK, ScanTypes, ScanInv, vars, scanVars, chVars, linkVars, talkVars, jobVars
<1> QED
  BY <1>1, <1>2, <1>3, <1>4, <1>5, <1>6, <1>7, <1>8, <1>9, <1>10, <1>11, <1>12, <1>13, <1>14,
    <1>15, <1>16, <1>17, <1>18, <1>19, <1>20, <1>21, <1>22, <1>23, <1>24, <1>25, <1>26, <1>27,
    <1>28, <1>29 DEF Next, Scanning, Main, Handler

\* Every step keeps the types of the command.
LEMMA RunTypeStep == ASSUME TypeOK, [Next]_vars PROVE RunTypes'
<1> USE DEF Commands
<1>1. ASSUME NEW c \in Cameras, NEW full \in BOOLEAN, Hear(c, full)
      PROVE  RunTypes'
  BY ZenonT(60), <1>1 DEF TypeOK, RunTypes, Hear, vars, scanVars, chVars, linkVars, talkVars,
    jobVars
<1>2. ASSUME Offer PROVE RunTypes'
  BY ZenonT(60), <1>2 DEF TypeOK, RunTypes, Offer, vars, scanVars, chVars, linkVars, talkVars,
    jobVars
<1>3. ASSUME OfferCancelled PROVE RunTypes'
  BY ZenonT(60), <1>3 DEF TypeOK, RunTypes, OfferCancelled, vars, scanVars, chVars, linkVars,
    talkVars,
    jobVars
<1>4. ASSUME ScanReturns PROVE RunTypes'
  BY ZenonT(60), <1>4 DEF TypeOK, RunTypes, ScanReturns, vars, scanVars, chVars, linkVars,
    talkVars, jobVars
<1>5. ASSUME ReportError PROVE RunTypes'
  BY ZenonT(60), <1>5 DEF TypeOK, RunTypes, ReportError, vars, scanVars, chVars, linkVars,
    talkVars, jobVars
<1>6. ASSUME CloseCh PROVE RunTypes'
  BY ZenonT(60), <1>6 DEF TypeOK, RunTypes, CloseCh, vars, scanVars, chVars, linkVars, talkVars,
    jobVars
<1>7. ASSUME List PROVE RunTypes'
  <2>1. listed' \subseteq Cameras \cup {NoCam}
    <3>1. CASE devCh # <<>>
      <4>1. Head(devCh) \in Cameras
        BY <3>1, ReceiveTypes DEF TypeOK
      <4>2. listed' \subseteq listed \cup {Head(devCh), NoCam}
        BY <1>7 DEF List
      <4> QED
        BY <4>1, <4>2 DEF TypeOK, RunTypes
    <3>2. CASE devCh = <<>>
      BY <1>7, <3>2 DEF List, TypeOK, RunTypes
    <3> QED
      BY <3>1, <3>2
  <2> QED
    BY <1>7, <2>1 DEF List, TypeOK, RunTypes, vars, scanVars, chVars, linkVars, talkVars, jobVars
<1>8. ASSUME ListEnds PROVE RunTypes'
  BY <1>8 DEF TypeOK, RunTypes, ListEnds, Return, vars, scanVars, chVars, linkVars, talkVars,
    jobVars
<1>9. ASSUME TakeDevice PROVE RunTypes'
  <2>1. Head(devCh) \in Cameras
    BY <1>9, ReceiveTypes DEF TakeDevice, TypeOK
  <2>2. dev' \in Cameras \/ (dev' = NoCam /\ at' \in {"list", "select", "returned"})
    <3>1. CASE Head(devCh) \in Matching
      <4>1. dev' = Head(devCh)
        BY <1>9, <3>1 DEF TakeDevice
      <4> QED
        BY ONLY <2>1, <4>1
    <3>2. CASE Head(devCh) \notin Matching
      BY <1>9, <3>2 DEF TakeDevice, TypeOK, RunTypes
    <3> QED
      BY <3>1, <3>2
  <2>3. at' = at \/ at' = "connect"
    BY <1>9 DEF TakeDevice
  <2> QED
    BY <1>9, <2>2, <2>3 DEF TakeDevice, TypeOK, RunTypes, vars, scanVars, chVars, linkVars,
      talkVars, jobVars
<1>10. ASSUME TakeNil PROVE RunTypes'
  BY <1>10 DEF TypeOK, RunTypes, TakeNil, vars, scanVars, chVars, linkVars, talkVars, jobVars
<1>11. ASSUME GiveUp PROVE RunTypes'
  BY <1>11 DEF TypeOK, RunTypes, GiveUp, Return, vars, scanVars, chVars, linkVars, talkVars,
    jobVars
<1>12. ASSUME Connect PROVE RunTypes'
  BY <1>12 DEF TypeOK, RunTypes, Connect, Return, vars, scanVars, chVars, linkVars, talkVars,
    jobVars
<1>13. ASSUME Discover PROVE RunTypes'
  BY <1>13 DEF TypeOK, RunTypes, Discover, Return, vars, scanVars, chVars, linkVars, talkVars,
    jobVars
<1>14. ASSUME Subscribe PROVE RunTypes'
  BY <1>14 DEF TypeOK, RunTypes, Subscribe, vars, scanVars, chVars, linkVars, talkVars, jobVars
<1>15. ASSUME SyncHandshake PROVE RunTypes'
  BY <1>15 DEF TypeOK, RunTypes, SyncHandshake, vars, scanVars, chVars, linkVars, talkVars,
    jobVars
<1>16. ASSUME WriteCheck PROVE RunTypes'
  BY <1>16 DEF TypeOK, RunTypes, WriteCheck, Write, Receives, Sent, vars, scanVars, chVars,
    linkVars, talkVars, jobVars
<1>17. ASSUME Checked PROVE RunTypes'
  BY <1>17 DEF TypeOK, RunTypes, Checked, vars, scanVars, chVars, linkVars, talkVars, jobVars
<1>18. ASSUME WriteRequest PROVE RunTypes'
  BY <1>18 DEF TypeOK, RunTypes, WriteRequest, Write, Receives, Sent, vars, scanVars, chVars,
    linkVars, talkVars, jobVars
<1>19. ASSUME Requested PROVE RunTypes'
  BY <1>19 DEF TypeOK, RunTypes, Requested, vars, scanVars, chVars, linkVars, talkVars, jobVars
<1>20. ASSUME AuthorizeFails PROVE RunTypes'
  BY <1>20 DEF TypeOK, RunTypes, AuthorizeFails, vars, scanVars, chVars, linkVars, talkVars,
    jobVars
<1>21. ASSUME WriteAction PROVE RunTypes'
  BY <1>21 DEF TypeOK, RunTypes, WriteAction, Write, Receives, Sent, vars, scanVars, chVars,
    linkVars, talkVars, jobVars
<1>22. ASSUME PowerOff PROVE RunTypes'
  BY <1>22 DEF TypeOK, RunTypes, PowerOff, Receives, Sent, vars, scanVars, chVars, linkVars,
    talkVars, jobVars
<1>23. ASSUME Acted PROVE RunTypes'
  BY <1>23 DEF TypeOK, RunTypes, Acted, ActedSo, vars, scanVars, chVars, linkVars, talkVars,
    jobVars
<1>24. ASSUME Close PROVE RunTypes'
  BY <1>24 DEF TypeOK, RunTypes, Close, Return, vars, scanVars, chVars, linkVars, talkVars,
    jobVars
<1>25. ASSUME HandleSync PROVE RunTypes'
  BY ZenonT(60), <1>25 DEF TypeOK, RunTypes, HandleSync, vars, scanVars, chVars, linkVars,
    talkVars, jobVars
<1>26. ASSUME HandleAnswer PROVE RunTypes'
  BY ZenonT(60), <1>26 DEF TypeOK, RunTypes, HandleAnswer, Waiting, vars, scanVars, chVars,
    linkVars,
    talkVars, jobVars
<1>27. ASSUME CameraHandles PROVE RunTypes'
  BY ZenonT(60), <1>27 DEF TypeOK, RunTypes, CameraHandles, Sent, AnswersTo, vars, scanVars,
    chVars,
    linkVars, talkVars, jobVars
<1>28. ASSUME Expire PROVE RunTypes'
  BY ZenonT(60), <1>28 DEF TypeOK, RunTypes, Expire, vars, scanVars, chVars, linkVars, talkVars,
    jobVars
<1>29. ASSUME UNCHANGED vars PROVE RunTypes'
  BY ZenonT(60), <1>29 DEF TypeOK, RunTypes, vars, scanVars, chVars, linkVars, talkVars, jobVars
<1> QED
  BY <1>1, <1>2, <1>3, <1>4, <1>5, <1>6, <1>7, <1>8, <1>9, <1>10, <1>11, <1>12, <1>13, <1>14,
    <1>15, <1>16, <1>17, <1>18, <1>19, <1>20, <1>21, <1>22, <1>23, <1>24, <1>25, <1>26, <1>27,
    <1>28, <1>29 DEF Next, Scanning, Main, Handler

\* Every step keeps the types of the link and of what is said over it.
LEMMA LinkTypeStep == ASSUME TypeOK, [Next]_vars PROVE LinkTypes'
<1> USE DirectRunAssumption DEF Requests, Answers, Messages
<1>1. ASSUME NEW c \in Cameras, NEW full \in BOOLEAN, Hear(c, full)
      PROVE  LinkTypes'
  BY ZenonT(60), <1>1 DEF TypeOK, RunTypes, LinkTypes, Hear, vars, scanVars, chVars, linkVars,
    talkVars,
    jobVars
<1>2. ASSUME Offer PROVE LinkTypes'
  BY ZenonT(60), <1>2 DEF TypeOK, RunTypes, LinkTypes, Offer, vars, scanVars, chVars, linkVars,
    talkVars,
    jobVars
<1>3. ASSUME OfferCancelled PROVE LinkTypes'
  BY ZenonT(60), <1>3 DEF TypeOK, RunTypes, LinkTypes, OfferCancelled, vars, scanVars, chVars,
    linkVars,
    talkVars, jobVars
<1>4. ASSUME ScanReturns PROVE LinkTypes'
  BY ZenonT(60), <1>4 DEF TypeOK, RunTypes, LinkTypes, ScanReturns, vars, scanVars, chVars,
    linkVars,
    talkVars, jobVars
<1>5. ASSUME ReportError PROVE LinkTypes'
  BY ZenonT(60), <1>5 DEF TypeOK, RunTypes, LinkTypes, ReportError, vars, scanVars, chVars,
    linkVars,
    talkVars, jobVars
<1>6. ASSUME CloseCh PROVE LinkTypes'
  BY ZenonT(60), <1>6 DEF TypeOK, RunTypes, LinkTypes, CloseCh, vars, scanVars, chVars, linkVars,
    talkVars,
    jobVars
<1>7. ASSUME List PROVE LinkTypes'
  BY ZenonT(60), <1>7 DEF TypeOK, RunTypes, LinkTypes, List, vars, scanVars, chVars, linkVars,
    talkVars,
    jobVars
<1>8. ASSUME ListEnds PROVE LinkTypes'
  BY ZenonT(60), <1>8 DEF TypeOK, RunTypes, LinkTypes, ListEnds, Return, vars, scanVars, chVars,
    linkVars,
    talkVars, jobVars
<1>9. ASSUME TakeDevice PROVE LinkTypes'
  BY ZenonT(60), <1>9 DEF TypeOK, RunTypes, LinkTypes, TakeDevice, vars, scanVars, chVars,
    linkVars,
    talkVars, jobVars
<1>10. ASSUME TakeNil PROVE LinkTypes'
  BY ZenonT(60), <1>10 DEF TypeOK, RunTypes, LinkTypes, TakeNil, vars, scanVars, chVars, linkVars,
    talkVars,
    jobVars
<1>11. ASSUME GiveUp PROVE LinkTypes'
  BY ZenonT(60), <1>11 DEF TypeOK, RunTypes, LinkTypes, GiveUp, Return, vars, scanVars, chVars,
    linkVars,
    talkVars, jobVars
<1>12. ASSUME Connect PROVE LinkTypes'
  BY ZenonT(60), <1>12 DEF TypeOK, RunTypes, LinkTypes, Connect, Return, vars, scanVars, chVars,
    linkVars,
    talkVars, jobVars
<1>13. ASSUME Discover PROVE LinkTypes'
  BY ZenonT(60), <1>13 DEF TypeOK, RunTypes, LinkTypes, Discover, Return, vars, scanVars, chVars,
    linkVars,
    talkVars, jobVars
<1>14. ASSUME Subscribe PROVE LinkTypes'
  BY ZenonT(60), <1>14 DEF TypeOK, RunTypes, LinkTypes, Subscribe, vars, scanVars, chVars,
    linkVars,
    talkVars, jobVars
<1>15. ASSUME SyncHandshake PROVE LinkTypes'
  BY <1>15 DEF TypeOK, RunTypes, LinkTypes, SyncHandshake, vars, scanVars, chVars, linkVars,
    talkVars, jobVars
<1>16. ASSUME WriteCheck PROVE LinkTypes'
  <2>1. "check" \in Requests
    BY DEF Requests
  <2>2. cam' = [cam EXCEPT !.pending = "check"]
    BY <1>16 DEF WriteCheck, Write, Receives
  <2>3. cam' \in [synced : BOOLEAN, pending : Requests \cup {"none"}, auth : Statuses,
                answered : SUBSET Requests]
    BY <2>1, <2>2 DEF TypeOK, LinkTypes
  <2>4. air' \in Seq(Messages) /\ Len(air') <= AirCap
    BY <1>16, SentTypes DEF WriteCheck, Write, Receives, TypeOK, LinkTypes, Messages
  <2> QED
    BY <1>16, <2>3, <2>4 DEF WriteCheck, Write, TypeOK, LinkTypes, Answers, vars, scanVars,
      chVars, linkVars, talkVars, jobVars
<1>17. ASSUME Checked PROVE LinkTypes'
  BY ZenonT(60), <1>17 DEF TypeOK, RunTypes, LinkTypes, Checked, vars, scanVars, chVars, linkVars,
    talkVars,
    jobVars
<1>18. ASSUME WriteRequest PROVE LinkTypes'
  <2>1. "request" \in Requests
    BY DEF Requests
  <2>2. cam' = [cam EXCEPT !.pending = "request"]
    BY <1>18 DEF WriteRequest, Write, Receives
  <2>3. cam' \in [synced : BOOLEAN, pending : Requests \cup {"none"}, auth : Statuses,
                answered : SUBSET Requests]
    BY <2>1, <2>2 DEF TypeOK, LinkTypes
  <2>4. air' \in Seq(Messages) /\ Len(air') <= AirCap
    BY <1>18, SentTypes DEF WriteRequest, Write, Receives, TypeOK, LinkTypes, Messages
  <2> QED
    BY <1>18, <2>3, <2>4 DEF WriteRequest, Write, TypeOK, LinkTypes, Answers, vars, scanVars,
      chVars, linkVars, talkVars, jobVars
<1>19. ASSUME Requested PROVE LinkTypes'
  BY ZenonT(60), <1>19 DEF TypeOK, RunTypes, LinkTypes, Requested, vars, scanVars, chVars,
    linkVars,
    talkVars, jobVars
<1>20. ASSUME AuthorizeFails PROVE LinkTypes'
  BY ZenonT(60), <1>20 DEF TypeOK, RunTypes, LinkTypes, AuthorizeFails, vars, scanVars, chVars,
    linkVars,
    talkVars, jobVars
<1>21. ASSUME WriteAction PROVE LinkTypes'
  <2>1. next \in Requests
    BY DEF Requests, TypeOK, RunTypes
  <2>2. cam' = [cam EXCEPT !.pending = next]
    BY <1>21 DEF WriteAction, Write, Receives
  <2>3. cam' \in [synced : BOOLEAN, pending : Requests \cup {"none"}, auth : Statuses,
                answered : SUBSET Requests]
    BY <2>1, <2>2 DEF TypeOK, LinkTypes
  <2>4. air' \in Seq(Messages) /\ Len(air') <= AirCap
    BY <1>21, SentTypes DEF WriteAction, Write, Receives, TypeOK, LinkTypes, Messages
  <2> QED
    BY <1>21, <2>3, <2>4 DEF WriteAction, Write, TypeOK, LinkTypes, Answers, vars, scanVars,
      chVars, linkVars, talkVars, jobVars
<1>22. ASSUME PowerOff PROVE LinkTypes'
  <2>1. next \in Requests
    BY DEF Requests, TypeOK, RunTypes
  <2>2. cam' = [cam EXCEPT !.pending = next]
    BY <1>22 DEF PowerOff, Receives
  <2>3. cam' \in [synced : BOOLEAN, pending : Requests \cup {"none"}, auth : Statuses,
                answered : SUBSET Requests]
    BY <2>1, <2>2 DEF TypeOK, LinkTypes
  <2>4. air' \in Seq(Messages) /\ Len(air') <= AirCap
    BY <1>22, SentTypes DEF PowerOff, Receives, TypeOK, LinkTypes, Messages
  <2> QED
    BY <1>22, <2>3, <2>4 DEF PowerOff, TypeOK, LinkTypes, Answers, vars, scanVars, chVars,
      linkVars, talkVars, jobVars
<1>23. ASSUME Acted PROVE LinkTypes'
  BY ZenonT(60), <1>23 DEF TypeOK, RunTypes, LinkTypes, Acted, ActedSo, vars, scanVars, chVars,
    linkVars,
    talkVars, jobVars
<1>24. ASSUME Close PROVE LinkTypes'
  BY ZenonT(60), <1>24 DEF TypeOK, RunTypes, LinkTypes, Close, Return, vars, scanVars, chVars,
    linkVars,
    talkVars, jobVars
<1>25. ASSUME HandleSync PROVE LinkTypes'
  <2>1. air' \in Seq(Messages) /\ Len(air') <= AirCap
    BY <1>25, TakenTypes DEF HandleSync, TypeOK
  <2>2. cam' = cam \/ cam' = [cam EXCEPT !.synced = TRUE]
    BY <1>25 DEF HandleSync
  <2>3. cam' \in [synced : BOOLEAN, pending : Requests \cup {"none"}, auth : Statuses,
                answered : SUBSET Requests]
    BY <2>2 DEF TypeOK, LinkTypes
  <2> QED
    BY <1>25, <2>1, <2>3 DEF HandleSync, TypeOK, LinkTypes, vars, scanVars, chVars, linkVars,
      talkVars, jobVars
<1>26. ASSUME HandleAnswer PROVE LinkTypes'
  <2>1. air' \in Seq(Messages) /\ Len(air') <= AirCap /\ Head(air) \in Messages
    BY <1>26, TakenTypes DEF HandleAnswer, TypeOK
  <2>2. Head(air)[2] \in Answers
    BY <1>26, <2>1 DEF HandleAnswer, Messages
  <2>3. resp' \in Answers \cup {"none"}
    BY <1>26, <2>2 DEF HandleAnswer, TypeOK, LinkTypes
  <2> QED
    BY <1>26, <2>1, <2>3 DEF HandleAnswer, TypeOK, LinkTypes, vars, scanVars, chVars, linkVars,
      talkVars, jobVars
<1>27. ASSUME CameraHandles PROVE LinkTypes'
  <2>1. PICK answer \in AnswersTo(cam.pending) :
          /\ Sent(<<cam.pending, answer>>)
          /\ cam' = [cam EXCEPT !.pending = "none",
                               !.auth = IF answer = "granted" THEN "authorized" ELSE @,
                               !.answered = @ \cup {cam.pending}]
    BY <1>27 DEF CameraHandles
  <2>2. cam.pending \in Requests /\ answer \in Answers
    BY <1>27 DEF CameraHandles, TypeOK, LinkTypes, AnswersTo, Answers, Requests, Statuses
  <2>3. air' \in Seq(Messages) /\ Len(air') <= AirCap
    BY <1>27, <2>1, <2>2, SentTypes DEF CameraHandles, TypeOK, Messages
  <2>4. cam' \in [synced : BOOLEAN, pending : Requests \cup {"none"}, auth : Statuses,
                answered : SUBSET Requests]
    <3>1. cam.auth \in Statuses /\ "authorized" \in Statuses
      BY DEF TypeOK, LinkTypes, Statuses
    <3> QED
      BY <2>1, <2>2, <3>1 DEF TypeOK, LinkTypes
  <2> QED
    BY <1>27, <2>3, <2>4 DEF CameraHandles, TypeOK, LinkTypes, vars, scanVars, chVars, linkVars,
      talkVars, jobVars
<1>28. ASSUME Expire PROVE LinkTypes'
  BY ZenonT(60), <1>28 DEF TypeOK, RunTypes, LinkTypes, Expire, vars, scanVars, chVars, linkVars,
    talkVars,
    jobVars
<1>29. ASSUME UNCHANGED vars PROVE LinkTypes'
  BY ZenonT(60), <1>29 DEF TypeOK, RunTypes, LinkTypes, vars, scanVars, chVars, linkVars,
    talkVars, jobVars
<1> QED
  BY <1>1, <1>2, <1>3, <1>4, <1>5, <1>6, <1>7, <1>8, <1>9, <1>10, <1>11, <1>12, <1>13, <1>14,
    <1>15, <1>16, <1>17, <1>18, <1>19, <1>20, <1>21, <1>22, <1>23, <1>24, <1>25, <1>26, <1>27,
    <1>28, <1>29 DEF Next, Scanning, Main, Handler

\* What the callback was told of is offered, or on its way.
LEMMA ScanStep ==
  ASSUME TypeOK, ScanInv, HeardIsOffered, [Next]_vars
  PROVE  ScanInv' /\ HeardIsOffered'
<1> USE DirectRunAssumption
<1>1. ASSUME NEW c \in Cameras, NEW full \in BOOLEAN, Hear(c, full)
      PROVE  ScanInv' /\ HeardIsOffered'
  BY <1>1 DEF TypeOK, ScanTypes, ScanInv, HeardIsOffered, Running, Hear, vars, scanVars, chVars,
    linkVars, talkVars, jobVars
<1>2. ASSUME Offer PROVE ScanInv' /\ HeardIsOffered'
  BY <1>2 DEF TypeOK, ScanTypes, ScanInv, HeardIsOffered, Running, Offer, vars, scanVars,
    chVars, linkVars, talkVars, jobVars
<1>3. ASSUME OfferCancelled PROVE ScanInv' /\ HeardIsOffered'
  BY <1>3 DEF TypeOK, ScanTypes, ScanInv, HeardIsOffered, Running, OfferCancelled, vars,
    scanVars, chVars, linkVars, talkVars, jobVars
<1>4. ASSUME ScanReturns PROVE ScanInv' /\ HeardIsOffered'
  BY <1>4 DEF TypeOK, ScanTypes, ScanInv, HeardIsOffered, Running, ScanReturns, vars, scanVars,
    chVars, linkVars, talkVars, jobVars
<1>5. ASSUME ReportError PROVE ScanInv' /\ HeardIsOffered'
  BY <1>5 DEF TypeOK, ScanTypes, ScanInv, HeardIsOffered, Running, ReportError, vars, scanVars,
    chVars, linkVars, talkVars, jobVars
<1>6. ASSUME CloseCh PROVE ScanInv' /\ HeardIsOffered'
  BY <1>6 DEF TypeOK, ScanTypes, ScanInv, HeardIsOffered, Running, CloseCh, vars, scanVars,
    chVars, linkVars, talkVars, jobVars
<1>7. ASSUME List PROVE ScanInv' /\ HeardIsOffered'
  BY <1>7 DEF TypeOK, ScanTypes, ScanInv, HeardIsOffered, Running, List, vars, scanVars, chVars,
    linkVars, talkVars, jobVars
<1>8. ASSUME ListEnds PROVE ScanInv' /\ HeardIsOffered'
  BY <1>8 DEF TypeOK, ScanTypes, ScanInv, HeardIsOffered, Running, ListEnds, Return, vars,
    scanVars, chVars, linkVars, talkVars, jobVars
<1>9. ASSUME TakeDevice PROVE ScanInv' /\ HeardIsOffered'
  BY <1>9 DEF TypeOK, ScanTypes, ScanInv, HeardIsOffered, Running, TakeDevice, vars, scanVars,
    chVars, linkVars, talkVars, jobVars
<1>10. ASSUME TakeNil PROVE ScanInv' /\ HeardIsOffered'
  BY <1>10 DEF TypeOK, ScanTypes, ScanInv, HeardIsOffered, Running, TakeNil, vars, scanVars,
    chVars, linkVars, talkVars, jobVars
<1>11. ASSUME GiveUp PROVE ScanInv' /\ HeardIsOffered'
  BY <1>11 DEF TypeOK, ScanTypes, ScanInv, HeardIsOffered, Running, GiveUp, Return, vars,
    scanVars, chVars, linkVars, talkVars, jobVars
<1>12. ASSUME Connect PROVE ScanInv' /\ HeardIsOffered'
  BY <1>12 DEF TypeOK, ScanTypes, ScanInv, HeardIsOffered, Running, Connect, Return, vars,
    scanVars, chVars, linkVars, talkVars, jobVars
<1>13. ASSUME Discover PROVE ScanInv' /\ HeardIsOffered'
  BY <1>13 DEF TypeOK, ScanTypes, ScanInv, HeardIsOffered, Running, Discover, Return, vars,
    scanVars, chVars, linkVars, talkVars, jobVars
<1>14. ASSUME Subscribe PROVE ScanInv' /\ HeardIsOffered'
  BY <1>14 DEF TypeOK, ScanTypes, ScanInv, HeardIsOffered, Running, Subscribe, vars, scanVars,
    chVars, linkVars, talkVars, jobVars
<1>15. ASSUME SyncHandshake PROVE ScanInv' /\ HeardIsOffered'
  BY <1>15 DEF TypeOK, ScanTypes, ScanInv, HeardIsOffered, Running, SyncHandshake, vars,
    scanVars, chVars, linkVars, talkVars, jobVars
<1>16. ASSUME WriteCheck PROVE ScanInv' /\ HeardIsOffered'
  BY <1>16 DEF TypeOK, ScanTypes, ScanInv, HeardIsOffered, Running, WriteCheck, Write, Receives,
    Sent, vars, scanVars, chVars, linkVars, talkVars, jobVars
<1>17. ASSUME Checked PROVE ScanInv' /\ HeardIsOffered'
  BY <1>17 DEF TypeOK, ScanTypes, ScanInv, HeardIsOffered, Running, Checked, vars, scanVars,
    chVars, linkVars, talkVars, jobVars
<1>18. ASSUME WriteRequest PROVE ScanInv' /\ HeardIsOffered'
  BY <1>18 DEF TypeOK, ScanTypes, ScanInv, HeardIsOffered, Running, WriteRequest, Write,
    Receives, Sent, vars, scanVars, chVars, linkVars, talkVars, jobVars
<1>19. ASSUME Requested PROVE ScanInv' /\ HeardIsOffered'
  BY <1>19 DEF TypeOK, ScanTypes, ScanInv, HeardIsOffered, Running, Requested, vars, scanVars,
    chVars, linkVars, talkVars, jobVars
<1>20. ASSUME AuthorizeFails PROVE ScanInv' /\ HeardIsOffered'
  BY <1>20 DEF TypeOK, ScanTypes, ScanInv, HeardIsOffered, Running, AuthorizeFails, vars,
    scanVars, chVars, linkVars, talkVars, jobVars
<1>21. ASSUME WriteAction PROVE ScanInv' /\ HeardIsOffered'
  BY <1>21 DEF TypeOK, ScanTypes, ScanInv, HeardIsOffered, Running, WriteAction, Write,
    Receives, Sent, vars, scanVars, chVars, linkVars, talkVars, jobVars
<1>22. ASSUME PowerOff PROVE ScanInv' /\ HeardIsOffered'
  BY <1>22 DEF TypeOK, ScanTypes, ScanInv, HeardIsOffered, Running, PowerOff, Receives, Sent,
    vars, scanVars, chVars, linkVars, talkVars, jobVars
<1>23. ASSUME Acted PROVE ScanInv' /\ HeardIsOffered'
  BY <1>23 DEF TypeOK, ScanTypes, ScanInv, HeardIsOffered, Running, Acted, ActedSo, vars,
    scanVars, chVars, linkVars, talkVars, jobVars
<1>24. ASSUME Close PROVE ScanInv' /\ HeardIsOffered'
  BY <1>24 DEF TypeOK, ScanTypes, ScanInv, HeardIsOffered, Running, Close, Return, vars,
    scanVars, chVars, linkVars, talkVars, jobVars
<1>25. ASSUME HandleSync PROVE ScanInv' /\ HeardIsOffered'
  BY <1>25 DEF TypeOK, ScanTypes, ScanInv, HeardIsOffered, Running, HandleSync, vars, scanVars,
    chVars, linkVars, talkVars, jobVars
<1>26. ASSUME HandleAnswer PROVE ScanInv' /\ HeardIsOffered'
  BY <1>26 DEF TypeOK, ScanTypes, ScanInv, HeardIsOffered, Running, HandleAnswer, Waiting, vars,
    scanVars, chVars, linkVars, talkVars, jobVars
<1>27. ASSUME CameraHandles PROVE ScanInv' /\ HeardIsOffered'
  BY <1>27 DEF TypeOK, ScanTypes, ScanInv, HeardIsOffered, Running, CameraHandles, Sent,
    AnswersTo, vars, scanVars, chVars, linkVars, talkVars, jobVars
<1>28. ASSUME Expire PROVE ScanInv' /\ HeardIsOffered'
  BY <1>28 DEF TypeOK, ScanTypes, ScanInv, HeardIsOffered, Running, Expire, vars, scanVars,
    chVars, linkVars, talkVars, jobVars
<1>29. ASSUME UNCHANGED vars PROVE ScanInv' /\ HeardIsOffered'
  BY <1>29 DEF TypeOK, ScanTypes, ScanInv, HeardIsOffered, Running, vars, scanVars, chVars,
    linkVars, talkVars, jobVars
<1> QED
  BY <1>1, <1>2, <1>3, <1>4, <1>5, <1>6, <1>7, <1>8, <1>9, <1>10, <1>11, <1>12, <1>13, <1>14,
    <1>15, <1>16, <1>17, <1>18, <1>19, <1>20, <1>21, <1>22, <1>23, <1>24, <1>25, <1>26, <1>27,
    <1>28, <1>29 DEF Next, Scanning, Main, Handler

\* What the camera has been given and has answered it does not lose.
Grows ==
  /\ cam.synced => cam'.synced
  /\ cam'.auth \in {cam.auth, "authorized"}
  /\ cam.answered \subseteq cam'.answered

LEMMA CamGrows == ASSUME RunTypes, LinkTypes, [Next]_vars PROVE Grows
<1>1. ASSUME NEW c \in Cameras, NEW full \in BOOLEAN, Hear(c, full)
      PROVE  Grows
  BY <1>1 DEF Grows, Hear, vars, scanVars, chVars, linkVars, talkVars, jobVars
<1>2. ASSUME Offer PROVE Grows
  BY <1>2 DEF Grows, Offer, vars, scanVars, chVars, linkVars, talkVars, jobVars
<1>3. ASSUME OfferCancelled PROVE Grows
  BY <1>3 DEF Grows, OfferCancelled, vars, scanVars, chVars, linkVars, talkVars, jobVars
<1>4. ASSUME ScanReturns PROVE Grows
  BY <1>4 DEF Grows, ScanReturns, vars, scanVars, chVars, linkVars, talkVars, jobVars
<1>5. ASSUME ReportError PROVE Grows
  BY <1>5 DEF Grows, ReportError, vars, scanVars, chVars, linkVars, talkVars, jobVars
<1>6. ASSUME CloseCh PROVE Grows
  BY <1>6 DEF Grows, CloseCh, vars, scanVars, chVars, linkVars, talkVars, jobVars
<1>7. ASSUME List PROVE Grows
  BY <1>7 DEF Grows, List, vars, scanVars, chVars, linkVars, talkVars, jobVars
<1>8. ASSUME ListEnds PROVE Grows
  BY <1>8 DEF Grows, ListEnds, Return, vars, scanVars, chVars, linkVars, talkVars, jobVars
<1>9. ASSUME TakeDevice PROVE Grows
  BY <1>9 DEF Grows, TakeDevice, vars, scanVars, chVars, linkVars, talkVars, jobVars
<1>10. ASSUME TakeNil PROVE Grows
  BY <1>10 DEF Grows, TakeNil, vars, scanVars, chVars, linkVars, talkVars, jobVars
<1>11. ASSUME GiveUp PROVE Grows
  BY <1>11 DEF Grows, GiveUp, Return, vars, scanVars, chVars, linkVars, talkVars, jobVars
<1>12. ASSUME Connect PROVE Grows
  BY <1>12 DEF Grows, Connect, Return, vars, scanVars, chVars, linkVars, talkVars, jobVars
<1>13. ASSUME Discover PROVE Grows
  BY <1>13 DEF Grows, Discover, Return, vars, scanVars, chVars, linkVars, talkVars, jobVars
<1>14. ASSUME Subscribe PROVE Grows
  BY <1>14 DEF Grows, Subscribe, vars, scanVars, chVars, linkVars, talkVars, jobVars
<1>15. ASSUME SyncHandshake PROVE Grows
  BY <1>15 DEF Grows, SyncHandshake, vars, scanVars, chVars, linkVars, talkVars, jobVars
<1>16. ASSUME WriteCheck PROVE Grows
  <2>1. PICK request \in Requests : cam' = [cam EXCEPT !.pending = request]
    BY <1>16 DEF WriteCheck, Write, Receives, Requests, RunTypes
  <2> QED
    BY <2>1 DEF Grows, LinkTypes
<1>17. ASSUME Checked PROVE Grows
  BY <1>17 DEF Grows, Checked, vars, scanVars, chVars, linkVars, talkVars, jobVars
<1>18. ASSUME WriteRequest PROVE Grows
  <2>1. PICK request \in Requests : cam' = [cam EXCEPT !.pending = request]
    BY <1>18 DEF WriteRequest, Write, Receives, Requests, RunTypes
  <2> QED
    BY <2>1 DEF Grows, LinkTypes
<1>19. ASSUME Requested PROVE Grows
  BY <1>19 DEF Grows, Requested, vars, scanVars, chVars, linkVars, talkVars, jobVars
<1>20. ASSUME AuthorizeFails PROVE Grows
  BY <1>20 DEF Grows, AuthorizeFails, vars, scanVars, chVars, linkVars, talkVars, jobVars
<1>21. ASSUME WriteAction PROVE Grows
  <2>1. PICK request \in Requests : cam' = [cam EXCEPT !.pending = request]
    BY <1>21 DEF WriteAction, Write, Receives, Requests, RunTypes
  <2> QED
    BY <2>1 DEF Grows, LinkTypes
<1>22. ASSUME PowerOff PROVE Grows
  <2>1. PICK request \in Requests : cam' = [cam EXCEPT !.pending = request]
    BY <1>22 DEF PowerOff, Receives, Requests, RunTypes
  <2> QED
    BY <2>1 DEF Grows, LinkTypes
<1>23. ASSUME Acted PROVE Grows
  BY <1>23 DEF Grows, Acted, ActedSo, vars, scanVars, chVars, linkVars, talkVars, jobVars
<1>24. ASSUME Close PROVE Grows
  BY <1>24 DEF Grows, Close, Return, vars, scanVars, chVars, linkVars, talkVars, jobVars
<1>25. ASSUME HandleSync PROVE Grows
  <2>1. cam' = cam \/ cam' = [cam EXCEPT !.synced = TRUE]
    BY <1>25 DEF HandleSync
  <2> QED
    BY <2>1 DEF Grows, LinkTypes
<1>26. ASSUME HandleAnswer PROVE Grows
  BY <1>26 DEF Grows, HandleAnswer, Waiting, vars, scanVars, chVars, linkVars, talkVars, jobVars
<1>27. ASSUME CameraHandles PROVE Grows
  <2>1. PICK answer \in AnswersTo(cam.pending) :
          cam' = [cam EXCEPT !.pending = "none",
                             !.auth = IF answer = "granted" THEN "authorized" ELSE @,
                             !.answered = @ \cup {cam.pending}]
    BY <1>27 DEF CameraHandles
  <2> QED
    BY <2>1 DEF Grows, LinkTypes
<1>28. ASSUME Expire PROVE Grows
  BY <1>28 DEF Grows, Expire, vars, scanVars, chVars, linkVars, talkVars, jobVars
<1>29. ASSUME UNCHANGED vars PROVE Grows
  BY <1>29 DEF Grows, vars, scanVars, chVars, linkVars, talkVars, jobVars
<1> QED
  BY <1>1, <1>2, <1>3, <1>4, <1>5, <1>6, <1>7, <1>8, <1>9, <1>10, <1>11, <1>12, <1>13, <1>14,
    <1>15, <1>16, <1>17, <1>18, <1>19, <1>20, <1>21, <1>22, <1>23, <1>24, <1>25, <1>26, <1>27,
    <1>28, <1>29 DEF Next, Scanning, Main, Handler

\* What was vouched for once still is.
LEMMA VouchedStays ==
  ASSUME Grows, NEW request, NEW answer, Vouched(cam, request, answer)
  PROVE  Vouched(cam', request, answer)
BY DEF Grows, Vouched

\* A message that is sent, or lost, leaves only vouched answers in the air.
LEMMA SentVouched ==
  ASSUME LinkTypes, AirInv, Grows, NEW m \in Messages, Sent(m),
         m[1] # "sync" => Vouched(cam', m[1], m[2])
  PROVE  AirInv'
<1>1. air \in Seq(Messages)
  BY DEF LinkTypes
<1>2. CASE air' = air
  BY <1>2, VouchedStays DEF AirInv
<1>3. CASE air' = Append(air, m)
  <2> SUFFICES ASSUME NEW i \in 1 .. Len(air'), air'[i][1] # "sync"
               PROVE  Vouched(cam', air'[i][1], air'[i][2])
    BY DEF AirInv
  <2>1. CASE i \in 1 .. Len(air)
    <3>1. air'[i] = air[i]
      BY <1>1, <1>3, <2>1, AppendProperties
    <3>2. Vouched(cam, air[i][1], air[i][2])
      BY <2>1, <3>1 DEF AirInv
    <3> QED
      BY <3>1, <3>2, VouchedStays
  <2>2. CASE i \notin 1 .. Len(air)
    <3>1. air'[i] = m
      BY <1>1, <1>3, <2>2, AppendProperties
    <3> QED
      BY <3>1
  <2> QED
    BY <2>1, <2>2
<1> QED
  BY <1>2, <1>3 DEF Sent

\* So does a message that is taken.
LEMMA TakenVouched ==
  ASSUME LinkTypes, AirInv, Grows, air # <<>>, air' = Tail(air)
  PROVE  AirInv'
<1> SUFFICES ASSUME NEW i \in 1 .. Len(air'), air'[i][1] # "sync"
             PROVE  Vouched(cam', air'[i][1], air'[i][2])
  BY DEF AirInv
<1>1. air \in Seq(Messages)
  BY DEF LinkTypes
<1>2. i + 1 \in 1 .. Len(air) /\ air'[i] = air[i + 1]
  BY <1>1, HeadTailProperties
<1>3. Vouched(cam, air[i + 1][1], air[i + 1][2])
  BY <1>2 DEF AirInv
<1> QED
  BY <1>2, <1>3, VouchedStays

\* A synced GO camera and one that needs no sync stay what they are.
LEMMA FormatStep ==
  ASSUME TypeOK, FormatInv, [Next]_vars
  PROVE  FormatInv'
<1>1. Grows
  BY CamGrows DEF TypeOK
<1>2. goFormat' = goFormat
  BY DEF Next, Scanning, Main, Handler, Hear, Offer, OfferCancelled, ScanReturns, ReportError,
    CloseCh, List, ListEnds, TakeDevice, TakeNil, GiveUp, Connect, Discover, Subscribe, SyncHandshake, WriteCheck, Checked, WriteRequest, Requested, AuthorizeFails, WriteAction, PowerOff, Acted, Close, HandleSync, HandleAnswer, CameraHandles, Expire, Write, vars, linkVars
<1> QED
  BY <1>1, <1>2 DEF FormatInv, Grows

\* Every answer in the air was given by the camera.
LEMMA AirStep == ASSUME TypeOK, AirInv, Grows, [Next]_vars PROVE AirInv'
<1>1. ASSUME NEW c \in Cameras, NEW full \in BOOLEAN, Hear(c, full)
      PROVE  AirInv'
  BY <1>1, VouchedStays DEF Hear, AirInv, vars, talkVars
<1>2. ASSUME Offer PROVE AirInv'
  BY <1>2, VouchedStays DEF Offer, AirInv, vars, talkVars
<1>3. ASSUME OfferCancelled PROVE AirInv'
  BY <1>3, VouchedStays DEF OfferCancelled, AirInv, vars, talkVars
<1>4. ASSUME ScanReturns PROVE AirInv'
  BY <1>4, VouchedStays DEF ScanReturns, AirInv, vars, talkVars
<1>5. ASSUME ReportError PROVE AirInv'
  BY <1>5, VouchedStays DEF ReportError, AirInv, vars, talkVars
<1>6. ASSUME CloseCh PROVE AirInv'
  BY <1>6, VouchedStays DEF CloseCh, AirInv, vars, talkVars
<1>7. ASSUME List PROVE AirInv'
  BY <1>7, VouchedStays DEF List, AirInv, vars, talkVars
<1>8. ASSUME ListEnds PROVE AirInv'
  BY <1>8, VouchedStays DEF ListEnds, Return, AirInv, vars, talkVars
<1>9. ASSUME TakeDevice PROVE AirInv'
  BY <1>9, VouchedStays DEF TakeDevice, AirInv, vars, talkVars
<1>10. ASSUME TakeNil PROVE AirInv'
  BY <1>10, VouchedStays DEF TakeNil, AirInv, vars, talkVars
<1>11. ASSUME GiveUp PROVE AirInv'
  BY <1>11, VouchedStays DEF GiveUp, Return, AirInv, vars, talkVars
<1>12. ASSUME Connect PROVE AirInv'
  BY <1>12, VouchedStays DEF Connect, Return, AirInv, vars, talkVars
<1>13. ASSUME Discover PROVE AirInv'
  BY <1>13, VouchedStays DEF Discover, Return, AirInv, vars, talkVars
<1>14. ASSUME Subscribe PROVE AirInv'
  BY <1>14, VouchedStays DEF Subscribe, AirInv, vars, talkVars
<1>15. ASSUME SyncHandshake PROVE AirInv'
  BY <1>15, VouchedStays DEF SyncHandshake, AirInv, vars, talkVars
<1>16. ASSUME WriteCheck PROVE AirInv'
  <2>1. CASE cam.synced
    BY <1>16, <2>1, VouchedStays DEF WriteCheck, Write, Receives, AirInv
  <2>2. CASE ~ cam.synced
    <3>1. Len(air) < AirCap /\ Sent(<<"sync", "-">>)
      BY <1>16, <2>2 DEF WriteCheck, Write, Receives
    <3> QED
      BY <3>1, SentVouched DEF Messages, TypeOK
  <2> QED
    BY <2>1, <2>2
<1>17. ASSUME Checked PROVE AirInv'
  BY <1>17, VouchedStays DEF Checked, AirInv, vars, talkVars
<1>18. ASSUME WriteRequest PROVE AirInv'
  <2>1. CASE cam.synced
    BY <1>18, <2>1, VouchedStays DEF WriteRequest, Write, Receives, AirInv
  <2>2. CASE ~ cam.synced
    <3>1. Len(air) < AirCap /\ Sent(<<"sync", "-">>)
      BY <1>18, <2>2 DEF WriteRequest, Write, Receives
    <3> QED
      BY <3>1, SentVouched DEF Messages, TypeOK
  <2> QED
    BY <2>1, <2>2
<1>19. ASSUME Requested PROVE AirInv'
  BY <1>19, VouchedStays DEF Requested, AirInv, vars, talkVars
<1>20. ASSUME AuthorizeFails PROVE AirInv'
  BY <1>20, VouchedStays DEF AuthorizeFails, AirInv, vars, talkVars
<1>21. ASSUME WriteAction PROVE AirInv'
  <2>1. CASE cam.synced
    BY <1>21, <2>1, VouchedStays DEF WriteAction, Write, Receives, AirInv
  <2>2. CASE ~ cam.synced
    <3>1. Len(air) < AirCap /\ Sent(<<"sync", "-">>)
      BY <1>21, <2>2 DEF WriteAction, Write, Receives
    <3> QED
      BY <3>1, SentVouched DEF Messages, TypeOK
  <2> QED
    BY <2>1, <2>2
<1>22. ASSUME PowerOff PROVE AirInv'
  <2>1. CASE cam.synced
    BY <1>22, <2>1, VouchedStays DEF PowerOff, Receives, AirInv
  <2>2. CASE ~ cam.synced
    <3>1. Len(air) < AirCap /\ Sent(<<"sync", "-">>)
      BY <1>22, <2>2 DEF PowerOff, Receives
    <3> QED
      BY <3>1, SentVouched DEF Messages, TypeOK
  <2> QED
    BY <2>1, <2>2
<1>23. ASSUME Acted PROVE AirInv'
  BY <1>23, VouchedStays DEF Acted, ActedSo, AirInv, vars, talkVars
<1>24. ASSUME Close PROVE AirInv'
  BY <1>24, VouchedStays DEF Close, Return, AirInv, vars, talkVars
<1>25. ASSUME HandleSync PROVE AirInv'
  BY <1>25, TakenVouched DEF HandleSync, TypeOK
<1>26. ASSUME HandleAnswer PROVE AirInv'
  BY <1>26, TakenVouched DEF HandleAnswer, TypeOK
<1>27. ASSUME CameraHandles PROVE AirInv'
  <2>1. PICK answer \in AnswersTo(cam.pending) :
          /\ Sent(<<cam.pending, answer>>)
          /\ cam' = [cam EXCEPT !.pending = "none",
                               !.auth = IF answer = "granted" THEN "authorized" ELSE @,
                               !.answered = @ \cup {cam.pending}]
    BY <1>27 DEF CameraHandles
  <2>2. cam.pending \in Requests /\ answer \in Answers
    BY <1>27 DEF CameraHandles, TypeOK, LinkTypes, AnswersTo, Answers, Requests, Statuses
  <2>3. Vouched(cam', cam.pending, answer)
    <3>1. cam.synced
      BY <1>27 DEF CameraHandles
    <3>2. cam'.synced = cam.synced /\ cam'.answered = cam.answered \cup {cam.pending}
      BY <2>1 DEF TypeOK, LinkTypes
    <3>3. answer = "granted" => cam'.auth = "authorized"
      BY <2>1 DEF TypeOK, LinkTypes
    <3>4. cam.auth \in Statuses
      BY DEF TypeOK, LinkTypes
    <3>5. cam.pending = "check" => answer \in Statuses \cup {"garbled"}
      BY <3>4 DEF AnswersTo
    <3>6. answer \in Statuses => cam'.auth = cam.auth /\ answer = cam.auth
      BY <2>1 DEF AnswersTo, TypeOK, LinkTypes, Statuses
    <3> QED
      BY <3>1, <3>2, <3>3, <3>5, <3>6 DEF Vouched
  <2> QED
    BY <2>1, <2>2, <2>3, SentVouched DEF Messages, TypeOK
<1>28. ASSUME Expire PROVE AirInv'
  BY <1>28, VouchedStays DEF Expire, AirInv, vars, talkVars
<1>29. ASSUME UNCHANGED vars PROVE AirInv'
  BY <1>29, VouchedStays DEF AirInv, vars, talkVars
<1> QED
  BY <1>1, <1>2, <1>3, <1>4, <1>5, <1>6, <1>7, <1>8, <1>9, <1>10, <1>11, <1>12, <1>13, <1>14,
    <1>15, <1>16, <1>17, <1>18, <1>19, <1>20, <1>21, <1>22, <1>23, <1>24, <1>25, <1>26, <1>27,
    <1>28, <1>29 DEF Next, Scanning, Main, Handler

\* The answer to the call that waits was given to its own request.
LEMMA RespStep == ASSUME TypeOK, AirInv, RespInv, Grows, [Next]_vars PROVE RespInv'
<1>1. ASSUME NEW c \in Cameras, NEW full \in BOOLEAN, Hear(c, full)
      PROVE  RespInv'
  BY <1>1, VouchedStays DEF Hear, RespInv, Waiting, vars, talkVars, jobVars
<1>2. ASSUME Offer PROVE RespInv'
  BY <1>2, VouchedStays DEF Offer, RespInv, Waiting, vars, talkVars, jobVars
<1>3. ASSUME OfferCancelled PROVE RespInv'
  BY <1>3, VouchedStays DEF OfferCancelled, RespInv, Waiting, vars, talkVars, jobVars
<1>4. ASSUME ScanReturns PROVE RespInv'
  BY <1>4, VouchedStays DEF ScanReturns, RespInv, Waiting, vars, talkVars, jobVars
<1>5. ASSUME ReportError PROVE RespInv'
  BY <1>5, VouchedStays DEF ReportError, RespInv, Waiting, vars, talkVars, jobVars
<1>6. ASSUME CloseCh PROVE RespInv'
  BY <1>6, VouchedStays DEF CloseCh, RespInv, Waiting, vars, talkVars, jobVars
<1>7. ASSUME List PROVE RespInv'
  BY <1>7, VouchedStays DEF List, RespInv, Waiting, vars, talkVars, jobVars
<1>8. ASSUME ListEnds PROVE RespInv'
  BY <1>8, VouchedStays DEF ListEnds, Return, RespInv, Waiting, vars, talkVars, jobVars
<1>9. ASSUME TakeDevice PROVE RespInv'
  BY <1>9, VouchedStays DEF TakeDevice, RespInv, Waiting, vars, talkVars, jobVars
<1>10. ASSUME TakeNil PROVE RespInv'
  BY <1>10, VouchedStays DEF TakeNil, RespInv, Waiting, vars, talkVars, jobVars
<1>11. ASSUME GiveUp PROVE RespInv'
  BY <1>11, VouchedStays DEF GiveUp, Return, RespInv, Waiting, vars, talkVars, jobVars
<1>12. ASSUME Connect PROVE RespInv'
  BY <1>12, VouchedStays DEF Connect, Return, RespInv, Waiting, vars, talkVars, jobVars
<1>13. ASSUME Discover PROVE RespInv'
  BY <1>13, VouchedStays DEF Discover, Return, RespInv, Waiting, vars, talkVars, jobVars
<1>14. ASSUME Subscribe PROVE RespInv'
  BY <1>14, VouchedStays DEF Subscribe, RespInv, Waiting, vars, talkVars, jobVars
<1>15. ASSUME SyncHandshake PROVE RespInv'
  BY <1>15, VouchedStays DEF SyncHandshake, RespInv, Waiting, vars, talkVars, jobVars
<1>16. ASSUME WriteCheck PROVE RespInv'
  BY <1>16 DEF WriteCheck, Write, RespInv
<1>17. ASSUME Checked PROVE RespInv'
  BY <1>17, VouchedStays DEF Checked, RespInv, Waiting, vars, talkVars, jobVars
<1>18. ASSUME WriteRequest PROVE RespInv'
  BY <1>18 DEF WriteRequest, Write, RespInv
<1>19. ASSUME Requested PROVE RespInv'
  BY <1>19, VouchedStays DEF Requested, RespInv, Waiting, vars, talkVars, jobVars
<1>20. ASSUME AuthorizeFails PROVE RespInv'
  BY <1>20, VouchedStays DEF AuthorizeFails, RespInv, Waiting, vars, talkVars, jobVars
<1>21. ASSUME WriteAction PROVE RespInv'
  BY <1>21 DEF WriteAction, Write, RespInv
<1>22. ASSUME PowerOff PROVE RespInv'
  BY <1>22 DEF PowerOff, RespInv, Waiting
<1>23. ASSUME Acted PROVE RespInv'
  BY <1>23, VouchedStays DEF Acted, ActedSo, RespInv, Waiting, vars, talkVars, jobVars
<1>24. ASSUME Close PROVE RespInv'
  BY <1>24, VouchedStays DEF Close, Return, RespInv, Waiting, vars, talkVars, jobVars
<1>25. ASSUME HandleSync PROVE RespInv'
  BY <1>25, VouchedStays DEF HandleSync, RespInv, Waiting, vars, talkVars, jobVars
<1>26. ASSUME HandleAnswer PROVE RespInv'
  <2>1. air \in Seq(Messages) /\ 1 \in 1 .. Len(air) /\ air[1] = Head(air)
    BY <1>26, HeadTailProperties DEF HandleAnswer, TypeOK, LinkTypes
  <2>2. Vouched(cam, Head(air)[1], Head(air)[2])
    BY <1>26, <2>1 DEF HandleAnswer, AirInv
  <2>3. Waiting' = Waiting
    BY <1>26 DEF HandleAnswer, Waiting, jobVars
  <2>4. CASE Head(air)[1] = Waiting
    <3>1. resp' = Head(air)[2]
      BY <1>26, <2>4 DEF HandleAnswer
    <3>2. Vouched(cam', Waiting, resp')
      BY <2>2, <2>4, <3>1, VouchedStays
    <3> QED
      BY <2>3, <3>2 DEF RespInv
  <2>5. CASE Head(air)[1] # Waiting
    BY <1>26, <2>3, <2>5, VouchedStays DEF HandleAnswer, RespInv
  <2> QED
    BY <2>4, <2>5
<1>27. ASSUME CameraHandles PROVE RespInv'
  BY <1>27, VouchedStays DEF CameraHandles, RespInv, Waiting, vars, talkVars, jobVars
<1>28. ASSUME Expire PROVE RespInv'
  BY <1>28, VouchedStays DEF Expire, RespInv, Waiting, vars, talkVars, jobVars
<1>29. ASSUME UNCHANGED vars PROVE RespInv'
  BY <1>29, VouchedStays DEF RespInv, Waiting, vars, talkVars, jobVars
<1> QED
  BY <1>1, <1>2, <1>3, <1>4, <1>5, <1>6, <1>7, <1>8, <1>9, <1>10, <1>11, <1>12, <1>13, <1>14,
    <1>15, <1>16, <1>17, <1>18, <1>19, <1>20, <1>21, <1>22, <1>23, <1>24, <1>25, <1>26, <1>27,
    <1>28, <1>29 DEF Next, Scanning, Main, Handler

\* A photo is not asked for before the mode was answered.
LEMMA JobStep == ASSUME TypeOK, JobInv, RespInv, Grows, [Next]_vars PROVE JobInv'
<1>1. ASSUME NEW c \in Cameras, NEW full \in BOOLEAN, Hear(c, full)
      PROVE  JobInv'
  BY <1>1 DEF JobInv, Grows, Hear, vars, talkVars, linkVars, jobVars
<1>2. ASSUME Offer PROVE JobInv'
  BY <1>2 DEF JobInv, Grows, Offer, vars, talkVars, linkVars, jobVars
<1>3. ASSUME OfferCancelled PROVE JobInv'
  BY <1>3 DEF JobInv, Grows, OfferCancelled, vars, talkVars, linkVars, jobVars
<1>4. ASSUME ScanReturns PROVE JobInv'
  BY <1>4 DEF JobInv, Grows, ScanReturns, vars, talkVars, linkVars, jobVars
<1>5. ASSUME ReportError PROVE JobInv'
  BY <1>5 DEF JobInv, Grows, ReportError, vars, talkVars, linkVars, jobVars
<1>6. ASSUME CloseCh PROVE JobInv'
  BY <1>6 DEF JobInv, Grows, CloseCh, vars, talkVars, linkVars, jobVars
<1>7. ASSUME List PROVE JobInv'
  BY <1>7 DEF JobInv, Grows, List, vars, talkVars, linkVars, jobVars
<1>8. ASSUME ListEnds PROVE JobInv'
  BY <1>8 DEF JobInv, Grows, ListEnds, Return, vars, talkVars, linkVars, jobVars
<1>9. ASSUME TakeDevice PROVE JobInv'
  BY <1>9 DEF JobInv, Grows, TakeDevice, vars, talkVars, linkVars, jobVars
<1>10. ASSUME TakeNil PROVE JobInv'
  BY <1>10 DEF JobInv, Grows, TakeNil, vars, talkVars, linkVars, jobVars
<1>11. ASSUME GiveUp PROVE JobInv'
  BY <1>11 DEF JobInv, Grows, GiveUp, Return, vars, talkVars, linkVars, jobVars
<1>12. ASSUME Connect PROVE JobInv'
  BY <1>12 DEF JobInv, Grows, Connect, Return, vars, talkVars, linkVars, jobVars
<1>13. ASSUME Discover PROVE JobInv'
  BY <1>13 DEF JobInv, Grows, Discover, Return, vars, talkVars, linkVars, jobVars
<1>14. ASSUME Subscribe PROVE JobInv'
  BY <1>14 DEF JobInv, Grows, Subscribe, vars, talkVars, linkVars, jobVars
<1>15. ASSUME SyncHandshake PROVE JobInv'
  BY <1>15 DEF JobInv, Grows, SyncHandshake, vars, talkVars, linkVars, jobVars
<1>16. ASSUME WriteCheck PROVE JobInv'
  BY <1>16 DEF JobInv, Grows, WriteCheck, Write, Receives, Sent, vars, talkVars, linkVars, jobVars
<1>17. ASSUME Checked PROVE JobInv'
  BY <1>17 DEF JobInv, Grows, Checked, vars, talkVars, linkVars, jobVars
<1>18. ASSUME WriteRequest PROVE JobInv'
  BY <1>18 DEF JobInv, Grows, WriteRequest, Write, Receives, Sent, vars, talkVars, linkVars,
    jobVars
<1>19. ASSUME Requested PROVE JobInv'
  BY <1>19 DEF JobInv, Grows, Requested, vars, talkVars, linkVars, jobVars
<1>20. ASSUME AuthorizeFails PROVE JobInv'
  BY <1>20 DEF JobInv, Grows, AuthorizeFails, vars, talkVars, linkVars, jobVars
<1>21. ASSUME WriteAction PROVE JobInv'
  BY <1>21 DEF JobInv, Grows, WriteAction, Write, Receives, Sent, vars, talkVars, linkVars,
    jobVars
<1>22. ASSUME PowerOff PROVE JobInv'
  BY <1>22 DEF JobInv, Grows, PowerOff, Receives, Sent, vars, talkVars, linkVars, jobVars
<1>23. ASSUME Acted PROVE JobInv'
  BY <1>23 DEF Acted, ActedSo, JobInv, RespInv, Waiting, Vouched, Grows, TypeOK, RunTypes,
    talkVars
<1>24. ASSUME Close PROVE JobInv'
  BY <1>24 DEF JobInv, Grows, Close, Return, vars, talkVars, linkVars, jobVars
<1>25. ASSUME HandleSync PROVE JobInv'
  BY <1>25 DEF JobInv, Grows, HandleSync, vars, talkVars, linkVars, jobVars
<1>26. ASSUME HandleAnswer PROVE JobInv'
  BY <1>26 DEF JobInv, Grows, HandleAnswer, Waiting, vars, talkVars, linkVars, jobVars
<1>27. ASSUME CameraHandles PROVE JobInv'
  BY <1>27 DEF JobInv, Grows, CameraHandles, Sent, AnswersTo, vars, talkVars, linkVars, jobVars
<1>28. ASSUME Expire PROVE JobInv'
  BY <1>28 DEF JobInv, Grows, Expire, vars, talkVars, linkVars, jobVars
<1>29. ASSUME UNCHANGED vars PROVE JobInv'
  BY <1>29 DEF JobInv, Grows, vars, talkVars, linkVars, jobVars
<1> QED
  BY <1>1, <1>2, <1>3, <1>4, <1>5, <1>6, <1>7, <1>8, <1>9, <1>10, <1>11, <1>12, <1>13, <1>14,
    <1>15, <1>16, <1>17, <1>18, <1>19, <1>20, <1>21, <1>22, <1>23, <1>24, <1>25, <1>26, <1>27,
    <1>28, <1>29 DEF Next, Scanning, Main, Handler

\* An Init that logged nothing ends with the camera ready.
LEMMA SilentStep ==
  ASSUME TypeOK, FormatInv, RespInv, SilentInitIsReady, Grows, [Next]_vars
  PROVE  SilentInitIsReady'
<1>1. ASSUME NEW c \in Cameras, NEW full \in BOOLEAN, Hear(c, full)
      PROVE  SilentInitIsReady'
  BY <1>1 DEF SilentInitIsReady, Grows, Hear, vars, talkVars, linkVars, jobVars
<1>2. ASSUME Offer PROVE SilentInitIsReady'
  BY <1>2 DEF SilentInitIsReady, Grows, Offer, vars, talkVars, linkVars, jobVars
<1>3. ASSUME OfferCancelled PROVE SilentInitIsReady'
  BY <1>3 DEF SilentInitIsReady, Grows, OfferCancelled, vars, talkVars, linkVars, jobVars
<1>4. ASSUME ScanReturns PROVE SilentInitIsReady'
  BY <1>4 DEF SilentInitIsReady, Grows, ScanReturns, vars, talkVars, linkVars, jobVars
<1>5. ASSUME ReportError PROVE SilentInitIsReady'
  BY <1>5 DEF SilentInitIsReady, Grows, ReportError, vars, talkVars, linkVars, jobVars
<1>6. ASSUME CloseCh PROVE SilentInitIsReady'
  BY <1>6 DEF SilentInitIsReady, Grows, CloseCh, vars, talkVars, linkVars, jobVars
<1>7. ASSUME List PROVE SilentInitIsReady'
  BY <1>7 DEF SilentInitIsReady, Grows, List, vars, talkVars, linkVars, jobVars
<1>8. ASSUME ListEnds PROVE SilentInitIsReady'
  BY <1>8 DEF SilentInitIsReady, Grows, ListEnds, Return, vars, talkVars, linkVars, jobVars
<1>9. ASSUME TakeDevice PROVE SilentInitIsReady'
  BY <1>9 DEF SilentInitIsReady, Grows, TakeDevice, vars, talkVars, linkVars, jobVars
<1>10. ASSUME TakeNil PROVE SilentInitIsReady'
  BY <1>10 DEF SilentInitIsReady, Grows, TakeNil, vars, talkVars, linkVars, jobVars
<1>11. ASSUME GiveUp PROVE SilentInitIsReady'
  BY <1>11 DEF SilentInitIsReady, Grows, GiveUp, Return, vars, talkVars, linkVars, jobVars
<1>12. ASSUME Connect PROVE SilentInitIsReady'
  BY <1>12 DEF SilentInitIsReady, Grows, Connect, Return, vars, talkVars, linkVars, jobVars
<1>13. ASSUME Discover PROVE SilentInitIsReady'
  BY <1>13 DEF SilentInitIsReady, Grows, Discover, Return, vars, talkVars, linkVars, jobVars
<1>14. ASSUME Subscribe PROVE SilentInitIsReady'
  BY <1>14 DEF Subscribe, SilentInitIsReady, FormatInv, talkVars
<1>15. ASSUME SyncHandshake PROVE SilentInitIsReady'
  BY <1>15 DEF SilentInitIsReady, Grows, SyncHandshake, vars, talkVars, linkVars, jobVars
<1>16. ASSUME WriteCheck PROVE SilentInitIsReady'
  BY <1>16 DEF SilentInitIsReady, Grows, WriteCheck, Write, Receives, Sent, vars, talkVars,
    linkVars, jobVars
<1>17. ASSUME Checked PROVE SilentInitIsReady'
  BY <1>17 DEF Checked, SilentInitIsReady, RespInv, Waiting, Vouched, Statuses, talkVars
<1>18. ASSUME WriteRequest PROVE SilentInitIsReady'
  BY <1>18 DEF SilentInitIsReady, Grows, WriteRequest, Write, Receives, Sent, vars, talkVars,
    linkVars, jobVars
<1>19. ASSUME Requested PROVE SilentInitIsReady'
  BY <1>19 DEF Requested, SilentInitIsReady, RespInv, Waiting, Vouched, talkVars
<1>20. ASSUME AuthorizeFails PROVE SilentInitIsReady'
  BY <1>20 DEF SilentInitIsReady, Grows, AuthorizeFails, vars, talkVars, linkVars, jobVars
<1>21. ASSUME WriteAction PROVE SilentInitIsReady'
  BY <1>21 DEF SilentInitIsReady, Grows, WriteAction, Write, Receives, Sent, vars, talkVars,
    linkVars, jobVars
<1>22. ASSUME PowerOff PROVE SilentInitIsReady'
  BY <1>22 DEF SilentInitIsReady, Grows, PowerOff, Receives, Sent, vars, talkVars, linkVars,
    jobVars
<1>23. ASSUME Acted PROVE SilentInitIsReady'
  BY <1>23 DEF SilentInitIsReady, Grows, Acted, ActedSo, vars, talkVars, linkVars, jobVars
<1>24. ASSUME Close PROVE SilentInitIsReady'
  BY <1>24 DEF SilentInitIsReady, Grows, Close, Return, vars, talkVars, linkVars, jobVars
<1>25. ASSUME HandleSync PROVE SilentInitIsReady'
  <2>1. CASE warned' = warned
    BY <1>25, <2>1 DEF HandleSync, SilentInitIsReady, Grows
  <2>2. CASE warned' = TRUE
    BY <2>2 DEF SilentInitIsReady
  <2> QED
    BY <1>25, <2>1, <2>2 DEF HandleSync
<1>26. ASSUME HandleAnswer PROVE SilentInitIsReady'
  BY <1>26 DEF SilentInitIsReady, Grows, HandleAnswer, Waiting, vars, talkVars, linkVars, jobVars
<1>27. ASSUME CameraHandles PROVE SilentInitIsReady'
  BY <1>27 DEF SilentInitIsReady, Grows, CameraHandles, Sent, AnswersTo, vars, talkVars,
    linkVars, jobVars
<1>28. ASSUME Expire PROVE SilentInitIsReady'
  BY <1>28 DEF SilentInitIsReady, Grows, Expire, vars, talkVars, linkVars, jobVars
<1>29. ASSUME UNCHANGED vars PROVE SilentInitIsReady'
  BY <1>29 DEF SilentInitIsReady, Grows, vars, talkVars, linkVars, jobVars
<1> QED
  BY <1>1, <1>2, <1>3, <1>4, <1>5, <1>6, <1>7, <1>8, <1>9, <1>10, <1>11, <1>12, <1>13, <1>14,
    <1>15, <1>16, <1>17, <1>18, <1>19, <1>20, <1>21, <1>22, <1>23, <1>24, <1>25, <1>26, <1>27,
    <1>28, <1>29 DEF Next, Scanning, Main, Handler

\* What is reported as carried out was answered.
LEMMA OkStep ==
  ASSUME TypeOK, JobInv, RespInv, OkWasAnswered, Grows, [Next]_vars
  PROVE  OkWasAnswered'
<1>1. ASSUME NEW c \in Cameras, NEW full \in BOOLEAN, Hear(c, full)
      PROVE  OkWasAnswered'
  BY <1>1 DEF OkWasAnswered, Grows, Hear, vars, talkVars, linkVars, jobVars
<1>2. ASSUME Offer PROVE OkWasAnswered'
  BY <1>2 DEF OkWasAnswered, Grows, Offer, vars, talkVars, linkVars, jobVars
<1>3. ASSUME OfferCancelled PROVE OkWasAnswered'
  BY <1>3 DEF OkWasAnswered, Grows, OfferCancelled, vars, talkVars, linkVars, jobVars
<1>4. ASSUME ScanReturns PROVE OkWasAnswered'
  BY <1>4 DEF OkWasAnswered, Grows, ScanReturns, vars, talkVars, linkVars, jobVars
<1>5. ASSUME ReportError PROVE OkWasAnswered'
  BY <1>5 DEF OkWasAnswered, Grows, ReportError, vars, talkVars, linkVars, jobVars
<1>6. ASSUME CloseCh PROVE OkWasAnswered'
  BY <1>6 DEF OkWasAnswered, Grows, CloseCh, vars, talkVars, linkVars, jobVars
<1>7. ASSUME List PROVE OkWasAnswered'
  BY <1>7 DEF OkWasAnswered, Grows, List, vars, talkVars, linkVars, jobVars
<1>8. ASSUME ListEnds PROVE OkWasAnswered'
  BY <1>8 DEF ListEnds, Return, OkWasAnswered, JobInv, jobVars
<1>9. ASSUME TakeDevice PROVE OkWasAnswered'
  BY <1>9 DEF OkWasAnswered, Grows, TakeDevice, vars, talkVars, linkVars, jobVars
<1>10. ASSUME TakeNil PROVE OkWasAnswered'
  BY <1>10 DEF OkWasAnswered, Grows, TakeNil, vars, talkVars, linkVars, jobVars
<1>11. ASSUME GiveUp PROVE OkWasAnswered'
  BY <1>11 DEF OkWasAnswered, Grows, GiveUp, Return, vars, talkVars, linkVars, jobVars
<1>12. ASSUME Connect PROVE OkWasAnswered'
  BY <1>12 DEF OkWasAnswered, Grows, Connect, Return, vars, talkVars, linkVars, jobVars
<1>13. ASSUME Discover PROVE OkWasAnswered'
  BY <1>13 DEF OkWasAnswered, Grows, Discover, Return, vars, talkVars, linkVars, jobVars
<1>14. ASSUME Subscribe PROVE OkWasAnswered'
  BY <1>14 DEF OkWasAnswered, Grows, Subscribe, vars, talkVars, linkVars, jobVars
<1>15. ASSUME SyncHandshake PROVE OkWasAnswered'
  BY <1>15 DEF OkWasAnswered, Grows, SyncHandshake, vars, talkVars, linkVars, jobVars
<1>16. ASSUME WriteCheck PROVE OkWasAnswered'
  BY <1>16 DEF OkWasAnswered, Grows, WriteCheck, Write, Receives, Sent, vars, talkVars,
    linkVars, jobVars
<1>17. ASSUME Checked PROVE OkWasAnswered'
  BY <1>17 DEF OkWasAnswered, Grows, Checked, vars, talkVars, linkVars, jobVars
<1>18. ASSUME WriteRequest PROVE OkWasAnswered'
  BY <1>18 DEF OkWasAnswered, Grows, WriteRequest, Write, Receives, Sent, vars, talkVars,
    linkVars, jobVars
<1>19. ASSUME Requested PROVE OkWasAnswered'
  BY <1>19 DEF OkWasAnswered, Grows, Requested, vars, talkVars, linkVars, jobVars
<1>20. ASSUME AuthorizeFails PROVE OkWasAnswered'
  BY <1>20 DEF OkWasAnswered, Grows, AuthorizeFails, vars, talkVars, linkVars, jobVars
<1>21. ASSUME WriteAction PROVE OkWasAnswered'
  BY <1>21 DEF OkWasAnswered, Grows, WriteAction, Write, Receives, Sent, vars, talkVars,
    linkVars, jobVars
<1>22. ASSUME PowerOff PROVE OkWasAnswered'
  BY <1>22 DEF PowerOff, OkWasAnswered, jobVars
<1>23. ASSUME Acted PROVE OkWasAnswered'
  BY <1>23 DEF Acted, ActedSo, OkWasAnswered, JobInv, RespInv, Waiting, Vouched, TypeOK,
    RunTypes, talkVars
<1>24. ASSUME Close PROVE OkWasAnswered'
  BY <1>24 DEF OkWasAnswered, Grows, Close, Return, vars, talkVars, linkVars, jobVars
<1>25. ASSUME HandleSync PROVE OkWasAnswered'
  BY <1>25 DEF OkWasAnswered, Grows, HandleSync, vars, talkVars, linkVars, jobVars
<1>26. ASSUME HandleAnswer PROVE OkWasAnswered'
  BY <1>26 DEF OkWasAnswered, Grows, HandleAnswer, Waiting, vars, talkVars, linkVars, jobVars
<1>27. ASSUME CameraHandles PROVE OkWasAnswered'
  BY <1>27 DEF OkWasAnswered, Grows, CameraHandles, Sent, AnswersTo, vars, talkVars, linkVars,
    jobVars
<1>28. ASSUME Expire PROVE OkWasAnswered'
  BY <1>28 DEF OkWasAnswered, Grows, Expire, vars, talkVars, linkVars, jobVars
<1>29. ASSUME UNCHANGED vars PROVE OkWasAnswered'
  BY <1>29 DEF OkWasAnswered, Grows, vars, talkVars, linkVars, jobVars
<1> QED
  BY <1>1, <1>2, <1>3, <1>4, <1>5, <1>6, <1>7, <1>8, <1>9, <1>10, <1>11, <1>12, <1>13, <1>14,
    <1>15, <1>16, <1>17, <1>18, <1>19, <1>20, <1>21, <1>22, <1>23, <1>24, <1>25, <1>26, <1>27,
    <1>28, <1>29 DEF Next, Scanning, Main, Handler

\* The invariant is inductive, so it holds in every state of every run.
THEOREM Inductive == Spec => []IInv
<1>1. Init => IInv
  BY InitHolds
<1>2. IInv /\ [Next]_vars => IInv'
  <2> SUFFICES ASSUME IInv, [Next]_vars PROVE IInv'
    OBVIOUS
  <2> USE DEF IInv
  <2>1. TypeOK'
    BY ScanTypeStep, RunTypeStep, LinkTypeStep DEF TypeOK
  <2>2. Grows
    BY CamGrows DEF TypeOK
  <2>3. ScanInv' /\ HeardIsOffered'
    BY ScanStep
  <2>4. FormatInv' /\ AirInv' /\ RespInv'
    BY <2>2, FormatStep, AirStep, RespStep
  <2>5. JobInv' /\ SilentInitIsReady' /\ OkWasAnswered'
    BY <2>2, JobStep, SilentStep, OkStep
  <2> QED
    BY <2>1, <2>3, <2>4, <2>5
<1> QED
  BY <1>1, <1>2, PTL DEF Spec

\* Every variable keeps its type (DirectRun.TypeOK).
THEOREM TypeCorrect == Spec => []TypeOK
<1>1. IInv => TypeOK
  BY DEF IInv
<1> QED
  BY <1>1, Inductive, PTL

\* A camera whose name was heard is handed over, whatever was heard of it before
\* (scan.go:23-31).
THEOREM HeardAreOffered == Spec => []HeardIsOffered
<1>1. IInv => HeardIsOffered
  BY DEF IInv
<1> QED
  BY <1>1, Inductive, PTL

\* An Init that comes to its end without a warning leaves the camera synced, and
\* whoever was told NOT_AUTHORIZED has been granted the authorization since; the
\* statuses that authorize passes over are not in its word (device.go:141-149, 197-266).
THEOREM SilentInitsAreReady == Spec => []SilentInitIsReady
<1>1. IInv => SilentInitIsReady
  BY DEF IInv
<1> QED
  BY <1>1, Inductive, PTL

\* A control command reported as carried out was answered, request by request
\* (helpers.go:79-85).
THEOREM OkIsAnswered == Spec => []OkWasAnswered
<1>1. IInv => OkWasAnswered
  BY DEF IInv
<1> QED
  BY <1>1, Inductive, PTL
==============================================================================
