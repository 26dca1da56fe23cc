----------------------------- MODULE DeviceProof -----------------------------
(* Machine-checked proofs about Device.                                      *)
EXTENDS Device, TLAPS

\* The increment of a number within the cycle does not overflow the counter's type.
LEMMA NoOverflow == ASSUME NEW n \in 0 .. MaxSeq PROVE (n + 1) % Width = n + 1
BY DeviceAssumption DEF Width

\* Every step of Device keeps its variables within their types.
LEMMA TypeStep == TypeOK /\ [Next]_vars /\ Numbering /\ Progress => TypeOK'
<1> SUFFICES ASSUME TypeOK, [Next]_vars, Numbering, Progress PROVE TypeOK'
  OBVIOUS
<1> USE DeviceAssumption
<1>1. ASSUME NEW c \in Calls, NextSequence(c) PROVE TypeOK'
  BY <1>1 DEF TypeOK, NextSequence, TakeNumber, NextOf, SeqNums, hostVars, sendVars,
    handlerVars, cameraVars
<1>2. ASSUME NEW c \in Calls, LoadCounter(c) PROVE TypeOK'
  BY <1>2 DEF TypeOK, LoadCounter, SeqNums, callVars, hostVars, sendVars, handlerVars, cameraVars
<1>3. ASSUME NEW c \in Calls, StoreCounter(c) \/ WrapCounter(c) \/ ReturnCounter(c) PROVE TypeOK'
  <2>1. CASE StoreCounter(c)
    <3>1. c \in Taking /\ loaded[c] \in 0 .. MaxSeq
      BY <2>1 DEF StoreCounter, Taking, Numbering
    <3>2. counter' \in SeqNums
      BY <2>1, <3>1, NoOverflow DEF StoreCounter, SeqNums
    <3>3. QED
      BY <2>1, <3>2 DEF TypeOK, StoreCounter, SeqNums, callVars, hostVars, sendVars,
        handlerVars, cameraVars
  <2>2. CASE WrapCounter(c)
    BY SMTT(60), <2>2 DEF TypeOK, WrapCounter, SeqNums, callVars, hostVars, sendVars, handlerVars,
      cameraVars
  <2>3. CASE ReturnCounter(c)
    <3>1. /\ issued' = issued + 1 /\ issued + 1 \in Nat
          /\ pc' \in [Calls -> {"idle", "store", "wrap", "take", "register", "write", "wait",
                                "cleanup", "done"}]
          /\ seq' \in [Calls -> SeqNums]
          /\ ticket' \in [Calls -> Nat]
      BY <2>3 DEF TypeOK, ReturnCounter, TakeNumber
    <3>2. UNCHANGED <<kind, counter, loaded, hostVars, sendVars, handlerVars, cameraVars>>
      BY <2>3 DEF ReturnCounter
    <3>3. QED
      BY <3>1, <3>2 DEF TypeOK, hostVars, sendVars, handlerVars, cameraVars
  <2>4. QED
    BY <1>3, <2>1, <2>2, <2>3
<1>4. ASSUME NEW c \in Calls, Register(c) PROVE TypeOK'
  BY <1>4 DEF TypeOK, Register, SeqNums, callVars, allocVars, hostVars, sendVars, handlerVars,
    cameraVars
<1>5. ASSUME NEW c \in Calls, WriteChunk(c) PROVE TypeOK'
  <2> USE <1>5 DEF WriteChunk, callVars, allocVars, handlerVars, cameraVars
  <2>1. written' \in [Calls -> 0 .. Pieces]
    BY DEF TypeOK, Progress
  <2>2. torn' \subseteq Calls
    BY DEF TypeOK, MidMessage
  <2>3. /\ pc' \in [Calls -> {"idle", "store", "wrap", "take", "register", "write", "wait",
                             "cleanup", "done"}]
        /\ result' \in [Calls -> {"none", "ok", "failed"}]
        /\ camera' \in [Calls -> {"none", "arrived", "answering", "delivered", "dropped"}]
        /\ verdict' = verdict
    BY SMTT(60) DEF TypeOK
  <2>4. QED
    BY <2>1, <2>2, <2>3 DEF TypeOK, SeqNums
<1>6. ASSUME NEW c \in Calls, WriteFails(c) PROVE TypeOK'
  BY <1>6 DEF TypeOK, WriteFails, SeqNums, callVars, allocVars, hostVars, sendVars, handlerVars,
    cameraVars
<1>7. ASSUME NEW c \in Calls, ReceiveResponse(c) PROVE TypeOK'
  BY <1>7 DEF TypeOK, ReceiveResponse, SeqNums, callVars, allocVars, hostVars, sendVars,
    handlerVars, cameraVars
<1>8. ASSUME NEW c \in Calls, Timeout(c) PROVE TypeOK'
  BY <1>8 DEF TypeOK, Timeout, SeqNums, callVars, allocVars, hostVars, sendVars, handlerVars,
    cameraVars
<1>9. ASSUME NEW c \in Calls, Cleanup(c) PROVE TypeOK'
  BY <1>9 DEF TypeOK, Cleanup, SeqNums, callVars, allocVars, hostVars, sendVars, handlerVars,
    cameraVars
<1>10. ASSUME NEW c \in Calls, NEW v \in Verdicts, CameraAnswers(c, v) PROVE TypeOK'
  BY <1>10 DEF TypeOK, CameraAnswers, SeqNums, callVars, allocVars, hostVars, sendVars,
    handlerVars, cameraVars
<1>11. ASSUME NEW c \in Calls, CameraSilent(c) PROVE TypeOK'
  BY <1>11 DEF TypeOK, CameraSilent, SeqNums, callVars, allocVars, hostVars, sendVars,
    handlerVars, cameraVars
<1>12. ASSUME NEW h \in Handlers, NEW r \in Calls, LookUp(h, r) PROVE TypeOK'
  <2> USE <1>12 DEF LookUp, Notify, callVars, allocVars, hostVars, sendVars
  <2>1. /\ handler' \in [Handlers -> [answer : Calls \cup {NoCall}, target : Calls \cup {NoCall}]]
        /\ notified' \in 0 .. NotifCap
    <3>1. responseChs[seq[r]] \in Calls \cup {NoCall}
      BY DEF TypeOK
    <3>2. QED
      BY <3>1 DEF TypeOK
  <2>2. camera' \in [Calls -> {"none", "arrived", "answering", "delivered", "dropped"}]
    BY DEF TypeOK
  <2>3. QED
    BY <2>1, <2>2 DEF TypeOK, SeqNums
<1>13. ASSUME NEW h \in Handlers, NEW r \in Calls, Garbled(h, r) PROVE TypeOK'
  BY <1>13 DEF TypeOK, Garbled, Notify, SeqNums, callVars, allocVars, hostVars, sendVars,
    handlerVars, cameraVars
<1>14. ASSUME NEW h \in Handlers, Deliver(h) PROVE TypeOK'
  BY <1>14 DEF TypeOK, Deliver, Idle, SeqNums, callVars, allocVars, hostVars, sendVars,
    handlerVars, cameraVars
<1>15. ASSUME NEW h \in Handlers, StorageNotification(h) PROVE TypeOK'
  BY <1>15 DEF TypeOK, StorageNotification, Notify, SeqNums, callVars, allocVars, hostVars,
    sendVars, handlerVars, cameraVars
<1>16. CASE UNCHANGED vars
  BY <1>16 DEF TypeOK, vars, callVars, allocVars, hostVars, sendVars, handlerVars, cameraVars
<1>17. QED
  BY <1>1, <1>2, <1>3, <1>4, <1>5, <1>6, <1>7, <1>8, <1>9, <1>10, <1>11, <1>12, <1>13, <1>14,
     <1>15, <1>16 DEF Next, CallStep, Arrival
------------------------------------------------------------------------------
\* A step that hands out no number, begins and ends no call's numbering, and makes
\* no request live that was not, keeps the numbering of the live requests.
LEMMA QuietStep ==
  ASSUME Numbering,
         UNCHANGED <<counter, loaded, issued, ticket, seq, Taking>>,
         \A c \in Calls : Live(c)' => Live(c),
         \A c \in Calls : (pc'[c] = "idle") = (pc[c] = "idle"),
         \A c \in Calls : pc[c] = "done" => pc'[c] = "done",
         \A c \in Taking : pc'[c] = pc[c]
  PROVE  Numbering'
<1>1. (Taking = {} => counter \in 0 .. MaxSeq /\ Numbered(counter))'
  BY DEF Numbering, Numbered, NumberOf
<1>2. ASSUME NEW c \in Taking
      PROVE  /\ ~ Locked
             /\ (loaded[c] \in 0 .. MaxSeq /\ Numbered(loaded[c]))'
             /\ (counter = CounterOf(c))'
             /\ \A d \in Calls : Live(d)' => issued' + 1 < ticket'[d] + MaxSeq
  BY <1>2 DEF Numbering, Numbered, NumberOf, CounterOf
<1>3. QED
  BY <1>1, <1>2 DEF Numbering

\* Two tickets within one cycle that give the same number are the same ticket.
LEMMA NumberInjective ==
  ASSUME issued \in Nat, NEW last \in 0 .. MaxSeq, NEW s \in Nat, NEW t \in Nat,
         s <= issued, t <= issued, issued < s + MaxSeq, issued < t + MaxSeq,
         NumberOf(last, s) = NumberOf(last, t)
  PROVE  s = t
BY DeviceAssumption DEF NumberOf

\* Two live requests with the same number are the same request.
LEMMA LiveDistinct ==
  ASSUME TypeOK, Numbering, NEW c \in Calls, NEW d \in Calls, Live(c), Live(d), seq[c] = seq[d]
  PROVE  c = d
<1> USE DeviceAssumption
<1>1. /\ ticket[c] \in Nat /\ ticket[d] \in Nat /\ issued \in Nat
      /\ ticket[c] <= issued /\ ticket[d] <= issued
      /\ issued < ticket[c] + MaxSeq /\ issued < ticket[d] + MaxSeq
      /\ ticket[c] # 0
  BY DEF TypeOK, Numbering
<1>2. PICK last \in 0 .. MaxSeq : Numbered(last)
  <2>1. CASE Taking = {}
    BY <2>1 DEF Numbering
  <2>2. CASE Taking # {}
    BY <2>2 DEF Numbering
  <2>3. QED
    BY <2>1, <2>2
<1>3. ticket[c] = ticket[d]
  BY <1>1, <1>2, NumberInjective DEF Numbered
<1>4. QED
  BY <1>1, <1>3 DEF Numbering

\* Where numbers are taken one at a time, nobody else is in the middle of a call's
\* begin.
LEMMA OthersNotTaking ==
  ASSUME Numbering, OneAtATime, ~ Locked, NEW c \in Calls, NEW d \in Calls, c # d,
         pc[c] \notin {"idle", "done"}
  PROVE  pc[d] \in {"idle", "done"}
<1> USE DeviceAssumption
<1>1. c[1] = d[1] /\ c[2] \in Nat /\ d[2] \in Nat
  BY DEF OneAtATime, Calls
<1>2. c[2] # d[2]
  BY <1>1 DEF Calls
<1>3. CASE d[2] < c[2]
  BY <1>1, <1>3 DEF Numbering
<1>4. CASE c[2] < d[2]
  BY <1>1, <1>4 DEF Numbering
<1>5. QED
  BY <1>1, <1>2, <1>3, <1>4

\* Giving the number after last out to a call that has none keeps the numbering.
LEMMA TakeStep ==
  ASSUME TypeOK, Numbering, Progress, NEW c \in Calls, NEW last \in 0 .. MaxSeq,
         TakeNumber(c, NextOf(last)), counter' = NextOf(last), ticket[c] = 0,
         Numbered(last), Taking \subseteq {c},
         \A d \in Calls : Live(d) => issued + 1 < ticket[d] + MaxSeq,
         \A d \in Calls : d[1] = c[1] /\ d[2] < c[2] => pc[d] = "done",
         UNCHANGED <<handlerVars, cameraVars>>
  PROVE  Numbering'
<1> USE DeviceAssumption DEF TakeNumber, handlerVars, cameraVars
<1>1. /\ pc' = [pc EXCEPT ![c] = IF kind[c] = "notify" THEN "write" ELSE "register"]
      /\ ticket' = [ticket EXCEPT ![c] = issued + 1]
      /\ seq' = [seq EXCEPT ![c] = counter']
      /\ issued' = issued + 1 /\ issued \in Nat
      /\ pc[c] # "done"
  <2>1. pc[c] # "done"
    BY DEF Numbering, Taking
  <2>2. QED
    BY <2>1 DEF TypeOK
<1>2. counter' \in 1 .. MaxSeq
  BY DEF NextOf
<1>3. \A d \in Calls : d # c => (Live(d)' = Live(d))
  BY <1>1 DEF Live, TypeOK
<1>4. Taking' = {}
  BY <1>1 DEF Taking, TypeOK
<1>5. ASSUME NEW d \in Calls, Live(d)'
      PROVE  /\ ticket'[d] # 0
             /\ issued' < ticket'[d] + MaxSeq
             /\ seq'[d] = NumberOf(counter, ticket[d])'
  <2>1. CASE d = c
    <3>1. ticket'[d] = issued + 1 /\ seq'[d] = counter'
      BY <2>1, <1>1 DEF TypeOK
    <3>2. QED
      BY <3>1, <1>1, <1>2 DEF NumberOf, TypeOK
  <2>2. CASE d # c
    <3>1. /\ ticket'[d] = ticket[d] /\ seq'[d] = seq[d] /\ ticket[d] \in Nat
          /\ Live(d)
      BY <2>2, <1>1, <1>3, <1>5 DEF TypeOK
    <3>2. /\ ticket[d] # 0 /\ ticket[d] <= issued /\ issued < ticket[d] + MaxSeq
          /\ seq[d] = NumberOf(last, ticket[d])
          /\ issued + 1 < ticket[d] + MaxSeq
      BY <3>1 DEF Numbering, Numbered
    <3>3. NumberOf(counter, ticket[d])' = NumberOf(last, ticket[d])
      BY <1>1, <3>1, <3>2 DEF NumberOf, NextOf
    <3>4. QED
      BY <3>1, <3>2, <3>3, <1>1
  <2>3. QED
    BY <2>1, <2>2
<1>6. \A d \in Calls : /\ ticket'[d] <= issued'
                       /\ (ticket'[d] = 0) = (pc'[d] = "idle")
  BY <1>1 DEF Numbering, TypeOK, Taking
<1>7. \A d, e \in Calls : ticket'[d] = ticket'[e] /\ ticket'[d] # 0 => d = e
  BY <1>1 DEF Numbering, TypeOK
<1>8. \A d, e \in Calls : d[1] = e[1] /\ e[2] < d[2] /\ pc'[d] # "idle" => pc'[e] = "done"
  BY <1>1 DEF Numbering, TypeOK
<1>9. QED
  BY <1>2, <1>4, <1>5, <1>6, <1>7, <1>8 DEF Numbering, Numbered

\* Every step keeps live requests within one cycle of the numbering.
LEMMA NumberingStep ==
  TypeOK /\ Numbering /\ Progress /\ [Next]_vars /\ OneAtATime /\ Windowed => Numbering'
<1> SUFFICES ASSUME TypeOK, Numbering, Progress, [Next]_vars, OneAtATime, Windowed
             PROVE  Numbering'
  OBVIOUS
<1> USE DeviceAssumption
<1>1. ASSUME NEW c \in Calls, NextSequence(c) PROVE Numbering'
  <2>1. /\ Locked /\ Taking = {} /\ pc[c] = "idle" /\ ticket[c] = 0
        /\ counter \in 0 .. MaxSeq /\ Numbered(counter)
        /\ \A d \in Calls : d[1] = c[1] /\ d[2] < c[2] => pc[d] = "done"
        /\ \A d \in Calls : Live(d) => issued + 1 < ticket[d] + MaxSeq
    BY <1>1 DEF NextSequence, MayBegin, WithinWindow, Numbering
  <2>2. QED
    BY <1>1, <2>1, TakeStep DEF NextSequence
<1>2. ASSUME NEW c \in Calls, LoadCounter(c) \/ StoreCounter(c) \/ WrapCounter(c) PROVE Numbering'
  <2> USE DEF LoadCounter, StoreCounter, WrapCounter
  <2>1. /\ ~ Locked
        /\ UNCHANGED <<issued, ticket, seq, camera, handler>>
        /\ pc[c] \in {"idle", "store", "wrap"}
        /\ \E l \in {"store", "wrap", "take"} : pc' = [pc EXCEPT ![c] = l]
        /\ \A d \in Calls : d[1] = c[1] /\ d[2] < c[2] => pc[d] = "done"
    BY <1>2 DEF callVars, handlerVars, cameraVars, MayBegin, Numbering, Taking
  <2>2. \A d \in Calls : Live(d)' = Live(d)
    BY <2>1 DEF Live, TypeOK
  <2>3. \A d \in Calls : d # c => pc[d] \in {"idle", "done"}
    <3> SUFFICES ASSUME NEW d \in Calls, d # c, pc[d] \notin {"idle", "done"} PROVE FALSE
      OBVIOUS
    <3>1. pc[c] = "idle"
      BY <2>1, OthersNotTaking
    <3>2. ~ (c[1] = d[1] /\ d[2] < c[2]) /\ ~ (c[1] = d[1] /\ c[2] < d[2])
      BY <2>1, <3>1 DEF Numbering
    <3>3. c[1] = d[1] /\ c[2] \in Nat /\ d[2] \in Nat
      BY <2>1 DEF OneAtATime, Calls
    <3>4. c[2] = d[2]
      BY <3>2, <3>3
    <3>5. QED
      BY <3>3, <3>4 DEF Calls
  <2>4. Taking' = {c}
    BY <2>1, <2>3 DEF Taking, TypeOK
  <2>5. /\ loaded'[c] \in 0 .. MaxSeq
        /\ Numbered(loaded'[c])
        /\ (counter = CounterOf(c))'
        /\ \A d \in Calls : Live(d) => issued + 1 < ticket[d] + MaxSeq
    <3>1. CASE LoadCounter(c)
      <4>1. Taking = {}
        BY <2>3, <3>1 DEF Taking, MayBegin
      <4>2. pc'[c] = "store" /\ loaded'[c] = counter /\ counter' = counter
        BY <3>1 DEF TypeOK
      <4>3. QED
        BY <3>1, <4>1, <4>2 DEF Numbering, WithinWindow, CounterOf
    <3>2. CASE StoreCounter(c)
      <4>1. /\ c \in Taking /\ loaded[c] \in 0 .. MaxSeq /\ loaded' = loaded
            /\ pc'[c] = "wrap"
        BY <3>2 DEF Taking, Numbering, TypeOK
      <4>2. counter' = loaded[c] + 1
        BY <3>2, <4>1, NoOverflow
      <4>3. QED
        BY <4>1, <4>2 DEF Numbering, CounterOf
    <3>3. CASE WrapCounter(c)
      <4>1. /\ c \in Taking /\ loaded[c] \in 0 .. MaxSeq /\ loaded' = loaded
            /\ pc'[c] = "take" /\ counter = loaded[c] + 1
        BY <3>3 DEF Taking, Numbering, TypeOK, CounterOf
      <4>2. counter' = NextOf(loaded[c])
        BY <3>3, <4>1 DEF NextOf
      <4>3. QED
        BY <4>1, <4>2 DEF Numbering, CounterOf
    <3>4. QED
      BY <1>2, <3>1, <3>2, <3>3
  <2>6. Numbered(loaded[c])'
    BY <2>1, <2>2, <2>5 DEF Numbered, NumberOf
  <2>7. /\ \A d, e \in Calls : d[1] = e[1] /\ e[2] < d[2] /\ pc'[d] # "idle" => pc'[e] = "done"
        /\ \A d \in Calls : ticket'[d] = 0 <=> pc'[d] = "idle" \/ d \in Taking'
    BY <2>1 DEF Numbering, Taking, TypeOK
  <2>8. QED
    BY <2>1, <2>2, <2>4, <2>5, <2>6, <2>7 DEF Numbering
<1>3. ASSUME NEW c \in Calls, ReturnCounter(c) PROVE Numbering'
  <2>1. /\ c \in Taking /\ ~ Locked /\ pc[c] = "take" /\ ticket[c] = 0
        /\ loaded[c] \in 0 .. MaxSeq /\ Numbered(loaded[c])
        /\ counter = NextOf(loaded[c])
        /\ \A d \in Calls : Live(d) => issued + 1 < ticket[d] + MaxSeq
        /\ \A d \in Calls : d[1] = c[1] /\ d[2] < c[2] => pc[d] = "done"
    BY <1>3 DEF ReturnCounter, Taking, Numbering, CounterOf
  <2>2. Taking \subseteq {c}
    BY <2>1, OthersNotTaking DEF Taking
  <2>3. QED
    BY <1>3, <2>1, <2>2, TakeStep DEF ReturnCounter
<1>4. ASSUME NEW c \in Calls, Register(c) \/ WriteFails(c) \/ ReceiveResponse(c) \/ Timeout(c) \/ Cleanup(c)
      PROVE Numbering'
  <2> USE <1>4 DEF Register, WriteFails, ReceiveResponse, Timeout, Cleanup
  <2>1. UNCHANGED <<counter, loaded, issued, ticket, seq, camera, handler>>
    BY DEF callVars, allocVars, handlerVars, cameraVars
  <2>2. /\ pc[c] \in {"register", "write", "wait", "cleanup"}
        /\ \E l \in {"write", "wait", "cleanup", "done"} : pc' = [pc EXCEPT ![c] = l]
    OBVIOUS
  <2>3. \A d \in Calls : Live(d)' => Live(d)
    BY <2>1, <2>2 DEF Live, TypeOK
  <2>4. QED
    BY <2>1, <2>2, <2>3, QuietStep DEF TypeOK, Taking
<1>5. ASSUME NEW c \in Calls, WriteChunk(c) PROVE Numbering'
  <2> USE <1>5 DEF WriteChunk
  <2>1. UNCHANGED <<counter, loaded, issued, ticket, seq, handler>>
    BY DEF callVars, allocVars, handlerVars
  <2>2. /\ pc[c] = "write"
        /\ pc' = pc \/ \E l \in {"wait", "done"} : pc' = [pc EXCEPT ![c] = l]
        /\ camera' = camera \/ \E l \in {"arrived", "dropped"} : camera' = [camera EXCEPT ![c] = l]
    BY DEF cameraVars
  <2>3. \A d \in Calls : Live(d)' => Live(d)
    BY <2>1, <2>2 DEF Live, TypeOK
  <2>4. QED
    BY <2>1, <2>2, <2>3, QuietStep DEF TypeOK, Taking
<1>6. ASSUME NEW c \in Calls, (\E v \in Verdicts : CameraAnswers(c, v)) \/ CameraSilent(c)
      PROVE Numbering'
  <2> USE <1>6 DEF CameraAnswers, CameraSilent
  <2>1. UNCHANGED <<counter, loaded, issued, ticket, seq, handler, pc>>
    BY DEF callVars, allocVars, handlerVars
  <2>2. /\ camera[c] \in {"arrived", "answering"}
        /\ \E l \in {"answering", "dropped"} : camera' = [camera EXCEPT ![c] = l]
    OBVIOUS
  <2>3. \A d \in Calls : Live(d)' => Live(d)
    BY <2>1, <2>2 DEF Live, TypeOK
  <2>4. QED
    BY <2>1, <2>3, QuietStep DEF Taking
<1>7. ASSUME NEW h \in Handlers, NEW r \in Calls, LookUp(h, r) \/ Garbled(h, r) PROVE Numbering'
  <2> USE <1>7 DEF LookUp, Garbled
  <2>1. UNCHANGED <<counter, loaded, issued, ticket, seq, pc>>
    BY DEF callVars, allocVars
  <2>2. /\ camera[r] = "answering"
        /\ \E l \in {"delivered", "dropped"} : camera' = [camera EXCEPT ![r] = l]
        /\ handler' = handler \/ \E t : handler' = [handler EXCEPT ![h] = [answer |-> r, target |-> t]]
    OBVIOUS
  <2>3. \A d \in Calls : Live(d)' => Live(d)
    BY <2>1, <2>2 DEF Live, TypeOK
  <2>4. QED
    BY <2>1, <2>3, QuietStep DEF Taking
<1>8. ASSUME NEW h \in Handlers, Deliver(h) \/ StorageNotification(h) PROVE Numbering'
  <2> USE <1>8 DEF Deliver, StorageNotification
  <2>1. UNCHANGED <<counter, loaded, issued, ticket, seq, pc, camera>>
    BY DEF callVars, allocVars, cameraVars
  <2>2. handler' = handler \/ handler' = [handler EXCEPT ![h] = Idle]
    OBVIOUS
  <2>3. \A d \in Calls : Live(d)' => Live(d)
    BY <2>1, <2>2, DeviceAssumption DEF Live, TypeOK, Idle
  <2>4. QED
    BY <2>1, <2>3, QuietStep DEF Taking
<1>9. CASE UNCHANGED vars
  BY <1>9, QuietStep DEF vars, callVars, allocVars, cameraVars, handlerVars, Live, Taking
<1>10. QED
  BY <1>1, <1>2, <1>3, <1>4, <1>5, <1>6, <1>7, <1>8, <1>9 DEF Next, CallStep, Arrival
------------------------------------------------------------------------------
\* Every step keeps registrations with their calls and answers with theirs.
LEMMA RoutingStep ==
  TypeOK /\ Numbering /\ Routing /\ Progress /\ [Next]_vars => Routing'
<1> SUFFICES ASSUME TypeOK, Numbering, Routing, Progress, [Next]_vars PROVE Routing'
  OBVIOUS
<1> USE DeviceAssumption
<1> USE DEF Routing, StaysRegistered, NoLeftovers, OwnAnswer
<1>1. ASSUME NEW c \in Calls, NextSequence(c) PROVE Routing'
  <2> USE <1>1 DEF NextSequence, TakeNumber, hostVars, handlerVars
  <2>1. pc[c] = "idle"
    BY DEF MayBegin
  <2>2. /\ pc' = [pc EXCEPT ![c] = IF kind[c] = "notify" THEN "write" ELSE "register"]
        /\ \E n : seq' = [seq EXCEPT ![c] = n]
        /\ UNCHANGED <<kind, responseChs, respCh, answeredBy, handler>>
    OBVIOUS
  <2>3. \A n \in SeqNums : responseChs[n] # c
    BY <2>1
  <2>4. QED
    BY <2>1, <2>2, <2>3 DEF TypeOK
<1>2. ASSUME NEW c \in Calls, LoadCounter(c) \/ StoreCounter(c) \/ WrapCounter(c) \/ ReturnCounter(c)
      PROVE Routing'
  <2> USE <1>2 DEF LoadCounter, StoreCounter, WrapCounter, ReturnCounter, TakeNumber, hostVars,
                   handlerVars
  <2>1. /\ pc[c] \in {"idle", "store", "wrap", "take"}
        /\ \E l \in {"store", "wrap", "take", IF kind[c] = "notify" THEN "write" ELSE "register"} :
             pc' = [pc EXCEPT ![c] = l]
        /\ seq' = seq \/ \E n : seq' = [seq EXCEPT ![c] = n]
        /\ UNCHANGED <<kind, responseChs, respCh, answeredBy, handler>>
    BY DEF MayBegin, callVars
  <2>2. \A n \in SeqNums : responseChs[n] # c
    BY <2>1
  <2>3. QED
    BY <2>1, <2>2 DEF TypeOK
<1>3. ASSUME NEW c \in Calls, Register(c) PROVE Routing'
  <2> USE <1>3 DEF Register, callVars, handlerVars
  <2>1. \A d \in Calls : d # c /\ pc[d] \in {"write", "wait", "cleanup"} => seq[d] # seq[c]
    BY LiveDistinct DEF Live
  <2>2. QED
    BY <2>1 DEF TypeOK
<1>4. ASSUME NEW c \in Calls, WriteChunk(c) \/ WriteFails(c) \/ Timeout(c) PROVE Routing'
  <2> USE <1>4 DEF WriteChunk, WriteFails, Timeout, callVars, handlerVars
  <2>1. UNCHANGED <<kind, seq, responseChs, respCh, answeredBy, handler>>
    OBVIOUS
  <2>2. /\ pc[c] \in {"write", "wait"}
        /\ \/ pc' = pc
           \/ kind[c] # "notify" /\ pc' = [pc EXCEPT ![c] = "wait"]
           \/ kind[c] # "notify" /\ pc' = [pc EXCEPT ![c] = "cleanup"]
           \/ kind[c] = "notify" /\ pc' = [pc EXCEPT ![c] = "done"]
    <3>1. CASE WriteChunk(c)
      BY <3>1
    <3>2. CASE WriteFails(c)
      BY <3>2
    <3>3. CASE Timeout(c)
      BY <3>3
    <3>4. QED
      BY <3>1, <3>2, <3>3
  <2>3. kind[c] = "notify" => \A n \in SeqNums : responseChs[n] # c
    OBVIOUS
  <2>4. /\ \A d \in Calls : pc'[d] \in {"write", "wait", "cleanup"} /\ kind[d] # "notify"
             => pc[d] \in {"write", "wait", "cleanup"}
        /\ \A d \in Calls : pc'[d] \in {"register", "wait", "cleanup"} => kind[d] # "notify"
        /\ \A n \in SeqNums :
             responseChs[n] # NoCall => pc'[responseChs[n]] \in {"write", "wait", "cleanup"}
    BY <2>2, <2>3 DEF TypeOK
  <2>5. QED
    BY <2>1, <2>4
<1>5. ASSUME NEW c \in Calls, ReceiveResponse(c) PROVE Routing'
  BY <1>5 DEF ReceiveResponse, TypeOK, callVars, handlerVars
<1>6. ASSUME NEW c \in Calls, Cleanup(c) PROVE Routing'
  <2> USE <1>6 DEF Cleanup, callVars, handlerVars
  <2>1. \A d \in Calls : d # c /\ pc[d] \in {"write", "wait", "cleanup"} => seq[d] # seq[c]
    BY LiveDistinct DEF Live
  <2>2. QED
    BY <2>1 DEF TypeOK
<1>7. ASSUME NEW c \in Calls, (\E v \in Verdicts : CameraAnswers(c, v)) \/ CameraSilent(c)
      PROVE Routing'
  BY <1>7 DEF CameraAnswers, CameraSilent, callVars, hostVars, handlerVars
<1>8. ASSUME NEW h \in Handlers, NEW r \in Calls, LookUp(h, r) PROVE Routing'
  <2> USE <1>8 DEF LookUp, callVars, hostVars
  <2>1. responseChs[seq[r]] # NoCall => responseChs[seq[r]] = r
    <3> SUFFICES ASSUME responseChs[seq[r]] # NoCall PROVE responseChs[seq[r]] = r
      OBVIOUS
    <3> DEFINE d == responseChs[seq[r]]
    <3>1. /\ d \in Calls /\ seq[d] = seq[r] /\ pc[d] \in {"write", "wait", "cleanup"}
      BY DEF TypeOK
    <3>2. Live(d) /\ Live(r)
      BY <3>1 DEF Live
    <3>3. QED
      BY <3>1, <3>2, LiveDistinct
  <2>2. \A g \in Handlers : handler'[g].target = handler'[g].answer
    BY <2>1 DEF TypeOK
  <2>3. QED
    BY <2>2
<1>9. ASSUME NEW h \in Handlers, NEW r \in Calls, Garbled(h, r) PROVE Routing'
  BY <1>9 DEF Garbled, callVars, hostVars
<1>10. ASSUME NEW h \in Handlers, Deliver(h) PROVE Routing'
  <2> USE <1>10 DEF Deliver, callVars
  <2>1. handler[h].target = handler[h].answer
    OBVIOUS
  <2>2. \A g \in Handlers : handler'[g].target = handler'[g].answer
    BY DEF TypeOK, Idle
  <2>3. \A c \in Calls : respCh'[c] \in {NoCall, c}
    BY <2>1 DEF TypeOK
  <2>4. QED
    BY <2>2, <2>3
<1>11. ASSUME NEW h \in Handlers, StorageNotification(h) PROVE Routing'
  BY <1>11 DEF StorageNotification, callVars, hostVars
<1>12. CASE UNCHANGED vars
  BY <1>12 DEF vars, callVars, hostVars, handlerVars
<1>13. QED
  BY <1>1, <1>2, <1>3, <1>4, <1>5, <1>6, <1>7, <1>8, <1>9, <1>10, <1>11, <1>12
     DEF Next, CallStep, Arrival
------------------------------------------------------------------------------
\* Every step keeps answers behind the requests they answer.
LEMMA ProgressStep ==
  TypeOK /\ Numbering /\ Routing /\ Progress /\ [Next]_vars => Progress'
<1> SUFFICES ASSUME TypeOK, Numbering, Routing, Progress, [Next]_vars PROVE Progress'
  OBVIOUS
<1> USE DeviceAssumption
<1> USE DEF Progress
<1>1. ASSUME NEW c \in Calls, NextSequence(c) PROVE Progress'
  <2> USE <1>1 DEF NextSequence, TakeNumber, hostVars, handlerVars, sendVars, cameraVars
  <2>1. pc[c] = "idle"
    BY DEF MayBegin
  <2>2. written[c] = 0 /\ camera[c] = "none" /\ result[c] = "none" /\ answeredBy[c] = NoCall
    BY <2>1 DEF TypeOK
  <2>3. QED
    BY <2>1, <2>2 DEF TypeOK
<1>2. ASSUME NEW c \in Calls, LoadCounter(c) \/ StoreCounter(c) \/ WrapCounter(c) \/ ReturnCounter(c)
      PROVE Progress'
  <2> USE <1>2 DEF LoadCounter, StoreCounter, WrapCounter, ReturnCounter, TakeNumber, hostVars,
                   handlerVars, sendVars, cameraVars
  <2>1. /\ pc[c] \in {"idle", "store", "wrap", "take"}
        /\ \E l \in {"store", "wrap", "take", "write", "register"} : pc' = [pc EXCEPT ![c] = l]
        /\ UNCHANGED <<written, camera, result, respCh, answeredBy, handler, verdict>>
    BY DEF MayBegin
  <2>2. written[c] = 0 /\ camera[c] = "none" /\ result[c] = "none" /\ answeredBy[c] = NoCall
    BY <2>1 DEF TypeOK
  <2>3. QED
    BY <2>1, <2>2, DeviceAssumption DEF TypeOK
<1>3. ASSUME NEW c \in Calls, Register(c) PROVE Progress'
  BY <1>3 DEF Register, TypeOK, sendVars, handlerVars, cameraVars
<1>4. ASSUME NEW c \in Calls, WriteChunk(c) PROVE Progress'
  <2> USE <1>4 DEF WriteChunk, callVars, handlerVars, cameraVars
  <2>1. /\ pc[c] = "write" /\ written[c] \in 0 .. Pieces /\ written[c] < Pieces
        /\ camera[c] = "none" /\ result[c] = "none" /\ answeredBy[c] = NoCall
        /\ verdict[c] = "none"
        /\ UNCHANGED <<respCh, answeredBy, handler, verdict>>
        /\ written' = [written EXCEPT ![c] = written[c] + 1]
    BY DEF TypeOK
  <2>2. CASE written[c] + 1 < Pieces
    BY <2>1, <2>2 DEF TypeOK
  <2>3. CASE ~ (written[c] + 1 < Pieces)
    <3>1. written[c] + 1 = Pieces
      BY <2>1, <2>3
    <3>2. \/ pc' = [pc EXCEPT ![c] = "wait"] /\ result' = [result EXCEPT ![c] = result[c]]
          \/ pc' = [pc EXCEPT ![c] = "done"] /\ result' = [result EXCEPT ![c] = "ok"]
      BY <2>3
    <3>3. \E l \in {"arrived", "dropped"} : camera' = [camera EXCEPT ![c] = l]
      BY <2>3
    <3>4. QED
      BY <2>1, <3>1, <3>2, <3>3 DEF TypeOK
  <2>4. QED
    BY <2>2, <2>3
<1>5. ASSUME NEW c \in Calls, WriteFails(c) \/ Timeout(c) PROVE Progress'
  <2> USE <1>5 DEF WriteFails, Timeout, sendVars, handlerVars, cameraVars
  <2>1. /\ pc[c] \in {"write", "wait"}
        /\ \E l \in {"cleanup", "done"} : pc' = [pc EXCEPT ![c] = l]
        /\ result' = [result EXCEPT ![c] = "failed"]
        /\ UNCHANGED <<written, camera, verdict, handler, respCh, answeredBy>>
    OBVIOUS
  <2>2. QED
    BY <2>1 DEF TypeOK
<1>6. ASSUME NEW c \in Calls, ReceiveResponse(c) PROVE Progress'
  <2> USE <1>6 DEF ReceiveResponse, sendVars, handlerVars, cameraVars
  <2>1. /\ pc[c] = "wait"
        /\ pc' = [pc EXCEPT ![c] = "cleanup"]
        /\ answeredBy' = [answeredBy EXCEPT ![c] = respCh[c]]
        /\ respCh' = [respCh EXCEPT ![c] = NoCall]
        /\ \E r : result' = [result EXCEPT ![c] = r]
        /\ UNCHANGED <<written, camera, verdict, handler>>
    OBVIOUS
  <2>2. QED
    BY <2>1 DEF TypeOK
<1>7. ASSUME NEW c \in Calls, Cleanup(c) PROVE Progress'
  BY <1>7 DEF Cleanup, TypeOK, sendVars, handlerVars, cameraVars
<1>8. ASSUME NEW c \in Calls, NEW v \in Verdicts, CameraAnswers(c, v) PROVE Progress'
  <2>1. v # "none"
    BY DEF AllVerdicts
  <2>2. QED
    BY <1>8, <2>1 DEF CameraAnswers, TypeOK, hostVars, sendVars, handlerVars
<1>9. ASSUME NEW c \in Calls, CameraSilent(c) PROVE Progress'
  <2> USE <1>9 DEF CameraSilent, hostVars, sendVars, handlerVars
  <2>1. UNCHANGED <<pc, written, result, respCh, answeredBy, handler, verdict>>
        /\ camera[c] # "none" /\ camera' = [camera EXCEPT ![c] = "dropped"]
    OBVIOUS
  <2>2. QED
    BY <2>1 DEF TypeOK
<1>10. ASSUME NEW h \in Handlers, NEW r \in Calls, LookUp(h, r) PROVE Progress'
  <2> USE <1>10 DEF LookUp, hostVars, sendVars
  <2>1. /\ camera[r] = "answering" /\ camera' = [camera EXCEPT ![r] = "delivered"]
        /\ UNCHANGED <<pc, written, result, respCh, answeredBy, verdict>>
    OBVIOUS
  <2>2. \A g \in Handlers : handler'[g].answer \in {handler[g].answer, r}
    BY DEF TypeOK
  <2>3. QED
    BY <2>1, <2>2 DEF TypeOK
<1>11. ASSUME NEW h \in Handlers, NEW r \in Calls, Garbled(h, r) PROVE Progress'
  BY <1>11 DEF Garbled, TypeOK, hostVars, sendVars
<1>12. ASSUME NEW h \in Handlers, Deliver(h) PROVE Progress'
  <2> USE <1>12 DEF Deliver, sendVars, cameraVars
  <2>1. /\ UNCHANGED <<pc, written, result, answeredBy, camera, verdict>>
        /\ \A g \in Handlers : handler'[g].answer \in {handler[g].answer, NoCall}
        /\ \A d \in Calls : respCh'[d] \in {respCh[d], handler[h].answer}
    BY DEF TypeOK, Idle
  <2>2. QED
    BY <2>1 DEF TypeOK
<1>13. ASSUME NEW h \in Handlers, StorageNotification(h) PROVE Progress'
  BY <1>13 DEF StorageNotification, hostVars, sendVars, cameraVars
<1>14. CASE UNCHANGED vars
  BY <1>14 DEF vars, hostVars, sendVars, handlerVars, cameraVars
<1>15. QED
  BY <1>1, <1>2, <1>3, <1>4, <1>5, <1>6, <1>7, <1>8, <1>9, <1>10, <1>11, <1>12, <1>13, <1>14
     DEF Next, CallStep, Arrival
------------------------------------------------------------------------------
\* The initial states satisfy the inductive invariant.
LEMMA InitIInv == Init => IInv
<1> SUFFICES ASSUME Init PROVE IInv
  OBVIOUS
<1> USE DeviceAssumption DEF Init
<1>1. TypeOK
  <2>1. kind \in [Calls -> AllKinds]
    OBVIOUS
  <2>2. 0 \in SeqNums /\ 0 \in Nat /\ 0 \in 0 .. Pieces /\ 0 \in 0 .. NotifCap /\ 0 \in 0 .. Pushes
    BY DEF SeqNums
  <2>3. handler \in [Handlers -> [answer : Calls \cup {NoCall}, target : Calls \cup {NoCall}]]
    BY DEF Idle
  <2>4. QED
    BY <2>1, <2>2, <2>3 DEF TypeOK
<1>2. Numbering
  BY DEF Numbering, Numbered, Taking, Live, Idle
<1>3. Routing
  BY DEF Routing, StaysRegistered, NoLeftovers, OwnAnswer, Idle
<1>4. Progress
  BY DEF Progress, Idle
<1>5. QED
  BY <1>1, <1>2, <1>3, <1>4 DEF IInv

\* With numbers taken one at a time - under the lock, or by one goroutine - and no
\* request outliving the numbering cycle, the invariant holds for any number of
\* callers, calls, handlers and numbers (session.go:18-27, device.go:401-407).
THEOREM Inductive == ASSUME OneAtATime, Windowed PROVE Spec => []IInv
<1>1. IInv /\ [Next]_vars => IInv'
  BY TypeStep, NumberingStep, RoutingStep, ProgressStep, OneAtATime, Windowed DEF IInv
<1>2. QED
  BY InitIInv, <1>1, PTL DEF Spec

\* Every variable keeps its type (device.go:36-58).
THEOREM TypeCorrect == ASSUME OneAtATime, Windowed PROVE Spec => []TypeOK
BY Inductive, PTL, OneAtATime, Windowed DEF IInv

\* No caller is ever handed the answer to another caller's command (device.go:322).
THEOREM AnswersAreOwn == ASSUME OneAtATime, Windowed PROVE Spec => []OwnAnswer
BY Inductive, PTL, OneAtATime, Windowed DEF IInv, Routing

\* A waiting call's channel stays the one registered under its number, whatever
\* other calls register and delete (device.go:412-420).
THEOREM WaitersStayRegistered == ASSUME OneAtATime, Windowed PROVE Spec => []StaysRegistered
BY Inductive, PTL, OneAtATime, Windowed DEF IInv, Routing

\* No path out of SendCommand leaves a channel in responseChs (device.go:416-420).
THEOREM NothingLeftOver == ASSUME OneAtATime, Windowed PROVE Spec => []NoLeftovers
BY Inductive, PTL, OneAtATime, Windowed DEF IInv, Routing
------------------------------------------------------------------------------
\* What a handler delivers to its own waiting call is never dropped.
LEMMA DeliveryKept ==
  ASSUME IInv, Next, NEW h \in Handlers,
         handler[h].answer # NoCall, handler'[h] = Idle, pc[handler[h].answer] = "wait"
  PROVE  respCh'[handler[h].answer] = handler[h].answer
<1> USE DeviceAssumption DEF IInv
<1>1. handler[h] # Idle
  BY DEF Idle
<1>2. ASSUME NEW c \in Calls, CallStep(c) PROVE handler' = handler
  BY <1>2 DEF CallStep, NextSequence, LoadCounter, StoreCounter, WrapCounter, ReturnCounter,
    Register, WriteChunk, WriteFails, ReceiveResponse, Timeout, Cleanup, handlerVars
<1>3. ASSUME NEW c \in Calls, (\E v \in Verdicts : CameraAnswers(c, v)) \/ CameraSilent(c)
      PROVE  handler' = handler
  BY <1>3 DEF CameraAnswers, CameraSilent, handlerVars
<1>4. ASSUME NEW g \in Handlers, NEW r \in Calls, Arrival(g, r) PROVE handler'[h] = handler[h]
  BY <1>1, <1>4 DEF Arrival, LookUp, Garbled, TypeOK
<1>5. ASSUME NEW g \in Handlers, StorageNotification(g) PROVE handler' = handler
  BY <1>5 DEF StorageNotification
<1>6. ASSUME NEW g \in Handlers, Deliver(g) PROVE g = h
  BY <1>1, <1>6 DEF Deliver, TypeOK
<1>7. Deliver(h)
  BY <1>1, <1>2, <1>3, <1>4, <1>5, <1>6 DEF Next
<1>8. /\ handler[h].answer \in Calls
      /\ handler[h].target = handler[h].answer
      /\ respCh[handler[h].answer] \in {NoCall, handler[h].answer}
  BY DEF TypeOK, Routing
<1>9. QED
  BY <1>7, <1>8 DEF Deliver, TypeOK

\* The non-blocking send (device.go:327-331) never drops a waiting call's own answer.
THEOREM AnswersKept == ASSUME OneAtATime, Windowed PROVE Spec => AnswerKept
<1> DEFINE Kept == \A h \in Handlers :
                     LET c == handler[h].answer
                     IN c # NoCall /\ handler'[h] = Idle /\ pc[c] = "wait" => respCh'[c] = c
<1>1. IInv /\ [Next]_vars => [Kept]_vars
  BY DeliveryKept
<1>2. Spec => []IInv
  BY Inductive, OneAtATime, Windowed
<1>3. QED
  BY <1>1, <1>2, PTL DEF Spec, AnswerKept
------------------------------------------------------------------------------
(* Device implements Rpc.                                                     *)

\* Calls whose phase and verdict a step leaves alone stay as they are.
LEMMA SamePhase ==
  ASSUME NEW c \in Calls, UNCHANGED <<answeredBy[c], result[c], written[c]>>
  PROVE  RpcPhase(c)' = RpcPhase(c)
BY DEF RpcPhase

\* The initial states of Device are initial states of Rpc.
LEMMA RpcInit == Init => Session!Init
BY DeviceAssumption DEF Init, Session!Init, RpcPhase

\* A step that changes the phase of no call but c, and leaves every verdict alone.
LEMMA PhaseChange ==
  ASSUME NEW c \in Calls, UNCHANGED verdict,
         \A d \in Calls \ {c} : RpcPhase(d)' = RpcPhase(d)
  PROVE  /\ [d \in Calls |-> RpcPhase(d)]' =
              [[d \in Calls |-> RpcPhase(d)] EXCEPT ![c] = RpcPhase(c)']
         /\ {d \in Calls : verdict[d] # "none"}' = {d \in Calls : verdict[d] # "none"}
OBVIOUS

\* Every step of Device is a step of Rpc, or none.
LEMMA RpcStep == IInv /\ [Next]_vars => [Session!Next]_(Session!vars)
<1> SUFFICES ASSUME IInv, [Next]_vars PROVE [Session!Next]_(Session!vars)
  OBVIOUS
<1> USE DeviceAssumption DEF IInv
<1> DEFINE Quiet == UNCHANGED <<answeredBy, result, written, verdict>>
<1>1. ASSUME Quiet PROVE UNCHANGED Session!vars
  <2>1. \A c \in Calls : RpcPhase(c)' = RpcPhase(c)
    BY <1>1 DEF RpcPhase
  <2>2. QED
    BY <1>1, <2>1 DEF Session!vars
<1>2. ASSUME NEW c \in Calls, WriteChunk(c) PROVE [Session!Next]_(Session!vars)
  <2> USE <1>2 DEF WriteChunk
  <2>1. /\ pc[c] = "write" /\ answeredBy[c] = NoCall /\ result[c] = "none"
        /\ written[c] \in Nat
        /\ UNCHANGED <<verdict, answeredBy>>
        /\ written' = [written EXCEPT ![c] = written[c] + 1]
    BY DEF Progress, TypeOK, cameraVars
  <2>2. /\ \A d \in Calls \ {c} : result'[d] = result[d]
        /\ result'[c] \in {"none", "ok"}
    <3>1. CASE written[c] + 1 < Pieces
      BY <2>1, <3>1
    <3>2. CASE ~ (written[c] + 1 < Pieces) /\ kind[c] = "notify"
      BY <2>1, <3>2 DEF TypeOK
    <3>3. CASE ~ (written[c] + 1 < Pieces) /\ kind[c] # "notify"
      BY <2>1, <3>3 DEF TypeOK
    <3>4. QED
      BY <3>1, <3>2, <3>3
  <2>3. \A d \in Calls \ {c} : RpcPhase(d)' = RpcPhase(d)
    BY <2>1, <2>2 DEF RpcPhase, TypeOK
  <2>4. /\ RpcPhase(c) = (IF written[c] > 0 THEN "asked" ELSE "new")
        /\ RpcPhase(c)' = "asked"
    BY <2>1, <2>2 DEF RpcPhase, TypeOK
  <2>5. CASE RpcPhase(c) = "new"
    <3>1. Session!Ask(c)
      BY <2>1, <2>3, <2>4, <2>5, PhaseChange DEF Session!Ask
    <3>2. QED
      BY <3>1 DEF Session!Next
  <2>6. CASE RpcPhase(c) = "asked"
    <3>1. \A d \in Calls : RpcPhase(d)' = RpcPhase(d)
      BY <2>3, <2>4, <2>6
    <3>2. QED
      BY <2>1, <3>1 DEF Session!vars
  <2>7. QED
    BY <2>4, <2>5, <2>6
<1>3. ASSUME NEW c \in Calls, WriteFails(c) \/ Timeout(c) PROVE [Session!Next]_(Session!vars)
  <2> USE <1>3 DEF WriteFails, Timeout
  <2>1. /\ answeredBy[c] = NoCall /\ result[c] = "none"
        /\ UNCHANGED <<verdict, answeredBy, written>>
        /\ result' = [result EXCEPT ![c] = "failed"]
    BY DEF Progress, cameraVars, sendVars
  <2>2. \A d \in Calls \ {c} : RpcPhase(d)' = RpcPhase(d)
    BY <2>1 DEF RpcPhase, TypeOK
  <2>3. RpcPhase(c) \in {"new", "asked"} /\ RpcPhase(c)' = "failed"
    BY <2>1 DEF RpcPhase, TypeOK
  <2>4. Session!Fail(c)
    BY <2>1, <2>2, <2>3, PhaseChange DEF Session!Fail
  <2>5. QED
    BY <2>4 DEF Session!Next
<1>4. ASSUME NEW c \in Calls, ReceiveResponse(c) PROVE [Session!Next]_(Session!vars)
  <2> USE <1>4 DEF ReceiveResponse
  <2>1. /\ pc[c] = "wait" /\ respCh[c] = c
        /\ answeredBy[c] = NoCall /\ result[c] = "none" /\ written[c] = Pieces
        /\ verdict[c] # "none"
        /\ UNCHANGED <<verdict, written>>
        /\ answeredBy' = [answeredBy EXCEPT ![c] = respCh[c]]
        /\ \E r : result' = [result EXCEPT ![c] = r]
    BY DEF Progress, Routing, cameraVars, sendVars
  <2>2. \A d \in Calls \ {c} : RpcPhase(d)' = RpcPhase(d)
    BY <2>1 DEF RpcPhase, TypeOK
  <2>3. RpcPhase(c) = "asked" /\ RpcPhase(c)' = "answered"
    BY <2>1 DEF RpcPhase, TypeOK
  <2>4. Session!Answer(c)
    BY <2>1, <2>2, <2>3, PhaseChange DEF Session!Answer
  <2>5. QED
    BY <2>4 DEF Session!Next
<1>5. ASSUME NEW c \in Calls, NEW v \in Verdicts, CameraAnswers(c, v)
      PROVE  [Session!Next]_(Session!vars)
  <2> USE <1>5 DEF CameraAnswers
  <2>1. /\ camera[c] = "arrived" /\ verdict[c] = "none" /\ v # "none"
        /\ written[c] = Pieces /\ pc[c] \in {"wait", "cleanup", "done"}
        /\ UNCHANGED <<answeredBy, result, written>>
        /\ verdict' = [verdict EXCEPT ![c] = v]
    BY DEF Progress, hostVars, sendVars, AllVerdicts
  <2>2. \A d \in Calls : RpcPhase(d)' = RpcPhase(d)
    BY <2>1, SamePhase
  <2>3. RpcPhase(c) # "new"
    BY <2>1 DEF RpcPhase
  <2>4. {d \in Calls : verdict[d] # "none"}' = {d \in Calls : verdict[d] # "none"} \cup {c}
    BY <2>1 DEF TypeOK
  <2>5. Session!Serve(c)
    BY <2>1, <2>2, <2>3, <2>4 DEF Session!Serve
  <2>6. QED
    BY <2>5 DEF Session!Next
<1>6. ASSUME NEW c \in Calls, NextSequence(c) \/ Register(c) \/ Cleanup(c) \/ CameraSilent(c)
      PROVE  Quiet
  BY <1>6 DEF NextSequence, Register, Cleanup, CameraSilent, hostVars, sendVars, cameraVars
<1>7. ASSUME NEW c \in Calls, LoadCounter(c) \/ StoreCounter(c) \/ WrapCounter(c) \/ ReturnCounter(c)
      PROVE  Quiet
  BY <1>7 DEF LoadCounter, StoreCounter, WrapCounter, ReturnCounter, hostVars, sendVars,
    cameraVars
<1>8. ASSUME NEW h \in Handlers, NEW r \in Calls, Arrival(h, r) PROVE Quiet
  BY <1>8 DEF Arrival, LookUp, Garbled, hostVars, sendVars
<1>9. ASSUME NEW h \in Handlers, Deliver(h) \/ StorageNotification(h) PROVE Quiet
  BY <1>9 DEF Deliver, StorageNotification, hostVars, sendVars, cameraVars
<1>10. CASE UNCHANGED vars
  <2>1. Quiet
    BY <1>10 DEF vars, hostVars, sendVars, cameraVars
  <2>2. QED
    BY <1>1, <2>1
<1>11. QED
  BY <1>1, <1>2, <1>3, <1>4, <1>5, <1>6, <1>7, <1>8, <1>9, <1>10 DEF Next, CallStep

\* Whatever the radio loses, delays or reorders, whichever calls give up, and
\* however often the numbering wraps, the session keeps the promise Rpc states.
THEOREM SessionImplementsRpc == ASSUME OneAtATime, Windowed PROVE Spec => ImplementsRpc
<1>1. Spec => []IInv
  BY Inductive, OneAtATime, Windowed
<1>2. QED
  BY <1>1, RpcInit, RpcStep, PTL DEF Spec, ImplementsRpc, Session!Spec
=============================================================================
