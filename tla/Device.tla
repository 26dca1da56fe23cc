------------------------------- MODULE Device -------------------------------
(***************************************************************************)
(* The request/response core of pkg/direct: Device.SendCommand and         *)
(* SendCommandNoResponse on one side, the notification handlers on the     *)
(* other, and responseChs, the map from sequence numbers to the channels   *)
(* of the calls in progress, between them.                                 *)
(*                                                                         *)
(* A step is what happens between two points where another goroutine can   *)
(* get in: taking a number, registering under d.mu, one BLE write, the     *)
(* look-up under d.mu, the channel send after it, the select, the deferred *)
(* delete.  A call is identified by its goroutine and its round, and so is *)
(* the channel it makes: the handler keeps hold of that channel, not of    *)
(* the sequence number, across the unlock.                                 *)
(*                                                                         *)
(* The camera and the radio are external: the camera answers a request at  *)
(* most once, at any later time and in any order, or not at all, and the   *)
(* radio may lose or garble an answer.                                     *)
(***************************************************************************)
EXTENDS Integers, FiniteSets

CONSTANTS
  Callers,      \* goroutines that send commands
  Rounds,       \* bound: how many calls each of them makes, one after another
  Handlers,     \* goroutines that run notification handlers (one per characteristic)
  MaxSeq,       \* the highest sequence number: 254
  Pieces,       \* BLE writes a message takes: 1 as a Go2BlePacket, more as Header16 chunks
  Locked,       \* TRUE: Session.NextSequence (Header16); FALSE: nextGo2Seq (GO 2, GO 3)
  Windowed,     \* TRUE: no request outlives the numbering cycle (see WithinWindow)
  Kinds,        \* the kinds of operation in play, a subset of AllKinds
  Verdicts,     \* the status codes the camera answers with, a subset of AllVerdicts
  Pushes,       \* bound: unsolicited notifications the camera sends
  NotifCap,     \* capacity of notificationCh
  NoCall        \* stands for "no channel" and "no answer"

AllKinds == {"control", "query", "notify"}
AllVerdicts == {"ok", "error"}

Calls == Callers \X (1 .. Rounds)

ASSUME DeviceAssumption ==
  /\ Rounds \in Nat \ {0}
  /\ MaxSeq \in Nat \ {0}
  /\ Pieces \in Nat \ {0}
  /\ Pushes \in Nat
  /\ NotifCap \in Nat
  /\ Locked \in BOOLEAN
  /\ Windowed \in BOOLEAN
  /\ Kinds \subseteq AllKinds
  /\ Verdicts \subseteq AllVerdicts
  /\ NoCall \notin Calls

\* A uint8 with 254 replaced by MaxSeq: 0 and MaxSeq+1 (255) are the reserved numbers.
Width == MaxSeq + 2
SeqNums == 0 .. MaxSeq + 1

VARIABLES
  pc,           \* pc[c]: where call c is
  kind,         \* kind[c]: what the caller does with the response
  counter,      \* go2SeqCounter, or Session.seq
  loaded,       \* loaded[c]: the counter as c read it, before it stores its increment
  seq,          \* seq[c]: the sequence number c took
  responseChs,  \* responseChs[n]: whose channel is registered under number n
  written,      \* written[c]: how many of its BLE writes c has done
  torn,         \* the calls whose chunks were interleaved with another call's
  respCh,       \* respCh[c]: the answer buffered in c's channel (capacity 1)
  answeredBy,   \* answeredBy[c]: the call whose answer c was given
  result,       \* result[c]: what c returned
  handler,      \* handler[h]: the answer h has routed and the channel it found
  notified,     \* how many messages sit in notificationCh, which nobody reads
  pushed,       \* how many notifications the camera has pushed
  cached,       \* whether cachedStorageInfo is set
  camera,       \* camera[c]: what became of c's request beyond the radio
  verdict,      \* verdict[c]: the status the camera gave c's request
  issued,       \* history: how many numbers have been handed out
  ticket        \* history: ticket[c] is the how-manieth number c was given

allocVars == <<counter, loaded, issued>>
hostVars == <<responseChs, respCh, answeredBy, result>>
sendVars == <<written, torn>>
handlerVars == <<handler, notified, pushed, cached>>
cameraVars == <<camera, verdict>>
callVars == <<kind, seq, ticket>>
vars == <<pc, callVars, allocVars, hostVars, sendVars, handlerVars, cameraVars>>

Idle == [answer |-> NoCall, target |-> NoCall]

TypeOK ==
  /\ pc \in [Calls -> {"idle", "store", "wrap", "take", "register", "write", "wait",
                       "cleanup", "done"}]
  /\ kind \in [Calls -> AllKinds]
  /\ counter \in SeqNums
  /\ loaded \in [Calls -> SeqNums]
  /\ seq \in [Calls -> SeqNums]
  /\ responseChs \in [SeqNums -> Calls \cup {NoCall}]
  /\ written \in [Calls -> 0 .. Pieces]
  /\ torn \subseteq Calls
  /\ respCh \in [Calls -> Calls \cup {NoCall}]
  /\ answeredBy \in [Calls -> Calls \cup {NoCall}]
  /\ result \in [Calls -> {"none", "ok", "failed"}]
  /\ handler \in [Handlers -> [answer : Calls \cup {NoCall}, target : Calls \cup {NoCall}]]
  /\ notified \in 0 .. NotifCap
  /\ pushed \in 0 .. Pushes
  /\ cached \in BOOLEAN
  /\ camera \in [Calls -> {"none", "arrived", "answering", "delivered", "dropped"}]
  /\ verdict \in [Calls -> AllVerdicts \cup {"none"}]
  /\ issued \in Nat
  /\ ticket \in [Calls -> Nat]

Init ==
  /\ pc = [c \in Calls |-> "idle"]
  /\ kind \in [Calls -> Kinds]
  /\ counter = 0
  /\ loaded = [c \in Calls |-> 0]
  /\ seq = [c \in Calls |-> 0]
  /\ responseChs = [n \in SeqNums |-> NoCall]
  /\ written = [c \in Calls |-> 0]
  /\ torn = {}
  /\ respCh = [c \in Calls |-> NoCall]
  /\ answeredBy = [c \in Calls |-> NoCall]
  /\ result = [c \in Calls |-> "none"]
  /\ handler = [h \in Handlers |-> Idle]
  /\ notified = 0
  /\ pushed = 0
  /\ cached = FALSE
  /\ camera = [c \in Calls |-> "none"]
  /\ verdict = [c \in Calls |-> "none"]
  /\ issued = 0
  /\ ticket = [c \in Calls |-> 0]

------------------------------------------------------------------------------
(* Sequence numbers.                                                        *)

\* A request whose number may still turn up in the session: its call is under
\* way, or its answer may yet arrive or is in a handler's hands.
Live(c) ==
  \/ pc[c] \in {"register", "write", "wait", "cleanup"}
  \/ camera[c] \in {"arrived", "answering"}
  \/ \E h \in Handlers : handler[h].answer = c

\* The environment assumption the correlation by number rests on: while a
\* request is live, fewer than MaxSeq further numbers are handed out.  Nothing
\* in the code enforces it.
WithinWindow == Windowed => \A c \in Calls : Live(c) => issued + 1 < ticket[c] + MaxSeq

\* A goroutine makes its calls one after another.
MayBegin(c) ==
  /\ pc[c] = "idle"
  /\ \A d \in Calls : d[1] = c[1] /\ d[2] < c[2] => pc[d] = "done"

\* Number c with n: it will register, unless it waits for no response.
TakeNumber(c, n) ==
  /\ seq' = [seq EXCEPT ![c] = n]
  /\ issued' = issued + 1
  /\ ticket' = [ticket EXCEPT ![c] = issued + 1]
  /\ pc' = [pc EXCEPT ![c] = IF kind[c] = "notify" THEN "write" ELSE "register"]

\* A cycle that comes back to 1 one number early.
NextOfShort(s) == IF s >= MaxSeq - 1 THEN 1 ELSE s + 1

NextOf(s) == IF s >= MaxSeq THEN 1 ELSE s + 1

\* Session.NextSequence: increment, wrap and read under the session's mutex.
NextSequence(c) ==
  /\ Locked
  /\ MayBegin(c)
  /\ WithinWindow
  /\ counter' = NextOf(counter)
  /\ TakeNumber(c, NextOf(counter))
  /\ UNCHANGED <<kind, loaded, hostVars, sendVars, handlerVars, cameraVars>>

\* nextGo2Seq takes no lock: d.go2SeqCounter++ is a load and a store...
LoadCounter(c) ==
  /\ ~ Locked
  /\ MayBegin(c)
  /\ WithinWindow
  /\ loaded' = [loaded EXCEPT ![c] = counter]
  /\ pc' = [pc EXCEPT ![c] = "store"]
  /\ UNCHANGED <<callVars, counter, issued, hostVars, sendVars, handlerVars, cameraVars>>

StoreCounter(c) ==
  /\ pc[c] = "store"
  /\ counter' = (loaded[c] + 1) % Width
  /\ pc' = [pc EXCEPT ![c] = "wrap"]
  /\ UNCHANGED <<callVars, loaded, issued, hostVars, sendVars, handlerVars, cameraVars>>

\* ... then the test against 254 and the reset...
WrapCounter(c) ==
  /\ pc[c] = "wrap"
  /\ counter' = IF counter > MaxSeq THEN 1 ELSE counter
  /\ pc' = [pc EXCEPT ![c] = "take"]
  /\ UNCHANGED <<callVars, loaded, issued, hostVars, sendVars, handlerVars, cameraVars>>

\* ... and the counter is read once more for the return value.
ReturnCounter(c) ==
  /\ pc[c] = "take"
  /\ TakeNumber(c, counter)
  /\ UNCHANGED <<kind, counter, loaded, hostVars, sendVars, handlerVars, cameraVars>>

------------------------------------------------------------------------------
(* The caller.                                                              *)

Register(c) ==
  /\ pc[c] = "register"
  /\ responseChs' = [responseChs EXCEPT ![seq[c]] = c]
  /\ pc' = [pc EXCEPT ![c] = "write"]
  /\ UNCHANGED <<callVars, allocVars, respCh, answeredBy, result, sendVars, handlerVars,
                 cameraVars>>

\* The calls in the middle of a message made of several writes.
MidMessage == {c \in Calls : pc[c] = "write" /\ written[c] > 0}

\* One charWrite.Write.  No lock is held from one chunk to the next, so chunks
\* of concurrent calls may alternate: the camera then finds neither message.
\* After the last one the caller waits, or returns if it wants no response.
WriteChunk(c) ==
  /\ pc[c] = "write"
  /\ written' = [written EXCEPT ![c] = @ + 1]
  /\ torn' = IF MidMessage \subseteq {c} THEN torn ELSE torn \cup MidMessage \cup {c}
  /\ IF written[c] + 1 < Pieces
     THEN UNCHANGED <<pc, result, cameraVars>>
     ELSE /\ pc' = [pc EXCEPT ![c] = IF kind[c] = "notify" THEN "done" ELSE "wait"]
          /\ result' = [result EXCEPT ![c] = IF kind[c] = "notify" THEN "ok" ELSE @]
          /\ camera' = [camera EXCEPT ![c] = IF c \in torn' THEN "dropped" ELSE "arrived"]
          /\ UNCHANGED verdict
  /\ UNCHANGED <<callVars, allocVars, responseChs, respCh, answeredBy, handlerVars>>

\* An error path that forgets the deferred delete.
WriteFailsEarly(c) ==
  /\ pc[c] = "write"
  /\ result' = [result EXCEPT ![c] = "failed"]
  /\ pc' = [pc EXCEPT ![c] = "done"]
  /\ UNCHANGED <<callVars, allocVars, responseChs, respCh, answeredBy, sendVars,
                 handlerVars, cameraVars>>

WriteFails(c) ==
  /\ pc[c] = "write"
  /\ result' = [result EXCEPT ![c] = "failed"]
  /\ pc' = [pc EXCEPT ![c] = IF kind[c] = "notify" THEN "done" ELSE "cleanup"]
  /\ UNCHANGED <<callVars, allocVars, responseChs, respCh, answeredBy, sendVars,
                 handlerVars, cameraVars>>

\* select: the response wins.  A query decodes the status and fails on an error
\* (extractPayload); a control command looks at nothing but err.
ReceiveResponse(c) ==
  /\ pc[c] = "wait"
  /\ respCh[c] # NoCall
  /\ answeredBy' = [answeredBy EXCEPT ![c] = respCh[c]]
  /\ respCh' = [respCh EXCEPT ![c] = NoCall]
  /\ result' = [result EXCEPT ![c] =
                  IF kind[c] = "query" /\ verdict[respCh[c]] = "error" THEN "failed" ELSE "ok"]
  /\ pc' = [pc EXCEPT ![c] = "cleanup"]
  /\ UNCHANGED <<callVars, allocVars, responseChs, sendVars, handlerVars, cameraVars>>

\* A select without its ctx.Done() case.
NoTimeout(c) == FALSE /\ UNCHANGED vars

\* select: ctx.Done() wins, which it may even with a response in the channel.
Timeout(c) ==
  /\ pc[c] = "wait"
  /\ result' = [result EXCEPT ![c] = "failed"]
  /\ pc' = [pc EXCEPT ![c] = "cleanup"]
  /\ UNCHANGED <<callVars, allocVars, responseChs, respCh, answeredBy, sendVars,
                 handlerVars, cameraVars>>

\* A delete under the counter's present value instead of the call's own number.
CleanupCurrent(c) ==
  /\ pc[c] = "cleanup"
  /\ responseChs' = [responseChs EXCEPT ![counter] = NoCall]
  /\ pc' = [pc EXCEPT ![c] = "done"]
  /\ UNCHANGED <<callVars, allocVars, respCh, answeredBy, result, sendVars, handlerVars,
                 cameraVars>>

\* The deferred delete, whoever is registered under the number by now.
Cleanup(c) ==
  /\ pc[c] = "cleanup"
  /\ responseChs' = [responseChs EXCEPT ![seq[c]] = NoCall]
  /\ pc' = [pc EXCEPT ![c] = "done"]
  /\ UNCHANGED <<callVars, allocVars, respCh, answeredBy, result, sendVars, handlerVars,
                 cameraVars>>

------------------------------------------------------------------------------
(* The camera and the radio (external).                                     *)

\* The camera handles a request and sends its answer, under the request's number.
CameraAnswers(c, v) ==
  /\ camera[c] = "arrived"
  /\ camera' = [camera EXCEPT ![c] = "answering"]
  /\ verdict' = [verdict EXCEPT ![c] = v]
  /\ UNCHANGED <<pc, callVars, allocVars, hostVars, sendVars, handlerVars>>

\* The camera ignores a request, or the radio loses its answer.
CameraSilent(c) ==
  /\ camera[c] \in {"arrived", "answering"}
  /\ camera' = [camera EXCEPT ![c] = "dropped"]
  /\ UNCHANGED <<pc, callVars, allocVars, hostVars, sendVars, handlerVars, verdict>>

------------------------------------------------------------------------------
(* The notification handlers.                                               *)

\* A queue without a limit.
NotifyUnbounded == notified' = notified + 1

\* A send to notificationCh that waits for room.
NotifyBlocking == notified < NotifCap /\ notified' = notified + 1

\* The non-blocking send to notificationCh: a full channel drops the message.
Notify == notified' = IF notified < NotifCap THEN notified + 1 ELSE notified

\* Routing that takes responses to come in the order of the requests.
LookUpInOrder(h, r) ==
  /\ handler[h] = Idle
  /\ camera[r] = "answering"
  /\ camera' = [camera EXCEPT ![r] = "delivered"]
  /\ LET waiting == {c \in Calls : pc[c] = "wait"}
         first == CHOOSE c \in waiting : \A d \in waiting : ticket[c] <= ticket[d]
     IN handler' = [handler EXCEPT ![h] =
                      IF waiting = {} THEN Idle ELSE [answer |-> r, target |-> first]]
  /\ UNCHANGED <<pc, callVars, allocVars, hostVars, sendVars, notified, pushed, cached, verdict>>

\* handleGo2InnerData, handleHeader16Notification: an answer is routed by its
\* number.  Under d.mu the handler looks the channel up; it sends after unlocking.
\* With no channel the message is an unsolicited notification.
LookUp(h, r) ==
  /\ handler[h] = Idle
  /\ camera[r] = "answering"
  /\ camera' = [camera EXCEPT ![r] = "delivered"]
  /\ IF responseChs[seq[r]] = NoCall
     THEN Notify /\ UNCHANGED handler
     ELSE /\ handler' = [handler EXCEPT ![h] =
                            [answer |-> r, target |-> responseChs[seq[r]]]]
          /\ UNCHANGED notified
  /\ UNCHANGED <<pc, callVars, allocVars, hostVars, sendVars, pushed, cached, verdict>>

\* The non-blocking send to the channel found: a full one drops the answer.
Deliver(h) ==
  /\ handler[h] # Idle
  /\ LET c == handler[h].target
     IN respCh' = [respCh EXCEPT ![c] = IF @ = NoCall THEN handler[h].answer ELSE @]
  /\ handler' = [handler EXCEPT ![h] = Idle]
  /\ UNCHANGED <<pc, callVars, allocVars, responseChs, answeredBy, result, sendVars, notified,
                 pushed, cached, cameraVars>>

\* An answer garbled on the way: neither the envelope nor the header decodes, and
\* the raw bytes go to notificationCh.
Garbled(h, r) ==
  /\ handler[h] = Idle
  /\ camera[r] = "answering"
  /\ camera' = [camera EXCEPT ![r] = "dropped"]
  /\ Notify
  /\ UNCHANGED <<pc, callVars, allocVars, hostVars, sendVars, handler, pushed, cached, verdict>>

\* A storage notification: its number is reserved, so no channel is found; its
\* payload is cached and it goes to notificationCh.
StorageNotification(h) ==
  /\ handler[h] = Idle
  /\ pushed < Pushes
  /\ pushed' = pushed + 1
  /\ cached' = TRUE
  /\ Notify
  /\ UNCHANGED <<pc, callVars, allocVars, hostVars, sendVars, handler, cameraVars>>

------------------------------------------------------------------------------
CallStep(c) ==
  \/ NextSequence(c)
  \/ LoadCounter(c) \/ StoreCounter(c) \/ WrapCounter(c) \/ ReturnCounter(c)
  \/ Register(c) \/ WriteChunk(c) \/ WriteFails(c)
  \/ ReceiveResponse(c) \/ Timeout(c) \/ Cleanup(c)

Arrival(h, r) == LookUp(h, r) \/ Garbled(h, r)

Next ==
  \/ \E c \in Calls : CallStep(c)
  \/ \E c \in Calls, v \in Verdicts : CameraAnswers(c, v)
  \/ \E c \in Calls : CameraSilent(c)
  \/ \E h \in Handlers, r \in Calls : Arrival(h, r)
  \/ \E h \in Handlers : Deliver(h) \/ StorageNotification(h)

Spec == Init /\ [][Next]_vars

\* Goroutines are scheduled, a context given to SendCommand has a deadline, and
\* a notification that reached the host is handed to a handler.  The camera and
\* the start of a call promise nothing.
Fairness ==
  /\ \A c \in Calls : WF_vars(CallStep(c) /\ pc[c] # "idle")
  /\ \A h \in Handlers : WF_vars(Deliver(h))
  /\ \A r \in Calls : WF_vars(\E h \in Handlers : Arrival(h, r))

FairSpec == Spec /\ Fairness

------------------------------------------------------------------------------
(* Properties.                                                              *)

\* A caller is never handed the answer to another caller's command
\* (device.go:322, routing by sequence number).
OwnAnswer == \A c \in Calls : answeredBy[c] \in {NoCall, c}

\* While a call has its request out and waits, its channel is the one registered
\* under its number: neither a later call's registration nor an earlier call's
\* deferred delete (device.go:412-420) takes it away.
StaysRegistered ==
  \A c \in Calls :
    pc[c] \in {"write", "wait"} /\ kind[c] # "notify" => responseChs[seq[c]] = c

\* Every registration belongs to a call in progress: no path out of SendCommand,
\* write error and timeout included, leaves its channel in responseChs.
NoLeftovers ==
  \A n \in SeqNums :
    responseChs[n] # NoCall => pc[responseChs[n]] \in {"write", "wait", "cleanup"}

\* When a handler sends a call's own answer while the call still waits, the answer
\* ends up in the channel: it is never the message the non-blocking send drops.
AnswerKept ==
  [][\A h \in Handlers :
       LET c == handler[h].answer
       IN c # NoCall /\ handler'[h] = Idle /\ pc[c] = "wait" => respCh'[c] = c]_vars

\* Every call that has begun returns.
EveryCallReturns == \A c \in Calls : pc[c] # "idle" ~> pc[c] = "done"

\* An answer that reached the host is taken off the link by a handler however many
\* unread notifications have piled up in notificationCh.
AnswersTaken == \A r \in Calls : camera[r] = "answering" ~> camera[r] # "answering"

------------------------------------------------------------------------------
(* The inductive invariant behind OwnAnswer, StaysRegistered, NoLeftovers and  *)
(* ImplementsRpc; DeviceProof proves it inductive wherever calls are numbered  *)
(* one at a time.                                                              *)

\* No two calls take their numbers at once: the numbering is locked, or there is
\* one goroutine, as on the command line.
OneAtATime == Locked \/ \A a, b \in Callers : a = b

\* The calls in the middle of nextGo2Seq.
Taking == {c \in Calls : pc[c] \in {"store", "wrap", "take"}}

\* The number handed out with ticket t, counted back from the last one.
NumberOf(last, t) == IF last > issued - t THEN last - (issued - t) ELSE last - (issued - t) + MaxSeq

\* Each live request has the number its ticket gives.
Numbered(last) == \A c \in Calls : Live(c) => seq[c] = NumberOf(last, ticket[c])

\* The counter in the middle of nextGo2Seq: it starts from the last number handed
\* out, and is past the cycle for a moment.
CounterOf(c) ==
  CASE pc[c] = "store" -> loaded[c]
    [] pc[c] = "wrap"  -> loaded[c] + 1
    [] pc[c] = "take"  -> NextOf(loaded[c])

\* Live requests lie within one cycle of the numbering, so no two share a number,
\* and the number being taken is nobody's.
Numbering ==
  /\ \A c, d \in Calls : c[1] = d[1] /\ d[2] < c[2] /\ pc[c] # "idle" => pc[d] = "done"
  /\ \A c \in Calls : ticket[c] <= issued
  /\ \A c \in Calls : ticket[c] = 0 <=> pc[c] = "idle" \/ c \in Taking
  /\ \A c, d \in Calls : ticket[c] = ticket[d] /\ ticket[c] # 0 => c = d
  /\ \A c \in Calls : Live(c) => ticket[c] # 0 /\ issued < ticket[c] + MaxSeq
  /\ Taking = {} => counter \in 0 .. MaxSeq /\ Numbered(counter)
  /\ \A c \in Taking : /\ ~ Locked
                       /\ loaded[c] \in 0 .. MaxSeq /\ Numbered(loaded[c])
                       /\ counter = CounterOf(c)
                       /\ \A d \in Calls : Live(d) => issued + 1 < ticket[d] + MaxSeq

\* A registration is its call's own, and an answer travels to its own call only.
Routing ==
  /\ StaysRegistered
  /\ \A c \in Calls : pc[c] = "cleanup" => responseChs[seq[c]] = c
  /\ \A c \in Calls : pc[c] \in {"register", "wait", "cleanup"} => kind[c] # "notify"
  /\ NoLeftovers
  /\ \A n \in SeqNums : responseChs[n] # NoCall =>
       seq[responseChs[n]] = n /\ kind[responseChs[n]] # "notify"
  /\ \A h \in Handlers : handler[h].target = handler[h].answer
  /\ \A c \in Calls : respCh[c] \in {NoCall, c}
  /\ OwnAnswer

\* An answer exists only once the camera has served the request, which it has
\* only once the whole request was written; and a call returns once.
Progress ==
  /\ \A c \in Calls : pc[c] = "write" => written[c] < Pieces
  /\ \A c \in Calls : written[c] > 0 => pc[c] \in {"write", "wait", "cleanup", "done"}
  /\ \A c \in Calls : camera[c] # "none" =>
       written[c] = Pieces /\ pc[c] \in {"wait", "cleanup", "done"}
  /\ \A c \in Calls : verdict[c] # "none" => camera[c] \notin {"none", "arrived"}
  /\ \A c \in Calls : camera[c] \in {"answering", "delivered"} => verdict[c] # "none"
  /\ \A h \in Handlers, c \in Calls : handler[h].answer = c => verdict[c] # "none"
  /\ \A c \in Calls : c \in {respCh[c], answeredBy[c]} => verdict[c] # "none"
  /\ \A c \in Calls : pc[c] = "wait" => written[c] = Pieces
  /\ \A c \in Calls : pc[c] \notin {"cleanup", "done"} =>
       result[c] = "none" /\ answeredBy[c] = NoCall

IInv == TypeOK /\ Numbering /\ Routing /\ Progress

------------------------------------------------------------------------------
(* Refinement.                                                                *)

\* The session seen as Rpc: a call is asked from its first write on; an answer
\* counts as answered only for the call it was given to.
RpcPhase(c) ==
  IF answeredBy[c] = c THEN "answered"
  ELSE IF answeredBy[c] # NoCall THEN "misled"
  ELSE IF result[c] = "failed" THEN "failed"
  ELSE IF written[c] > 0 THEN "asked" ELSE "new"

Session == INSTANCE Rpc WITH
  phase <- [c \in Calls |-> RpcPhase(c)],
  served <- {c \in Calls : verdict[c] # "none"}

\* The session implements the abstract one.
ImplementsRpc == Session!Spec
=============================================================================
