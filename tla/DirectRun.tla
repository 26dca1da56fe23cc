----------------------------- MODULE DirectRun -----------------------------
(***************************************************************************)
(* One command of the command line, from the scan to the end: the          *)
(* scanning goroutine and its callback (pkg/direct/scan.go over either     *)
(* Bluetooth adapter); the scan command, which lists what is found, or     *)
(* runOnDirect with Device.Init, the camera-initiated sync, the            *)
(* authorization and the command's own requests; and the notification      *)
(* handler that answers the sync.                                          *)
(*                                                                         *)
(* Commands go through SendCommand, taken here as what module Rpc promises *)
(* of it: an answer a call gets is its own.  The camera (external) follows *)
(* the comment of syncHandshake: it puts the first command aside, sends a  *)
(* sync packet, and handles the command once the sync has been answered.   *)
(***************************************************************************)
EXTENDS Naturals, Sequences

CONSTANTS
  Cameras,      \* cameras in range; each has an address of its own
  Matching,     \* those whose address contains the --addr filter
  Unparsable,   \* those whose address ble.ParseDeviceID refuses
  ChCap,        \* capacity of the channel of found devices (100 in the code)
  StopsRadio,   \* TRUE: the adapter's Scan stops the scan when its context ends (D-Bus, not HCI)
  AirCap,       \* bound: notifications on their way to the host
  NoCam

ASSUME DirectRunAssumption ==
  /\ Matching \subseteq Cameras
  /\ Unparsable \subseteq Cameras
  /\ ChCap \in Nat \ {0}
  /\ StopsRadio \in BOOLEAN
  /\ AirCap \in Nat \ {0}
  /\ NoCam \notin Cameras

\* What the command line was asked for: a scan; one control command ("shutter" is
\* every one of them); a mode and then a photo; queries whose failure is only printed
\* (battery and storage, the latter from the cache on a GO 2 or GO 3); a command that
\* waits for no response.
Commands == {"scan", "shutter", "photo", "status", "power-off"}

\* What is sent to the camera: the authorization's two, and the command's own, of
\* which "prepare" is the first of two.
Requests == {"check", "request", "prepare", "act"}

\* What a camera may hold this host for, in the numbers of authorization.proto:
\* AUTHORIZED; NOT_AUTHORIZED; and, which the code takes alike, UNKNOWN (an empty
\* payload is one), PENDING, DENIED and EXPIRED.
Statuses == {"authorized", "unauthorized", "other"}
Answers == Statuses \cup {"granted", "denied", "garbled", "done"}

VARIABLES
  command,      \* what the command line was asked for
  scanner,      \* the goroutine that runs adapter.Scan and closes the channel
  listening,    \* whether advertisements still reach the callback
  cb,           \* the camera the callback is handing over, if it is at it
  seen,         \* addresses the callback has marked as seen
  named,        \* history: cameras whose full advertisement the callback was given
  offered,      \* history: cameras put into the channel
  devCh,        \* the channel of found devices
  errCh,        \* how many errors wait in the channel of errors
  expired,      \* whether the context is done
  at,           \* where runOnDirect is
  dev,          \* the camera it took
  link,         \* whether a connection to dev is up
  goFormat,     \* dev is a GO 2 or GO 3: it wants the sync and the authorization
  subscribed,   \* whether the notifications of dev reach the handler
  syncCh,       \* the sync channel: not made, empty or full (nothing ever reads it)
  air,          \* notifications on their way from dev to the handler
  resp,         \* the answer to the command in progress
  cam,          \* the camera: synced, its pending request, authorization, requests answered
  warned,       \* whether a warning was logged on the way
  next,         \* the command's request that is under way, or comes next
  listed,       \* what the scan command has listed; NoCam is a nil *Device
  outcome,      \* what the command line reports
  crashed       \* why the program panicked

scanVars == <<scanner, listening, cb, seen, named, offered>>
chVars == <<devCh, errCh>>
linkVars == <<link, goFormat, subscribed, syncCh>>
talkVars == <<air, resp, cam>>
jobVars == <<command, next, listed>>
vars == <<scanVars, chVars, expired, at, dev, linkVars, talkVars, jobVars, warned, outcome, crashed>>

Messages == {"sync"} \X {"-"} \cup Requests \X Answers

ScanTypes ==
  /\ scanner \in {"scanning", "failed", "closing", "closed"}
  /\ listening \in BOOLEAN
  /\ cb \in Cameras \cup {NoCam}
  /\ seen \subseteq Cameras /\ named \subseteq Cameras /\ offered \subseteq Cameras
  /\ devCh \in Seq(Cameras) /\ Len(devCh) <= ChCap
  /\ errCh \in 0 .. 1
  /\ expired \in BOOLEAN

RunTypes ==
  /\ command \in Commands
  /\ next \in {"prepare", "act"}
  /\ listed \subseteq Cameras \cup {NoCam}
  /\ at \in {"list", "select", "connect", "discover", "subscribe", "sync", "check", "checking",
             "request", "requesting", "act", "acting", "close", "returned"}
  /\ dev \in Cameras \/ (dev = NoCam /\ at \in {"list", "select", "returned"})
  /\ warned \in BOOLEAN
  /\ outcome \in {"none", "ok", "failed"}
  /\ crashed \in {"no", "nil device", "closed channel"}

LinkTypes ==
  /\ link \in BOOLEAN /\ goFormat \in BOOLEAN /\ subscribed \in BOOLEAN
  /\ syncCh \in {"nil", "empty", "full"}
  /\ air \in Seq(Messages) /\ Len(air) <= AirCap
  /\ resp \in Answers \cup {"none"}
  /\ cam \in [synced : BOOLEAN, pending : Requests \cup {"none"}, auth : Statuses,
              answered : SUBSET Requests]

TypeOK == ScanTypes /\ RunTypes /\ LinkTypes

Init ==
  /\ scanner = "scanning" /\ listening = TRUE
  /\ cb = NoCam
  /\ seen = {} /\ named = {} /\ offered = {}
  /\ devCh = <<>> /\ errCh = 0
  /\ expired = FALSE
  /\ command \in Commands
  /\ listed = {}
  /\ at = (IF command = "scan" THEN "list" ELSE "select") /\ dev = NoCam
  /\ link = FALSE /\ subscribed = FALSE /\ syncCh = "nil"
  /\ goFormat \in BOOLEAN
  /\ next = IF command = "photo" \/ (command = "status" /\ ~ goFormat) THEN "prepare" ELSE "act"
  /\ air = <<>> /\ resp = "none"
  /\ cam \in [synced : {~ goFormat}, pending : {"none"},
              auth : IF goFormat THEN Statuses ELSE {"authorized"}, answered : {{}}]
  /\ warned = FALSE /\ outcome = "none" /\ crashed = "no"

Running == crashed = "no"

\* The context's deadline passes.
Expire ==
  /\ Running /\ ~ expired
  /\ expired' = TRUE
  /\ UNCHANGED <<scanVars, chVars, at, dev, linkVars, talkVars, warned, outcome, crashed, jobVars>>

------------------------------------------------------------------------------
(* The scan.                                                                *)

\* A callback that marks an address before it knows what advertises there.
HearSeenFirst(c, full) ==
  /\ Running /\ listening /\ cb = NoCam
  /\ seen' = seen \cup {c}
  /\ named' = IF full THEN named \cup {c} ELSE named
  /\ cb' = IF full /\ c \notin seen \cup Unparsable THEN c ELSE NoCam
  /\ UNCHANGED <<scanner, listening, offered, chVars, expired, at, dev, linkVars, talkVars,
                 warned, outcome, crashed, jobVars>>

\* The callback is given an advertisement, which need not carry the name yet:
\* without one no model is identified.  Callbacks run one at a time.
Hear(c, full) ==
  /\ Running /\ listening /\ cb = NoCam
  /\ named' = IF full THEN named \cup {c} ELSE named
  /\ seen' = IF full THEN seen \cup {c} ELSE seen
  /\ cb' = IF full /\ c \notin seen \cup Unparsable THEN c ELSE NoCam
  /\ UNCHANGED <<scanner, listening, offered, chVars, expired, at, dev, linkVars, talkVars,
                 warned, outcome, crashed, jobVars>>

\* select in the callback: the send.  On a closed channel it panics.
Offer ==
  /\ Running /\ cb # NoCam
  /\ \/ /\ scanner # "closed"
        /\ Len(devCh) < ChCap
        /\ devCh' = Append(devCh, cb)
        /\ offered' = offered \cup {cb}
        /\ cb' = NoCam
        /\ UNCHANGED crashed
     \/ /\ scanner = "closed"
        /\ crashed' = "closed channel"
        /\ UNCHANGED <<devCh, offered, cb>>
  /\ UNCHANGED <<scanner, listening, seen, named, errCh, expired, at, dev, linkVars, talkVars,
                 warned, outcome, jobVars>>

\* select in the callback: ctx.Done().
OfferCancelled ==
  /\ Running /\ cb # NoCam /\ expired
  /\ cb' = NoCam
  /\ UNCHANGED <<scanner, listening, seen, named, offered, chVars, expired, at, dev, linkVars,
                 talkVars, warned, outcome, crashed, jobVars>>

\* adapter.Scan returns: the context is done, and the D-Bus adapter stops the
\* scan, though a callback may be under way; or the adapter failed.
ScanReturns ==
  /\ Running /\ scanner = "scanning"
  /\ \/ /\ expired
        /\ scanner' = "closing"
        /\ listening' = ~ StopsRadio
     \/ /\ StopsRadio => cb = NoCam
        /\ scanner' = "failed"
        /\ listening' = ~ StopsRadio
  /\ UNCHANGED <<cb, seen, named, offered, chVars, expired, at, dev, linkVars, talkVars,
                 warned, outcome, crashed, jobVars>>

\* The error is reported unless the context is done.
ReportError ==
  /\ Running /\ scanner = "failed"
  /\ errCh' = IF expired THEN errCh ELSE errCh + 1
  /\ scanner' = "closing"
  /\ UNCHANGED <<listening, cb, seen, named, offered, devCh, expired, at, dev, linkVars, talkVars,
                 warned, outcome, crashed, jobVars>>

\* The deferred close(retCh).
CloseCh ==
  /\ Running /\ scanner = "closing"
  /\ scanner' = "closed"
  /\ UNCHANGED <<listening, cb, seen, named, offered, chVars, expired, at, dev, linkVars, talkVars,
                 warned, outcome, crashed, jobVars>>

------------------------------------------------------------------------------
(* runOnDirect, and the scan command.                                       *)

\* Return; the deferred cancel ends the context.
Return(o) ==
  /\ at' = "returned"
  /\ outcome' = o
  /\ expired' = TRUE

\* A filter that skips the assignment but not the rest of the case.
TakeWithoutContinue ==
  /\ Running /\ at = "select" /\ devCh # <<>>
  /\ devCh' = Tail(devCh)
  /\ at' = "connect"
  /\ dev' = IF Head(devCh) \in Matching THEN Head(devCh) ELSE dev
  /\ UNCHANGED <<scanVars, errCh, expired, linkVars, talkVars, warned, outcome, crashed, jobVars>>

\* select: a device, skipped if the filter does not match it.
TakeDevice ==
  /\ Running /\ at = "select" /\ devCh # <<>>
  /\ devCh' = Tail(devCh)
  /\ IF Head(devCh) \in Matching
     THEN at' = "connect" /\ dev' = Head(devCh)
     ELSE UNCHANGED <<at, dev>>
  /\ UNCHANGED <<scanVars, errCh, expired, linkVars, talkVars, warned, outcome, crashed, jobVars>>

\* select: the closed channel yields a nil *Device, which is used at once.
TakeNil ==
  /\ Running /\ at = "select" /\ devCh = <<>> /\ scanner = "closed"
  /\ crashed' = "nil device"
  /\ UNCHANGED <<scanVars, chVars, expired, at, dev, linkVars, talkVars, warned, outcome, jobVars>>

\* select: the scan's error, or ctx.Done().
GiveUp ==
  /\ Running /\ at = "select"
  /\ \/ errCh > 0 /\ errCh' = errCh - 1
     \/ expired /\ UNCHANGED errCh
  /\ Return("failed")
  /\ UNCHANGED <<scanVars, devCh, dev, linkVars, talkVars, warned, crashed, jobVars>>

\* The scan command lists what it takes, and looks at nothing but the deadline and
\* the error for an end: of the closed channel it lists one nil after another.
List ==
  /\ Running /\ at = "list"
  /\ \/ /\ devCh # <<>>
        /\ devCh' = Tail(devCh)
        /\ listed' = listed \cup {Head(devCh)}
     \/ /\ devCh = <<>> /\ scanner = "closed"
        /\ listed' = listed \cup {NoCam}
        /\ UNCHANGED devCh
  /\ UNCHANGED <<scanVars, errCh, expired, at, dev, linkVars, talkVars, command, next, warned,
                 outcome, crashed>>

\* For the scan command the deadline is the ordinary end.
ListEnds ==
  /\ Running /\ at = "list"
  /\ \/ errCh > 0 /\ errCh' = errCh - 1 /\ Return("failed")
     \/ expired /\ UNCHANGED errCh /\ Return("ok")
  /\ UNCHANGED <<scanVars, devCh, dev, linkVars, talkVars, jobVars, warned, crashed>>

\* Device.Close, deferred once Init has succeeded.
Close ==
  /\ Running /\ at = "close"
  /\ link' = FALSE
  /\ Return(outcome)
  /\ UNCHANGED <<scanVars, chVars, dev, goFormat, subscribed, syncCh, talkVars, warned, crashed,
                 jobVars>>

------------------------------------------------------------------------------
(* Device.Init.                                                             *)

\* Adapter.Connect.
Connect ==
  /\ Running /\ at = "connect"
  /\ \/ link' = TRUE /\ at' = "discover" /\ UNCHANGED <<outcome, expired>>
     \/ Return("failed") /\ UNCHANGED link
  /\ UNCHANGED <<scanVars, chVars, dev, goFormat, subscribed, syncCh, talkVars, warned, crashed,
                 jobVars>>

\* DiscoverServices, the characteristics, the write characteristic: an error
\* ends Init, and runOnDirect with it, before the deferred Close is set up.
Discover ==
  /\ Running /\ at = "discover"
  /\ \/ at' = "subscribe" /\ UNCHANGED <<outcome, expired>>
     \/ Return("failed")
  /\ UNCHANGED <<scanVars, chVars, dev, linkVars, talkVars, warned, crashed, jobVars>>

\* EnableNotifications; a failure is logged and Init goes on, deaf.
Subscribe ==
  /\ Running /\ at = "subscribe"
  /\ \E ok \in BOOLEAN : subscribed' = ok /\ warned' = (warned \/ ~ ok)
  /\ at' = IF goFormat THEN "sync" ELSE "act"
  /\ UNCHANGED <<scanVars, chVars, expired, dev, link, goFormat, syncCh, talkVars, outcome,
                 crashed, jobVars>>

\* syncHandshake only makes the channel: the camera starts the sync.
SyncHandshake ==
  /\ Running /\ at = "sync"
  /\ syncCh' = "empty"
  /\ at' = "check"
  /\ UNCHANGED <<scanVars, chVars, expired, dev, link, goFormat, subscribed, talkVars, warned,
                 outcome, crashed, jobVars>>

\* The notification m reaches the host, if it listens and the radio carries it.
Sent(m) ==
  IF subscribed THEN air' \in {air, Append(air, m)} ELSE UNCHANGED air

\* The camera receives a request: before the sync it puts it aside and asks for one.
Receives(request) ==
  /\ cam' = [cam EXCEPT !.pending = request]
  /\ IF cam.synced THEN UNCHANGED air ELSE Sent(<<"sync", "-">>)

\* One SendCommand: the write...
Write(from, request, to) ==
  /\ Running /\ at = from /\ Len(air) < AirCap
  /\ Receives(request)
  /\ resp' = "none"
  /\ at' = to
  /\ UNCHANGED <<scanVars, chVars, expired, dev, linkVars, jobVars, warned, outcome, crashed>>

WriteCheck == Write("check", "check", "checking")
WriteRequest == Write("request", "request", "requesting")

\* ... which may fail.  In authorize that is a warning, and Init goes on.
AuthorizeFails ==
  /\ Running /\ at \in {"check", "request"}
  /\ at' = "act"
  /\ warned' = TRUE
  /\ UNCHANGED <<scanVars, chVars, expired, dev, linkVars, talkVars, jobVars, outcome, crashed>>

\* An authorize that takes any decoded answer for an authorization.
CheckedLoosely ==
  /\ Running /\ at = "checking"
  /\ at' = "act"
  /\ \/ resp # "none" /\ warned' = (warned \/ resp = "garbled")
     \/ resp = "none" /\ expired /\ warned' = TRUE
  /\ UNCHANGED <<scanVars, chVars, expired, dev, linkVars, talkVars, outcome, crashed, jobVars>>

\* ... and the answer or the deadline.  An answer that cannot be decoded, or that
\* reports an error status, is a warning.  Only NOT_AUTHORIZED leads to a request: any
\* other status ends authorize without a word, the ones that grant nothing too.
Checked ==
  /\ Running /\ at = "checking"
  /\ \/ /\ resp # "none"
        /\ at' = IF resp = "unauthorized" THEN "request" ELSE "act"
        /\ warned' = (warned \/ resp = "garbled")
     \/ expired /\ at' = "act" /\ warned' = TRUE
  /\ UNCHANGED <<scanVars, chVars, expired, dev, linkVars, talkVars, outcome, crashed, jobVars>>

\* "authorization denied by user", like every other error, is only a warning to Init.
Requested ==
  /\ Running /\ at = "requesting"
  /\ at' = "act"
  /\ \/ resp # "none" /\ warned' = (warned \/ resp # "granted")
     \/ expired /\ warned' = TRUE
  /\ UNCHANGED <<scanVars, chVars, expired, dev, linkVars, talkVars, outcome, crashed, jobVars>>

\* The command's own requests; SendCommandNoResponse waits for nothing.
WriteAction == command # "power-off" /\ Write("act", next, "acting")

PowerOff ==
  /\ Running /\ at = "act" /\ command = "power-off" /\ Len(air) < AirCap
  /\ Receives(next)
  /\ at' = "close"
  /\ outcome' = "ok"
  /\ UNCHANGED <<scanVars, chVars, expired, dev, linkVars, resp, jobVars, warned, crashed>>

\* A request of the command is over: its error ends the command, but for status,
\* which prints it, asks the next thing and returns errDone.
ActedSo(ok) ==
  IF next = "prepare" /\ (ok \/ command = "status")
  THEN at' = "act" /\ next' = "act" /\ UNCHANGED outcome
  ELSE at' = "close" /\ outcome' = (IF ok \/ command = "status" THEN "ok" ELSE "failed")
         /\ UNCHANGED next

\* A select without its ctx.Done() case.
ActedWhenAnswered ==
  /\ Running /\ at = "acting"
  /\ resp # "none" /\ ActedSo(TRUE)
  /\ UNCHANGED <<scanVars, chVars, expired, dev, linkVars, talkVars, command, listed, warned,
                 crashed>>

\* The answer, of which a control command reads nothing, the deadline, or a failed write.
Acted ==
  /\ Running
  /\ \/ at = "acting" /\ resp # "none" /\ ActedSo(TRUE)
     \/ at = "acting" /\ expired /\ ActedSo(FALSE)
     \/ at = "act" /\ ActedSo(FALSE)
  /\ UNCHANGED <<scanVars, chVars, expired, dev, linkVars, talkVars, command, listed, warned,
                 crashed>>

------------------------------------------------------------------------------
(* The notification handler, and the camera (external).                     *)

\* A send to the sync channel that waits for a reader, before the reply.
SyncBlocks ==
  /\ Running /\ air # <<>> /\ Head(air)[1] = "sync"
  /\ syncCh = "empty" /\ syncCh' = "full"
  /\ air' = Tail(air)
  /\ \/ cam' = [cam EXCEPT !.synced = TRUE] /\ UNCHANGED warned
     \/ warned' = TRUE /\ UNCHANGED cam
  /\ UNCHANGED <<scanVars, chVars, expired, at, dev, link, goFormat, subscribed, resp, outcome,
                 crashed, jobVars>>

\* A sync packet is answered from the handler; then, without blocking, passed on.
\* The reply arrives, its write fails, or the radio loses it.
HandleSync ==
  /\ Running /\ air # <<>> /\ Head(air)[1] = "sync"
  /\ air' = Tail(air)
  /\ syncCh' = IF syncCh = "empty" THEN "full" ELSE syncCh
  /\ \/ cam' = [cam EXCEPT !.synced = TRUE] /\ UNCHANGED warned
     \/ warned' \in {warned, TRUE} /\ UNCHANGED cam
  /\ UNCHANGED <<scanVars, chVars, expired, at, dev, link, goFormat, subscribed, resp, outcome,
                 crashed, jobVars>>

Waiting == CASE at = "checking" -> "check"
             [] at = "requesting" -> "request"
             [] at = "acting" -> next
             [] OTHER -> "none"

\* An answer goes to whichever call waits.
HandleAnyAnswer ==
  /\ Running /\ air # <<>> /\ Head(air)[1] # "sync"
  /\ air' = Tail(air)
  /\ resp' = Head(air)[2]
  /\ UNCHANGED <<scanVars, chVars, expired, at, dev, linkVars, cam, warned, outcome, crashed,
                 jobVars>>

\* An answer goes to its own call, if that still waits.
HandleAnswer ==
  /\ Running /\ air # <<>> /\ Head(air)[1] # "sync"
  /\ air' = Tail(air)
  /\ resp' = IF Head(air)[1] = Waiting THEN Head(air)[2] ELSE resp
  /\ UNCHANGED <<scanVars, chVars, expired, at, dev, linkVars, cam, warned, outcome, crashed,
                 jobVars>>

\* What a synced camera answers, or does not.
AnswersTo(request) ==
  {"garbled"} \cup
    CASE request = "check" -> {cam.auth}
      [] request = "request" -> {"granted", "denied"}
      [] OTHER -> {"done"}

CameraHandles ==
  /\ Running /\ link /\ cam.synced /\ cam.pending # "none" /\ Len(air) < AirCap
  /\ \E answer \in AnswersTo(cam.pending) :
       /\ Sent(<<cam.pending, answer>>)
       /\ cam' = [cam EXCEPT !.pending = "none",
                             !.auth = IF answer = "granted" THEN "authorized" ELSE @,
                             !.answered = @ \cup {cam.pending}]
  /\ UNCHANGED <<scanVars, chVars, expired, at, dev, linkVars, resp, warned, outcome, crashed,
                 jobVars>>

------------------------------------------------------------------------------
Scanning == Offer \/ OfferCancelled \/ ScanReturns \/ ReportError \/ CloseCh

Main ==
  \/ List \/ ListEnds \/ TakeDevice \/ TakeNil \/ GiveUp
  \/ Connect \/ Discover \/ Subscribe \/ SyncHandshake
  \/ WriteCheck \/ Checked \/ WriteRequest \/ Requested \/ AuthorizeFails
  \/ WriteAction \/ PowerOff \/ Acted \/ Close

Handler == HandleSync \/ HandleAnswer

Next ==
  \/ \E c \in Cameras, full \in BOOLEAN : Hear(c, full)
  \/ Scanning \/ Main \/ Handler \/ CameraHandles \/ Expire

Spec == Init /\ [][Next]_vars

\* The goroutines are scheduled and the deadline (--timeout, 30 s) passes; a call
\* into the Bluetooth stack returns.  Camera and radio promise nothing.
FairSpec ==
  Spec /\ WF_vars(Main) /\ WF_vars(Handler) /\ WF_vars(Expire)
       /\ WF_vars(ScanReturns \/ ReportError \/ CloseCh) /\ WF_vars(Offer \/ OfferCancelled)

------------------------------------------------------------------------------
(* What holds in every state, the parts of an inductive invariant.          *)

ScanInv ==
  /\ seen = named
  /\ errCh > 0 => scanner \in {"closing", "closed"}

FormatInv == ~ goFormat => cam.synced /\ cam.auth = "authorized"

\* A camera in state c has given this answer to this request: it held the host for
\* what it said unless it has granted the authorization since.
Vouched(c, request, answer) ==
  /\ c.synced /\ request \in c.answered
  /\ request = "check" => answer \in Statuses \cup {"garbled"}
  /\ answer \in Statuses => c.auth \in {answer, "authorized"}
  /\ answer = "granted" => c.auth = "authorized"

AirInv == \A i \in 1 .. Len(air) : air[i][1] # "sync" => Vouched(cam, air[i][1], air[i][2])

RespInv == resp # "none" /\ Waiting # "none" => Vouched(cam, Waiting, resp)

JobInv ==
  /\ at = "list" => command = "scan"
  /\ command = "photo" /\ next = "act" => "prepare" \in cam.answered

------------------------------------------------------------------------------
(* Properties.                                                              *)

\* An advertisement without a name, as the first ones are, does not hide the camera
\* behind it: once its name is heard it is handed over, unless the scan is over
\* (scan.go:23-31).
HeardIsOffered ==
  \A c \in named \ Unparsable : c \in offered \cup {cb} \/ expired \/ ~ Running

\* When Init comes to an end without a warning in the log, the camera is synced, and
\* one that held this host for not authorized has authorized it since: no late, lost or
\* unreadable answer and no refusal goes unsaid (device.go:141-149, 197-266).  A camera
\* that answers UNKNOWN, PENDING, DENIED or EXPIRED is left at that, without a warning.
SilentInitIsReady ==
  at \in {"act", "acting"} /\ ~ warned => cam.synced /\ cam.auth # "unauthorized"

\* A control command reported as carried out was answered by a synced camera, a
\* mode and a photo each for itself: no stale answer to the handshake or to the mode
\* is taken for the photo's (cmd_direct.go:37-42).
OkWasAnswered ==
  outcome = "ok" =>
    /\ command \in {"shutter", "photo"} => cam.synced /\ "act" \in cam.answered
    /\ command = "photo" => "prepare" \in cam.answered

IInv ==
  TypeOK /\ ScanInv /\ FormatInv /\ AirInv /\ RespInv /\ JobInv
    /\ HeardIsOffered /\ SilentInitIsReady /\ OkWasAnswered

\* The command line comes back, whatever camera and radio do (unless it panics).
RunReturns == <>(at = "returned" \/ ~ Running)

\* A sync packet is taken off the link even when the sync channel, which nothing
\* reads, is full (device.go:296-301).
SyncTaken ==
  air # <<>> /\ Head(air)[1] = "sync" ~> air = <<>> \/ Head(air)[1] # "sync" \/ ~ Running

\* What comes out of the channel of found devices is a device, and the callback is
\* over when the scan is (scan.go:14, iface.go:41-42).
ScanEndsCleanly == crashed = "no" /\ NoCam \notin listed
=============================================================================
