----------------------------- MODULE WifiStream -----------------------------
(***************************************************************************)
(* A preview stream over the camera's TCP protocol: Dial with the sync     *)
(* handshake, the keep-alive goroutine, Streamer.Start and its read loop,  *)
(* WriteVideoTo and Stop, as runStream of the command line drives them     *)
(* (pkg/wifi/conn.go, stream.go, command.go, cmd_stream.go).               *)
(*                                                                         *)
(* Two goroutines write to the socket (runStream and the keep-alive), each *)
(* packet in two writes; two read from it, one after the other (Start,     *)
(* then the read loop).  The camera (external) may answer or not, send     *)
(* what it likes once it is synced, and drop the connection.               *)
(***************************************************************************)
EXTENDS Naturals, Sequences

CONSTANTS
  VideoCap,     \* capacity of VideoCh (64)
  RespCap,      \* capacity of ResponseCh (16)
  Interval,     \* keepaliveInterval, in units of time
  MaxPackets,   \* bound: packets the camera sends
  InCap         \* bound: packets on their way to the host

ASSUME WifiStreamAssumption ==
  /\ VideoCap \in Nat \ {0} /\ RespCap \in Nat \ {0}
  /\ Interval \in Nat \ {0}
  /\ MaxPackets \in Nat /\ InCap \in Nat \ {0}

Writers == {"main", "ka"}
Types == {"sync", "ok", "refused", "video", "notify", "other", "bad"}
Readers == {"main", "loop"}
Packet == [type : Types, n : Nat]
None == [type |-> "none", n |-> 0]

VARIABLES
  main,         \* where runStream is
  ka,           \* keepAliveLoop: not started, waiting for its ticker, writing, ended
  loop,         \* readLoop: not started, at its top, in a read, with a packet, ended
  wr,           \* wr[w]: where writer w is in writePacket
  mu,           \* holder of Conn.mu
  half,         \* the writer whose length prefix is out and whose payload is not
  torn,         \* whether a prefix and its payload were separated by another packet
  idleFor,      \* time since lastSend, the start of the last writePacket
  tickIn,       \* time to the ticker's next tick; 0: a tick is due
  up,           \* whether the TCP connection works
  inbox,        \* packets from the camera the host has not read
  hand,         \* hand[r]: the packet reader r has read and not handled
  videoCh,      \* the packets in VideoCh, by their number
  replies,      \* how many packets sit in ResponseCh (nothing reads it)
  lastOut,      \* the last video packet written to the output
  cancelled,    \* whether the context is done: Ctrl+C, --duration, or return
  loopFailed,   \* whether the read loop ended on an error
  sent,         \* how many packets the camera has sent
  shot,         \* how many of them were video
  cam           \* the camera: new, synced, asked to stream, streaming

timeVars == <<idleFor, tickIn>>
sockVars == <<wr, mu, half, torn>>
camVars == <<inbox, sent, shot, cam>>
chVars == <<videoCh, replies>>
vars == <<main, ka, loop, sockVars, timeVars, up, camVars, hand, chVars, lastOut, cancelled,
          loopFailed>>

RunTypes ==
  /\ main \in {"dial", "sync", "echo", "start", "await", "awaitRead", "awaitHave", "stream",
               "stop", "returned"}
  /\ ka \in {"off", "on", "writing", "ended"}
  /\ loop \in {"off", "top", "reading", "have", "ended"}
  /\ cancelled \in BOOLEAN /\ loopFailed \in BOOLEAN

SocketTypes ==
  /\ wr \in [Writers -> {"idle", "lock", "header", "payload"}]
  /\ mu \in Writers \cup {"free"}
  /\ half \in Writers \cup {"none"}
  /\ torn \in BOOLEAN /\ up \in BOOLEAN
  /\ idleFor \in Nat
  /\ tickIn \in 0 .. Interval

PacketTypes ==
  /\ inbox \in Seq(Packet) /\ Len(inbox) <= InCap
  /\ hand \in [Readers -> Packet \cup {None}]
  /\ videoCh \in Seq(Nat) /\ Len(videoCh) <= VideoCap
  /\ replies \in 0 .. RespCap
  /\ sent \in 0 .. MaxPackets /\ shot \in 0 .. sent /\ lastOut \in 0 .. shot
  /\ cam \in {"new", "synced", "asked", "streaming"}

TypeOK == RunTypes /\ SocketTypes /\ PacketTypes

Init ==
  /\ main = "dial" /\ ka = "off" /\ loop = "off"
  /\ wr = [w \in Writers |-> "idle"] /\ mu = "free" /\ half = "none" /\ torn = FALSE
  /\ idleFor = 0 /\ tickIn = Interval
  /\ up = FALSE /\ inbox = <<>> /\ hand = [r \in Readers |-> None]
  /\ videoCh = <<>> /\ replies = 0 /\ lastOut = 0
  /\ cancelled = FALSE /\ loopFailed = FALSE
  /\ sent = 0 /\ shot = 0 /\ cam = "new"

\* Ctrl+C, or the end of --duration.
Cancel ==
  /\ ~ cancelled /\ cancelled' = TRUE
  /\ UNCHANGED <<main, ka, loop, sockVars, timeVars, up, camVars, hand, chVars, lastOut, loopFailed>>

------------------------------------------------------------------------------
(* writePacket, and what reaches the camera.                                *)

\* Two writes under no lock.
LockNot(w) ==
  /\ wr[w] = "lock"
  /\ wr' = [wr EXCEPT ![w] = "header"]
  /\ idleFor' = 0
  /\ UNCHANGED <<main, ka, loop, mu, half, torn, tickIn, up, camVars, hand, chVars, lastOut,
                 cancelled, loopFailed>>

\* c.mu.Lock() and lastSend.
Lock(w) ==
  /\ wr[w] = "lock" /\ mu = "free"
  /\ mu' = w
  /\ wr' = [wr EXCEPT ![w] = "header"]
  /\ idleFor' = 0
  /\ UNCHANGED <<main, ka, loop, half, torn, tickIn, up, camVars, hand, chVars, lastOut, cancelled,
                 loopFailed>>

\* The write of the length prefix.
Header(w) ==
  /\ wr[w] = "header" /\ up
  /\ wr' = [wr EXCEPT ![w] = "payload"]
  /\ torn' = (torn \/ half # "none")
  /\ half' = w
  /\ UNCHANGED <<main, ka, loop, mu, timeVars, up, camVars, hand, chVars, lastOut, cancelled,
                 loopFailed>>

\* writePacket has returned: writer w goes on, according to whether it succeeded.
Written(w, ok) ==
  /\ wr' = [wr EXCEPT ![w] = "idle"]
  /\ mu' = "free"
  /\ IF w = "ka"
     THEN ka' = (IF ok THEN "on" ELSE "ended") /\ UNCHANGED <<main, up, cancelled>>
     ELSE /\ UNCHANGED ka
          /\ main' = CASE ~ ok -> "returned"
                       [] main = "sync" -> "echo"
                       [] main = "start" -> "await"
                       [] main = "stop" -> "returned"
          /\ IF main' = "returned" THEN up' = FALSE /\ cancelled' = TRUE
                                   ELSE UNCHANGED <<up, cancelled>>

\* The camera takes note of a command (external).
Delivered(w) ==
  cam' = IF w = "main" /\ main = "sync" THEN "synced"
         ELSE IF w = "main" /\ main = "start" THEN "asked" ELSE cam

\* The write of the payload.
Payload(w) ==
  /\ wr[w] = "payload" /\ up
  /\ torn' = (torn \/ half # w)
  /\ half' = "none"
  /\ Written(w, TRUE)
  /\ Delivered(w)
  /\ UNCHANGED <<loop, timeVars, inbox, sent, shot, hand, chVars, lastOut, loopFailed>>

\* Either write fails.
WriteError(w) ==
  /\ wr[w] \in {"header", "payload"} /\ ~ up
  /\ Written(w, FALSE)
  /\ UNCHANGED <<loop, half, torn, timeVars, camVars, hand, chVars, lastOut, loopFailed>>

Write(w) == Lock(w) \/ Header(w) \/ Payload(w) \/ WriteError(w)

------------------------------------------------------------------------------
(* keepAliveLoop, and time.                                                 *)

\* A tick is handled before the next unit of time has passed, and so is a write.
TimePasses ==
  /\ ka = "on" /\ tickIn > 0
  /\ \A w \in Writers : wr[w] = "idle"
  /\ idleFor' = idleFor + 1
  /\ tickIn' = tickIn - 1
  /\ UNCHANGED <<main, ka, loop, sockVars, up, camVars, hand, chVars, lastOut, cancelled, loopFailed>>

\* A tick that only ever looks at the interval after its own.
TickLate ==
  /\ ka = "on" /\ tickIn = 0 /\ mu = "free"
  /\ tickIn' = Interval
  /\ IF idleFor > 2 * Interval
     THEN ka' = "writing" /\ wr' = [wr EXCEPT !["ka"] = "lock"]
     ELSE UNCHANGED <<ka, wr>>
  /\ UNCHANGED <<main, loop, mu, half, torn, idleFor, up, camVars, hand, chVars, lastOut, cancelled,
                 loopFailed>>

\* The ticker fires: lastSend is read under the mutex, and a keep-alive is due or not.
Tick ==
  /\ ka = "on" /\ tickIn = 0 /\ mu = "free"
  /\ tickIn' = Interval
  /\ IF idleFor >= Interval
     THEN ka' = "writing" /\ wr' = [wr EXCEPT !["ka"] = "lock"]
     ELSE UNCHANGED <<ka, wr>>
  /\ UNCHANGED <<main, loop, mu, half, torn, idleFor, up, camVars, hand, chVars, lastOut, cancelled,
                 loopFailed>>

\* ctx.Done(): the program's context, or Conn.Close's cancel.
KeepAliveEnds ==
  /\ ka = "on" /\ cancelled
  /\ ka' = "ended"
  /\ UNCHANGED <<main, loop, sockVars, timeVars, up, camVars, hand, chVars, lastOut, cancelled,
                 loopFailed>>

------------------------------------------------------------------------------
(* runStream: Dial and Start.                                               *)

\* Return, with the deferred Close (or Dial's own) and cancel.
Return == main' = "returned" /\ up' = FALSE /\ cancelled' = TRUE

\* The TCP connection.
Dial ==
  /\ main = "dial"
  /\ \/ main' = "sync" /\ up' = TRUE /\ wr' = [wr EXCEPT !["main"] = "lock"] /\ UNCHANGED cancelled
     \/ Return /\ UNCHANGED wr
  /\ UNCHANGED <<ka, loop, mu, half, torn, timeVars, camVars, hand, chVars, lastOut, loopFailed>>

\* The echo of the sync packet, and the start of the keep-alive goroutine.
Echo ==
  /\ main = "echo" /\ inbox # <<>> /\ Head(inbox).type = "sync"
  /\ inbox' = Tail(inbox)
  /\ main' = "start" /\ ka' = "on" /\ tickIn' = Interval
  /\ wr' = [wr EXCEPT !["main"] = "lock"]
  /\ UNCHANGED <<loop, mu, half, torn, idleFor, up, sent, shot, cam, hand, chVars, lastOut,
                 cancelled, loopFailed>>

\* Something else instead of the echo, a read error, or the 5 s deadline.
EchoFails ==
  /\ main = "echo"
  /\ Return
  /\ UNCHANGED <<ka, loop, sockVars, timeVars, camVars, hand, chVars, lastOut, loopFailed>>

\* The top of waitResponse's loop: the context, then the read.
AwaitTop ==
  /\ main = "await"
  /\ IF cancelled THEN Return ELSE main' = "awaitRead" /\ UNCHANGED <<up, cancelled>>
  /\ UNCHANGED <<ka, loop, sockVars, timeVars, camVars, hand, chVars, lastOut, loopFailed>>

AwaitReads ==
  /\ main = "awaitRead" /\ inbox # <<>> /\ Head(inbox).type # "bad"
  /\ hand' = [hand EXCEPT !["main"] = Head(inbox)]
  /\ inbox' = Tail(inbox)
  /\ main' = "awaitHave"
  /\ UNCHANGED <<ka, loop, sockVars, timeVars, up, sent, shot, cam, chVars, lastOut, cancelled,
                 loopFailed>>

\* The read fails, on the deadline at the latest: Start fails, and runStream with it.
AwaitFails ==
  /\ main = "awaitRead"
  /\ Return
  /\ UNCHANGED <<ka, loop, sockVars, timeVars, camVars, hand, chVars, lastOut, loopFailed>>

\* Queues without a limit.
DispatchUnbounded(p) ==
  /\ videoCh' = IF p.type = "video" THEN Append(videoCh, p.n) ELSE videoCh
  /\ replies' = IF p.type \in {"ok", "refused", "notify"} THEN replies + 1 ELSE replies

\* A dispatch that waits for room in VideoCh.
DispatchBlocking(p) ==
  IF p.type = "video"
  THEN Len(videoCh) < VideoCap /\ videoCh' = Append(videoCh, p.n) /\ UNCHANGED replies
  ELSE UNCHANGED <<videoCh, replies>>

\* dispatchStream, and the queueing of messages: every send gives way to a full channel.
Dispatch(p) ==
  /\ videoCh' = IF p.type = "video" /\ Len(videoCh) < VideoCap THEN Append(videoCh, p.n) ELSE videoCh
  /\ replies' = IF p.type \in {"ok", "refused", "notify"} /\ replies < RespCap
                THEN replies + 1 ELSE replies

\* A Start that runs the read loop while it still waits for the response.
AwaitWithLoop ==
  /\ main = "awaitHave"
  /\ hand' = [hand EXCEPT !["main"] = None]
  /\ loop' = IF loop = "off" THEN "top" ELSE loop
  /\ CASE hand["main"].type = "ok" -> main' = "stream" /\ UNCHANGED <<chVars, up, cancelled>>
       [] hand["main"].type = "refused" -> Return /\ UNCHANGED chVars
       [] OTHER -> main' = "await" /\ Dispatch(hand["main"]) /\ UNCHANGED <<up, cancelled>>
  /\ UNCHANGED <<ka, sockVars, timeVars, camVars, lastOut, loopFailed>>

\* The response ends the wait, and the read loop starts; anything else is dispatched.
AwaitHandles ==
  /\ main = "awaitHave"
  /\ hand' = [hand EXCEPT !["main"] = None]
  /\ CASE hand["main"].type = "ok" ->
            main' = "stream" /\ loop' = "top" /\ UNCHANGED <<chVars, up, cancelled>>
       [] hand["main"].type = "refused" -> Return /\ UNCHANGED <<chVars, loop>>
       [] OTHER -> main' = "await" /\ Dispatch(hand["main"]) /\ UNCHANGED <<up, cancelled, loop>>
  /\ UNCHANGED <<ka, sockVars, timeVars, camVars, lastOut, loopFailed>>

------------------------------------------------------------------------------
(* readLoop.                                                                *)

LoopTop ==
  /\ loop = "top"
  /\ loop' = IF cancelled THEN "ended" ELSE "reading"
  /\ UNCHANGED <<main, ka, sockVars, timeVars, up, camVars, hand, chVars, lastOut, cancelled,
                 loopFailed>>

LoopReads ==
  /\ loop = "reading" /\ inbox # <<>> /\ Head(inbox).type # "bad"
  /\ hand' = [hand EXCEPT !["loop"] = Head(inbox)]
  /\ inbox' = Tail(inbox)
  /\ loop' = "have"
  /\ UNCHANGED <<main, ka, sockVars, timeVars, up, sent, shot, cam, chVars, lastOut, cancelled,
                 loopFailed>>

LoopHandles ==
  /\ loop = "have"
  /\ Dispatch(hand["loop"])
  /\ hand' = [hand EXCEPT !["loop"] = None]
  /\ loop' = "top"
  /\ UNCHANGED <<main, ka, sockVars, timeVars, up, camVars, lastOut, cancelled, loopFailed>>

\* A read error, or an invalid length: the loop ends and tells nobody.
LoopFails ==
  /\ loop = "reading"
  /\ ~ up \/ (inbox # <<>> /\ Head(inbox).type = "bad")
  /\ loop' = "ended"
  /\ loopFailed' = ~ cancelled
  /\ UNCHANGED <<main, ka, sockVars, timeVars, up, camVars, hand, chVars, lastOut, cancelled>>

------------------------------------------------------------------------------
(* WriteVideoTo and Stop.                                                   *)

\* select: a packet goes to the output, whose write may fail.
WriteVideo ==
  /\ main = "stream" /\ videoCh # <<>>
  /\ videoCh' = Tail(videoCh)
  /\ \/ lastOut' = Head(videoCh) /\ UNCHANGED <<main, wr>>
     \/ main' = "stop" /\ wr' = [wr EXCEPT !["main"] = "lock"] /\ UNCHANGED lastOut
  /\ UNCHANGED <<ka, loop, mu, half, torn, timeVars, up, camVars, hand, replies, cancelled,
                 loopFailed>>

\* A WriteVideoTo that watches VideoCh only.
VideoNeverDone == FALSE /\ UNCHANGED vars

\* select: ctx.Done(); runStream goes on to Stop.
VideoDone ==
  /\ main = "stream" /\ cancelled
  /\ main' = "stop"
  /\ wr' = [wr EXCEPT !["main"] = "lock"]
  /\ UNCHANGED <<ka, loop, mu, half, torn, timeVars, up, camVars, hand, chVars, lastOut, cancelled,
                 loopFailed>>

------------------------------------------------------------------------------
(* The camera and the network (external).                                   *)

\* The camera echoes the sync, answers START, and sends what it pleases.
CameraSends(t) ==
  /\ up /\ sent < MaxPackets /\ Len(inbox) < InCap
  /\ t = "ok" => cam = "asked"
  /\ t = "video" => cam \in {"asked", "streaming"}
  /\ t \in {"refused"} => cam = "asked"
  /\ cam # "new"
  /\ cam' = CASE t = "ok" -> "streaming" [] t = "refused" -> "synced" [] OTHER -> cam
  /\ sent' = sent + 1
  /\ shot' = IF t = "video" THEN shot + 1 ELSE shot
  /\ inbox' = Append(inbox, [type |-> t, n |-> IF t = "video" THEN shot + 1 ELSE 0])
  /\ UNCHANGED <<main, ka, loop, sockVars, timeVars, up, hand, chVars, lastOut, cancelled, loopFailed>>

\* The connection breaks.
Breaks ==
  /\ up /\ up' = FALSE
  /\ UNCHANGED <<main, ka, loop, sockVars, timeVars, camVars, hand, chVars, lastOut, cancelled,
                 loopFailed>>

------------------------------------------------------------------------------
Main ==
  \/ Dial \/ Echo \/ EchoFails \/ AwaitTop \/ AwaitReads \/ AwaitFails \/ AwaitHandles
  \/ WriteVideo \/ VideoDone

ReadLoop == LoopTop \/ LoopReads \/ LoopHandles \/ LoopFails

KeepAlive == Tick \/ KeepAliveEnds

Next ==
  \/ Main \/ ReadLoop \/ KeepAlive \/ Cancel \/ TimePasses \/ Breaks
  \/ \E w \in Writers : Write(w)
  \/ \E t \in Types : CameraSends(t)

Spec == Init /\ [][Next]_vars

\* Goroutines are scheduled, reads of the handshake end by their deadline, a select
\* whose ctx.Done() is ready is not starved, and time passes.  Nobody promises
\* Ctrl+C, the camera's packets, or a break.
FairSpec ==
  /\ Spec
  /\ WF_vars(Main) /\ SF_vars(VideoDone) /\ WF_vars(ReadLoop) /\ WF_vars(KeepAlive)
  /\ WF_vars(TimePasses)
  /\ \A w \in Writers : WF_vars(Write(w))

------------------------------------------------------------------------------
(* What holds in every state, the parts of an inductive invariant.          *)

\* Who is in writePacket has the mutex, and a working connection waits for the
\* payload of him who has it.
MutexInv ==
  /\ \A w \in Writers : mu = w <=> wr[w] \in {"header", "payload"}
  /\ up => \A w \in Writers : half = w <=> wr[w] = "payload"
  /\ main = "dial" => half = "none" /\ \A w \in Writers : wr[w] = "idle"
  /\ ~ torn

\* What is left to the next tick is at most what is left of two intervals.
TimeInv ==
  /\ main \in {"dial", "sync", "echo"} => ka = "off"
  /\ ka = "off" => idleFor = 0
  /\ ka = "writing" <=> wr["ka"] # "idle"
  /\ ka = "on" => idleFor + tickIn < 2 * Interval
  /\ ka = "writing" => idleFor < 2 * Interval
  /\ wr["ka"] \in {"header", "payload"} => idleFor = 0

\* One reader at a time has the socket.
ReaderInv ==
  /\ hand["main"] # None => main = "awaitHave"
  /\ hand["loop"] # None => loop = "have"
  /\ main \in {"dial", "sync", "echo", "start", "await", "awaitRead", "awaitHave"} => loop = "off"
  /\ wr["main"] # "idle" <=> main \in {"sync", "start", "stop"}

\* Video lies in order from the output back to the network.
OrderInv ==
  /\ \A k \in 1 .. Len(videoCh) : lastOut < videoCh[k] /\ videoCh[k] <= shot
  /\ \A k, l \in 1 .. Len(videoCh) : k < l => videoCh[k] < videoCh[l]
  /\ \A r \in Readers : hand[r].type = "video" =>
       /\ lastOut < hand[r].n /\ hand[r].n <= shot
       /\ \A k \in 1 .. Len(videoCh) : videoCh[k] < hand[r].n
  /\ \A i \in 1 .. Len(inbox) : inbox[i].type = "video" =>
       /\ lastOut < inbox[i].n /\ inbox[i].n <= shot
       /\ \A k \in 1 .. Len(videoCh) : videoCh[k] < inbox[i].n
       /\ \A r \in Readers : hand[r].type = "video" => hand[r].n < inbox[i].n
  /\ \A i, j \in 1 .. Len(inbox) :
       i < j /\ inbox[i].type = "video" /\ inbox[j].type = "video" => inbox[i].n < inbox[j].n

IInv == TypeOK /\ MutexInv /\ TimeInv /\ ReaderInv /\ OrderInv

------------------------------------------------------------------------------
(* Properties.                                                              *)

\* On the wire every length prefix is followed by its own payload, whichever of the
\* two writers gets in (conn.go:113-122).
WholePackets == ~ torn

\* While the keep-alive goroutine lives, less than two of its intervals pass without
\* a packet to the camera, which gives up after five (protocol.md:302-304): a tick
\* that finds a recent send leaves the next one to the following tick.
KeptAlive == ka \in {"on", "writing"} => idleFor < 2 * Interval

\* Video is written out in the order the camera took it, however many packets a full
\* channel dropped (stream.go:235-240).
VideoInOrder ==
  /\ \A i, j \in 1 .. Len(videoCh) : i < j => videoCh[i] < videoCh[j]
  /\ \A i \in 1 .. Len(videoCh) : lastOut < videoCh[i]

\* A cancelled run comes back: nothing it waits for outlasts the context by more than
\* a deadline.
CancelReturns == cancelled ~> main = "returned"

\* Neither goroutine outlives the connection: the keep-alive is cancelled, and the
\* close ends the read.
NoOrphans == main = "returned" ~> ka \in {"off", "ended"} /\ loop \in {"off", "ended"}

\* WriteVideoTo blocks until the context is cancelled or an error occurs
\* (stream.go:257): an error of the read loop ends it.
ErrorEndsStream == loopFailed ~> main # "stream"
=============================================================================
