----------------------------- MODULE HciAdapter -----------------------------
(***************************************************************************)
(* The adapter over raw HCI sockets (pkg/ble/hci.go): Scan in a goroutine  *)
(* of its own, the callbacks that the Bluetooth stack's goroutine runs one *)
(* at a time, and a goroutine that connects, disconnects and connects      *)
(* again.  They meet in the map of peripherals, which no mutex guards, in  *)
(* the channel of connection events and in Scan's channel of errors.       *)
(*                                                                         *)
(* Of the stack (external) this is assumed: each device.Connect is in time *)
(* answered by at most one PeripheralConnected, be it after Connect gave   *)
(* up, and no PeripheralConnected comes unasked.                           *)
(***************************************************************************)
EXTENDS Naturals, Sequences

CONSTANTS
  Periphs,   \* peripherals in range, that is their addresses
  Rounds,    \* bound: calls of Connect
  Reports,   \* bound: state changes the stack reports
  Nobody     \* no peripheral

ASSUME HciAssumption ==
  /\ Rounds \in Nat /\ Reports \in Nat
  /\ Nobody \notin Periphs

VARIABLES
  scan,          \* where Scan is
  scanDone,      \* the context given to Scan is done
  errCh,         \* how many errors wait in Scan's channel, which holds one
  reports,       \* state changes reported so far
  scanning,      \* advertisements reach PeripheralDiscovered
  callback,      \* what the stack's goroutine is running
  subject,       \* the peripheral its callback is about
  worked,        \* whether the connection it tells of came about
  peripherals,   \* the keys of the map of peripherals
  connectedCh,   \* the channel of connection events, which holds one
  pending,       \* per peripheral: device.Connect calls not answered yet
  linked,        \* peripherals connected
  at,            \* where Connect is
  asked,         \* the address it was given
  expired,       \* its context is done
  round,         \* Connect calls begun
  outcome,       \* the event the last Connect returned, if any
  gaveUp,        \* history: some Connect returned before its event came
  dropped,       \* history: a connection event found the channel full
  raced          \* the runtime found the map read while it was written, and ended the program

scanVars == <<scan, scanDone, errCh, reports, scanning>>
stackVars == <<callback, subject, worked>>
sharedVars == <<peripherals, connectedCh>>
radioVars == <<pending, linked>>
callVars == <<at, asked, expired, round, outcome>>
histVars == <<gaveUp, dropped, raced>>
vars == <<scanVars, stackVars, sharedVars, radioVars, callVars, histVars>>

Event == [periph : Periphs, ok : BOOLEAN]
None == [periph |-> Nobody, ok |-> FALSE]

TypeOK ==
  /\ scan \in {"starting", "waiting", "returned"}
  /\ scanDone \in BOOLEAN
  /\ errCh \in 0 .. 1
  /\ reports \in 0 .. Reports
  /\ scanning \in BOOLEAN
  /\ callback \in {"none", "discovered", "connected", "telling", "reporting"}
  /\ subject \in Periphs \cup {Nobody}
  /\ worked \in BOOLEAN
  /\ callback \in {"discovered", "connected", "telling"} => subject \in Periphs
  /\ peripherals \subseteq Periphs
  /\ connectedCh \in Seq(Event) /\ Len(connectedCh) <= 1
  /\ pending \in [Periphs -> Nat]
  /\ linked \subseteq Periphs
  /\ at \in {"idle", "looking", "asking", "waiting"}
  /\ asked \in Periphs \cup {Nobody}
  /\ at # "idle" => asked \in Periphs
  /\ expired \in BOOLEAN
  /\ round \in 0 .. Rounds
  /\ outcome \in Event \cup {None}
  /\ gaveUp \in BOOLEAN /\ dropped \in BOOLEAN /\ raced \in BOOLEAN

Init ==
  /\ scan = "starting" /\ scanDone = FALSE /\ errCh = 0 /\ reports = 0 /\ scanning = FALSE
  /\ callback = "none" /\ subject = Nobody /\ worked = FALSE
  /\ peripherals = {} /\ connectedCh = <<>>
  /\ pending = [p \in Periphs |-> 0] /\ linked = {}
  /\ at = "idle" /\ asked = Nobody /\ expired = FALSE /\ round = 0 /\ outcome = None
  /\ gaveUp = FALSE /\ dropped = FALSE /\ raced = FALSE

------------------------------------------------------------------------------
(* Scan.                                                                    *)

\* The callbacks are registered and the device is started, or that fails.
Start ==
  /\ scan = "starting"
  /\ scan' \in {"waiting", "returned"}
  /\ UNCHANGED <<scanDone, errCh, reports, scanning, stackVars, sharedVars, radioVars, callVars,
                 histVars>>

\* select: ctx.Done() or an error.  The radio goes on scanning.
ScanReturns ==
  /\ scan = "waiting"
  /\ \/ scanDone /\ UNCHANGED errCh
     \/ errCh > 0 /\ errCh' = errCh - 1
  /\ scan' = "returned"
  /\ UNCHANGED <<scanDone, reports, scanning, stackVars, sharedVars, radioVars, callVars, histVars>>

ScanExpires ==
  /\ ~ scanDone /\ scanDone' = TRUE
  /\ UNCHANGED <<scan, errCh, reports, scanning, stackVars, sharedVars, radioVars, callVars,
                 histVars>>

------------------------------------------------------------------------------
(* The callbacks, which the stack runs one after the other.                 *)

Calls(name, p, ok) ==
  /\ ~ raced /\ scan # "starting" /\ callback = "none"
  /\ callback' = name /\ subject' = p /\ worked' = ok

Done == callback' = "none" /\ subject' = Nobody /\ worked' = FALSE

\* The state changes: powered on, the scan is begun; if that fails, or in any
\* other state, an error is for Scan.
StateChanged ==
  /\ reports < Reports /\ reports' = reports + 1
  /\ \/ /\ ~ raced /\ scan # "starting" /\ callback = "none"
        /\ scanning' = TRUE
        /\ UNCHANGED stackVars
     \/ Calls("reporting", Nobody, FALSE) /\ UNCHANGED scanning
  /\ UNCHANGED <<scan, scanDone, errCh, sharedVars, radioVars, callVars, histVars>>

\* errCh <- err, which waits while the channel is full.
Report ==
  /\ callback = "reporting" /\ errCh = 0
  /\ errCh' = 1
  /\ Done
  /\ UNCHANGED <<scan, scanDone, reports, scanning, sharedVars, radioVars, callVars, histVars>>

\* PeripheralDiscovered: the write to the map takes its time; then Scan's caller is told.
Discovered(p) ==
  /\ scanning /\ Calls("discovered", p, FALSE)
  /\ UNCHANGED <<scanVars, sharedVars, radioVars, callVars, histVars>>

DiscoveredWrites ==
  /\ callback = "discovered"
  /\ peripherals' = peripherals \cup {subject}
  /\ Done
  /\ UNCHANGED <<scanVars, connectedCh, radioVars, callVars, histVars>>

\* PeripheralConnected: the same write...
Connected(p, ok) ==
  /\ pending[p] > 0
  /\ Calls("connected", p, ok)
  /\ pending' = [pending EXCEPT ![p] = @ - 1]
  /\ linked' = IF ok THEN linked \cup {p} ELSE linked
  /\ UNCHANGED <<scanVars, sharedVars, callVars, histVars>>

ConnectedWrites ==
  /\ callback = "connected"
  /\ peripherals' = peripherals \cup {subject}
  /\ callback' = "telling"
  /\ UNCHANGED <<scanVars, subject, worked, connectedCh, radioVars, callVars, histVars>>

\* A callback that waits for room in the channel.
ConnectedWaits ==
  /\ callback = "telling" /\ connectedCh = <<>>
  /\ connectedCh' = <<[periph |-> subject, ok |-> worked]>>
  /\ Done
  /\ UNCHANGED <<scanVars, peripherals, radioVars, callVars, histVars>>

\* A channel that keeps every event.
ConnectedQueues ==
  /\ callback = "telling"
  /\ connectedCh' = Append(connectedCh, [periph |-> subject, ok |-> worked])
  /\ Done
  /\ UNCHANGED <<scanVars, peripherals, radioVars, callVars, histVars>>

\* ... and an event for Connect, unless the channel is full.
ConnectedTells ==
  /\ callback = "telling"
  /\ IF connectedCh = <<>>
     THEN connectedCh' = <<[periph |-> subject, ok |-> worked]>> /\ UNCHANGED dropped
     ELSE dropped' = TRUE /\ UNCHANGED connectedCh
  /\ Done
  /\ UNCHANGED <<scanVars, peripherals, radioVars, callVars, gaveUp, raced>>

\* A PeripheralDisconnected that tells Connect.
DisconnectedTells(p) ==
  /\ p \in linked /\ ~ raced /\ callback = "none"
  /\ linked' = linked \ {p}
  /\ connectedCh' = IF connectedCh = <<>> THEN <<[periph |-> p, ok |-> FALSE]>> ELSE connectedCh
  /\ UNCHANGED <<scanVars, stackVars, peripherals, pending, callVars, histVars>>

\* The link goes down, lost or taken down by Disconnect: PeripheralDisconnected only logs.
Disconnected(p) ==
  /\ p \in linked /\ ~ raced /\ callback = "none"
  /\ linked' = linked \ {p}
  /\ UNCHANGED <<scanVars, stackVars, sharedVars, pending, callVars, histVars>>

------------------------------------------------------------------------------
(* Connect.                                                                 *)

Connect(p) ==
  /\ ~ raced /\ at = "idle" /\ round < Rounds
  /\ at' = "looking" /\ asked' = p /\ expired' = FALSE /\ round' = round + 1 /\ outcome' = None
  /\ UNCHANGED <<scanVars, stackVars, sharedVars, radioVars, histVars>>

Writing == callback \in {"discovered", "connected"}

\* The map is read.  While it is written, any part of it may be seen, or the
\* runtime ends the program.
Visible == IF Writing THEN SUBSET (peripherals \cup {subject}) ELSE {peripherals}

LookUp ==
  /\ ~ raced /\ at = "looking"
  /\ \/ /\ \E keys \in Visible : at' = IF asked \in keys THEN "asking" ELSE "idle"
        /\ UNCHANGED raced
     \/ Writing /\ raced' = TRUE /\ UNCHANGED at
  /\ UNCHANGED <<scanVars, stackVars, sharedVars, radioVars, asked, expired, round, outcome,
                 gaveUp, dropped>>

\* device.Connect only asks.
Ask ==
  /\ ~ raced /\ at = "asking"
  /\ at' = "waiting"
  /\ pending' = [pending EXCEPT ![asked] = @ + 1]
  /\ UNCHANGED <<scanVars, stackVars, sharedVars, linked, asked, expired, round, outcome, histVars>>

\* select: an event, whosever it is...
TakeEvent ==
  /\ ~ raced /\ at = "waiting" /\ connectedCh # <<>>
  /\ outcome' = Head(connectedCh)
  /\ connectedCh' = Tail(connectedCh)
  /\ at' = "idle"
  /\ UNCHANGED <<scanVars, stackVars, peripherals, radioVars, asked, expired, round, histVars>>

\* ... or ctx.Done(): the event is left to come.
GiveUp ==
  /\ ~ raced /\ at = "waiting" /\ expired
  /\ at' = "idle" /\ gaveUp' = TRUE
  /\ UNCHANGED <<scanVars, stackVars, sharedVars, radioVars, asked, expired, round, outcome,
                 dropped, raced>>

Expire ==
  /\ at # "idle" /\ ~ expired
  /\ expired' = TRUE
  /\ UNCHANGED <<scanVars, stackVars, sharedVars, radioVars, at, asked, round, outcome, histVars>>

------------------------------------------------------------------------------
Scan == Start \/ ScanReturns
Callback == Report \/ DiscoveredWrites \/ ConnectedWrites \/ ConnectedTells
Caller == LookUp \/ Ask \/ TakeEvent \/ GiveUp

Next ==
  \/ Scan \/ ScanExpires
  \/ StateChanged \/ Callback
  \/ \E p \in Periphs : Discovered(p) \/ Disconnected(p) \/ Connect(p)
  \/ \E p \in Periphs, ok \in BOOLEAN : Connected(p, ok)
  \/ Caller \/ Expire

Spec == Init /\ [][Next]_vars

\* Goroutines are scheduled and deadlines pass.  The stack need not answer.
FairSpec ==
  Spec /\ WF_vars(Scan) /\ WF_vars(Callback) /\ WF_vars(Caller) /\ WF_vars(Expire)

------------------------------------------------------------------------------
(* Properties.                                                              *)

\* What Connect returns is the outcome of the connection it asked for, as long as
\* every Connect before it waited for its own: until one gives up, no event is
\* left in the channel and none is dropped (hci.go:76, 119-130; iface.go:48).
OwnConnection ==
  ~ gaveUp =>
    /\ ~ dropped
    /\ at = "idle" => outcome.periph \in {asked, Nobody}

\* The events on their way, while no Connect has given up.
InFlight ==
  ~ gaveUp =>
    LET unanswered == pending = [p \in Periphs |-> IF p = asked THEN 1 ELSE 0]
        answered == pending = [p \in Periphs |-> 0]
        telling == callback \in {"connected", "telling"}
    IN  \/ at # "waiting" /\ answered /\ ~ telling /\ connectedCh = <<>>
        \/ at = "waiting" /\ unanswered /\ ~ telling /\ connectedCh = <<>>
        \/ at = "waiting" /\ answered /\ telling /\ subject = asked /\ connectedCh = <<>>
        \/ /\ at = "waiting" /\ answered /\ ~ telling
           /\ Len(connectedCh) = 1 /\ connectedCh[1].periph = asked

\* The inductive invariant.
IInv == TypeOK /\ InFlight /\ OwnConnection /\ (at # "idle" => outcome = None)

\* Connect returns, and the stack's goroutine gets out of a connection callback,
\* whatever earlier calls have left in the channel (unless the program is ended).
ConnectReturns ==
  /\ at # "idle" ~> at = "idle" \/ raced
  /\ callback \in {"connected", "telling"} ~> callback \notin {"connected", "telling"}
=============================================================================
