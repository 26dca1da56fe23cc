------------------------------- MODULE Remote -------------------------------
(***************************************************************************)
(* The GPS remote (pkg/remote): a Server whose mutex guards whether it     *)
(* runs and which camera has subscribed, called by any goroutine, with the *)
(* subscription handler run in goroutines of the Bluetooth stack; and the  *)
(* command line's use of it, runOnRemote over NewHCIAdapter.               *)
(*                                                                         *)
(* The camera connects to what is advertised, subscribes, unsubscribes and *)
(* leaves when it likes.  Of the stack (external) this is assumed: a call  *)
(* into it returns, each subscription gets a notifier of its own, and its  *)
(* handler runs in a new goroutine, so that handlers may overtake another. *)
(***************************************************************************)
EXTENDS Naturals

CONSTANTS
  Main,     \* the goroutine that runs runOnRemote
  Others,   \* other goroutines that call the server; the command line has none
  Subs,     \* subscriptions the camera makes, each with a notifier of its own
  Rounds,   \* bound: calls each of the others makes
  NoOne,    \* nobody holds the mutex
  NoSub     \* nil in place of a notifier

Callers == {Main} \cup Others

ASSUME RemoteAssumption ==
  /\ Main \notin Others
  /\ Callers \cap Subs = {}
  /\ NoOne \notin Callers \cup Subs
  /\ NoSub \notin Subs
  /\ Rounds \in Nat

VARIABLES
  mu,           \* who holds Server.mu
  running,      \* Server.running
  notifier,     \* Server.notifier
  pc,           \* per goroutine: where in a method of the server it is
  held,         \* per goroutine: SendCommand's n
  result,       \* what the last call of runOnRemote returned
  round,        \* per goroutine: calls begun
  script,       \* where runOnRemote is
  command,      \* runOnRemote's action sends a command, rather than waiting for Ctrl+C
  expired,      \* the context of runOnRemote is done
  services,     \* the services are registered with the stack
  onAir,        \* what the device advertises
  linked,       \* the camera is connected
  sub,          \* per subscription: none yet, or how far its handler is
  live,         \* subscriptions whose notifier is not Done()
  current,      \* history, per goroutine: the notifiers stored since its call began
  got,          \* history: the notifier that the command of runOnRemote was written to
  setups,       \* history: times Start went on to set the services up
  stops         \* history: times Stop has marked the server as stopped

serverVars == <<mu, running, notifier>>
callVars == <<pc, held, current, result>>
mainVars == <<script, command, expired>>
stackVars == <<services, onAir, linked, sub, live>>
histVars == <<got, setups, stops>>
vars == <<serverVars, callVars, round, mainVars, stackVars, histVars>>

Operations == {"start", "advertise", "wake", "send", "stop"}
Locking == {"start", "send", "stop"}
Inside == {"checking", "marking", "reading", "unmarking", "forgetting"}
Outside == {"setup", "check", "write", "silence"}

TypeOK ==
  /\ mu \in Callers \cup Subs \cup {NoOne}
  /\ running \in BOOLEAN
  /\ notifier \in Subs \cup {NoSub}
  /\ pc \in [Callers -> {"idle"} \cup Operations \cup Inside \cup Outside]
  /\ held \in [Callers -> Subs \cup {NoSub}]
  /\ result \in {"none", "ok", "error"}
  /\ round \in [Callers -> 0 .. Rounds]
  /\ script \in {"open", "reset", "reopen", "start", "starting", "advertise", "advertising",
                 "act", "acting", "waiting", "ok", "failed"}
  /\ command \in BOOLEAN /\ expired \in BOOLEAN
  /\ services \in BOOLEAN
  /\ onAir \in {"nothing", "remote", "beacon"}
  /\ linked \in BOOLEAN
  /\ sub \in [Subs -> {"none", "called", "storing", "done"}]
  /\ live \subseteq Subs
  /\ current \in [Callers -> SUBSET (Subs \cup {NoSub})]
  /\ got \in Subs \cup {NoSub}
  /\ setups \in Nat /\ stops \in Nat

Init ==
  /\ mu = NoOne /\ running = FALSE /\ notifier = NoSub
  /\ pc = [c \in Callers |-> "idle"]
  /\ held = [c \in Callers |-> NoSub]
  /\ result = "none"
  /\ round = [c \in Callers |-> 0]
  /\ script = "open" /\ command \in BOOLEAN /\ expired = FALSE
  /\ services = FALSE /\ onAir = "nothing" /\ linked = FALSE
  /\ sub = [n \in Subs |-> "none"] /\ live = {}
  /\ current = [c \in Callers |-> {}]
  /\ got = NoSub
  /\ setups = 0 /\ stops = 0

------------------------------------------------------------------------------
(* The methods of the server.                                               *)

\* A call begins.  current collects what a command sent by it may go to.
Begin(c, op) ==
  /\ pc[c] = "idle"
  /\ pc' = [pc EXCEPT ![c] = op]
  /\ current' = [current EXCEPT ![c] = IF op = "send" THEN {notifier} ELSE {}]
  /\ UNCHANGED <<held, result>>

Proceed(c, to) ==
  /\ pc' = [pc EXCEPT ![c] = to]
  /\ UNCHANGED <<held, current, result>>

Return(c, r) ==
  /\ pc' = [pc EXCEPT ![c] = "idle"]
  /\ held' = [held EXCEPT ![c] = NoSub]
  /\ current' = [current EXCEPT ![c] = {}]
  /\ result' = IF c = Main THEN r ELSE result

\* s.mu.Lock().
Lock(c) ==
  /\ pc[c] \in Locking /\ mu = NoOne
  /\ mu' = c
  /\ Proceed(c, CASE pc[c] = "start" -> "checking"
                  [] pc[c] = "send" -> "reading"
                  [] pc[c] = "stop" -> "unmarking")
  /\ UNCHANGED <<running, notifier, round, mainVars, stackVars, histVars>>

\* A Start that refuses without unlocking.
RefuseLocked(c) ==
  /\ pc[c] = "checking"
  /\ IF running THEN Return(c, "error") ELSE Proceed(c, "marking")
  /\ UNCHANGED <<serverVars, round, mainVars, stackVars, histVars>>

\* A Start that unlocks between its check and the mark.
CheckAlone(c) ==
  /\ pc[c] = "checking"
  /\ IF running THEN Return(c, "error") ELSE Proceed(c, "marking")
  /\ mu' = NoOne
  /\ UNCHANGED <<running, notifier, round, mainVars, stackVars, histVars>>

\* Start: a server that runs already is refused.
StartChecks(c) ==
  /\ pc[c] = "checking"
  /\ IF running
     THEN Return(c, "error") /\ mu' = NoOne
     ELSE Proceed(c, "marking") /\ UNCHANGED mu
  /\ UNCHANGED <<running, notifier, round, mainVars, stackVars, histVars>>

StartMarks(c) ==
  /\ pc[c] = "marking"
  /\ running' = TRUE
  /\ mu' = NoOne
  /\ Proceed(c, "setup")
  /\ setups' = setups + 1
  /\ UNCHANGED <<notifier, round, mainVars, stackVars, got, stops>>

\* setupServices, outside the lock.  When it fails the server stays marked as running.
SetupServices(c) ==
  /\ pc[c] = "setup"
  /\ \/ services' = TRUE /\ Return(c, "ok")
     \/ Return(c, "error") /\ UNCHANGED services
  /\ UNCHANGED <<serverVars, round, mainVars, onAir, linked, sub, live, histVars>>

\* Advertise and WakeOnBLE hand the device a packet to send instead of the last one.
Advertises(c, op, what) ==
  /\ pc[c] = op
  /\ \/ onAir' = what /\ Return(c, "ok")
     \/ Return(c, "error") /\ UNCHANGED onAir
  /\ UNCHANGED <<serverVars, round, mainVars, services, linked, sub, live, histVars>>

Advertise(c) == Advertises(c, "advertise", "remote")
WakeOnBLE(c) == Advertises(c, "wake", "beacon")

\* SendCommand takes the notifier and unlocks; what follows is outside the lock.
TakeNotifier(c) ==
  /\ pc[c] = "reading"
  /\ held' = [held EXCEPT ![c] = notifier]
  /\ mu' = NoOne
  /\ pc' = [pc EXCEPT ![c] = "check"]
  /\ UNCHANGED <<running, notifier, current, result, round, mainVars, stackVars, histVars>>

\* A SendCommand that takes the lack of a camera for success.
CheckLoosely(c) ==
  /\ pc[c] = "check"
  /\ IF held[c] \in live
     THEN Proceed(c, "write")
     ELSE Return(c, IF held[c] = NoSub THEN "ok" ELSE "error")
  /\ UNCHANGED <<serverVars, round, mainVars, stackVars, histVars>>

\* A SendCommand that calls Done() on a nil notifier, which panics.
CheckDoneOnly(c) ==
  /\ pc[c] = "check"
  /\ CASE held[c] \in live -> Proceed(c, "write")
       [] held[c] = NoSub -> Proceed(c, "panicked")
       [] OTHER -> Return(c, "error")
  /\ UNCHANGED <<serverVars, round, mainVars, stackVars, histVars>>

\* n == nil: no camera connected.  n.Done(): camera disconnected.
CheckNotifier(c) ==
  /\ pc[c] = "check"
  /\ IF held[c] \in live THEN Proceed(c, "write") ELSE Return(c, "error")
  /\ UNCHANGED <<serverVars, round, mainVars, stackVars, histVars>>

\* n.Write; by now the camera may have left.
WriteCommand(c) ==
  /\ pc[c] = "write"
  /\ \/ /\ held[c] \in live
        /\ got' = IF c = Main THEN held[c] ELSE got
        /\ Return(c, "ok")
     \/ Return(c, "error") /\ UNCHANGED got
  /\ UNCHANGED <<serverVars, round, mainVars, stackVars, setups, stops>>

StopUnmarks(c) ==
  /\ pc[c] = "unmarking"
  /\ running' = FALSE
  /\ stops' = stops + 1
  /\ Proceed(c, "forgetting")
  /\ UNCHANGED <<mu, notifier, round, mainVars, stackVars, got, setups>>

\* What is stored may from now on be found by every SendCommand in progress.
NowCurrent(n) == [c \in Callers |-> IF current[c] = {} THEN {} ELSE current[c] \cup {n}]

StopForgets(c) ==
  /\ pc[c] = "forgetting"
  /\ notifier' = NoSub /\ current' = NowCurrent(NoSub)
  /\ mu' = NoOne
  /\ pc' = [pc EXCEPT ![c] = "silence"]
  /\ UNCHANGED <<running, held, result, round, mainVars, stackVars, histVars>>

StopAdvertising(c) ==
  /\ pc[c] = "silence"
  /\ \/ onAir' = "nothing" /\ Return(c, "ok")
     \/ Return(c, "error") /\ UNCHANGED onAir
  /\ UNCHANGED <<serverVars, round, mainVars, services, linked, sub, live, histVars>>

------------------------------------------------------------------------------
(* The stack's goroutines and the camera.                                   *)

\* The subscription handler, one goroutine per subscription.
HandlerLocks(n) ==
  /\ sub[n] = "called" /\ mu = NoOne
  /\ mu' = n
  /\ sub' = [sub EXCEPT ![n] = "storing"]
  /\ UNCHANGED <<running, notifier, callVars, round, mainVars, services, onAir, linked, live,
                 histVars>>

HandlerStores(n) ==
  /\ sub[n] = "storing"
  /\ notifier' = n /\ current' = NowCurrent(n)
  /\ mu' = NoOne
  /\ sub' = [sub EXCEPT ![n] = "done"]
  /\ UNCHANGED <<running, pc, held, result, round, mainVars, services, onAir, linked, live,
                 histVars>>

\* The camera finds the remote.  The device takes one connection (LnxMaxConnections(1)).
CameraConnects ==
  /\ onAir = "remote" /\ services /\ ~ linked
  /\ linked' = TRUE
  /\ UNCHANGED <<serverVars, callVars, round, mainVars, services, onAir, sub, live, histVars>>

CameraSubscribes(n) ==
  /\ linked /\ live = {} /\ sub[n] = "none"
  /\ sub' = [sub EXCEPT ![n] = "called"]
  /\ live' = {n}
  /\ UNCHANGED <<serverVars, callVars, round, mainVars, services, onAir, linked, histVars>>

CameraUnsubscribes ==
  /\ live # {} /\ live' = {}
  /\ UNCHANGED <<serverVars, callVars, round, mainVars, services, onAir, linked, sub, histVars>>

CameraLeaves ==
  /\ linked /\ linked' = FALSE /\ live' = {}
  /\ UNCHANGED <<serverVars, callVars, round, mainVars, services, onAir, sub, histVars>>

------------------------------------------------------------------------------
(* runOnRemote.                                                             *)

ScriptStep(from, to) ==
  /\ script = from
  /\ script' = to
  /\ UNCHANGED <<serverVars, round, command, expired, stackVars, histVars>>

\* NewHCIAdapter: the device is opened, or all radios are reset and it is opened again.
Open ==
  /\ \/ \E to \in {"start", "reset"} : ScriptStep("open", to)
     \/ \E to \in {"reopen", "failed"} : ScriptStep("reset", to)
     \/ \E to \in {"start", "failed"} : ScriptStep("reopen", to)
  /\ UNCHANGED callVars

\* It calls a method of the server...
MainCalls(from, op, to) == ScriptStep(from, to) /\ Begin(Main, op)

\* ... and goes on when that has returned without an error.
MainGoesOn(from, to) ==
  /\ pc[Main] = "idle"
  /\ ScriptStep(from, IF result = "ok" THEN to ELSE "failed")
  /\ UNCHANGED callVars

Starts ==
  \/ MainCalls("start", "start", "starting") \/ MainGoesOn("starting", "advertise")
  \/ MainCalls("advertise", "advertise", "advertising") \/ MainGoesOn("advertising", "act")

\* The action: a command is sent at once, whoever listens...
Acts ==
  \/ command /\ MainCalls("act", "send", "acting")
  \/ MainGoesOn("acting", "ok")

\* ... and "remote start" waits for the context's end.
Waits ==
  /\ \/ ~ command /\ ScriptStep("act", "waiting")
     \/ expired /\ ScriptStep("waiting", "ok")
  /\ UNCHANGED callVars

\* --timeout, 60 s unless given.  Nothing else looks at the context.
Expire ==
  /\ script = "waiting" /\ ~ expired
  /\ expired' = TRUE
  /\ UNCHANGED <<serverVars, callVars, round, script, command, stackVars, histVars>>

\* Any other user of the package, while the program runs: any method at any time.
OtherCalls(c, op) ==
  /\ script \notin {"open", "reset", "reopen", "ok", "failed"}
  /\ round[c] < Rounds
  /\ Begin(c, op)
  /\ round' = [round EXCEPT ![c] = @ + 1]
  /\ UNCHANGED <<serverVars, mainVars, stackVars, histVars>>

------------------------------------------------------------------------------
Step(c) ==
  \/ StartChecks(c) \/ StartMarks(c) \/ SetupServices(c)
  \/ Advertise(c) \/ WakeOnBLE(c)
  \/ TakeNotifier(c) \/ CheckNotifier(c) \/ WriteCommand(c)
  \/ StopUnmarks(c) \/ StopForgets(c) \/ StopAdvertising(c)

Handler(n) == HandlerLocks(n) \/ HandlerStores(n)

Camera == CameraConnects \/ (\E n \in Subs : CameraSubscribes(n)) \/ CameraUnsubscribes \/ CameraLeaves

RunOnRemote == Open \/ Starts \/ Acts \/ Waits

Next ==
  \/ \E c \in Callers : Lock(c) \/ Step(c)
  \/ \E c \in Others, op \in Operations : OtherCalls(c, op)
  \/ \E n \in Subs : Handler(n)
  \/ RunOnRemote \/ Expire \/ Camera

Spec == Init /\ [][Next]_vars

\* Goroutines are scheduled, a Go mutex starves nobody who waits for it, the
\* deadline passes.  The camera and the other callers promise nothing.
FairSpec ==
  /\ Spec
  /\ \A c \in Callers : WF_vars(Step(c)) /\ SF_vars(Lock(c))
  /\ \A n \in Subs : SF_vars(Handler(n))
  /\ WF_vars(RunOnRemote) /\ WF_vars(Expire)

------------------------------------------------------------------------------
(* Properties.                                                              *)

\* The mutex does what it is for: one goroutine at a time between Lock and Unlock.
Exclusive ==
  /\ \A c \in Callers : pc[c] \in Inside <=> mu = c
  /\ \A n \in Subs : sub[n] = "storing" <=> mu = n

\* Between two Stops one Start at most goes on to set the services up, however
\* many are called at once (server.go:48-54).
OneSetupPerStop == setups <= stops + (IF running THEN 1 ELSE 0)

\* A command goes to a camera the server served at some time during the call: not
\* to one it had replaced, or had been told to forget, before the call began; and
\* runOnRemote only reports success for a command that went out (server.go:121-133).
SentToCurrent ==
  /\ \A c \in Callers : pc[c] = "write" => held[c] \in current[c] \ {NoSub}
  /\ script = "ok" /\ command => got # NoSub

\* What is known of a call at each point of it...
CallsInv ==
  \A c \in Callers :
    /\ pc[c] = "marking" => ~ running
    /\ pc[c] \in {"send", "reading"} => notifier \in current[c]
    /\ pc[c] \in {"check", "write"} => held[c] \in current[c]
    /\ pc[c] = "write" => held[c] # NoSub

\* ... and of runOnRemote.
ScriptInv ==
  /\ script \notin {"starting", "advertising", "acting"} => pc[Main] = "idle"
  /\ script = "acting" =>
       command /\ pc[Main] \in {"idle", "send", "reading", "check", "write"}
  /\ script = "acting" /\ pc[Main] = "idle" /\ result = "ok" => got # NoSub
  /\ script = "waiting" => ~ command
  /\ script = "ok" /\ command => got # NoSub

\* The inductive invariant.
IInv == TypeOK /\ Exclusive /\ OneSetupPerStop /\ CallsInv /\ ScriptInv

\* Nobody is in the server, and the command line is back.
Quiet ==
  /\ \A c \in Callers : pc[c] = "idle"
  /\ \A n \in Subs : sub[n] \in {"none", "done"}
  /\ script \in {"ok", "failed"}

\* Every call on the server returns, the handlers of the stack too, and so does
\* the command line: no early return keeps the mutex (server.go:49-51), and
\* nothing waits under it.  (As calls are bounded, they are over some time.)
CallsReturn == []<>Quiet
=============================================================================
