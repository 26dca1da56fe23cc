---------------------------- MODULE RemoteProof ----------------------------
(***************************************************************************)
(* What holds of the GPS remote for any number of goroutines, subscriptions*)
(* and calls: the types, the mutual exclusion of the server's mutex, one   *)
(* set-up between two Stops, and where a command goes.  Every step keeps   *)
(* the invariant IInv; the steps of a call, of the stack and of            *)
(* runOnRemote are taken one after the other.                              *)
(***************************************************************************)
EXTENDS Remote, TLAPS

USE DEF Operations, Locking, Inside, Outside

\* The initial state satisfies the invariant.
LEMMA InitInv == Init => IInv
<1> SUFFICES ASSUME Init PROVE IInv
  OBVIOUS
<1>1. TypeOK
  <2>1. running \in BOOLEAN /\ services \in BOOLEAN /\ linked \in BOOLEAN /\ expired \in BOOLEAN
    BY DEF Init
  <2>2. /\ pc \in [Callers -> {"idle"} \cup Operations \cup Inside \cup Outside]
        /\ round \in [Callers -> 0 .. Rounds]
        /\ sub \in [Subs -> {"none", "called", "storing", "done"}]
    BY RemoteAssumption DEF Init
  <2> QED
    BY <2>1, <2>2 DEF Init, TypeOK
<1>2. Exclusive
  BY RemoteAssumption DEF Init, Exclusive, Callers
<1>3. OneSetupPerStop /\ CallsInv /\ ScriptInv
  BY DEF Init, OneSetupPerStop, CallsInv, ScriptInv, Callers
<1> QED
  BY <1>1, <1>2, <1>3 DEF IInv

\* Taking the mutex.
LEMMA LockInv == ASSUME IInv, NEW c \in Callers, Lock(c) PROVE IInv'
<1> USE DEF IInv, Lock, Proceed, serverVars, mainVars, stackVars, histVars
<1>1. TypeOK'
  BY DEF TypeOK
<1>2. Exclusive'
  BY RemoteAssumption DEF TypeOK, Exclusive
<1>3. OneSetupPerStop' /\ CallsInv'
  BY DEF TypeOK, OneSetupPerStop, CallsInv
<1>4. ScriptInv'
  BY DEF TypeOK, ScriptInv, Callers
<1> QED
  BY <1>1, <1>2, <1>3, <1>4

\* Start's check.
LEMMA StartChecksInv == ASSUME IInv, NEW c \in Callers, StartChecks(c) PROVE IInv'
<1> USE DEF IInv, StartChecks, Proceed, Return, serverVars, mainVars, stackVars, histVars
<1>1. TypeOK'
  BY DEF TypeOK
<1>2. Exclusive'
  BY RemoteAssumption DEF TypeOK, Exclusive
<1>3. OneSetupPerStop'
  BY DEF TypeOK, OneSetupPerStop
<1>4. CallsInv'
  BY DEF TypeOK, Exclusive, CallsInv
<1>5. ScriptInv'
  BY DEF TypeOK, ScriptInv, Callers
<1> QED
  BY <1>1, <1>2, <1>3, <1>4, <1>5

\* Start's mark: what its check saw still holds, as it has kept the mutex.
LEMMA StartMarksInv == ASSUME IInv, NEW c \in Callers, StartMarks(c) PROVE IInv'
<1> USE DEF IInv, StartMarks, Proceed, Return, serverVars, mainVars, stackVars, histVars
<1>1. TypeOK'
  BY DEF TypeOK
<1>2. Exclusive'
  BY RemoteAssumption DEF TypeOK, Exclusive
<1>3. OneSetupPerStop'
  BY DEF TypeOK, OneSetupPerStop, CallsInv
<1>4. CallsInv'
  BY DEF TypeOK, Exclusive, CallsInv
<1>5. ScriptInv'
  BY DEF TypeOK, ScriptInv, Callers
<1> QED
  BY <1>1, <1>2, <1>3, <1>4, <1>5

\* Setting the services up.
LEMMA SetupServicesInv == ASSUME IInv, NEW c \in Callers, SetupServices(c) PROVE IInv'
<1> USE DEF IInv, SetupServices, Proceed, Return, serverVars, mainVars, stackVars, histVars
<1>1. TypeOK'
  <2>1. services' \in BOOLEAN
    BY DEF TypeOK
  <2> QED
    BY <2>1 DEF TypeOK
<1>2. Exclusive'
  BY RemoteAssumption DEF TypeOK, Exclusive
<1>3. OneSetupPerStop'
  BY DEF TypeOK, OneSetupPerStop
<1>4. CallsInv'
  BY DEF TypeOK, Exclusive, CallsInv
<1>5. ScriptInv'
  BY DEF TypeOK, ScriptInv, Callers
<1> QED
  BY <1>1, <1>2, <1>3, <1>4, <1>5

\* Advertising.
LEMMA AdvertiseInv == ASSUME IInv, NEW c \in Callers, Advertise(c) PROVE IInv'
<1> USE DEF IInv, Advertise, Advertises, Proceed, Return, serverVars, mainVars, stackVars, histVars
<1>1. TypeOK'
  BY DEF TypeOK
<1>2. Exclusive'
  BY RemoteAssumption DEF TypeOK, Exclusive
<1>3. OneSetupPerStop'
  BY DEF TypeOK, OneSetupPerStop
<1>4. CallsInv'
  BY DEF TypeOK, Exclusive, CallsInv
<1>5. ScriptInv'
  BY DEF TypeOK, ScriptInv, Callers
<1> QED
  BY <1>1, <1>2, <1>3, <1>4, <1>5

\* Advertising the wake packet.
LEMMA WakeOnBLEInv == ASSUME IInv, NEW c \in Callers, WakeOnBLE(c) PROVE IInv'
<1> USE DEF IInv, WakeOnBLE, Advertises, Proceed, Return, serverVars, mainVars, stackVars, histVars
<1>1. TypeOK'
  BY DEF TypeOK
<1>2. Exclusive'
  BY RemoteAssumption DEF TypeOK, Exclusive
<1>3. OneSetupPerStop'
  BY DEF TypeOK, OneSetupPerStop
<1>4. CallsInv'
  BY DEF TypeOK, Exclusive, CallsInv
<1>5. ScriptInv'
  BY DEF TypeOK, ScriptInv, Callers
<1> QED
  BY <1>1, <1>2, <1>3, <1>4, <1>5

\* SendCommand's section.
LEMMA TakeNotifierInv == ASSUME IInv, NEW c \in Callers, TakeNotifier(c) PROVE IInv'
<1> USE DEF IInv, TakeNotifier, Proceed, Return, serverVars, mainVars, stackVars, histVars
<1>1. TypeOK'
  BY DEF TypeOK
<1>2. Exclusive'
  BY RemoteAssumption DEF TypeOK, Exclusive
<1>3. OneSetupPerStop'
  BY DEF TypeOK, OneSetupPerStop
<1>4. CallsInv'
  BY DEF TypeOK, Exclusive, CallsInv
<1>5. ScriptInv'
  BY DEF TypeOK, ScriptInv, Callers
<1> QED
  BY <1>1, <1>2, <1>3, <1>4, <1>5

\* SendCommand's checks.
LEMMA CheckNotifierInv == ASSUME IInv, NEW c \in Callers, CheckNotifier(c) PROVE IInv'
<1> USE DEF IInv, CheckNotifier, Proceed, Return, serverVars, mainVars, stackVars, histVars
<1>1. TypeOK'
  BY DEF TypeOK
<1>2. Exclusive'
  BY RemoteAssumption DEF TypeOK, Exclusive
<1>3. OneSetupPerStop'
  BY DEF TypeOK, OneSetupPerStop
<1>4. CallsInv'
  BY RemoteAssumption DEF TypeOK, Exclusive, CallsInv
<1>5. ScriptInv'
  BY DEF TypeOK, ScriptInv, Callers
<1> QED
  BY <1>1, <1>2, <1>3, <1>4, <1>5

\* SendCommand's write.
LEMMA WriteCommandInv == ASSUME IInv, NEW c \in Callers, WriteCommand(c) PROVE IInv'
<1> USE DEF IInv, WriteCommand, Proceed, Return, serverVars, mainVars, stackVars, histVars
<1>1. TypeOK'
  BY DEF TypeOK
<1>2. Exclusive'
  BY RemoteAssumption DEF TypeOK, Exclusive
<1>3. OneSetupPerStop'
  BY DEF TypeOK, OneSetupPerStop
<1>4. CallsInv'
  BY DEF TypeOK, Exclusive, CallsInv
<1>5. ScriptInv'
  BY DEF TypeOK, CallsInv, ScriptInv, Callers
<1> QED
  BY <1>1, <1>2, <1>3, <1>4, <1>5

\* Stop's first assignment.
LEMMA StopUnmarksInv == ASSUME IInv, NEW c \in Callers, StopUnmarks(c) PROVE IInv'
<1> USE DEF IInv, StopUnmarks, Proceed, Return, serverVars, mainVars, stackVars, histVars
<1>1. TypeOK'
  <2>1. running' \in BOOLEAN
    OBVIOUS
  <2> QED
    BY <2>1 DEF TypeOK
<1>2. Exclusive'
  BY RemoteAssumption DEF TypeOK, Exclusive
<1>3. OneSetupPerStop'
  BY DEF TypeOK, OneSetupPerStop
<1>4. CallsInv'
  BY DEF TypeOK, Exclusive, CallsInv
<1>5. ScriptInv'
  BY DEF TypeOK, ScriptInv, Callers
<1> QED
  BY <1>1, <1>2, <1>3, <1>4, <1>5

\* Stop's second assignment.
LEMMA StopForgetsInv == ASSUME IInv, NEW c \in Callers, StopForgets(c) PROVE IInv'
<1> USE DEF IInv, StopForgets, NowCurrent, Proceed, Return, serverVars, mainVars, stackVars, histVars
<1>1. TypeOK'
  BY DEF TypeOK
<1>2. Exclusive'
  BY RemoteAssumption DEF TypeOK, Exclusive
<1>3. OneSetupPerStop'
  BY DEF TypeOK, OneSetupPerStop
<1>4. CallsInv'
  BY DEF TypeOK, Exclusive, CallsInv
<1>5. ScriptInv'
  BY DEF TypeOK, ScriptInv, Callers
<1> QED
  BY <1>1, <1>2, <1>3, <1>4, <1>5

\* Stop's last step.
LEMMA StopAdvertisingInv == ASSUME IInv, NEW c \in Callers, StopAdvertising(c) PROVE IInv'
<1> USE DEF IInv, StopAdvertising, Proceed, Return, serverVars, mainVars, stackVars, histVars
<1>1. TypeOK'
  BY DEF TypeOK
<1>2. Exclusive'
  BY RemoteAssumption DEF TypeOK, Exclusive
<1>3. OneSetupPerStop'
  BY DEF TypeOK, OneSetupPerStop
<1>4. CallsInv'
  BY DEF TypeOK, Exclusive, CallsInv
<1>5. ScriptInv'
  BY DEF TypeOK, ScriptInv, Callers
<1> QED
  BY <1>1, <1>2, <1>3, <1>4, <1>5

\* The handler takes the mutex.
LEMMA HandlerLocksInv == ASSUME IInv, NEW n \in Subs, HandlerLocks(n) PROVE IInv'
<1> USE DEF IInv, HandlerLocks, callVars, mainVars, histVars
<1>1. TypeOK'
  BY DEF TypeOK
<1>2. Exclusive'
  BY RemoteAssumption DEF TypeOK, Exclusive, Callers
<1>3. OneSetupPerStop'
  BY DEF TypeOK, OneSetupPerStop
<1>4. CallsInv'
  BY RemoteAssumption DEF TypeOK, Exclusive, CallsInv
<1>5. ScriptInv'
  BY RemoteAssumption DEF TypeOK, ScriptInv, Callers
<1> QED
  BY <1>1, <1>2, <1>3, <1>4, <1>5

\* The handler stores the notifier: it becomes current for every SendCommand in progress.
LEMMA HandlerStoresInv == ASSUME IInv, NEW n \in Subs, HandlerStores(n) PROVE IInv'
<1> USE DEF IInv, HandlerStores, NowCurrent, mainVars, histVars
<1>1. TypeOK'
  BY DEF TypeOK
<1>2. Exclusive'
  BY RemoteAssumption DEF TypeOK, Exclusive, Callers
<1>3. OneSetupPerStop'
  BY DEF TypeOK, OneSetupPerStop
<1>4. CallsInv'
  BY RemoteAssumption DEF TypeOK, Exclusive, CallsInv
<1>5. ScriptInv'
  BY RemoteAssumption DEF TypeOK, ScriptInv, Callers
<1> QED
  BY <1>1, <1>2, <1>3, <1>4, <1>5

\* The camera and the deadline touch nothing of the server.
LEMMA CameraInv == ASSUME IInv, Camera \/ Expire PROVE IInv'
<1> USE DEF IInv, Camera, CameraConnects, CameraSubscribes, CameraUnsubscribes, CameraLeaves,
            Expire, serverVars, callVars, mainVars, stackVars, histVars
<1>1. TypeOK'
  <2>1. CASE CameraConnects
    BY <2>1 DEF TypeOK
  <2>2. CASE \E n \in Subs : CameraSubscribes(n)
    BY <2>2 DEF TypeOK
  <2>3. CASE CameraUnsubscribes
    BY <2>3 DEF TypeOK
  <2>4. CASE CameraLeaves
    <3>1. linked' \in BOOLEAN
      BY <2>4
    <3> QED
      BY <2>4, <3>1 DEF TypeOK
  <2>5. CASE Expire
    <3>1. expired' \in BOOLEAN
      BY <2>5
    <3> QED
      BY <2>5, <3>1 DEF TypeOK
  <2> QED
    BY <2>1, <2>2, <2>3, <2>4, <2>5
<1>2. Exclusive'
  BY RemoteAssumption DEF TypeOK, Exclusive
<1>3. OneSetupPerStop' /\ CallsInv' /\ ScriptInv'
  BY DEF OneSetupPerStop, CallsInv, ScriptInv
<1> QED
  BY <1>1, <1>2, <1>3

\* Another goroutine begins a call.
LEMMA OtherCallsInv == ASSUME IInv, NEW c \in Others, NEW op \in Operations, OtherCalls(c, op) PROVE IInv'
<1> USE DEF IInv, OtherCalls, Begin, serverVars, mainVars, stackVars, histVars, Callers
<1>1. TypeOK'
  <2>1. round' \in [Callers -> 0 .. Rounds]
    BY RemoteAssumption DEF TypeOK
  <2> QED
    BY <2>1 DEF TypeOK
<1>2. Exclusive'
  BY RemoteAssumption DEF TypeOK, Exclusive, Callers
<1>3. OneSetupPerStop'
  BY DEF TypeOK, OneSetupPerStop
<1>4. CallsInv'
  BY RemoteAssumption DEF TypeOK, CallsInv
<1>5. ScriptInv'
  BY RemoteAssumption DEF TypeOK, ScriptInv, Callers
<1> QED
  BY <1>1, <1>2, <1>3, <1>4, <1>5

\* runOnRemote begins a call.
LEMMA MainCallsInv == ASSUME IInv, 
  \/ MainCalls("start", "start", "starting")
  \/ MainCalls("advertise", "advertise", "advertising")
  \/ command /\ MainCalls("act", "send", "acting") PROVE IInv'
<1> USE DEF IInv, MainCalls, ScriptStep, Begin, serverVars, stackVars, histVars, Callers
<1>1. TypeOK'
  BY DEF TypeOK
<1>2. Exclusive'
  BY RemoteAssumption DEF TypeOK, Exclusive, Callers
<1>3. OneSetupPerStop'
  BY DEF TypeOK, OneSetupPerStop
<1>4. CallsInv'
  BY RemoteAssumption DEF TypeOK, CallsInv
<1>5. ScriptInv'
  BY RemoteAssumption DEF TypeOK, ScriptInv, Callers
<1> QED
  BY <1>1, <1>2, <1>3, <1>4, <1>5

\* runOnRemote goes on from one step of its own to the next.
LEMMA ScriptStepInv == ASSUME IInv, 
  \/ Open \/ Waits
  \/ MainGoesOn("starting", "advertise") \/ MainGoesOn("advertising", "act")
  \/ MainGoesOn("acting", "ok") PROVE IInv'
<1> USE DEF IInv, Open, Waits, MainGoesOn, ScriptStep, serverVars, callVars, stackVars, histVars
<1>1. TypeOK'
  BY DEF TypeOK
<1>2. Exclusive'
  BY RemoteAssumption DEF TypeOK, Exclusive, Callers
<1>3. OneSetupPerStop'
  BY DEF TypeOK, OneSetupPerStop
<1>4. CallsInv'
  BY RemoteAssumption DEF TypeOK, CallsInv
<1>5. ScriptInv'
  BY RemoteAssumption DEF TypeOK, ScriptInv, Callers
<1> QED
  BY <1>1, <1>2, <1>3, <1>4, <1>5

\* Every step keeps the invariant.
LEMMA StepInv == IInv /\ [Next]_vars => IInv'
<1> SUFFICES ASSUME IInv, [Next]_vars PROVE IInv'
  OBVIOUS
<1>1. ASSUME NEW c \in Callers, Lock(c) \/ Step(c) PROVE IInv'
  BY <1>1, LockInv, StartChecksInv, StartMarksInv, SetupServicesInv, AdvertiseInv, WakeOnBLEInv,
     TakeNotifierInv, CheckNotifierInv, WriteCommandInv, StopUnmarksInv, StopForgetsInv,
     StopAdvertisingInv DEF Step
<1>2. ASSUME NEW c \in Others, NEW op \in Operations, OtherCalls(c, op) PROVE IInv'
  BY <1>2, OtherCallsInv
<1>3. ASSUME NEW n \in Subs, Handler(n) PROVE IInv'
  BY <1>3, HandlerLocksInv, HandlerStoresInv DEF Handler
<1>4. CASE RunOnRemote
  BY <1>4, MainCallsInv, ScriptStepInv DEF RunOnRemote, Starts, Acts
<1>5. CASE Camera \/ Expire
  BY <1>5, CameraInv
<1>6. CASE UNCHANGED vars
  BY <1>6 DEF vars, serverVars, callVars, mainVars, stackVars, histVars, IInv, TypeOK, Exclusive,
     OneSetupPerStop, CallsInv, ScriptInv
<1> QED
  BY <1>1, <1>2, <1>3, <1>4, <1>5, <1>6 DEF Next

\* The invariant holds of the GPS remote, whoever calls it and however often.
THEOREM Inductive == Spec => []IInv
  BY InitInv, StepInv, PTL DEF Spec

\* Every variable keeps its type; no nil notifier is ever used (server.go:125-130).
THEOREM TypeCorrect == Spec => []TypeOK
<1>1. IInv => TypeOK
  BY DEF IInv
<1> QED
  BY <1>1, Inductive, PTL

\* One goroutine at a time is between Lock and Unlock of Server.mu.
THEOREM MutualExclusion == Spec => []Exclusive
<1>1. IInv => Exclusive
  BY DEF IInv
<1> QED
  BY <1>1, Inductive, PTL

\* Between two Stops one Start at most sets the services up (server.go:48-54).
THEOREM SetUpOnce == Spec => []OneSetupPerStop
<1>1. IInv => OneSetupPerStop
  BY DEF IInv
<1> QED
  BY <1>1, Inductive, PTL

\* A command goes to a camera that was the server's at some time during the call
\* (server.go:121-133).
THEOREM CommandsGoToCurrent == Spec => []SentToCurrent
<1>1. IInv => SentToCurrent
  BY DEF IInv, CallsInv, ScriptInv, SentToCurrent
<1> QED
  BY <1>1, Inductive, PTL
=============================================================================
