-------------------------- MODULE HciAdapterProof --------------------------
(***************************************************************************)
(* What holds of the HCI adapter for any peripherals, any number of calls  *)
(* of Connect and any number of reported states: the types, and that until *)
(* a Connect gives up each one is given the outcome of its own connection. *)
(* The invariant (InFlight in HciAdapter) says where the one event on its  *)
(* way is.                                                                 *)
(***************************************************************************)
EXTENDS HciAdapter, TLAPS

\* The initial state satisfies the invariant.
LEMMA InitInv == Init => IInv
<1> SUFFICES ASSUME Init PROVE IInv
  OBVIOUS
<1>1. TypeOK
  <2>1. /\ scanDone \in BOOLEAN /\ scanning \in BOOLEAN /\ worked \in BOOLEAN /\ expired \in BOOLEAN
        /\ gaveUp \in BOOLEAN /\ dropped \in BOOLEAN /\ raced \in BOOLEAN
    BY DEF Init
  <2>2. /\ reports \in 0 .. Reports /\ round \in 0 .. Rounds /\ pending \in [Periphs -> Nat]
        /\ connectedCh \in Seq(Event) /\ Len(connectedCh) <= 1
    BY HciAssumption DEF Init
  <2> QED
    BY <2>1, <2>2 DEF Init, TypeOK
<1>2. InFlight /\ OwnConnection /\ (at # "idle" => outcome = None)
  BY HciAssumption DEF Init, InFlight, OwnConnection, None
<1> QED
  BY <1>1, <1>2 DEF IInv

\* Scan starts the device.
LEMMA StartInv == ASSUME IInv, Start PROVE IInv'
<1> USE HciAssumption
        DEF IInv, Start, scanVars, stackVars, sharedVars, radioVars, callVars, histVars
<1>1. TypeOK'
  BY DEF TypeOK, Event, None
<1>2. InFlight'
  BY DEF TypeOK, InFlight, Event, None
<1>3. OwnConnection' /\ (at # "idle" => outcome = None)'
  BY DEF TypeOK, InFlight, OwnConnection, Event, None
<1> QED
  BY <1>1, <1>2, <1>3

\* Scan returns.
LEMMA ScanReturnsInv == ASSUME IInv, ScanReturns PROVE IInv'
<1> USE HciAssumption
        DEF IInv, ScanReturns, scanVars, stackVars, sharedVars, radioVars, callVars, histVars
<1>1. TypeOK'
  BY DEF TypeOK, Event, None
<1>2. InFlight'
  BY DEF TypeOK, InFlight, Event, None
<1>3. OwnConnection' /\ (at # "idle" => outcome = None)'
  BY DEF TypeOK, InFlight, OwnConnection, Event, None
<1> QED
  BY <1>1, <1>2, <1>3

\* The context of Scan ends.
LEMMA ScanExpiresInv == ASSUME IInv, ScanExpires PROVE IInv'
<1> USE HciAssumption
        DEF IInv, ScanExpires, scanVars, stackVars, sharedVars, radioVars, callVars, histVars
<1>1. TypeOK'
  BY DEF TypeOK, Event, None
<1>2. InFlight'
  BY DEF TypeOK, InFlight, Event, None
<1>3. OwnConnection' /\ (at # "idle" => outcome = None)'
  BY DEF TypeOK, InFlight, OwnConnection, Event, None
<1> QED
  BY <1>1, <1>2, <1>3

\* The stack reports a state.
LEMMA StateChangedInv == ASSUME IInv, StateChanged PROVE IInv'
<1> USE HciAssumption
        DEF IInv, StateChanged, Calls, scanVars, stackVars, sharedVars, radioVars, callVars,
          histVars
<1>1. TypeOK'
  <2>1. scanning' \in BOOLEAN /\ worked' \in BOOLEAN
    BY DEF TypeOK
  <2>2. reports' \in 0 .. Reports
    BY DEF TypeOK
  <2> QED
    BY <2>1, <2>2 DEF TypeOK, None
<1>2. InFlight'
  BY DEF TypeOK, InFlight, Event, None
<1>3. OwnConnection' /\ (at # "idle" => outcome = None)'
  BY DEF TypeOK, InFlight, OwnConnection, Event, None
<1> QED
  BY <1>1, <1>2, <1>3

\* The report is passed on.
LEMMA ReportInv == ASSUME IInv, Report PROVE IInv'
<1> USE HciAssumption
        DEF IInv, Report, Done, scanVars, stackVars, sharedVars, radioVars, callVars, histVars
<1>1. TypeOK'
  <2>1. worked' \in BOOLEAN
    OBVIOUS
  <2> QED
    BY <2>1 DEF TypeOK, None
<1>2. InFlight'
  BY DEF TypeOK, InFlight, Event, None
<1>3. OwnConnection' /\ (at # "idle" => outcome = None)'
  BY DEF TypeOK, InFlight, OwnConnection, Event, None
<1> QED
  BY <1>1, <1>2, <1>3

\* An advertisement comes.
LEMMA DiscoveredInv == ASSUME IInv, NEW p \in Periphs, Discovered(p) PROVE IInv'
<1> USE HciAssumption
        DEF IInv, Discovered, Calls, scanVars, stackVars, sharedVars, radioVars, callVars,
          histVars
<1>1. TypeOK'
  BY DEF TypeOK, Event, None
<1>2. InFlight'
  BY DEF TypeOK, InFlight, Event, None
<1>3. OwnConnection' /\ (at # "idle" => outcome = None)'
  BY DEF TypeOK, InFlight, OwnConnection, Event, None
<1> QED
  BY <1>1, <1>2, <1>3

\* The peripheral found is entered in the map.
LEMMA DiscoveredWritesInv == ASSUME IInv, DiscoveredWrites PROVE IInv'
<1> USE HciAssumption
        DEF IInv, DiscoveredWrites, Done, scanVars, stackVars, sharedVars, radioVars, callVars,
          histVars
<1>1. TypeOK'
  BY ZenonT(60) DEF TypeOK, Event, None
<1>2. InFlight'
  BY DEF TypeOK, InFlight, Event, None
<1>3. OwnConnection' /\ (at # "idle" => outcome = None)'
  BY DEF TypeOK, InFlight, OwnConnection, Event, None
<1> QED
  BY <1>1, <1>2, <1>3

\* The stack answers a connection: the event leaves pending for the callback.
LEMMA ConnectedInv == ASSUME IInv, NEW p \in Periphs, NEW ok \in BOOLEAN, Connected(p, ok) PROVE IInv'
<1> USE HciAssumption
        DEF IInv, Connected, Calls, scanVars, stackVars, sharedVars, radioVars, callVars, histVars
<1>1. TypeOK'
  BY DEF TypeOK, Event, None
<1>2. InFlight'
  <2>1. ASSUME ~ gaveUp
        PROVE  /\ p = asked /\ at = "waiting" /\ connectedCh = <<>>
               /\ pending' = [q \in Periphs |-> 0]
    <3>1. /\ p = asked /\ at = "waiting" /\ connectedCh = <<>>
          /\ pending = [q \in Periphs |-> IF q = asked THEN 1 ELSE 0]
      BY <2>1 DEF InFlight
    <3>2. pending' = [pending EXCEPT ![p] = @ - 1]
      OBVIOUS
    <3> QED
      BY <3>1, <3>2
  <2> QED
    BY <2>1 DEF TypeOK, InFlight
<1>3. OwnConnection' /\ (at # "idle" => outcome = None)'
  BY DEF TypeOK, InFlight, OwnConnection, Event, None
<1> QED
  BY <1>1, <1>2, <1>3

\* The peripheral connected is entered in the map.
LEMMA ConnectedWritesInv == ASSUME IInv, ConnectedWrites PROVE IInv'
<1> USE HciAssumption
        DEF IInv, ConnectedWrites, scanVars, stackVars, sharedVars, radioVars, callVars, histVars
<1>1. TypeOK'
  BY DEF TypeOK, Event, None
<1>2. InFlight'
  BY DEF TypeOK, InFlight, Event, None
<1>3. OwnConnection' /\ (at # "idle" => outcome = None)'
  BY DEF TypeOK, InFlight, OwnConnection, Event, None
<1> QED
  BY <1>1, <1>2, <1>3

\* The callback puts the event into the channel.
LEMMA ConnectedTellsInv == ASSUME IInv, ConnectedTells PROVE IInv'
<1> USE HciAssumption
        DEF IInv, ConnectedTells, Done, scanVars, stackVars, sharedVars, radioVars, callVars,
          histVars
<1>1. TypeOK'
  <2>1. [periph |-> subject, ok |-> worked] \in Event
    BY DEF TypeOK, Event
  <2>2. connectedCh' \in Seq(Event) /\ Len(connectedCh') <= 1
    <3>1. CASE connectedCh = <<>>
      <4>1. connectedCh' = <<[periph |-> subject, ok |-> worked]>>
        BY <3>1
      <4> QED
        BY ONLY <2>1, <4>1
    <3>2. CASE connectedCh # <<>>
      BY <3>2 DEF TypeOK
    <3> QED
      BY <3>1, <3>2
  <2>3. dropped' \in BOOLEAN /\ worked' \in BOOLEAN
    BY DEF TypeOK
  <2> QED
    BY <2>1, <2>2, <2>3 DEF TypeOK, None
<1>2. InFlight'
  BY DEF TypeOK, InFlight, Event, None
<1>3. OwnConnection' /\ (at # "idle" => outcome = None)'
  BY DEF TypeOK, InFlight, OwnConnection, Event, None
<1> QED
  BY <1>1, <1>2, <1>3

\* A link goes down.
LEMMA DisconnectedInv == ASSUME IInv, NEW p \in Periphs, Disconnected(p) PROVE IInv'
<1> USE HciAssumption
        DEF IInv, Disconnected, scanVars, stackVars, sharedVars, radioVars, callVars, histVars
<1>1. TypeOK'
  BY DEF TypeOK, Event, None
<1>2. InFlight'
  BY DEF TypeOK, InFlight, Event, None
<1>3. OwnConnection' /\ (at # "idle" => outcome = None)'
  BY DEF TypeOK, InFlight, OwnConnection, Event, None
<1> QED
  BY <1>1, <1>2, <1>3

\* Connect is called.
LEMMA ConnectInv == ASSUME IInv, NEW p \in Periphs, Connect(p) PROVE IInv'
<1> USE HciAssumption
        DEF IInv, Connect, scanVars, stackVars, sharedVars, radioVars, callVars, histVars
<1>1. TypeOK'
  <2>1. expired' \in BOOLEAN
    OBVIOUS
  <2>2. round' \in 0 .. Rounds
    BY DEF TypeOK
  <2> QED
    BY <2>1, <2>2 DEF TypeOK, None
<1>2. InFlight'
  BY DEF TypeOK, InFlight, Event, None
<1>3. OwnConnection' /\ (at # "idle" => outcome = None)'
  BY DEF TypeOK, InFlight, OwnConnection, Event, None
<1> QED
  BY <1>1, <1>2, <1>3

\* Connect looks the peripheral up.
LEMMA LookUpInv == ASSUME IInv, LookUp PROVE IInv'
<1> USE HciAssumption
        DEF IInv, LookUp, Visible, Writing, scanVars, stackVars, sharedVars, radioVars,
          callVars, histVars
<1>1. TypeOK'
  <2>1. raced' \in BOOLEAN
    BY DEF TypeOK
  <2>2. at' \in {"idle", "looking", "asking", "waiting"}
    BY DEF TypeOK
  <2>3. at # "idle"
    OBVIOUS
  <2> QED
    BY <2>1, <2>2, <2>3 DEF TypeOK, None
<1>2. InFlight'
  BY DEF TypeOK, InFlight, Event, None
<1>3. OwnConnection' /\ (at # "idle" => outcome = None)'
  BY DEF TypeOK, InFlight, OwnConnection, Event, None
<1> QED
  BY <1>1, <1>2, <1>3

\* Connect asks for the connection: now there is one event to come.
LEMMA AskInv == ASSUME IInv, Ask PROVE IInv'
<1> USE HciAssumption
        DEF IInv, Ask, scanVars, stackVars, sharedVars, radioVars, callVars, histVars
<1>1. TypeOK'
  BY DEF TypeOK, Event, None
<1>2. InFlight'
  <2>1. ASSUME ~ gaveUp PROVE pending' = [p \in Periphs |-> IF p = asked THEN 1 ELSE 0]
    <3>1. pending = [p \in Periphs |-> 0]
      BY <2>1 DEF InFlight
    <3>2. pending' = [pending EXCEPT ![asked] = @ + 1] /\ asked \in Periphs
      BY DEF TypeOK
    <3> QED
      BY ONLY <3>1, <3>2
  <2> QED
    BY <2>1 DEF TypeOK, InFlight
<1>3. OwnConnection' /\ (at # "idle" => outcome = None)'
  BY DEF TypeOK, InFlight, OwnConnection, Event, None
<1> QED
  BY <1>1, <1>2, <1>3

\* Connect takes the event.
LEMMA TakeEventInv == ASSUME IInv, TakeEvent PROVE IInv'
<1> USE HciAssumption
        DEF IInv, TakeEvent, scanVars, stackVars, sharedVars, radioVars, callVars, histVars
<1>1. TypeOK'
  <2>1. connectedCh' \in Seq(Event) /\ Len(connectedCh') <= 1
    BY DEF TypeOK
  <2>2. outcome' \in Event
    BY DEF TypeOK
  <2> QED
    BY <2>1, <2>2 DEF TypeOK, None
<1>2. InFlight'
  BY DEF TypeOK, InFlight, Event, None
<1>3. OwnConnection' /\ (at # "idle" => outcome = None)'
  BY DEF TypeOK, InFlight, OwnConnection, Event, None
<1> QED
  BY <1>1, <1>2, <1>3

\* Connect gives up: nothing is promised from here on.
LEMMA GiveUpInv == ASSUME IInv, GiveUp PROVE IInv'
<1> USE HciAssumption
        DEF IInv, GiveUp, scanVars, stackVars, sharedVars, radioVars, callVars, histVars
<1>1. TypeOK'
  BY DEF TypeOK, Event, None
<1>2. InFlight'
  BY DEF TypeOK, InFlight, Event, None
<1>3. OwnConnection' /\ (at # "idle" => outcome = None)'
  BY DEF TypeOK, InFlight, OwnConnection, Event, None
<1> QED
  BY <1>1, <1>2, <1>3

\* The context of Connect ends.
LEMMA ExpireInv == ASSUME IInv, Expire PROVE IInv'
<1> USE HciAssumption
        DEF IInv, Expire, scanVars, stackVars, sharedVars, radioVars, callVars, histVars
<1>1. TypeOK'
  BY DEF TypeOK, Event, None
<1>2. InFlight'
  BY DEF TypeOK, InFlight, Event, None
<1>3. OwnConnection' /\ (at # "idle" => outcome = None)'
  BY DEF TypeOK, InFlight, OwnConnection, Event, None
<1> QED
  BY <1>1, <1>2, <1>3

\* Every step keeps the invariant.
LEMMA StepInv == IInv /\ [Next]_vars => IInv'
<1> SUFFICES ASSUME IInv, [Next]_vars PROVE IInv'
  OBVIOUS
<1>1. CASE Scan \/ ScanExpires
  BY <1>1, StartInv, ScanReturnsInv, ScanExpiresInv DEF Scan
<1>2. CASE StateChanged \/ Callback
  BY <1>2, StateChangedInv, ReportInv, DiscoveredWritesInv, ConnectedWritesInv, ConnectedTellsInv
     DEF Callback
<1>3. ASSUME NEW p \in Periphs, Discovered(p) \/ Disconnected(p) \/ Connect(p) PROVE IInv'
  BY <1>3, DiscoveredInv, DisconnectedInv, ConnectInv
<1>4. ASSUME NEW p \in Periphs, NEW ok \in BOOLEAN, Connected(p, ok) PROVE IInv'
  BY <1>4, ConnectedInv
<1>5. CASE Caller \/ Expire
  BY <1>5, LookUpInv, AskInv, TakeEventInv, GiveUpInv, ExpireInv DEF Caller
<1>6. CASE UNCHANGED vars
  BY <1>6 DEF vars, scanVars, stackVars, sharedVars, radioVars, callVars, histVars, IInv, TypeOK,
     InFlight, OwnConnection
<1> QED
  BY <1>1, <1>2, <1>3, <1>4, <1>5, <1>6 DEF Next

\* The invariant holds of every behaviour.
THEOREM Inductive == Spec => []IInv
  BY InitInv, StepInv, PTL DEF Spec

\* Every variable keeps its type, the two channels their capacity.
THEOREM TypeCorrect == Spec => []TypeOK
<1>1. IInv => TypeOK
  BY DEF IInv
<1> QED
  BY <1>1, Inductive, PTL

\* Until a Connect gives up, each is given the outcome of its own connection and no
\* event is dropped (hci.go:76, 119-130).
THEOREM ConnectionsAreOwn == Spec => []OwnConnection
<1>1. IInv => OwnConnection
  BY DEF IInv
<1> QED
  BY <1>1, Inductive, PTL
============================================================================
