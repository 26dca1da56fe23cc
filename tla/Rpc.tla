--------------------------------- MODULE Rpc ---------------------------------
(***************************************************************************)
(* What a request/response session with the camera promises to its users,  *)
(* whatever the link underneath does: a call that comes back with an       *)
(* answer was put to the camera first, was served by the camera, and the   *)
(* answer is the one the camera gave to that very call.  A call may fail   *)
(* at any time, and a failed call may still have been served (an answer    *)
(* that comes too late is lost, not given to somebody else).               *)
(***************************************************************************)
CONSTANT Calls          \* the calls made on the session

VARIABLES
  phase,                \* phase[c]: how far call c has come, seen by its caller
  served                \* the calls the camera has acted upon

vars == <<phase, served>>

Phases == {"new", "asked", "answered", "failed"}

TypeOK == /\ phase \in [Calls -> Phases]
          /\ served \subseteq Calls

Init == /\ phase = [c \in Calls |-> "new"]
        /\ served = {}

\* The request is handed to the radio.
Ask(c) == /\ phase[c] = "new"
          /\ phase' = [phase EXCEPT ![c] = "asked"]
          /\ UNCHANGED served

\* The camera acts on a request, at most once; its caller may have given up.
Serve(c) == /\ phase[c] # "new"
            /\ c \notin served
            /\ served' = served \cup {c}
            /\ UNCHANGED phase

\* The caller gets the camera's answer to this call.
Answer(c) == /\ phase[c] = "asked"
             /\ c \in served
             /\ phase' = [phase EXCEPT ![c] = "answered"]
             /\ UNCHANGED served

\* The call ends without an answer.
Fail(c) == /\ phase[c] \in {"new", "asked"}
           /\ phase' = [phase EXCEPT ![c] = "failed"]
           /\ UNCHANGED served

Next == \E c \in Calls : Ask(c) \/ Serve(c) \/ Answer(c) \/ Fail(c)

Spec == Init /\ [][Next]_vars
=============================================================================
