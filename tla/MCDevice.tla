------------------------------ MODULE MCDevice ------------------------------
(* Instances of Device for TLC; the cfg files give the remaining constants.  *)
EXTENDS Device, TLC

\* Callers, and the handlers of two characteristics, are interchangeable: no
\* action or property tells one from another.  Used for safety only.
Symmetry == Permutations(Callers) \cup Permutations(Handlers)
=============================================================================
