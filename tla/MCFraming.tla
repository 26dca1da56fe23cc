------------------------------ MODULE MCFraming ------------------------------
(* Instances of Framing for TLC; the cfg file gives the constants.           *)
EXTENDS Framing, TLC

\* No action or property tells one reader from another.
Symmetry == Permutations(Readers)
=============================================================================
