-------------------------------- MODULE MCTofu --------------------------------
(***************************************************************************)
(* One host whose certificate may change, one that keeps its own, and one  *)
(* store besides the permissive one.                                       *)
(***************************************************************************)
EXTENDS Tofu, TLC

CONSTANTS moving, steady, c1, c2

MCPresents == [h \in Hosts |-> IF h = moving THEN {c1, c2} ELSE {c1}]

\* Fetches are interchangeable.
MCSymmetry == Permutations(Fetches)
=============================================================================
