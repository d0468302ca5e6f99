----------------------------- MODULE MCDispatch -----------------------------
(***************************************************************************)
(* Dispatch on small instances.                                            *)
(***************************************************************************)
EXTENDS Dispatch, TLC

CONSTANTS add, math     \* a method and the capability that offers it

MathOnly == {[capability |-> math, methods |-> <<add>>]}

\* Sessions are interchangeable.
SessionSymmetry == Permutations(Sessions)
=============================================================================
