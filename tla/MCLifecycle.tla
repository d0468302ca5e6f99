---------------------------- MODULE MCLifecycle ----------------------------
(***************************************************************************)
(* Lifecycle on small instances.                                           *)
(***************************************************************************)
EXTENDS Lifecycle

CONSTANTS add, mul, math, tools     \* methods and the capabilities that offer them

\* Two capabilities with a method each.
MathAndTools ==
    {[capability |-> math, methods |-> <<add>>],
     [capability |-> tools, methods |-> <<mul>>]}

MathOnly == {[capability |-> math, methods |-> <<add>>]}
=============================================================================
