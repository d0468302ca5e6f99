------------------------ MODULE MCContractPublishing ------------------------
(***************************************************************************)
(* ContractPublishing with three contracts that refer to each other.       *)
(***************************************************************************)
EXTENDS ContractPublishing, TLC

CONSTANTS leaf, tree, forest, math, tools, add, mul, neg

Growth == (leaf :> <<>>) @@ (tree :> <<leaf>>) @@ (forest :> <<tree, leaf>>)

Declared(c) == [kind |-> "declared", contract |-> c]

Referenced(c) == [kind |-> "referenced", contract |-> c]

\* Contracts by value, one or two of a registration, and by SHA, and a plain name;
\* one registration of tools wants a method of math, the others can stand beside it.
FiveRegistrations ==
    {[capability |-> math, methods |-> <<add, mul>>, refs |-> <<Declared(leaf), Declared(tree)>>],
     [capability |-> math, methods |-> <<add>>, refs |-> <<Declared(leaf)>>],
     [capability |-> tools, methods |-> <<neg, add>>,
      refs |-> <<[kind |-> "name"], Declared(tree)>>],
     [capability |-> tools, methods |-> <<neg>>, refs |-> <<Referenced(tree)>>],
     [capability |-> tools, methods |-> <<neg>>, refs |-> <<Declared(forest)>>]}
=============================================================================
