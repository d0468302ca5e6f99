------------------------------ MODULE MCLearn ------------------------------
(***************************************************************************)
(* Learn and Graph on three small registries.                              *)
(***************************************************************************)
EXTENDS Graph, TLC

CONSTANTS
    app, math, units, loop, broken, nobody,   \* capabilities
    appP, mathP, brokenP, unitsP, loopP,     \* providers
    slug,
    whole                                   \* the empty slug

\* A valid provider of c that needs nothing, tests nothing and runs nowhere.
Plain(c) ==
    [valid |-> TRUE, capabilities |-> {c}, dependencies |-> <<>>,
     satisfied |-> TRUE, process |-> FALSE, tests |-> FALSE]

Needing(c, needed) == [Plain(c) EXCEPT !.dependencies = needed]

\* The location of brokenP ends in a slash.
OwnSlug == [p \in Providers |-> IF p = brokenP THEN whole ELSE p]

OwnDir == [c \in Capabilities |-> c]

OwnName == [p \in Providers |-> p]

(* app and loop need each other, and app needs math; the first provider of *)
(* loop does not know that it is one, and the provider of app offers math  *)
(* too; the only one of broken is invalid, and nobody offers nobody.       *)
RegistryOffers ==
    (app :> <<appP>>) @@ (math :> <<mathP>>) @@ (loop :> <<mathP, loopP>>) @@
    (broken :> <<brokenP>>) @@ (nobody :> <<>>)

RegistryManifest ==
    (appP    :> [Needing(app, <<math, loop>>) EXCEPT !.capabilities = {app, math}]) @@
    (mathP   :> [Plain(math) EXCEPT !.process = TRUE, !.tests = TRUE]) @@
    (loopP   :> Needing(loop, <<app>>)) @@
    (brokenP :> [Plain(broken) EXCEPT !.valid = FALSE])

\* The name of math begins with that of loop, and this with that of app: caps.yaml
\* can come to list each of the two that need each other.
RegistryShorter ==
    [c \in Capabilities |-> CASE c = math -> {loop, app}
                              [] c = loop -> {app}
                              [] OTHER -> {}]

NoneShorter == [c \in Capabilities |-> {}]

\* Two providers whose locations end in the same name.
CollidingOffers == (math :> <<mathP, brokenP>>)

CollidingManifest ==
    (mathP :> Plain(math)) @@ (brokenP :> [Plain(math) EXCEPT !.valid = FALSE])

OneSlug == [p \in Providers |-> slug]

\* app needs units and math, math needs units; there is no cycle.
DiamondOffers == (app :> <<appP>>) @@ (math :> <<mathP>>) @@ (units :> <<unitsP>>)

DiamondManifest ==
    (appP :> Needing(app, <<units, math>>)) @@ (mathP :> Needing(math, <<units>>)) @@
    (unitsP :> Plain(units))

\* The registry above shares no directories where the theorems about installed files
\* assume so, nor does the diamond.
ASSUME ApartAssumption ==
    Slug = OwnSlug => DirsApart /\ SlugsApart /\ StagingApart /\ NamesApart
=============================================================================
