-------------------------- MODULE MCComposeProject --------------------------
(***************************************************************************)
(* Three services.  Run Links: every graph of links over them, in every    *)
(* order of the walk.  Runs Stacks and CycleReported: chosen files with    *)
(* sidekicks, namespaces and undefined names.                              *)
(***************************************************************************)
EXTENDS ComposeProject, TLC

CONSTANTS a, b, c, m

Services3 == {a, b, c}
Missing1 == {m}

\* Sound for LinkGraphs: renaming the services maps the set of all graphs to itself.
ServiceSymmetry == Permutations(Services3)

Names(x, y, z) == a :> x @@ b :> y @@ c :> z
NoNames == Names({}, {}, {})

File(links, external, label, ns) ==
    [links |-> links, external |-> external, label |-> label, ns |-> ns]

LinkGraphs == {File(g, NoNames, NoNames, NoNames) :
                  g \in [Services3 -> SUBSET Services3]}

SoftStacks == {
    \* a service with two dependencies, one of which links to itself, the other one to it
    \* by an external link
    File(Names({b, c}, {}, {c}), Names({}, {c}, {}), NoNames, NoNames),
    \* a ring of links
    File(Names({b}, {c}, {a}), NoNames, NoNames, NoNames),
    \* a sidekick whose links are not its dependencies
    File(Names({c}, {a}, {}), NoNames, Names({b}, {}, {}), NoNames),
    \* a sidekick of two primaries that link to each other
    File(Names({b}, {a}, {}), NoNames, Names({c}, {c}, {}), NoNames),
    \* two sidekicks, one in the other's namespace, and a link to another stack
    File(NoNames, Names({m}, {}, {}), Names({b, c}, {}, {}), Names({}, {c}, {})),
    \* an undefined sidekick, and a service that links to its primary
    File(Names({}, {a}, {m, b}), NoNames, Names({m}, {}, {}), NoNames)}

HardStacks == {
    \* a primary that links to its own sidekick
    File(Names({b}, {}, {a}), NoNames, Names({b}, {}, {}), NoNames),
    \* each the sidekick of the other
    File(Names({}, {}, {a}), NoNames, Names({b}, {a}, {}), NoNames),
    \* two sidekicks in each other's namespace
    File(NoNames, NoNames, Names({b, c}, {}, {}), Names({}, {c}, {b}))}

AllStacks == SoftStacks \cup HardStacks
=============================================================================
