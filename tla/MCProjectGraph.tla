--------------------------- MODULE MCProjectGraph ---------------------------
(***************************************************************************)
(* Small graphs for TLC.                                                   *)
(***************************************************************************)
EXTENDS ProjectGraph, TLC

CONSTANTS n1, n2, n3, g1, g2, p1, p2

\* Two goals of one node each in one repository: their write sets are nested,
\* or apart.
PairNode == {n1, n2}
PairGoalOf == n1 :> g1 @@ n2 :> g2
PairDependencies == n1 :> {} @@ n2 :> {}
PeerProjectOf == g1 :> p1 @@ g2 :> p1
NestedWriteSet == n1 :> {<<"src">>} @@ n2 :> {<<"src", "cli">>}
ApartWriteSet == n1 :> {<<"src">>} @@ n2 :> {<<"docs">>}

\* Two goals on two routes, one of them a chain as the planner makes it.
RouteNode == {n1, n2, n3}
RouteGoalOf == n1 :> g1 @@ n2 :> g1 @@ n3 :> g2
RouteProjectOf == g1 :> p1 @@ g2 :> p2
RouteDependencies == n1 :> {} @@ n2 :> {n1} @@ n3 :> {}
RouteWriteSet == n1 :> {<<"src">>} @@ n2 :> {<<"src">>} @@ n3 :> {<<"docs">>}
============================================================================
