---------------------------- MODULE MCTeamIds ----------------------------
(***************************************************************************)
(* Teams for TLC.                                                          *)
(***************************************************************************)
EXTENDS TeamIds, TLC

CONSTANTS p1, p2, p3, a, b, c, d, e

\* teams of which any two share one process; the user gives the id of the last
Overlapping == a :> {p1, p2} @@ b :> {p2, p3} @@ c :> {p1, p3}
OneExternal == a :> NoId @@ b :> NoId @@ c :> 5

\* five teams of the same two processes
Same   == [t \in {a, b, c, d, e} |-> {p1, p2}]
NoneExternal == [t \in {a, b, c, d, e} |-> NoId]
Symmetric == Permutations({a, b, c, d, e}) \cup Permutations({p1, p2})
=============================================================================
