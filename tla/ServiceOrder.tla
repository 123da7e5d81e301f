---------------------------- MODULE ServiceOrder ----------------------------
(***************************************************************************)
(* The order in which `kraft compose` goes through services: a depth-first *)
(* visit of the dependencies, or of the dependants.  Maps are iterated in  *)
(* any order, so the result is a set of sequences.                         *)
(***************************************************************************)
EXTENDS Sequences, Functions

RECURSIVE AddRecursively(_, _, _), AddAll(_, _, _)

\* addDependenciesRecursevly, addDependantsRecursevly: what a visit of s appends.  edge
\* leads to the services that come first; s counts as added before they are visited.
AddRecursively(edge, s, added) == {Append(q, s) : q \in AddAll(edge, edge[s], added \cup {s})}

\* A loop that visits those of S that have not been added.
AddAll(edge, S, added) ==
    IF S = {} THEN {<<>>}
    ELSE UNION {UNION {{p \o q : q \in AddAll(edge, S \ {s}, added \cup Range(p))} :
                       p \in IF s \in added THEN {<<>>} ELSE AddRecursively(edge, s, added)} : s \in S}
=============================================================================
