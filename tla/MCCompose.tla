----------------------------- MODULE MCCompose -----------------------------
(* Instances of Compose for TLC.                                           *)
EXTENDS Compose

Order == INSTANCE ServiceOrder
Visited == [edge \in {Required} \cup {Dependants(F) : F \in SUBSET Services} |->
              [S \in SUBSET Services |->
                 [added \in SUBSET Services |-> Order!AddAll(edge, S, added)]]]
Visits(edge, S, added) == Visited[edge][S][added]

CONSTANTS web, cache, db

\* web depends on cache and db, cache on db.
Chain == [s \in Services |-> CASE s = web -> {cache, db} [] s = cache -> {db} [] OTHER -> {}]

\* The file with all services, and without web.
Edited == {Services, Services \ {web}}

\* db has an address of its own.
DbStatic == [s \in Services |-> IF s = db THEN 2 ELSE None]
=============================================================================
