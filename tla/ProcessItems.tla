---------------------------- MODULE ProcessItems ----------------------------
(***************************************************************************)
(* The items of a process tree: their statuses, the options of the program *)
(* that runs them, and one round of the loop that looks for the items      *)
(* whose process can be called.                                            *)
(***************************************************************************)
EXTENDS Naturals, Sequences, Functions

Active == {"Running", "RunningChild", "RunningButAChildHasFailed"}
Finished == {"Failed", "FailedChild", "Success"}
Statuses == {"Pending"} \cup Active \cup Finished

\* The programs over a set of items.
ProgramType(items) ==
    [roots : Seq(items), children : [items -> Seq(items)], parallel : BOOLEAN,
     failFast : BOOLEAN, norender : BOOLEAN, hide : BOOLEAN, hideError : BOOLEAN,
     timeout : BOOLEAN]

\* Variant of StartsNow: the children's results are not looked at.
StartsNowAnyChildren(p, status, i, sub, items) ==
    /\ sub = <<>> /\ (p.parallel \/ items = <<>>)
    /\ status[i] \in {"Pending", "RunningChild"}

\* An item starts when its children have all succeeded; in serial mode also
\* only when nothing before it does.
StartsNow(p, status, i, sub, items) ==
    /\ sub = <<>> /\ (p.parallel \/ items = <<>>)
    /\ \A c \in Range(p.children[i]) : status[c] = "Success"
    /\ status[i] \in {"Pending", "RunningChild"}

\* Variant of AddReady: a serial program starts whatever is ready.
AddReadyAtOnce(p, status, items, i, sub) ==
    (items \o sub) \o (IF StartsNow(p, status, i, sub, <<>>) THEN <<i>> ELSE <<>>)

\* One round of getNextReadyChildren: item i, below which sub is ready, after items.
AddReady(p, status, items, i, sub) ==
    LET all == items \o (IF p.parallel \/ sub = <<>> THEN sub ELSE <<Head(sub)>>)
    IN  IF StartsNow(p, status, i, sub, all) THEN Append(all, i) ELSE all

============================================================================
