----------------------------- MODULE ReadyItems -----------------------------
(* The items of a process tree whose process can be called now.            *)
EXTENDS ProcessItems, SequencesExt

RECURSIVE nextReadyChildren(_, _, _)
nextReadyChildren(p, status, tree) ==
    FoldLeft(LAMBDA items, i :
        AddReady(p, status, items, i, nextReadyChildren(p, status, p.children[i])),
        <<>>, tree)

============================================================================
