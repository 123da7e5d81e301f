--------------------------- MODULE MCProcessTree ---------------------------
(* Instances of ProcessTree for TLC: three independent items, as fetch,    *)
(* menu and pkg build them, a parent with two children, and three levels.  *)
EXTENDS ProcessTree

R == INSTANCE ReadyItems
NextReady(p, st, tree) == R!nextReadyChildren(p, st, tree)

CONSTANTS a, b, c

ItemSet == {a, b, c}
Alone == [i \in ItemSet |-> <<>>]
Flat3 == [roots |-> <<a, b, c>>, children |-> Alone]
Single == [roots |-> <<a>>, children |-> Alone]
Family == [roots |-> <<c>>, children |-> [Alone EXCEPT ![c] = <<a, b>>]]
Chain == [roots |-> <<c>>, children |-> [Alone EXCEPT ![c] = <<b>>, ![b] = <<a>>]]

Program(tree, o) == [x \in DOMAIN tree \cup DOMAIN o |-> IF x \in DOMAIN tree THEN tree[x] ELSE o[x]]
Default == [parallel |-> TRUE, failFast |-> TRUE, norender |-> TRUE, hide |-> TRUE,
            hideError |-> FALSE, timeout |-> FALSE]

AllPrograms ==
    {Program(Flat3, [Default EXCEPT !.parallel = p]) : p \in BOOLEAN}
    \cup {Program(Family, [Default EXCEPT !.norender = FALSE, !.parallel = p, !.hide = h]) :
            p \in BOOLEAN, h \in BOOLEAN}
    \cup {Program(Chain, [Default EXCEPT !.norender = FALSE, !.parallel = p, !.hideError = ~p]) :
            p \in BOOLEAN}
    \cup {Program(Single, [Default EXCEPT !.timeout = TRUE, !.failFast = f, !.norender = FALSE]) : f \in BOOLEAN}
============================================================================
