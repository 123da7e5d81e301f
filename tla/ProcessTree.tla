---------------------------- MODULE ProcessTree ----------------------------
(***************************************************************************)
(* The process tree behind `kraft fetch`, `build`, `pkg` and `cloud`: a    *)
(* bubbletea program that runs the items of a tree, children before their  *)
(* parents, in parallel or one at a time.                                  *)
(*                                                                         *)
(* bubbletea hands the program one message at a time and renders after     *)
(* each; every command the program returns runs in a goroutine of its own. *)
(* The goroutines that run the items write the items' statuses themselves, *)
(* and hand a finished item over an unbuffered channel to the one goroutine *)
(* that waits for exits.                                                   *)
(***************************************************************************)
EXTENDS Naturals, Sequences, FiniteSets, ProcessItems

CONSTANTS
    Items,
    Programs,  \* the trees and options that are run
    None,
    getNextReadyChildren(_, _, _)  \* the items of a tree that can start, by ReadyItems

VARIABLES
    pt,        \* the program: roots, children and options
    status, quitting, finished,
    err,       \* what Start would return
    go,        \* the goroutines of each item: to begin, running, sending
    waiting,   \* whether a goroutine waits for an exit
    exit,      \* the exit message it delivered
    quit,      \* whether a Quit message is under way
    loop,      \* the event loop: idle, view, ended
    expired,   \* items whose timer has passed the timeout
    begun,     \* how often each item's process has been called
    succeeded, failed  \* items whose process has returned so

vars == <<pt, status, quitting, finished, err, go, waiting, exit, quit, loop, expired, begun,
          succeeded, failed>>
history == <<begun, succeeded, failed>>

\* Items are made before the item they are children of.
ASSUME ProgramsAssumption ==
    /\ Programs \subseteq ProgramType(Items) /\ None \notin Items /\ IsFiniteSet(Items)
    /\ \A p \in Programs : \E made \in [Items -> 0 .. Cardinality(Items)] :
           \A i \in Items : \A c \in Range(p.children[i]) : made[c] < made[i]

\* The loop of getNextReadyChildren: nothing is ready in an empty tree, and each item
\* of a tree adds to what is ready before it, with what is ready among its children.
ASSUME ReadyAssumption ==
    \A p \in Programs, st \in [Items -> Statuses] :
        LET ready(tree) == getNextReadyChildren(p, st, tree)
        IN  /\ ready(<<>>) = <<>>
            /\ \A tree \in {p.roots} \cup Range(p.children) : \A n \in 1 .. Len(tree) :
                   ready(SubSeq(tree, 1, n)) =
                       AddReady(p, st, ready(SubSeq(tree, 1, n - 1)), tree[n],
                                ready(p.children[tree[n]]))

Children(i) == Range(pt.children[i])
Tree == Range(pt.roots) \cup UNION {Children(i) : i \in Items}

\* Variant of total: only the roots are counted.
totalRoots == Len(pt.roots)

total == Cardinality(Tree)
Parents(i) == {p \in Items : i \in Children(p)}

\* The items whose process can be called, given the statuses they have now.
Ready == Range(getNextReadyChildren(pt, status, pt.roots))

Init ==
    /\ pt \in Programs /\ status = [i \in Items |-> "Pending"]
    /\ quitting = FALSE /\ finished = 0 /\ err = "nil"
    /\ go = [i \in Items |-> [begin |-> IF i \in Ready THEN 1 ELSE 0, run |-> 0, send |-> 0]]
    /\ waiting = TRUE /\ exit = None /\ quit = FALSE /\ loop = "view" /\ expired = {}
    /\ begun = [i \in Items |-> 0] /\ succeeded = {} /\ failed = {}

----------------------------------------------------------------------------
(* waitForProcessCmd: the goroutine of an item                             *)

\* (What the goroutines do once Run has returned is left out.)
Move(i, from, to) ==
    /\ go[i][from] > 0 /\ loop # "ended"
    /\ go' = [go EXCEPT ![i][from] = @ - 1, ![i][to] = @ + 1]

Begin(i) ==
    /\ Move(i, "begin", "run") /\ status' = [status EXCEPT ![i] = "Running"]
    /\ begun' = [begun EXCEPT ![i] = @ + 1]
    /\ UNCHANGED <<pt, quitting, finished, err, waiting, exit, quit, loop, expired>>
    /\ UNCHANGED <<succeeded, failed>>

Succeed(i) ==
    /\ Move(i, "run", "send") /\ status' = [status EXCEPT ![i] = "Success"]
    /\ succeeded' = succeeded \cup {i}
    /\ UNCHANGED <<pt, quitting, finished, err, waiting, exit, quit, loop, expired, begun, failed>>

\* Variant of Fail: the error is kept on the item alone, as a timeout's is.
FailItemOnly(i) ==
    /\ Move(i, "run", "send") /\ status' = [status EXCEPT ![i] = "Failed"]
    /\ failed' = failed \cup {i} /\ quitting' = (quitting \/ pt.failFast)
    /\ UNCHANGED <<pt, err, finished, waiting, exit, quit, loop, expired, begun, succeeded>>

\* With failFast the program is marked as quitting, but no Quit is sent.
Fail(i) ==
    /\ Move(i, "run", "send") /\ status' = [status EXCEPT ![i] = "Failed"]
    /\ failed' = failed \cup {i} /\ err' = "process" /\ quitting' = (quitting \/ pt.failFast)
    /\ UNCHANGED <<pt, finished, waiting, exit, quit, loop, expired, begun, succeeded>>

\* pt.channel <- item, received by waitForProcessExit.
Send(i) ==
    /\ go[i].send > 0 /\ waiting /\ loop # "ended" /\ go' = [go EXCEPT ![i].send = @ - 1]
    /\ waiting' = FALSE /\ exit' = i
    /\ UNCHANGED <<pt, status, quitting, finished, err, quit, loop, expired, history>>

----------------------------------------------------------------------------
(* The event loop                                                          *)

\* Variant of ExitMsg: only successes count.
ExitMsgSuccessOnly ==
    /\ loop = "idle" /\ exit # None
    /\ finished' = finished + (IF status[exit] = "Success" THEN 1 ELSE 0)
    /\ LET done == total = finished' IN
       /\ quitting' = (quitting \/ done) /\ quit' = (quit \/ done) /\ waiting' = ~done
       /\ go' = [i \in Items |->
                   [go[i] EXCEPT !.begin = @ + IF ~done /\ i \in Ready THEN 1 ELSE 0]]
    /\ exit' = None /\ loop' = "view" /\ UNCHANGED <<pt, status, err, expired, history>>

\* The exit of an item: count it, and quit or start what has become ready.
ExitMsg ==
    /\ loop = "idle" /\ exit # None
    /\ finished' = finished + (IF status[exit] \in Finished THEN 1 ELSE 0)
    /\ LET done == total = finished' IN
       /\ quitting' = (quitting \/ done) /\ quit' = (quit \/ done) /\ waiting' = ~done
       /\ go' = [i \in Items |->
                   [go[i] EXCEPT !.begin = @ + IF ~done /\ i \in Ready THEN 1 ELSE 0]]
    /\ exit' = None /\ loop' = "view" /\ UNCHANGED <<pt, status, err, expired, history>>

\* The stopwatch of an active item passes the timeout; it is looked at on ticks.
Elapse(i) ==
    /\ pt.timeout /\ loop # "ended" /\ status[i] \in Active /\ expired' = expired \cup {i}
    /\ UNCHANGED <<pt, status, quitting, finished, err, go, waiting, exit, quit, loop, history>>
TickMsg ==
    /\ loop = "idle" /\ loop' = "view"
    /\ status' = [i \in Items |-> IF i \in expired THEN "Failed" ELSE status[i]]
    /\ LET out == pt.failFast /\ expired # {}
       IN  quitting' = (quitting \/ out) /\ quit' = (quit \/ out)
    /\ UNCHANGED <<pt, finished, err, go, waiting, exit, expired, history>>

CtrlC ==
    /\ loop = "idle" /\ loop' = "view" /\ quitting' = TRUE /\ err' = "forced" /\ quit' = TRUE
    /\ UNCHANGED <<pt, status, finished, go, waiting, exit, expired, history>>

\* Run returns, and Start with what is now in err.
QuitMsg ==
    /\ loop = "idle" /\ quit /\ loop' = "ended"
    /\ UNCHANGED <<pt, status, quitting, finished, err, go, waiting, exit, quit, expired, history>>

\* printItem, after each message: a parent's status is made from its children's.
\* An item that is hidden is left alone, and so are the items below it.
HidesItself(i) ==
    \/ pt.hide /\ status[i] = "Success"
    \/ pt.hideError /\ status[i] \in {"Failed", "FailedChild"}
Hidden(i) ==
    \A H \in SUBSET Items :
        (\A j \in Items : HidesItself(j) \/ Parents(j) \cap H # {} => j \in H) => i \in H
Shown(i) ==
    LET running == \E c \in Children(i) : status[c] \in Active
        failing == \E c \in Children(i) : status[c] \in {"Failed", "FailedChild"}
    IN  CASE Hidden(i) -> status[i]
          [] ~Hidden(i) /\ running /\ failing -> "RunningButAChildHasFailed"
          [] ~Hidden(i) /\ running /\ ~failing -> "RunningChild"
          [] ~Hidden(i) /\ ~running /\ failing -> "FailedChild"
          [] OTHER -> status[i]
View ==
    /\ loop = "view" /\ loop' = "idle"
    /\ status' = [i \in Items |-> IF pt.norender THEN status[i] ELSE Shown(i)]
    /\ UNCHANGED <<pt, quitting, finished, err, go, waiting, exit, quit, expired, history>>

Next ==
    \/ \E i \in Items : Begin(i) \/ Succeed(i) \/ Fail(i) \/ Send(i) \/ Elapse(i)
    \/ ExitMsg \/ TickMsg \/ CtrlC \/ QuitMsg \/ View

\* Goroutines run, processes return, and the event loop takes each message.
Fairness ==
    /\ \A i \in Items : WF_vars(Begin(i)) /\ WF_vars(Succeed(i) \/ Fail(i)) /\ WF_vars(Send(i))
    /\ WF_vars(View) /\ SF_vars(ExitMsg) /\ SF_vars(QuitMsg)

Spec == Init /\ [][Next]_vars /\ Fairness

----------------------------------------------------------------------------
(* Properties                                                              *)

\* Every variable keeps its type.
TypeOK ==
    /\ pt \in Programs /\ status \in [Items -> Statuses] /\ quitting \in BOOLEAN /\ finished \in 0..total
    /\ err \in {"nil", "process", "forced"} /\ waiting \in BOOLEAN /\ quit \in BOOLEAN
    /\ go \in [Items -> [begin : Nat, run : Nat, send : Nat]]
    /\ exit \in Items \cup {None} /\ loop \in {"idle", "view", "ended"} /\ expired \subseteq Items
    /\ begun \in [Items -> Nat] /\ succeeded \subseteq Tree /\ failed \subseteq Tree

\* The process of an item is called only after the process of each of its children
\* has succeeded, whatever is rendered or times out meanwhile and however often an
\* item is started (getNextReadyChildren 256-299).
ChildrenFirst == [][\A i \in Items : Begin(i) => Children(i) \subseteq succeeded]_vars

Goroutines(i) == go[i].begin + go[i].run + go[i].send
Busy == {i \in Items : Goroutines(i) > 0}
Flat == \A i \in Items : pt.children[i] = <<>>

\* The serial programs that are run: of independent items, or of a single tree.
Serial == ~pt.parallel /\ (Flat \/ Len(pt.roots) = 1)

\* A serial program runs one process at a time, and none twice
\* (getNextReadyChildren 256-299, Update 93-99).
OneAtATime ==
    Serial => /\ \A i, j \in Busy : i = j
              /\ \A i \in Items : Goroutines(i) <= 1 /\ begun[i] <= 1

\* A serial program that returns without an error has run every process to success,
\* unless a timeout made it quit (Update 75-84, waitForProcessCmd 329-338).
SerialNilMeansDone ==
    [][QuitMsg /\ err = "nil" /\ Serial /\ expired = {} => succeeded = Tree]_vars

\* Start returns an error if a process has failed before it returns, however many items
\* run at once and whatever quits the program (waitForProcessCmd 329-335, Start 228-232).
FailureReported == [][QuitMsg /\ err = "nil" => failed = {}]_vars

\* When its processes return the program ends by itself, unless one fails that has a
\* parent: the parent is then never started, and so never counted (Update 72-103).
Ends == <>(loop = "ended" \/ \E i \in failed : Parents(i) # {})

============================================================================
