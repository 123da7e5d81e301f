-------------------------- MODULE ProcessTreeProofs --------------------------
(***************************************************************************)
(* What the process tree promises for any number of items in any tree, any *)
(* options, and any order in which goroutines and messages come.           *)
(***************************************************************************)
EXTENDS ProcessTree, FiniteSetTheorems, WellFoundedInduction, TLAPS

\* The leaves are for Zenon, but for those that name SMT.
USE Zenon

----------------------------------------------------------------------------
(* What getNextReadyChildren returns.                                      *)

\* A set of naturals with 0 that is closed under successor is all of them: the induction
\* over the items of a tree and over its levels.
LEMMA Induction ==
    ASSUME NEW S, S \subseteq Nat, 0 \in S, \A n \in S : n + 1 \in S
    PROVE  S = Nat
<1> SUFFICES ASSUME Nat \ S # {} PROVE FALSE
  OBVIOUS
<1>1. PICK x \in Nat \ S : \A y \in Nat \ S : ~ (<<y, x>> \in OpToRel(<, Nat))
  BY NatLessThanWellFounded, WFMin
<1>2. x - 1 \in Nat /\ x - 1 < x /\ (x - 1) + 1 = x
  <2>1. x \in Nat /\ x # 0
    OBVIOUS
  <2> QED BY SMT, <2>1
<1>3. x - 1 \notin S
  BY <1>1, <1>2
<1>4. <<x - 1, x>> \in OpToRel(<, Nat)
  BY <1>1, <1>2 DEF OpToRel
<1> QED BY <1>1, <1>2, <1>3, <1>4

\* The items of a program's tree whose process can be called.
Startable(p, st) ==
    {i \in Range(p.roots) \cup UNION {Range(p.children[j]) : j \in Items} :
        /\ st[i] \in {"Pending", "RunningChild"}
        /\ \A c \in Range(p.children[i]) : st[c] = "Success"}

\* The trees of a program that the loop is called on.
TreesOf(p) == {p.roots} \cup Range(p.children)

\* Programs have the type of programs, and the trees in them are sequences of items.
LEMMA Trees ==
    ASSUME NEW p \in Programs
    PROVE  /\ p.roots \in Seq(Items) /\ p.children \in [Items -> Seq(Items)]
           /\ p.parallel \in BOOLEAN
           /\ \A t \in TreesOf(p) : t \in Seq(Items) /\ \A i \in Range(t) : i \in Items
           /\ p.roots \in TreesOf(p) /\ \A i \in Items : p.children[i] \in TreesOf(p)
           /\ \A t \in TreesOf(p) : t = p.roots \/ \E i \in Items : t = p.children[i]
<1>1. p.roots \in Seq(Items) /\ p.children \in [Items -> Seq(Items)] /\ p.parallel \in BOOLEAN
  BY SMT, ProgramsAssumption DEF ProgramType
<1>2. Range(p.children) = {p.children[i] : i \in Items}
  BY <1>1 DEF Range
<1>3. \A t \in TreesOf(p) : t \in Seq(Items)
  BY <1>1, <1>2 DEF TreesOf
<1>4. \A t \in TreesOf(p) : \A i \in Range(t) : i \in Items
  BY SMT, <1>3 DEF Range
<1> QED BY <1>1, <1>2, <1>3, <1>4 DEF TreesOf

\* One round of the loop adds only items that can start (processtree.go 259-296).
LEMMA RoundAddsStartable ==
    ASSUME NEW p \in Programs, NEW st, NEW items \in Seq(Startable(p, st)),
           NEW sub \in Seq(Startable(p, st)),
           NEW t \in TreesOf(p), NEW i \in Range(t)
    PROVE  AddReady(p, st, items, i, sub) \in Seq(Startable(p, st))
<1>1. PICK S : S = Startable(p, st)
  OBVIOUS
<1>2. PICK all : all = items \o (IF p.parallel \/ sub = <<>> THEN sub ELSE <<Head(sub)>>)
  OBVIOUS
<1>3. sub # <<>> => <<Head(sub)>> \in Seq(S)
  BY SMT, <1>1
<1>4. all \in Seq(S)
  <2>1. (IF p.parallel \/ sub = <<>> THEN sub ELSE <<Head(sub)>>) \in Seq(S)
    BY <1>1, <1>3
  <2> QED BY SMT, <1>1, <1>2, <2>1
<1>5. ASSUME StartsNow(p, st, i, sub, all) PROVE Append(all, i) \in Seq(S)
  <2>1. i \in Range(p.roots) \cup UNION {Range(p.children[j]) : j \in Items}
    <3>1. t = p.roots \/ \E j \in Items : t = p.children[j]
      BY Trees
    <3> QED BY <3>1
  <2>2. i \in S
    BY <1>1, <1>5, <2>1 DEF Startable, StartsNow
  <2> QED BY SMT, <1>4, <2>2
<1> QED BY <1>1, <1>2, <1>4, <1>5 DEF AddReady

\* The assumption about getNextReadyChildren: a tree without items, and one round.
LEMMA NoRound ==
    ASSUME NEW p \in Programs, NEW st \in [Items -> Statuses], NEW t \in TreesOf(p)
    PROVE  /\ getNextReadyChildren(p, st, <<>>) = <<>>
           /\ SubSeq(t, 1, 0) = <<>> /\ SubSeq(t, 1, Len(t)) = t /\ Len(t) \in Nat
<1>1. t \in Seq(Items)
  BY Trees
<1>2. SubSeq(t, 1, 0) = <<>> /\ SubSeq(t, 1, Len(t)) = t /\ Len(t) \in Nat
  BY SMT, <1>1
<1> QED BY <1>2, ReadyAssumption

LEMMA Round ==
    ASSUME NEW p \in Programs, NEW st \in [Items -> Statuses], NEW t \in TreesOf(p),
           NEW n \in Nat, n + 1 <= Len(t)
    PROVE  /\ t[n + 1] \in Range(t) /\ t[n + 1] \in Items
           /\ getNextReadyChildren(p, st, SubSeq(t, 1, n + 1)) =
                 AddReady(p, st, getNextReadyChildren(p, st, SubSeq(t, 1, n)), t[n + 1],
                          getNextReadyChildren(p, st, p.children[t[n + 1]]))
<1>1. t \in Seq(Items)
  BY Trees
<1>2. \A k \in 1 .. Len(t) :
         getNextReadyChildren(p, st, SubSeq(t, 1, k)) =
             AddReady(p, st, getNextReadyChildren(p, st, SubSeq(t, 1, k - 1)), t[k],
                      getNextReadyChildren(p, st, p.children[t[k]]))
  BY ReadyAssumption DEF TreesOf
<1>3. n + 1 \in 1 .. Len(t) /\ (n + 1) - 1 = n /\ DOMAIN t = 1 .. Len(t) /\ t[n + 1] \in Items
  BY SMT, <1>1
<1>4. t[n + 1] \in Range(t)
  BY <1>3 DEF Range
<1>5. getNextReadyChildren(p, st, SubSeq(t, 1, n + 1)) =
          AddReady(p, st, getNextReadyChildren(p, st, SubSeq(t, 1, (n + 1) - 1)), t[n + 1],
                   getNextReadyChildren(p, st, p.children[t[n + 1]]))
  BY <1>2, <1>3
<1> QED BY <1>3, <1>4, <1>5

\* If only startable items are found below the items of a tree, only such are found in it.
LEMMA TreeAddsStartable ==
    ASSUME NEW p \in Programs, NEW st \in [Items -> Statuses], NEW t \in TreesOf(p),
           \A i \in Range(t) : getNextReadyChildren(p, st, p.children[i]) \in Seq(Startable(p, st))
    PROVE  getNextReadyChildren(p, st, t) \in Seq(Startable(p, st))
<1> DEFINE S == {n \in Nat : n <= Len(t) =>
                    getNextReadyChildren(p, st, SubSeq(t, 1, n)) \in Seq(Startable(p, st))}
<1>1. 0 \in S
  <2>1. <<>> \in Seq(Startable(p, st)) /\ 0 \in Nat
    BY SMT
  <2> QED BY <2>1, NoRound
<1>2. ASSUME NEW n \in S PROVE n + 1 \in S
  <2>1. n \in Nat /\ n + 1 \in Nat /\ (n + 1 <= Len(t) => n <= Len(t))
    <3>1. Len(t) \in Nat
      BY NoRound
    <3> QED BY SMT, <3>1
  <2>2. ASSUME n + 1 <= Len(t)
        PROVE  getNextReadyChildren(p, st, SubSeq(t, 1, n + 1)) \in Seq(Startable(p, st))
    <3>1. getNextReadyChildren(p, st, SubSeq(t, 1, n)) \in Seq(Startable(p, st))
      BY <1>2, <2>1, <2>2
    <3>2. /\ t[n + 1] \in Range(t)
          /\ getNextReadyChildren(p, st, SubSeq(t, 1, n + 1)) =
                AddReady(p, st, getNextReadyChildren(p, st, SubSeq(t, 1, n)), t[n + 1],
                         getNextReadyChildren(p, st, p.children[t[n + 1]]))
      BY <2>1, <2>2, Round
    <3>3. getNextReadyChildren(p, st, p.children[t[n + 1]]) \in Seq(Startable(p, st))
      BY <3>2
    <3> QED BY <3>1, <3>2, <3>3, RoundAddsStartable
  <2> QED BY <2>1, <2>2
<1>3. S = Nat
  <2> HIDE DEF S
  <2>1. S \subseteq Nat
    BY DEF S
  <2> QED BY <1>1, <1>2, <2>1, Induction
<1>4. Len(t) \in Nat /\ Len(t) <= Len(t) /\ SubSeq(t, 1, Len(t)) = t
  <2>1. Len(t) \in Nat /\ SubSeq(t, 1, Len(t)) = t
    BY NoRound
  <2> QED BY SMT, <2>1
<1> QED BY <1>3, <1>4

\* getNextReadyChildren returns items of the tree that are pending, or were made parents of
\* running items, and whose children have all succeeded (processtree.go 256-299).
LEMMA OnlyStartable ==
    ASSUME NEW p \in Programs, NEW st \in [Items -> Statuses], NEW t \in TreesOf(p)
    PROVE  getNextReadyChildren(p, st, t) \in Seq(Startable(p, st))
<1>1. PICK made \in [Items -> 0 .. Cardinality(Items)] :
          \A i \in Items : \A c \in Range(p.children[i]) : made[c] < made[i]
  BY ProgramsAssumption
<1>2. Cardinality(Items) \in Nat
  BY ProgramsAssumption, FS_CardinalityType
<1>3. \A i \in Items : made[i] \in Nat
  BY SMT, <1>1, <1>2
<1>4. \A x \in TreesOf(p) : \A i \in Range(x) : i \in Items
  BY Trees
<1> DEFINE S == {n \in Nat : \A i \in Items : made[i] < n =>
                    getNextReadyChildren(p, st, p.children[i]) \in Seq(Startable(p, st))}
<1>5. 0 \in S
  BY SMT, <1>3
<1>6. ASSUME NEW n \in S PROVE n + 1 \in S
  <2>1. n \in Nat /\ n + 1 \in Nat
    BY SMT
  <2>2. ASSUME NEW i \in Items, made[i] < n + 1
        PROVE  getNextReadyChildren(p, st, p.children[i]) \in Seq(Startable(p, st))
    <3>1. p.children[i] \in TreesOf(p)
      BY Trees
    <3>2. ASSUME NEW c \in Range(p.children[i])
          PROVE  getNextReadyChildren(p, st, p.children[c]) \in Seq(Startable(p, st))
      <4>1. c \in Items /\ made[c] < made[i]
        BY <1>1, <1>4, <3>1
      <4>2. made[c] < n
        BY SMT, <1>3, <2>1, <2>2, <4>1
      <4> QED BY <1>6, <4>1, <4>2
    <3> QED BY <3>1, <3>2, TreeAddsStartable
  <2> QED BY <2>1, <2>2
<1>7. S = Nat
  <2> HIDE DEF S
  <2>1. S \subseteq Nat
    BY DEF S
  <2> QED BY <1>5, <1>6, <2>1, Induction
<1>8. \A i \in Items : getNextReadyChildren(p, st, p.children[i]) \in Seq(Startable(p, st))
  <2> TAKE i \in Items
  <2>1. made[i] + 1 \in Nat /\ made[i] < made[i] + 1
    BY SMT, <1>3
  <2>2. made[i] + 1 \in S
    BY <1>7, <2>1
  <2> QED BY <2>1, <2>2
<1> QED BY <1>4, <1>8, TreeAddsStartable

\* A program of one tree or of independent items, run one at a time.
SerialProgram(p) ==
    ~p.parallel /\ ((\A i \in Items : p.children[i] = <<>>) \/ Len(p.roots) = 1)

\* A round of a serial program adds to nothing at most one item, and nothing to an item
\* below which there is nothing (processtree.go 271-295).
LEMMA RoundAddsOne ==
    ASSUME NEW p \in Programs, ~p.parallel, NEW st, NEW items \in Seq(Items),
           NEW sub \in Seq(Items), NEW i \in Items, Len(items) <= 1,
           items = <<>> \/ sub = <<>>
    PROVE  Len(AddReady(p, st, items, i, sub)) <= 1
<1>1. PICK all : all = items \o (IF p.parallel \/ sub = <<>> THEN sub ELSE <<Head(sub)>>)
  OBVIOUS
<1>2. sub # <<>> => <<Head(sub)>> \in Seq(Items) /\ Len(<<Head(sub)>>) = 1
  BY SMT
<1>3. all \in Seq(Items) /\ Len(all) <= 1
  <2>1. CASE sub = <<>>
    <3>1. all = items \o sub
      BY <1>1, <2>1
    <3> QED BY SMT, <2>1, <3>1
  <2>2. CASE sub # <<>>
    <3>1. all = items \o <<Head(sub)>> /\ items = <<>>
      BY <1>1, <2>2
    <3> QED BY SMT, <1>2, <2>2, <3>1
  <2> QED BY <2>1, <2>2
<1>4. StartsNow(p, st, i, sub, all) => Len(Append(all, i)) <= 1
  <2>1. StartsNow(p, st, i, sub, all) => all = <<>>
    BY DEF StartsNow
  <2> QED BY SMT, <2>1
<1> QED BY <1>1, <1>3, <1>4 DEF AddReady

\* In a serial program at most one item is found ready (processtree.go 256-299).
LEMMA ReadyOne ==
    ASSUME NEW p \in Programs, SerialProgram(p), NEW st \in [Items -> Statuses]
    PROVE  \A i, j \in Range(getNextReadyChildren(p, st, p.roots)) : i = j
<1> DEFINE G(t) == getNextReadyChildren(p, st, t)
<1> DEFINE r == p.roots
<1>1. r \in TreesOf(p) /\ r \in Seq(Items)
  BY Trees DEF TreesOf
<1>2. \A t \in TreesOf(p) : G(t) \in Seq(Items)
  <2> TAKE t \in TreesOf(p)
  <2>1. G(t) \in Seq(Startable(p, st))
    BY OnlyStartable
  <2>2. Startable(p, st) \subseteq Items
    <3>1. Range(p.roots) \subseteq Items
      BY Trees
    <3>2. \A j \in Items : Range(p.children[j]) \subseteq Items
      BY Trees
    <3> QED BY <3>1, <3>2 DEF Startable
  <2> QED BY SMT, <2>1, <2>2
<1>3. ASSUME \A i \in Items : p.children[i] = <<>>
      PROVE  Len(G(r)) <= 1
  <2> DEFINE S == {n \in Nat : n <= Len(r) =>
                      Len(G(SubSeq(r, 1, n))) <= 1 /\ G(SubSeq(r, 1, n)) \in Seq(Items)}
  <2>1. 0 \in S
    <3>1. G(SubSeq(r, 1, 0)) = <<>>
      BY <1>1, NoRound
    <3>2. <<>> \in Seq(Items) /\ Len(<<>>) <= 1 /\ 0 \in Nat
      BY SMT
    <3> QED BY <3>1, <3>2
  <2>2. ASSUME NEW n \in S PROVE n + 1 \in S
    <3>1. n \in Nat /\ n + 1 \in Nat /\ (n + 1 <= Len(r) => n <= Len(r))
      BY SMT, <1>1
    <3>2. ASSUME n + 1 <= Len(r)
          PROVE  Len(G(SubSeq(r, 1, n + 1))) <= 1 /\ G(SubSeq(r, 1, n + 1)) \in Seq(Items)
      <4>1. Len(G(SubSeq(r, 1, n))) <= 1 /\ G(SubSeq(r, 1, n)) \in Seq(Items)
        BY <2>2, <3>1, <3>2
      <4>2. /\ r[n + 1] \in Items
            /\ G(SubSeq(r, 1, n + 1)) =
                 AddReady(p, st, G(SubSeq(r, 1, n)), r[n + 1], G(p.children[r[n + 1]]))
        BY <1>1, <3>1, <3>2, Round
      <4>3. G(p.children[r[n + 1]]) = <<>>
        BY <1>1, <1>3, <4>2, NoRound
      <4>4. <<>> \in Seq(Items)
        BY SMT
      <4>5. Len(AddReady(p, st, G(SubSeq(r, 1, n)), r[n + 1], <<>>)) <= 1
        <5> HIDE DEF G
        <5> QED BY <4>1, <4>2, <4>4, RoundAddsOne DEF SerialProgram
      <4>6. AddReady(p, st, G(SubSeq(r, 1, n)), r[n + 1], <<>>) \in Seq(Items)
        <5>1. PICK x : x = G(SubSeq(r, 1, n))
          OBVIOUS
        <5>2. x \o <<>> \in Seq(Items) /\ Append(x \o <<>>, r[n + 1]) \in Seq(Items)
          BY SMT, <4>1, <4>2, <5>1
        <5> QED BY <5>1, <5>2 DEF AddReady
      <4> QED BY <4>2, <4>3, <4>5, <4>6
    <3> QED BY <3>1, <3>2
  <2>3. S = Nat
    <3> HIDE DEF S
    <3>1. S \subseteq Nat
      BY DEF S
    <3> QED BY <2>1, <2>2, <3>1, Induction
  <2>4. Len(r) \in Nat /\ Len(r) <= Len(r) /\ SubSeq(r, 1, Len(r)) = r
    BY SMT, <1>1
  <2> QED BY <2>3, <2>4
<1>4. ASSUME Len(r) = 1
      PROVE  Len(G(r)) <= 1
  <2>1. 0 \in Nat /\ 0 + 1 = 1 /\ 0 + 1 <= Len(r)
    BY SMT, <1>4
  <2>2. /\ r[1] \in Items /\ G(SubSeq(r, 1, 0)) = <<>> /\ SubSeq(r, 1, 1) = r
        /\ G(SubSeq(r, 1, 1)) = AddReady(p, st, G(SubSeq(r, 1, 0)), r[1], G(p.children[r[1]]))
    <3>1. /\ r[0 + 1] \in Items
          /\ G(SubSeq(r, 1, 0 + 1)) =
                AddReady(p, st, G(SubSeq(r, 1, 0)), r[0 + 1], G(p.children[r[0 + 1]]))
      BY <1>1, <2>1, Round
    <3>2. G(SubSeq(r, 1, 0)) = <<>> /\ SubSeq(r, 1, 1) = r
      BY <1>1, <1>4, NoRound
    <3> QED BY <2>1, <3>1, <3>2
  <2>3. G(p.children[r[1]]) \in Seq(Items)
    BY <1>2, <2>2, Trees
  <2>4. <<>> \in Seq(Items) /\ Len(<<>>) <= 1
    BY SMT
  <2>5. Len(AddReady(p, st, <<>>, r[1], G(p.children[r[1]]))) <= 1
    <3> HIDE DEF G
    <3> QED BY <2>2, <2>3, <2>4, RoundAddsOne DEF SerialProgram
  <2> QED BY <2>2, <2>5
<1>5. Len(G(r)) <= 1
  BY <1>3, <1>4 DEF SerialProgram
<1> QED
  <2>1. PICK g : g = G(r)
    OBVIOUS
  <2> QED BY SMT, <1>1, <1>2, <1>5, <2>1 DEF Range

----------------------------------------------------------------------------
(* The inductive invariant.                                                *)

\* What holds of every program: goroutines are of items of the tree, an item that is about
\* to begin has children that have succeeded, and a success in the statuses is a real one.
WorkInv ==
    /\ failed # {} => err # "nil"
    /\ waiting => exit = None
    /\ exit # None => exit \in Tree
    /\ \A i \in Items :
          /\ status[i] = "Success" => i \in succeeded
          /\ Goroutines(i) > 0 => i \in Tree
          /\ go[i].begin > 0 => Children(i) \subseteq succeeded

\* Exits are awaited only as long as not all are counted.
CountInv == (waiting \/ exit # None) /\ Tree # {} => finished < total

\* In a serial program there is one goroutine at most, or an exit that is yet to be handled;
\* an item that has begun is never found ready again, since nothing below it is active.
ItemInv(i) ==
    /\ Goroutines(i) <= 1 /\ begun[i] <= 1
    /\ go[i].begin > 0 => begun[i] = 0
    /\ go[i].run > 0 \/ go[i].send > 0 \/ i \in succeeded \/ exit = i => begun[i] > 0
    /\ begun[i] > 0 => status[i] \in {"Running"} \cup Finished
    /\ go[i].begin > 0 \/ begun[i] > 0 =>
          \A c \in Children(i) : c \in succeeded /\ status[c] \in Finished
TokenInv ==
    /\ \A i, j \in Busy : i = j
    /\ exit # None => Busy = {}
    /\ \A i \in Items : ItemInv(i)

\* The items whose success has been counted; a serial program counts no item twice.
Counted == {i \in succeeded : Goroutines(i) = 0 /\ exit # i}
SumInv ==
    /\ \A i \in Items : go[i].send > 0 \/ exit = i => i \in succeeded \cup failed
    /\ failed = {} => finished <= Cardinality(Counted)
    /\ quit /\ err = "nil" /\ expired = {} => succeeded = Tree

Inv == TypeOK /\ WorkInv /\ CountInv /\ (Serial => TokenInv /\ SumInv)

----------------------------------------------------------------------------
(* Facts about the operators of the specification.                         *)

\* The tree of a program is a finite set of items.
LEMMA TreeFinite ==
    ASSUME pt \in Programs
    PROVE  /\ Tree \subseteq Items /\ IsFiniteSet(Tree) /\ total \in Nat
           /\ \A i \in Items : Children(i) \subseteq Items
<1>1. Range(pt.roots) \subseteq Items
  BY Trees
<1>2. \A j \in Items : Range(pt.children[j]) \subseteq Items
  BY Trees
<1>3. Tree \subseteq Items
  BY <1>1, <1>2 DEF Tree, Children
<1>4. IsFiniteSet(Tree)
  BY <1>3, FS_Subset, ProgramsAssumption
<1> QED BY <1>2, <1>3, <1>4, FS_CardinalityType DEF total, Children

\* An item found ready is in the tree, pending or made the parent of a running one, and its
\* children have succeeded; in a serial program only one is found.
LEMMA ReadyFacts ==
    ASSUME pt \in Programs, status \in [Items -> Statuses]
    PROVE  /\ \A i \in Ready : /\ i \in Tree /\ status[i] \in {"Pending", "RunningChild"}
                               /\ \A c \in Children(i) : status[c] = "Success"
           /\ Serial => \A i, j \in Ready : i = j
<1>1. pt.roots \in TreesOf(pt)
  BY Trees
<1>2. PICK g : g = getNextReadyChildren(pt, status, pt.roots)
  OBVIOUS
<1>3. g \in Seq(Startable(pt, status))
  BY <1>1, <1>2, OnlyStartable
<1>4. Range(g) \subseteq Startable(pt, status)
  <2>1. PICK S : S = Startable(pt, status)
    OBVIOUS
  <2>2. Range(g) \subseteq S
    BY SMT, <1>3, <2>1 DEF Range
  <2> QED BY <2>1, <2>2
<1>5. Ready = Range(g)
  BY <1>2 DEF Ready
<1>6. \A i \in Ready : /\ i \in Tree /\ status[i] \in {"Pending", "RunningChild"}
                       /\ \A c \in Children(i) : status[c] = "Success"
  BY <1>4, <1>5 DEF Startable, Tree, Children
<1>7. Serial => SerialProgram(pt)
  BY DEF Serial, Flat, SerialProgram
<1>8. Serial => \A i, j \in Ready : i = j
  BY <1>7, ReadyOne DEF Ready
<1> QED BY <1>6, <1>8

\* A goroutine of an item is in one of its three places.
LEMMA GoType ==
    ASSUME TypeOK, NEW i \in Items
    PROVE  /\ go[i].begin \in Nat /\ go[i].run \in Nat /\ go[i].send \in Nat
           /\ Goroutines(i) \in Nat /\ begun[i] \in Nat
           /\ go[i].begin > 0 \/ go[i].run > 0 \/ go[i].send > 0 <=> Goroutines(i) > 0
           /\ Goroutines(i) = 0 <=> ~ (Goroutines(i) > 0)
           /\ Goroutines(i) <= 1 => /\ go[i].begin > 0 => go[i].run = 0 /\ go[i].send = 0
                                    /\ go[i].run > 0 => go[i].begin = 0 /\ go[i].send = 0
                                    /\ go[i].send > 0 => go[i].begin = 0 /\ go[i].run = 0
<1>1. go[i].begin \in Nat /\ go[i].run \in Nat /\ go[i].send \in Nat /\ begun[i] \in Nat
  BY SMT DEF TypeOK
<1> QED BY SMT, <1>1 DEF Goroutines

\* What the steps of a goroutine do to the goroutines: they move from place to place until
\* the item is sent.
LEMMA BeginMoves ==
    ASSUME TypeOK, NEW i \in Items, Move(i, "begin", "run")
    PROVE  /\ go' \in [Items -> [begin : Nat, run : Nat, send : Nat]]
           /\ \A j \in Items \ {i} : go'[j] = go[j]
           /\ go[i].begin > 0 /\ go'[i].begin = go[i].begin - 1 /\ go'[i].run = go[i].run + 1
           /\ go'[i].send = go[i].send
           /\ \A j \in Items : Goroutines(j)' = Goroutines(j)
<1>1. /\ go' \in [Items -> [begin : Nat, run : Nat, send : Nat]]
      /\ \A j \in Items \ {i} : go'[j] = go[j]
      /\ go[i].begin > 0 /\ go'[i].begin = go[i].begin - 1 /\ go'[i].run = go[i].run + 1
      /\ go'[i].send = go[i].send
  BY SMT DEF TypeOK, Move
<1>2. ASSUME NEW j \in Items PROVE Goroutines(j)' = Goroutines(j)
  <2>1. CASE j = i
    <3>1. go[i].begin \in Nat /\ go[i].run \in Nat /\ go[i].send \in Nat
      BY GoType
    <3> QED BY SMT, <1>1, <2>1, <3>1 DEF Goroutines
  <2>2. CASE j # i
    BY <1>1, <2>2 DEF Goroutines
  <2> QED BY <2>1, <2>2
<1> QED BY <1>1, <1>2

LEMMA ReturnMoves ==
    ASSUME TypeOK, NEW i \in Items, Move(i, "run", "send")
    PROVE  /\ go' \in [Items -> [begin : Nat, run : Nat, send : Nat]]
           /\ \A j \in Items \ {i} : go'[j] = go[j]
           /\ go[i].run > 0 /\ go'[i].run = go[i].run - 1 /\ go'[i].send = go[i].send + 1
           /\ go'[i].begin = go[i].begin
           /\ \A j \in Items : Goroutines(j)' = Goroutines(j)
<1>1. /\ go' \in [Items -> [begin : Nat, run : Nat, send : Nat]]
      /\ \A j \in Items \ {i} : go'[j] = go[j]
      /\ go[i].run > 0 /\ go'[i].run = go[i].run - 1 /\ go'[i].send = go[i].send + 1
      /\ go'[i].begin = go[i].begin
  BY SMT DEF TypeOK, Move
<1>2. ASSUME NEW j \in Items PROVE Goroutines(j)' = Goroutines(j)
  <2>1. CASE j = i
    <3>1. go[i].begin \in Nat /\ go[i].run \in Nat /\ go[i].send \in Nat
      BY GoType
    <3> QED BY SMT, <1>1, <2>1, <3>1 DEF Goroutines
  <2>2. CASE j # i
    BY <1>1, <2>2 DEF Goroutines
  <2> QED BY <2>1, <2>2
<1> QED BY <1>1, <1>2

LEMMA SendMoves ==
    ASSUME TypeOK, NEW i \in Items, Send(i)
    PROVE  /\ go' \in [Items -> [begin : Nat, run : Nat, send : Nat]]
           /\ \A j \in Items \ {i} : go'[j] = go[j] /\ Goroutines(j)' = Goroutines(j)
           /\ go[i].send > 0 /\ go'[i].send = go[i].send - 1
           /\ go'[i].begin = go[i].begin /\ go'[i].run = go[i].run
           /\ Goroutines(i) > 0 /\ Goroutines(i)' = Goroutines(i) - 1
<1>1. /\ go' \in [Items -> [begin : Nat, run : Nat, send : Nat]]
      /\ \A j \in Items \ {i} : go'[j] = go[j]
      /\ go[i].send > 0 /\ go'[i].send = go[i].send - 1
      /\ go'[i].begin = go[i].begin /\ go'[i].run = go[i].run
  BY SMT DEF TypeOK, Send
<1>2. Goroutines(i) > 0 /\ Goroutines(i)' = Goroutines(i) - 1
  <2>1. go[i].begin \in Nat /\ go[i].run \in Nat /\ go[i].send \in Nat
    BY GoType
  <2> QED BY SMT, <1>1, <2>1 DEF Goroutines
<1>3. \A j \in Items \ {i} : Goroutines(j)' = Goroutines(j)
  BY <1>1 DEF Goroutines
<1> QED BY <1>1, <1>2, <1>3

LEMMA ExitMoves ==
    ASSUME TypeOK, ExitMsg
    PROVE  /\ go' \in [Items -> [begin : Nat, run : Nat, send : Nat]]
           /\ \A i \in Items :
                 /\ go'[i].run = go[i].run /\ go'[i].send = go[i].send
                 /\ i \notin Ready => go'[i].begin = go[i].begin /\ Goroutines(i)' = Goroutines(i)
                 /\ \/ go'[i].begin = go[i].begin /\ Goroutines(i)' = Goroutines(i)
                    \/ go'[i].begin = go[i].begin + 1 /\ Goroutines(i)' = Goroutines(i) + 1
<1>1. PICK S : S = IF total = finished' THEN {} ELSE Ready
  OBVIOUS
<1>2. go' = [i \in Items |-> [go[i] EXCEPT !.begin = @ + IF i \in S THEN 1 ELSE 0]]
  BY <1>1 DEF ExitMsg
<1>3. go \in [Items -> [begin : Nat, run : Nat, send : Nat]]
  BY DEF TypeOK
<1>4. go' \in [Items -> [begin : Nat, run : Nat, send : Nat]]
  BY SMT, <1>2, <1>3
<1>5. \A i \in Items :
         /\ go'[i].run = go[i].run /\ go'[i].send = go[i].send
         /\ i \notin S => go'[i].begin = go[i].begin
         /\ go'[i].begin = go[i].begin \/ go'[i].begin = go[i].begin + 1
  BY SMT, <1>2, <1>3
<1>6. \A i \in Items : /\ go'[i].begin = go[i].begin => Goroutines(i)' = Goroutines(i)
                       /\ go'[i].begin = go[i].begin + 1 => Goroutines(i)' = Goroutines(i) + 1
  <2> TAKE i \in Items
  <2>1. go[i].begin \in Nat /\ go[i].run \in Nat /\ go[i].send \in Nat
    BY GoType
  <2> QED BY SMT, <1>5, <2>1 DEF Goroutines
<1>7. S \subseteq Ready
  BY <1>1
<1> QED BY <1>4, <1>5, <1>6, <1>7

\* A step leaves the program as it is, and with it the tree and the mode.
LEMMA ProgramKept ==
    ASSUME [Next]_vars
    PROVE  /\ pt' = pt /\ Tree' = Tree /\ total' = total /\ (Serial' <=> Serial)
           /\ \A i : Children(i)' = Children(i)
<1>1. pt' = pt
  BY DEF Next, vars, Begin, Succeed, Fail, Send, Elapse, ExitMsg, TickMsg, CtrlC, QuitMsg, View
<1>2. \A i : Children(i)' = Children(i)
  BY <1>1 DEF Children
<1>3. Tree' = Tree
  BY <1>1 DEF Tree, Children
<1>4. total' = total
  BY <1>3 DEF total
<1>5. Serial' <=> Serial
  BY <1>1 DEF Serial, Flat
<1> QED BY <1>1, <1>2, <1>3, <1>4, <1>5

\* Rendering makes a parent's status from its children's: it never makes a success, and it
\* makes an item active only when a child is (view.go 64-90).
LEMMA ShownFacts ==
    ASSUME TypeOK, NEW i \in Items
    PROVE  /\ Shown(i) \in Statuses
           /\ Shown(i) = "Success" => status[i] = "Success"
           /\ (\A c \in Children(i) : status[c] \in Finished) =>
                 Shown(i) \in {status[i], "FailedChild"}
<1>1. Shown(i) \in {status[i], "RunningButAChildHasFailed", "RunningChild", "FailedChild"}
  BY DEF Shown
<1>2. status[i] \in Statuses
  BY DEF TypeOK
<1>3. (\A c \in Children(i) : status[c] \in Finished) =>
         ~ (\E c \in Children(i) : status[c] \in Active)
  BY DEF Finished, Active
<1>4. ~ (\E c \in Children(i) : status[c] \in Active) => Shown(i) \in {status[i], "FailedChild"}
  BY DEF Shown
<1> QED BY <1>1, <1>2, <1>3, <1>4 DEF Statuses, Active, Finished

\* Counting an exit stays within the total (update.go 75-84).
LEMMA Counts ==
    ASSUME Inv, ExitMsg
    PROVE  /\ finished' \in 0 .. total /\ (total # finished' => finished' < total)
           /\ finished' = finished \/ finished' = finished + 1
<1>1. finished < total /\ total \in Nat /\ finished \in 0 .. total
  <2>1. exit # None /\ exit \in Tree
    BY DEF ExitMsg, Inv, WorkInv
  <2> QED BY <2>1, TreeFinite DEF Inv, CountInv, TypeOK
<1>2. finished' = finished \/ finished' = finished + 1
  <2>1. finished + 0 = finished
    BY SMT, <1>1
  <2> QED BY <2>1 DEF ExitMsg
<1> QED BY SMT, <1>1, <1>2

LEMMA TypeKept ==
    ASSUME Inv, [Next]_vars
    PROVE  TypeOK'
<1>1. TypeOK
  BY DEF Inv
<1>2. pt' = pt /\ Tree' = Tree /\ total' = total
  BY ProgramKept
<1>3. Tree \subseteq Items
  BY <1>1, TreeFinite DEF TypeOK
<1>4. ASSUME NEW i \in Items, Begin(i) PROVE TypeOK'
  <2>1. go' \in [Items -> [begin : Nat, run : Nat, send : Nat]]
    BY <1>1, <1>4, BeginMoves DEF Begin
  <2>2. status' \in [Items -> Statuses]
    BY <1>1, <1>4 DEF Begin, TypeOK, Statuses, Active
  <2>3. begun' \in [Items -> Nat]
    BY SMT, <1>1, <1>4 DEF Begin, TypeOK
  <2> QED BY <1>1, <1>2, <1>4, <2>1, <2>2, <2>3 DEF Begin, TypeOK
<1>5. ASSUME NEW i \in Items, Succeed(i) \/ Fail(i) PROVE TypeOK'
  <2>1. Move(i, "run", "send")
    BY <1>5 DEF Succeed, Fail
  <2>2. go' \in [Items -> [begin : Nat, run : Nat, send : Nat]]
    BY <1>1, <2>1, ReturnMoves
  <2>3. i \in Tree
    <3>1. Goroutines(i) > 0
      BY <1>1, <2>1, GoType, ReturnMoves
    <3> QED BY <3>1 DEF Inv, WorkInv
  <2>4. CASE Succeed(i)
    <3>1. status' \in [Items -> Statuses]
      BY <1>1, <2>4 DEF Succeed, TypeOK, Statuses, Finished
    <3> QED BY <1>1, <1>2, <2>2, <2>3, <2>4, <3>1 DEF Succeed, TypeOK
  <2>5. CASE Fail(i)
    <3>1. status' \in [Items -> Statuses]
      BY <1>1, <2>5 DEF Fail, TypeOK, Statuses, Finished
    <3>2. quitting' \in BOOLEAN
      BY <2>5 DEF Fail
    <3> QED BY <1>1, <1>2, <2>2, <2>3, <2>5, <3>1, <3>2 DEF Fail, TypeOK
  <2> QED BY <1>5, <2>4, <2>5
<1>6. ASSUME NEW i \in Items, Send(i) PROVE TypeOK'
  <2>1. go' \in [Items -> [begin : Nat, run : Nat, send : Nat]]
    BY <1>1, <1>6, SendMoves
  <2> QED BY <1>1, <1>2, <1>6, <2>1 DEF Send, TypeOK, history
<1>7. ASSUME NEW i \in Items, Elapse(i) PROVE TypeOK'
  BY <1>1, <1>2, <1>7 DEF Elapse, TypeOK, history
<1>8. CASE ExitMsg
  <2>1. go' \in [Items -> [begin : Nat, run : Nat, send : Nat]]
    BY <1>1, <1>8, ExitMoves
  <2>2. finished' \in 0 .. total
    BY <1>8, Counts
  <2> QED BY <1>1, <1>2, <1>8, <2>1, <2>2 DEF ExitMsg, TypeOK, history
<1>9. CASE TickMsg
  <2>1. status' \in [Items -> Statuses]
    BY <1>1, <1>9 DEF TickMsg, TypeOK, Statuses, Finished
  <2> QED BY <1>1, <1>2, <1>9, <2>1 DEF TickMsg, TypeOK, history
<1>10. CASE CtrlC
  BY <1>1, <1>2, <1>10 DEF CtrlC, TypeOK, history
<1>11. CASE QuitMsg
  BY <1>1, <1>2, <1>11 DEF QuitMsg, TypeOK, history
<1>12. CASE View
  <2>1. status' \in [Items -> Statuses]
    <3>1. status' = [i \in Items |-> IF pt.norender THEN status[i] ELSE Shown(i)]
      BY <1>12 DEF View
    <3>2. \A i \in Items : Shown(i) \in Statuses /\ status[i] \in Statuses
      BY <1>1, ShownFacts DEF TypeOK
    <3> QED BY <3>1, <3>2
  <2> QED BY <1>1, <1>2, <1>12, <2>1 DEF View, TypeOK, history
<1>13. CASE UNCHANGED vars
  BY <1>1, <1>2, <1>13 DEF vars, TypeOK
<1> QED BY <1>4, <1>5, <1>6, <1>7, <1>8, <1>9, <1>10, <1>11, <1>12, <1>13 DEF Next

\* Which items' success the statuses show: a step makes a success only for the item whose
\* process returns one.
LEMMA SuccessIsReal ==
    ASSUME Inv, [Next]_vars, NEW j \in Items, status'[j] = "Success"
    PROVE  j \in succeeded' /\ (status[j] = "Success" \/ Succeed(j))
<1>1. TypeOK /\ (status[j] = "Success" => j \in succeeded)
  BY DEF Inv, WorkInv
<1>2. succeeded \subseteq succeeded'
  BY DEF Next, vars, history, Begin, Succeed, Fail, Send, Elapse, ExitMsg, TickMsg, CtrlC, QuitMsg, View
<1>3. ASSUME NEW i \in Items, Begin(i) PROVE status[j] = "Success"
  BY <1>1, <1>3 DEF Begin, TypeOK
<1>4. ASSUME NEW i \in Items, Succeed(i)
      PROVE  status[j] = "Success" \/ (Succeed(j) /\ j \in succeeded')
  BY <1>1, <1>4 DEF Succeed, TypeOK
<1>5. ASSUME NEW i \in Items, Fail(i) PROVE status[j] = "Success"
  BY <1>1, <1>5 DEF Fail, TypeOK
<1>6. ASSUME status' = status PROVE status[j] = "Success"
  BY <1>6
<1>7. ASSUME TickMsg PROVE status[j] = "Success"
  BY <1>1, <1>7 DEF TickMsg, TypeOK
<1>8. ASSUME View PROVE status[j] = "Success"
  <2>1. Shown(j) = "Success" => status[j] = "Success"
    BY <1>1, ShownFacts
  <2> QED BY <1>8, <2>1 DEF View
<1>9. (\E i \in Items : Send(i) \/ Elapse(i)) \/ ExitMsg \/ CtrlC \/ QuitMsg \/ UNCHANGED vars
         => status' = status
  BY DEF Send, Elapse, ExitMsg, CtrlC, QuitMsg, vars
<1> QED BY <1>1, <1>2, <1>3, <1>4, <1>5, <1>6, <1>7, <1>8, <1>9 DEF Next

\* A step that handles no exit puts no item among those to begin, and adds no goroutine.
LEMMA NoneAdded ==
    ASSUME Inv, [Next]_vars, ~ExitMsg, NEW j \in Items
    PROVE  /\ go'[j].begin > 0 => go[j].begin > 0
           /\ (Goroutines(j) > 0)' => Goroutines(j) > 0
<1>1. TypeOK
  BY DEF Inv
<1>2. ASSUME NEW i \in Items, Begin(i)
      PROVE  (go'[j].begin > 0 => go[j].begin > 0) /\ Goroutines(j)' = Goroutines(j)
  <2>1. Move(i, "begin", "run")
    BY <1>2 DEF Begin
  <2>2. go'[j].begin > 0 => go[j].begin > 0
    BY <1>1, <2>1, BeginMoves
  <2> QED BY <1>1, <2>1, <2>2, BeginMoves
<1>3. ASSUME NEW i \in Items, Succeed(i) \/ Fail(i)
      PROVE  go'[j].begin = go[j].begin /\ Goroutines(j)' = Goroutines(j)
  <2>1. Move(i, "run", "send")
    BY <1>3 DEF Succeed, Fail
  <2> QED BY <1>1, <2>1, ReturnMoves
<1>4. ASSUME NEW i \in Items, Send(i)
      PROVE  go'[j].begin = go[j].begin /\ ((Goroutines(j) > 0)' => Goroutines(j) > 0)
  <2>1. go'[j].begin = go[j].begin
    BY <1>1, <1>4, SendMoves
  <2>2. CASE j = i
    BY <1>1, <1>4, <2>1, <2>2, SendMoves
  <2>3. CASE j # i
    BY <1>1, <1>4, <2>1, <2>3, SendMoves
  <2> QED BY <2>2, <2>3
<1>5. (\E i \in Items : Elapse(i)) \/ TickMsg \/ CtrlC \/ QuitMsg \/ View \/ UNCHANGED vars
         => go' = go
  BY DEF Elapse, TickMsg, CtrlC, QuitMsg, View, vars
<1>6. go' = go => go'[j].begin = go[j].begin /\ Goroutines(j)' = Goroutines(j)
  BY DEF Goroutines
<1> QED BY <1>2, <1>3, <1>4, <1>5, <1>6 DEF Next

LEMMA WorkKept ==
    ASSUME Inv, [Next]_vars
    PROVE  WorkInv'
<1>1. TypeOK /\ WorkInv /\ pt \in Programs /\ status \in [Items -> Statuses]
  BY DEF Inv, TypeOK
<1>2. Tree' = Tree /\ Tree \subseteq Items
  BY <1>1, ProgramKept, TreeFinite
<1>3. (failed # {} => err # "nil")'
  BY <1>1 DEF WorkInv, Next, vars, history, Begin, Succeed, Fail, Send, Elapse, ExitMsg, TickMsg,
              CtrlC, QuitMsg, View
<1>4. (waiting => exit = None)'
  BY <1>1 DEF WorkInv, Next, vars, history, Begin, Succeed, Fail, Send, Elapse, ExitMsg, TickMsg,
              CtrlC, QuitMsg, View
<1>5. (exit # None => exit \in Tree)'
  <2>1. ASSUME NEW i \in Items, Send(i) PROVE exit' \in Tree
    BY <1>1, <2>1, SendMoves DEF Send, WorkInv
  <2>2. ExitMsg => exit' = None
    BY DEF ExitMsg
  <2>3. exit' = exit \/ ExitMsg \/ \E i \in Items : Send(i)
    BY DEF Next, vars, Begin, Succeed, Fail, Elapse, TickMsg, CtrlC, QuitMsg, View
  <2> QED BY <1>1, <1>2, <2>1, <2>2, <2>3 DEF WorkInv
<1>6. ASSUME NEW j \in Items
      PROVE  (/\ status[j] = "Success" => j \in succeeded
              /\ Goroutines(j) > 0 => j \in Tree
              /\ go[j].begin > 0 => Children(j) \subseteq succeeded)'
  <2>1. (status[j] = "Success" => j \in succeeded)'
    BY SuccessIsReal
  <2>2. Children(j)' = Children(j) /\ Children(j) \subseteq Items
    BY <1>1, ProgramKept, TreeFinite
  <2>3. succeeded \subseteq succeeded'
    BY DEF Next, vars, history, Begin, Succeed, Fail, Send, Elapse, ExitMsg, TickMsg, CtrlC, QuitMsg, View
  <2>4. CASE ~ExitMsg
    BY <1>1, <1>2, <2>1, <2>2, <2>3, <2>4, NoneAdded DEF WorkInv
  <2>5. CASE ExitMsg
    <3>1. CASE j \in Ready
      <4>1. j \in Tree /\ \A c \in Children(j) : status[c] = "Success"
        BY <1>1, <3>1, ReadyFacts
      <4>2. Children(j) \subseteq succeeded
        BY <1>1, <2>2, <4>1 DEF WorkInv
      <4> QED BY <1>2, <2>1, <2>2, <2>3, <4>1, <4>2
    <3>2. CASE j \notin Ready
      <4>1. go'[j].begin = go[j].begin /\ Goroutines(j)' = Goroutines(j)
        BY <1>1, <2>5, <3>2, ExitMoves
      <4> QED BY <1>1, <1>2, <2>1, <2>2, <2>3, <4>1 DEF WorkInv
    <3> QED BY <3>1, <3>2
  <2> QED BY <2>4, <2>5
<1> QED BY <1>3, <1>4, <1>5, <1>6 DEF WorkInv

LEMMA CountKept ==
    ASSUME Inv, [Next]_vars
    PROVE  CountInv'
<1>1. Tree' = Tree /\ total' = total
  BY ProgramKept
<1>2. CASE ExitMsg
  <2>1. total # finished' => finished' < total
    BY <1>2, Counts
  <2>2. waiting' = (total # finished') /\ exit' = None
    BY <1>2 DEF ExitMsg
  <2> QED BY <1>1, <2>1, <2>2 DEF CountInv
<1>3. CASE ~ExitMsg
  <2>1. finished' = finished
    BY <1>3 DEF Next, vars, Begin, Succeed, Fail, Send, Elapse, TickMsg, CtrlC, QuitMsg, View
  <2>2. (waiting' = waiting /\ exit' = exit) \/ \E i \in Items : Send(i)
    BY <1>3 DEF Next, vars, Begin, Succeed, Fail, Elapse, TickMsg, CtrlC, QuitMsg, View
  <2>3. (\E i \in Items : Send(i)) => waiting /\ ~waiting'
    BY DEF Send
  <2> QED BY <1>1, <2>1, <2>2, <2>3 DEF CountInv, Inv
<1> QED BY <1>2, <1>3

\* The steps of the event loop that start nothing change statuses only: a timeout makes them
\* failures, and rendering leaves those of items that have begun (view.go 64-90).
LEMMA LoopKeepsToken ==
    ASSUME Inv, [Next]_vars, Serial, go' = go, begun' = begun, exit' = exit, succeeded' = succeeded,
           TickMsg \/ View \/ status' = status
    PROVE  TokenInv'
<1>1. TypeOK /\ TokenInv /\ pt \in Programs
  BY DEF Inv, TypeOK
<1>2. \A i \in Items : Children(i)' = Children(i) /\ Children(i) \subseteq Items
  BY <1>1, ProgramKept, TreeFinite
<1>3. \A i : Goroutines(i)' = Goroutines(i)
  BY DEF Goroutines
<1>4. Busy' = Busy
  BY <1>3 DEF Busy
<1>5. ASSUME NEW i \in Items, begun[i] > 0
      PROVE  /\ status'[i] \in {"Running"} \cup Finished
             /\ status[i] \in Finished => status'[i] \in Finished
  <2>1. status[i] \in {"Running"} \cup Finished /\ \A c \in Children(i) : status[c] \in Finished
    BY <1>1, <1>5 DEF TokenInv, ItemInv
  <2>2. CASE TickMsg
    BY <1>1, <2>1, <2>2 DEF TickMsg, Finished
  <2>3. CASE View
    <3>1. Shown(i) \in {status[i], "FailedChild"}
      BY <1>1, <2>1, ShownFacts
    <3>2. status'[i] \in {status[i], "FailedChild"}
      BY <2>3, <3>1 DEF View
    <3> QED BY <2>1, <3>2 DEF Finished
  <2>4. CASE status' = status
    BY <2>1, <2>4
  <2> QED BY <2>2, <2>3, <2>4
<1>6. ASSUME NEW i \in Items PROVE ItemInv(i)'
  <2>1. ItemInv(i)
    BY <1>1 DEF TokenInv
  <2>2. begun[i] > 0 => status'[i] \in {"Running"} \cup Finished
    BY <1>5
  <2>3. ASSUME go[i].begin > 0 \/ begun[i] > 0, NEW c \in Children(i)
        PROVE  c \in succeeded /\ status'[c] \in Finished
    <3>1. c \in Items /\ c \in succeeded /\ status[c] \in Finished
      BY <1>2, <2>1, <2>3 DEF ItemInv
    <3>2. begun[c] > 0
      BY <1>1, <3>1 DEF TokenInv, ItemInv
    <3> QED BY <1>5, <3>1, <3>2
  <2> QED BY <1>2, <1>3, <2>1, <2>2, <2>3 DEF ItemInv
<1> QED BY <1>1, <1>4, <1>6 DEF TokenInv

LEMMA TokenKept ==
    ASSUME Inv, [Next]_vars, Serial
    PROVE  TokenInv'
<1>1. TypeOK /\ TokenInv /\ WorkInv /\ pt \in Programs /\ status \in [Items -> Statuses]
  BY DEF Inv, TypeOK
<1>2. \A i \in Items : Children(i)' = Children(i) /\ Children(i) \subseteq Items
  BY <1>1, ProgramKept, TreeFinite
<1>3. ASSUME NEW i \in Items, Begin(i) PROVE TokenInv'
  <2>1. Move(i, "begin", "run")
    BY <1>3 DEF Begin
  <2>2. /\ \A j \in Items : Goroutines(j)' = Goroutines(j)
        /\ \A j \in Items \ {i} : go'[j] = go[j]
        /\ go[i].begin > 0 /\ go'[i].begin = go[i].begin - 1
    BY <1>1, <2>1, BeginMoves
  <2>3. Busy' = Busy
    BY <2>2 DEF Busy
  <2>4. ItemInv(i) /\ begun[i] = 0
    BY <1>1, <2>2 DEF TokenInv, ItemInv
  <2>5. ~ (go'[i].begin > 0)
    <3>1. Goroutines(i) <= 1
      BY <2>4 DEF ItemInv
    <3> QED BY SMT, <1>1, <2>2, <3>1, GoType DEF Goroutines
  <2>6. begun' = [begun EXCEPT ![i] = 1]
    <3>1. 0 + 1 = 1
      BY SMT
    <3> QED BY <1>3, <2>4, <3>1 DEF Begin
  <2>7. begun'[i] = 1 /\ \A j \in Items \ {i} : begun'[j] = begun[j]
    BY <1>1, <2>6 DEF TypeOK
  <2>8. status'[i] = "Running" /\ \A j \in Items \ {i} : status'[j] = status[j]
    BY <1>1, <1>3 DEF Begin, TypeOK
  <2>9. i \notin succeeded
    <3>1. ~ (begun[i] > 0)
      BY SMT, <2>4
    <3> QED BY <2>4, <3>1 DEF ItemInv
  <2>10. succeeded' = succeeded /\ exit' = exit
    BY <1>3 DEF Begin
  <2>11. ASSUME NEW j \in Items, go[j].begin > 0 \/ begun[j] > 0, NEW c \in Children(j)
         PROVE  c \in succeeded' /\ status'[c] \in Finished
    <3>1. c \in Items /\ c \in succeeded /\ status[c] \in Finished
      BY <1>1, <1>2, <2>11 DEF TokenInv, ItemInv
    <3> QED BY <2>8, <2>9, <2>10, <3>1
  <2>12. ASSUME NEW j \in Items PROVE ItemInv(j)'
    <3>1. CASE j = i
      <4>1. begun'[i] <= 1 /\ begun'[i] > 0
        BY SMT, <2>7
      <4>2. Goroutines(i)' <= 1
        BY <2>2, <2>4 DEF ItemInv
      <4>3. \A c \in Children(i)' : c \in succeeded' /\ status'[c] \in Finished
        BY <1>2, <2>2, <2>11
      <4> QED BY <2>5, <2>8, <3>1, <4>1, <4>2, <4>3 DEF ItemInv
    <3>2. CASE j # i
      <4>1. ItemInv(j)
        BY <1>1 DEF TokenInv
      <4>2. go'[j] = go[j] /\ begun'[j] = begun[j] /\ status'[j] = status[j]
        BY <2>2, <2>7, <2>8, <3>2
      <4>3. go[j].begin > 0 \/ begun[j] > 0 =>
               \A c \in Children(j)' : c \in succeeded' /\ status'[c] \in Finished
        BY <1>2, <2>11
      <4> QED BY <2>2, <2>10, <4>1, <4>2, <4>3 DEF ItemInv
    <3> QED BY <3>1, <3>2
  <2> QED BY <1>1, <2>3, <2>10, <2>12 DEF TokenInv
<1>4. ASSUME NEW i \in Items, Succeed(i) \/ Fail(i) PROVE TokenInv'
  <2>1. Move(i, "run", "send")
    BY <1>4 DEF Succeed, Fail
  <2>2. /\ \A j \in Items : Goroutines(j)' = Goroutines(j)
        /\ \A j \in Items \ {i} : go'[j] = go[j]
        /\ go[i].run > 0 /\ go'[i].begin = go[i].begin
    BY <1>1, <2>1, ReturnMoves
  <2>3. Busy' = Busy
    BY <2>2 DEF Busy
  <2>4. ItemInv(i) /\ begun[i] > 0
    BY <1>1, <2>2 DEF TokenInv, ItemInv
  <2>5. status'[i] \in Finished /\ \A j \in Items \ {i} : status'[j] = status[j]
    BY <1>1, <1>4 DEF Succeed, Fail, TypeOK, Finished
  <2>6. begun' = begun /\ exit' = exit /\ succeeded \subseteq succeeded'
    BY <1>4 DEF Succeed, Fail
  <2>7. succeeded' \subseteq succeeded \cup {i}
    BY <1>4 DEF Succeed, Fail
  <2>8. ASSUME NEW j \in Items, go[j].begin > 0 \/ begun[j] > 0, NEW c \in Children(j)
        PROVE  c \in succeeded' /\ status'[c] \in Finished
    <3>1. c \in Items /\ c \in succeeded /\ status[c] \in Finished
      BY <1>1, <1>2, <2>8 DEF TokenInv, ItemInv
    <3> QED BY <2>5, <2>6, <3>1
  <2>9. ASSUME NEW j \in Items PROVE ItemInv(j)'
    <3>1. ItemInv(j)
      BY <1>1 DEF TokenInv
    <3>2. go[j].begin > 0 \/ begun[j] > 0 =>
             \A c \in Children(j)' : c \in succeeded' /\ status'[c] \in Finished
      BY <1>2, <2>8
    <3>3. CASE j = i
      BY <2>2, <2>4, <2>5, <2>6, <3>1, <3>2, <3>3 DEF ItemInv
    <3>4. CASE j # i
      <4>1. go'[j] = go[j] /\ status'[j] = status[j] /\ (j \in succeeded' => j \in succeeded)
        BY <2>2, <2>5, <2>7, <3>4
      <4> QED BY <2>2, <2>6, <3>1, <3>2, <4>1 DEF ItemInv
    <3> QED BY <3>3, <3>4
  <2> QED BY <1>1, <2>3, <2>6, <2>9 DEF TokenInv
<1>5. ASSUME NEW i \in Items, Send(i) PROVE TokenInv'
  <2>1. /\ \A j \in Items \ {i} : go'[j] = go[j] /\ Goroutines(j)' = Goroutines(j)
        /\ go[i].send > 0 /\ go'[i].begin = go[i].begin /\ go'[i].run = go[i].run
        /\ Goroutines(i) > 0 /\ Goroutines(i)' = Goroutines(i) - 1
    BY <1>1, <1>5, SendMoves
  <2>2. ItemInv(i) /\ begun[i] > 0 /\ Goroutines(i) <= 1
    BY <1>1, <2>1 DEF TokenInv, ItemInv
  <2>3. ~ (Goroutines(i) > 0)' /\ Goroutines(i)' <= 1
    <3>1. Goroutines(i) \in Nat
      BY <1>1, GoType
    <3> QED BY SMT, <2>1, <2>2, <3>1
  <2>4. \A j \in Busy : j = i
    BY <1>1, <2>1 DEF TokenInv, Busy
  <2>5. Busy' = {}
    BY <2>1, <2>3, <2>4 DEF Busy
  <2>6. begun' = begun /\ status' = status /\ succeeded' = succeeded /\ exit' = i
    BY <1>5 DEF Send, history
  <2>7. ASSUME NEW j \in Items PROVE ItemInv(j)'
    <3>1. ItemInv(j)
      BY <1>1 DEF TokenInv
    <3>2. CASE j = i
      BY <1>2, <2>1, <2>2, <2>3, <2>6, <3>1, <3>2 DEF ItemInv
    <3>3. CASE j # i
      BY <1>2, <2>1, <2>6, <3>1, <3>3 DEF ItemInv
    <3> QED BY <3>2, <3>3
  <2> QED BY <2>5, <2>7 DEF TokenInv
<1>6. CASE ExitMsg
  <2>1. exit # None /\ exit' = None /\ begun' = begun /\ status' = status /\ succeeded' = succeeded
    BY <1>6 DEF ExitMsg, history
  <2>2. \A j \in Items : Goroutines(j) = 0
    <3>1. Busy = {}
      BY <1>1, <2>1 DEF TokenInv
    <3> QED BY <1>1, <3>1, GoType DEF Busy
  <2>3. \A j \in Items : ~ (go[j].begin > 0)
    BY <1>1, <2>2, GoType
  <2>4. \A j \in Items : /\ go'[j].run = go[j].run /\ go'[j].send = go[j].send
                         /\ j \notin Ready => go'[j].begin = go[j].begin /\ Goroutines(j)' = Goroutines(j)
                         /\ Goroutines(j)' = Goroutines(j) \/ Goroutines(j)' = Goroutines(j) + 1
    BY <1>1, <1>6, ExitMoves
  <2>5. \A j \in Items : (Goroutines(j) > 0)' => j \in Ready
    <3> TAKE j \in Items
    <3>1. ~ (Goroutines(j) > 0)
      BY <1>1, <2>2, GoType
    <3> QED BY <2>4, <3>1
  <2>6. \A j, k \in Ready : j = k
    BY <1>1, ReadyFacts
  <2>7. \A j, k \in Busy' : j = k
    BY <2>5, <2>6 DEF Busy
  <2>8. ASSUME NEW j \in Items PROVE ItemInv(j)'
    <3>1. ItemInv(j)
      BY <1>1 DEF TokenInv
    <3>2. Goroutines(j)' <= 1
      BY SMT, <2>2, <2>4
    <3>3. j \in succeeded => begun[j] > 0
      BY <3>1 DEF ItemInv
    <3>4. exit' # j
      BY <2>1, ProgramsAssumption
    <3>5. CASE j \in Ready
      <4>1. status[j] \in {"Pending", "RunningChild"} /\ \A c \in Children(j) : status[c] = "Success"
        BY <1>1, <3>5, ReadyFacts
      <4>2. ~ (begun[j] > 0)
        BY <3>1, <4>1 DEF ItemInv, Finished
      <4>3. begun[j] = 0
        BY <1>1, <4>2, SMT, GoType
      <4>4. \A c \in Children(j)' : c \in succeeded' /\ status'[c] \in Finished
        BY <1>1, <1>2, <2>1, <4>1 DEF WorkInv, Finished
      <4> QED BY <2>1, <2>4, <3>1, <3>2, <3>3, <3>4, <4>2, <4>3, <4>4 DEF ItemInv
    <3>6. CASE j \notin Ready
      <4>1. go'[j].begin = go[j].begin
        BY <2>4, <3>6
      <4> QED BY <1>2, <2>1, <2>4, <3>1, <3>2, <3>4, <4>1 DEF ItemInv
    <3> QED BY <3>5, <3>6
  <2> QED BY <2>1, <2>7, <2>8 DEF TokenInv
<1>7. ASSUME (\E i \in Items : Elapse(i)) \/ TickMsg \/ CtrlC \/ QuitMsg \/ View \/ UNCHANGED vars
      PROVE  TokenInv'
  <2>1. go' = go /\ begun' = begun /\ exit' = exit /\ succeeded' = succeeded
    BY <1>7 DEF Elapse, TickMsg, CtrlC, QuitMsg, View, vars, history
  <2>2. TickMsg \/ View \/ status' = status
    BY <1>7 DEF Elapse, CtrlC, QuitMsg, vars
  <2> QED BY <2>1, <2>2, LoopKeepsToken
<1> QED BY <1>3, <1>4, <1>5, <1>6, <1>7 DEF Next

\* Items return before they are sent, with a success or a failure.
LEMMA ReturnsKept ==
    ASSUME Inv, [Next]_vars, Serial, NEW j \in Items, go'[j].send > 0 \/ exit' = j
    PROVE  j \in succeeded' \cup failed'
<1>1. TypeOK /\ (go[j].send > 0 \/ exit = j => j \in succeeded \cup failed)
  BY DEF Inv, SumInv
<1>2. succeeded \subseteq succeeded' /\ failed \subseteq failed'
  BY DEF Next, vars, history, Begin, Succeed, Fail, Send, Elapse, ExitMsg, TickMsg, CtrlC, QuitMsg, View
<1>3. ASSUME NEW i \in Items, Begin(i) PROVE go'[j].send = go[j].send /\ exit' = exit
  <2>1. Move(i, "begin", "run") /\ exit' = exit
    BY <1>3 DEF Begin
  <2> QED BY <1>1, <2>1, BeginMoves
<1>4. ASSUME NEW i \in Items, Succeed(i) \/ Fail(i) PROVE j \in succeeded' \cup failed'
  <2>1. Move(i, "run", "send") /\ exit' = exit /\ i \in succeeded' \cup failed'
    BY <1>4 DEF Succeed, Fail
  <2>2. j # i => go'[j] = go[j]
    BY <1>1, <2>1, ReturnMoves
  <2> QED BY <1>1, <1>2, <2>1, <2>2
<1>5. ASSUME NEW i \in Items, Send(i) PROVE go[j].send > 0
  <2>1. go[i].send > 0 /\ (j # i => go'[j] = go[j]) /\ exit' = i
    BY <1>1, <1>5, SendMoves DEF Send
  <2> QED BY <2>1
<1>6. ASSUME ExitMsg PROVE go[j].send > 0
  <2>1. go'[j].send = go[j].send /\ exit' = None
    BY <1>1, <1>6, ExitMoves DEF ExitMsg
  <2> QED BY <2>1, ProgramsAssumption
<1>7. (\E i \in Items : Elapse(i)) \/ TickMsg \/ CtrlC \/ QuitMsg \/ View \/ UNCHANGED vars
         => go' = go /\ exit' = exit
  BY DEF Elapse, TickMsg, CtrlC, QuitMsg, View, vars
<1> QED BY <1>1, <1>2, <1>3, <1>4, <1>5, <1>6, <1>7 DEF Next

\* The items counted are finitely many.
LEMMA CountedFinite ==
    ASSUME TypeOK
    PROVE  IsFiniteSet(Counted) /\ Counted \subseteq Tree /\ Cardinality(Counted) \in Nat
<1>1. Counted \subseteq Tree
  BY DEF Counted, TypeOK
<1>2. IsFiniteSet(Counted)
  BY <1>1, TreeFinite, FS_Subset DEF TypeOK
<1> QED BY <1>1, <1>2, FS_CardinalityType

\* Only the handling of an exit counts an item, and it counts one that was not counted yet
\* (update.go 72-80).
LEMMA CountedKept ==
    ASSUME Inv, [Next]_vars, Serial, failed' = {}
    PROVE  IF ExitMsg THEN Counted' = Counted \cup {exit} /\ exit \notin Counted
                      ELSE Counted' = Counted
<1>1. TypeOK /\ TokenInv /\ SumInv /\ WorkInv
  BY DEF Inv
<1>2. failed = {}
  BY DEF Next, vars, history, Begin, Succeed, Fail, Send, Elapse, ExitMsg, TickMsg, CtrlC, QuitMsg, View
<1>3. Tree \subseteq Items /\ succeeded \subseteq Items
  BY <1>1, TreeFinite DEF TypeOK
<1>4. CASE ExitMsg
  <2>1. exit \in Items /\ exit' = None /\ succeeded' = succeeded
    BY <1>1, <1>4 DEF ExitMsg, TypeOK, history
  <2>2. exit \in succeeded
    BY <1>1, <1>2, <2>1 DEF SumInv
  <2>3. ASSUME NEW j \in succeeded PROVE Goroutines(j)' = 0 /\ Goroutines(j) = 0
    <3>1. begun[j] > 0
      BY <1>1, <1>3, <2>3 DEF TokenInv, ItemInv
    <3>2. status[j] \notin {"Pending", "RunningChild"}
      BY <1>1, <1>3, <3>1 DEF TokenInv, ItemInv, Finished
    <3>3. j \notin Ready
      BY <1>1, <3>2, ReadyFacts DEF TypeOK
    <3>4. Goroutines(j)' = Goroutines(j)
      BY <1>1, <1>3, <1>4, <3>3, ExitMoves
    <3>5. ~ (Goroutines(j) > 0)
      BY <1>1, <1>3, <1>4 DEF TokenInv, Busy, ExitMsg
    <3>6. Goroutines(j) = 0
      BY <1>1, <1>3, <3>5, GoType
    <3> QED BY <3>4, <3>6
  <2>4. None \notin succeeded
    BY <1>3, ProgramsAssumption
  <2>5. Counted' = succeeded
    BY <2>1, <2>3, <2>4 DEF Counted
  <2>6. Counted = succeeded \ {exit}
    BY <2>3 DEF Counted
  <2> QED BY <1>4, <2>2, <2>5, <2>6
<1>5. ASSUME NEW i \in Items, Begin(i) PROVE Counted' = Counted
  <2>1. Move(i, "begin", "run") /\ exit' = exit /\ succeeded' = succeeded
    BY <1>5 DEF Begin
  <2>2. \A j \in Items : Goroutines(j)' = Goroutines(j)
    BY <1>1, <2>1, BeginMoves
  <2> QED BY <1>3, <2>1, <2>2 DEF Counted
<1>6. ASSUME NEW i \in Items, Succeed(i) PROVE Counted' = Counted
  <2>1. Move(i, "run", "send") /\ exit' = exit /\ succeeded' = succeeded \cup {i}
    BY <1>6 DEF Succeed
  <2>2. \A j \in Items : Goroutines(j)' = Goroutines(j)
    BY <1>1, <2>1, ReturnMoves
  <2>3. Goroutines(i) # 0
    <3>1. go[i].run > 0
      BY <1>1, <2>1, ReturnMoves
    <3> QED BY <1>1, <3>1, GoType
  <2> QED BY <1>3, <2>1, <2>2, <2>3 DEF Counted
<1>7. ASSUME NEW i \in Items, Send(i) PROVE Counted' = Counted
  <2>1. /\ \A j \in Items \ {i} : Goroutines(j)' = Goroutines(j)
        /\ Goroutines(i) > 0
    BY <1>1, <1>7, SendMoves
  <2>2. Goroutines(i) # 0
    BY <1>1, <2>1, GoType
  <2>3. exit = None /\ exit' = i /\ succeeded' = succeeded
    BY <1>1, <1>7 DEF Send, WorkInv, history
  <2>4. None \notin succeeded
    BY <1>3, ProgramsAssumption
  <2>5. \A j \in succeeded : Goroutines(j) = 0 /\ exit # j <=> Goroutines(j)' = 0 /\ exit' # j
    <3> TAKE j \in succeeded
    <3>1. CASE j = i
      BY <2>2, <2>3, <3>1
    <3>2. CASE j # i
      BY <1>3, <2>1, <2>3, <2>4, <3>2
    <3> QED BY <3>1, <3>2
  <2> QED BY <2>3, <2>5 DEF Counted
<1>8. ASSUME (\E i \in Items : Elapse(i)) \/ TickMsg \/ CtrlC \/ QuitMsg \/ View \/ UNCHANGED vars
      PROVE  Counted' = Counted
  <2>1. go' = go /\ exit' = exit /\ succeeded' = succeeded
    BY <1>8 DEF Elapse, TickMsg, CtrlC, QuitMsg, View, vars, history
  <2> QED BY <2>1 DEF Counted, Goroutines
<1>9. \A i \in Items : ~Fail(i)
  BY DEF Fail
<1> QED BY <1>4, <1>5, <1>6, <1>7, <1>8, <1>9 DEF Next

LEMMA SumKept ==
    ASSUME Inv, [Next]_vars, Serial
    PROVE  SumInv'
<1>1. TypeOK /\ SumInv /\ WorkInv /\ pt \in Programs
  BY DEF Inv, TypeOK
<1>2. TypeOK' /\ WorkInv'
  BY TypeKept, WorkKept
<1>3. ASSUME failed' = {} PROVE finished' <= Cardinality(Counted)'
  <2>1. failed = {}
    BY <1>3 DEF Next, vars, history, Begin, Succeed, Fail, Send, Elapse, ExitMsg, TickMsg, CtrlC, QuitMsg, View
  <2>2. finished <= Cardinality(Counted) /\ IsFiniteSet(Counted) /\ Cardinality(Counted) \in Nat
    BY <1>1, <2>1, CountedFinite DEF SumInv
  <2>3. CASE ExitMsg
    <3>1. Counted' = Counted \cup {exit} /\ exit \notin Counted
      BY <1>3, <2>3, CountedKept
    <3>2. Cardinality(Counted)' = Cardinality(Counted) + 1
      <4>1. Cardinality(Counted \cup {exit}) = Cardinality(Counted) + 1
        BY <2>2, <3>1, FS_AddElement
      <4> QED BY <3>1, <4>1
    <3>3. (finished' = finished \/ finished' = finished + 1) /\ finished \in 0 .. total
      BY <1>1, <2>3, Counts DEF TypeOK
    <3>4. total \in Nat
      BY <1>1, TreeFinite
    <3> QED BY SMT, <2>2, <3>2, <3>3, <3>4
  <2>4. CASE ~ExitMsg
    <3>1. Counted' = Counted
      BY <1>3, <2>4, CountedKept
    <3>2. finished' = finished
      BY <2>4 DEF Next, vars, Begin, Succeed, Fail, Send, Elapse, TickMsg, CtrlC, QuitMsg, View
    <3> QED BY <2>2, <3>1, <3>2
  <2> QED BY <2>3, <2>4
<1>4. ASSUME quit', err' = "nil", expired' = {} PROVE succeeded' = Tree'
  <2>1. Tree' = Tree /\ total' = total /\ succeeded \subseteq succeeded' /\ succeeded' \subseteq Tree'
    <3>1. succeeded \subseteq succeeded'
      BY DEF Next, vars, history, Begin, Succeed, Fail, Send, Elapse, ExitMsg, TickMsg, CtrlC, QuitMsg, View
    <3> QED BY <1>2, <3>1, ProgramKept DEF TypeOK
  <2>2. err = "nil" /\ expired = {}
    <3>1. err = "nil"
      BY <1>4 DEF Next, vars, Begin, Succeed, Fail, Send, Elapse, ExitMsg, TickMsg, CtrlC, QuitMsg, View
    <3>2. expired = {}
      BY <1>4 DEF Next, vars, Begin, Succeed, Fail, Send, Elapse, ExitMsg, TickMsg, CtrlC, QuitMsg, View
    <3> QED BY <3>1, <3>2
  <2>3. quit \/ (ExitMsg /\ total = finished')
    BY <1>4, <2>2 DEF Next, vars, Begin, Succeed, Fail, Send, Elapse, ExitMsg, TickMsg, CtrlC, QuitMsg, View
  <2>4. CASE quit
    BY <1>1, <2>1, <2>2, <2>4 DEF SumInv
  <2>5. CASE ExitMsg /\ total = finished'
    <3>1. failed' = {}
      BY <1>2, <1>4 DEF WorkInv
    <3>2. finished' <= Cardinality(Counted)'
      BY <1>3, <3>1
    <3>3. PICK C : C = Counted'
      OBVIOUS
    <3>4. C \subseteq succeeded'
      BY <3>3 DEF Counted
    <3>5. C \subseteq Tree /\ IsFiniteSet(Tree) /\ total \in Nat
      BY <1>1, <2>1, <3>4, TreeFinite
    <3>6. Cardinality(Tree) <= Cardinality(C)
      BY <2>5, <3>2, <3>3 DEF total
    <3>7. IsFiniteSet(C) /\ Cardinality(C) <= Cardinality(Tree) /\ Cardinality(C) \in Nat
      BY <3>5, FS_Subset, FS_CardinalityType
    <3>8. Cardinality(C) = Cardinality(Tree)
      BY SMT, <3>5, <3>6, <3>7 DEF total
    <3>9. C = Tree
      BY <3>5, <3>8, FS_Subset
    <3> QED BY <2>1, <3>4, <3>9
  <2> QED BY <2>3, <2>4, <2>5
<1>5. \A j \in Items : go'[j].send > 0 \/ exit' = j => j \in succeeded' \cup failed'
  BY ReturnsKept
<1> QED BY <1>3, <1>4, <1>5 DEF SumInv

----------------------------------------------------------------------------
(* The theorems.                                                           *)

\* The invariant holds when the program starts: the first items are found ready
\* (processtree.go 235-254).
LEMMA InitInv ==
    ASSUME Init
    PROVE  Inv
<1>1. pt \in Programs /\ status \in [Items -> Statuses]
  BY DEF Init, Statuses
<1>2. Tree \subseteq Items /\ IsFiniteSet(Tree) /\ total \in Nat /\ 0 \in 0 .. total
  <2>1. Tree \subseteq Items /\ IsFiniteSet(Tree) /\ total \in Nat
    BY <1>1, TreeFinite
  <2> QED BY SMT, <2>1
<1>3. \A i \in Items : Children(i) \subseteq Items
  BY <1>1, TreeFinite
<1>4. \A i \in Items : go[i].begin = (IF i \in Ready THEN 1 ELSE 0) /\ go[i].run = 0 /\ go[i].send = 0
  BY SMT DEF Init
<1>5. \A i \in Items : /\ Goroutines(i) = (IF i \in Ready THEN 1 ELSE 0)
                       /\ Goroutines(i) <= 1 /\ ~ (go[i].run > 0) /\ ~ (go[i].send > 0)
                       /\ go[i].begin > 0 \/ Goroutines(i) > 0 => i \in Ready
  BY SMT, <1>4 DEF Goroutines
<1>6. go \in [Items -> [begin : Nat, run : Nat, send : Nat]]
  BY SMT DEF Init
<1>7. \A i \in Ready : i \in Tree /\ \A c \in Children(i) : status[c] = "Success"
  BY <1>1, ReadyFacts
<1>8. \A i \in Ready : Children(i) = {}
  BY <1>3, <1>7, <1>2 DEF Init
<1>9. TypeOK
  <2>1. begun \in [Items -> Nat]
    BY SMT DEF Init
  <2> QED BY <1>1, <1>2, <1>6, <2>1 DEF Init, TypeOK
<1>10. WorkInv
  BY <1>5, <1>7, <1>8 DEF WorkInv, Init
<1>11. CountInv
  <2>1. Tree # {} => 0 < total
    <3>1. Tree # {} => Cardinality(Tree) # 0
      BY <1>2, FS_EmptySet
    <3> QED BY SMT, <1>2, <3>1 DEF total
  <2> QED BY <2>1 DEF CountInv, Init
<1>12. ASSUME Serial PROVE TokenInv
  <2>1. \A i, j \in Busy : i = j
    BY <1>1, <1>5, <1>12, ReadyFacts DEF Busy
  <2>2. ASSUME NEW i \in Items PROVE ItemInv(i)
    <3>1. begun[i] = 0 /\ ~ (begun[i] > 0) /\ begun[i] <= 1
      BY SMT DEF Init
    <3>2. exit # i /\ i \notin succeeded
      BY ProgramsAssumption DEF Init
    <3> QED BY <1>5, <1>8, <3>1, <3>2 DEF ItemInv
  <2>3. exit = None
    BY DEF Init
  <2> QED BY <2>1, <2>2, <2>3 DEF TokenInv
<1>13. SumInv
  <2>1. \A i \in Items : ~ (go[i].send > 0) /\ exit # i
    BY <1>5, ProgramsAssumption DEF Init
  <2>2. finished <= Cardinality(Counted)
    <3>1. Cardinality(Counted) \in Nat /\ finished = 0
      BY <1>9, CountedFinite DEF Init
    <3> QED BY SMT, <3>1
  <2>3. ~quit
    BY DEF Init
  <2> QED BY <2>1, <2>2, <2>3 DEF SumInv
<1> QED BY <1>9, <1>10, <1>11, <1>12, <1>13 DEF Inv

\* The invariant holds of every program, whatever goroutines, timeouts and messages do.
THEOREM InvHolds == Spec => []Inv
<1>1. Init => Inv
  BY InitInv
<1>2. Inv /\ [Next]_vars => Inv'
  <2> SUFFICES ASSUME Inv, [Next]_vars PROVE Inv'
    OBVIOUS
  <2>1. TypeOK' /\ WorkInv' /\ CountInv' /\ (Serial' <=> Serial)
    BY TypeKept, WorkKept, CountKept, ProgramKept
  <2>2. Serial => TokenInv' /\ SumInv'
    BY TokenKept, SumKept
  <2> QED BY <2>1, <2>2 DEF Inv
<1> QED BY <1>1, <1>2, PTL DEF Spec

\* Every variable keeps its type; the count of exits never passes the total, in parallel
\* programs either (update.go 75-84).
THEOREM TypeCorrect == Spec => []TypeOK
<1>1. Inv => TypeOK
  BY DEF Inv
<1> QED BY <1>1, InvHolds, PTL

\* A serial program of any number of independent items, or of one tree of any shape, runs
\* one process at a time and none twice (getNextReadyChildren, Update).
THEOREM SerialRunsOne == Spec => []OneAtATime
<1>1. Inv => OneAtATime
  BY DEF Inv, TokenInv, ItemInv, OneAtATime
<1> QED BY <1>1, InvHolds, PTL

\* In a tree of any shape, serial or parallel, the process of an item is called only after
\* the process of each child has succeeded (getNextReadyChildren).
THEOREM ChildrenBegin == Spec => ChildrenFirst
<1>1. Inv => \A i \in Items : Begin(i) => Children(i) \subseteq succeeded
  BY DEF Inv, WorkInv, Begin, Move
<1> QED BY <1>1, InvHolds, PTL DEF ChildrenFirst, Spec

\* A serial program that returns nil, and has no timeout passed, has run every process of
\* the tree to success (Update, waitForProcessCmd).
THEOREM SerialNilDone == Spec => SerialNilMeansDone
<1>1. Inv => (QuitMsg /\ err = "nil" /\ Serial /\ expired = {} => succeeded = Tree)
  BY DEF Inv, SumInv, QuitMsg
<1> QED BY <1>1, InvHolds, PTL DEF SerialNilMeansDone, Spec

\* Start returns an error if any process has failed (waitForProcessCmd, Start).
THEOREM FailuresReported == Spec => FailureReported
<1>1. Inv => (QuitMsg /\ err = "nil" => failed = {})
  BY DEF Inv, WorkInv
<1> QED BY <1>1, InvHolds, PTL DEF FailureReported, Spec

=============================================================================
