--------------------------- MODULE ComposeProofs ---------------------------
(***************************************************************************)
(* Proofs about Compose: the addresses that AssignIPs gives out, the order *)
(* in which machines start and go, what up has started and down has left,  *)
(* and what the record of the project holds.                               *)
(*                                                                         *)
(* Each command works from a list it has made and a sequence of services   *)
(* it goes through.  The invariants say, for each place a command may be   *)
(* at, what is settled about every service of the file and that the rest   *)
(* is still ahead in the sequence.                                         *)
(***************************************************************************)
EXTENDS Compose, FiniteSetTheorems, WellFoundedInduction, TLAPS

\* The leaves are for Zenon, but for those that name SMT.
USE Zenon

----------------------------------------------------------------------------
(* The inductive invariant.                                                *)

(* What todo holds at each place, and which command is there.              *)
TodoInv ==
    /\ pc \in {"create", "start", "stop", "down"} => todo \in Seq(Services)
    /\ pc = "net" => todo \in Seq(Networks \cup Volumes)
    /\ pc = "netrm" => todo \in Seq(Networks)
    /\ pc = "idle" => op = "none"
    /\ op = "up" => args = file

Types == TypeOK /\ TodoInv

(* A machine that exists is recorded, in memory while create runs.         *)
Exist == {s \in Services : machine[s] # "absent"}

RecordInv ==
    /\ pc \notin {"net", "create"} => project = NoProject
    /\ ~lost /\ pc \in {"net", "create"} => Exist \subseteq project.machines /\ exists \subseteq project.resources
    /\ ~lost /\ pc \notin {"net", "create"} => Exist \subseteq record.machines /\ exists \subseteq record.resources

(* A machine that compose start finds running or can start.                *)
Live == {"created", "running", "exited"}

(* The list that create goes by is not further behind than this.           *)
ListInv ==
    pc = "create" => \A s \in Services :
        /\ seen[s] \in {"running", "created"} => machine[s] \in Live
        /\ seen[s] = "absent" => machine[s] # "paused" \/ s \in undeleted

(* Each service of the file is settled, or ahead.                          *)
UpInv ==
    op = "up" => \A s \in file :
        /\ pc = "create" => s \in Range(todo) \/ machine[s] \in Live \/ s \in undeleted
        /\ pc = "list" => machine[s] \in Live \/ s \in undeleted
        /\ pc = "start" => \/ s \in started \/ seen[s] = "running" \/ s \in undeleted
                           \/ seen[s] \in {"created", "exited"} /\ s \in Range(todo)

DownInv ==
    /\ \A s \in file :
        /\ pc = "down" => machine[s] = "absent" \/ s \in undeleted \/ (s \in Range(todo) /\ seen[s] # "absent")
        /\ pc = "netrm" => machine[s] = "absent" \/ s \in undeleted
    /\ pc = "netrm" => exists \cap Networks \subseteq Range(todo)

(* What must come before a service is done with, or ahead of it in todo.   *)
Ahead(i, s) == \E j \in 1..i-1 : todo[j] = s

OrderInv ==
    /\ pc = "start" => \A i \in 1..Len(todo) : \A d \in Required[todo[i]] :
        d \in started \/ seen[d] \notin Startable \/ Ahead(i, d)
    /\ pc = "down" => \A i \in 1..Len(todo) : \A t \in file : todo[i] \in Required[t] =>
        t \in removed \/ seen[t] = "absent" \/ Ahead(i, t)

IInv == Types /\ RecordInv /\ ListInv /\ UpInv /\ DownInv /\ OrderInv

----------------------------------------------------------------------------
(* Sequences and orders.                                                   *)

(* What is left of a sequence behind one of its places.                    *)
LEMMA BehindSeq ==
    ASSUME NEW S, NEW q \in Seq(S), NEW i \in 1..Len(q)
    PROVE  LET r == SubSeq(q, i + 1, Len(q)) IN
           r \in Seq(S) /\ Len(r) = Len(q) - i /\ \A k \in 1..Len(q) - i : r[k] = q[i + k]
BY SMT

(* Every element but the first is in the tail.                             *)
LEMMA TailSeq ==
    ASSUME NEW S, NEW q \in Seq(S), q # <<>>
    PROVE  /\ Head(q) \in S /\ Tail(q) \in Seq(S) /\ Head(q) = q[1]
           /\ \A x \in Range(q) : x = Head(q) \/ x \in Range(Tail(q))
<1>1. /\ Head(q) = q[1] /\ Head(q) \in S /\ Tail(q) \in Seq(S) /\ Len(Tail(q)) = Len(q) - 1 /\ Len(q) \in Nat \ {0}
      /\ \A k \in 1..Len(q) - 1 : Tail(q)[k] = q[k + 1]
  <2>1. Len(q) \in Nat /\ Len(q) # 0
    BY SMT
  <2>2. Head(q) = q[1] /\ Head(q) \in S
    BY <2>1, SMT
  <2>3. Tail(q) \in Seq(S) /\ Len(Tail(q)) = Len(q) - 1
    BY <2>1, SMT
  <2>4. ASSUME NEW k \in 1..Len(q) - 1 PROVE Tail(q)[k] = q[k + 1]
    BY <2>1, SMT
  <2> QED  BY <2>1, <2>2, <2>3, <2>4
<1>2. DOMAIN q = 1..Len(q) /\ DOMAIN Tail(q) = 1..Len(q) - 1
  BY <1>1, SMT
<1>3. ASSUME NEW k \in 1..Len(q), k # 1 PROVE \E l \in 1..Len(q) - 1 : q[k] = Tail(q)[l]
  <2>1. k - 1 \in 1..Len(q) - 1 /\ Tail(q)[k - 1] = q[k]
    BY <1>1, <1>3, SMT
  <2> QED  BY <2>1
<1>4. \A x \in Range(q) : x = Head(q) \/ x \in Range(Tail(q))
  <2>1. SUFFICES ASSUME NEW x \in Range(q), x # Head(q) PROVE x \in Range(Tail(q))
    OBVIOUS
  <2>2. PICK k \in 1..Len(q) : x = q[k]
    BY <1>2 DEF Range
  <2>3. PICK l \in 1..Len(q) - 1 : x = Tail(q)[l]
    BY <1>1, <1>3, <2>1, <2>2
  <2> QED  BY <1>2, <2>3 DEF Range
<1> QED  BY <1>1, <1>4

(* The elements of a sequence, by place.                                   *)
LEMMA RangeSeq ==
    ASSUME NEW S, NEW q \in Seq(S)
    PROVE  /\ \A i \in 1..Len(q) : q[i] \in S /\ q[i] \in Range(q)
           /\ \A x \in Range(q) : \E i \in 1..Len(q) : q[i] = x
<1>1. DOMAIN q = 1..Len(q) /\ \A i \in 1..Len(q) : q[i] \in S
  BY SMT
<1> QED  BY <1>1 DEF Range

(* Orders(S) are sequences of all the elements of a finite set.            *)
LEMMA OrdersSeq ==
    ASSUME NEW S, IsFiniteSet(S), NEW q \in Orders(S)
    PROVE  q \in Seq(S) /\ Range(q) = S
<1>1. Cardinality(S) \in Nat
  BY FS_CardinalityType
<1>2. q \in [1..Cardinality(S) -> S] /\ Range(q) = S
  BY DEF Orders
<1> QED  BY <1>1, <1>2, SMT

(* A service in what StartMachine and RemoveService may still take is the   *)
(* one taken, is behind it, or was not listed in one of these states.       *)
LEMMA ForemostSeq ==
    ASSUME todo \in Seq(Services), NEW i \in 1..Len(todo), NEW states, Foremost(i, states),
           NEW s \in Range(todo), seen[s] \in states
    PROVE  s = todo[i] \/ s \in Range(Behind(i))
<1>1. PICK k \in 1..Len(todo) : todo[k] = s
  BY RangeSeq
<1>2. Behind(i) \in Seq(Services) /\ Len(Behind(i)) = Len(todo) - i /\ \A l \in 1..Len(todo) - i : Behind(i)[l] = todo[i + l]
  BY BehindSeq DEF Behind
<1>3. k \notin 1..i-1
  BY <1>1 DEF Foremost
<1>4. CASE k = i
  BY <1>1, <1>4
<1>5. CASE k # i
  <2>1. k - i \in 1..Len(todo) - i /\ k - i \in 1..Len(Behind(i)) /\ i + (k - i) = k
    BY <1>2, <1>3, <1>5, SMT
  <2>2. Behind(i)[k - i] = s
    BY <1>1, <1>2, <2>1
  <2> QED  BY <1>2, <2>1, <2>2, RangeSeq
<1> QED  BY <1>4, <1>5

----------------------------------------------------------------------------
(* The order of the services.                                              *)

(* The functions that lead to the services that come first.                *)
Edges == {Required} \cup {Dependants(F) : F \in SUBSET Services}

(* A rank that falls along edge: what the absence of cycles gives.          *)
Falls(edge, rank) ==
    /\ rank \in [Services -> Nat]
    /\ \A s \in Services : \A d \in edge[s] : rank[d] < rank[s]

(* The services of a set, with those before them, each after all that edge *)
(* leads to from it: what a visit of S appends when added has been added.  *)
Sorted(edge, S, added, q) ==
    /\ q \in Seq(Services) /\ S \subseteq added \cup Range(q)
    /\ \A i \in 1..Len(q) : \A d \in edge[q[i]] : d \in added \/ \E j \in 1..i-1 : q[j] = d

(* A set of numbers that is not empty has a least element.                 *)
LEMMA LeastNat ==
    ASSUME NEW T \in SUBSET Nat, T # {}
    PROVE  \E n \in T : \A m \in T : n <= m
<1>1. PICK n \in T : \A m \in T : ~ <<m, n>> \in OpToRel(<, Nat)
  BY NatLessThanWellFounded, WFMin
<1>2. \A m \in T : ~ (m < n)
  BY <1>1 DEF OpToRel
<1> QED  BY <1>2, SMT

(* An edge leads from services to services.                                *)
LEMMA EdgeType == ASSUME NEW edge \in Edges PROVE edge \in [Services -> SUBSET Services]
<1>1. CASE edge = Required
  BY <1>1, ServicesAssumption
<1>2. ASSUME NEW F \in SUBSET Services, edge = Dependants(F) PROVE edge \in [Services -> SUBSET Services]
  <2>1. \A s \in Services : {t \in F : s \in Required[t]} \in SUBSET Services
    OBVIOUS
  <2> QED  BY <1>2, <2>1 DEF Dependants
<1> QED  BY <1>1, <1>2 DEF Edges

(* A loop that starts with s: what the visit of s has appended, and then   *)
(* what the rest of the loop appends.                                      *)
LEMMA SortedCat ==
    ASSUME NEW edge, NEW S, NEW s \in S, NEW added, NEW p, NEW q,
           Sorted(edge, {s}, added, p), Sorted(edge, S \ {s}, added \cup Range(p), q)
    PROVE  Sorted(edge, S, added, p \o q)
<1> DEFINE r == p \o q
<1>1. p \in Seq(Services) /\ q \in Seq(Services)
  BY DEF Sorted
<1>2. /\ r \in Seq(Services) /\ Len(r) = Len(p) + Len(q) /\ Len(p) \in Nat /\ Len(q) \in Nat
      /\ \A i \in 1..Len(p) : i \in 1..Len(r) /\ r[i] = p[i]
      /\ \A i \in 1..Len(q) : Len(p) + i \in 1..Len(r) /\ r[Len(p) + i] = q[i]
  BY <1>1, SMT
<1>3. Range(p) \subseteq Range(r) /\ Range(q) \subseteq Range(r)
  <2>1. \A i \in 1..Len(r) : r[i] \in Range(r)
    BY <1>2, RangeSeq
  <2>2. ASSUME NEW x \in Range(p) PROVE x \in Range(r)
    <3>1. PICK i \in 1..Len(p) : p[i] = x
      BY <1>1, RangeSeq
    <3>2. i \in 1..Len(r) /\ r[i] = x
      BY <1>2, <3>1
    <3> QED  BY <2>1, <3>2
  <2>3. ASSUME NEW x \in Range(q) PROVE x \in Range(r)
    <3>1. PICK i \in 1..Len(q) : q[i] = x
      BY <1>1, RangeSeq
    <3>2. Len(p) + i \in 1..Len(r) /\ r[Len(p) + i] = x
      BY <1>2, <3>1
    <3> QED  BY <2>1, <3>2
  <2> QED  BY <2>2, <2>3
<1>4. S \subseteq added \cup Range(r)
  BY <1>3 DEF Sorted
<1>5. ASSUME NEW i \in 1..Len(r), NEW d \in edge[r[i]] PROVE d \in added \/ \E j \in 1..i-1 : r[j] = d
  <2>1. CASE i \in 1..Len(p)
    <3>1. d \in added \/ \E j \in 1..i-1 : p[j] = d
      BY <1>2, <1>5, <2>1 DEF Sorted
    <3>2. \A j \in 1..i-1 : j \in 1..Len(p)
      BY <1>2, <2>1, SMT
    <3> QED  BY <1>2, <3>1, <3>2
  <2>2. CASE i \notin 1..Len(p)
    <3>1. PICK k \in 1..Len(q) : i = Len(p) + k
      <4>1. i - Len(p) \in 1..Len(q) /\ i = Len(p) + (i - Len(p))
        BY <1>2, <2>2, SMT
      <4> QED  BY <4>1
    <3>2. d \in added \/ d \in Range(p) \/ \E j \in 1..k-1 : q[j] = d
      BY <1>2, <1>5, <3>1 DEF Sorted
    <3>3. CASE d \in Range(p)
      <4>1. PICK j \in 1..Len(p) : p[j] = d
        BY <1>1, <3>3, RangeSeq
      <4>2. j \in 1..i-1
        BY <1>2, <3>1, SMT
      <4> QED  BY <1>2, <4>1, <4>2
    <3>4. ASSUME NEW j \in 1..k-1, q[j] = d PROVE \E m \in 1..i-1 : r[m] = d
      <4>1. j \in 1..Len(q) /\ Len(p) + j \in 1..i-1
        BY <1>2, <3>1, SMT
      <4> QED  BY <1>2, <3>4, <4>1
    <3> QED  BY <3>2, <3>3, <3>4
  <2> QED  BY <2>1, <2>2
<1> QED  BY <1>2, <1>4, <1>5 DEF Sorted

(* The visit of s: what comes before it, and then s, which is none of what *)
(* edge leads to.                                                          *)
LEMMA SortedEnd ==
    ASSUME NEW edge \in Edges, NEW s \in Services, NEW added, NEW q,
           s \notin edge[s], Sorted(edge, edge[s], added \cup {s}, q), \A i \in 1..Len(q) : s \notin edge[q[i]]
    PROVE  Sorted(edge, {s}, added, Append(q, s))
<1> DEFINE r == Append(q, s)
<1>1. q \in Seq(Services)
  BY DEF Sorted
<1>2. /\ r \in Seq(Services) /\ Len(r) = Len(q) + 1 /\ Len(q) \in Nat /\ r[Len(r)] = s /\ Len(r) \in 1..Len(r)
      /\ \A i \in 1..Len(q) : r[i] = q[i]
  BY <1>1, SMT
<1>3. {s} \subseteq added \cup Range(r)
  <2>1. \A i \in 1..Len(r) : r[i] \in Range(r)
    BY <1>2, RangeSeq
  <2> QED  BY <1>2, <2>1
<1>4. ASSUME NEW i \in 1..Len(r), NEW d \in edge[r[i]] PROVE d \in added \/ \E j \in 1..i-1 : r[j] = d
  <2>1. CASE i \in 1..Len(q)
    <3>1. d \in added \/ \E j \in 1..i-1 : q[j] = d
      BY <1>2, <1>4, <2>1 DEF Sorted
    <3>2. \A j \in 1..i-1 : j \in 1..Len(q)
      BY <1>2, <2>1, SMT
    <3> QED  BY <1>2, <3>1, <3>2
  <2>2. CASE i \notin 1..Len(q)
    <3>1. i = Len(r) /\ i - 1 = Len(q)
      BY <1>2, <2>2, SMT
    <3>2. d \in added \/ d \in Range(q)
      BY <1>2, <1>4, <3>1 DEF Sorted
    <3>3. CASE d \in Range(q)
      <4>1. PICK j \in 1..Len(q) : q[j] = d
        BY <1>1, <3>3, RangeSeq
      <4>2. r[j] = d /\ j \in 1..i-1
        BY <1>2, <3>1, <4>1
      <4> QED  BY <4>2
    <3> QED  BY <3>2, <3>3
  <2> QED  BY <2>1, <2>2
<1> QED  BY <1>2, <1>3, <1>4 DEF Sorted

(* The services below a rank, and what a visit of such a set appends: it   *)
(* is sorted and stays below that rank.                                    *)
Below(rank, r) == {S \in SUBSET Services : \A s \in S : rank[s] < r}
VisitsSorted(edge, rank, r, S) ==
    \A added \in SUBSET Services : \A q \in VisitAll(edge, S, added) :
        Sorted(edge, S, added, q) /\ \A i \in 1..Len(q) : rank[q[i]] < r

(* One more round of a loop, when the rest of the loop and every visit     *)
(* below a lower rank append what they should.                             *)
LEMMA VisitStep ==
    ASSUME NEW edge \in Edges, NEW rank, Falls(edge, rank), NEW r \in Nat, NEW S \in Below(rank, r),
           \A m \in Nat : m < r => \A T \in Below(rank, m) : VisitsSorted(edge, rank, m, T),
           \A s \in S : VisitsSorted(edge, rank, r, S \ {s})
    PROVE  VisitsSorted(edge, rank, r, S)
<1> SUFFICES ASSUME NEW added \in SUBSET Services, NEW q \in VisitAll(edge, S, added)
             PROVE  Sorted(edge, S, added, q) /\ \A i \in 1..Len(q) : rank[q[i]] < r
  BY DEF VisitsSorted
<1>s. S \in SUBSET Services /\ \A s \in S : rank[s] < r /\ rank[s] \in Nat
  BY DEF Below, Falls
<1>e. edge \in [Services -> SUBSET Services]
  BY EdgeType
<1>v. q \in Loop(edge, S, added)
  <2>1. VisitAll(edge, S, added) = Loop(edge, S, added)
    BY <1>s, VisitAssumption DEF Edges
  <2> QED  BY <2>1
<1>n. <<>> \in Seq(Services) /\ Len(<<>>) = 0 /\ \A i \in 1..Len(<<>>) : FALSE
  BY SMT
<1>1. CASE S = {}
  <2>1. q = <<>>
    BY <1>v, <1>1 DEF Loop
  <2> QED  BY <1>1, <1>n, <2>1 DEF Sorted
<1>2. CASE S # {}
  <2>0. PICK s \in S : q \in Round(edge, S, added, s)
    BY <1>v, <1>2 DEF Loop
  <2>1. PICK p \in IF s \in added THEN {<<>>} ELSE Visit(edge, s, added) :
            \E t \in VisitAll(edge, S \ {s}, added \cup Range(p)) : q = p \o t
    <3>1. PICK P \in {{p \o t : t \in VisitAll(edge, S \ {s}, added \cup Range(p))} :
                      p \in IF s \in added THEN {<<>>} ELSE Visit(edge, s, added)} : q \in P
      BY <2>0 DEF Round
    <3> QED  BY <3>1
  <2>2. Sorted(edge, {s}, added, p) /\ \A i \in 1..Len(p) : rank[p[i]] < r
    <3>1. CASE s \in added
      <4>1. p = <<>>
        BY <2>1, <3>1
      <4> QED  BY <1>n, <3>1, <4>1 DEF Sorted
    <3>2. CASE s \notin added
      <4>1. PICK t \in VisitAll(edge, edge[s], added \cup {s}) : p = Append(t, s)
        BY <2>1, <3>2 DEF Visit
      <4>2. edge[s] \in Below(rank, rank[s]) /\ s \in Services /\ added \cup {s} \in SUBSET Services
        BY <1>e, <1>s DEF Below, Falls
      <4>3. Sorted(edge, edge[s], added \cup {s}, t) /\ \A i \in 1..Len(t) : rank[t[i]] < rank[s]
        BY <1>s, <4>1, <4>2 DEF VisitsSorted
      <4>4. t \in Seq(Services)
        BY <4>3 DEF Sorted
      <4>5. s \notin edge[s]
        <5>1. ~ (rank[s] < rank[s])
          BY <1>s, SMT
        <5> QED  BY <4>2, <5>1 DEF Falls
      <4>6. ASSUME NEW i \in 1..Len(t) PROVE s \notin edge[t[i]]
        <5>1. t[i] \in Services
          BY <4>4, RangeSeq
        <5>2. rank[t[i]] \in Nat /\ rank[s] \in Nat /\ rank[t[i]] < rank[s]
          BY <1>s, <4>3, <5>1 DEF Falls
        <5>3. ~ (rank[s] < rank[t[i]])
          BY <5>2, SMT
        <5> QED  BY <5>1, <5>3 DEF Falls
      <4>7. Sorted(edge, {s}, added, p)
        BY <4>1, <4>2, <4>3, <4>5, <4>6, SortedEnd
      <4>8. ASSUME NEW i \in 1..Len(p) PROVE rank[p[i]] < r
        <5>1. (i \in 1..Len(t) /\ p[i] = t[i]) \/ p[i] = s
          BY <4>1, <4>4, SMT
        <5>2. CASE i \in 1..Len(t) /\ p[i] = t[i]
          <6>1. rank[t[i]] \in Nat /\ rank[s] \in Nat /\ rank[t[i]] < rank[s] /\ rank[s] < r
            BY <1>s, <4>3, <4>4, <5>2, RangeSeq DEF Falls
          <6>2. rank[t[i]] < r
            BY <6>1, SMT
          <6> QED  BY <5>2, <6>2
        <5> QED  BY <1>s, <5>1, <5>2
      <4> QED  BY <4>7, <4>8
    <3> QED  BY <3>1, <3>2
  <2>3. PICK t \in VisitAll(edge, S \ {s}, added \cup Range(p)) : q = p \o t
    BY <2>1
  <2>4. p \in Seq(Services) /\ added \cup Range(p) \in SUBSET Services
    <3>1. p \in Seq(Services)
      BY <2>2 DEF Sorted
    <3>2. Range(p) \subseteq Services
      <4>1. ASSUME NEW x \in Range(p) PROVE x \in Services
        <5>1. PICK i \in 1..Len(p) : p[i] = x
          BY <3>1, RangeSeq
        <5> QED  BY <3>1, <5>1, RangeSeq
      <4> QED  BY <4>1
    <3> QED  BY <3>1, <3>2
  <2>5. Sorted(edge, S \ {s}, added \cup Range(p), t) /\ \A i \in 1..Len(t) : rank[t[i]] < r
    BY <2>3, <2>4 DEF VisitsSorted
  <2>6. Sorted(edge, S, added, q)
    BY <2>2, <2>3, <2>5, SortedCat
  <2>7. ASSUME NEW i \in 1..Len(q) PROVE rank[q[i]] < r
    <3>1. t \in Seq(Services)
      BY <2>5 DEF Sorted
    <3>2. (i \in 1..Len(p) /\ q[i] = p[i]) \/ (i - Len(p) \in 1..Len(t) /\ q[i] = t[i - Len(p)])
      BY <2>3, <2>4, <3>1, SMT
    <3> QED  BY <2>2, <2>5, <3>2
  <2> QED  BY <2>6, <2>7
<1> QED  BY <1>1, <1>2

(* Every visit appends what it should: there is no lowest rank at which it *)
(* does not, since at that rank there would be no smallest set either.     *)
LEMMA VisitSorted ==
    ASSUME NEW edge \in Edges, NEW rank, Falls(edge, rank)
    PROVE  \A r \in Nat : \A S \in Below(rank, r) : VisitsSorted(edge, rank, r, S)
<1> DEFINE Wrong == {r \in Nat : \E S \in Below(rank, r) : ~ VisitsSorted(edge, rank, r, S)}
<1> SUFFICES ASSUME Wrong # {} PROVE FALSE
  OBVIOUS
<1>1. PICK r \in Wrong : \A m \in Wrong : r <= m
  BY LeastNat
<1>2. \A m \in Nat : m < r => m \notin Wrong
  <2>1. r \in Nat /\ \A m \in Nat : m < r => ~ (r <= m)
    BY SMT
  <2> QED  BY <1>1, <2>1
<1>3. \A m \in Nat : m < r => \A T \in Below(rank, m) : VisitsSorted(edge, rank, m, T)
  BY <1>2
<1> DEFINE Sizes == {n \in Nat : \E S \in Below(rank, r) : n = Cardinality(S) /\ ~ VisitsSorted(edge, rank, r, S)}
<1>4. \A S \in Below(rank, r) : IsFiniteSet(S) /\ Cardinality(S) \in Nat
  BY ServicesAssumption, FS_Subset, FS_CardinalityType DEF Below
<1>5. Sizes # {}
  BY <1>4
<1>6. PICK n \in Sizes : \A m \in Sizes : n <= m
  BY <1>5, LeastNat
<1>7. PICK S \in Below(rank, r) : n = Cardinality(S) /\ ~ VisitsSorted(edge, rank, r, S)
  BY <1>6
<1>8. ASSUME NEW s \in S PROVE VisitsSorted(edge, rank, r, S \ {s})
  <2>1. S \ {s} \in Below(rank, r)
    BY DEF Below
  <2>2. Cardinality(S \ {s}) = Cardinality(S) - 1
    BY <1>4, FS_RemoveElement
  <2>3. n \in Nat /\ Cardinality(S \ {s}) \in Nat /\ Cardinality(S \ {s}) = n - 1
    BY <1>4, <1>7, <2>1, <2>2
  <2>4. ~ (n <= Cardinality(S \ {s}))
    BY <2>3, SMT
  <2> QED  BY <1>6, <2>1, <2>3, <2>4
<1>9. VisitsSorted(edge, rank, r, S)
  BY <1>1, <1>3, <1>8, VisitStep
<1> QED  BY <1>7, <1>9

(* A rank that falls along an edge gives the order of every visit that     *)
(* starts with nothing added.                                              *)
LEMMA VisitOrder ==
    ASSUME NEW edge \in Edges, NEW rank \in [Services -> 0 .. Cardinality(Services)],
           \A s \in Services : \A d \in edge[s] : rank[d] < rank[s],
           NEW S \in SUBSET Services, NEW q \in VisitAll(edge, S, {})
    PROVE  Sorted(edge, S, {}, q)
<1>1. Cardinality(Services) \in Nat
  BY ServicesAssumption, FS_CardinalityType
<1>2. Cardinality(Services) + 1 \in Nat /\ \A n \in 0 .. Cardinality(Services) : n \in Nat /\ n < Cardinality(Services) + 1
  BY <1>1, SMT
<1>3. Falls(edge, rank)
  BY <1>2 DEF Falls
<1>4. S \in Below(rank, Cardinality(Services) + 1)
  BY <1>2 DEF Below
<1> QED  BY <1>2, <1>3, <1>4, VisitSorted DEF VisitsSorted

(* In what ServicesOrderedByDependencies returns, every required dependency *)
(* of a service stands before it, and every service asked for is there; in  *)
(* what ServicesReversedByDependencies returns, every dependant among the   *)
(* services asked for stands before what it depends on.  This holds for    *)
(* every acyclic set of services and every order maps are iterated in.      *)
THEOREM ServicesInOrder ==
    \A S \in SUBSET Services :
        /\ \A q \in ServicesOrderedByDependencies(S) :
               /\ q \in Seq(Services) /\ S \subseteq Range(q)
               /\ \A i \in 1..Len(q) : \A d \in Required[q[i]] : \E j \in 1..i-1 : q[j] = d
        /\ \A q \in ServicesReversedByDependencies(S) :
               /\ q \in Seq(Services) /\ S \subseteq Range(q)
               /\ \A i \in 1..Len(q) : \A t \in S : q[i] \in Required[t] => \E j \in 1..i-1 : q[j] = t
<1>1. PICK rank \in [Services -> 0 .. Cardinality(Services)] : \A s \in Services : \A d \in Required[s] : rank[d] < rank[s]
  BY ServicesAssumption
<1>2. ASSUME NEW S \in SUBSET Services, NEW q \in ServicesOrderedByDependencies(S) PROVE Sorted(Required, S, {}, q)
  BY <1>1, VisitOrder DEF ServicesOrderedByDependencies, Edges
<1>3. ASSUME NEW S \in SUBSET Services, NEW q \in ServicesReversedByDependencies(S) PROVE Sorted(Dependants(S), S, {}, q)
  <2> DEFINE N == Cardinality(Services)
             back == [s \in Services |-> N - rank[s]]
  <2>1. N \in Nat
    BY ServicesAssumption, FS_CardinalityType
  <2>2. back \in [Services -> 0 .. N]
    <3>1. \A n \in 0 .. N : N - n \in 0 .. N
      BY <2>1, SMT
    <3>2. \A s \in Services : rank[s] \in 0 .. N
      BY <1>1
    <3> QED  BY <3>1, <3>2
  <2>3. ASSUME NEW s \in Services, NEW d \in Dependants(S)[s] PROVE back[d] < back[s]
    <3>1. d \in Services /\ rank[s] < rank[d]
      BY <1>1 DEF Dependants
    <3>2. rank[s] \in 0 .. N /\ rank[d] \in 0 .. N
      BY <3>1
    <3>3. N - rank[d] < N - rank[s]
      BY <2>1, <3>1, <3>2, SMT
    <3> QED  BY <3>1, <3>3
  <2>4. Dependants(S) \in Edges
    BY DEF Edges
  <2>5. q \in VisitAll(Dependants(S), S, {})
    BY DEF ServicesReversedByDependencies
  <2> HIDE DEF back
  <2> QED  BY <2>2, <2>3, <2>4, <2>5, VisitOrder
<1>4. ASSUME NEW S \in SUBSET Services, NEW q \in Seq(Services), NEW i \in 1..Len(q), NEW t \in S, q[i] \in Required[t]
      PROVE  t \in Dependants(S)[q[i]]
  BY <1>4, RangeSeq DEF Dependants
<1>5. ASSUME NEW S \in SUBSET Services, NEW q \in ServicesOrderedByDependencies(S)
      PROVE  /\ q \in Seq(Services) /\ S \subseteq Range(q)
             /\ \A i \in 1..Len(q) : \A d \in Required[q[i]] : \E j \in 1..i-1 : q[j] = d
  <2>1. Sorted(Required, S, {}, q)
    BY <1>2
  <2> QED  BY <2>1 DEF Sorted
<1>6. ASSUME NEW S \in SUBSET Services, NEW q \in ServicesReversedByDependencies(S)
      PROVE  /\ q \in Seq(Services) /\ S \subseteq Range(q)
             /\ \A i \in 1..Len(q) : \A t \in S : q[i] \in Required[t] => \E j \in 1..i-1 : q[j] = t
  <2>1. Sorted(Dependants(S), S, {}, q)
    BY <1>3
  <2>2. q \in Seq(Services)
    BY <2>1 DEF Sorted
  <2>3. ASSUME NEW i \in 1..Len(q), NEW t \in S, q[i] \in Required[t] PROVE t \in Dependants(S)[q[i]]
    BY <1>4, <2>2, <2>3
  <2> QED  BY <2>1, <2>3 DEF Sorted
<1> QED  BY <1>5, <1>6

----------------------------------------------------------------------------
(* Types.                                                                  *)

(* The two orders are sequences of services, with all that was asked for.   *)
LEMMA OrderedSeq ==
    ASSUME NEW S \in SUBSET Services, NEW q, q \in ServicesOrderedByDependencies(S) \/ q \in ServicesReversedByDependencies(S)
    PROVE  q \in Seq(Services) /\ S \subseteq Range(q)
BY ServicesInOrder

(* What the end of a command leaves has its type.                          *)
LEMMA EndTypes ==
    ASSUME Types, End, UNCHANGED <<file, machine, exists>>, record' \in Project, lost' \in BOOLEAN
    PROVE  Types'
<1>1. seen' \in [Services -> States] /\ usedAddresses' \in [Services -> Addresses]
  BY DEF End, NoMachines, NoAddresses, States, Addresses
<1>2. todo' \in Seq(Services \cup Networks \cup Volumes) /\ project' \in Project
  BY SMT DEF End, NoProject, Project
<1>3. TypeOK'
  BY <1>1, <1>2 DEF Types, TypeOK, End
<1>4. TodoInv'
  BY DEF TodoInv, End
<1> QED  BY <1>3, <1>4 DEF Types

(* RemoveMachine leaves every machine in a state of the API.               *)
LEMMA RemoveMachineTypes ==
    ASSUME Types, NEW s \in Services, NEW ok \in BOOLEAN, RemoveMachine(s, ok)
    PROVE  machine' \in [Services -> States] /\ removed' \subseteq Services /\ undeleted' \subseteq Services
<1>1. machine \in [Services -> States] /\ removed \subseteq Services /\ undeleted \subseteq Services
  BY DEF Types, TypeOK
<1>2. machine' \in [Services -> States]
  BY <1>1, SMT DEF RemoveMachine, States
<1>3. removed' \subseteq Services /\ undeleted' \subseteq Services
  BY <1>1 DEF RemoveMachine
<1> QED  BY <1>2, <1>3

LEMMA InitTypes == Init => Types
<1> SUFFICES ASSUME Init PROVE Types
  OBVIOUS
<1>1. machine \in [Services -> States] /\ seen \in [Services -> States] /\ usedAddresses \in [Services -> Addresses]
  BY DEF Init, NoMachines, NoAddresses, States, Addresses
<1>2. todo \in Seq(Services \cup Networks \cup Volumes) /\ project \in Project /\ record \in Project
  BY SMT DEF Init, NoProject, Project
<1>3. TypeOK
  BY <1>1, <1>2 DEF TypeOK, Init
<1> QED  BY <1>3 DEF Types, TodoInv, Init

(* Types is kept by every step.                                            *)
LEMMA TypesStep == ASSUME Types, [Next]_vars PROVE Types'
<1> USE DEF cmdVars, store, history
<1>t. /\ file \in Files /\ file \subseteq Services /\ machine \in [Services -> States] /\ exists \subseteq Networks \cup Volumes
      /\ record \in Project /\ project \in Project /\ args \subseteq Services
      /\ usedAddresses \in [Services -> Addresses] /\ seen \in [Services -> States]
      /\ todo \in Seq(Services \cup Networks \cup Volumes)
  BY ServicesAssumption DEF Types, TypeOK
<1>a. ASSUME NEW c \in {"create", "start", "stop", "pause", "unpause", "up", "down"}, NEW services \in SUBSET Services,
             NEW det \in BOOLEAN, c = "up" => services = file, Run(c, services, det)
      PROVE  Types'
  <2>1. usedAddresses' \in [Services -> Addresses]
    BY <1>a, AddressAssumption DEF Run, Addresses
  <2>2. TypeOK'
    BY <1>a, <2>1 DEF Run, Types, TypeOK
  <2>3. TodoInv'
    BY <1>a DEF Run, Types, TodoInv
  <2> QED  BY <2>2, <2>3 DEF Types
<1>1. ASSUME NEW c \in {"create", "start", "stop", "pause", "unpause"}, NEW services \in Selections \cup {file},
             services \subseteq file, Run(c, services, TRUE)
      PROVE  Types'
  BY <1>1, <1>a, <1>t
<1>2. ASSUME NEW det \in BOOLEAN, Run("up", file, det) PROVE Types'
  BY <1>2, <1>a, <1>t
<1>3. CASE Run("down", file, TRUE)
  BY <1>3, <1>a, <1>t
<1>4. CASE Fail
  BY <1>4, <1>t, EndTypes DEF Fail
<1>5. ASSUME NEW s \in Services, AssignIP(s) PROVE Types'
  <2>1. usedAddresses' \in [Services -> Addresses]
    BY <1>5, <1>t DEF AssignIP, Addresses
  <2>8. TypeOK'
    BY <1>5, <2>1 DEF AssignIP, Types, TypeOK
  <2>9. TodoInv'
    BY <1>5, <2>1 DEF AssignIP, Types, TodoInv
  <2> QED  BY <2>8, <2>9 DEF Types
<1>6. ASSUME NEW s \in Services, MachineExits(s) PROVE Types'
  <2>1. machine' \in [Services -> States]
    BY <1>6, <1>t, SMT DEF MachineExits, States
  <2>8. TypeOK'
    BY <1>6, <2>1 DEF MachineExits, Types, TypeOK
  <2>9. TodoInv'
    BY <1>6, <2>1 DEF MachineExits, Types, TodoInv
  <2> QED  BY <2>8, <2>9 DEF Types
<1>7. ASSUME NEW s \in Services, KraftRm(s) PROVE Types'
  <2>1. machine' \in [Services -> States]
    BY <1>7, <1>t, SMT DEF KraftRm, States
  <2>8. TypeOK'
    BY <1>7, <2>1 DEF KraftRm, Types, TypeOK
  <2>9. TodoInv'
    BY <1>7, <2>1 DEF KraftRm, Types, TodoInv
  <2> QED  BY <2>8, <2>9 DEF Types
<1>8. ASSUME NEW s \in Services, NEW ok \in BOOLEAN, RemoveOrphans(s, ok) PROVE Types'
  <2>1. machine' \in [Services -> States] /\ removed' \subseteq Services /\ undeleted' \subseteq Services
    BY <1>8, RemoveMachineTypes DEF RemoveOrphans
  <2>8. TypeOK'
    BY <1>8, <2>1 DEF RemoveOrphans, Types, TypeOK
  <2>9. TodoInv'
    BY <1>8, <2>1 DEF RemoveOrphans, Types, TodoInv
  <2> QED  BY <2>8, <2>9 DEF Types
<1>9. CASE GetProject
  <2>1. project' \in Project
    BY <1>9, <1>t, SMT DEF GetProject, Refreshed, Project
  <2>2. usedAddresses' \in [Services -> Addresses]
    BY <1>9 DEF GetProject, NoAddresses, Addresses
  <2>3. todo' \in Seq(Services \cup Networks \cup Volumes) /\ todo' \in Seq(Networks \cup Volumes)
    <3>1. PICK q \in Orders(Networks \ exists), r \in Orders(Volumes \ exists) : todo' = q \o r
      BY <1>9 DEF GetProject
    <3>2. IsFiniteSet(Networks \ exists) /\ IsFiniteSet(Volumes \ exists)
      BY ServicesAssumption, FS_Difference
    <3>3. q \in Seq(Networks \ exists) /\ r \in Seq(Volumes \ exists)
      BY <3>2, OrdersSeq
    <3>4. q \in Seq(Networks \cup Volumes) /\ r \in Seq(Networks \cup Volumes)
      BY <3>3, SMT
    <3>5. todo' \in Seq(Networks \cup Volumes)
      BY <3>1, <3>4, SMT
    <3> QED  BY <3>5, SMT
  <2>8. TypeOK'
    BY <1>9, <2>1, <2>2, <2>3 DEF GetProject, Types, TypeOK
  <2>9. TodoInv'
    BY <1>9, <2>1, <2>2, <2>3 DEF GetProject, Types, TodoInv
  <2> QED  BY <2>8, <2>9 DEF Types
<1>10. CASE ListToCreate
  <2>1. todo' \in Seq(Services)
    BY <1>10, <1>t, OrderedSeq DEF ListToCreate
  <2>2. todo' \in Seq(Services \cup Networks \cup Volumes)
    BY <2>1, SMT
  <2>8. TypeOK'
    BY <1>10, <2>1, <2>2 DEF ListToCreate, Types, TypeOK
  <2>9. TodoInv'
    BY <1>10, <2>1, <2>2 DEF ListToCreate, Types, TodoInv
  <2> QED  BY <2>8, <2>9 DEF Types
<1>b. ASSUME todo # <<>>, todo' = Tail(todo)
      PROVE  /\ todo' \in Seq(Services \cup Networks \cup Volumes)
             /\ todo \in Seq(Services) => Head(todo) \in Services /\ todo' \in Seq(Services)
             /\ todo \in Seq(Networks) => todo' \in Seq(Networks)
             /\ Head(todo) \in Services \cup Networks \cup Volumes
  BY <1>b, <1>t, TailSeq
<1>11. CASE AlreadyCreated
  <2>1. todo' \in Seq(Services \cup Networks \cup Volumes) /\ todo' \in Seq(Services)
    BY <1>11, <1>b DEF AlreadyCreated, Types, TodoInv
  <2>8. TypeOK'
    BY <1>11, <2>1 DEF AlreadyCreated, Types, TypeOK
  <2>9. TodoInv'
    BY <1>11, <2>1 DEF AlreadyCreated, Types, TodoInv
  <2> QED  BY <2>8, <2>9 DEF Types
<1>12. CASE CreateService
  <2>1. todo' \in Seq(Services \cup Networks \cup Volumes) /\ todo' \in Seq(Services) /\ Head(todo) \in Services
    BY <1>12, <1>b DEF CreateService, Types, TodoInv
  <2>2. machine' \in [Services -> States] /\ project' \in Project
    <3>1. CASE machine[Head(todo)] = "absent"
      <4>1. machine' = [machine EXCEPT ![Head(todo)] = "created"]
            /\ project' = [project EXCEPT !.machines = @ \cup {Head(todo)}]
        BY <1>12, <3>1 DEF CreateService
      <4>2. machine' \in [Services -> States]
        BY <4>1, <2>1, <1>t, SMT DEF States
      <4>3. project' \in Project
        BY <4>1, <2>1, <1>t, SMTT(20) DEF Project
      <4> QED  BY <4>2, <4>3
    <3>2. CASE machine[Head(todo)] # "absent"
      BY <1>12, <3>2, <1>t DEF CreateService
    <3> QED  BY <3>1, <3>2
  <2>8. TypeOK'
    BY <1>12, <2>1, <2>2 DEF CreateService, Types, TypeOK
  <2>9. TodoInv'
    BY <1>12, <2>1, <2>2 DEF CreateService, Types, TodoInv
  <2> QED  BY <2>8, <2>9 DEF Types
<1>13. CASE UpdateProject
  <2>1. CASE op = "up"
    <3>1. seen' \in [Services -> States] /\ usedAddresses' \in [Services -> Addresses]
      BY <1>13, <2>1 DEF UpdateProject, StartNext, NoMachines, NoAddresses, States, Addresses
    <3>2. project' \in Project /\ record' \in Project
      BY <1>13, <2>1, <1>t, SMT DEF UpdateProject, StartNext, NoProject, Project
    <3>8. TypeOK'
      BY <1>13, <2>1, <3>1, <3>2 DEF UpdateProject, StartNext, Types, TypeOK
    <3>9. TodoInv'
      BY <1>13, <2>1, <3>1, <3>2 DEF UpdateProject, StartNext, Types, TodoInv
    <3> QED  BY <3>8, <3>9 DEF Types
  <2>2. CASE op # "up"
    BY <1>13, <2>2, <1>t, EndTypes DEF UpdateProject, Types, TypeOK
  <2> QED  BY <2>1, <2>2
<1>14. ASSUME NEW ok \in BOOLEAN, CreateResource(ok) PROVE Types'
  <2>1. todo' \in Seq(Services \cup Networks \cup Volumes) /\ todo' \in Seq(Networks \cup Volumes)
        /\ Head(todo) \in Networks \cup Volumes
    BY <1>14, <1>b, TailSeq DEF CreateResource, Types, TodoInv
  <2>2. exists' \subseteq Networks \cup Volumes /\ project' \in Project
    BY <1>14, <2>1, <1>t, SMT DEF CreateResource, Project
  <2>8. TypeOK'
    BY <1>14, <2>1, <2>2 DEF CreateResource, Types, TypeOK
  <2>9. TodoInv'
    BY <1>14, <2>1, <2>2 DEF CreateResource, Types, TodoInv
  <2> QED  BY <2>8, <2>9 DEF Types
<1>15. ASSUME NEW ok \in BOOLEAN, RemoveOld(ok) PROVE Types'
  <2>1. Head(todo) \in Services
    BY <1>15, TailSeq DEF RemoveOld, Types, TodoInv
  <2>2. machine' \in [Services -> States] /\ removed' \subseteq Services /\ undeleted' \subseteq Services
    BY <1>15, <2>1, RemoveMachineTypes DEF RemoveOld
  <2>3. seen' \in [Services -> States] /\ project' \in Project
    BY <1>15, <2>1, <1>t, SMT DEF RemoveOld, States, Project
  <2>8. TypeOK'
    BY <1>15, <2>2, <2>3 DEF RemoveOld, Types, TypeOK
  <2>9. TodoInv'
    BY <1>15, <2>2, <2>3 DEF RemoveOld, Types, TodoInv
  <2> QED  BY <2>8, <2>9 DEF Types
<1>c. ASSUME NEW i \in 1..Len(todo), todo \in Seq(Services)
      PROVE  /\ todo[i] \in Services /\ Behind(i) \in Seq(Services)
             /\ \A q \in Seq(Services) : q \in Seq(Services \cup Networks \cup Volumes)
  <2>1. Behind(i) \in Seq(Services)
    BY <1>c, BehindSeq DEF Behind
  <2>2. \A q \in Seq(Services) : q \in Seq(Services \cup Networks \cup Volumes)
    BY SMT
  <2>3. todo[i] \in Services
    BY <1>c, RangeSeq
  <2> QED  BY <2>1, <2>2, <2>3
<1>16. ASSUME NEW i \in 1..Len(todo), StartMachine(i) PROVE Types'
  <2>1. todo' \in Seq(Services) /\ todo' \in Seq(Services \cup Networks \cup Volumes) /\ todo[i] \in Services
    BY <1>16, <1>c DEF StartMachine, Types, TodoInv
  <2>2. machine' \in [Services -> States]
    BY <1>16, <2>1, <1>t, SMT DEF StartMachine, States
  <2>8. TypeOK'
    BY <1>16, <2>1, <2>2 DEF StartMachine, Types, TypeOK
  <2>9. TodoInv'
    BY <1>16, <2>1, <2>2 DEF StartMachine, Types, TodoInv
  <2> QED  BY <2>8, <2>9 DEF Types
<1>17. ASSUME NEW i \in 1..Len(todo), NEW ok \in BOOLEAN, StopMachine(i, ok) PROVE Types'
  <2>1. Behind(i) \in Seq(Services) /\ todo[i] \in Services /\ todo \in Seq(Services)
    BY <1>17, <1>c DEF StopMachine, Types, TodoInv
  <2>2. SubSeq(todo, 1, i - 1) \in Seq(Services)
    BY <2>1, SMT
  <2>3. todo' \in Seq(Services)
    BY <1>17, <2>1, <2>2, SMT DEF StopMachine
  <2>4. machine' \in [Services -> States]
    BY <1>17, <2>1, <1>t, SMT DEF StopMachine, States
  <2>5. todo' \in Seq(Services \cup Networks \cup Volumes)
    BY <2>1, <2>3, <1>c
  <2>8. TypeOK'
    BY <1>17, <2>3, <2>4, <2>5 DEF StopMachine, Types, TypeOK
  <2>9. TodoInv'
    BY <1>17, <2>3, <2>4, <2>5 DEF StopMachine, Types, TodoInv
  <2> QED  BY <2>8, <2>9 DEF Types
<1>18. ASSUME NEW i \in 1..Len(todo), NEW ok \in BOOLEAN, RemoveService(i, ok) PROVE Types'
  <2>1. todo' \in Seq(Services) /\ todo' \in Seq(Services \cup Networks \cup Volumes) /\ todo[i] \in Services
    BY <1>18, <1>c DEF RemoveService, Types, TodoInv
  <2>2. machine' \in [Services -> States] /\ removed' \subseteq Services /\ undeleted' \subseteq Services
    BY <1>18, <2>1, RemoveMachineTypes DEF RemoveService
  <2>8. TypeOK'
    BY <1>18, <2>1, <2>2 DEF RemoveService, Types, TypeOK
  <2>9. TodoInv'
    BY <1>18, <2>1, <2>2 DEF RemoveService, Types, TodoInv
  <2> QED  BY <2>8, <2>9 DEF Types
<1>d. ASSUME NEW S \in SUBSET Services, todo' \in ServicesOrderedByDependencies(S) \/ todo' \in ServicesReversedByDependencies(S)
      PROVE  todo' \in Seq(Services) /\ todo' \in Seq(Services \cup Networks \cup Volumes)
  <2>1. todo' \in Seq(Services)
    BY <1>d, OrderedSeq
  <2> QED  BY <2>1, SMT
<1>19. CASE ListToStart
  <2>1. todo' \in Seq(Services) /\ todo' \in Seq(Services \cup Networks \cup Volumes)
    BY <1>19, <1>d, <1>t DEF ListToStart
  <2>8. TypeOK'
    BY <1>19, <2>1 DEF ListToStart, Types, TypeOK
  <2>9. TodoInv'
    BY <1>19, <2>1 DEF ListToStart, Types, TodoInv
  <2> QED  BY <2>8, <2>9 DEF Types
<1>20. CASE Started
  <2>1. CASE op = "up" /\ ~detach
    BY <1>20, <2>1 DEF Started, Types, TypeOK, TodoInv
  <2>2. CASE ~(op = "up" /\ ~detach)
    BY <1>20, <2>2, <1>t, EndTypes DEF Started, Types, TypeOK
  <2> QED  BY <2>1, <2>2
<1>21. CASE StopFollowing
  <2>8. TypeOK'
    BY <1>21 DEF StopFollowing, Types, TypeOK
  <2>9. TodoInv'
    BY <1>21 DEF StopFollowing, Types, TodoInv
  <2> QED  BY <2>8, <2>9 DEF Types
<1>22. CASE ListToStop
  <2>1. todo' \in Seq(Services) /\ todo' \in Seq(Services \cup Networks \cup Volumes)
    BY <1>22, <1>d, <1>t DEF ListToStop
  <2>8. TypeOK'
    BY <1>22, <2>1 DEF ListToStop, Types, TypeOK
  <2>9. TodoInv'
    BY <1>22, <2>1 DEF ListToStop, Types, TodoInv
  <2> QED  BY <2>8, <2>9 DEF Types
<1>23. CASE Stopped
  BY <1>23, <1>t, EndTypes DEF Stopped, Types, TypeOK
<1>24. CASE ListToRemove
  <2>1. todo' \in Seq(Services) /\ todo' \in Seq(Services \cup Networks \cup Volumes)
    BY <1>24, <1>d, <1>t DEF ListToRemove
  <2>8. TypeOK'
    BY <1>24, <2>1 DEF ListToRemove, Types, TypeOK
  <2>9. TodoInv'
    BY <1>24, <2>1 DEF ListToRemove, Types, TodoInv
  <2> QED  BY <2>8, <2>9 DEF Types
<1>25. CASE ListNetworks
  <2>1. IsFiniteSet(Networks \cap exists)
    BY ServicesAssumption, FS_Intersection
  <2>2. todo' \in Seq(Networks \cap exists)
    BY <1>25, <2>1, OrdersSeq DEF ListNetworks
  <2>3. todo' \in Seq(Networks) /\ todo' \in Seq(Services \cup Networks \cup Volumes)
    BY <2>2, SMT
  <2>8. TypeOK'
    BY <1>25, <2>3 DEF ListNetworks, Types, TypeOK
  <2>9. TodoInv'
    BY <1>25, <2>3 DEF ListNetworks, Types, TodoInv
  <2> QED  BY <2>8, <2>9 DEF Types
<1>26. CASE RemoveNetwork
  <2>1. todo' \in Seq(Networks) /\ todo' \in Seq(Services \cup Networks \cup Volumes)
    BY <1>26, <1>b DEF RemoveNetwork, Types, TodoInv
  <2>2. exists' \subseteq Networks \cup Volumes
    BY <1>26, <1>t DEF RemoveNetwork
  <2>8. TypeOK'
    BY <1>26, <2>1, <2>2 DEF RemoveNetwork, Types, TypeOK
  <2>9. TodoInv'
    BY <1>26, <2>1, <2>2 DEF RemoveNetwork, Types, TodoInv
  <2> QED  BY <2>8, <2>9 DEF Types
<1>27. CASE Down
  BY <1>27, <1>t, EndTypes DEF Down, Types, TypeOK
<1>28. CASE EditFile
  <2>8. TypeOK'
    BY <1>28 DEF EditFile, Types, TypeOK
  <2>9. TodoInv'
    BY <1>28 DEF EditFile, Types, TodoInv
  <2> QED  BY <2>8, <2>9 DEF Types
<1>29. CASE UNCHANGED vars
  <2>8. TypeOK'
    BY <1>29 DEF vars, Types, TypeOK
  <2>9. TodoInv'
    BY <1>29 DEF vars, Types, TodoInv
  <2> QED  BY <2>8, <2>9 DEF Types
<1> QED
  BY <1>1, <1>2, <1>3, <1>4, <1>5, <1>6, <1>7, <1>8, <1>9, <1>10, <1>11, <1>12, <1>13, <1>14, <1>15, <1>16, <1>17,
     <1>18, <1>19, <1>20, <1>21, <1>22, <1>23, <1>24, <1>25, <1>26, <1>27, <1>28, <1>29 DEF Next

----------------------------------------------------------------------------
(* AssignIPs.                                                              *)

(* Only a new command and AssignIPs itself give addresses; other steps     *)
(* keep them or drop them all.                                             *)
LEMMA AddressSteps ==
    ASSUME Next
    PROVE  \/ usedAddresses' = usedAddresses \/ usedAddresses' = NoAddresses
           \/ usedAddresses' = [s \in Services |-> IF s \in file THEN Static[s] ELSE None]
           \/ \E s \in Services : AssignIP(s)
<1> USE DEF cmdVars, store, history
<1>1. CASE GetProject \/ Fail \/ UpdateProject \/ Started \/ Stopped \/ Down
  BY <1>1 DEF GetProject, Fail, UpdateProject, Started, Stopped, Down, End, StartNext
<1>2. CASE ListToCreate \/ AlreadyCreated \/ CreateService \/ ListToStart \/ StopFollowing \/ ListToStop
           \/ ListToRemove \/ ListNetworks \/ RemoveNetwork \/ EditFile
  BY <1>2 DEF ListToCreate, AlreadyCreated, CreateService, ListToStart, StopFollowing, ListToStop, ListToRemove,
              ListNetworks, RemoveNetwork, EditFile
<1>3. ASSUME NEW s \in Services, NEW ok \in BOOLEAN, RemoveOrphans(s, ok) \/ MachineExits(s) \/ KraftRm(s)
      PROVE  usedAddresses' = usedAddresses
  BY <1>3 DEF RemoveOrphans, MachineExits, KraftRm
<1>4. ASSUME NEW ok \in BOOLEAN, CreateResource(ok) \/ RemoveOld(ok) PROVE usedAddresses' = usedAddresses
  BY <1>4 DEF CreateResource, RemoveOld
<1>5. ASSUME NEW i \in 1..Len(todo), NEW ok \in BOOLEAN, StartMachine(i) \/ StopMachine(i, ok) \/ RemoveService(i, ok)
      PROVE  usedAddresses' = usedAddresses
  BY <1>5 DEF StartMachine, StopMachine, RemoveService
<1>6. ASSUME NEW c, NEW services, NEW det, Run(c, services, det)
      PROVE  usedAddresses' = [s \in Services |-> IF s \in file THEN Static[s] ELSE None]
  BY <1>6 DEF Run
<1> QED  BY <1>1, <1>2, <1>3, <1>4, <1>5, <1>6 DEF Next

(* An address that is free is not the subnet's, the gateway's or taken.    *)
LEMMA AddressesStep == ASSUME Types, AddressesDistinct, [Next]_vars PROVE AddressesDistinct'
<1>t. usedAddresses \in [Services -> Addresses] /\ None \notin 0..Size-1
  BY AddressAssumption, SMT DEF Types, TypeOK
<1>1. CASE usedAddresses' = usedAddresses
  BY <1>1 DEF AddressesDistinct
<1>2. CASE usedAddresses' = NoAddresses
  BY <1>2 DEF AddressesDistinct, NoAddresses
<1>3. CASE usedAddresses' = [s \in Services |-> IF s \in file THEN Static[s] ELSE None]
  BY <1>3 DEF AddressesDistinct
<1>4. ASSUME NEW r \in Services, AssignIP(r) PROVE AddressesDistinct'
  <2>1. PICK ip \in 0..Size-1 : ip \notin Taken /\ usedAddresses' = [usedAddresses EXCEPT ![r] = ip]
    BY <1>4 DEF AssignIP
  <2>2. usedAddresses'[r] = ip /\ \A t \in Services \ {r} : usedAddresses'[t] = usedAddresses[t]
    BY <2>1, <1>t
  <2>3. ip # 0 /\ ip # Gateway /\ \A t \in Services : usedAddresses[t] # ip
    BY <2>1 DEF Taken
  <2>4. SUFFICES ASSUME NEW s \in Services, Static[s] = None, usedAddresses'[s] # None
                 PROVE  usedAddresses'[s] \notin {0, Gateway} /\ \A t \in Services \ {s} : usedAddresses'[t] # usedAddresses'[s]
    BY DEF AddressesDistinct
  <2>5. CASE s = r
    BY <2>2, <2>3, <2>5
  <2>6. CASE s # r
    BY <2>2, <2>3, <2>4, <2>6 DEF AddressesDistinct
  <2> QED  BY <2>5, <2>6
<1>5. CASE UNCHANGED vars
  BY <1>1, <1>5 DEF vars
<1> QED  BY <1>1, <1>2, <1>3, <1>4, <1>5, AddressSteps

----------------------------------------------------------------------------
(* The record of the project.                                              *)

(* A step that creates nothing, and neither begins nor ends a create.      *)
LEMMA NothingNew ==
    ASSUME RecordInv, Exist' \subseteq Exist, exists' \subseteq exists, record' = record, lost' = lost,
           project' = project \/ project' = NoProject,
           pc \in {"net", "create"} <=> pc' \in {"net", "create"}, pc \in {"net", "create"} => project' = project
    PROVE  RecordInv'
BY DEF RecordInv

(* Machines that change state, and machines that go.                       *)
LEMMA ExistSteps ==
    ASSUME Types
    PROVE  /\ machine' = machine => Exist' = Exist
           /\ \A s \in Services, t \in States : machine' = [machine EXCEPT ![s] = t] =>
                Exist' = IF t = "absent" THEN Exist \ {s} ELSE Exist \cup {s}
           /\ \A s \in Services, ok \in BOOLEAN : RemoveMachine(s, ok) => Exist' = IF ok THEN Exist \ {s} ELSE Exist
<1>t. machine \in [Services -> States]
  BY DEF Types, TypeOK
<1>1. machine' = machine => Exist' = Exist
  BY DEF Exist
<1>2. ASSUME NEW s \in Services, NEW t \in States, machine' = [machine EXCEPT ![s] = t]
      PROVE  Exist' = IF t = "absent" THEN Exist \ {s} ELSE Exist \cup {s}
  BY <1>2, <1>t, SMT DEF Exist
<1>3. ASSUME NEW s \in Services, NEW ok \in BOOLEAN, RemoveMachine(s, ok) PROVE Exist' = IF ok THEN Exist \ {s} ELSE Exist
  <2>1. "absent" \in States /\ "exited" \in States /\ s \in Exist
    BY <1>3 DEF States, RemoveMachine, Exist
  <2>2. CASE ok
    BY <1>2, <1>3, <2>1, <2>2 DEF RemoveMachine
  <2>3. CASE ~ok
    <3>1. machine' = machine \/ machine' = [machine EXCEPT ![s] = "exited"]
      BY <1>3, <2>3 DEF RemoveMachine
    <3>2. Exist \cup {s} = Exist
      BY <2>1
    <3> QED  BY <1>1, <1>2, <2>1, <2>3, <3>1, <3>2
  <2> QED  BY <2>2, <2>3
<1> QED  BY <1>1, <1>2, <1>3

(* RecordInv is kept by every step.                                        *)
LEMMA RecordStep == ASSUME Types, RecordInv, [Next]_vars PROVE RecordInv'
<1> USE DEF cmdVars, store, history
<1>s. "created" \in States /\ "running" \in States /\ "paused" \in States /\ "exited" \in States /\ "absent" \in States
  BY DEF States
<1>t. project \in Project /\ record \in Project /\ lost \in BOOLEAN
  BY DEF Types, TypeOK
<1>a. ASSUME machine' = machine PROVE Exist' = Exist
  BY <1>a, ExistSteps
<1>1. ASSUME NEW c \in {"create", "start", "stop", "pause", "unpause", "up", "down"}, NEW services, NEW det, Run(c, services, det)
      PROVE  RecordInv'
  <2>1. pc \notin {"net", "create"} /\ pc' \notin {"net", "create"}
    BY <1>1 DEF Run
  <2> QED  BY <1>1, <1>a, <2>1, NothingNew DEF Run
<1>2. CASE Fail
  <2>1. /\ pc' = "idle" /\ project' = NoProject /\ UNCHANGED <<machine, exists, record>>
        /\ ~lost' => ~lost /\ project.machines \subseteq record.machines /\ project.resources \subseteq record.resources
    BY <1>2, <1>t DEF Fail, End
  <2>2. Exist' = Exist
    BY <2>1, <1>a
  <2> QED  BY <2>1, <2>2 DEF RecordInv
<1>3. ASSUME NEW s \in Services, AssignIP(s) PROVE RecordInv'
  <2>1. pc \notin {"net", "create"} /\ pc' \notin {"net", "create"}
    BY <1>3 DEF AssignIP
  <2> QED  BY <1>3, <1>a, <2>1, NothingNew DEF AssignIP
<1>4. ASSUME NEW s \in Services, MachineExits(s) PROVE RecordInv'
  <2>1. Exist' = Exist \cup {s} /\ s \in Exist
    BY <1>4, <1>s, ExistSteps DEF MachineExits, Exist
  <2>2. Exist' \subseteq Exist
    BY <2>1
  <2> QED  BY <1>4, <2>2, NothingNew DEF MachineExits
<1>5. ASSUME NEW s \in Services, KraftRm(s) PROVE RecordInv'
  <2>1. Exist' = Exist \ {s}
    BY <1>5, <1>s, ExistSteps DEF KraftRm
  <2>2. Exist' \subseteq Exist
    BY <2>1
  <2> QED  BY <1>5, <2>2, NothingNew DEF KraftRm
<1>6. ASSUME NEW s \in Services, NEW ok \in BOOLEAN, RemoveOrphans(s, ok) PROVE RecordInv'
  <2>1. Exist' \subseteq Exist
    BY <1>6, ExistSteps DEF RemoveOrphans
  <2>2. pc \notin {"net", "create"} /\ pc' \notin {"net", "create"}
    BY <1>6 DEF RemoveOrphans, Assigned
  <2> QED  BY <1>6, <2>1, <2>2, NothingNew DEF RemoveOrphans
<1>7. CASE GetProject
  <2>1. pc \notin {"net", "create"} /\ pc' = "net" /\ project' = Refreshed /\ exists' = exists /\ lost' = lost /\ Exist' = Exist
    BY <1>7, <1>a DEF GetProject, Assigned
  <2>2. project'.machines = record.machines \cap Exist /\ project'.resources = record.resources \cap exists
    BY <2>1, <1>t, SMT DEF Refreshed, Exist, Project
  <2> QED  BY <2>1, <2>2 DEF RecordInv
<1>8. ASSUME NEW ok \in BOOLEAN, CreateResource(ok) PROVE RecordInv'
  <2>1. /\ pc = "net" /\ pc' = "net" /\ exists' = exists \cup {Head(todo)} /\ Exist' = Exist
        /\ ~lost' => ~lost /\ ok
    BY <1>8, <1>a, <1>t DEF CreateResource
  <2>2. ok => project'.machines = project.machines /\ project'.resources = project.resources \cup {Head(todo)}
    BY <1>8, <1>t, SMT DEF CreateResource, Project
  <2> QED  BY <2>1, <2>2 DEF RecordInv
<1>9. CASE ListToCreate
  <2>1. pc \in {"net", "create"} /\ pc' \in {"net", "create"}
    BY <1>9 DEF ListToCreate
  <2> QED  BY <1>9, <1>a, <2>1, NothingNew DEF ListToCreate
<1>10. CASE AlreadyCreated
  BY <1>10, <1>a, NothingNew DEF AlreadyCreated
<1>h. ASSUME pc = "create", todo # <<>> PROVE Head(todo) \in Services
  BY <1>h, TailSeq DEF Types, TodoInv
<1>11. ASSUME NEW ok \in BOOLEAN, RemoveOld(ok) PROVE RecordInv'
  <2>1. pc = "create" /\ pc' = "create" /\ exists' = exists /\ (~lost' => ~lost /\ ok) /\ Head(todo) \in Services
    BY <1>11, <1>h, <1>t DEF RemoveOld
  <2>2. Exist' = IF ok THEN Exist \ {Head(todo)} ELSE Exist
    BY <1>11, <2>1, ExistSteps DEF RemoveOld
  <2>3. project'.machines = project.machines \ {Head(todo)} /\ project'.resources = project.resources
    BY <1>11, <1>t, SMT DEF RemoveOld, Project
  <2> QED  BY <2>1, <2>2, <2>3 DEF RecordInv
<1>12. CASE CreateService
  <2>1. pc = "create" /\ pc' = "create" /\ exists' = exists /\ lost' = lost /\ Head(todo) \in Services
    BY <1>12, <1>h DEF CreateService
  <2>2. CASE machine[Head(todo)] = "absent"
    <3>1. machine' = [machine EXCEPT ![Head(todo)] = "created"] /\ project' = [project EXCEPT !.machines = @ \cup {Head(todo)}]
      BY <1>12, <2>2 DEF CreateService
    <3>2. Exist' = Exist \cup {Head(todo)}
      BY <2>1, <3>1, <1>s, ExistSteps
    <3>3. project'.machines = project.machines \cup {Head(todo)} /\ project'.resources = project.resources
      BY <3>1, <1>t, SMT DEF Project
    <3> QED  BY <2>1, <3>2, <3>3 DEF RecordInv
  <2>3. CASE machine[Head(todo)] # "absent"
    <3>1. machine' = machine /\ project' = project /\ record' = record
      BY <1>12, <2>3 DEF CreateService
    <3> QED  BY <2>1, <3>1, <1>a, NothingNew
  <2> QED  BY <2>2, <2>3
<1>13. CASE UpdateProject
  <2>1. pc = "create" /\ pc' \notin {"net", "create"} /\ exists' = exists /\ lost' = lost /\ machine' = machine
        /\ record' = project /\ project' = NoProject
    BY <1>13 DEF UpdateProject, StartNext, End
  <2>2. Exist' = Exist
    BY <2>1, <1>a
  <2> QED  BY <2>1, <2>2 DEF RecordInv
<1>14. ASSUME NEW i \in 1..Len(todo), StartMachine(i) PROVE RecordInv'
  <2>1. todo[i] \in Services
    BY <1>14, RangeSeq DEF StartMachine, Types, TodoInv
  <2>2. Exist' = Exist \cup {todo[i]} /\ todo[i] \in Exist
    BY <1>14, <2>1, <1>s, ExistSteps DEF StartMachine, Exist
  <2>3. Exist' \subseteq Exist
    BY <2>2
  <2> QED  BY <1>14, <2>3, NothingNew DEF StartMachine
<1>15. ASSUME NEW i \in 1..Len(todo), NEW ok \in BOOLEAN, StopMachine(i, ok) PROVE RecordInv'
  <2>1. todo[i] \in Services
    BY <1>15, RangeSeq DEF StopMachine, Types, TodoInv
  <2>2. CASE ok /\ machine[todo[i]] \in Stoppable
    <3>1. PICK t \in {"paused", "exited"} : machine' = [machine EXCEPT ![todo[i]] = t]
      BY <1>15, <2>2 DEF StopMachine
    <3>2. todo[i] \in Exist
      BY <2>1, <2>2 DEF Exist, Stoppable
    <3>3. t \in States /\ t # "absent"
      BY <1>s, <3>1
    <3>4. Exist' = Exist \cup {todo[i]}
      BY <2>1, <3>1, <3>3, ExistSteps
    <3>5. Exist' \subseteq Exist
      BY <3>2, <3>4
    <3> QED  BY <1>15, <3>5, NothingNew DEF StopMachine
  <2>3. CASE ~(ok /\ machine[todo[i]] \in Stoppable)
    <3>1. machine' = machine
      BY <1>15, <2>3 DEF StopMachine
    <3> QED  BY <1>15, <3>1, <1>a, NothingNew DEF StopMachine
  <2> QED  BY <2>2, <2>3
<1>16. ASSUME NEW i \in 1..Len(todo), NEW ok \in BOOLEAN, RemoveService(i, ok) PROVE RecordInv'
  <2>1. todo[i] \in Services
    BY <1>16, RangeSeq DEF RemoveService, Types, TodoInv
  <2>2. Exist' \subseteq Exist
    BY <1>16, <2>1, ExistSteps DEF RemoveService
  <2> QED  BY <1>16, <2>2, NothingNew DEF RemoveService
<1>17. CASE ListToStart \/ ListToStop \/ ListToRemove \/ StopFollowing \/ ListNetworks
  <2>1. pc \notin {"net", "create"} /\ pc' \notin {"net", "create"} /\ UNCHANGED <<machine, exists, record, project, lost>>
    BY <1>17 DEF ListToStart, ListToStop, ListToRemove, StopFollowing, ListNetworks
  <2> QED  BY <1>a, <2>1, NothingNew
<1>18. CASE Started \/ Stopped \/ Down
  <2>1. pc \notin {"net", "create"} /\ pc' \notin {"net", "create"} /\ UNCHANGED <<machine, exists, record, lost>>
        /\ (project' = project \/ project' = NoProject)
    BY <1>18 DEF Started, Stopped, Down, End
  <2> QED  BY <1>a, <2>1, NothingNew
<1>19. CASE RemoveNetwork
  <2>1. exists' \subseteq exists
    BY <1>19 DEF RemoveNetwork
  <2> QED  BY <1>19, <1>a, <2>1, NothingNew DEF RemoveNetwork
<1>20. CASE EditFile
  BY <1>20, <1>a, NothingNew DEF EditFile
<1>21. CASE UNCHANGED vars
  BY <1>21, <1>a, NothingNew DEF vars
<1> QED
  BY <1>1, <1>2, <1>3, <1>4, <1>5, <1>6, <1>7, <1>8, <1>9, <1>10, <1>11, <1>12, <1>13, <1>14, <1>15, <1>16, <1>17,
     <1>18, <1>19, <1>20, <1>21 DEF Next

----------------------------------------------------------------------------
(* Up.                                                                     *)

(* The steps after which no up is at create, list or start.                *)
LEMMA UpElsewhere ==
    ASSUME Types, Next
    PROVE  \/ op' # "up" /\ pc' # "create"
           \/ pc' \notin {"create", "list", "start"}
           \/ \E s \in Services : MachineExits(s)
           \/ ListToCreate \/ AlreadyCreated \/ CreateService \/ (\E ok \in BOOLEAN : RemoveOld(ok))
           \/ (UpdateProject /\ op = "up") \/ ListToStart \/ \E i \in 1..Len(todo) : StartMachine(i)
<1> USE DEF cmdVars, store, history
<1>1. ASSUME NEW c, NEW services, NEW det, Run(c, services, det) PROVE (op' # "up" /\ pc' # "create") \/ pc' = "assign"
  BY <1>1 DEF Run
<1>2. CASE Fail \/ Stopped \/ Down \/ (UpdateProject /\ op # "up") \/ Started
  BY <1>2 DEF Fail, Stopped, Down, UpdateProject, Started, End
<1>3. ASSUME NEW s \in Services, NEW ok \in BOOLEAN, AssignIP(s) \/ KraftRm(s) \/ RemoveOrphans(s, ok)
      PROVE  pc' \in {"assign", "idle", "get"}
  BY <1>3 DEF AssignIP, KraftRm, RemoveOrphans
<1>4. CASE GetProject \/ StopFollowing \/ ListToStop \/ ListToRemove \/ ListNetworks \/ RemoveNetwork \/ EditFile
           \/ \E ok \in BOOLEAN : CreateResource(ok)
  BY <1>4 DEF GetProject, StopFollowing, ListToStop, ListToRemove, ListNetworks, RemoveNetwork, EditFile, CreateResource
<1>5. ASSUME NEW i \in 1..Len(todo), NEW ok \in BOOLEAN, StopMachine(i, ok) \/ RemoveService(i, ok)
      PROVE  pc' \in {"stop", "down"}
  BY <1>5 DEF StopMachine, RemoveService
<1> QED  BY <1>1, <1>2, <1>3, <1>4, <1>5 DEF Next

(* A machine that runs and exits was there for compose start before and is after. *)
LEMMA ExitsLive ==
    ASSUME Types, NEW s \in Services, MachineExits(s)
    PROVE  \A t \in Services : /\ machine[t] \in Live => machine'[t] \in Live
                               /\ machine[t] # "paused" => machine'[t] # "paused"
                               /\ machine[t] = "absent" <=> machine'[t] = "absent"
<1>1. machine \in [Services -> States] /\ machine[s] = "running" /\ machine' = [machine EXCEPT ![s] = "exited"]
  BY DEF Types, TypeOK, MachineExits
<1>2. machine'[s] = "exited" /\ \A t \in Services \ {s} : machine'[t] = machine[t]
  BY <1>1
<1> QED  BY <1>1, <1>2 DEF Live

(* What the steps of create do to the service at the head.                 *)
LEMMA CreateHead ==
    ASSUME Types, pc = "create", todo # <<>>
    PROVE  /\ Head(todo) \in Services
           /\ CreateService => /\ machine[Head(todo)] = "absent" => machine'[Head(todo)] = "created"
                               /\ machine[Head(todo)] # "absent" => machine' = machine
                               /\ \A s \in Services \ {Head(todo)} : machine'[s] = machine[s]
           /\ \A ok \in BOOLEAN : RemoveOld(ok) =>
                /\ machine'[Head(todo)] = "absent" \/ Head(todo) \in undeleted'
                /\ seen'[Head(todo)] = "absent" /\ undeleted \subseteq undeleted'
                /\ \A s \in Services \ {Head(todo)} : machine'[s] = machine[s] /\ seen'[s] = seen[s]
<1>t. machine \in [Services -> States] /\ seen \in [Services -> States] /\ Head(todo) \in Services
  BY TailSeq DEF Types, TypeOK, TodoInv
<1>1. ASSUME CreateService
      PROVE  /\ machine[Head(todo)] = "absent" => machine'[Head(todo)] = "created"
             /\ machine[Head(todo)] # "absent" => machine' = machine
             /\ \A s \in Services \ {Head(todo)} : machine'[s] = machine[s]
  <2>1. CASE machine[Head(todo)] = "absent"
    <3>1. machine' = [machine EXCEPT ![Head(todo)] = "created"]
      BY <1>1, <2>1 DEF CreateService
    <3> QED  BY <1>t, <2>1, <3>1
  <2>2. CASE machine[Head(todo)] # "absent"
    BY <1>1, <2>2 DEF CreateService
  <2> QED  BY <2>1, <2>2
<1>2. ASSUME NEW ok \in BOOLEAN, RemoveOld(ok)
      PROVE  /\ machine'[Head(todo)] = "absent" \/ Head(todo) \in undeleted'
             /\ seen'[Head(todo)] = "absent" /\ undeleted \subseteq undeleted'
             /\ \A s \in Services \ {Head(todo)} : machine'[s] = machine[s] /\ seen'[s] = seen[s]
  <2>1. RemoveMachine(Head(todo), ok) /\ seen' = [seen EXCEPT ![Head(todo)] = "absent"]
    BY <1>2 DEF RemoveOld
  <2>2. \A s \in Services \ {Head(todo)} : machine'[s] = machine[s]
    BY <1>t, <2>1 DEF RemoveMachine
  <2>3. machine'[Head(todo)] = "absent" \/ Head(todo) \in undeleted'
    BY <1>t, <2>1 DEF RemoveMachine
  <2>4. undeleted \subseteq undeleted'
    BY <2>1 DEF RemoveMachine
  <2> QED  BY <1>t, <2>1, <2>2, <2>3, <2>4
<1> QED  BY <1>t, <1>1, <1>2

(* ListInv is kept by every step.                                          *)
LEMMA ListStep == ASSUME Types, ListInv, [Next]_vars PROVE ListInv'
<1> USE DEF cmdVars, store, history
<1>1. CASE pc' # "create"
  BY <1>1 DEF ListInv
<1>2. ASSUME NEW r \in Services, MachineExits(r) PROVE ListInv'
  <2>1. pc' = pc /\ seen' = seen /\ undeleted' = undeleted
    BY <1>2 DEF MachineExits
  <2> QED  BY <1>2, <2>1, ExitsLive DEF ListInv
<1>3. CASE ListToCreate
  <2>1. seen' = machine /\ machine' = machine
    BY <1>3 DEF ListToCreate
  <2> QED  BY <2>1 DEF ListInv, Live
<1>4. CASE AlreadyCreated
  BY <1>4 DEF AlreadyCreated, ListInv
<1>5. CASE CreateService
  <2>1. pc = "create" /\ todo # <<>> /\ seen' = seen /\ undeleted' = undeleted
    BY <1>5 DEF CreateService
  <2>2. \A s \in Services : machine'[s] = machine[s] \/ (machine[s] = "absent" /\ machine'[s] = "created")
    BY <1>5, <2>1, CreateHead
  <2>3. \A s \in Services : /\ machine[s] \in Live => machine'[s] \in Live
                            /\ machine[s] # "paused" => machine'[s] # "paused"
    BY <2>2 DEF Live
  <2> QED  BY <2>1, <2>3 DEF ListInv
<1>6. ASSUME NEW ok \in BOOLEAN, RemoveOld(ok) PROVE ListInv'
  <2>1. pc = "create" /\ todo # <<>>
    BY <1>6 DEF RemoveOld
  <2>2. /\ machine'[Head(todo)] = "absent" \/ Head(todo) \in undeleted'
        /\ seen'[Head(todo)] = "absent" /\ undeleted \subseteq undeleted'
        /\ \A s \in Services \ {Head(todo)} : machine'[s] = machine[s] /\ seen'[s] = seen[s]
    BY <1>6, <2>1, CreateHead
  <2>3. SUFFICES ASSUME NEW s \in Services
                 PROVE  /\ seen'[s] \in {"running", "created"} => machine'[s] \in Live
                        /\ seen'[s] = "absent" => machine'[s] # "paused" \/ s \in undeleted'
    BY DEF ListInv
  <2>4. CASE s = Head(todo)
    BY <2>2, <2>4
  <2>5. CASE s # Head(todo)
    BY <2>1, <2>2, <2>5 DEF ListInv
  <2> QED  BY <2>4, <2>5
<1>7. CASE UNCHANGED vars
  BY <1>7 DEF vars, ListInv
<1>8. CASE (UpdateProject /\ op = "up") \/ ListToStart \/ \E i \in 1..Len(todo) : StartMachine(i)
  <2>1. pc' # "create"
    BY <1>8 DEF UpdateProject, StartNext, ListToStart, StartMachine
  <2> QED  BY <1>1, <2>1
<1> QED  BY <1>1, <1>2, <1>3, <1>4, <1>5, <1>6, <1>7, <1>8, UpElsewhere

(* UpInv is kept by every step.                                            *)
LEMMA UpStep == ASSUME Types, ListInv, UpInv, [Next]_vars PROVE UpInv'
<1> USE DEF cmdVars, store, history
<1>t. file \subseteq Services /\ machine \in [Services -> States] /\ seen \in [Services -> States]
  BY ServicesAssumption DEF Types, TypeOK
<1>1. CASE op' # "up" \/ pc' \notin {"create", "list", "start"}
  BY <1>1 DEF UpInv
<1>2. ASSUME NEW r \in Services, MachineExits(r) PROVE UpInv'
  <2>1. UNCHANGED <<file, op, pc, todo, started, seen, undeleted>>
    BY <1>2 DEF MachineExits
  <2>2. \A t \in file : machine[t] \in Live => machine'[t] \in Live
    BY <1>2, <1>t, ExitsLive
  <2> QED  BY <2>1, <2>2 DEF UpInv
<1>3. CASE ListToCreate
  <2>1. pc' = "create" /\ op' = op /\ file' = file /\ args \subseteq Services /\ (op = "up" => args = file)
    BY <1>3 DEF ListToCreate, Types, TypeOK, TodoInv
  <2>2. args \subseteq Range(todo')
    BY <1>3, <2>1, OrderedSeq DEF ListToCreate
  <2> QED  BY <2>1, <2>2 DEF UpInv
<1>h. ASSUME pc = "create", todo # <<>>
      PROVE  Head(todo) \in Services /\ \A s \in Range(todo) : s = Head(todo) \/ s \in Range(Tail(todo))
  BY <1>h, TailSeq DEF Types, TodoInv
<1>4. CASE AlreadyCreated
  <2>1. /\ pc = "create" /\ pc' = "create" /\ todo # <<>> /\ todo' = Tail(todo) /\ seen[Head(todo)] \in {"running", "created"}
        /\ UNCHANGED <<op, file, machine, undeleted>>
    BY <1>4 DEF AlreadyCreated
  <2>2. machine[Head(todo)] \in Live
    BY <2>1, <1>h DEF ListInv
  <2> QED  BY <2>1, <2>2, <1>h DEF UpInv
<1>5. CASE CreateService
  <2>1. /\ pc = "create" /\ pc' = "create" /\ todo # <<>> /\ todo' = Tail(todo) /\ seen[Head(todo)] = "absent"
        /\ UNCHANGED <<op, file, undeleted>>
    BY <1>5 DEF CreateService
  <2>2. \A s \in Services : machine'[s] = machine[s] \/ (machine[s] = "absent" /\ machine'[s] = "created")
    BY <1>5, <2>1, CreateHead
  <2>3. machine[Head(todo)] # "paused" \/ Head(todo) \in undeleted
    BY <2>1, <1>h DEF ListInv
  <2>4. machine'[Head(todo)] \in Live \/ Head(todo) \in undeleted
    <3>1. machine[Head(todo)] \in States /\ Head(todo) \in Services
      BY <2>1, <1>h, <1>t
    <3>2. machine[Head(todo)] = "absent" => machine'[Head(todo)] = "created"
      BY <1>5, <2>1, CreateHead
    <3> QED  BY <2>2, <2>3, <3>1, <3>2 DEF Live, States
  <2>5. \A s \in Services : machine[s] \in Live => machine'[s] \in Live
    BY <2>2 DEF Live
  <2> QED  BY <2>1, <2>4, <2>5, <1>h, <1>t DEF UpInv
<1>6. ASSUME NEW ok \in BOOLEAN, RemoveOld(ok) PROVE UpInv'
  <2>1. pc = "create" /\ pc' = "create" /\ todo # <<>> /\ UNCHANGED <<op, file, todo>>
    BY <1>6 DEF RemoveOld
  <2>2. undeleted \subseteq undeleted' /\ \A s \in Services \ {Head(todo)} : machine'[s] = machine[s]
    BY <1>6, <2>1, CreateHead
  <2>3. Head(todo) \in Range(todo)
    <3>1. todo \in Seq(Services) /\ Head(todo) = todo[1]
      BY <2>1, TailSeq DEF Types, TodoInv
    <3>2. 1 \in 1..Len(todo)
      BY <2>1, <3>1, SMT
    <3> QED  BY <3>1, <3>2, RangeSeq
  <2> QED  BY <2>1, <2>2, <2>3, <1>t DEF UpInv
<1>7. CASE UpdateProject /\ op = "up"
  <2>1. pc = "create" /\ pc' = "list" /\ todo = <<>> /\ UNCHANGED <<op, file, machine, undeleted>>
    BY <1>7 DEF UpdateProject, StartNext
  <2>2. Range(todo) = {}
    BY <2>1, SMT DEF Range
  <2> QED  BY <2>1, <2>2 DEF UpInv
<1>8. CASE ListToStart
  <2>1. /\ pc = "list" /\ pc' = "start" /\ seen' = machine /\ UNCHANGED <<op, file, machine, undeleted>>
        /\ args \subseteq Services /\ (op = "up" => args = file)
    BY <1>8 DEF ListToStart, Types, TypeOK, TodoInv
  <2>2. args \subseteq Range(todo')
    BY <1>8, <2>1, OrderedSeq DEF ListToStart
  <2>3. op = "up" => \A s \in file : s \in Range(todo') /\ (machine[s] \in Live \/ s \in undeleted)
    BY <2>1, <2>2 DEF UpInv
  <2> QED  BY <2>1, <2>3 DEF UpInv, Live
<1>9. ASSUME NEW i \in 1..Len(todo), StartMachine(i) PROVE UpInv'
  <2>1. /\ pc = "start" /\ pc' = "start" /\ todo' = Behind(i) /\ started' = started \cup {todo[i]} /\ Foremost(i, Startable)
        /\ UNCHANGED <<op, file, seen, undeleted>> /\ todo \in Seq(Services)
    BY <1>9 DEF StartMachine, Types, TodoInv
  <2>2. ASSUME op = "up", NEW s \in Range(todo), seen[s] \in {"created", "exited"}
        PROVE  s \in started' \/ s \in Range(todo')
    <3>1. seen[s] \in Startable
      BY <2>2 DEF Startable
    <3>2. s = todo[i] \/ s \in Range(Behind(i))
      BY <2>1, <3>1, ForemostSeq
    <3> QED  BY <2>1, <3>2
  <2> QED  BY <2>1, <2>2 DEF UpInv
<1>10. CASE UNCHANGED vars
  BY <1>10 DEF vars, UpInv
<1> QED  BY <1>1, <1>2, <1>3, <1>4, <1>5, <1>6, <1>7, <1>8, <1>9, <1>10, UpElsewhere

(* Exhausted leaves nothing ahead.                                         *)
LEMMA UpDone == ASSUME Types, UpInv PROVE UpStartsAll
<1> SUFFICES ASSUME pc = "start", op = "up", Exhausted(Startable), NEW s \in file
             PROVE  s \in started \/ seen[s] = "running" \/ s \in undeleted
  BY DEF UpStartsAll
<1>1. todo \in Seq(Services)
  BY DEF Types, TodoInv
<1>2. \A t \in Range(todo) : seen[t] \notin {"created", "exited"}
  <2>1. SUFFICES ASSUME NEW t \in Range(todo) PROVE seen[t] \notin {"created", "exited"}
    OBVIOUS
  <2>2. PICK i \in 1..Len(todo) : todo[i] = t
    BY <1>1, RangeSeq
  <2>3. Startable = {"created", "exited"}
    BY DEF Startable
  <2> QED  BY <2>2, <2>3 DEF Exhausted
<1> QED  BY <1>2 DEF UpInv

----------------------------------------------------------------------------
(* Down.                                                                   *)

(* DownInv is kept by every step.                                          *)
LEMMA DownStep == ASSUME Types, DownInv, [Next]_vars PROVE DownInv'
<1> USE DEF cmdVars, store, history
<1>t. file \subseteq Services /\ machine \in [Services -> States] /\ seen \in [Services -> States]
  BY ServicesAssumption DEF Types, TypeOK
<1>1. CASE pc' \notin {"down", "netrm"}
  BY <1>1 DEF DownInv
<1>2. ASSUME NEW r \in Services, MachineExits(r) PROVE DownInv'
  <2>1. UNCHANGED <<file, pc, todo, seen, undeleted, exists>>
    BY <1>2 DEF MachineExits
  <2>2. \A t \in file : machine[t] = "absent" => machine'[t] = "absent"
    BY <1>2, <1>t, ExitsLive
  <2> QED  BY <2>1, <2>2 DEF DownInv
<1>3. CASE ListToRemove
  <2>1. pc' = "down" /\ seen' = machine /\ UNCHANGED <<file, machine>>
    BY <1>3 DEF ListToRemove
  <2>2. file \subseteq Range(todo')
    BY <1>3, <1>t, OrderedSeq DEF ListToRemove
  <2> QED  BY <2>1, <2>2 DEF DownInv
<1>4. ASSUME NEW i \in 1..Len(todo), NEW ok \in BOOLEAN, RemoveService(i, ok) PROVE DownInv'
  <2>1. /\ pc = "down" /\ pc' = "down" /\ todo' = Behind(i) /\ Foremost(i, Removable) /\ RemoveMachine(todo[i], ok)
        /\ UNCHANGED <<file, seen>> /\ todo \in Seq(Services)
    BY <1>4 DEF RemoveService, Types, TodoInv
  <2>2. todo[i] \in Services
    BY <2>1, RangeSeq
  <2>3. /\ machine'[todo[i]] = "absent" \/ todo[i] \in undeleted'
        /\ undeleted \subseteq undeleted' /\ \A s \in Services \ {todo[i]} : machine'[s] = machine[s]
    BY <2>1, <2>2, <1>t DEF RemoveMachine
  <2>4. SUFFICES ASSUME NEW s \in file
                 PROVE  machine'[s] = "absent" \/ s \in undeleted' \/ (s \in Range(todo') /\ seen[s] # "absent")
    BY <2>1 DEF DownInv
  <2>5. CASE s = todo[i]
    BY <2>3, <2>5
  <2>6. CASE s # todo[i] /\ s \in Range(todo) /\ seen[s] # "absent"
    <3>1. seen[s] \in Removable
      BY <2>6, <1>t DEF Removable
    <3>2. s \in Range(Behind(i))
      BY <2>1, <2>6, <3>1, ForemostSeq
    <3> QED  BY <2>1, <2>6, <3>2
  <2>7. CASE s # todo[i] /\ (machine[s] = "absent" \/ s \in undeleted)
    BY <2>3, <2>7, <1>t
  <2> QED  BY <2>1, <2>5, <2>6, <2>7 DEF DownInv
<1>5. CASE ListNetworks
  <2>1. /\ pc = "down" /\ pc' = "netrm" /\ Exhausted(Removable) /\ todo' \in Orders(Networks \cap exists)
        /\ UNCHANGED <<file, machine, undeleted, exists>> /\ todo \in Seq(Services)
    BY <1>5 DEF ListNetworks, Types, TodoInv
  <2>2. IsFiniteSet(Networks \cap exists)
    BY ServicesAssumption, FS_Intersection
  <2>3. Range(todo') = Networks \cap exists
    BY <2>1, <2>2, OrdersSeq
  <2>4. ASSUME NEW s \in file, s \in Range(todo), seen[s] # "absent" PROVE FALSE
    <3>1. PICK i \in 1..Len(todo) : todo[i] = s
      BY <2>1, <2>4, RangeSeq
    <3>2. seen[s] \in Removable
      BY <2>4, <1>t DEF Removable
    <3> QED  BY <2>1, <3>1, <3>2 DEF Exhausted
  <2> QED  BY <2>1, <2>3, <2>4 DEF DownInv
<1>6. CASE RemoveNetwork
  <2>1. /\ pc = "netrm" /\ pc' = "netrm" /\ todo # <<>> /\ todo' = Tail(todo) /\ exists' = exists \ {Head(todo)}
        /\ UNCHANGED <<file, machine, undeleted>> /\ todo \in Seq(Networks)
    BY <1>6 DEF RemoveNetwork, Types, TodoInv
  <2>2. \A x \in Range(todo) : x = Head(todo) \/ x \in Range(Tail(todo))
    BY <2>1, TailSeq
  <2> QED  BY <2>1, <2>2 DEF DownInv
<1>7. CASE UNCHANGED vars
  BY <1>7 DEF vars, DownInv
<1>8. CASE Fail \/ Stopped \/ Down \/ UpdateProject \/ Started
  <2>1. pc' \notin {"down", "netrm"}
    BY <1>8 DEF Fail, Stopped, Down, UpdateProject, StartNext, Started, End
  <2> QED  BY <1>1, <2>1
<1>9. CASE ListToCreate \/ AlreadyCreated \/ CreateService \/ ListToStart \/ GetProject \/ StopFollowing \/ ListToStop
           \/ EditFile
  <2>1. pc' \notin {"down", "netrm"}
    BY <1>9 DEF ListToCreate, AlreadyCreated, CreateService, ListToStart, GetProject, StopFollowing, ListToStop, EditFile
  <2> QED  BY <1>1, <2>1
<1>10. ASSUME NEW s \in Services, NEW ok \in BOOLEAN, AssignIP(s) \/ KraftRm(s) \/ RemoveOrphans(s, ok) PROVE DownInv'
  <2>1. pc' \notin {"down", "netrm"}
    BY <1>10 DEF AssignIP, KraftRm, RemoveOrphans
  <2> QED  BY <1>1, <2>1
<1>11. ASSUME NEW ok \in BOOLEAN, CreateResource(ok) \/ RemoveOld(ok) PROVE DownInv'
  <2>1. pc' \notin {"down", "netrm"}
    BY <1>11 DEF CreateResource, RemoveOld
  <2> QED  BY <1>1, <2>1
<1>12. ASSUME NEW i \in 1..Len(todo), NEW ok \in BOOLEAN, StartMachine(i) \/ StopMachine(i, ok) PROVE DownInv'
  <2>1. pc' \notin {"down", "netrm"}
    BY <1>12 DEF StartMachine, StopMachine
  <2> QED  BY <1>1, <2>1
<1>13. ASSUME NEW c, NEW services, NEW det, Run(c, services, det) PROVE DownInv'
  <2>1. pc' \notin {"down", "netrm"}
    BY <1>13 DEF Run
  <2> QED  BY <1>1, <2>1
<1> QED  BY <1>2, <1>3, <1>4, <1>5, <1>6, <1>7, <1>8, <1>9, <1>10, <1>11, <1>12, <1>13 DEF Next

(* Down has gone through the networks when todo is empty.                  *)
LEMMA DownDone == ASSUME DownInv PROVE DownLeavesNothing
<1>1. todo = <<>> => Range(todo) = {}
  BY SMT DEF Range
<1> QED  BY <1>1 DEF DownInv, DownLeavesNothing

----------------------------------------------------------------------------
(* The order of services.                                                  *)

(* What was ahead of a place and could be taken was passed over, is taken   *)
(* now, or is still ahead.                                                  *)
LEMMA AheadStep ==
    ASSUME todo \in Seq(Services), NEW i \in 1..Len(todo), NEW states, Foremost(i, states), todo' = Behind(i)
    PROVE  /\ Len(todo') = Len(todo) - i
           /\ \A k \in 1..Len(todo') :
                /\ i + k \in 1..Len(todo) /\ todo'[k] = todo[i + k]
                /\ \A s : Ahead(i + k, s) => s = todo[i] \/ seen[s] \notin states \/ Ahead(k, s)'
<1>1. Len(todo) \in Nat /\ todo' \in Seq(Services) /\ Len(todo') = Len(todo) - i /\ \A k \in 1..Len(todo) - i : todo'[k] = todo[i + k]
  BY BehindSeq, SMT DEF Behind
<1>2. ASSUME NEW k \in 1..Len(todo') PROVE i + k \in 1..Len(todo) /\ todo'[k] = todo[i + k]
  BY <1>1, <1>2, SMT
<1>3. ASSUME NEW k \in 1..Len(todo'), NEW s, Ahead(i + k, s) PROVE s = todo[i] \/ seen[s] \notin states \/ Ahead(k, s)'
  <2>1. PICK j \in 1..(i + k) - 1 : todo[j] = s
    BY <1>3 DEF Ahead
  <2>2. CASE j \in 1..i-1
    BY <2>1, <2>2 DEF Foremost
  <2>3. CASE j = i
    BY <2>1, <2>3
  <2>4. CASE j \notin 1..i-1 /\ j # i
    <3>1. j - i \in 1..k-1 /\ j - i \in 1..Len(todo) - i /\ i + (j - i) = j
      BY <1>1, <1>3, <2>1, <2>4, SMT
    <3>2. todo'[j - i] = s
      BY <1>1, <2>1, <3>1
    <3> QED  BY <3>1, <3>2 DEF Ahead
  <2> QED  BY <2>2, <2>3, <2>4
<1> QED  BY <1>1, <1>2, <1>3

(* The two orders: dependencies come first, and dependants come first.     *)
LEMMA DependenciesFirst ==
    ASSUME NEW S \in SUBSET Services, NEW q \in ServicesOrderedByDependencies(S), NEW i \in 1..Len(q), NEW d \in Required[q[i]]
    PROVE  \E j \in 1..i-1 : q[j] = d
BY ServicesInOrder

LEMMA DependantsFirst ==
    ASSUME NEW S \in SUBSET Services, NEW q \in ServicesReversedByDependencies(S), NEW i \in 1..Len(q), NEW t \in S, q[i] \in Required[t]
    PROVE  \E j \in 1..i-1 : q[j] = t
BY ServicesInOrder

(* OrderInv is kept by every step.                                         *)
LEMMA OrderStep == ASSUME Types, OrderInv, [Next]_vars PROVE OrderInv'
<1> USE DEF cmdVars, store, history
<1>t. file \subseteq Services /\ args \subseteq Services
  BY ServicesAssumption DEF Types, TypeOK
<1>1. CASE pc' \notin {"start", "down"}
  BY <1>1 DEF OrderInv
<1>2. CASE UNCHANGED <<pc, op, todo, seen, started, removed, file>>
  <2>1. Startable' = Startable /\ \A i, s : Ahead(i, s)' <=> Ahead(i, s)
    BY <1>2 DEF Startable, Ahead
  <2> QED  BY <1>2, <2>1 DEF OrderInv
<1>3. CASE ListToStart
  <2>1. pc' = "start" /\ todo' \in ServicesOrderedByDependencies(args)
    BY <1>3 DEF ListToStart
  <2>2. \A i \in 1..Len(todo') : \A d \in Required[todo'[i]] : Ahead(i, d)'
    BY <2>1, <1>t, DependenciesFirst DEF Ahead
  <2> QED  BY <2>1, <2>2 DEF OrderInv
<1>4. CASE ListToRemove
  <2>1. pc' = "down" /\ todo' \in ServicesReversedByDependencies(file) /\ file' = file
    BY <1>4 DEF ListToRemove
  <2>2. \A i \in 1..Len(todo') : \A t \in file : todo'[i] \in Required[t] => Ahead(i, t)'
    BY <2>1, <1>t, DependantsFirst DEF Ahead
  <2> QED  BY <2>1, <2>2 DEF OrderInv
<1>5. ASSUME NEW i \in 1..Len(todo), StartMachine(i) PROVE OrderInv'
  <2>1. /\ pc = "start" /\ pc' = "start" /\ todo' = Behind(i) /\ started' = started \cup {todo[i]} /\ Foremost(i, Startable)
        /\ UNCHANGED <<op, seen>> /\ todo \in Seq(Services)
    BY <1>5 DEF StartMachine, Types, TodoInv
  <2>2. Startable' = Startable
    BY <2>1 DEF Startable
  <2>3. SUFFICES ASSUME NEW k \in 1..Len(todo'), NEW d \in Required[todo'[k]]
                 PROVE  d \in started' \/ seen[d] \notin Startable \/ Ahead(k, d)'
    BY <2>1, <2>2 DEF OrderInv
  <2>4. /\ i + k \in 1..Len(todo) /\ d \in Required[todo[i + k]]
        /\ Ahead(i + k, d) => d = todo[i] \/ seen[d] \notin Startable \/ Ahead(k, d)'
    BY <2>1, <2>3, AheadStep
  <2> QED  BY <2>1, <2>4 DEF OrderInv
<1>6. ASSUME NEW i \in 1..Len(todo), NEW ok \in BOOLEAN, RemoveService(i, ok) PROVE OrderInv'
  <2>1. /\ pc = "down" /\ pc' = "down" /\ todo' = Behind(i) /\ removed' = removed \cup {todo[i]} /\ Foremost(i, Removable)
        /\ UNCHANGED <<file, seen>> /\ todo \in Seq(Services)
    BY <1>6 DEF RemoveService, RemoveMachine, Types, TodoInv
  <2>2. SUFFICES ASSUME NEW k \in 1..Len(todo'), NEW t \in file, todo'[k] \in Required[t]
                 PROVE  t \in removed' \/ seen[t] = "absent" \/ Ahead(k, t)'
    BY <2>1 DEF OrderInv
  <2>3. /\ i + k \in 1..Len(todo) /\ todo[i + k] \in Required[t]
        /\ Ahead(i + k, t) => t = todo[i] \/ seen[t] \notin Removable \/ Ahead(k, t)'
    BY <2>1, <2>2, AheadStep
  <2>4. seen[t] \in Removable \/ seen[t] = "absent"
    BY <1>t DEF Types, TypeOK, Removable
  <2> QED  BY <2>1, <2>3, <2>4 DEF OrderInv
<1>7. CASE UNCHANGED vars
  BY <1>2, <1>7 DEF vars
<1>8. CASE Fail \/ Stopped \/ Down \/ UpdateProject \/ Started
  <2>1. pc' \notin {"start", "down"}
    BY <1>8 DEF Fail, Stopped, Down, UpdateProject, StartNext, Started, End
  <2> QED  BY <1>1, <2>1
<1>9. CASE ListToCreate \/ AlreadyCreated \/ CreateService \/ GetProject \/ StopFollowing \/ ListToStop \/ ListNetworks
           \/ RemoveNetwork \/ EditFile
  <2>1. pc' \notin {"start", "down"}
    BY <1>9 DEF ListToCreate, AlreadyCreated, CreateService, GetProject, StopFollowing, ListToStop, ListNetworks,
                RemoveNetwork, EditFile
  <2> QED  BY <1>1, <2>1
<1>10. ASSUME NEW s \in Services, NEW ok \in BOOLEAN, AssignIP(s) \/ KraftRm(s) \/ RemoveOrphans(s, ok) PROVE OrderInv'
  <2>1. pc' \notin {"start", "down"}
    BY <1>10 DEF AssignIP, KraftRm, RemoveOrphans
  <2> QED  BY <1>1, <2>1
<1>11. ASSUME NEW ok \in BOOLEAN, CreateResource(ok) \/ RemoveOld(ok) PROVE OrderInv'
  <2>1. pc' \notin {"start", "down"}
    BY <1>11 DEF CreateResource, RemoveOld
  <2> QED  BY <1>1, <2>1
<1>12. ASSUME NEW i \in 1..Len(todo), NEW ok \in BOOLEAN, StopMachine(i, ok) PROVE OrderInv'
  <2>1. pc' \notin {"start", "down"}
    BY <1>12 DEF StopMachine
  <2> QED  BY <1>1, <2>1
<1>13. ASSUME NEW c, NEW services, NEW det, Run(c, services, det) PROVE OrderInv'
  <2>1. pc' \notin {"start", "down"}
    BY <1>13 DEF Run
  <2> QED  BY <1>1, <2>1
<1>14. ASSUME NEW s \in Services, MachineExits(s) PROVE OrderInv'
  BY <1>2, <1>14 DEF MachineExits
<1> QED  BY <1>3, <1>4, <1>5, <1>6, <1>7, <1>8, <1>9, <1>10, <1>11, <1>12, <1>13, <1>14 DEF Next

(* What a step of DependencyOrder may do, of the state it starts from.      *)
InOrder ==
    \A s \in Services :
        /\ machine[s] # "running" /\ machine'[s] = "running" =>
              \A d \in Required[s] : d \in started \/ seen[d] \notin Startable
        /\ pc = "down" /\ s \in removed' \ removed =>
              \A t \in file : s \in Required[t] => t \in removed \/ seen[t] = "absent"

(* Only StartMachine makes a machine run, and only RemoveService removes   *)
(* one in down.                                                            *)
LEMMA OnlyStarts ==
    ASSUME Types, Next, ~(\E i \in 1..Len(todo) : StartMachine(i)), NEW s \in Services, machine[s] # "running"
    PROVE  machine'[s] # "running"
<1> USE DEF cmdVars, store, history
<1>t. machine \in [Services -> States]
  BY DEF Types, TypeOK
<1>r. ASSUME NEW r \in Services, NEW t \in States, t # "running", machine' = [machine EXCEPT ![r] = t]
      PROVE  machine'[s] # "running"
  BY <1>r, <1>t
<1>s. "absent" \in States /\ "created" \in States /\ "exited" \in States /\ "paused" \in States
  BY DEF States
<1>m. ASSUME NEW r \in Services, NEW ok \in BOOLEAN, RemoveMachine(r, ok) PROVE machine'[s] # "running"
  BY <1>m, <1>r, <1>s DEF RemoveMachine
<1>1. CASE UNCHANGED machine
  BY <1>1
<1>2. ASSUME NEW r \in Services, NEW ok \in BOOLEAN, MachineExits(r) \/ KraftRm(r) \/ RemoveOrphans(r, ok)
      PROVE  machine'[s] # "running"
  BY <1>2, <1>r, <1>s, <1>m DEF MachineExits, KraftRm, RemoveOrphans
<1>3. CASE CreateService
  <2>1. pc = "create" /\ todo # <<>>
    BY <1>3 DEF CreateService
  <2> QED  BY <1>3, <2>1, CreateHead
<1>4. ASSUME NEW ok \in BOOLEAN, RemoveOld(ok) PROVE machine'[s] # "running"
  <2>1. pc = "create" /\ todo # <<>> /\ RemoveMachine(Head(todo), ok)
    BY <1>4 DEF RemoveOld
  <2> QED  BY <2>1, <1>m, CreateHead
<1>5. ASSUME NEW i \in 1..Len(todo), NEW ok \in BOOLEAN, RemoveService(i, ok) PROVE machine'[s] # "running"
  <2>1. todo[i] \in Services /\ RemoveMachine(todo[i], ok)
    BY <1>5, RangeSeq DEF RemoveService, Types, TodoInv
  <2> QED  BY <2>1, <1>m
<1>6. ASSUME NEW i \in 1..Len(todo), NEW ok \in BOOLEAN, StopMachine(i, ok) PROVE machine'[s] # "running"
  <2>1. todo[i] \in Services
    BY <1>6, RangeSeq DEF StopMachine, Types, TodoInv
  <2>2. machine' = machine \/ \E t \in {"paused", "exited"} : machine' = [machine EXCEPT ![todo[i]] = t]
    BY <1>6 DEF StopMachine
  <2> QED  BY <2>1, <2>2, <1>1, <1>r, <1>s
<1>7. CASE Fail \/ Stopped \/ Down \/ UpdateProject \/ Started \/ GetProject \/ ListToCreate \/ AlreadyCreated
           \/ ListToStart \/ StopFollowing \/ ListToStop \/ ListToRemove \/ ListNetworks \/ RemoveNetwork \/ EditFile
  BY <1>1, <1>7 DEF Fail, Stopped, Down, UpdateProject, Started, GetProject, ListToCreate, AlreadyCreated,
              ListToStart, StopFollowing, ListToStop, ListToRemove, ListNetworks, RemoveNetwork, EditFile
<1>8. ASSUME NEW r \in Services, AssignIP(r) PROVE machine'[s] # "running"
  BY <1>1, <1>8 DEF AssignIP
<1>9. ASSUME NEW ok \in BOOLEAN, CreateResource(ok) PROVE machine'[s] # "running"
  BY <1>1, <1>9 DEF CreateResource
<1>10. ASSUME NEW c, NEW services, NEW det, Run(c, services, det) PROVE machine'[s] # "running"
  BY <1>1, <1>10 DEF Run
<1> QED  BY <1>2, <1>3, <1>4, <1>5, <1>6, <1>7, <1>8, <1>9, <1>10 DEF Next

LEMMA OnlyRemoves ==
    ASSUME Next, pc = "down", ~(\E i \in 1..Len(todo), ok \in BOOLEAN : RemoveService(i, ok))
    PROVE  removed' \subseteq removed
<1> USE DEF cmdVars, store, history
<1>1. CASE Fail \/ ListNetworks \/ (\E s \in Services : MachineExits(s))
  BY <1>1 DEF Fail, End, ListNetworks, MachineExits
<1>2. ASSUME NEW s \in Services, NEW ok \in BOOLEAN, AssignIP(s) \/ KraftRm(s) \/ RemoveOrphans(s, ok) PROVE FALSE
  BY <1>2 DEF AssignIP, KraftRm, RemoveOrphans, Assigned
<1>3. ASSUME NEW ok \in BOOLEAN, CreateResource(ok) \/ RemoveOld(ok) PROVE FALSE
  BY <1>3 DEF CreateResource, RemoveOld
<1>4. ASSUME NEW i \in 1..Len(todo), NEW ok \in BOOLEAN, StartMachine(i) \/ StopMachine(i, ok) PROVE FALSE
  BY <1>4 DEF StartMachine, StopMachine
<1>5. ASSUME NEW c, NEW services, NEW det, Run(c, services, det) PROVE FALSE
  BY <1>5 DEF Run
<1>6. CASE Stopped \/ Down \/ UpdateProject \/ Started \/ GetProject \/ ListToCreate \/ AlreadyCreated \/ CreateService
           \/ ListToStart \/ StopFollowing \/ ListToStop \/ ListToRemove \/ RemoveNetwork \/ EditFile
  BY <1>6 DEF Stopped, Down, UpdateProject, Started, GetProject, Assigned, ListToCreate, AlreadyCreated, CreateService,
              ListToStart, StopFollowing, ListToStop, ListToRemove, RemoveNetwork, EditFile
<1> QED  BY <1>1, <1>2, <1>3, <1>4, <1>5, <1>6 DEF Next

(* What the taken service needs to come before it was done or passed over. *)
LEMMA Ordered == ASSUME Types, OrderInv, [Next]_vars PROVE InOrder
<1>1. CASE UNCHANGED vars
  BY <1>1 DEF vars, store, history, InOrder
<1>2. CASE Next
  <2>1. ASSUME NEW s \in Services, machine[s] # "running", machine'[s] = "running", NEW d \in Required[s]
        PROVE  d \in started \/ seen[d] \notin Startable
    <3>1. PICK i \in 1..Len(todo) : StartMachine(i)
      BY <1>2, <2>1, OnlyStarts
    <3>2. /\ pc = "start" /\ Foremost(i, Startable) /\ machine' = [machine EXCEPT ![todo[i]] = "running"]
          /\ todo \in Seq(Services) /\ machine \in [Services -> States]
      BY <3>1 DEF StartMachine, Types, TypeOK, TodoInv
    <3>3. s = todo[i]
      BY <2>1, <3>2
    <3>4. Ahead(i, d) => seen[d] \notin Startable
      BY <3>2 DEF Ahead, Foremost
    <3> QED  BY <2>1, <3>2, <3>3, <3>4 DEF OrderInv
  <2>2. ASSUME NEW s \in Services, pc = "down", s \in removed' \ removed, NEW t \in file, s \in Required[t]
        PROVE  t \in removed \/ seen[t] = "absent"
    <3>1. PICK i \in 1..Len(todo), ok \in BOOLEAN : RemoveService(i, ok)
      BY <1>2, <2>2, OnlyRemoves
    <3>2. Foremost(i, Removable) /\ removed' = removed \cup {todo[i]}
      BY <3>1 DEF RemoveService, RemoveMachine
    <3>3. s = todo[i]
      BY <2>2, <3>2
    <3>4. Ahead(i, t) => seen[t] \notin Removable
      BY <3>2 DEF Ahead, Foremost
    <3>5. seen[t] \in Removable \/ seen[t] = "absent"
      BY ServicesAssumption DEF Types, TypeOK, Removable
    <3> QED  BY <2>2, <3>3, <3>4, <3>5 DEF OrderInv
  <2> QED  BY <2>1, <2>2 DEF InOrder
<1> QED  BY <1>1, <1>2

----------------------------------------------------------------------------
(* The theorems.                                                           *)

(* The inductive invariant of Compose holds of every command, on every     *)
(* project, whatever fails and whatever exits meanwhile.                   *)
THEOREM Invariance == Spec => [](IInv /\ AddressesDistinct)
<1>1. Init => IInv /\ AddressesDistinct
  <2>1. SUFFICES ASSUME Init PROVE IInv /\ AddressesDistinct
    OBVIOUS
  <2>2. Types
    BY <2>1, InitTypes
  <2>3. Exist = {}
    BY <2>1 DEF Init, Exist, NoMachines
  <2>4. RecordInv
    BY <2>1, <2>3 DEF Init, RecordInv
  <2>5. ListInv /\ UpInv /\ DownInv /\ OrderInv
    BY <2>1 DEF Init, ListInv, UpInv, DownInv, OrderInv
  <2>6. AddressesDistinct
    BY <2>1 DEF Init, AddressesDistinct, NoAddresses
  <2> QED  BY <2>2, <2>4, <2>5, <2>6 DEF IInv
<1>2. IInv /\ AddressesDistinct /\ [Next]_vars => (IInv /\ AddressesDistinct)'
  BY TypesStep, AddressesStep, RecordStep, ListStep, UpStep, DownStep, OrderStep DEF IInv
<1> QED  BY <1>1, <1>2, PTL DEF Spec

(* Every variable of Compose keeps its type: what a command works through  *)
(* are services, networks and volumes, in whatever order maps are iterated. *)
THEOREM TypeCorrect == Spec => []TypeOK
<1>1. IInv /\ AddressesDistinct => TypeOK
  BY DEF IInv, Types
<1> QED  BY <1>1, Invariance, PTL

(* AssignIPs gives every service without an address of its own one that is *)
(* not the network's, the gateway's or another service's, for any subnet,  *)
(* any addresses in the file and any order of the goroutines.              *)
THEOREM AddressesAreDistinct == Spec => []AddressesDistinct
<1>1. IInv /\ AddressesDistinct => AddressesDistinct
  OBVIOUS
<1> QED  BY <1>1, Invariance, PTL

(* Compose start and up start a machine only after those of the services   *)
(* it requires that were found startable, and down removes one only after  *)
(* those that require it, for any acyclic dependencies.                    *)
THEOREM OrderIsKept == Spec => DependencyOrder
<1>1. IInv /\ AddressesDistinct /\ [Next]_vars => [InOrder]_vars
  BY Ordered DEF IInv
<1>2. Spec => [][InOrder]_vars
  BY <1>1, Invariance, PTL DEF Spec
<1> QED  BY <1>2 DEF DependencyOrder, InOrder

(* Once up has nothing left to start, every service of the file was found  *)
(* running or was started, save where Delete failed to make room.          *)
THEOREM UpIsComplete == Spec => []UpStartsAll
<1>1. IInv /\ AddressesDistinct => UpStartsAll
  BY UpDone DEF IInv
<1> QED  BY <1>1, Invariance, PTL

(* Once down has gone through the machines no service of the file has one, *)
(* save where Delete failed, and when it ends no network is left.          *)
THEOREM DownIsComplete == Spec => []DownLeavesNothing
<1>1. IInv /\ AddressesDistinct => DownLeavesNothing
  BY DownDone DEF IInv
<1> QED  BY <1>1, Invariance, PTL

(* Between commands every machine, network and volume of the project is in *)
(* its record, unless a create has lost one.                               *)
THEOREM ProjectsAreRecorded == Spec => []ProjectIsRecorded
<1>1. IInv /\ AddressesDistinct => ProjectIsRecorded
  BY DEF IInv, RecordInv, ProjectIsRecorded, Exist
<1> QED  BY <1>1, Invariance, PTL
=============================================================================
