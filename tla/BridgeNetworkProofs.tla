------------------------ MODULE BridgeNetworkProofs ------------------------
(***************************************************************************)
(* What Update promises, for any number of machines, link names and        *)
(* addresses, any choice of failing commands, and commands that are issued *)
(* one at a time or overlap.                                               *)
(***************************************************************************)
EXTENDS BridgeNetwork, WellFoundedInduction, TLAPS

\* The leaves are for Zenon, but for those that name SMT.
USE Zenon

----------------------------------------------------------------------------
(* The inductive invariant.                                                *)

\* In a list each interface occurs once; no two have one link name, and those that have
\* been named come first.
UidsDistinct(s) == \A i, k \in 1 .. Len(s) : s[i].uid = s[k].uid => i = k
NamesDistinct(s) == \A i, k \in 1 .. Len(s) : s[i].name = s[k].name /\ s[i].name # None => i = k
NamesFirst(s) == \A i, k \in 1 .. Len(s) : i < k /\ s[k].name # None => s[i].name # None
Lists(s, m, j) == \E i \in 1 .. Len(s) : s[i].uid = m /\ s[i].name = j

ListInv(s) == UidsDistinct(s) /\ (serial => NamesDistinct(s) /\ NamesFirst(s))
ListsInv == (stored # None => ListInv(stored)) /\ \A c \in Commands : ListInv(found[c])

\* Where Update's loop is, and the interfaces it has dealt with.
Handled(c) ==
    {i \in 1 .. Len(found[c]) : \/ pc[c] \in {"clean", "save"}
                                \/ pc[c] \in {"iface", "tap", "alias"} /\ i < pos[c]}
Place(c) ==
    /\ pc[c] = "bridge" => pos[c] = 1
    /\ pc[c] \in {"iface", "tap", "alias", "unlink"} => pos[c] >= 1
    /\ pc[c] = "iface" => pos[c] <= Len(found[c]) + 1
    /\ pc[c] \in {"tap", "alias"} => pos[c] <= Len(found[c]) /\ found[c][pos[c]].name \in Names
    /\ \A i \in Handled(c) : found[c][i].name \in Names
PlacesInv == \A c \in Commands : Place(c)

\* An interface is of a run that has begun; a run's own is in its copy.
MachineInv(m) ==
    /\ pc[m] = "attached" => machine[m] \in Present
    /\ pc[m] \in {"idle", "create"} => machine[m] = "absent"
    /\ pc[m] = "idle" => /\ stored # None => m \notin Uids(stored)
                         /\ \A c \in Commands : m \notin Uids(found[c])
    /\ pc[m] \in Updating /\ machine[m] = "absent" => m \in Uids(found[m])
MachinesInv == \A m \in Machines : MachineInv(m)

\* A command that is not disturbed is at work alone.
AloneInv ==
    /\ serial => disturbed = {}
    /\ \A c \in Commands : pc[c] \in Active /\ c \notin disturbed =>
          \A x \in Commands \ {c} : pc[x] \notin Active

\* The interfaces an undisturbed Update has dealt with have their links, the links it will
\* delete are of no listed interface, and the others with an alias are of listed ones.
Loop(c) ==
    /\ \A i \in Handled(c) :
          IF serial THEN tap[found[c][i].name] = found[c][i].uid
                    ELSE tap[found[c][i].name] \in Uids(found[c])
    /\ pc[c] \in {"clean", "save"} =>
          /\ \A j \in doomed[c] : tap[j] \notin Uids(found[c])
          /\ \A j \in Aliased : tap[j] \in Uids(found[c]) \/ j \in doomed[c]
    /\ pc[c] = "save" => doomed[c] = {}
LoopInv == \A c \in Commands \ disturbed : Loop(c)

\* A machine that nobody is removing is listed with its link, in the record and in every copy.
Attached(m) ==
    /\ iface[m].name \in Names /\ tap[iface[m].name] = m
    /\ stored # None => Lists(stored, m, iface[m].name)
    /\ \A c \in Commands : pc[c] \in Updating => Lists(found[c], m, iface[m].name)
AttachedInv ==
    serial /\ ~NetworkGoing => \A m \in Machines : pc[m] \in {"create", "attached"} => Attached(m)

\* Once net rm has found no users there are none.
RemovedInv ==
    serial =>
        /\ pc[NetRm] \in {"idle", "unlink", "delete", "gone", "failed"}
        /\ pc[NetRm] \in {"unlink", "delete"} \/ ~bridge =>
              \A m \in Machines : machine[m] \notin Present /\ pc[m] \notin Active

NetInv ==
    /\ TypeOK /\ ListsInv /\ PlacesInv /\ MachinesInv /\ AloneInv /\ LoopInv
    /\ AttachedInv /\ RemovedInv

----------------------------------------------------------------------------
(* The operators on lists of interfaces.                                   *)

\* A nonempty set of naturals has a least member: the first free link name and the first
\* free address that Update looks for exist.
LEMMA Least ==
    ASSUME NEW T, T \subseteq Nat, T # {}
    PROVE  \E x \in T : \A y \in T : x <= y
<1>1. PICK x \in T : \A y \in T : ~ (<<y, x>> \in OpToRel(<, Nat))
  BY NatLessThanWellFounded, WFMin
<1>2. \A y \in T : ~ (y < x)
  <2> TAKE y \in T
  <2>1. y < x => <<y, x>> \in OpToRel(<, Nat)
    BY DEF OpToRel
  <2> QED BY <1>1, <2>1
<1> QED BY <1>2, SMT

\* What the searches for a free name and for a free address return is one of the free ones.
LEMMA LeastIsIn ==
    ASSUME NEW T, T \subseteq Nat, T # {}
    PROVE  Minimum(T) \in T
  BY Least DEF Minimum

\* The list without its element k.
Cut(s, k) == SubSeq(s, 1, k - 1) \o SubSeq(s, k + 1, Len(s))

\* Dropping a machine's interface leaves the list alone or removes one entry, the machine's
\* (remove.go 178-185).
LEMMA Removal ==
    ASSUME NEW s \in Seq(Interface), NEW m
    PROVE  \/ Without(s, m) = s
           \/ \E k \in 1 .. Len(s) : s[k].uid = m /\ Without(s, m) = Cut(s, k)
<1>1. PICK own : own = {i \in 1 .. Len(s) : s[i].uid = m}
  OBVIOUS
<1>2. CASE own = {}
  BY <1>1, <1>2 DEF Without
<1>3. CASE own # {}
  <2>1. own \subseteq Nat
    BY SMT, <1>1
  <2>2. Minimum(own) \in own
    BY <1>3, <2>1, LeastIsIn
  <2>3. Without(s, m) = Cut(s, Minimum(own))
    BY <1>1, <1>3 DEF Without, Cut
  <2> QED BY <1>1, <2>2, <2>3
<1> QED BY <1>2, <1>3

\* Two lists of interfaces joined.
LEMMA Joined ==
    ASSUME NEW S, NEW a \in Seq(S), NEW b \in Seq(S)
    PROVE  a \o b \in Seq(S) /\ Len(a \o b) = Len(a) + Len(b)
  BY SMT

\* Removing an element: the ones behind it move up.
LEMMA Removed ==
    ASSUME NEW S, NEW s \in Seq(S), NEW k \in 1 .. Len(s)
    PROVE  /\ Cut(s, k) \in Seq(S) /\ Len(Cut(s, k)) = Len(s) - 1
           /\ \A i \in 1 .. Len(s) - 1 : Cut(s, k)[i] = IF i < k THEN s[i] ELSE s[i + 1]
<1> DEFINE a == SubSeq(s, 1, k - 1)
           b == SubSeq(s, k + 1, Len(s))
<1>1. a \in Seq(S) /\ Len(a) = k - 1 /\ \A i \in 1 .. k - 1 : a[i] = s[i]
  BY SMT
<1>2. b \in Seq(S) /\ Len(b) = Len(s) - k /\ \A i \in 1 .. Len(s) - k : b[i] = s[k + i]
  BY SMT
<1>3. Cut(s, k) = a \o b
  BY DEF Cut
<1> HIDE DEF a, b
<1>4. a \o b \in Seq(S) /\ Len(a \o b) = Len(s) - 1
  <2>1. a \o b \in Seq(S) /\ Len(a \o b) = Len(a) + Len(b)
    BY <1>1, <1>2, Joined
  <2> QED BY SMT, <1>1, <1>2, <2>1
<1>5. ASSUME NEW i \in 1 .. Len(s) - 1 PROVE (a \o b)[i] = IF i < k THEN s[i] ELSE s[i + 1]
  <2>1. CASE i < k
    BY SMT, <1>1, <1>2, <2>1
  <2>2. CASE ~ (i < k)
    <3>1. (a \o b)[i] = b[i - (k - 1)]
      BY SMT, <1>1, <1>2, <2>2
    <3>2. i - (k - 1) \in 1 .. Len(s) - k /\ k + (i - (k - 1)) = i + 1
      BY SMT, <2>2
    <3> QED BY <1>2, <2>2, <3>1, <3>2
  <2> QED BY <2>1, <2>2
<1> QED BY <1>3, <1>4, <1>5

\* Dropping a machine's interface keeps a list in order and the other machines listed.
LEMMA WithoutLists ==
    ASSUME NEW s \in Seq(Interface), NEW m, NEW t, t = Without(s, m)
    PROVE  /\ t \in Seq(Interface) /\ Uids(t) \subseteq Uids(s)
           /\ UidsDistinct(s) => UidsDistinct(t)
           /\ NamesDistinct(s) => NamesDistinct(t)
           /\ NamesFirst(s) => NamesFirst(t)
           /\ \A x, j : x # m /\ Lists(s, x, j) => Lists(t, x, j)
<1>1. CASE t = s
  BY <1>1
<1>2. CASE \E k \in 1 .. Len(s) : s[k].uid = m /\ t = Cut(s, k)
  <2>1. PICK k \in 1 .. Len(s) : s[k].uid = m /\ t = Cut(s, k)
    BY <1>2
  <2>2. /\ t \in Seq(Interface) /\ Len(t) = Len(s) - 1
        /\ \A i \in 1 .. Len(s) - 1 : t[i] = IF i < k THEN s[i] ELSE s[i + 1]
    BY <2>1, Removed
  <2>3. /\ Len(s) \in Nat /\ k \in Nat /\ Len(t) = Len(s) - 1
        /\ \A i \in 1 .. Len(t) : \E h \in 1 .. Len(s) : t[i] = s[h] /\ h = IF i < k THEN i ELSE i + 1
    BY SMT, <2>2
  <2>4. Uids(t) \subseteq Uids(s)
    BY SMT, <2>3 DEF Uids
  <2>5. UidsDistinct(s) => UidsDistinct(t)
    BY SMT, <2>3 DEF UidsDistinct
  <2>6. NamesDistinct(s) => NamesDistinct(t)
    BY SMT, <2>3 DEF NamesDistinct
  <2>7. NamesFirst(s) => NamesFirst(t)
    BY SMT, <2>3 DEF NamesFirst
  <2>8. ASSUME NEW x, NEW j, x # m, Lists(s, x, j) PROVE Lists(t, x, j)
    <3>1. PICK h \in 1 .. Len(s) : s[h].uid = x /\ s[h].name = j
      BY <2>8 DEF Lists
    <3>2. PICK i \in 1 .. Len(t) : t[i] = s[h]
      <4>1. CASE h < k
        <5>1. h \in 1 .. Len(t) /\ t[h] = s[h]
          BY SMT, <2>2, <2>3, <4>1
        <5> QED BY <5>1
      <4>2. CASE h > k
        <5>1. h - 1 \in 1 .. Len(t) /\ t[h - 1] = s[h]
          BY SMT, <2>2, <2>3, <4>2
        <5> QED BY <5>1
      <4>3. h # k
        BY <2>1, <2>8, <3>1
      <4> QED BY SMT, <4>1, <4>2, <4>3
    <3> QED BY <3>1, <3>2 DEF Lists
  <2> QED BY <2>2, <2>4, <2>5, <2>6, <2>7, <2>8
<1> QED BY <1>1, <1>2, Removal

\* Appending a new machine's unnamed interface keeps a list in order (parseNetworks).
LEMMA AppendLists ==
    ASSUME NEW s \in Seq(Interface), NEW f \in Interface, f.name = None, f.uid \notin Uids(s),
           NEW t, t = Append(s, f)
    PROVE  /\ t \in Seq(Interface) /\ Uids(t) = Uids(s) \cup {f.uid}
           /\ UidsDistinct(s) => UidsDistinct(t)
           /\ NamesDistinct(s) => NamesDistinct(t)
           /\ NamesFirst(s) => NamesFirst(t)
           /\ \A x, j : Lists(s, x, j) => Lists(t, x, j)
<1>1. /\ t \in Seq(Interface) /\ Len(s) \in Nat /\ Len(t) = Len(s) + 1
      /\ \A i \in 1 .. Len(s) : t[i] = s[i] /\ i \in 1 .. Len(t)
      /\ t[Len(s) + 1] = f /\ Len(s) + 1 \in 1 .. Len(t)
      /\ \A i \in 1 .. Len(t) : i = Len(s) + 1 \/ i \in 1 .. Len(s)
  BY SMT
<1>2. \A i \in 1 .. Len(s) : s[i].uid # f.uid
  BY DEF Uids
<1>3. Uids(t) = Uids(s) \cup {f.uid}
  BY SMT, <1>1 DEF Uids
<1>4. UidsDistinct(s) => UidsDistinct(t)
  BY SMT, <1>1, <1>2 DEF UidsDistinct
<1>5. NamesDistinct(s) => NamesDistinct(t)
  BY SMT, <1>1 DEF NamesDistinct
<1>6. NamesFirst(s) => NamesFirst(t)
  BY SMT, <1>1 DEF NamesFirst
<1>7. \A x, j : Lists(s, x, j) => Lists(t, x, j)
  BY <1>1 DEF Lists
<1> QED BY <1>1, <1>3, <1>4, <1>5, <1>6, <1>7

\* Update's loop names the interface it is at, before those behind it; a name that none in
\* front has keeps the list in order.
LEMMA NamingLists ==
    ASSUME NEW s \in Seq(Interface), NEW p \in 1 .. Len(s), NEW t \in Seq(Interface), Len(t) = Len(s),
           \A i \in 1 .. Len(s) : i # p => t[i] = s[i],
           t[p].uid = s[p].uid, t[p].name # None, s[p].name # None => t[p].name = s[p].name
    PROVE  /\ Uids(t) = Uids(s)
           /\ UidsDistinct(s) => UidsDistinct(t)
           /\ \A x, j : j # None /\ Lists(s, x, j) => Lists(t, x, j)
           /\ (\A i \in 1 .. Len(s) :
                  i < p => s[i].name # None /\ (s[p].name = None => s[i].name # t[p].name))
              => /\ NamesFirst(s) => NamesFirst(t)
                 /\ NamesFirst(s) /\ NamesDistinct(s) => NamesDistinct(t)
<1>1. \A i \in 1 .. Len(s) : t[i].uid = s[i].uid
  OBVIOUS
<1>2. Uids(t) = Uids(s)
  BY SMT, <1>1 DEF Uids
<1>3. UidsDistinct(s) => UidsDistinct(t)
  BY <1>1 DEF UidsDistinct
<1>4. \A x, j : j # None /\ Lists(s, x, j) => Lists(t, x, j)
  BY <1>1 DEF Lists
<1>5. ASSUME \A i \in 1 .. Len(s) :
                 i < p => s[i].name # None /\ (s[p].name = None => s[i].name # t[p].name),
             NamesFirst(s)
      PROVE  NamesFirst(t) /\ (NamesDistinct(s) => NamesDistinct(t))
  <2>1. NamesFirst(t)
    BY SMT, <1>5 DEF NamesFirst
  <2>2. CASE s[p].name # None
    <3>1. \A i \in 1 .. Len(s) : t[i].name = s[i].name
      BY <2>2
    <3> QED BY <2>1, <3>1 DEF NamesDistinct
  <2>3. CASE s[p].name = None
    <3>1. \A i \in 1 .. Len(s) : i # p /\ t[i].name = t[p].name => FALSE
      <4> SUFFICES ASSUME NEW i \in 1 .. Len(s), i # p, t[i].name = t[p].name PROVE FALSE
        OBVIOUS
      <4>1. CASE i < p
        BY <1>5, <2>3, <4>1
      <4>2. CASE p < i
        BY <1>5, <2>3, <4>2 DEF NamesFirst
      <4> QED BY SMT, <4>1, <4>2
    <3> QED BY <2>1, <3>1 DEF NamesDistinct
  <2> QED BY <2>1, <2>2, <2>3
<1> QED BY <1>2, <1>3, <1>4, <1>5

----------------------------------------------------------------------------
(* What a step of one command leaves alone.                                *)

\* The phases at hand.
LEMMA Phased ==
    /\ Updating \subseteq Active /\ Active \subseteq Phases
    /\ "idle" \notin Active /\ "attached" \notin Active /\ "gone" \notin Active /\ "failed" \notin Active
    /\ {"idle", "attached", "gone", "failed"} \subseteq Phases
    /\ "create" \notin Updating /\ "unlink" \notin Updating /\ "delete" \notin Updating
    /\ {"iface", "tap", "alias", "clean", "save", "bridge", "links"} = Updating
  BY SMT DEF Updating, Active, Phases

\* A command that is not in the loop meets its condition.
LEMMA NoLoop ==
    ASSUME NEW x, pc'[x] \notin {"iface", "tap", "alias", "clean", "save"}
    PROVE  Loop(x)'
  BY DEF Loop, Handled

\* The other commands' copies and places stay.
Others(c) ==
    \A x \in Commands \ {c} : found'[x] = found[x] /\ pos'[x] = pos[x] /\ doomed'[x] = doomed[x]

\* A step of a command that goes on or ends disturbs no other command's part of the
\* invariant: the taps only change under a command at work, and who is undisturbed works alone.
LEMMA StepKeeps ==
    ASSUME NetInv, NEW c \in Commands, NEW l, pc' = [pc EXCEPT ![c] = l], Others(c),
           serial' = serial, disturbed' = disturbed, l \in Active => pc[c] \in Active,
           tap' = tap \/ pc[c] \in Active, stored' \in {stored, found[c], None},
           ListInv(found[c])', Place(c)', c \notin disturbed => Loop(c)'
    PROVE  ListsInv' /\ PlacesInv' /\ AloneInv' /\ LoopInv'
<1>1. pc \in [Commands -> Phases] /\ pc'[c] = l /\ \A x \in Commands \ {c} : pc'[x] = pc[x]
  BY DEF NetInv, TypeOK
<1>2. ListsInv'
  BY SMT DEF NetInv, ListsInv, ListInv, Others
<1>3. PlacesInv'
  <2>1. ASSUME NEW x \in Commands \ {c} PROVE Place(x)'
    BY <1>1, <2>1 DEF NetInv, PlacesInv, Place, Handled, Others
  <2> QED BY <2>1 DEF PlacesInv
<1>4. AloneInv'
  BY <1>1 DEF NetInv, AloneInv
<1>5. LoopInv'
  <2>1. ASSUME NEW x \in Commands \ disturbed, x # c PROVE Loop(x)'
    <3>1. CASE pc[x] \notin Active
      BY <1>1, <2>1, <3>1, NoLoop, Phased
    <3>2. CASE pc[x] \in Active
      <4>1. pc[c] \notin Active /\ tap' = tap
        BY <2>1, <3>2 DEF NetInv, AloneInv
      <4> QED BY SMT, <1>1, <2>1, <4>1 DEF NetInv, LoopInv, Loop, Handled, Others, Aliased
    <3> QED BY <3>1, <3>2
  <2> QED BY <2>1 DEF LoopInv
<1> QED BY <1>2, <1>3, <1>4, <1>5

\* A command that begins with a list in order disturbs those at work, and they it.
LEMMA BeginKeeps ==
    ASSUME NetInv, NEW c \in Commands, NEW s \in Seq(Interface), NEW l \in {"bridge", "unlink"},
           Begin(c, s), Goto(c, l), Turn, ListInv(s)
    PROVE  ListsInv' /\ PlacesInv' /\ AloneInv' /\ LoopInv'
<1>1. /\ pc \in [Commands -> Phases] /\ pc'[c] = l /\ \A x \in Commands \ {c} : pc'[x] = pc[x]
      /\ found \in [Commands -> Seq(Interface)] /\ found'[c] = s /\ pos \in [Commands -> Nat] /\ pos'[c] = 1
      /\ Others(c) /\ serial' = serial /\ stored' = stored
  BY DEF NetInv, TypeOK, Begin, Goto, Others, net
<1>2. ListsInv'
  BY <1>1 DEF NetInv, ListsInv, ListInv, Others
<1>3. PlacesInv'
  <2>1. ASSUME NEW x \in Commands \ {c} PROVE Place(x)'
    BY <1>1, <2>1 DEF NetInv, PlacesInv, Place, Handled, Others
  <2>2. Place(c)'
    <3>1. Handled(c)' = {} /\ pos'[c] >= 1
      BY SMT, <1>1 DEF Handled
    <3> QED BY <1>1, <3>1 DEF Place
  <2> QED BY <2>1, <2>2 DEF PlacesInv
<1> DEFINE others == {x \in Commands \ {c} : pc[x] \in Active}
<1>4. \/ others = {} /\ disturbed' = disturbed \ {c}
      \/ others # {} /\ disturbed' = disturbed \cup others \cup {c}
  BY DEF Begin
<1>5. \A x \in Commands : x \notin disturbed' /\ x # c => pc[x] \notin Active
  BY <1>4
<1>6. AloneInv'
  <2>1. serial => disturbed' = {}
    <3>1. serial => others = {}
      BY DEF Turn
    <3> QED BY <1>4, <3>1 DEF NetInv, AloneInv
  <2>2. \A x \in Commands : pc'[x] \in Active /\ x \notin disturbed' => x = c
    BY <1>1, <1>5
  <2>3. c \notin disturbed' => \A x \in Commands \ {c} : pc'[x] \notin Active
    BY <1>1, <1>4
  <2> QED BY <1>1, <2>1, <2>2, <2>3 DEF AloneInv
<1>7. LoopInv'
  <2>1. ASSUME NEW x \in Commands, x \notin disturbed' PROVE Loop(x)'
    BY <1>1, <1>5, <2>1, NoLoop, Phased
  <2> QED BY <2>1 DEF LoopInv
<1> QED BY <1>2, <1>3, <1>6, <1>7

\* A step of one command keeps what the invariant says of the other machines.
LEMMA MachinesKeep ==
    ASSUME NetInv, NEW c \in Commands, NEW l, pc' = [pc EXCEPT ![c] = l], l # "idle" \/ pc[c] = l,
           \A x \in Commands : \/ Uids(found'[x]) \subseteq Uids(found[x]) \cup {c}
                               \/ stored # None /\ Uids(found'[x]) \subseteq Uids(stored) \cup {c},
           \A x \in Commands \ {c} : found'[x] = found[x],
           stored' \in {stored, found[c], None},
           \A m \in Machines \ {c} : machine'[m] = machine[m],
           c \in Machines => MachineInv(c)'
    PROVE  MachinesInv'
<1>1. pc \in [Commands -> Phases] /\ pc'[c] = l /\ \A x \in Commands \ {c} : pc'[x] = pc[x]
  BY DEF NetInv, TypeOK
<1>2. ASSUME NEW m \in Machines \ {c} PROVE MachineInv(m)'
  <2>1. m \in Commands \ {c} /\ pc'[m] = pc[m] /\ machine'[m] = machine[m] /\ found'[m] = found[m]
    BY <1>1 DEF Commands
  <2>2. MachineInv(m)
    BY DEF NetInv, MachinesInv
  <2>3. ASSUME pc[m] = "idle", stored' # None PROVE m \notin Uids(stored')
    BY <2>2, <2>3 DEF MachineInv
  <2>4. ASSUME pc[m] = "idle", NEW x \in Commands PROVE m \notin Uids(found'[x])
    BY <2>2, <2>4 DEF MachineInv
  <2> QED BY <2>1, <2>2, <2>3, <2>4 DEF MachineInv
<1> QED BY <1>2 DEF MachinesInv

\* A step that leaves the taps and the copies alone keeps the invariant, given its own part.
LEMMA QuietStep ==
    ASSUME NetInv, NEW c \in Commands, NEW l \in Phases, pc' = [pc EXCEPT ![c] = l],
           UNCHANGED <<bridge, tap, copy, iface>>,
           stored' = stored \/ (stored' = found[c] /\ pc[c] \in Updating),
           machine' \in [Machines -> {"absent", "deleted"} \cup Present],
           \A m \in Machines \ {c} : machine'[m] = machine[m],
           l # "idle" \/ pc[c] = l, l \in Active => pc[c] \in Active, l \in Updating => pc[c] \in Updating,
           l \in {"create", "attached"} => pc[c] \in {"create", "attached"},
           serial /\ c = NetRm => l \in {pc[c], "failed"},
           c \in Machines => MachineInv(c)',
           c \in Machines /\ machine'[c] \in Present => machine[c] \in Present \/ pc[c] \in Active,
           Place(c)', c \notin disturbed => Loop(c)'
    PROVE  NetInv'
<1>1. /\ pc \in [Commands -> Phases] /\ pc'[c] = l /\ \A x \in Commands \ {c} : pc'[x] = pc[x]
      /\ found' = found /\ serial' = serial /\ disturbed' = disturbed /\ pos' = pos /\ doomed' = doomed
      /\ Others(c)
  BY DEF NetInv, TypeOK, copy, Others
<1>2. TypeOK'
  BY SMT, <1>1 DEF NetInv, TypeOK
<1>3. ListInv(found[c])'
  BY <1>1 DEF NetInv, ListsInv, ListInv
<1>4. ListsInv' /\ PlacesInv' /\ AloneInv' /\ LoopInv'
  BY <1>1, <1>3, StepKeeps
<1>5. MachinesInv'
  BY <1>1, MachinesKeep
<1>6. AttachedInv'
  <2> SUFFICES ASSUME serial, ~NetworkGoing', NEW m \in Machines, pc'[m] \in {"create", "attached"}
               PROVE  Attached(m)'
    BY <1>1 DEF AttachedInv
  <2>1. ~NetworkGoing
    BY <1>1 DEF NetworkGoing, Commands
  <2>2. pc[m] \in {"create", "attached"}
    BY <1>1 DEF Commands
  <2>3. Attached(m)
    BY <2>1, <2>2 DEF NetInv, AttachedInv
  <2>4. \A x \in Commands : pc'[x] \in Updating => pc[x] \in Updating
    BY <1>1
  <2>5. stored' # None => Lists(stored', m, iface[m].name)
    BY <2>3 DEF Attached
  <2> QED BY <1>1, <2>3, <2>4, <2>5 DEF Attached
<1>7. RemovedInv'
  <2> SUFFICES ASSUME serial PROVE RemovedInv'
    BY <1>1 DEF RemovedInv
  <2>1. pc[NetRm] \in {"idle", "unlink", "delete", "gone", "failed"} /\ NetRm \in Commands
    BY DEF NetInv, RemovedInv, Commands
  <2>2. pc'[NetRm] \in {pc[NetRm], "failed"}
    BY <1>1, <2>1
  <2>3. ASSUME pc[NetRm] \in {"unlink", "delete"} \/ ~bridge, NEW m \in Machines
        PROVE  machine'[m] \notin Present /\ pc'[m] \notin Active
    <3>1. machine[m] \notin Present /\ pc[m] \notin Active /\ m \in Commands
      BY <2>3 DEF NetInv, RemovedInv, Commands
    <3> QED BY <1>1, <3>1
  <2> QED BY <1>1, <2>1, <2>2, <2>3 DEF RemovedInv
<1> QED BY <1>2, <1>4, <1>5, <1>6, <1>7 DEF NetInv

\* A step of Update's loop keeps the invariant, given its own part and that the taps of the
\* listed interfaces stay.
LEMMA WorkStep ==
    ASSUME NetInv, NEW c \in Commands, NEW l \in Updating, pc[c] \in Updating, pc' = [pc EXCEPT ![c] = l],
           UNCHANGED <<bridge, stored, iface, machine, disturbed, serial>>, Others(c),
           TypeOK', ListInv(found[c])', Place(c)', c \notin disturbed => Loop(c)',
           Uids(found'[c]) = Uids(found[c]),
           serial => \A m \in Machines, j \in Names : tap[j] = m /\ Lists(found[c], m, j)
                        => tap'[j] = m /\ Lists(found'[c], m, j)
    PROVE  NetInv'
<1>1. /\ pc \in [Commands -> Phases] /\ pc'[c] = l /\ \A x \in Commands \ {c} : pc'[x] = pc[x]
      /\ serial' = serial /\ \A x \in Commands \ {c} : found'[x] = found[x]
  BY DEF NetInv, TypeOK, Others
<1>2. ListsInv' /\ PlacesInv' /\ AloneInv' /\ LoopInv'
  BY StepKeeps, Phased
<1>3. MachinesInv'
  <2>1. c \in Machines => MachineInv(c)'
    <3> SUFFICES ASSUME c \in Machines PROVE MachineInv(c)'
      OBVIOUS
    <3>1. MachineInv(c)
      BY DEF NetInv, MachinesInv
    <3>2. l # "idle" /\ l # "create" /\ l # "attached"
      BY Phased
    <3> QED BY <1>1, <3>1, <3>2 DEF MachineInv
  <2>2. \A x \in Commands : Uids(found'[x]) \subseteq Uids(found[x]) \cup {c}
    BY <1>1
  <2>3. l # "idle"
    BY Phased
  <2> QED BY <1>1, <2>1, <2>2, <2>3, MachinesKeep
<1>4. ASSUME serial PROVE c # NetRm
  BY <1>4, Phased DEF NetInv, RemovedInv, Updating
<1>5. AttachedInv'
  <2> SUFFICES ASSUME serial, ~NetworkGoing', NEW m \in Machines, pc'[m] \in {"create", "attached"}
               PROVE  Attached(m)'
    BY SMT, <1>1 DEF AttachedInv
  <2>1. m # c /\ pc[m] = pc'[m] /\ ~NetworkGoing
    <3>1. l \notin {"create", "attached"}
      BY Phased
    <3> QED BY <1>1, <1>4, <3>1 DEF NetworkGoing, Commands
  <2>2. Attached(m)
    BY <2>1 DEF NetInv, AttachedInv
  <2>3. tap'[iface[m].name] = m /\ Lists(found'[c], m, iface[m].name)
    BY <2>2 DEF Attached
  <2> QED BY <1>1, <2>2, <2>3 DEF Attached
<1>6. RemovedInv'
  <2> SUFFICES ASSUME serial PROVE RemovedInv'
    BY SMT, <1>1 DEF RemovedInv
  <2>1. c \in Machines /\ pc'[NetRm] = pc[NetRm]
    BY <1>1, <1>4 DEF Commands
  <2>2. ~ (pc[NetRm] \in {"unlink", "delete"} \/ ~bridge)
    BY <2>1, Phased DEF NetInv, RemovedInv
  <2> QED BY <2>1, <2>2 DEF NetInv, RemovedInv
<1> QED BY <1>2, <1>3, <1>5, <1>6 DEF NetInv

----------------------------------------------------------------------------
(* The steps of Update.                                                    *)

\* What the invariant says of one command's copy.
LEMMA CopyFacts ==
    ASSUME NetInv, NEW c \in Commands
    PROVE  /\ pc \in [Commands -> Phases] /\ tap \in [Names -> Machines \cup {NoLink, NoAlias}]
           /\ found[c] \in Seq(Interface) /\ pos[c] \in Nat /\ pos \in [Commands -> Nat]
           /\ doomed \in [Commands -> SUBSET Names]
           /\ ListInv(found[c]) /\ Place(c)
           /\ (c \notin disturbed => Loop(c)) /\ (serial => c \notin disturbed)
           /\ Len(found[c]) \in Nat
           /\ \A i \in 1 .. Len(found[c]) : /\ found[c][i] \in Interface
                                            /\ found[c][i].uid \in Uids(found[c])
           /\ Uids(found[c]) \subseteq Machines
           /\ NoLink \notin Machines /\ NoAlias \notin Machines /\ None \notin Names
<1>1. /\ found[c] \in Seq(Interface) /\ tap \in [Names -> Machines \cup {NoLink, NoAlias}] /\ pos[c] \in Nat
      /\ pc \in [Commands -> Phases] /\ ListInv(found[c]) /\ Place(c) /\ (c \notin disturbed => Loop(c))
      /\ doomed \in [Commands -> SUBSET Names] /\ (serial => c \notin disturbed) /\ pos \in [Commands -> Nat]
  BY DEF NetInv, TypeOK, ListsInv, PlacesInv, LoopInv, AloneInv
<1>2. Len(found[c]) \in Nat /\ \A i \in 1 .. Len(found[c]) : found[c][i] \in Interface
  BY SMT, <1>1
<1>3. \A i \in 1 .. Len(found[c]) : found[c][i].uid \in Machines /\ found[c][i].uid \in Uids(found[c])
  BY <1>2 DEF Interface, Uids
<1>4. Uids(found[c]) \subseteq Machines
  BY <1>3 DEF Uids
<1> QED BY <1>1, <1>2, <1>3, <1>4, ConstantsAssumption

\* Adding the link or taking it over: the links with an alias stay.
LEMMA UpdateTapKeeps ==
    ASSUME NetInv, NEW c \in Commands, UpdateTap(c) PROVE NetInv'
<1> USE CopyFacts
<1>1. PICK j \in Names : j = found[c][pos[c]].name
  BY DEF Place, UpdateTap
<1>2. /\ tap' = [tap EXCEPT ![j] = IF tap[j] = NoLink THEN NoAlias ELSE tap[j]]
      /\ pc[c] = "tap" /\ pc' = [pc EXCEPT ![c] = "alias"] /\ pc'[c] = "alias"
      /\ UNCHANGED <<bridge, stored, iface, machine, disturbed, serial, found, pos, doomed>>
  BY <1>1 DEF UpdateTap, Goto, copy
<1>3. /\ tap' \in [Names -> Machines \cup {NoLink, NoAlias}]
      /\ \A i \in Names : tap[i] \in Machines => tap'[i] = tap[i]
  BY <1>2
<1>4. TypeOK'
  BY <1>2, <1>3, Phased DEF NetInv, TypeOK
<1>5. Handled(c)' = Handled(c)
  BY <1>2 DEF Handled
<1>6. ListInv(found[c])' /\ Place(c)'
  BY <1>2, <1>5 DEF ListInv, Place
<1>7. ASSUME c \notin disturbed PROVE Loop(c)'
  <2>1. ASSUME NEW i \in Handled(c)
        PROVE  IF serial THEN tap'[found[c][i].name] = found[c][i].uid
                         ELSE tap'[found[c][i].name] \in Uids(found[c])
    <3>1. i \in 1 .. Len(found[c]) /\ found[c][i].name \in Names
      BY <2>1 DEF Handled, Place
    <3>2. IF serial THEN tap[found[c][i].name] = found[c][i].uid
                    ELSE tap[found[c][i].name] \in Uids(found[c])
      BY <1>7, <2>1 DEF Loop
    <3>3. tap[found[c][i].name] \in Machines
      BY <3>1, <3>2
    <3> QED BY <1>3, <3>1, <3>2, <3>3
  <2> QED BY SMT, <1>2, <1>5, <2>1 DEF Loop
<1>8. \A m \in Machines, i \in Names : tap[i] = m /\ Lists(found[c], m, i)
                        => tap'[i] = m /\ Lists(found'[c], m, i)
  BY <1>2, <1>3
<1> QED BY <1>2, <1>4, <1>6, <1>7, <1>8, WorkStep, Phased DEF Others

\* Setting the alias: one at a time, no other listed interface has the link's name.
LEMMA UpdateAliasKeeps ==
    ASSUME NetInv, NEW c \in Commands, UpdateAlias(c) PROVE NetInv'
<1> USE CopyFacts
<1>1. PICK p \in 1 .. Len(found[c]) : p = pos[c]
  BY SMT DEF Place, UpdateAlias
<1>2. PICK j \in Names : j = found[c][p].name
  BY <1>1 DEF Place, UpdateAlias
<1>3. /\ tap' = [tap EXCEPT ![j] = found[c][p].uid] /\ pos' = [pos EXCEPT ![c] = p + 1]
      /\ pc[c] = "alias" /\ pc' = [pc EXCEPT ![c] = "iface"] /\ pc'[c] = "iface"
      /\ UNCHANGED <<bridge, stored, iface, machine, disturbed, serial, found, doomed>>
  BY <1>1, <1>2 DEF UpdateAlias, Goto
<1>4. /\ tap' \in [Names -> Machines \cup {NoLink, NoAlias}] /\ pos' \in [Commands -> Nat] /\ pos'[c] = p + 1
      /\ tap'[j] = found[c][p].uid /\ \A i \in Names \ {j} : tap'[i] = tap[i]
      /\ found[c][p].uid \in Uids(found[c])
  BY SMT, <1>3
<1>5. TypeOK'
  BY <1>3, <1>4, Phased DEF NetInv, TypeOK
<1>6. Handled(c)' = {i \in 1 .. Len(found[c]) : i < p + 1} /\ Handled(c) = {i \in 1 .. Len(found[c]) : i < p}
  BY <1>1, <1>3, <1>4 DEF Handled
<1>7. \A i \in Handled(c)' : i = p \/ i \in Handled(c)
  BY SMT, <1>6
<1>8. Place(c)'
  <2>1. \A i \in Handled(c)' : found'[c][i].name \in Names
    BY <1>2, <1>3, <1>7 DEF Place
  <2>2. pos'[c] >= 1 /\ pos'[c] <= Len(found'[c]) + 1
    BY SMT, <1>3, <1>4
  <2> QED BY <1>3, <2>1, <2>2 DEF Place
<1>9. ASSUME serial, NEW i \in 1 .. Len(found[c]), found[c][i].name = j PROVE i = p
  BY <1>2, <1>9 DEF ListInv, NamesDistinct
<1>10. ASSUME c \notin disturbed PROVE Loop(c)'
  <2>1. ASSUME NEW i \in Handled(c)'
        PROVE  IF serial THEN tap'[found[c][i].name] = found[c][i].uid
                         ELSE tap'[found[c][i].name] \in Uids(found[c])
    <3>1. CASE found[c][i].name = j
      <4>1. i \in 1 .. Len(found[c])
        BY <1>6, <2>1
      <4> QED BY <1>4, <1>9, <3>1, <4>1
    <3>2. CASE found[c][i].name # j
      <4>1. i \in Handled(c) /\ found[c][i].name \in Names
        BY <1>2, <1>7, <2>1, <3>2 DEF Place
      <4> QED BY <1>4, <1>10, <3>2, <4>1 DEF Loop
    <3> QED BY <3>1, <3>2
  <2> QED BY <1>3, <2>1 DEF Loop
<1>11. ASSUME serial, NEW m \in Machines, NEW i \in Names, tap[i] = m, Lists(found[c], m, i)
       PROVE  tap'[i] = m /\ Lists(found'[c], m, i)
  <2>1. CASE i # j
    BY <1>3, <1>4, <1>11, <2>1
  <2>2. CASE i = j
    BY <1>3, <1>4, <1>9, <1>11, <2>2 DEF Lists
  <2> QED BY <2>1, <2>2
<1>12. ListInv(found[c])'
  BY <1>3 DEF ListInv
<1>13. Others(c)
  BY <1>3 DEF Others
<1> QED BY <1>3, <1>5, <1>8, <1>10, <1>11, <1>12, <1>13, WorkStep, Phased

\* Listing the links to delete: those of no listed interface.
LEMMA UpdateLinksKeeps ==
    ASSUME NetInv, NEW c \in Commands, UpdateLinks(c) PROVE NetInv'
<1> USE CopyFacts
<1>1. /\ pc[c] = "iface" /\ pc' = [pc EXCEPT ![c] = "clean"] /\ pc'[c] = "clean"
      /\ UNCHANGED <<bridge, stored, tap, iface, machine, disturbed, serial, found, pos>>
      /\ doomed' = [doomed EXCEPT ![c] = {j \in Aliased : tap[j] \notin Uids(found[c])}]
      /\ doomed'[c] = {j \in Aliased : tap[j] \notin Uids(found[c])}
  BY DEF UpdateLinks, Goto, net
<1>2. TypeOK'
  <2>1. doomed' \in [Commands -> SUBSET Names]
    BY <1>1 DEF Aliased
  <2> QED BY <1>1, <2>1, Phased DEF NetInv, TypeOK
<1>3. Handled(c) = 1 .. Len(found[c]) /\ Handled(c)' = 1 .. Len(found[c])
  <2>1. \A i \in 1 .. Len(found[c]) : i < pos[c]
    BY SMT DEF UpdateLinks
  <2> QED BY <1>1, <2>1 DEF Handled
<1>4. Place(c)'
  BY <1>1, <1>3 DEF Place
<1>5. ASSUME c \notin disturbed PROVE Loop(c)'
  <2>1. Aliased' = Aliased
    BY <1>1 DEF Aliased
  <2> QED BY <1>1, <1>3, <1>5, <2>1 DEF Loop
<1>6. ListInv(found[c])' /\ Others(c)
  BY <1>1 DEF ListInv, Others
<1> QED BY <1>1, <1>2, <1>4, <1>5, <1>6, WorkStep, Phased

\* Deleting one of them: it is of no listed interface.
LEMMA UpdateCleanKeeps ==
    ASSUME NetInv, NEW c \in Commands, UpdateClean(c) PROVE NetInv'
<1> USE CopyFacts
<1>1. PICK j \in doomed[c] : /\ tap' = [tap EXCEPT ![j] = NoLink]
                             /\ doomed' = [doomed EXCEPT ![c] = doomed[c] \ {j}]
  BY DEF UpdateClean
<1>2. /\ pc[c] = "clean" /\ pc' = [pc EXCEPT ![c] = "clean"] /\ pc'[c] = "clean"
      /\ UNCHANGED <<bridge, stored, iface, machine, disturbed, serial, found, pos>>
  BY DEF UpdateClean
<1>3. /\ j \in Names /\ doomed'[c] = doomed[c] \ {j} /\ doomed' \in [Commands -> SUBSET Names]
      /\ tap' \in [Names -> Machines \cup {NoLink, NoAlias}]
      /\ tap'[j] = NoLink /\ \A i \in Names \ {j} : tap'[i] = tap[i]
  BY <1>1
<1>4. TypeOK'
  BY <1>2, <1>3, Phased DEF NetInv, TypeOK
<1>5. Handled(c)' = Handled(c)
  BY <1>2 DEF Handled
<1>6. Place(c)'
  BY <1>2, <1>5 DEF Place
<1>7. ASSUME c \notin disturbed PROVE tap[j] \notin Uids(found[c])
  BY <1>2, <1>7 DEF Loop
<1>8. ASSUME c \notin disturbed PROVE Loop(c)'
  <2>1. ASSUME NEW i \in Handled(c)
        PROVE  IF serial THEN tap'[found[c][i].name] = found[c][i].uid
                         ELSE tap'[found[c][i].name] \in Uids(found[c])
    <3>1. i \in 1 .. Len(found[c]) /\ found[c][i].name \in Names
      BY <2>1 DEF Handled, Place
    <3>2. IF serial THEN tap[found[c][i].name] = found[c][i].uid
                    ELSE tap[found[c][i].name] \in Uids(found[c])
      BY <1>8, <2>1 DEF Loop
    <3> QED BY <1>3, <1>7, <1>8, <3>1, <3>2
  <2>2. \A i \in doomed'[c] : tap'[i] \notin Uids(found[c])
    BY <1>2, <1>3, <1>8 DEF Loop
  <2>3. \A i \in Aliased' : tap'[i] \in Uids(found[c]) \/ i \in doomed'[c]
    BY <1>2, <1>3, <1>8 DEF Loop, Aliased
  <2> QED BY SMT, <1>2, <1>5, <2>1, <2>2, <2>3 DEF Loop
<1>9. ASSUME serial, NEW m \in Machines, NEW i \in Names, tap[i] = m, Lists(found[c], m, i)
      PROVE  tap'[i] = m /\ Lists(found'[c], m, i)
  <2>1. m \in Uids(found[c])
    BY <1>9 DEF Lists
  <2> QED BY <1>2, <1>3, <1>7, <1>9, <2>1
<1>10. ListInv(found[c])' /\ Others(c)
  BY <1>1, <1>2 DEF ListInv, Others
<1> QED BY <1>2, <1>4, <1>6, <1>8, <1>9, <1>10, WorkStep, Phased

\* An interface that Update gives a link name is an interface.
LEMMA Renamed ==
    ASSUME NEW f \in Interface, NEW n \in Names
    PROVE  LET g == [f EXCEPT !.name = n] IN g \in Interface /\ g.name = n /\ g.uid = f.uid
  BY SMT DEF Interface

\* An interface that Update gives an address is an interface.
LEMMA Addressed ==
    ASSUME NEW f \in Interface, NEW a \in Addresses
    PROVE  LET g == [f EXCEPT !.ip = a] IN g \in Interface /\ g.name = f.name /\ g.uid = f.uid
  BY SMT DEF Interface

\* Naming an interface: the free name is no link's, so no handled interface has it.
LEMMA UpdateIfaceKeeps ==
    ASSUME NetInv, NEW c \in Commands, UpdateIface(c) PROVE NetInv'
<1>1. /\ pc \in [Commands -> Phases] /\ found \in [Commands -> Seq(Interface)] /\ pos \in [Commands -> Nat]
      /\ tap \in [Names -> Machines \cup {NoLink, NoAlias}]
  BY DEF NetInv, TypeOK
<1>2. PICK s \in Seq(Interface) : s = found[c]
  BY <1>1
<1>3. PICK p \in 1 .. Len(s) : p = pos[c]
  BY SMT, <1>1, <1>2 DEF UpdateIface, NetInv, PlacesInv, Place
<1>4. s[p] \in Interface
  BY SMT
<1>5. PICK n \in Names : /\ n = IF s[p].name = None THEN FreeName ELSE s[p].name
                         /\ s[p].name = None => tap[n] = NoLink
  <2>1. CASE s[p].name = None
    <3>1. {j \in Names : tap[j] = NoLink} # {} /\ {j \in Names : tap[j] = NoLink} \subseteq Nat
      BY <1>2, <1>3, <2>1, ConstantsAssumption DEF UpdateIface
    <3>2. FreeName \in {j \in Names : tap[j] = NoLink}
      BY <3>1, LeastIsIn DEF FreeName
    <3> QED BY <2>1, <3>2
  <2>2. CASE s[p].name # None
    BY <1>4, <2>2 DEF Interface
  <2> QED BY <2>1, <2>2
<1>6. PICK f \in Interface : /\ f.name = n /\ f.uid = s[p].uid
                             /\ found' = [found EXCEPT ![c] = [s EXCEPT ![p] = f]]
  <2>1. PICK g \in Interface : g = [s[p] EXCEPT !.name = n] /\ g.name = n /\ g.uid = s[p].uid
    BY <1>4, Renamed
  <2>2. [found EXCEPT ![c][p].name = n] = [found EXCEPT ![c] = [s EXCEPT ![p] = g]]
    BY SMT, <1>1, <1>2, <2>1
  <2>3. CASE found' = [found EXCEPT ![c][pos[c]].name = n]
    BY <1>3, <2>1, <2>2, <2>3
  <2>4. CASE \E known \in SUBSET Seen :
                /\ FreeAddresses(known) # {}
                /\ found' = [found EXCEPT ![c][pos[c]].name = n, ![c][pos[c]].ip = AllocateIP(known)]
    <3>1. PICK known \in SUBSET Seen :
                /\ FreeAddresses(known) # {}
                /\ found' = [found EXCEPT ![c][pos[c]].name = n, ![c][pos[c]].ip = AllocateIP(known)]
      BY <2>4
    <3>2. AllocateIP(known) \in Addresses
      <4>1. FreeAddresses(known) \subseteq Nat
        BY ConstantsAssumption DEF FreeAddresses
      <4>2. AllocateIP(known) \in FreeAddresses(known)
        BY <3>1, <4>1, LeastIsIn DEF AllocateIP
      <4> QED BY <4>2 DEF FreeAddresses
    <3>3. PICK a \in Addresses : a = AllocateIP(known)
      BY <3>2
    <3>4. found' = [[found EXCEPT ![c][p].name = n] EXCEPT ![c][p].ip = a]
      BY <1>3, <3>1, <3>3
    <3>5. found' = [[found EXCEPT ![c] = [s EXCEPT ![p] = g]] EXCEPT ![c][p].ip = a]
      BY <2>2, <3>4
    <3>6. PICK f \in Interface : f = [g EXCEPT !.ip = a] /\ f.name = n /\ f.uid = s[p].uid
      <4>1. g.name = n /\ g.uid = s[p].uid
        BY <2>1
      <4>2. /\ [g EXCEPT !.ip = a] \in Interface
            /\ [g EXCEPT !.ip = a].name = g.name /\ [g EXCEPT !.ip = a].uid = g.uid
        BY Addressed
      <4>3. PICK k \in Interface : k = [g EXCEPT !.ip = a]
        BY <4>2
      <4>4. k.name = n /\ k.uid = s[p].uid
        BY <4>1, <4>2, <4>3
      <4> QED BY <4>3, <4>4
    <3>7. found' = [found EXCEPT ![c] = [s EXCEPT ![p] = f]]
      <4>1. PICK h \in [Commands -> Seq(Interface)] : h = [found EXCEPT ![c] = [s EXCEPT ![p] = g]]
        <5>1. [s EXCEPT ![p] = g] \in Seq(Interface)
          BY SMT
        <5> QED BY <1>1, <5>1
      <4>2. h[c] = [s EXCEPT ![p] = g] /\ h[c][p] = g
        BY SMT, <1>1, <4>1
      <4>3. [h EXCEPT ![c][p].ip = a] = [h EXCEPT ![c] = [h[c] EXCEPT ![p] = f]]
        BY <3>6, <4>2
      <4>4. [h[c] EXCEPT ![p] = f] = [s EXCEPT ![p] = f]
        BY <4>2
      <4>5. [h EXCEPT ![c] = [s EXCEPT ![p] = f]] = [found EXCEPT ![c] = [s EXCEPT ![p] = f]]
        BY <4>1
      <4> QED BY <3>5, <4>1, <4>3, <4>4, <4>5
    <3> QED BY <3>6, <3>7
  <2> QED BY <1>2, <1>3, <1>5, <2>3, <2>4 DEF UpdateIface
<1>7. PICK t \in Seq(Interface) :
         /\ t = found'[c] /\ Len(t) = Len(s) /\ t[p].name = n /\ t[p].uid = s[p].uid
         /\ \A i \in 1 .. Len(s) : i # p => t[i] = s[i]
  <2>1. found'[c] = [s EXCEPT ![p] = f]
    BY <1>1, <1>6
  <2>2. [s EXCEPT ![p] = f] \in Seq(Interface)
    BY SMT
  <2> QED BY SMT, <1>6, <2>1, <2>2
<1>8. /\ pc[c] = "iface" /\ pc' = [pc EXCEPT ![c] = "tap"] /\ pc'[c] = "tap"
      /\ UNCHANGED <<bridge, stored, tap, iface, machine, disturbed, serial, pos, doomed>>
      /\ found' \in [Commands -> Seq(Interface)] /\ Others(c)
  BY <1>1, <1>6, <1>7 DEF UpdateIface, Goto, net, Others
<1>9. TypeOK'
  <2>1. pc' \in [Commands -> Phases]
    BY <1>1, <1>8, Phased
  <2> QED BY <1>8, <2>1 DEF NetInv, TypeOK
<1>10. \A i \in 1 .. Len(s) : i < p => i \in Handled(c) /\ s[i].name \in Names
  BY <1>2, <1>3, <1>8 DEF Handled, NetInv, PlacesInv, Place
<1>11. n # None /\ \A j \in Names : j # None
  BY ConstantsAssumption
<1>12. /\ Uids(t) = Uids(s)
       /\ UidsDistinct(s) => UidsDistinct(t)
       /\ \A x, j : j # None /\ Lists(s, x, j) => Lists(t, x, j)
       /\ (\A i \in 1 .. Len(s) :
              i < p => s[i].name # None /\ (s[p].name = None => s[i].name # t[p].name))
              => /\ NamesFirst(s) => NamesFirst(t)
                 /\ NamesFirst(s) /\ NamesDistinct(s) => NamesDistinct(t)
  <2>1. t[p].name # None /\ (s[p].name # None => t[p].name = s[p].name)
    BY <1>5, <1>7, <1>11
  <2>2. Len(t) = Len(s) /\ t[p].uid = s[p].uid
    BY <1>7
  <2>3. \A i \in 1 .. Len(s) : i # p => t[i] = s[i]
    BY <1>7
  <2> QED BY <2>1, <2>2, <2>3, NamingLists
<1>13. ASSUME serial, NEW i \in 1 .. Len(s), i < p
       PROVE  s[i].name # None /\ (s[p].name = None => s[i].name # t[p].name)
  <2>1. c \notin disturbed /\ i \in Handled(c) /\ s[i].name \in Names
    BY <1>10, <1>13 DEF NetInv, AloneInv
  <2>2. tap[s[i].name] = s[i].uid
    BY <1>2, <1>13, <2>1 DEF NetInv, LoopInv, Loop
  <2>3. s[i].uid \in Machines
    <3>1. s[i] \in Interface
      BY SMT
    <3> QED BY <3>1 DEF Interface
  <2> QED BY <1>5, <1>7, <1>11, <2>1, <2>2, <2>3, ConstantsAssumption
<1>14. ListInv(found[c])'
  <2>1. ListInv(s)
    BY <1>2 DEF NetInv, ListsInv
  <2> QED BY <1>7, <1>8, <1>12, <1>13, <2>1 DEF ListInv
<1>15. Handled(c)' = {i \in 1 .. Len(s) : i < p}
  BY <1>3, <1>7, <1>8 DEF Handled
<1>16. Place(c)'
  <2>1. \A i \in Handled(c)' : found'[c][i].name \in Names
    BY SMT, <1>7, <1>10, <1>15
  <2>2. pos'[c] = p /\ p >= 1 /\ p <= Len(t)
    BY SMT, <1>3, <1>7, <1>8
  <2> QED BY <1>5, <1>7, <1>8, <2>1, <2>2 DEF Place
<1>17. ASSUME c \notin disturbed PROVE Loop(c)'
  <2>1. ASSUME NEW i \in Handled(c)'
        PROVE  /\ found'[c][i] = s[i]
               /\ IF serial THEN tap[s[i].name] = s[i].uid ELSE tap[s[i].name] \in Uids(s)
    <3>1. i \in 1 .. Len(s) /\ i < p /\ i \in Handled(c) /\ i # p
      BY SMT, <1>10, <1>15, <2>1
    <3>2. Loop(c)
      BY <1>17 DEF NetInv, LoopInv
    <3> QED BY <1>2, <1>7, <3>1, <3>2 DEF Loop
  <2> QED BY <1>7, <1>8, <1>12, <2>1 DEF Loop
<1>18. ASSUME NEW m \in Machines, NEW j \in Names, tap[j] = m, Lists(found[c], m, j)
       PROVE  tap'[j] = m /\ Lists(found'[c], m, j)
  BY <1>2, <1>7, <1>8, <1>11, <1>12, <1>18
<1> QED
  BY <1>2, <1>7, <1>8, <1>9, <1>12, <1>14, <1>16, <1>17, <1>18, WorkStep, Phased

----------------------------------------------------------------------------
(* The ends of an update, and the machine's own steps.                     *)

\* A command out of Update meets its part.
LEMMA Ended ==
    ASSUME NEW c, pc'[c] \in {"create", "attached", "delete", "gone", "failed"}
    PROVE  Place(c)' /\ Loop(c)'
<1>1. Handled(c)' = {}
  BY DEF Handled
<1> QED BY <1>1 DEF Place, Loop

\* Update finds the bridge and starts its loop.
LEMMA UpdateBridgeKeeps ==
    ASSUME NetInv, NEW c \in Commands, UpdateBridge(c) PROVE NetInv'
<1> USE CopyFacts
<1>1. /\ pc[c] = "bridge" /\ pc' = [pc EXCEPT ![c] = "iface"] /\ pc'[c] = "iface"
      /\ UNCHANGED <<bridge, stored, tap, iface, machine, disturbed, serial, found, pos, doomed>>
  BY DEF UpdateBridge, Goto, net, copy
<1>2. pos[c] = 1
  BY <1>1 DEF Place
<1>3. Handled(c)' = {}
  BY SMT, <1>1, <1>2 DEF Handled
<1>4. Place(c)' /\ Loop(c)'
  <2>1. pos'[c] >= 1 /\ pos'[c] <= Len(found'[c]) + 1
    BY SMT, <1>1, <1>2
  <2> QED BY <1>1, <1>3, <2>1 DEF Place, Loop
<1>5. TypeOK' /\ ListInv(found[c])' /\ Others(c)
  BY <1>1, Phased DEF NetInv, TypeOK, ListInv, Others
<1> QED BY <1>1, <1>4, <1>5, WorkStep, Phased

\* Update returns once every link it was to delete is gone.
LEMMA UpdateDoneKeeps ==
    ASSUME NetInv, NEW c \in Commands, UpdateDone(c) PROVE NetInv'
<1> USE CopyFacts
<1>1. /\ pc[c] = "clean" /\ pc' = [pc EXCEPT ![c] = "save"] /\ pc'[c] = "save" /\ doomed[c] = {}
      /\ UNCHANGED <<bridge, stored, tap, iface, machine, disturbed, serial, found, pos, doomed>>
  BY DEF UpdateDone, Goto, net, copy
<1>2. Handled(c)' = Handled(c) /\ Aliased' = Aliased
  BY <1>1 DEF Handled, Aliased
<1>3. Place(c)' /\ (c \notin disturbed => Loop(c)')
  <2>1. Place(c)'
    BY <1>1, <1>2 DEF Place
  <2>2. ASSUME c \notin disturbed PROVE Loop(c)'
    <3>1. Loop(c) /\ tap' = tap /\ found'[c] = found[c] /\ serial' = serial /\ doomed'[c] = {} /\ pc'[c] = "save"
      BY <1>1, <2>2 DEF NetInv, LoopInv
    <3>2. (\A i \in Handled(c) : IF serial THEN tap[found[c][i].name] = found[c][i].uid
                                         ELSE tap[found[c][i].name] \in Uids(found[c]))'
      BY <1>2, <3>1 DEF Loop
    <3>3. (\A j \in Aliased : tap[j] \in Uids(found[c]) \/ j \in doomed[c])'
      BY <1>1, <1>2, <3>1 DEF Loop
    <3> QED BY <3>1, <3>2, <3>3 DEF Loop
  <2> QED BY <2>1, <2>2
<1>4. TypeOK' /\ ListInv(found[c])' /\ Others(c)
  BY <1>1, Phased DEF NetInv, TypeOK, ListInv, Others
<1> QED BY <1>1, <1>3, <1>4, WorkStep, Phased

\* Update fails, wherever it is, and whichever copy the store keeps.
LEMMA UpdateEndKeeps ==
    ASSUME NetInv, NEW c \in Commands, UpdateFails(c) \/ UpdateRefused(c) PROVE NetInv'
<1> USE CopyFacts
<1>1. /\ pc[c] \in Updating /\ pc' = [pc EXCEPT ![c] = "failed"] /\ pc'[c] = "failed"
      /\ stored' \in {stored, found[c]} /\ machine' \in {machine, Discarded(c)}
      /\ UNCHANGED <<bridge, tap, copy, iface>>
  BY Phased DEF UpdateFails, UpdateRefused, Goto
<1>2. /\ machine \in [Machines -> {"absent", "deleted"} \cup Present]
      /\ machine' \in [Machines -> {"absent", "deleted"} \cup Present]
      /\ \A m \in Machines \ {c} : machine'[m] = machine[m]
      /\ c \in Machines /\ machine'[c] \in Present => machine[c] \in Present
  <2>1. machine \in [Machines -> {"absent", "deleted"} \cup Present]
    BY DEF NetInv, TypeOK
  <2> QED BY <1>1, <2>1 DEF Discarded
<1>3. MachineInv(c)'
  BY <1>1, Phased DEF MachineInv
<1>4. Place(c)' /\ Loop(c)'
  BY SMT, <1>1, Ended
<1> QED BY <1>1, <1>2, <1>3, <1>4, QuietStep, Phased

\* What a machine does between its commands, and the ends of `kraft rm` and `kraft run`.
LEMMA MachineStepsKeep ==
    ASSUME NetInv, NEW m \in Machines,
           \/ RmListMissing(m) \/ SaveRm(m) \/ MachineCreate(m) \/ RunKilled(m)
           \/ MachineStart(m) \/ GuestUp(m) \/ MachineStop(m)
           \/ RunCleanup(m) /\ Goto(m, "failed") /\ UNCHANGED <<net, copy>>
    PROVE  NetInv'
<1> m \in Commands
  BY DEF Commands
<1> USE CopyFacts
<1>1. /\ machine \in [Machines -> {"absent", "deleted"} \cup Present] /\ m # NetRm /\ MachineInv(m)
      /\ {"created", "started", "up", "stopped"} = Present
      /\ "deleted" \notin Present /\ "absent" \notin Present
  BY ConstantsAssumption DEF NetInv, TypeOK, MachinesInv, Present
<1>2. CASE \/ RmListMissing(m) \/ SaveRm(m) \/ RunKilled(m)
           \/ RunCleanup(m) /\ Goto(m, "failed") /\ UNCHANGED <<net, copy>>
  <2>1. PICK l \in {"gone", "failed"} : pc' = [pc EXCEPT ![m] = l] /\ pc'[m] = l
    BY <1>2 DEF RmListMissing, SaveRm, RunKilled, Goto
  <2>2. /\ UNCHANGED <<bridge, tap, copy, iface>>
        /\ stored' = stored \/ (stored' = found[m] /\ pc[m] \in Updating)
    BY <1>2, Phased DEF RmListMissing, SaveRm, RunKilled, RunCleanup, net
  <2>3. machine' = machine \/ machine' = [machine EXCEPT ![m] = "deleted"]
    BY <1>2 DEF RmListMissing, SaveRm, RunKilled, RunCleanup
  <2>4. Place(m)' /\ Loop(m)'
    BY SMT, <2>1, Ended
  <2>5. MachineInv(m)' /\ l \in Phases /\ l \notin Active /\ l \notin Updating /\ l # "idle"
    BY <2>1, Phased DEF MachineInv
  <2>6. /\ machine' \in [Machines -> {"absent", "deleted"} \cup Present]
        /\ \A x \in Machines \ {m} : machine'[x] = machine[x]
        /\ machine'[m] \in Present => machine[m] \in Present
    BY SMT, <1>1, <2>3
  <2> QED BY <1>1, <2>1, <2>2, <2>4, <2>5, <2>6, QuietStep
<1>3. CASE MachineCreate(m)
  <2>1. /\ pc[m] = "create" /\ pc' = [pc EXCEPT ![m] = "attached"] /\ pc'[m] = "attached"
        /\ UNCHANGED <<bridge, tap, copy, iface>> /\ stored' = stored
        /\ machine' = [machine EXCEPT ![m] = "created"]
    BY <1>3 DEF MachineCreate, MachineStep, Goto, net
  <2>2. /\ machine' \in [Machines -> {"absent", "deleted"} \cup Present] /\ machine'[m] = "created"
        /\ \A x \in Machines \ {m} : machine'[x] = machine[x]
    BY <1>1, <2>1
  <2>3. MachineInv(m)'
    BY <1>1, <2>1, <2>2, Phased DEF MachineInv
  <2>4. Place(m)' /\ Loop(m)'
    BY SMT, <2>1, Ended
  <2>5. "attached" \in Phases /\ "attached" \notin Active /\ "attached" \notin Updating /\ pc[m] \in Active
    BY <2>1, Phased DEF Active
  <2> QED BY <1>1, <2>1, <2>2, <2>3, <2>4, <2>5, QuietStep
<1>4. CASE MachineStart(m) \/ GuestUp(m) \/ MachineStop(m)
  <2>1. PICK to \in {"started", "up", "stopped"} :
           /\ machine[m] \in Present /\ machine' = [machine EXCEPT ![m] = to]
           /\ UNCHANGED <<net, copy, iface, pc>>
    BY <1>1, <1>4 DEF MachineStart, GuestUp, MachineStop, MachineStep
  <2>2. /\ machine' \in [Machines -> {"absent", "deleted"} \cup Present] /\ machine'[m] = to /\ to \in Present
        /\ \A x \in Machines \ {m} : machine'[x] = machine[x]
    BY <1>1, <2>1
  <2>3. pc' = [pc EXCEPT ![m] = pc[m]] /\ pc[m] \in Phases
    BY <2>1
  <2>4. UNCHANGED <<bridge, tap, stored, found, pos, doomed, serial, pc>>
    BY <2>1 DEF net, copy
  <2>5. MachineInv(m)'
    BY <1>1, <2>1, <2>2, <2>4 DEF MachineInv
  <2>6. Place(m)'
    BY <2>4 DEF Place, Handled
  <2>7. m \notin disturbed => Loop(m)'
    <3>1. Handled(m)' = Handled(m) /\ Aliased' = Aliased
      BY <2>4 DEF Handled, Aliased
    <3>2. m \in Commands
      BY DEF Commands
    <3>3. m \notin disturbed => Loop(m)
      BY <3>2 DEF NetInv, LoopInv
    <3>4. /\ found'[m] = found[m] /\ doomed'[m] = doomed[m] /\ pc'[m] = pc[m] /\ tap' = tap /\ serial' = serial
      BY <2>4
    <3> HIDE CopyFacts
    <3> QED BY <3>1, <3>3, <3>4 DEF Loop
  <2> QED BY <1>1, <2>1, <2>2, <2>3, <2>4, <2>5, <2>6, <2>7, QuietStep
<1> QED BY <1>2, <1>3, <1>4

----------------------------------------------------------------------------
(* The commands that begin, and what they store.                           *)

\* A machine's command begins with an edited copy of the record.
LEMMA EditKeeps ==
    ASSUME NetInv, NEW m \in Machines, NEW s \in Seq(Interface), Edit(m, s), Turn, ListInv(s), stored # None,
           UNCHANGED iface, machine' \in [Machines -> {"absent", "deleted"} \cup Present],
           \A x \in Machines \ {m} : machine'[x] = machine[x],
           Uids(s) \subseteq Uids(stored) \cup {m}, machine'[m] = "absent" => m \in Uids(s),
           serial => bridge /\ pc[NetRm] \notin {"unlink", "delete"},
           \A x, j : x # m /\ Lists(stored, x, j) => Lists(s, x, j)
    PROVE  NetInv'
<1> m \in Commands /\ m # NetRm
  BY ConstantsAssumption DEF Commands
<1>1. /\ pc \in [Commands -> Phases] /\ pc'[m] = "bridge" /\ \A x \in Commands \ {m} : pc'[x] = pc[x]
      /\ pc' = [pc EXCEPT ![m] = "bridge"]
      /\ found \in [Commands -> Seq(Interface)] /\ found'[m] = s
      /\ \A x \in Commands \ {m} : found'[x] = found[x]
      /\ found' \in [Commands -> Seq(Interface)]
      /\ pos \in [Commands -> Nat] /\ pos' = [pos EXCEPT ![m] = 1]
      /\ UNCHANGED <<bridge, stored, tap, doomed, serial>> /\ Begin(m, s)
  BY DEF NetInv, TypeOK, Edit, Begin, Goto, net
<1>2. TypeOK'
  <2>1. disturbed' \subseteq Commands
    BY DEF NetInv, TypeOK, Edit, Begin
  <2>2. pos' \in [Commands -> Nat]
    BY SMT, <1>1
  <2>3. pc' \in [Commands -> Phases]
    BY <1>1, Phased
  <2> QED BY <1>1, <2>1, <2>2, <2>3 DEF NetInv, TypeOK
<1>3. ListsInv' /\ PlacesInv' /\ AloneInv' /\ LoopInv'
  BY BeginKeeps DEF Edit
<1>4. MachinesInv'
  <2>1. MachineInv(m)'
    BY <1>1 DEF MachineInv
  <2>2. \A x \in Commands : \/ Uids(found'[x]) \subseteq Uids(found[x]) \cup {m}
                            \/ stored # None /\ Uids(found'[x]) \subseteq Uids(stored) \cup {m}
    BY <1>1
  <2> QED BY <1>1, <2>1, <2>2, MachinesKeep
<1>5. AttachedInv'
  <2> SUFFICES ASSUME serial, ~NetworkGoing', NEW x \in Machines, pc'[x] \in {"create", "attached"}
               PROVE  Attached(x)'
    BY <1>1 DEF AttachedInv
  <2>1. x # m /\ pc[x] = pc'[x] /\ ~NetworkGoing
    BY <1>1 DEF NetworkGoing, Commands
  <2>2. Attached(x)
    BY <2>1 DEF NetInv, AttachedInv
  <2>3. Lists(s, x, iface[x].name)
    BY <2>1, <2>2 DEF Attached
  <2> QED BY <1>1, <2>2, <2>3 DEF Attached
<1>6. RemovedInv'
  <2>1. pc'[NetRm] = pc[NetRm]
    BY <1>1 DEF Commands
  <2> QED BY <1>1, <2>1 DEF NetInv, RemovedInv
<1> QED BY <1>2, <1>3, <1>4, <1>5, <1>6 DEF NetInv

\* `kraft run` begins: its interface has a UID of its own.
LEMMA RunGetKeeps ==
    ASSUME NetInv, NEW m \in Machines, RunGet(m) PROVE NetInv'
<1>1. /\ stored \in Seq(Interface) /\ stored # None /\ ListInv(stored) /\ serial \in BOOLEAN
      /\ machine \in [Machines -> {"absent", "deleted"} \cup Present]
      /\ pc[m] = "idle" /\ Turn /\ bridge /\ UNCHANGED <<iface, machine>>
  BY ConstantsAssumption DEF NetInv, TypeOK, ListsInv, RunGet
<1>2. m \notin Uids(stored)
  BY <1>1 DEF NetInv, MachinesInv, MachineInv
<1>3. PICK f \in Interface : f = [uid |-> m, name |-> None, ip |-> Static[serial][m]]
  <2>1. Static[serial][m] \in Addresses \cup {None}
    BY <1>1, ConstantsAssumption
  <2> QED BY <2>1 DEF Interface
<1>4. f.uid = m /\ f.name = None
  BY <1>3
<1>5. PICK s : s = Append(stored, f)
  OBVIOUS
<1>6. /\ s \in Seq(Interface) /\ Uids(s) = Uids(stored) \cup {m}
      /\ UidsDistinct(stored) => UidsDistinct(s)
      /\ NamesDistinct(stored) => NamesDistinct(s)
      /\ NamesFirst(stored) => NamesFirst(s)
      /\ \A x, j : Lists(stored, x, j) => Lists(s, x, j)
  BY <1>1, <1>2, <1>4, <1>5, AppendLists
<1>7. ListInv(s) /\ Edit(m, s)
  BY <1>1, <1>3, <1>5, <1>6 DEF ListInv, RunGet
<1>8. serial => bridge /\ pc[NetRm] \notin {"unlink", "delete"}
  BY <1>1 DEF Turn, Commands, Active
<1> QED BY <1>1, <1>6, <1>7, <1>8, EditKeeps

\* `kraft rm` and `kraft run --rm` begin without the machine's interface.
LEMMA WithdrawKeeps ==
    ASSUME NetInv, NEW m \in Machines, stored # None,
           RmList(m) \/ (RunCleanup(m) /\ Edit(m, Without(stored, m)))
    PROVE  NetInv'
<1>1. /\ stored \in Seq(Interface) /\ ListInv(stored)
      /\ machine \in [Machines -> {"absent", "deleted"} \cup Present]
      /\ Turn /\ Edit(m, Without(stored, m)) /\ UNCHANGED iface
      /\ machine[m] \in Present /\ (machine' = machine \/ machine' = [machine EXCEPT ![m] = "deleted"])
  BY DEF NetInv, TypeOK, ListsInv, RmList, RunCleanup, Present
<1>2. PICK s : s = Without(stored, m)
  OBVIOUS
<1>3. /\ s \in Seq(Interface) /\ Uids(s) \subseteq Uids(stored)
      /\ UidsDistinct(stored) => UidsDistinct(s)
      /\ NamesDistinct(stored) => NamesDistinct(s)
      /\ NamesFirst(stored) => NamesFirst(s)
      /\ \A x, j : x # m /\ Lists(stored, x, j) => Lists(s, x, j)
  BY <1>1, <1>2, WithoutLists
<1>4. ListInv(s) /\ Edit(m, s)
  BY <1>1, <1>2, <1>3 DEF ListInv
<1>5. serial => bridge /\ pc[NetRm] \notin {"unlink", "delete"}
  BY <1>1 DEF NetInv, RemovedInv
<1>6. /\ machine' \in [Machines -> {"absent", "deleted"} \cup Present]
      /\ machine'[m] # "absent" /\ \A x \in Machines \ {m} : machine'[x] = machine[x]
  BY <1>1 DEF Present
<1> QED BY <1>1, <1>3, <1>4, <1>5, <1>6, EditKeeps

\* A run stores Update's result and keeps its own interface, which has its link by then.
LEMMA SaveRunKeeps ==
    ASSUME NetInv, NEW m \in Machines, SaveRun(m) PROVE NetInv'
<1> m \in Commands /\ m # NetRm
  BY ConstantsAssumption DEF Commands
<1> USE CopyFacts
<1>1. /\ pc[m] = "save" /\ pc' = [pc EXCEPT ![m] = "create"] /\ pc'[m] = "create"
      /\ \A x \in Commands \ {m} : pc'[x] = pc[x]
      /\ stored' = found[m] /\ iface' = [iface EXCEPT ![m] = Own(found[m], m)] /\ machine[m] = "absent"
      /\ UNCHANGED <<bridge, tap, found, pos, doomed, disturbed, serial, machine>>
      /\ iface \in [Machines -> Interface \cup {None}]
  BY DEF SaveRun, Goto, copy, NetInv, TypeOK
<1>2. m \in Uids(found[m])
  BY <1>1, Phased DEF NetInv, MachinesInv, MachineInv
<1>3. PICK i \in 1 .. Len(found[m]) : Own(found[m], m) = found[m][i] /\ found[m][i].uid = m
  <2>1. \E f \in {found[m][k] : k \in 1 .. Len(found[m])} : f.uid = m
    BY <1>2 DEF Uids
  <2>2. Own(found[m], m) \in {found[m][k] : k \in 1 .. Len(found[m])} /\ Own(found[m], m).uid = m
    BY <2>1 DEF Own
  <2> QED BY <2>2
<1>4. iface'[m] = found[m][i] /\ iface' \in [Machines -> Interface \cup {None}]
      /\ \A x \in Machines \ {m} : iface'[x] = iface[x]
  BY <1>1, <1>3
<1>5. TypeOK'
  BY <1>1, <1>4, Phased DEF NetInv, TypeOK, Active
<1>6. Place(m)' /\ Loop(m)'
  BY SMT, <1>1, Ended
<1>7. ListInv(found[m])' /\ Others(m)
  BY <1>1 DEF ListInv, Others
<1>8. ListsInv' /\ PlacesInv' /\ AloneInv' /\ LoopInv'
  BY <1>1, <1>6, <1>7, StepKeeps, Phased
<1>9. MachinesInv'
  <2>1. MachineInv(m)'
    BY <1>1, Phased DEF MachineInv
  <2> QED BY <1>1, <2>1, MachinesKeep
<1>10. i \in Handled(m) /\ pc[m] \in Active /\ pc[m] \in Updating
  BY <1>1, Phased DEF Handled
<1>11. AttachedInv'
  <2> SUFFICES ASSUME serial, ~NetworkGoing', NEW x \in Machines, pc'[x] \in {"create", "attached"}
               PROVE  Attached(x)'
    BY <1>1 DEF AttachedInv
  <2>1. \A c \in Commands : pc'[c] \notin Updating
    BY <1>1, <1>10, Phased DEF NetInv, AloneInv
  <2>2. CASE x = m
    <3>1. found[m][i].name \in Names /\ tap[found[m][i].name] = m
      BY <1>3, <1>10 DEF Place, Loop
    <3>2. Lists(found[m], m, found[m][i].name)
      BY <1>3 DEF Lists
    <3> QED BY <1>1, <1>4, <2>1, <2>2, <3>1, <3>2 DEF Attached
  <2>3. CASE x # m
    <3>1. pc[x] = pc'[x] /\ ~NetworkGoing
      BY <1>1, <2>3 DEF NetworkGoing, Commands
    <3>2. Attached(x)
      BY <3>1 DEF NetInv, AttachedInv
    <3> QED BY <1>1, <1>4, <1>10, <2>1, <2>3, <3>2 DEF Attached
  <2> QED BY <2>2, <2>3
<1>12. RemovedInv'
  <2>1. pc'[NetRm] = pc[NetRm]
    BY <1>1 DEF Commands
  <2> QED BY <1>1, <1>10, <2>1 DEF NetInv, RemovedInv
<1> QED BY <1>5, <1>8, <1>9, <1>11, <1>12 DEF NetInv

\* A forced removal stores Update's result; it overlaps other commands.
LEMMA SaveForcedKeeps ==
    ASSUME NetInv, SaveForced PROVE NetInv'
<1> NetRm \in Commands
  BY DEF Commands
<1> USE CopyFacts
<1>1. /\ pc[NetRm] = "save" /\ pc' = [pc EXCEPT ![NetRm] = "unlink"] /\ pc'[NetRm] = "unlink"
      /\ stored' = found[NetRm] /\ pos' = [pos EXCEPT ![NetRm] = 1] /\ pos'[NetRm] = 1
      /\ UNCHANGED <<bridge, tap, found, doomed, disturbed, serial, iface, machine>>
  BY DEF SaveForced, Goto
<1>2. ~serial /\ ~serial'
  BY <1>1 DEF NetInv, RemovedInv
<1>3. TypeOK'
  <2>1. pos' \in [Commands -> Nat]
    BY SMT, <1>1
  <2> QED BY <1>1, <2>1, Phased DEF NetInv, TypeOK, Active
<1>4. Handled(NetRm)' = {} /\ pos'[NetRm] >= 1
  BY SMT, <1>1 DEF Handled
<1>5. Place(NetRm)' /\ Loop(NetRm)'
  BY <1>1, <1>4 DEF Place, Loop
<1>6. ListInv(found[NetRm])' /\ Others(NetRm) /\ pc[NetRm] \in Active
  BY <1>1 DEF ListInv, Others, Active, Updating
<1>7. ListsInv' /\ PlacesInv' /\ AloneInv' /\ LoopInv'
  BY <1>1, <1>5, <1>6, StepKeeps
<1>8. MachinesInv'
  BY <1>1, ConstantsAssumption, MachinesKeep
<1> QED BY <1>2, <1>3, <1>7, <1>8 DEF NetInv, AttachedInv, RemovedInv

\* `kraft net rm` begins: one at a time, no machine uses the network.
LEMMA NetRmBeginKeeps ==
    ASSUME NetInv, NetRmCheck \/ NetRmForce PROVE NetInv'
<1> NetRm \in Commands
  BY DEF Commands
<1>1. PICK l \in {"bridge", "unlink"} :
         /\ Begin(NetRm, stored) /\ Goto(NetRm, l) /\ UNCHANGED <<iface, machine>> /\ Turn /\ stored # None
         /\ serial => l = "unlink" /\ Users = {}
  BY DEF NetRmCheck, NetRmForce, Edit
<1>2. /\ pc \in [Commands -> Phases] /\ pc'[NetRm] = l /\ \A x \in Commands \ {NetRm} : pc'[x] = pc[x]
      /\ pc' = [pc EXCEPT ![NetRm] = l] /\ stored \in Seq(Interface) /\ ListInv(stored)
      /\ found \in [Commands -> Seq(Interface)] /\ found'[NetRm] = stored
      /\ \A x \in Commands \ {NetRm} : found'[x] = found[x]
      /\ found' \in [Commands -> Seq(Interface)]
      /\ pos \in [Commands -> Nat] /\ pos' = [pos EXCEPT ![NetRm] = 1]
      /\ UNCHANGED <<bridge, stored, tap, doomed, serial>>
  BY <1>1 DEF NetInv, TypeOK, ListsInv, Begin, Goto, net
<1>3. TypeOK'
  <2>1. disturbed' \subseteq Commands
    BY <1>1 DEF NetInv, TypeOK, Begin
  <2>2. pos' \in [Commands -> Nat]
    BY SMT, <1>2
  <2>3. pc' \in [Commands -> Phases]
    BY <1>2 DEF Phases, Active, Updating
  <2> QED BY <1>1, <1>2, <2>1, <2>2, <2>3 DEF NetInv, TypeOK
<1>4. ListsInv' /\ PlacesInv' /\ AloneInv' /\ LoopInv'
  BY <1>1, <1>2, BeginKeeps
<1>5. MachinesInv'
  <2>1. \A x \in Commands : \/ Uids(found'[x]) \subseteq Uids(found[x]) \cup {NetRm}
                            \/ stored # None /\ Uids(found'[x]) \subseteq Uids(stored) \cup {NetRm}
    BY <1>1, <1>2
  <2> QED BY <1>1, <1>2, <2>1, ConstantsAssumption, MachinesKeep
<1>6. AttachedInv'
  BY <1>1, <1>2 DEF AttachedInv, NetworkGoing
<1>7. RemovedInv'
  <2>1. serial => \A m \in Machines : machine'[m] \notin Present /\ pc'[m] \notin Active
    BY <1>1, <1>2, ConstantsAssumption DEF Turn, Users, Commands
  <2> QED BY <1>1, <1>2, <2>1 DEF RemovedInv
<1> QED BY <1>3, <1>4, <1>5, <1>6, <1>7 DEF NetInv

\* Deleting the links, the bridge and the record: no machine is left to miss them.
LEMMA DeleteKeeps ==
    ASSUME NetInv, DeleteTap \/ DeleteBridge \/ DeleteRecord PROVE NetInv'
<1> NetRm \in Commands /\ NetRm \notin Machines
  BY ConstantsAssumption DEF Commands
<1> USE CopyFacts
<1>1. CASE DeleteTap /\ Goto(NetRm, "failed") /\ UNCHANGED <<tap, pos>>
  <2>1. /\ pc[NetRm] = "unlink" /\ pc' = [pc EXCEPT ![NetRm] = "failed"] /\ pc'[NetRm] = "failed"
        /\ UNCHANGED <<bridge, tap, copy, iface, stored, machine>>
    BY <1>1 DEF DeleteTap, Goto, copy
  <2>2. Place(NetRm)' /\ Loop(NetRm)' /\ machine \in [Machines -> {"absent", "deleted"} \cup Present]
    BY SMT, <2>1, Ended DEF NetInv, TypeOK
  <2> QED BY <2>1, <2>2, QuietStep, Phased
<1>2. CASE \/ DeleteTap /\ UNCHANGED pc /\ pos' = [pos EXCEPT ![NetRm] = @ + 1]
           \/ DeleteBridge \/ DeleteRecord
  <2>1. PICK l \in {"unlink", "delete", "gone"} :
           /\ pc[NetRm] \in {"unlink", "delete"} /\ pc' = [pc EXCEPT ![NetRm] = l] /\ pc'[NetRm] = l
           /\ l = "gone" => bridge' = bridge
           /\ stored' \in {stored, None} /\ bridge' \in {bridge, FALSE}
           /\ UNCHANGED <<found, doomed, disturbed, serial, iface, machine>>
    <3>1. CASE DeleteTap /\ UNCHANGED pc /\ pos' = [pos EXCEPT ![NetRm] = @ + 1]
      <4>1. pc[NetRm] = "unlink" /\ pc' = [pc EXCEPT ![NetRm] = "unlink"] /\ pc'[NetRm] = "unlink"
        BY <3>1 DEF DeleteTap
      <4>2. UNCHANGED <<bridge, stored, found, doomed, disturbed, serial, iface, machine>>
        BY <3>1 DEF DeleteTap
      <4> QED BY <4>1, <4>2
    <3>2. CASE DeleteBridge
      BY <3>2 DEF DeleteBridge, Goto, copy
    <3>3. CASE DeleteRecord
      BY <3>3 DEF DeleteRecord, Goto, copy
    <3> QED BY <1>2, <3>1, <3>2, <3>3
  <2>2. tap' \in [Names -> Machines \cup {NoLink, NoAlias}]
    BY <1>2 DEF DeleteTap, DeleteBridge, DeleteRecord
  <2>3. pos' \in [Commands -> Nat] /\ (pc'[NetRm] = "unlink" => pos'[NetRm] >= 1)
        /\ \A x \in Commands \ {NetRm} : pos'[x] = pos[x]
    <3>1. CASE DeleteTap /\ UNCHANGED pc /\ pos' = [pos EXCEPT ![NetRm] = @ + 1]
      BY SMT, <3>1
    <3>2. CASE DeleteBridge
      BY <3>2 DEF DeleteBridge, Goto, copy
    <3>3. CASE DeleteRecord
      BY <3>3 DEF DeleteRecord, Goto, copy
    <3> QED BY <1>2, <3>1, <3>2, <3>3
  <2>4. TypeOK'
    BY <2>1, <2>2, <2>3, Phased DEF NetInv, TypeOK, Active
  <2>5. Place(NetRm)' /\ Loop(NetRm)'
    <3>1. Handled(NetRm)' = {}
      BY <2>1 DEF Handled
    <3> QED BY <2>1, <2>3, <3>1 DEF Place, Loop
  <2>6. ListInv(found[NetRm])' /\ Others(NetRm) /\ pc[NetRm] \in Active
    BY <2>1, <2>3 DEF ListInv, Others, Active
  <2>7. ListsInv' /\ PlacesInv' /\ AloneInv' /\ LoopInv'
    BY <2>1, <2>5, <2>6, StepKeeps
  <2>8. MachinesInv'
    BY <2>1, MachinesKeep
  <2>9. AttachedInv'
    BY <2>1 DEF AttachedInv, NetworkGoing
  <2>10. RemovedInv'
    <3>1. \A m \in Machines : pc'[m] = pc[m]
      BY <2>1 DEF Commands
    <3> QED BY <2>1, <3>1 DEF NetInv, RemovedInv
  <2> QED BY <2>4, <2>7, <2>8, <2>9, <2>10 DEF NetInv
<1> QED BY <1>1, <1>2 DEF DeleteTap

----------------------------------------------------------------------------
(* The invariant, and what follows from it.                                *)

\* The inductive invariant holds, however the commands interleave and fail.
THEOREM NetInvariant == Spec => []NetInv
<1>1. Init => NetInv
  <2> SUFFICES ASSUME Init PROVE NetInv
    OBVIOUS
  <2>1. <<>> \in Seq(Interface) /\ Len(<<>>) = 0 /\ 1 .. 0 = {}
    BY SMT
  <2>2. ListInv(<<>>) /\ Uids(<<>>) = {}
    BY <2>1 DEF ListInv, UidsDistinct, NamesDistinct, NamesFirst, Uids
  <2>3. TypeOK
    <3>1. stored \in Seq(Interface) /\ found \in [Commands -> Seq(Interface)] /\ pos \in [Commands -> Nat]
      BY SMT, <2>1 DEF Init
    <3>2. pc \in [Commands -> Phases]
      BY Phased DEF Init
    <3> QED BY <3>1, <3>2 DEF Init, TypeOK
  <2>4. ListsInv
    BY <2>2 DEF Init, ListsInv
  <2>5. ASSUME NEW c \in Commands PROVE Place(c) /\ Loop(c)
    <3>1. pc[c] = "idle"
      BY DEF Init
    <3>2. Handled(c) = {}
      BY <3>1 DEF Handled
    <3> QED BY <3>1, <3>2 DEF Place, Loop
  <2>6. PlacesInv /\ LoopInv
    BY <2>5 DEF PlacesInv, LoopInv
  <2>7. MachinesInv
    BY <2>2, Phased DEF Init, MachinesInv, MachineInv, Commands
  <2>8. AloneInv
    BY Phased DEF Init, AloneInv
  <2>9. AttachedInv /\ RemovedInv
    BY DEF Init, AttachedInv, RemovedInv, Commands
  <2> QED BY <2>3, <2>4, <2>6, <2>7, <2>8, <2>9 DEF NetInv
<1>2. NetInv /\ [Next]_vars => NetInv'
  <2> SUFFICES ASSUME NetInv, [Next]_vars PROVE NetInv'
    OBVIOUS
  <2>1. ASSUME NEW c \in Commands, Update(c) PROVE NetInv'
    BY <2>1, UpdateBridgeKeeps, UpdateIfaceKeeps, UpdateTapKeeps, UpdateAliasKeeps, UpdateLinksKeeps,
       UpdateCleanKeeps, UpdateDoneKeeps, UpdateEndKeeps DEF Update
  <2>2. ASSUME NEW m \in Machines, MachineNext(m) PROVE NetInv'
    <3>1. CASE RunCleanup(m)
      <4>1. \/ stored # None /\ Edit(m, Without(stored, m))
            \/ Goto(m, "failed") /\ UNCHANGED <<net, copy>>
        BY <3>1 DEF RunCleanup
      <4> QED BY <3>1, <4>1, WithdrawKeeps, MachineStepsKeep
    <3>2. CASE RmList(m)
      BY <3>2, WithdrawKeeps DEF RmList
    <3> QED BY <2>2, <3>1, <3>2, RunGetKeeps, SaveRunKeeps, MachineStepsKeep DEF MachineNext
  <2>3. CASE NetRmNext
    BY <2>3, NetRmBeginKeeps, SaveForcedKeeps, DeleteKeeps DEF NetRmNext
  <2>4. CASE UNCHANGED vars
    <3>1. UNCHANGED <<bridge, stored, tap, found, pos, doomed, disturbed, serial, pc, iface, machine>>
      BY <2>4 DEF vars
    <3>2. TypeOK' /\ ListsInv' /\ PlacesInv' /\ AloneInv' /\ LoopInv'
      BY SMT, <3>1 DEF NetInv, TypeOK, ListsInv, ListInv, PlacesInv, Place, Handled,
                         AloneInv, LoopInv, Loop, Aliased
    <3>3. MachinesInv' /\ AttachedInv' /\ RemovedInv'
      BY <3>1 DEF NetInv, MachinesInv, MachineInv, AttachedInv, NetworkGoing, Attached, RemovedInv
    <3> QED BY <3>2, <3>3 DEF NetInv
  <2> QED BY <2>1, <2>2, <2>3, <2>4 DEF Next
<1> QED BY <1>1, <1>2, PTL DEF Spec

\* Every variable keeps its type, for any constants.
THEOREM TypeCorrect == Spec => []TypeOK
<1>1. NetInv => TypeOK
  BY DEF NetInv
<1> QED BY <1>1, NetInvariant, PTL

\* An update that runs alone makes the kernel's taps agree with the list, whatever earlier
\* updates left behind (Update 305-441).
THEOREM Reconciles == Spec => []UpdateReconciles
<1>1. NetInv => UpdateReconciles
  <2> SUFFICES ASSUME NetInv, NEW c \in Commands, pc[c] = "save", c \notin disturbed
               PROVE  /\ {tap[j] : j \in Aliased} \subseteq Uids(found[c])
                      /\ \A i \in 1 .. Len(found[c]) :
                             IF serial THEN tap[found[c][i].name] = found[c][i].uid
                                       ELSE tap[found[c][i].name] # NoLink
    BY DEF UpdateReconciles
  <2> USE CopyFacts
  <2>1. Loop(c) /\ doomed[c] = {} /\ Handled(c) = 1 .. Len(found[c])
    BY DEF Loop, Handled
  <2>2. {tap[j] : j \in Aliased} \subseteq Uids(found[c])
    BY SMT, <2>1 DEF Loop
  <2>3. ASSUME NEW i \in 1 .. Len(found[c])
        PROVE  IF serial THEN tap[found[c][i].name] = found[c][i].uid ELSE tap[found[c][i].name] # NoLink
    BY SMT, <2>1 DEF Loop
  <2> QED BY <2>2, <2>3
<1> QED BY <1>1, NetInvariant, PTL

\* One command at a time, no command's failure or clean-up takes a machine's tap away
\* (Update 305-441).
THEOREM TapsKept == Spec => []AttachedTapKept
<1>1. NetInv => AttachedTapKept
  BY DEF NetInv, AttachedInv, Attached, AttachedTapKept
<1> QED BY <1>1, NetInvariant, PTL

\* Without --force `kraft net rm` takes the network from no machine (remove.go 92-102).
THEOREM RemovedUnused == Spec => []RemovedNetworkUnused
<1>1. NetInv => RemovedNetworkUnused
  BY Phased DEF NetInv, RemovedInv, RemovedNetworkUnused, Active
<1> QED BY <1>1, NetInvariant, PTL

============================================================================
