--------------------------- MODULE BridgeNetwork ---------------------------
(***************************************************************************)
(* One bridge network shared by several machines: the read-modify-write    *)
(* cycle in which `kraft run --network`, `kraft rm`, `kraft run --rm` and  *)
(* `kraft net rm` change its list of interfaces, and the driver's Update,  *)
(* which makes the kernel's tap links agree with that list.                *)
(*                                                                         *)
(* The network's record lives in the embedded store, its taps in the       *)
(* kernel.  A command reads the record, edits the copy, lets Update work   *)
(* through it and stores what Update returns; nothing locks the cycle.     *)
(***************************************************************************)
EXTENDS Naturals, Sequences

CONSTANTS Machines,    \* one `kraft run` each; a machine's interface has its UID
          NetRm,       \* the `kraft net rm` command
          Addresses,   \* host numbers of the subnet above the gateway's
          Names,       \* the j of the link names "<network>@if<j>"
          Static,      \* the address a run asks for in each mode, or None
          Failing,     \* the commands whose netlink calls may fail
          Modes,       \* TRUE: network commands are run one at a time; FALSE: they overlap
          Overlapping, \* the machines that are run when commands overlap
          None, NoLink, NoAlias

Commands == Machines \cup {NetRm}

ASSUME ConstantsAssumption ==
    /\ NetRm \notin Machines /\ None \notin Machines \cup Addresses \cup Names
    /\ NoLink # NoAlias /\ {NoLink, NoAlias} \cap Machines = {}
    /\ Addresses \subseteq Nat /\ Names \subseteq Nat
    /\ Static \in [BOOLEAN -> [Machines -> Addresses \cup {None}]]
    /\ Failing \subseteq Commands /\ Modes \subseteq BOOLEAN /\ Overlapping \subseteq Machines

VARIABLES
    bridge,   \* the bridge link exists
    stored,   \* the record's interfaces, or None when there is no record
    tap,      \* tap[j]: NoLink, NoAlias or the interface UID in the link's alias
    found,    \* a command's copy of the interfaces
    pos,      \* the interface its loop is at
    doomed,   \* the links it found to be of no listed interface
    disturbed,\* the commands another one has overlapped (history)
    serial,   \* how the user issues the commands; with --force only when they overlap
    pc,
    iface,    \* the interface recorded in a machine's Spec.Networks
    machine   \* the machine: absent, created, started, up, stopped, deleted

vars == <<bridge, stored, tap, found, pos, doomed, disturbed, serial, pc, iface, machine>>
net == <<bridge, stored, tap>>
copy == <<found, pos, doomed, disturbed, serial>>

Interface == [uid : Machines, name : Names \cup {None}, ip : Addresses \cup {None}]
Updating == {"bridge", "iface", "tap", "alias", "links", "clean", "save"}
Active == Updating \cup {"create", "unlink", "delete"}
Phases == {"idle", "attached", "gone", "failed"} \cup Active
Present == {"created", "started", "up", "stopped"}

\* The interfaces, the taps and the addresses at hand.
Uids(s) == {s[i].uid : i \in 1 .. Len(s)}
Own(s, m) == CHOOSE f \in {s[i] : i \in 1 .. Len(s)} : f.uid = m
Minimum(S) == CHOOSE x \in S : \A y \in S : x <= y
Without(s, m) ==
    LET own == {i \in 1 .. Len(s) : s[i].uid = m}
        k == Minimum(own)
    IN  IF own = {} THEN s ELSE SubSeq(s, 1, k - 1) \o SubSeq(s, k + 1, Len(s))
Aliased == {j \in Names : tap[j] \in Machines}
Answers(a) == \E m \in Machines : machine[m] = "up" /\ iface[m].ip = a
Seen == {iface[m].ip : m \in {x \in Machines : machine[x] \in {"up", "stopped"}}}

Turn == serial => \A c \in Commands : pc[c] \notin Active
Goto(c, l) == pc' = [pc EXCEPT ![c] = l]

Init ==
    /\ bridge = TRUE /\ stored = <<>> /\ tap = [j \in Names |-> NoLink]
    /\ found = [c \in Commands |-> <<>>] /\ pos = [c \in Commands |-> 0]
    /\ doomed = [c \in Commands |-> {}] /\ disturbed = {} /\ pc = [c \in Commands |-> "idle"]
    /\ iface = [m \in Machines |-> None]
    /\ machine = [m \in Machines |-> "absent"] /\ serial \in Modes

----------------------------------------------------------------------------
(* Reading the record                                                      *)

\* A command begins with the copy s.
Begin(c, s) ==
    LET others == {x \in Commands \ {c} : pc[x] \in Active}
    IN  /\ found' = [found EXCEPT ![c] = s] /\ pos' = [pos EXCEPT ![c] = 1]
        /\ disturbed' = IF others = {} THEN disturbed \ {c} ELSE disturbed \cup others \cup {c}
        /\ UNCHANGED <<net, doomed, serial>>
Edit(c, s) == Begin(c, s) /\ Goto(c, "bridge")

\* parseNetworks gets the network, which must have its bridge, and appends an
\* interface with a UID of its own.
RunGet(m) ==
    /\ pc[m] = "idle" /\ Turn /\ (serial \/ m \in Overlapping) /\ stored # None /\ bridge
    /\ Edit(m, Append(stored, [uid |-> m, name |-> None, ip |-> Static[serial][m]]))
    /\ UNCHANGED <<iface, machine>>

\* `kraft rm` lists the networks and drops the machine's interface.
RmList(m) ==
    /\ pc[m] = "attached" /\ machine[m] \in Present /\ Turn /\ stored # None
    /\ Edit(m, Without(stored, m))
    /\ UNCHANGED <<iface, machine>>

\* When the network is not listed `kraft rm` only warns, and deletes the machine.
RmListMissing(m) ==
    /\ pc[m] = "attached" /\ machine[m] \in Present /\ Turn /\ stored = None
    /\ Goto(m, "gone") /\ machine' = [machine EXCEPT ![m] = "deleted"]
    /\ UNCHANGED <<net, copy, iface>>

\* `kraft run --rm`, once the logs end, has stopped and deleted the machine
\* before it gets the network.
RunCleanup(m) ==
    /\ pc[m] = "attached" /\ machine[m] \in {"started", "up"} /\ Turn
    /\ machine' = [machine EXCEPT ![m] = "deleted"]
    /\ \/ stored # None /\ bridge /\ Edit(m, Without(stored, m))
       \/ ~(stored # None /\ bridge) /\ Goto(m, "failed") /\ UNCHANGED <<net, copy>>
    /\ UNCHANGED iface

----------------------------------------------------------------------------
(* The driver's Update                                                     *)

\* AllocateIP: the first address above the gateway that is neither a known
\* neighbour of the bridge nor answers a ping.
FreeAddresses(known) == {a \in Addresses : a \notin known /\ ~Answers(a)}

AllocateIP(known) == Minimum(FreeAddresses(known))


\* Variant of FreeName: the first name is not checked against the links.
FreeNameUnchecked == Minimum(Names)

FreeName == Minimum({j \in Names : tap[j] = NoLink})

UpdateBridge(c) ==
    /\ pc[c] = "bridge" /\ bridge
    /\ Goto(c, "iface") /\ UNCHANGED <<net, copy, iface, machine>>

\* An interface without a link name gets the first one no link has (Names bounds the
\* search); one without an address gets the first free one.
UpdateIface(c) ==
    /\ pc[c] = "iface" /\ pos[c] <= Len(found[c])
    /\ found[c][pos[c]].name = None => \E j \in Names : tap[j] = NoLink
    /\ LET f == found[c][pos[c]]
           name == IF f.name = None THEN FreeName ELSE f.name
       IN  \/ f.ip # None
              /\ found' = [found EXCEPT ![c][pos[c]].name = name]
           \/ f.ip = None
              /\ \E known \in SUBSET Seen :
                    /\ FreeAddresses(known) # {}
                    /\ found' = [found EXCEPT ![c][pos[c]].name = name,
                                              ![c][pos[c]].ip = AllocateIP(known)]
    /\ Goto(c, "tap")
    /\ UNCHANGED <<net, pos, doomed, disturbed, serial, iface, machine>>

\* A link that has the name is taken over, otherwise one is added.
UpdateTap(c) ==
    /\ pc[c] = "tap" /\ Goto(c, "alias")
    /\ LET j == found[c][pos[c]].name
       IN tap' = [tap EXCEPT ![j] = IF @ = NoLink THEN NoAlias ELSE @]
    /\ UNCHANGED <<bridge, stored, copy, iface, machine>>

\* Variant of UpdateAlias: the link is used under the alias it has.
UpdateAliasKept(c) ==
    /\ pc[c] = "alias" /\ tap[found[c][pos[c]].name] # NoLink
    /\ pos' = [pos EXCEPT ![c] = @ + 1] /\ Goto(c, "iface")
    /\ UNCHANGED <<net, found, doomed, disturbed, serial, iface, machine>>

\* The alias names the network and the interface; an error if the link is gone.
UpdateAlias(c) ==
    /\ pc[c] = "alias"
    /\ LET j == found[c][pos[c]].name
       IN /\ tap[j] # NoLink
          /\ tap' = [tap EXCEPT ![j] = found[c][pos[c]].uid]
    /\ pos' = [pos EXCEPT ![c] = @ + 1] /\ Goto(c, "iface")
    /\ UNCHANGED <<bridge, stored, found, doomed, disturbed, serial, iface, machine>>

\* LinkList: the taps of this network whose alias is of no listed interface.
UpdateLinks(c) ==
    /\ pc[c] = "iface" /\ pos[c] > Len(found[c])
    /\ doomed' = [doomed EXCEPT ![c] = {j \in Aliased : tap[j] \notin Uids(found[c])}]
    /\ Goto(c, "clean")
    /\ UNCHANGED <<net, found, pos, disturbed, serial, iface, machine>>

\* The link is set down and deleted; an error if it is gone.
UpdateClean(c) ==
    /\ pc[c] = "clean"
    /\ \E j \in doomed[c] :
          /\ tap[j] # NoLink
          /\ tap' = [tap EXCEPT ![j] = NoLink]
          /\ doomed' = [doomed EXCEPT ![c] = @ \ {j}]
    /\ UNCHANGED <<bridge, stored, found, pos, disturbed, serial, pc, iface, machine>>

UpdateDone(c) ==
    /\ pc[c] = "clean" /\ doomed[c] = {} /\ Goto(c, "save")
    /\ UNCHANGED <<net, copy, iface, machine>>

----------------------------------------------------------------------------
(* Storing the result, and what the command does next                      *)

\* Update's result replaces the record.  A run keeps its own interface for the
\* machine's spec.
SaveRun(m) ==
    /\ pc[m] = "save" /\ machine[m] = "absent"
    /\ stored' = found[m] /\ iface' = [iface EXCEPT ![m] = Own(found[m], m)]
    /\ Goto(m, "create")
    /\ UNCHANGED <<bridge, tap, copy, machine>>

\* `kraft rm` then stops the machine if it runs and deletes it.
SaveRm(m) ==
    /\ pc[m] = "save" /\ machine[m] # "absent"
    /\ stored' = found[m] /\ machine' = [machine EXCEPT ![m] = "deleted"]
    /\ Goto(m, "gone")
    /\ UNCHANGED <<bridge, tap, copy, iface>>

\* `kraft net rm --force` goes on to Delete.
SaveForced ==
    /\ pc[NetRm] = "save" /\ stored' = found[NetRm]
    /\ pos' = [pos EXCEPT ![NetRm] = 1] /\ Goto(NetRm, "unlink")
    /\ UNCHANGED <<bridge, tap, found, doomed, disturbed, serial, iface, machine>>

\* `kraft rm` deletes the machine whatever became of the update.
Discarded(c) == IF c \in Machines /\ machine[c] \in Present
                THEN [machine EXCEPT ![c] = "deleted"] ELSE machine

\* A netlink call fails, or the command is killed; the store may keep the copy
\* Update had reached.
UpdateFails(c) ==
    /\ pc[c] \in Updating /\ c \in Failing
    /\ stored' \in {stored, found[c]} /\ machine' \in {machine, Discarded(c)}
    /\ Goto(c, "failed")
    /\ UNCHANGED <<bridge, tap, copy, iface>>

\* The errors that need no fault: the bridge, the link or every address is gone.
UpdateRefused(c) ==
    /\ \/ pc[c] = "bridge" /\ ~bridge
       \/ pc[c] = "iface" /\ pos[c] <= Len(found[c])
          /\ found[c][pos[c]].ip = None /\ FreeAddresses(Seen) = {}
       \/ pc[c] = "alias" /\ tap[found[c][pos[c]].name] = NoLink
       \/ pc[c] = "clean" /\ \E j \in doomed[c] : tap[j] = NoLink
    /\ stored' \in {stored, found[c]} /\ machine' = Discarded(c)
    /\ Goto(c, "failed")
    /\ UNCHANGED <<bridge, tap, copy, iface>>

----------------------------------------------------------------------------
(* The machine                                                             *)

MachineStep(m, from, to) ==
    /\ machine[m] \in from /\ machine' = [machine EXCEPT ![m] = to]
    /\ UNCHANGED <<net, copy, iface>>

\* `kraft run` records the machine; it may die before that.
MachineCreate(m) == pc[m] = "create" /\ Goto(m, "attached") /\ MachineStep(m, {"absent"}, "created")
RunKilled(m) ==
    /\ pc[m] = "create" /\ m \in Failing /\ Goto(m, "failed")
    /\ UNCHANGED <<net, copy, iface, machine>>

\* The VMM opens the tap by its name; once the guest is up it answers pings.
MachineStart(m) ==
    /\ pc[m] = "attached" /\ tap[iface[m].name] # NoLink
    /\ MachineStep(m, {"created", "stopped"}, "started") /\ UNCHANGED pc
GuestUp(m) == MachineStep(m, {"started"}, "up") /\ UNCHANGED pc
MachineStop(m) == MachineStep(m, {"started", "up"}, "stopped") /\ UNCHANGED pc

----------------------------------------------------------------------------
(* kraft net rm                                                            *)

\* Variant of Users: only the machines that run count.
UsersRunning == {m \in Machines : machine[m] \in {"started", "up"}}

Users == {m \in Machines : machine[m] \in Present}

\* Without --force a network that a listed machine uses is not removed.
NetRmCheck ==
    /\ pc[NetRm] = "idle" /\ Turn /\ serial /\ stored # None /\ Users = {}
    /\ Begin(NetRm, stored) /\ Goto(NetRm, "unlink") /\ UNCHANGED <<iface, machine>>

\* With --force the users are only warned about, and the network, whose spec the
\* store fills in, is updated first.
NetRmForce ==
    /\ pc[NetRm] = "idle" /\ Turn /\ ~serial /\ stored # None
    /\ Edit(NetRm, stored) /\ UNCHANGED <<iface, machine>>

\* Delete removes the links of the listed interfaces, each of which must be there
\* and must not answer; then the bridge; then the store drops the record.
Removable(f) == f.name # None /\ tap[f.name] # NoLink /\ ~Answers(f.ip)
DeleteTap ==
    /\ pc[NetRm] = "unlink" /\ pos[NetRm] <= Len(found[NetRm])
    /\ LET f == found[NetRm][pos[NetRm]]
       IN \/ /\ Removable(f) /\ tap' = [tap EXCEPT ![f.name] = NoLink]
             /\ pos' = [pos EXCEPT ![NetRm] = @ + 1] /\ UNCHANGED pc
          \/ ~Removable(f) /\ Goto(NetRm, "failed") /\ UNCHANGED <<tap, pos>>
    /\ UNCHANGED <<bridge, stored, found, doomed, disturbed, serial, iface, machine>>
DeleteBridge ==
    /\ pc[NetRm] = "unlink" /\ pos[NetRm] > Len(found[NetRm])
    /\ bridge /\ bridge' = FALSE /\ Goto(NetRm, "delete")
    /\ UNCHANGED <<stored, tap, copy, iface, machine>>
DeleteRecord ==
    /\ pc[NetRm] = "delete" /\ stored' = None /\ Goto(NetRm, "gone")
    /\ UNCHANGED <<bridge, tap, copy, iface, machine>>

Update(c) ==
    \/ UpdateBridge(c) \/ UpdateIface(c) \/ UpdateTap(c) \/ UpdateAlias(c)
    \/ UpdateLinks(c) \/ UpdateClean(c) \/ UpdateDone(c)
    \/ UpdateFails(c) \/ UpdateRefused(c)

MachineNext(m) ==
    \/ RunGet(m) \/ RmList(m) \/ RmListMissing(m) \/ RunCleanup(m)
    \/ SaveRun(m) \/ SaveRm(m) \/ MachineCreate(m) \/ RunKilled(m)
    \/ MachineStart(m) \/ GuestUp(m) \/ MachineStop(m)

NetRmNext == NetRmCheck \/ NetRmForce \/ SaveForced \/ DeleteTap \/ DeleteBridge \/ DeleteRecord

Next == (\E c \in Commands : Update(c)) \/ (\E m \in Machines : MachineNext(m)) \/ NetRmNext

Spec == Init /\ [][Next]_vars

----------------------------------------------------------------------------
(* Properties                                                              *)

\* Every variable keeps its type.
TypeOK ==
    /\ bridge \in BOOLEAN /\ tap \in [Names -> Machines \cup {NoLink, NoAlias}]
    /\ stored = None \/ stored \in Seq(Interface)
    /\ found \in [Commands -> Seq(Interface)] /\ pos \in [Commands -> Nat]
    /\ doomed \in [Commands -> SUBSET Names] /\ disturbed \subseteq Commands /\ serial \in Modes
    /\ pc \in [Commands -> Phases]
    /\ iface \in [Machines -> Interface \cup {None}]
    /\ machine \in [Machines -> {"absent", "deleted"} \cup Present]

NetworkGoing == pc[NetRm] \in {"unlink", "delete", "gone", "failed"}

\* A machine that nobody is removing keeps its tap: from the end of its run's
\* update on, the link its spec names exists and carries its interface's alias,
\* whatever other commands add, fail to add or clean up, one command at a time
\* (Update 305-441).
AttachedTapKept ==
    \A m \in Machines :
        serial /\ pc[m] \in {"create", "attached"} /\ ~NetworkGoing => tap[iface[m].name] = m

\* However earlier updates failed or overlapped, an update that runs alone leaves no
\* tap of an unlisted interface and no listed interface without a link; when none
\* overlapped, each listed interface has a tap of its own (Update 305-441).  (Two
\* that overlapped may have been recorded with one link name.)
UpdateReconciles ==
    \A c \in Commands :
        pc[c] = "save" /\ c \notin disturbed =>
            /\ {tap[j] : j \in Aliased} \subseteq Uids(found[c])
            /\ \A i \in 1 .. Len(found[c]) :
                   IF serial THEN tap[found[c][i].name] = found[c][i].uid
                             ELSE tap[found[c][i].name] # NoLink

\* Without --force a network is not taken from a machine that has it: once its
\* bridge is gone no machine can be attached to it.
RemovedNetworkUnused ==
    ~bridge /\ serial => \A m \in Machines : pc[m] # "create" /\ machine[m] \notin Present

============================================================================
