------------------------------ MODULE Compose ------------------------------
(***************************************************************************)
(* `kraft compose`: the commands that bring a project of services up and   *)
(* down.  One command runs at a time.  Every command lists the machines    *)
(* once and works from that list, while machines exit under it; any call   *)
(* it makes may fail.  Between two commands the compose file is edited and *)
(* machines are removed with `kraft rm`.                                   *)
(*                                                                         *)
(* A machine is named by its service: the container name of a service is   *)
(* its own.  It equals the name of the service for those of OwnNamed, and  *)
(* is prefixed by the project for the others.                              *)
(***************************************************************************)
EXTENDS Naturals, Sequences, FiniteSets, Functions

CONSTANTS
    Services,
    Required,    \* service -> the services it depends on with `required`
    Files,       \* the compose files: sets of services, closed under Required
    Selections,  \* the sets of services a command line names
    VisitAll(_, _, _),  \* what the visit of a set of services appends, by ServiceOrder
    OwnNamed,    \* the services with a container_name equal to their name
    Networks,    \* the networks of the project; every service is on all of them
    Volumes,
    Size,        \* the addresses of the subnet are 0..Size-1; 0 is the subnet's own
    Gateway,
    Static,      \* service -> its ipv4_address, or None
    None

\* compose-go refuses a file whose dependencies are cyclic.
ASSUME ServicesAssumption ==
    /\ IsFiniteSet(Services) /\ Required \in [Services -> SUBSET Services]
    /\ \E rank \in [Services -> 0 .. Cardinality(Services)] :
           \A s \in Services : \A d \in Required[s] : rank[d] < rank[s]
    /\ Files \subseteq SUBSET Services /\ \A f \in Files : \A s \in f : Required[s] \subseteq f
    /\ OwnNamed \subseteq Services /\ Selections \subseteq SUBSET Services
    /\ IsFiniteSet(Networks) /\ IsFiniteSet(Volumes)

\* The services of a set that depend on each service.
Dependants(S) == [s \in Services |-> {t \in S : s \in Required[t]}]

\* What the visit of a service appends: a loop over what comes first, and the service.
Visit(edge, s, added) == {Append(q, s) : q \in VisitAll(edge, edge[s], added \cup {s})}

\* A loop over S that visits those that have not been added: some s first, and then the rest.
Round(edge, S, added, s) ==
    UNION {{p \o q : q \in VisitAll(edge, S \ {s}, added \cup Range(p))} :
           p \in IF s \in added THEN {<<>>} ELSE Visit(edge, s, added)}
Loop(edge, S, added) == IF S = {} THEN {<<>>} ELSE UNION {Round(edge, S, added, s) : s \in S}

ASSUME VisitAssumption ==
    \A edge \in {Required} \cup {Dependants(F) : F \in SUBSET Services} :
        \A S, added \in SUBSET Services : VisitAll(edge, S, added) = Loop(edge, S, added)

\* Called with expand: the dependencies that are not among services are added.
ServicesOrderedByDependencies(services) == VisitAll(Required, services, {})

\* Called without expand.
ServicesReversedByDependencies(services) == VisitAll(Dependants(services), services, {})

ASSUME AddressAssumption ==
    /\ Size \in Nat /\ Gateway \in 0..Size-1 /\ None \notin Nat
    /\ Static \in [Services -> (0..Size-1) \cup {None}]

States == {"absent", "created", "running", "paused", "exited"}
Addresses == (0..Size-1) \cup {None}
Project == [machines : SUBSET Services, resources : SUBSET (Networks \cup Volumes)]

VARIABLES
    file,            \* the services in the compose file
    machine,         \* the state of every machine
    exists,          \* the networks and volumes that exist
    record,          \* the project in the store
    op, args,        \* the running command and the services it names
    pc,
    detach,
    usedAddresses,   \* AssignIPs: service -> the address it has found
    seen,            \* the list of machines
    todo,            \* the machines, networks and volumes still to be handled
    project,         \* projectMachines, projectNetworks and projectVolumes
    started, removed, undeleted, lost   \* history; see the properties

cmdVars == <<op, args, detach>>
store == <<machine, exists, record>>
history == <<started, removed, undeleted, lost>>
vars == <<file, store, cmdVars, pc, usedAddresses, seen, todo, project, history>>

NoMachines == [s \in Services |-> "absent"]
NoAddresses == [s \in Services |-> None]
NoProject == [machines |-> {}, resources |-> {}]

\* A set in any order, as a map is iterated.
Orders(S) == {q \in [1..Cardinality(S) -> S] : Range(q) = S}

\* start, stop and down collect machines from the list before they act on any: the first of
\* todo that was listed in one of these states, what is behind it, and whether there is none.
Foremost(i, states) == seen[todo[i]] \in states /\ \A j \in 1..i-1 : seen[todo[j]] \notin states
Behind(i) == SubSeq(todo, i + 1, Len(todo))
Exhausted(states) == \A i \in 1..Len(todo) : seen[todo[i]] \notin states

----------------------------------------------------------------------------
Init ==
    /\ file \in Files /\ machine = NoMachines
    /\ exists = {} /\ record = NoProject
    /\ op = "none" /\ args = {} /\ detach = TRUE /\ pc = "idle"
    /\ usedAddresses = NoAddresses /\ seen = NoMachines /\ todo = <<>> /\ project = NoProject
    /\ started = {} /\ removed = {} /\ undeleted = {} /\ lost = FALSE

\* The user runs a command, on some services or on all; up and down take none.
Run(command, services, det) ==
    /\ pc = "idle" /\ op' = command /\ args' = services /\ detach' = det
    /\ pc' = IF command \in {"create", "up"} THEN "assign" ELSE "list"
    /\ usedAddresses' = [s \in Services |-> IF s \in file THEN Static[s] ELSE None]
    /\ UNCHANGED <<file, store, seen, todo, project, history>>

\* What the command keeps in memory goes away with it.
End ==
    /\ pc' = "idle" /\ op' = "none" /\ args' = {} /\ detach' = TRUE /\ seen' = NoMachines
    /\ usedAddresses' = NoAddresses /\ todo' = <<>> /\ project' = NoProject
    /\ started' = {} /\ removed' = {} /\ undeleted' = {}

\* A call fails and the command returns its error.
Fail ==
    /\ pc \notin {"idle", "stop"} /\ End
    /\ lost' = (lost \/ ~(project.machines \subseteq record.machines /\ project.resources \subseteq record.resources))
    /\ UNCHANGED <<file, store>>

----------------------------------------------------------------------------
(* compose create, and the first half of compose up.                       *)

\* Variant of Taken: the addresses assigned so far are not looked at.
TakenStatic == {0, Gateway} \cup {Static[s] : s \in file}

Taken == {0, Gateway} \cup {usedAddresses[s] : s \in Services}

\* AssignIPs, the goroutine of one service, under the mutex.  Fails when no address is free.
AssignIP(s) ==
    /\ pc = "assign" /\ s \in file /\ usedAddresses[s] = None
    /\ \E ip \in 0..Size-1 :
        /\ ip \notin Taken /\ \A i \in 0..ip-1 : i \in Taken
        /\ usedAddresses' = [usedAddresses EXCEPT ![s] = ip]
    /\ UNCHANGED <<file, store, cmdVars, pc, seen, todo, project, history>>

Assigned == pc = "assign" /\ \A s \in file : usedAddresses[s] # None

\* remove.Run: Stop if the machine runs, then Delete; the errors of both are only logged.
RemoveMachine(s, ok) ==
    /\ machine[s] # "absent"
    /\ \/ ok /\ machine' = [machine EXCEPT ![s] = "absent"]
       \/ ~ok /\ machine[s] = "running" /\ machine' = [machine EXCEPT ![s] = "exited"]
       \/ ~ok /\ UNCHANGED machine
    /\ undeleted' = IF ok THEN undeleted ELSE undeleted \cup {s}
    /\ removed' = removed \cup {s}

\* RemoveOrphans: the machine names are compared with the service names.
Orphans == {s \in record.machines : machine[s] = "running" /\ ~(s \in file /\ s \in OwnNamed)}

\* Create, up and down with --remove-orphans.  remove.Run looks at its first argument only.
RemoveOrphans(s, ok) ==
    /\ Assigned \/ (op = "down" /\ pc = "list")
    /\ s \in Orphans /\ RemoveMachine(s, ok) /\ pc' = "get"
    /\ UNCHANGED <<file, exists, record, cmdVars, usedAddresses, seen, todo, project, started, lost>>

\* v1Compose.Get: of what the project has recorded, what still exists.
Refreshed ==
    [machines |-> {s \in record.machines : machine[s] # "absent"},
     resources |-> record.resources \cap exists]

\* Run without --remove-orphans, or without orphans, goes on here.  (The addresses found are
\* arguments of the machines created, and not followed further.)
GetProject ==
    /\ Assigned \/ (pc = "get" /\ op # "down")
    /\ project' = Refreshed /\ pc' = "net" /\ usedAddresses' = NoAddresses
    /\ \E q \in Orders(Networks \ exists), r \in Orders(Volumes \ exists) : todo' = q \o r
    /\ UNCHANGED <<file, store, cmdVars, seen, history>>

\* A network that is not up after its creation is not recorded.
CreateResource(up) ==
    /\ pc = "net" /\ todo # <<>> /\ Head(todo) \notin exists
    /\ up \/ Head(todo) \in Networks
    /\ exists' = exists \cup {Head(todo)} /\ todo' = Tail(todo)
    /\ project' = IF up THEN [project EXCEPT !.resources = @ \cup {Head(todo)}] ELSE project
    /\ lost' = (lost \/ ~up)
    /\ UNCHANGED <<file, machine, record, cmdVars, pc, usedAddresses, seen, started, removed, undeleted>>

ListToCreate ==
    /\ pc = "net" /\ todo = <<>> /\ pc' = "create" /\ seen' = machine
    /\ todo' \in ServicesOrderedByDependencies(args)
    /\ UNCHANGED <<file, store, cmdVars, usedAddresses, project, history>>

AlreadyCreated ==
    /\ pc = "create" /\ todo # <<>> /\ seen[Head(todo)] \in {"running", "created"} /\ todo' = Tail(todo)
    /\ UNCHANGED <<file, store, cmdVars, pc, usedAddresses, seen, project, history>>

\* A machine in any other state is removed, and made anew.
RemoveOld(ok) ==
    /\ pc = "create" /\ todo # <<>> /\ seen[Head(todo)] \in {"exited", "paused"} /\ RemoveMachine(Head(todo), ok)
    /\ seen' = [seen EXCEPT ![Head(todo)] = "absent"] /\ lost' = (lost \/ ~ok)
    /\ project' = [project EXCEPT !.machines = @ \ {Head(todo)}]
    /\ UNCHANGED <<file, exists, record, cmdVars, pc, usedAddresses, todo, started>>

\* createService makes the machine, or finds its name in use and logs that.
CreateService ==
    /\ pc = "create" /\ todo # <<>> /\ seen[Head(todo)] = "absent" /\ todo' = Tail(todo)
    /\ LET s == Head(todo) IN
       IF machine[s] = "absent"
       THEN /\ machine' = [machine EXCEPT ![s] = "created"]
            /\ project' = [project EXCEPT !.machines = @ \cup {s}]
       ELSE UNCHANGED <<machine, project>>
    /\ UNCHANGED <<file, exists, record, cmdVars, pc, usedAddresses, seen, history>>

StartNext ==
    /\ pc' = "list" /\ project' = NoProject /\ usedAddresses' = NoAddresses /\ seen' = NoMachines
    /\ UNCHANGED <<cmdVars, todo, started, removed, undeleted>>

\* Variant of UpdateProject: only the machines are recorded.
UpdateProjectMachines ==
    /\ pc = "create" /\ todo = <<>> /\ record' = [project EXCEPT !.resources = record.resources]
    /\ IF op = "up" THEN StartNext ELSE End
    /\ UNCHANGED <<file, machine, exists, lost>>

\* composeController.Update; up goes on with compose start.
UpdateProject ==
    /\ pc = "create" /\ todo = <<>> /\ record' = project
    /\ IF op = "up" THEN StartNext ELSE End
    /\ UNCHANGED <<file, machine, exists, lost>>

----------------------------------------------------------------------------
(* compose start and unpause, the second half of compose up.               *)

\* Variant of Startable: a machine that has exited is left.
StartableCreated == {"created"}

Startable == IF op = "unpause" THEN {"paused"} ELSE {"created", "exited"}

\* Variant of ListToStart: the dependants come first.
ListToStartReversed ==
    /\ pc = "list" /\ op \in {"up", "start", "unpause"} /\ pc' = "start" /\ seen' = machine
    /\ todo' \in ServicesReversedByDependencies(args)
    /\ UNCHANGED <<file, store, cmdVars, usedAddresses, project, history>>

ListToStart ==
    /\ pc = "list" /\ op \in {"up", "start", "unpause"} /\ pc' = "start" /\ seen' = machine
    /\ todo' \in ServicesOrderedByDependencies(args)
    /\ UNCHANGED <<file, store, cmdVars, usedAddresses, project, history>>

StartMachine(i) ==
    /\ pc = "start" /\ Foremost(i, Startable) /\ machine[todo[i]] # "absent"
    /\ machine' = [machine EXCEPT ![todo[i]] = "running"] /\ started' = started \cup {todo[i]}
    /\ todo' = Behind(i)
    /\ UNCHANGED <<file, exists, record, cmdVars, pc, usedAddresses, seen, project, removed, undeleted, lost>>

Started ==
    /\ pc = "start" /\ Exhausted(Startable)
    /\ IF op = "up" /\ ~detach
       THEN pc' = "logs" /\ UNCHANGED <<cmdVars, usedAddresses, seen, todo, project, started, removed, undeleted>>
       ELSE End
    /\ UNCHANGED <<file, store, lost>>

\* The logs are followed until they end or the user interrupts; then compose stop.
StopFollowing ==
    /\ pc = "logs" /\ pc' = "list" /\ op' = "stop"
    /\ UNCHANGED <<file, store, args, detach, usedAddresses, seen, todo, project, history>>

----------------------------------------------------------------------------
(* compose stop, pause and down.                                           *)

Stoppable == IF op = "pause" THEN {"running"} ELSE {"running", "paused"}

ListToStop ==
    /\ pc = "list" /\ op \in {"stop", "pause"} /\ pc' = "stop" /\ seen' = machine
    /\ todo' \in ServicesReversedByDependencies(args)
    /\ UNCHANGED <<file, store, cmdVars, usedAddresses, project, history>>

\* stop.Run and pause.Run go through the machines in the order of the store, and log errors.
StopMachine(i, ok) ==
    /\ pc = "stop" /\ seen[todo[i]] \in Stoppable /\ todo' = SubSeq(todo, 1, i - 1) \o Behind(i)
    /\ machine' = IF ok /\ machine[todo[i]] \in Stoppable
                    THEN [machine EXCEPT ![todo[i]] = IF op = "pause" THEN "paused" ELSE "exited"] ELSE machine
    /\ UNCHANGED <<file, exists, record, cmdVars, pc, usedAddresses, seen, project, history>>

Stopped ==
    /\ pc = "stop" /\ Exhausted(Stoppable) /\ End /\ UNCHANGED <<file, store, lost>>

\* Variant of Removable: only machines that run.
RemovableRunning == {"running"}

Removable == States \ {"absent"}

ListToRemove ==
    /\ pc \in {"list", "get"} /\ op = "down" /\ pc' = "down" /\ seen' = machine
    /\ todo' \in ServicesReversedByDependencies(file)
    /\ UNCHANGED <<file, store, cmdVars, usedAddresses, project, history>>

RemoveService(i, ok) ==
    /\ pc = "down" /\ Foremost(i, Removable) /\ RemoveMachine(todo[i], ok) /\ todo' = Behind(i)
    /\ UNCHANGED <<file, exists, record, cmdVars, pc, usedAddresses, seen, project, started, lost>>

ListNetworks ==
    /\ pc = "down" /\ Exhausted(Removable) /\ pc' = "netrm" /\ todo' \in Orders(Networks \cap exists)
    /\ UNCHANGED <<file, store, cmdVars, usedAddresses, seen, project, history>>

\* net rm fails when a machine, of this project or left over, is on the network.
RemoveNetwork ==
    /\ pc = "netrm" /\ todo # <<>> /\ \A s \in Services : machine[s] = "absent"
    /\ exists' = exists \ {Head(todo)} /\ todo' = Tail(todo)
    /\ UNCHANGED <<file, machine, record, cmdVars, pc, usedAddresses, seen, project, history>>

Down ==
    /\ pc = "netrm" /\ todo = <<>> /\ End /\ UNCHANGED <<file, store, lost>>

----------------------------------------------------------------------------
(* The world outside.                                                      *)

MachineExits(s) ==
    /\ machine[s] = "running" /\ machine' = [machine EXCEPT ![s] = "exited"]
    /\ UNCHANGED <<file, exists, record, cmdVars, pc, usedAddresses, seen, todo, project, history>>

KraftRm(s) ==
    /\ pc = "idle" /\ machine[s] # "absent" /\ machine' = [machine EXCEPT ![s] = "absent"]
    /\ UNCHANGED <<file, exists, record, cmdVars, pc, usedAddresses, seen, todo, project, history>>

EditFile ==
    /\ pc = "idle" /\ file' \in Files \ {file}
    /\ UNCHANGED <<store, cmdVars, pc, usedAddresses, seen, todo, project, history>>

Next ==
    \/ \E c \in {"create", "start", "stop", "pause", "unpause"}, services \in Selections \cup {file} :
        services \subseteq file /\ Run(c, services, TRUE)
    \/ \E det \in BOOLEAN : Run("up", file, det)
    \/ Run("down", file, TRUE) \/ Fail
    \/ \E s \in Services : AssignIP(s) \/ MachineExits(s) \/ KraftRm(s)
    \/ \E s \in Services, ok \in BOOLEAN : RemoveOrphans(s, ok)
    \/ GetProject \/ ListToCreate \/ AlreadyCreated \/ CreateService \/ UpdateProject
    \/ \E ok \in BOOLEAN : CreateResource(ok) \/ RemoveOld(ok)
    \/ \E i \in 1..Len(todo) : StartMachine(i)
    \/ \E i \in 1..Len(todo), ok \in BOOLEAN : StopMachine(i, ok) \/ RemoveService(i, ok)
    \/ ListToStart \/ Started \/ StopFollowing \/ ListToStop \/ Stopped
    \/ ListToRemove \/ ListNetworks \/ RemoveNetwork \/ Down \/ EditFile

Spec == Init /\ [][Next]_vars

----------------------------------------------------------------------------
(* Every variable keeps its type: a machine has a state of the API, and     *)
(* what a command works through are services, networks and volumes.        *)
TypeOK ==
    /\ file \in Files /\ machine \in [Services -> States]
    /\ exists \subseteq Networks \cup Volumes
    /\ record \in Project /\ project \in Project
    /\ op \in {"none", "create", "up", "start", "stop", "pause", "unpause", "down"}
    /\ args \in SUBSET Services /\ detach \in BOOLEAN
    /\ pc \in {"idle", "assign", "get", "net", "create", "list", "start", "logs", "stop", "down", "netrm"}
    /\ usedAddresses \in [Services -> Addresses] /\ seen \in [Services -> States]
    /\ todo \in Seq(Services \cup Networks \cup Volumes)
    /\ started \subseteq Services /\ removed \subseteq Services /\ undeleted \subseteq Services
    /\ lost \in BOOLEAN

(* AssignIPs: an address that is assigned is not the network's, not the     *)
(* gateway's and not that of another service, whatever order the            *)
(* goroutines run in.                                                       *)
AddressesDistinct ==
    \A s \in Services : Static[s] = None /\ usedAddresses[s] # None =>
        /\ usedAddresses[s] \notin {0, Gateway}
        /\ \A t \in Services \ {s} : usedAddresses[t] # usedAddresses[s]

(* A machine is started only after every machine of a required dependency  *)
(* that was found startable, the dependencies that the command line does   *)
(* not name included; and down removes one only after the machines that    *)
(* depend on it.                                                            *)
DependencyOrder ==
    [][\A s \in Services :
        /\ machine[s] # "running" /\ machine'[s] = "running" =>
              \A d \in Required[s] : d \in started \/ seen[d] \notin Startable
        /\ pc = "down" /\ s \in removed' \ removed =>
              \A t \in file : s \in Required[t] => t \in removed \/ seen[t] = "absent"]_vars

(* Up: once it has nothing left to start, it has found every service of    *)
(* the file running or has started it, whatever state the project was in   *)
(* and whatever exited meanwhile; save where Delete failed to make room.   *)
UpStartsAll ==
    pc = "start" /\ op = "up" /\ Exhausted(Startable) =>
        \A s \in file : s \in started \/ seen[s] = "running" \/ s \in undeleted

(* Down: when it has gone through the machines, no service of the file has *)
(* one left in whatever state, save where Delete failed; when it ends, no  *)
(* network of the project is left.                                         *)
DownLeavesNothing ==
    pc = "netrm" => /\ \A s \in file : machine[s] = "absent" \/ s \in undeleted
                    /\ todo = <<>> => exists \cap Networks = {}

(* Create and up: every machine, network and volume of the project is in   *)
(* its record, the machines of services since dropped from the file        *)
(* included; unless a create ended in an error with something created and  *)
(* not yet recorded, Delete failed on a machine it was to replace, or a    *)
(* network it created did not come up.                                     *)
ProjectIsRecorded ==
    pc = "idle" /\ ~lost =>
        {s \in Services : machine[s] # "absent"} \subseteq record.machines /\ exists \subseteq record.resources
=============================================================================
