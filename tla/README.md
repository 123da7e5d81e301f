# KraftKit in TLA+

KraftKit builds, packages and runs unikernels. This directory holds a TLA+
development of the parts of it whose correctness depends on more than one
process, goroutine or step: specifications written from the source, TLC
configurations that check them on small instances, and TLAPS proofs of the
properties that matter most, for every instance. `PROJECT.json` maps each
definition to the lines it stands for, and lists the hazards that the properties
were chosen for.

## The system

KraftKit has no daemon. Every `kraft` and `runu` command is a process of its
own; the commands meet in files, in kernel objects and in the VMM processes they
start.

| part | code | here |
|---|---|---|
| **runu**, an OCI runtime: create, start, kill, delete, state | `internal/cli/runu` | `Container`, `OCILifecycle` |
| **libmocktainer**, a cut-down libcontainer: state directory, sync pipe, exec FIFO, init | `libmocktainer` | `Container` |
| **bridge networks**: record in the store, taps in the kernel | `machine/network/bridge`, `kraft run/rm/net rm` | `BridgeNetwork` |
| **machines under QEMU**: record in the store, QEMU steered over QMP | `machine/qemu`, `kraft run/start/stop/pause/rm` | `QemuMachine` |
| **log tail** | `internal/logtail` | `LogTail` |
| **following logs**: `kraft logs -f` and attended starts | `internal/cli/kraft/logs`, QEMU `Watch`, `Logs` | `FollowLogs` |
| **process tree**: runs a tree of steps behind the terminal UI | `tui/processtree` | `ProcessTree`, `ProcessItems`, `ReadyItems` |
| **parallel progress**: runs a list of steps with progress bars | `tui/paraprogress` | `ParaProgress` |
| **compose**: projects of services, their order, addresses and machines | `compose`, `kraft compose` | `Compose`, `ServiceOrder` |
| **OCI packages**: the local store of indices, manifests and layers | `oci`, `oci/handler` | `OCIStore` |
| everything else | | see "Not modelled" |

How they meet: `runu create` leaves `<root>/<id>` and a waiting init for `runu
start` and `runu delete`. `kraft run` updates each network (`BridgeNetwork`),
starts QEMU and records the machine (`QemuMachine`); attended, it follows the log
(`FollowLogs` over `LogTail`) until the machine ends, then stops and, with
`--rm`, deletes it and updates the networks again. `kraft compose` issues such
commands for the services of a project (`Compose`). `kraft pkg` and `kraft run`
fill and read the package store (`OCIStore`), and show long steps as a process
tree or as progress bars (`ProcessTree`, `ParaProgress`), which also schedule
them.

## Modules

Each module's variables are commented where they are declared. A command of
`Container`, `BridgeNetwork` or `QemuMachine` is a process that is issued at most
once, and `pc` says where it is; `Compose` and `OCIStore` run one command after
another, with one `pc`. One action is one step of the Go code between two places
where another process or goroutine, or a kill, can be noticed. The theorems about
a module are in the module named after it that ends in `Proofs`, but for `LogTail` and
`FollowLogs`, which share `LogsProofs` (hence
`FollowInit`, `FollowNext` and `FollowSpec`); `MC` modules hold the
values of constants that the runs use. Definitions that begin with "Variant of" in
their comment belong to no specification: they are plausible mistakes, used to see
that a property would notice them.

### `Container` and `OCILifecycle`: the life of one container ID

`Container` models `runu create/start/kill/delete` and the init process.

| state | code |
|---|---|
| `dir`, `saved`, `fifo` | `<root>/<id>`, the init named by its `state.json`, its `exec.fifo` |
| `cstate`, `seenReady` | `Container.state` and `seenProcReady` in the memory of a create |
| `init`, `fd`, `killed` | the init processes, the FIFO each was given, pending fatal signals |
| `up`, `down` | the two directions of the sync pipe |
| `byte`, `got` | the byte in a FIFO's buffer, the starts that have read it |
| `loaded` | the init named by the `state.json` a start, kill or delete loaded |

An init, its FIFO and its directory are named by the create that made them.
`state.json` records the pid and its start time, and `runType` compares both, so
such a name is what the code can tell apart. A recycled pid, or a pid that dies
between the check and the signal, is not modelled. Hooks, configuration and
mounts are steps that may fail. `Crash` kills a command at any point; `RemoveAll`
removes the entries of the directory one at a time, in any order.

`SerialReuse` is an assumption on the caller: the ID is created again only while
no command on it is running. containerd gives it. The properties of
`container_reuse` are claimed under it.

`OCILifecycle` is the abstract specification: the status moves absent, created,
running, stopped, absent. `Container` implements it under the mapping
`ObservedStatus`, which is what `runu state` reports.

### `BridgeNetwork`: one network and its taps

| state | code |
|---|---|
| `stored` | the interfaces in the network's record, in the store |
| `bridge`, `tap` | the bridge link; the tap links and the interface in each one's alias |
| `found`, `pos`, `doomed` | a command's copy of the interfaces, where Update's loop is, the links it will delete |
| `iface`, `machine` | the interface in a machine's spec, and the machine |

A command reads the record, edits its copy, and calls Update (`UpdateBridge` to
`UpdateDone`, one action per netlink call that matters), after which the store
takes the copy back. `serial`, chosen once per behaviour from `Modes`, says whether
network commands are issued one at a time; nothing in the code enforces it, and
`AttachedTapKept` and `RemovedNetworkUnused` are claimed when they are.
`UpdateReconciles` is claimed in both modes, of an update that runs alone. Subnets,
MAC addresses and link flags are left out; an address is a host number. `Failing`
names the commands whose netlink calls may fail, and which may be killed.

### `QemuMachine`: one machine name

| state | code |
|---|---|
| `rec` | the record under the name: UID and state |
| `vmm`, `pid`, `sock` | QEMU, its `machine.pid` and its control socket |
| `copy` | the record a command works on |
| `orphan` | the QEMUs whose files were removed while they lived (history) |

Driver methods are split where another command can act: before and after each
QMP exchange, and before the store takes the copy. The store is external
(`api.zip`): one of its calls is a step, and whether it keeps the copy of a method
that failed is left open. QEMU removes its files when it exits by itself, and
leaves them when it is killed. Once its files are removed by `Delete` a QEMU that
lives is in `orphan`, where no command reaches it. `serial` is chosen as in
`BridgeNetwork`. `Crashable` names the commands that may be killed (`Crash`), which
happens in serial behaviours; `SerialOnly` names those that are issued in serial
behaviours only, the attended start in the run.

### `LogTail`: following a file

The file is a sequence of letters, newlines and NULs that grows in pieces.
`queued` and `held` are the notification in the kernel, which merges the ones that
have not been read, and the one fsnotify holds for the tail. `Peek`, `ReadLine`,
`ReadMore` and `ReadEOF` are the steps of `peekAndRead` between which the file may
grow. Read errors other than the end of the file, and lines longer than the
buffers, are left out.

### `FollowLogs`: an attended start

The tail (by lines), the driver's monitor of QMP events, the watcher and
`FollowLogs` itself are four goroutines that share a context. A send on an
unbuffered channel and its receive are one action. `select` is a choice among the
enabled actions. `eof` is read without synchronisation, so a stale value may be
read. `Preamble` is the number of lines that `Logs` consumes.

### `ProcessTree`: a tree of steps

| state | code |
|---|---|
| `pt` | the tree and its options, as the caller gave them |
| `status`, `quitting`, `finished`, `err` | the fields of the same names |
| `go`, `waiting`, `exit` | the goroutines of each item; the one that waits for an exit and the message it got |
| `loop`, `quit` | bubbletea's loop, and whether a Quit message is under way |
| `expired` | the items whose timer has passed the timeout |
| `begun`, `succeeded`, `failed` | history of the processes |

`Update` takes one message at a time; everything it does with one is one action.
The commands it returns are goroutines, whose messages arrive in any order.
bubbletea is external: it renders (`View`) after each message, and `View` changes
statuses.

`ProcessItems` has the statuses and one round of the loop that looks for items whose
process can be called, and `ReadyItems` the recursion of `getNextReadyChildren`.
`ProcessTree` takes the latter as a constant operator, of which `ReadyAssumption` states
the equations of the loop: what it finds in no item, and in one item more. The
instance gives it the operator of `ReadyItems`, on which TLC evaluates the assumption.
(The prover does not accept a recursive definition, but it can reason from its
equations.)

### `ParaProgress`: a list of steps with progress bars

As above, for the flat list of `tui/paraprogress`: `go` is the goroutine of each
process, `msgs` the messages on their way to the loop, which takes them in any
order, and `percent` the processes that are at 100%. `Tick` finds timers that have
passed. `full` and `late` are history. The options are the caller's (`Options`).

### `Compose`: one project

| state | code |
|---|---|
| `file` | the services in the Compose file |
| `machine`, `exists` | the state of each service's machine; the networks and volumes that exist |
| `record`, `project` | the project in the store, and the copy a create works on |
| `op`, `args`, `pc`, `todo`, `seen` | the running command, where it is, what it has still to do, the machines it has listed |
| `usedAddresses` | the addresses AssignIPs has found |

Commands run one at a time, as a project has one user. Each call of another
command (`run`, `start`, `stop`, `remove`) is a step that may fail. The Compose
file may be edited between commands. compose-go, which loads it, is external.
Maps are iterated in any order, so the order of services is a set of sequences.
`ServiceOrder` computes it by the recursive visit of the code, both ways. `Compose`
takes that visit as the constant operator `VisitAll`, of which `VisitAssumption` states
the recursive equation (`Visit`, `Loop`); the instance gives it the operator of
`ServiceOrder`, so that TLC evaluates the assumption. `ServicesAssumption` says that the
dependencies are acyclic, which compose-go checks when it loads a file.
A command that starts, stops or removes goes through the whole order and passes
over the machines it did not list in a state it acts on, where the code first
gathers those it will act on (`Foremost`, `Exhausted`).

### `OCIStore`: indices, manifests, configs and layers on disk

In `file` a blob is absent, partial, whole, or the config of another manifest;
`index` gives the manifests under each index's name, and `tag` links a reference to
an index. Pull, package (with the merge strategy) and delete are split at each
file they create, so a kill leaves what it leaves on disk. The registry is external
and changes only between commands. Two abstractions: an index is named by its
origin and its set of manifests in place of a digest, and the digests of manifests,
configs and layers never coincide (`DigestsAssumption`). In the instance the
manifests of one index share no layers; the proofs do not need that.

## Runs

| run | what it asks |
|---|---|
| `container_once` | one container; two starts and a kill race, create and a start are killed anywhere: the sync protocol keeps in step, one start wins and returns after exec, creates return, starts notice a dead init, orphans die or can be deleted |
| `container_reuse` | the ID is deleted and created again; plain and forced delete: a released init is recorded, a failed create or a delete leaves nothing, only dead containers are removed; the inductive invariant; refinement of the OCI lifecycle |
| `bridge_runs` | three machines come and go, one at a time (one of them failing or killed) or overlapping: an update that runs alone makes links and record agree whatever came before; one at a time, attached machines keep their taps and a network in use stays |
| `qemu_runs` | run, start, attended start `--rm`, stop, pause and rm, one at a time (killed anywhere) or overlapping; guests that exit, QEMUs that are killed: a running guest keeps its record, a removed machine leaves nothing, a stop that succeeds has ended QEMU, a QEMU that answers is not reported exited |
| `logtail_pieces` | lines are sent whole and in order; what was there at first is sent |
| `logtail_written` | *violated*: merged notifications leave a line unsent |
| `follow_ends` | the command ends once the machine has, and reports a panic it was told of |
| `follow_remove` | *violated*: after a clean shutdown `--rm` may not remove |
| `process_tree` | three items, serial and parallel, independent, nested or a chain of three levels, and one item with a timeout: serial items run one at a time, children before parents, a failure is reported, success in serial mode means that all is done, the program ends |
| `para_progress` | two processes under every choice of options: in serial mode the next starts after the one before has succeeded, success means that all have reported, a failure is reported, the program ends |
| `compose_serial` | a chain of three services under an edited file, failures at every step: addresses are distinct, up starts all and down leaves nothing, the record knows the machines, dependencies start first and dependants are removed first |
| `oci_serial` | three commands on a store that earlier ones have filled, one of them killed: a pull repairs what a kill left, pull and delete keep the other packages listed, packaging adds to what was there |

A violated run states what a comment, a usage line or a doc says, and TLC shows
a behaviour of the code that breaks it; `PROJECT.json` quotes the line under
"findings".

Every module also states its type invariant, `TypeOK`. It is proved for each
of them, so the configurations of the runs list the properties that say more.

Deadlock is checked for `Compose`, whose user can always issue another command. The
other systems come to rest: each command is issued once, the commands of `OCIStore`
are counted, a program under the terminal UI ends, and a guest may stop writing.

### Bounds

- `Container`: two creates are enough for one container to meet its successor,
  two starts for a race, one plain and one forced delete for each way of removing.
  `container_once`, which has the liveness properties, leaves deletes to
  `container_reuse`.
- `BridgeNetwork`: with three machines one interface is before and one behind the
  one removed. Four link names leave room for the links of failed updates; two
  addresses make the pool run out.
- `QemuMachine`: a record, its removal and a start of what is left take one command
  of each kind; a second start is the attended one. Further commands repeat the
  same steps.
- `LogTail`: six bytes (`MaxLen`) hold two or three lines in pieces that begin and
  end anywhere. Three lines (`MaxLines`) in `FollowLogs` exceed what two waiting
  notifications announce.
- `ProcessTree`: three independent items, as fetch, menu and pkg build them, a
  parent with two children, a chain of three levels, in which an item is both parent
  and child, and one item with a timeout. Timeouts and rendering are
  combined with the options that change what they do.
- `ParaProgress`: two processes; the safety properties are proved for every number.
- `Compose`: a chain has the only dependency shape with a middle, which has both
  roles. Five addresses, of which the subnet's own, the gateway's and a static one
  are taken, leave none to spare.
- `OCIStore`: two references that share an index, two versions of one of them, and
  a locally packaged manifest; three commands are a kill, what follows it and a
  later use of what that left.

### Fairness

- `Container`: weak fairness of each create, start, delete and kill that has
  begun, and of the init: they are processes the kernel schedules. Commands need
  not be issued, and no process need be killed.
- `LogTail`, `FollowLogs`: weak fairness of each goroutine, which the Go scheduler
  gives, of fsnotify's, and of a QEMU that has closed its sockets (it exits).
  Writes, exits and interrupts need not happen. Liveness of `select` does not rest
  on a fair choice: `FollowEnds` holds whichever case it takes.
- `ProcessTree`, `ParaProgress`: weak fairness of each goroutine and of the loop.
  `ProcessTree` has strong fairness of the delivery of the exit and quit messages: a
  blocked send on the loop's unbuffered channel is served in turn by the Go runtime,
  whatever else is sent. In both, processes that are started are assumed to return
  (in `ParaProgress` by strong fairness, since a process may report progress
  between).
- `BridgeNetwork`, `QemuMachine`, `Compose` and `OCIStore` state safety only.

## Proofs

The leaves of the proofs are for Zenon (`USE Zenon`), and for the SMT solver where
they name it. Temporal steps are for LS4. Every safety property that a passing run
checks is proved for every value of the constants.

`ContainerProofs` proves `TypeOK` (`TypeCorrect`) for any sets of commands,
from the assumption `CommandsAreDisjoint` alone. It proves, under `SerialReuse`, the inductive invariant `IndInv` and from it
`ReleasedInitIsRecorded`, `OneStartWins`, `StartReturnsAfterExec` and the action
property `RemovesOnlyDead`.

None of these is inductive alone. That a released init is recorded needs, one
step earlier, that `state.json` is written before `procRun` is sent
(`RecordedBeforeRun`, which looks into the pipe); that nobody else removes it
needs that the other commands that run have loaded the same init (`CreateOwns`,
`LoadedIsSaved`) and that a delete which has begun to remove has seen that init
dead (`DeletesDead`). `OneStartWins` rests on the byte: an init writes it once
(`ByteWrittenOnce`), one start reads it (`ByteReadOnce`), and a start that succeeds
has read it (`StartedGotByte`). `SerialReuse` is used in one place only: when a
create begins, every other command is quiet.

The proof has one lemma per actor (create, init, start, load, delete); each first
shows what the actor leaves alone and then takes the conjuncts its actions can
disturb.

It also proves, again under `SerialReuse`, the refinement `ImplementsOCI`
(`RefinesLifecycle`) and `NothingLeftBehind` (`LeavesNothing`). Both need more than `IndInv`: that a live init which a command has loaded is still the
recorded one (`LoadedLiveIsSaved`), that the FIFO stays until `state.json` is
written (`FifoUntilSaved`), and that the directory belongs to no create that has
failed and to nothing that was deleted (`DirOfCreate`). Their conjunction
`LifecycleInv` is inductive relative to `IndInv`. The refinement then looks at the
reported status before and after each step: only `updateState` makes it appear, the
removal of the FIFO or the init's death moves it, and only the removal of
`state.json`, whose init is dead, takes it away.

It proves `LockStep` too (`SyncInLockStep`), without `SerialReuse`: a
pipe belongs to one create and its init. `SyncOK` pairs the places of the two. Where
the create is about to write, the init waits there with the pipe empty or has closed
its end, and a message in the pipe is from where the init still is, or died.

`BridgeNetworkProofs` proves `TypeOK`, `UpdateReconciles` (`Reconciles`),
`AttachedTapKept` (`TapsKept`) and `RemovedNetworkUnused` (`RemovedUnused`) for any
number of machines, link names and addresses, any `Failing` and both modes, from
`ConstantsAssumption` alone. In `NetInv` a list has each interface once, and one at
a time also each link name once, the named ones first (`ListsInv`): a run appends
its interface without a name, and Update names it before anything behind it. The
heart is `Loop`: the interfaces before `pos` have their links, and the links that
will be deleted are of no listed interface. It holds of an update that is not
`disturbed`, which is at work alone (`AloneInv`). `AttachedInv` then says that an
attached machine is listed under its name, in the record and in every copy that will
replace it, so that the next update leaves its tap alone. That the first match is
the one taken out of a list, and the lowest free name the one chosen, is an argument
by the least element, from the library's well-founded order on the naturals.

`QemuMachineProofs` proves `StopMeansGone` (`StopsAreWaitedFor`) for any number of
commands, serial or overlapping, and any `Crashable`. `StopInv` says that a QEMU that
answers has its `machine.pid`, and that while a stop waits for a QEMU that is going
the `machine.pid` is in place, unless a removal has passed (`PidInv`). A removal that
is killed once it has taken the file does not count as passed, but commands are killed
in serial behaviours only, where no stop waits meanwhile (`TurnsInv`).

It proves the three invariants of the run as well, for any number of runs and other
commands. Without the conditions TLC finds counterexamples, but for the killing of
runs in the first, which the proof only does not need to follow.

- `AliveIsNotExited` (`AliveIsTold`), in both modes, when no run and no start is
  killed. A QEMU that has not been started keeps the state it was saved with, so
  nobody may hold an Exited for it, but a start that made it anew and is about to
  continue it (`NewInv`). A new QEMU's UID is unknown to everybody (`FreshInv`), and
  who finds no socket finds no QEMU (`SockInv`). A start killed in between leaves
  such an Exited behind.
- `RunningIsRecorded` (`GuestsAreRecorded`), whichever commands are killed, when
  there is one run or none is in the foreground. `Mine` says for each place what the
  only command at work knows of the record. A run that follows its logs is not at
  work, and goes back to a record that may no longer be its own: if its machine was
  removed and the name run again, it saves its old copy over the new record, and the
  guest of the second run has none.
- `RemovedLeavesNothing` (`RemovedCompletely`) under the same condition, when no run
  is killed. Every file is of the recorded machine, or of the run that is about to
  record it (`Kept`); a run killed there leaves files that no command knows of.

`OCIStoreProofs` proves the four properties of `oci_serial` for any references,
manifests, registry and number of commands and kills, from `StoreAssumption` and
`DigestsAssumption`. `StoreInv` says for each place of a command how what it has
gathered relates to what its reference listed when it began (`PullInv`, `DeleteInv`,
`PackInv`) and which files it can count on. The blobs of a pull are fetched by jobs
that run at once and may share a layer, so that a manifest which is done may have
its layer truncated by another job. `PullJobs` says that this job is then still
writing, or has failed; once all are done without a failure every layer is whole.
Nothing is assumed of what earlier commands left, which is why a pull repairs it.
`TypeCorrect` says in particular that only the file of a config ever holds that of
another manifest: a job that opens a file so is at a config (`OwnInv`).

`ParaProgressProofs` proves, for any number of processes, `SerialInOrder`
(`SerialOrder`), `FailureReported` (`ErrorsReported`) and `NilMeansReported`
(`NilIsOver`). The serial order needs to know who has been called and which
success messages are under way (`Called`, `Successes` in `SerialInv`): the current
process advances when such a message is taken, so there may be one for the current
process only. That an error is reported needs every failed process to have its
message waiting, or the model its error (`ErrorInv`), and that a program that
returns nil has counted every process as over (`NilInv`), which lasts (`Lasting`).
`TypeCorrect` bounds `curr`, which without failFast advances on every status: the
statuses under way, those still to be sent and the processes still to be started
add up with `curr` to at most 2N+1 (`CurrInv`).

`ProcessTreeProofs` proves `OneAtATime` (`SerialRunsOne`), `ChildrenFirst`
(`ChildrenBegin`), `SerialNilMeansDone` (`SerialNilDone`), `FailureReported`
(`FailuresReported`) and `TypeOK`, for any finite set of items, trees of any depth and
any options, from `ProgramsAssumption` (items are made after their children, so trees
have no cycles) and `ReadyAssumption`. First it shows what `getNextReadyChildren`
returns: only items that can be started (`OnlyStartable`), and in a serial program of
independent items or of one tree at most one (`ReadyOne`). These go by induction on
the height of an item and along a sequence of items, as an argument by the least
counterexample. Of the state, any program has `WorkInv`: a success in the statuses is
a real one, and who is about to begin has children that have succeeded. A serial
program has at most one goroutine or one exit to handle (`TokenInv`), and an item that
has begun is never found ready again, which is `ItemInv`. That nil means done is by
counting: without a failure no more exits have been counted than items have succeeded
and left nothing behind (`SumInv`), so when all are counted all have succeeded.

`LogsProofs` proves `LinesIntact` (`LinesWhole`) and `TypeOK` of `LogTail` for any
contents, pieces and `MaxLen`; that contents and pieces are sequences of strings, which
stand for bytes, is all it assumes. The
tail reads, buffers and rewinds, and the file grows between. `ReadInv` says where the
buffered bytes and those of the unfinished line are in the file; what has been taken
ends at `Taken`. The lines are then numbered by the line ends before them (`UpTo`):
up to the first NUL as many lines are sent as are taken, and the place where the tail
is begins a line (`CountInv`), and the k-th line sent is what stands between the ends
k-1 and k (`LineInv`). Appending to the file changes none of these numbers.

`ComposeProofs` proves the five properties of `compose_serial` and `TypeOK` for any
services, files, networks, subnet and static addresses, from `ServicesAssumption`,
`VisitAssumption` and `AddressAssumption`. Only `AddressesDistinct` is inductive by
itself. For the others `IInv` says at each place of a command what is settled about
each service of the file, and that the others are still ahead in `todo`.

- `UpStartsAll` (`UpIsComplete`): while create runs a service is ahead, or its
  machine is one that compose start can start or finds running; once start has
  listed the machines, it is started, was running, or is ahead and startable
  (`UpInv`). The list that create works from is stale, but not so far that a machine
  listed as created or running is gone or paused (`ListInv`).
- `DownLeavesNothing` (`DownIsComplete`) likewise, and for the networks (`DownInv`).
- `DependencyOrder` (`OrderIsKept`): what a service in `todo` depends on has been
  started, could not be, or is ahead of it in `todo` (`OrderInv`), and the other way
  round for down. This holds at first by `ServicesInOrder`, and a step takes the
  first service that can be taken.
- `ProjectIsRecorded` (`ProjectsAreRecorded`): what exists is in the record, or,
  while a create runs, in the copy that will replace it (`RecordInv`).

`ServicesInOrder` says of the visit itself that, for any acyclic dependencies and any
order in which maps are iterated, each service comes after those it requires, or,
reversed, after those that require it. The visit marks a service when it enters and
appends it when it leaves, so between the two a service is marked and not in the
sequence. That nothing appended meanwhile relies on it needs the rank of the services:
what a visit appends below a service has a lower rank, and so does not depend on it
(`VisitsSorted`). The induction is on the rank and then on the number of services a
loop has still to go through.

`LogsProofs` also proves `PanicIsReported` of `FollowLogs` (`PanicReported`) for any
`Preamble` and `MaxLines`. The invariant `PanicInv`
follows the error from the watcher to the result: it is set before the context is
cancelled, and the command reads it after. `FollowTypes` says that no line is shown
that was not written (`ShownInv`).

Only model-checked: liveness, since the prover does not handle fairness
(`CreateReturns`, `StartReturnsWhenInitDies`, `NoOrphan`, `ExistingIsSent`,
`FollowEnds`, and `Ends` of `ProcessTree` and `ParaProgress`); and that the recursive
definitions of `ReadyItems` and `ServiceOrder` satisfy `ReadyAssumption` and
`VisitAssumption`, which restate them.

## What is not claimed

The models have these behaviours of the code; the properties are stated so that
they do not deny them.

- Without `SerialReuse` a delete that overlaps a later create of the same ID
  removes the new `state.json`, since it removes by path. A delete without
  `--force` may kill a container that a start made running after the delete had
  read its status.
- A create killed before `state.json` is written leaves a directory that neither
  create nor delete accepts.
- `AllocateIP` judges by a ping: the address of a machine that is down is handed
  out again. A tap that got no alias is never removed.
- Two overlapping runs of one machine name both start a QEMU, of which one is
  recorded.
- A start killed after it has created the QEMU of an exited machine again leaves a
  QEMU that the record calls exited. A QEMU that was killed leaves a socket, and
  the machine cannot be started again.
- A foreground run whose machine is removed while it follows the logs, and whose
  name is then run again, saves its old record over the new one when it ends.
- A rm that overlaps a stop removes the pid file the stop waits for, so the stop
  succeeds; `StopMeansGone` leaves such a removal out.
- The line after n NULs loses n bytes: the tail discards the NULs, then slices
  them off again. `LinesIntact` speaks of the lines before the first NUL.
- `FollowLogs` cancels at once when the monitor cannot connect, so lines of a
  machine that exits early may not be printed.
- *Bridge networks.* Overlapping runs choose one link name and one takes the
  other's tap (v1alpha1.go:376-394, against the comments at :391 and :406); a
  second save drops what the first one appended (`run/utils.go:74`).
- *QEMU.* `kraft rm` says "Stop the machine before deleting it." (remove.go:231) but
  stops only a running one: a QEMU that was created or paused outlives its files. A
  removal that fails after an attended start is only logged (start.go:212).
- *Process tree.* After timeouts or an early quit the program ends with processes
  left (update.go:81 says "No more processes then exit"). With failFast a timeout
  quits with err nil (update.go:46-52), and a failure marks the tree as quitting but
  sends no Quit. A parent whose child failed is never started, and so the program
  never ends. In serial mode nested roots may start two items at once
  (processtree.go:271 says "We can only add 1 item if non-parallel"); the properties of
  serial programs are about independent items and single trees (`Serial`), and no
  command builds any other.
- *Parallel progress.* A process that reports 100% counts as over, so a program may
  return nil before the archive it fetched has been verified (paraprogress.go:219,
  manifest/pack_pull_archive.go:153-229). A failure is lost when Tick counts it
  before its message is taken. A late Running message hides a result, and the
  program hangs. Without failFast serial mode advances on Running messages too.
- *Compose.* A create that fails leaves machines that the record does not know
  (create.go:306, :332), two creates at once lose an update, and addresses of
  machines that exist already are forgotten (project.go:228). Stop and pause go in
  the order of the store (stop.go:121-137). `remove.Run` looks at its first argument
  only (remove.go:128). RemoveOrphans compares service names with machine names
  (utils.go:50) where v1.go:93 uses the container name, so services with another
  container name are orphans to it, though create.go:45 says "Remove machines for
  services not defined in the Compose file". A paused machine is created again.
  Failures of Delete are only logged, down does not delete the record, and optional
  dependencies are not ordered.
- *OCI packages.* A partial config is never fetched again (directory.go:423) and is
  fetched for the platform of the request (:434). DeleteManifest removes layers and
  configs that other manifests share (:861, :889). A tag whose index is missing
  makes Symlink fail for ever (:350). A deleted manifest whose file was missing stays
  listed (index.go:164). A digest lists two manifests of one platform (:284).
  Platforms are compared before the kconfig features are added (pack.go:326, :389).
  One unreadable manifest makes a merge drop everything that was listed
  (pack.go:283-285; packmanager/strategy.go:26-28 says "the updated package contains
  the artifacts from before plus the artifacts"). Save keeps partial layers
  (manifest.go:405), and an index rewritten in place no longer matches the digest
  that names it (:947).

## Not modelled

The lines mapped are a small share of the repository, and that will not change:
`machine/qemu/qemu_devices.go` alone holds about 217,000 generated lines of QEMU
device parameters, three quarters of all, which have no behaviour. Of the rest,
these have no state that several steps or actors share, or lie outside the
repository:

- Kconfig, Kraftfile and configuration parsing, `make` and `exec` wrappers,
  archives, root file systems, plugins: sequential conversions and I/O.
- `kraft cloud`: a client of a remote service that is not in the repository.
- The QMP bindings: generated.
- `kraft build`, `pkg`, `fetch`, `menu` and `lib`: sequential command lines over the
  parts above.

These have behaviour and are not modelled yet: Firecracker and the platform
iterator, whose driver methods have the shape of QEMU's; the event monitor; the
embedded store, of which one call is one step here (Badger's directory lock and the
retry for five seconds are left out); the network pool; volumes; the package
manager umbrella and manifest packages.
