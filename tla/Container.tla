------------------------------ MODULE Container ------------------------------
(***************************************************************************)
(* The life of one container ID of runu, the OCI runtime: the runu         *)
(* commands (create, start, kill, delete) are separate processes that      *)
(* share the container's state directory <root>/<id> and signal its init   *)
(* process; there is no daemon and no lock.  The state directory holds     *)
(* state.json (which init the container has) and exec.fifo (present while  *)
(* the container is created and not yet started).                          *)
(*                                                                         *)
(* An init process, its FIFO and its directory are named by the create     *)
(* command that made them; (pid, start time), which state.json records,    *)
(* is such a name: runType compares both.                                  *)
(***************************************************************************)
EXTENDS Integers, Sequences, FiniteSets

CONSTANTS
    Creators, Starters, Deleters, Killers,  \* invocations of the four commands
    Forced,         \* the deletes given --force
    Crashable,      \* the commands that may be killed while they run
    SerialReuse,    \* the caller creates the ID again only when it is quiet
    None            \* no file, no process

Commands == Creators \cup Starters \cup Deleters \cup Killers

ASSUME CommandsAreDisjoint ==
    /\ Creators \cap Starters = {} /\ Creators \cap Deleters = {}
    /\ Creators \cap Killers = {} /\ Starters \cap Deleters = {}
    /\ Starters \cap Killers = {} /\ Deleters \cap Killers = {}
    /\ Forced \subseteq Deleters
    /\ Crashable \subseteq Commands
    /\ SerialReuse \in BOOLEAN
    /\ None \notin Commands

VARIABLES
    dir,        \* the directory <root>/<id>, or None
    saved,      \* the init that state.json in it names, or None
    fifo,       \* the exec.fifo in it, or None
    pc,         \* where each command is
    cstate,     \* Container.state in the memory of each create
    seenReady,  \* seenProcReady of each create
    init,       \* where each init process is
    up, down,   \* the sync pipe: messages to, and from, the create
    killed,     \* the inits with a fatal signal pending
    byte,       \* the FIFOs whose buffer holds the byte the init wrote
    loaded,     \* the init named by the state.json each command loaded
    fd,         \* the FIFO each init was given, and each start has opened
    got         \* the starts that have read the byte

vars == <<dir, saved, fifo, pc, cstate, seenReady, init, up, down, killed,
          byte, loaded, fd, got>>

files == <<dir, saved, fifo>>
creating == <<cstate, seenReady>>
inits == <<init, up, down, killed, byte>>
loading == <<loaded, got>>

Terminal == {"failed", "done", "crashed"}
CreatePhases == {"idle", "checked", "made", "fifo", "config", "sync", "hooks",
                 "save", "run", "post", "pidfile", "term", "unfifo", "destroy",
                 "removing"} \cup Terminal
StartPhases == {"idle", "loaded", "exec", "blocked", "open", "reading",
                "remove"} \cup Terminal
DeletePhases == {"idle", "loaded", "kill", "wait", "removing"} \cup Terminal
KillPhases == {"idle", "loaded"} \cup Terminal
Phases == CreatePhases \cup StartPhases \cup DeletePhases \cup KillPhases
InitPhases == {"none", "config", "hooks", "ready", "check", "closed", "fifo",
               "opened", "wrote", "running", "dead"}
\* The messages of the sync protocol; procConfig stands for the configuration.
Messages == {"procConfig", "procHooks", "procResume", "procReady", "procRun",
             "procError"}

Quiet(p) == pc[p] \in {"idle"} \cup Terminal
Alive(i) == i # None /\ init[i] \notin {"none", "dead"}

\* The inits whose end of the sync pipe is closed, and those that hold the
\* write end of their FIFO (a blocked open(O_WRONLY) counts as a writer).
PipeClosed(i) == init[i] \in {"closed", "fifo", "opened", "wrote", "running", "dead"}
Writing(i) == \E j \in Creators : fd[j] = i /\ init[j] \in {"fifo", "opened", "wrote"}
Reading(i) == \E s \in Starters :
                 fd[s] = i /\ pc[s] \in {"blocked", "open", "reading"}

\* Container.runType, as a command that loaded init i computes it.
RunType(i) ==
    IF ~Alive(i) THEN "stopped" ELSE IF fifo # None THEN "created" ELSE "running"

Goto(p, phase) == pc' = [pc EXCEPT ![p] = phase]

Init ==
    /\ dir = None /\ saved = None /\ fifo = None
    /\ pc = [p \in Commands |-> "idle"]
    /\ cstate = [c \in Creators |-> "stopped"]
    /\ seenReady = [c \in Creators |-> FALSE]
    /\ init = [c \in Creators |-> "none"]
    /\ up = [c \in Creators |-> <<>>]
    /\ down = [c \in Creators |-> <<>>]
    /\ killed = {} /\ byte = {}
    /\ loaded = [p \in Commands |-> None]
    /\ fd = [p \in Creators \cup Starters |-> None]
    /\ got = {}

-----------------------------------------------------------------------------
(* runu create: createContainer, then bootstrapContainer.                  *)

\* libmocktainer.Create refuses an ID whose directory exists ...
CreateStat(c) ==
    /\ pc[c] = "idle"
    /\ SerialReuse => \A p \in Commands \ {c} : Quiet(p)
    /\ Goto(c, IF dir = None THEN "checked" ELSE "failed")
    /\ UNCHANGED <<files, creating, inits, loading, fd>>

\* ... and makes it; of two creates that both saw no directory one gets EEXIST.
CreateMkdir(c) ==
    /\ pc[c] = "checked"
    /\ \/ dir = None /\ dir' = c /\ Goto(c, "made")
       \/ dir # None /\ dir' = dir /\ Goto(c, "failed")
    /\ UNCHANGED <<saved, fifo, creating, inits, loading, fd>>

CreateExecFifo(c) ==
    /\ pc[c] = "made"
    /\ \/ dir # None /\ fifo = None /\ fifo' = c /\ Goto(c, "fifo")
       \/ fifo' = fifo /\ Goto(c, "destroy")
    /\ UNCHANGED <<dir, saved, creating, inits, loading, fd>>

\* newParentProcess opens the FIFO for the init, initProcess.start forks it.
Spawn(c) ==
    /\ pc[c] = "fifo"
    /\ \/ /\ fifo # None
          /\ fd' = [fd EXCEPT ![c] = fifo]
          /\ init' = [init EXCEPT ![c] = "config"]
          /\ Goto(c, "config")
       \/ UNCHANGED <<fd, init>> /\ Goto(c, "unfifo")
    /\ UNCHANGED <<files, creating, up, down, killed, byte, loading>>

\* A write by the create to its init: it fails once the init's end is closed.
Send(c, msg) == ~PipeClosed(c) /\ down' = [down EXCEPT ![c] = Append(@, msg)]

\* Bootstrap data, network interfaces and the configuration are sent; any of
\* them may fail.
SendConfig(c) ==
    /\ pc[c] = "config"
    /\ \/ Send(c, "procConfig") /\ Goto(c, "sync")
       \/ down' = down /\ Goto(c, "term")
    /\ UNCHANGED <<files, creating, init, up, killed, byte, loading, fd>>

\* One message of the parseSync loop.
Sync(c) ==
    /\ pc[c] = "sync" /\ up[c] # <<>>
    /\ up' = [up EXCEPT ![c] = Tail(@)]
    /\ \/ /\ Head(up[c]) = "procHooks" /\ Goto(c, "hooks")
          /\ UNCHANGED creating
       \/ /\ Head(up[c]) = "procReady" /\ Goto(c, "save")
          /\ seenReady' = [seenReady EXCEPT ![c] = TRUE]
          /\ cstate' = [cstate EXCEPT ![c] = "created"]
       \/ /\ Head(up[c]) = "procError" /\ Goto(c, "term")
          /\ UNCHANGED creating
    /\ UNCHANGED <<files, init, down, killed, byte, loading, fd>>

\* Variant: the death of the init is not seen as EOF.
SyncEOFOnlyFromClose(c) ==
    /\ pc[c] = "sync" /\ up[c] = <<>> /\ PipeClosed(c) /\ init[c] # "dead"
    /\ Goto(c, IF seenReady[c] THEN "post" ELSE "term")
    /\ UNCHANGED <<files, creating, inits, loading, fd>>

\* The loop ends when the init closes its end of the pipe.
SyncEOF(c) ==
    /\ pc[c] = "sync" /\ up[c] = <<>> /\ PipeClosed(c)
    /\ Goto(c, IF seenReady[c] THEN "post" ELSE "term")
    /\ UNCHANGED <<files, creating, inits, loading, fd>>

\* procHooks: the prestart and createRuntime hooks, then procResume.
RunHooks(c) ==
    /\ pc[c] = "hooks"
    /\ \/ Send(c, "procResume") /\ Goto(c, "sync")
       \/ down' = down /\ Goto(c, "term")
    /\ UNCHANGED <<files, creating, init, up, killed, byte, loading, fd>>

\* Variant: the init is released although state.json could not be written.
UpdateStateUnchecked(c) ==
    /\ pc[c] = "save"
    /\ \/ dir # None /\ saved' = c
       \/ saved' = saved
    /\ Goto(c, "run")
    /\ UNCHANGED <<dir, fifo, creating, inits, loading, fd>>

\* procReady: updateState writes state.json (a rename in the directory) ...
UpdateState(c) ==
    /\ pc[c] = "save"
    /\ \/ dir # None /\ saved' = c /\ Goto(c, "run")
       \/ saved' = saved /\ Goto(c, "term")
    /\ UNCHANGED <<dir, fifo, creating, inits, loading, fd>>

\* ... before the init is told to run.
WriteProcRun(c) ==
    /\ pc[c] = "run"
    /\ \/ Send(c, "procRun") /\ Goto(c, "sync")
       \/ PipeClosed(c) /\ down' = down /\ Goto(c, "term")
    /\ UNCHANGED <<files, creating, init, up, killed, byte, loading, fd>>

\* Container.start after parent.start: with hooks configured the state is
\* refreshed and the poststart hooks run.
Poststart(c) ==
    /\ pc[c] = "post"
    /\ \/ cstate' = cstate /\ Goto(c, "pidfile")
       \/ /\ cstate' = [cstate EXCEPT ![c] = RunType(c)]
          /\ Goto(c, "pidfile") \/ Goto(c, "term")
    /\ UNCHANGED <<files, seenReady, inits, loading, fd>>

\* Variant: the container is destroyed without terminating its init first.
CreatePidFileNoTerminate(c) ==
    /\ pc[c] = "pidfile"
    /\ Goto(c, "done") \/ Goto(c, "destroy")
    /\ UNCHANGED <<files, creating, inits, loading, fd>>

CreatePidFile(c) ==
    /\ pc[c] = "pidfile"
    /\ \/ init' = init /\ Goto(c, "done")
       \/ init' = [init EXCEPT ![c] = "dead"] /\ Goto(c, "destroy")
    /\ UNCHANGED <<files, creating, up, down, killed, byte, loading, fd>>

-----------------------------------------------------------------------------
(* The error path of create.                                               *)

\* Variant: the child is not killed.
TerminateSkipped(c) ==
    /\ pc[c] = "term"
    /\ Goto(c, "unfifo")
    /\ UNCHANGED <<files, creating, inits, loading, fd>>

\* initProcess.terminate: kill the child and wait for it.
Terminate(c) ==
    /\ pc[c] = "term"
    /\ init' = [init EXCEPT ![c] = "dead"]
    /\ Goto(c, "unfifo")
    /\ UNCHANGED <<files, creating, up, down, killed, byte, loading, fd>>

DeleteExecFifo(c) ==
    /\ pc[c] = "unfifo"
    /\ fifo' = None
    /\ Goto(c, "destroy")
    /\ UNCHANGED <<dir, saved, creating, inits, loading, fd>>

\* Container.Destroy, by the state object the create holds.
Destroy(c) ==
    /\ pc[c] = "destroy"
    /\ \/ cstate[c] = "stopped" /\ killed' = killed /\ Goto(c, "removing")
       \/ cstate[c] = "created" /\ killed' = killed \cup {c} /\ Goto(c, "removing")
       \/ /\ cstate[c] = "running" /\ killed' = killed
          /\ Goto(c, IF RunType(c) = "running" THEN "failed" ELSE "removing")
    /\ UNCHANGED <<files, creating, init, up, down, byte, loading, fd>>

\* os.RemoveAll(root), by a create or a delete: the entries go in any order,
\* the directory last.
RemoveAll(p) ==
    /\ pc[p] = "removing"
    /\ \/ saved # None /\ saved' = None /\ UNCHANGED <<dir, fifo, pc>>
       \/ fifo # None /\ fifo' = None /\ UNCHANGED <<dir, saved, pc>>
       \/ /\ saved = None /\ fifo = None
          /\ dir' = None /\ UNCHANGED <<saved, fifo>>
          /\ Goto(p, IF p \in Creators THEN "failed" ELSE "done")
    /\ UNCHANGED <<creating, inits, loading, fd>>

-----------------------------------------------------------------------------
(* The init process: startInitialization and linuxStandardInit.Init.       *)

InitGoto(i, phase) == init' = [init EXCEPT ![i] = phase]
Receive(i, msg) ==
    down[i] # <<>> /\ Head(down[i]) = msg /\ down' = [down EXCEPT ![i] = Tail(@)]
Reply(i, msg) == up' = [up EXCEPT ![i] = Append(@, msg)]

\* The configuration is read, the network and the root file system prepared up
\* to syncParentHooks.
InitConfig(i) ==
    /\ init[i] = "config"
    /\ Receive(i, "procConfig") /\ Reply(i, "procHooks") /\ InitGoto(i, "hooks")
    /\ UNCHANGED <<files, pc, creating, killed, byte, loading, fd>>

\* Variant: the init does not wait for procResume.
InitReadyUnsynced(i) ==
    /\ init[i] = "hooks"
    /\ Reply(i, "procReady") /\ InitGoto(i, "ready")
    /\ UNCHANGED <<files, pc, creating, down, killed, byte, loading, fd>>

\* The rest of prepareRootfs, up to syncParentReady.
InitReady(i) ==
    /\ init[i] = "hooks"
    /\ Receive(i, "procResume") /\ Reply(i, "procReady") /\ InitGoto(i, "ready")
    /\ UNCHANGED <<files, pc, creating, killed, byte, loading, fd>>

InitRun(i) ==
    /\ init[i] = "ready"
    /\ Receive(i, "procRun") /\ InitGoto(i, "check")
    /\ UNCHANGED <<files, pc, creating, up, killed, byte, loading, fd>>

\* A setup step failed: procError is reported and the init exits.
InitError(i) ==
    /\ \/ init[i] = "config"
       \/ init[i] = "hooks" /\ down[i] # <<>>
       \/ init[i] = "check"
    /\ Reply(i, "procError") /\ InitGoto(i, "dead")
    /\ down' = [down EXCEPT ![i] = <<>>]
    /\ UNCHANGED <<files, pc, creating, killed, byte, loading, fd>>

\* Variant: only the read of the configuration fails.
InitOrphanedInConfig(i) ==
    /\ init[i] = "config"
    /\ pc[i] = "crashed" /\ down[i] = <<>>
    /\ InitGoto(i, "dead")
    /\ UNCHANGED <<files, pc, creating, up, down, killed, byte, loading, fd>>

\* The create died: a read from the pipe fails.
InitOrphaned(i) ==
    /\ init[i] \in {"config", "hooks", "ready"}
    /\ pc[i] = "crashed" /\ down[i] = <<>>
    /\ InitGoto(i, "dead")
    /\ UNCHANGED <<files, pc, creating, up, down, killed, byte, loading, fd>>

\* The init kills itself if its parent is gone; otherwise it closes the pipe.
CheckParent(i) ==
    /\ init[i] = "check"
    /\ InitGoto(i, IF pc[i] = "crashed" THEN "dead" ELSE "closed")
    /\ UNCHANGED <<files, pc, creating, up, down, killed, byte, loading, fd>>

\* open(O_WRONLY) of the FIFO wakes the readers blocked in their open, and
\* blocks until there is a reader.
OpenFifoForWriting(i) ==
    /\ init[i] = "closed"
    /\ InitGoto(i, IF Reading(fd[i]) THEN "opened" ELSE "fifo")
    /\ pc' = [p \in Commands |->
                IF p \in Starters /\ pc[p] = "blocked" /\ fd[p] = fd[i]
                THEN "open" ELSE pc[p]]
    /\ UNCHANGED <<files, creating, up, down, killed, byte, loading, fd>>

\* The byte that start waits for; without a reader left the write fails.
WriteFifo(i) ==
    /\ init[i] = "opened"
    /\ \/ Reading(fd[i]) /\ byte' = byte \cup {fd[i]} /\ InitGoto(i, "wrote")
       \/ ~Reading(fd[i]) /\ byte' = byte /\ InitGoto(i, "dead")
    /\ UNCHANGED <<files, pc, creating, up, down, killed, loading, fd>>

\* QEMU networking, the startContainer hooks and exec, which closes the FIFO.
ExecUser(i) ==
    /\ init[i] = "wrote"
    /\ InitGoto(i, "running") \/ InitGoto(i, "dead")
    /\ UNCHANGED <<files, pc, creating, up, down, killed, byte, loading, fd>>

\* The unikernel stops.
InitExit(i) ==
    /\ init[i] = "running"
    /\ InitGoto(i, "dead")
    /\ UNCHANGED <<files, pc, creating, up, down, killed, byte, loading, fd>>

\* A fatal signal takes effect.
InitKilled(i) ==
    /\ i \in killed /\ Alive(i)
    /\ InitGoto(i, "dead")
    /\ UNCHANGED <<files, pc, creating, up, down, killed, byte, loading, fd>>

-----------------------------------------------------------------------------
(* runu start: Load, Status, Container.exec.                               *)

\* Load, in start, kill and delete: no state.json is ErrNotExist.
Load(p) ==
    /\ pc[p] = "idle"
    /\ loaded' = [loaded EXCEPT ![p] = saved]
    /\ Goto(p, IF saved = None THEN "failed" ELSE "loaded")
    /\ UNCHANGED <<files, creating, inits, fd, got>>

StartStatus(s) ==
    /\ pc[s] = "loaded"
    /\ Goto(s, IF RunType(loaded[s]) = "created" THEN "exec" ELSE "failed")
    /\ UNCHANGED <<files, creating, inits, loading, fd>>

\* open(O_RDONLY) of the FIFO at the path: it wakes the inits blocked in their
\* open.  The buffer of a FIFO that nobody held open is empty.
OpenFifoForReading(s) ==
    /\ fd' = [fd EXCEPT ![s] = fifo]
    /\ init' = [i \in Creators |->
                  IF init[i] = "fifo" /\ fd[i] = fifo THEN "opened" ELSE init[i]]
    /\ byte' = IF Reading(fifo) \/ Writing(fifo) THEN byte ELSE byte \ {fifo}

\* awaitFifoOpen: blocks until there is a writer.
AwaitFifoOpen(s) ==
    /\ pc[s] = "exec"
    /\ \/ fifo = None /\ Goto(s, "failed") /\ UNCHANGED <<fd, init, byte>>
       \/ /\ fifo # None /\ OpenFifoForReading(s)
          /\ Goto(s, IF Writing(fifo) THEN "open" ELSE "blocked")
    /\ UNCHANGED <<files, creating, up, down, killed, loading>>

FifoOpened(s) ==
    /\ pc[s] = "open"
    /\ Goto(s, "reading")
    /\ UNCHANGED <<files, creating, inits, loading, fd>>

\* Variant: a start that is blocked in its open does not look at the init.
PollInitUnblocked(s) ==
    /\ pc[s] = "open" /\ ~Alive(loaded[s])
    /\ \/ fifo = None /\ Goto(s, "failed") /\ UNCHANGED <<fd, init, byte>>
       \/ fifo # None /\ OpenFifoForReading(s) /\ Goto(s, "reading")
    /\ UNCHANGED <<files, creating, up, down, killed, loading>>

\* Every 100 ms: if the init is gone the FIFO is opened without blocking.
PollInit(s) ==
    /\ pc[s] \in {"blocked", "open"} /\ ~Alive(loaded[s])
    /\ \/ fifo = None /\ Goto(s, "failed") /\ UNCHANGED <<fd, init, byte>>
       \/ fifo # None /\ OpenFifoForReading(s) /\ Goto(s, "reading")
    /\ UNCHANGED <<files, creating, up, down, killed, loading>>

\* Variant: one byte is read, and not up to EOF.
ReadFifoByteOnly(s) ==
    /\ pc[s] = "reading" /\ fd[s] \in byte
    /\ byte' = byte \ {fd[s]} /\ got' = got \cup {s} /\ Goto(s, "remove")
    /\ UNCHANGED <<files, creating, init, up, down, killed, loaded, fd>>

\* readFromExecFifo reads the byte ...
ReadFifo(s) ==
    /\ pc[s] = "reading" /\ fd[s] \in byte
    /\ byte' = byte \ {fd[s]} /\ got' = got \cup {s}
    /\ UNCHANGED <<files, pc, creating, init, up, down, killed, loaded, fd>>

\* Variant: EOF is success.
ReadFifoEOFUnchecked(s) ==
    /\ pc[s] = "reading" /\ fd[s] \notin byte /\ ~Writing(fd[s])
    /\ Goto(s, "done")
    /\ UNCHANGED <<files, creating, inits, loading, fd>>

\* ... up to EOF; nothing read means somebody else started the container.
ReadFifoEOF(s) ==
    /\ pc[s] = "reading" /\ fd[s] \notin byte /\ ~Writing(fd[s])
    /\ Goto(s, IF s \in got THEN "remove" ELSE "failed")
    /\ UNCHANGED <<files, creating, inits, loading, fd>>

\* handleFifoResult removes the FIFO at the path.
RemoveFifo(s) ==
    /\ pc[s] = "remove"
    /\ fifo' = None
    /\ Goto(s, IF fifo = None THEN "failed" ELSE "done")
    /\ UNCHANGED <<dir, saved, creating, inits, loading, fd>>

-----------------------------------------------------------------------------
(* runu delete and runu kill.                                              *)

\* Variant: without --force a running container's directory is removed.
DeleteStatusUnchecked(d) ==
    /\ pc[d] = "loaded"
    /\ Goto(d, IF RunType(loaded[d]) = "created" THEN "kill" ELSE "removing")
    /\ UNCHANGED <<files, creating, inits, loading, fd>>

DeleteStatus(d) ==
    /\ pc[d] = "loaded"
    /\ \/ RunType(loaded[d]) = "stopped" /\ Goto(d, "removing")
       \/ RunType(loaded[d]) = "created" /\ Goto(d, "kill")
       \/ /\ RunType(loaded[d]) = "running"
          /\ Goto(d, IF d \in Forced THEN "kill" ELSE "failed")
    /\ UNCHANGED <<files, creating, inits, loading, fd>>

\* Container.Signal with a fatal signal: only a created or running container
\* is signalled.
Signal(i) == killed' = IF Alive(i) THEN killed \cup {i} ELSE killed

KillContainer(d) ==
    /\ pc[d] = "kill"
    /\ Signal(loaded[d]) /\ Goto(d, "wait")
    /\ UNCHANGED <<files, creating, init, up, down, byte, loading, fd>>

\* Variant: the directory is removed although the init is still there.
PollKilledUnchecked(d) ==
    /\ pc[d] = "wait"
    /\ Goto(d, "removing")
    /\ UNCHANGED <<files, creating, inits, loading, fd>>

\* Signal(0) fails once the init is gone; after 100 polls delete gives up.
PollKilled(d) ==
    /\ pc[d] = "wait"
    /\ Goto(d, IF Alive(loaded[d]) THEN "failed" ELSE "removing")
    /\ UNCHANGED <<files, creating, inits, loading, fd>>

KillSignal(k) ==
    /\ pc[k] = "loaded"
    /\ Signal(loaded[k])
    /\ Goto(k, IF Alive(loaded[k]) THEN "done" ELSE "failed")
    /\ UNCHANGED <<files, creating, init, up, down, byte, loading, fd>>

\* The command itself is killed.
Crash(p) ==
    /\ p \in Crashable /\ ~Quiet(p)
    /\ Goto(p, "crashed")
    /\ UNCHANGED <<files, creating, inits, loading, fd>>

-----------------------------------------------------------------------------
CreateStep(c) ==
    \/ CreateMkdir(c) \/ CreateExecFifo(c) \/ Spawn(c) \/ SendConfig(c)
    \/ Sync(c) \/ SyncEOF(c) \/ RunHooks(c) \/ UpdateState(c) \/ WriteProcRun(c)
    \/ Poststart(c) \/ CreatePidFile(c) \/ Terminate(c) \/ DeleteExecFifo(c)
    \/ Destroy(c) \/ RemoveAll(c)

InitStep(i) ==
    \/ InitConfig(i) \/ InitReady(i) \/ InitRun(i) \/ InitError(i)
    \/ InitOrphaned(i) \/ CheckParent(i) \/ OpenFifoForWriting(i)
    \/ WriteFifo(i) \/ ExecUser(i) \/ InitKilled(i)

StartStep(s) ==
    \/ StartStatus(s) \/ AwaitFifoOpen(s) \/ FifoOpened(s) \/ PollInit(s)
    \/ ReadFifo(s) \/ ReadFifoEOF(s) \/ RemoveFifo(s)

DeleteStep(d) ==
    \/ DeleteStatus(d) \/ KillContainer(d) \/ PollKilled(d) \/ RemoveAll(d)

Next ==
    \/ \E c \in Creators : CreateStat(c) \/ CreateStep(c) \/ InitStep(c) \/ InitExit(c)
    \/ \E s \in Starters : Load(s) \/ StartStep(s)
    \/ \E d \in Deleters : Load(d) \/ DeleteStep(d)
    \/ \E k \in Killers : Load(k) \/ KillSignal(k)
    \/ \E p \in Commands : Crash(p)

\* A command that has begun and an init that has been forked keep running;
\* nothing makes a caller issue a command or a unikernel stop.
Fairness ==
    /\ \A c \in Creators : WF_vars(CreateStep(c)) /\ WF_vars(InitStep(c))
    /\ \A s \in Starters : WF_vars(StartStep(s))
    /\ \A d \in Deleters : WF_vars(DeleteStep(d))
    /\ \A k \in Killers : WF_vars(KillSignal(k))

Spec == Init /\ [][Next]_vars /\ Fairness

-----------------------------------------------------------------------------
(* Properties.                                                             *)

\* Every variable keeps its type.
TypeOK ==
    /\ dir \in Creators \cup {None}
    /\ saved \in Creators \cup {None}
    /\ fifo \in Creators \cup {None}
    /\ pc \in [Commands -> Phases]
    /\ cstate \in [Creators -> {"stopped", "created", "running"}]
    /\ seenReady \in [Creators -> BOOLEAN]
    /\ init \in [Creators -> InitPhases]
    /\ up \in [Creators -> Seq(Messages)]
    /\ down \in [Creators -> Seq(Messages)]
    /\ killed \subseteq Creators /\ byte \subseteq Creators \cup {None}
    /\ loaded \in [Commands -> Creators \cup {None}]
    /\ fd \in [Creators \cup Starters -> Creators \cup {None}]
    /\ got \subseteq Starters

\* An init that has been told to run, and is not dead, is recorded in
\* state.json, whatever happened to the create that made it: runu delete can
\* always find it (the NOTE in initProcess.start).
Released(i) == init[i] \in {"check", "closed", "fifo", "opened", "wrote", "running"}
ReleasedInitIsRecorded == \A c \in Creators : Released(c) => saved = c

\* Of the starts that race for one container at most one reports success:
\* the init writes one byte (readFromExecFifo).
OneStartWins ==
    \A s, t \in Starters :
        pc[s] = "done" /\ pc[t] = "done" /\ fd[s] = fd[t] => s = t

\* A start that reports success returns only after the init has executed the
\* unikernel or died trying: readFromExecFifo reads up to EOF.
StartReturnsAfterExec ==
    \A s \in Starters : pc[s] \in {"remove", "done"}
        => \A c \in Creators : fd[c] = fd[s] => init[c] \in {"running", "dead"}

\* The sync protocol is in lock step: at most one message is in flight, so
\* neither side can read a message that answers an earlier state (sync.go).
LockStep == \A c \in Creators : Len(up[c]) + Len(down[c]) <= 1

\* A create that returns an error, wherever it failed, and a delete that returns nil
\* leave neither the directory nor a live init of their container behind (the
\* deferred Destroy of bootstrapContainer, delete.go).
NothingLeftBehind ==
    /\ \A c \in Creators : pc[c] = "failed" => dir # c /\ ~Alive(c)
    /\ \A d \in Deleters : pc[d] = "done" => dir # loaded[d] /\ ~Alive(loaded[d])

\* The directory is only emptied when the init it belongs to is dead.
RemovesOnlyDead ==
    [][saved' # saved /\ saved' = None => ~Alive(saved)]_vars

\* What runu state reports.
ObservedStatus == IF saved = None THEN "absent" ELSE RunType(saved)
OCI == INSTANCE OCILifecycle WITH status <- ObservedStatus

\* The reported status follows the OCI lifecycle.
ImplementsOCI == OCI!Spec

\* A create that has begun returns (or is killed), whatever the init does.
CreateReturns ==
    \A c \in Creators : pc[c] = "checked" ~> pc[c] \in Terminal

\* A start does not outlive the init it waits for.
StartReturnsWhenInitDies ==
    \A s \in Starters :
        (pc[s] = "blocked" /\ ~Alive(loaded[s])) ~> pc[s] \in Terminal

\* An init whose create was killed dies, or is recorded in state.json where
\* delete finds it.
NoOrphan ==
    \A c \in Creators :
        (pc[c] = "crashed" /\ Alive(c)) ~> (~Alive(c) \/ saved = c)

-----------------------------------------------------------------------------
(* The inductive invariant behind the safety properties, when the ID is    *)
(* created again only while it is quiet.                                   *)

Loaders == Starters \cup Deleters \cup Killers

\* At most one create runs; the directory's entries need the directory.
OneCreate == \A c, e \in Creators : c # e => Quiet(c) \/ Quiet(e)
EntriesNeedDir == dir = None => saved = None /\ fifo = None

\* While a create runs, the entries are its own and the other commands that
\* run have loaded its init.
CreateOwns ==
    \A c \in Creators : ~Quiet(c) =>
        /\ saved \in {None, c} /\ fifo \in {None, c}
        /\ \A p \in Loaders : ~Quiet(p) => loaded[p] = c
LoadedIsSaved ==
    \A p \in Loaders : ~Quiet(p) => loaded[p] # None /\ saved \in {None, loaded[p]}

\* How far a create and its init are from each other.
InitFollowsCreate ==
    \A c \in Creators :
        /\ pc[c] \in {"idle", "checked", "made", "fifo"} => init[c] = "none"
        /\ pc[c] \in {"config", "sync", "hooks", "save", "run", "post",
                      "pidfile", "term"} => init[c] # "none"
        /\ pc[c] \in {"unfifo", "destroy", "removing", "failed"} => ~Alive(c)
        /\ init[c] = "none" => saved # c /\ \A p \in Loaders : loaded[p] # c
UnforkedIsSilent == \A c \in Creators : init[c] = "none" => down[c] = <<>>

DeletesDead ==
    \A d \in Deleters : pc[d] \in {"removing", "done"} => ~Alive(loaded[d])

\* ReleasedInitIsRecorded, from the moment state.json is written.
HasRun(q) == \E k \in 1..Len(q) : q[k] = "procRun"
RecordedBeforeRun ==
    \A c \in Creators :
        Alive(c) /\ (Released(c) \/ pc[c] = "run" \/ HasRun(down[c])) => saved = c

\* An init has its own FIFO; the byte in it is written once, and read once.
OwnFifo ==
    \A c \in Creators : fd[c] = IF init[c] = "none" THEN None ELSE c
ByteReadOnce ==
    /\ None \notin byte
    /\ \A s \in got : /\ fd[s] \notin byte \cup {None}
                      /\ pc[s] \in {"reading", "remove"} \cup Terminal
    /\ \A s, t \in got : fd[s] = fd[t] => s = t
ByteWrittenOnce ==
    \A c \in Creators : c \in byte \/ (\E s \in got : fd[s] = c)
        => init[c] \in {"wrote", "running", "dead"}
StartedGotByte ==
    \A s \in Starters : pc[s] \in {"remove", "done"} => s \in got

IndInv ==
    /\ OneCreate /\ EntriesNeedDir /\ CreateOwns /\ LoadedIsSaved
    /\ InitFollowsCreate /\ UnforkedIsSilent /\ DeletesDead /\ RecordedBeforeRun
    /\ OwnFifo /\ ByteReadOnce /\ ByteWrittenOnce /\ StartedGotByte
    /\ StartReturnsAfterExec

(* What the refinement of the lifecycle, and NothingLeftBehind, need besides.  *)

\* A live init that a command has loaded is still the recorded one.
LoadedLiveIsSaved ==
    \A p \in Loaders : Alive(loaded[p]) => saved = loaded[p]
\* Until its init is recorded, or dead, a create's FIFO stays: the status is
\* first seen as created.
FifoUntilSaved ==
    \A c \in Creators :
        pc[c] \in {"fifo", "config", "sync", "hooks", "save"} /\ saved = None
            /\ init[c] # "dead" => fifo = c
\* The directory is a create's from mkdir to its removal.
DirOfCreate ==
    /\ \A c \in Creators : pc[c] \in {"idle", "checked", "failed"} => dir # c
    /\ \A d \in Deleters : pc[d] = "done" => loaded[d] # None /\ dir # loaded[d]

LifecycleInv == LoadedLiveIsSaved /\ FifoUntilSaved /\ DirOfCreate

=============================================================================
