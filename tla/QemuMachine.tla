---------------------------- MODULE QemuMachine ----------------------------
(***************************************************************************)
(* The life of a named machine under the QEMU driver: `kraft run`,         *)
(* `start`, `stop`, `pause` and `rm`, each a process of its own, the       *)
(* machine's record in the embedded store, and the daemonised QEMU they    *)
(* steer over QMP.                                                         *)
(*                                                                         *)
(* A machine's UID is named by the run that made it.  Its QEMU holds a     *)
(* lock on machine.pid, listens on qemu_control.sock, and removes both     *)
(* when it exits by itself; killed, it leaves them behind.  A driver       *)
(* method works on a copy of the record, which the store takes back when   *)
(* the method returns; when it returns an error the store may or may not.  *)
(***************************************************************************)
EXTENDS Naturals, FiniteSets

CONSTANTS Runs, Starts, Stops, Pauses, Removes,  \* the commands, each issued once
          Foreground,  \* the runs and starts that follow the logs, then stop
          AutoRemove,  \* those of them with --rm
          Crashable,   \* the commands that may be killed
          Modes,       \* TRUE: commands are issued one at a time; FALSE: they overlap
          SerialOnly,  \* the commands that are not issued when they overlap
          None

Commands == Runs \cup Starts \cup Stops \cup Pauses \cup Removes
Uids == Runs
States == {"created", "failed", "running", "paused", "exited"}
Record == [uid : Uids, state : States]

ASSUME ConstantsAssumption ==
    /\ None \notin Record
    /\ \A c \in Commands : Cardinality({S \in {Runs, Starts, Stops, Pauses, Removes} : c \in S}) = 1
    /\ Foreground \subseteq Runs \cup Starts /\ AutoRemove \subseteq Foreground
    /\ Crashable \subseteq Commands /\ SerialOnly \subseteq Commands /\ Modes \subseteq BOOLEAN

VARIABLES
    rec,      \* the record under the machine's name: its UID and state, or None
    vmm,      \* each UID's QEMU
    pid, sock,\* the UIDs with a machine.pid, with a qemu_control.sock
    orphan,   \* the QEMUs, and their states, whose files were removed while they lived
    copy,     \* a command's copy of the record
    serial,   \* how the user issues the commands
    pc

vars == <<rec, vmm, pid, sock, orphan, copy, serial, pc>>
qemu == <<vmm, pid, sock, orphan>>

Attached == {"prelaunch", "running", "paused"}   \* QEMU answers on its socket
Active == {"create", "record", "get", "connect", "recreate", "cont", "started",
           "quit", "wait", "stopped", "pause", "paused", "delete", "forget"}
Phases == {"idle", "follow", "done", "failed"} \cup Active

Goto(c, l) == pc' = [pc EXCEPT ![c] = l] /\ UNCHANGED serial
Turn(c) == IF serial THEN \A x \in Commands : pc[x] \notin Active ELSE c \notin SerialOnly
Uid(c) == copy[c].uid
SetState(c, s) == copy' = [copy EXCEPT ![c].state = s]

Init ==
    /\ rec = None /\ vmm = [u \in Uids |-> "none"] /\ pid = {} /\ sock = {} /\ orphan = {}
    /\ copy = [c \in Commands |-> None] /\ pc = [c \in Commands |-> "idle"]
    /\ serial \in Modes

----------------------------------------------------------------------------
(* QEMU                                                                    *)

\* It starts with -S, unless another one holds the lock on machine.pid.
Spawn(u) ==
    /\ vmm[u] = "none" /\ vmm' = [vmm EXCEPT ![u] = "prelaunch"]
    /\ pid' = pid \cup {u} /\ sock' = sock \cup {u} /\ UNCHANGED orphan

\* The guest ends, or QEMU has been told to quit: it removes its files.
VmmExit(u) ==
    /\ vmm[u] \in {"running", "dying"} /\ vmm' = [vmm EXCEPT ![u] = "none"]
    /\ pid' = pid \ {u} /\ sock' = sock \ {u} /\ UNCHANGED <<rec, orphan, copy, serial, pc>>

\* It is killed: the files stay.
VmmKilled(u) ==
    /\ vmm[u] \in Attached /\ vmm' = [vmm EXCEPT ![u] = "none"]
    /\ UNCHANGED <<rec, pid, sock, orphan, copy, serial, pc>>

\* What Get makes of the saved state r: no process is Exited, a QEMU that has
\* not been started keeps the saved state, a quitting one may answer or not.
Report(r) ==
    IF r.uid \notin pid \/ vmm[r.uid] = "none" THEN {"exited"}
    ELSE CASE vmm[r.uid] \in {"running", "paused"} -> {vmm[r.uid]}
           [] vmm[r.uid] = "prelaunch" -> {r.state}
           [] vmm[r.uid] = "dying" -> {r.state, "exited"}

\* A command gets the record and the state of its machine; the store may keep
\* what it learnt.  A QEMU that is quitting may fail the query.
Load(c, next) ==
    /\ rec # None /\ UNCHANGED qemu
    /\ \/ \E s \in Report(rec) :
             /\ copy' = [copy EXCEPT ![c] = [rec EXCEPT !.state = s]]
             /\ rec' \in {rec, copy'[c]} /\ Goto(c, next[s])
       \/ vmm[rec.uid] = "dying" /\ Goto(c, "failed") /\ UNCHANGED <<rec, copy>>

\* A method fails: the command gives up, and the store may take the copy.
Fail(c) == rec' \in {rec, copy[c]} /\ Goto(c, "failed") /\ UNCHANGED <<qemu, copy>>

----------------------------------------------------------------------------
(* kraft run                                                               *)

\* assignName looks for the name among the machines.
AssignName(c) ==
    /\ pc[c] = "idle" /\ c \in Runs /\ Turn(c) /\ rec = None
    /\ Goto(c, "create") /\ UNCHANGED <<rec, qemu, copy>>

\* Create starts QEMU and waits until it has daemonised.
Create(c) ==
    /\ pc[c] = "create" /\ Spawn(c)
    /\ copy' = [copy EXCEPT ![c] = [uid |-> c, state |-> "created"]]
    /\ Goto(c, "record") /\ UNCHANGED rec
CreateFails(c) ==
    /\ pc[c] = "create" /\ Goto(c, "failed")
    /\ rec' \in {rec, [uid |-> c, state |-> "failed"]} /\ UNCHANGED <<qemu, copy>>
CreateRecord(c) ==
    /\ pc[c] = "record" /\ rec' = copy[c]
    /\ \E l \in {"get", "done"} : Goto(c, l)      \* --no-start ends here
    /\ UNCHANGED <<qemu, copy>>

----------------------------------------------------------------------------
(* kraft start, and the second half of kraft run                           *)

StartGet(c) ==
    /\ pc[c] = "get" \/ (pc[c] = "idle" /\ c \in Starts /\ Turn(c))
    /\ Load(c, [s \in States |-> "connect"])
\* `kraft run` starts by name, and finds no record.
StartGetMissing(c) ==
    /\ pc[c] = "get" /\ rec = None /\ Goto(c, "failed") /\ UNCHANGED <<rec, qemu, copy>>

StartConnect(c) ==
    /\ pc[c] = "connect"
    /\ \/ Uid(c) \in sock /\ vmm[Uid(c)] \in Attached
          /\ Goto(c, "cont") /\ UNCHANGED <<rec, qemu, copy>>
       \/ Uid(c) \notin sock /\ Goto(c, "recreate") /\ UNCHANGED <<rec, qemu, copy>>
       \/ Uid(c) \in sock /\ vmm[Uid(c)] \notin Attached /\ Fail(c)

\* Variant of StartRecreate: the new QEMU is not told to continue.
StartRecreateOnly(c) ==
    /\ pc[c] = "recreate" /\ Spawn(Uid(c)) /\ SetState(c, "created") /\ Goto(c, "done")
    /\ UNCHANGED rec

\* Without a socket the machine is created again; QEMU may refuse.
StartRecreate(c) ==
    /\ pc[c] = "recreate"
    /\ \/ Spawn(Uid(c)) /\ SetState(c, "created") /\ Goto(c, "cont") /\ UNCHANGED rec
       \/ /\ vmm[Uid(c)] # "none" /\ Goto(c, "failed") /\ UNCHANGED <<qemu, copy>>
          /\ rec' \in {rec, [copy[c] EXCEPT !.state = "failed"]}

\* QMP cont; the process is then looked up through machine.pid.
StartCont(c) ==
    /\ pc[c] = "cont"
    /\ \/ /\ vmm[Uid(c)] \in Attached /\ vmm' = [vmm EXCEPT ![Uid(c)] = "running"]
          /\ SetState(c, "running") /\ Goto(c, "started") /\ UNCHANGED <<rec, pid, sock, orphan>>
       \/ vmm[Uid(c)] \notin Attached /\ Fail(c)
StartRecord(c) ==
    /\ pc[c] = "started"
    /\ \/ /\ Uid(c) \in pid /\ vmm[Uid(c)] # "none" /\ rec' = copy[c]
          /\ Goto(c, IF c \in Foreground THEN "follow" ELSE "done") /\ UNCHANGED <<qemu, copy>>
       \/ (Uid(c) \notin pid \/ vmm[Uid(c)] = "none") /\ Fail(c)

\* Variant of FollowEnds: --rm deletes at once.
FollowEndsNoStop(c) ==
    /\ pc[c] = "follow" /\ Turn(c) /\ Goto(c, IF c \in AutoRemove THEN "delete" ELSE "quit")
    /\ UNCHANGED <<rec, qemu, copy>>

\* The logs end, or the user interrupts: the command stops the machine.
FollowEnds(c) ==
    /\ pc[c] = "follow" /\ Turn(c) /\ Goto(c, "quit") /\ UNCHANGED <<rec, qemu, copy>>

----------------------------------------------------------------------------
(* kraft stop, and what a foreground command and kraft rm do of it         *)

\* An exited machine is skipped.
StopList(c) ==
    /\ pc[c] = "idle" /\ c \in Stops /\ Turn(c)
    /\ Load(c, [s \in States |-> IF s = "exited" THEN "done" ELSE "quit"])

\* Stop failed: kraft stop and kraft start log it, kraft rm and --rm delete all the same.
StopError(c) ==
    IF c \in Removes \cup AutoRemove
    THEN rec' \in {rec, copy[c]} /\ Goto(c, "delete") /\ UNCHANGED <<qemu, copy>>
    ELSE Fail(c)

\* QMP quit.  Without a socket the machine counts as exited.
Stop(c) ==
    /\ pc[c] = "quit"
    /\ \/ /\ Uid(c) \in sock /\ vmm[Uid(c)] \in Attached
          /\ vmm' = [vmm EXCEPT ![Uid(c)] = "dying"]
          /\ SetState(c, "exited") /\ Goto(c, "wait") /\ UNCHANGED <<rec, pid, sock, orphan>>
       \/ Uid(c) \notin sock /\ SetState(c, "exited") /\ Goto(c, "stopped") /\ UNCHANGED <<rec, qemu>>
       \/ Uid(c) \in sock /\ vmm[Uid(c)] \notin Attached /\ StopError(c)

\* Variant of StopWait: machine.pid is not awaited.
StopWaitUnchecked(c) ==
    /\ pc[c] = "wait" /\ Goto(c, "stopped") /\ UNCHANGED <<rec, qemu, copy>>

\* machine.pid is awaited for five seconds.
StopWait(c) ==
    /\ pc[c] = "wait" /\ Uid(c) \notin pid /\ Goto(c, "stopped") /\ UNCHANGED <<rec, qemu, copy>>
StopTimeout(c) == pc[c] = "wait" /\ Uid(c) \in pid /\ StopError(c)
StopRecord(c) ==
    /\ pc[c] = "stopped" /\ rec' = copy[c]
    /\ Goto(c, IF c \in Removes \cup AutoRemove THEN "delete" ELSE "done")
    /\ UNCHANGED <<qemu, copy>>

----------------------------------------------------------------------------
(* kraft pause and kraft rm                                                *)

\* Only a running machine is paused.
PauseList(c) ==
    /\ pc[c] = "idle" /\ c \in Pauses /\ Turn(c)
    /\ Load(c, [s \in States |-> IF s = "running" THEN "pause" ELSE "done"])
Pause(c) ==
    /\ pc[c] = "pause"
    /\ \/ /\ Uid(c) \in sock /\ vmm[Uid(c)] \in Attached
          /\ vmm' = [vmm EXCEPT ![Uid(c)] = IF @ = "running" THEN "paused" ELSE @]
          /\ SetState(c, "paused") /\ Goto(c, "paused") /\ UNCHANGED <<rec, pid, sock, orphan>>
       \/ ~(Uid(c) \in sock /\ vmm[Uid(c)] \in Attached) /\ Fail(c)
PauseRecord(c) ==
    /\ pc[c] = "paused" /\ rec' = copy[c] /\ Goto(c, "done") /\ UNCHANGED <<qemu, copy>>

\* Only a running machine is stopped before it is deleted.
RmList(c) ==
    /\ pc[c] = "idle" /\ c \in Removes /\ Turn(c)
    /\ Load(c, [s \in States |-> IF s = "running" THEN "quit" ELSE "delete"])

\* Variant of Delete: only the sockets are removed.
DeleteSocketsOnly(c) ==
    /\ pc[c] = "delete" /\ sock' = sock \ {Uid(c)} /\ UNCHANGED <<pid, orphan, vmm>>
    /\ Goto(c, "forget") /\ UNCHANGED <<rec, copy>>

\* Delete removes the state directory; the store then forgets the record.
Delete(c) ==
    /\ pc[c] = "delete"
    /\ pid' = pid \ {Uid(c)} /\ sock' = sock \ {Uid(c)}
    /\ \/ vmm[Uid(c)] \in Attached
          /\ orphan' = orphan \cup {<<Uid(c), vmm[Uid(c)]>>} /\ vmm' = [vmm EXCEPT ![Uid(c)] = "none"]
       \/ vmm[Uid(c)] \notin Attached /\ UNCHANGED <<orphan, vmm>>
    /\ Goto(c, "forget") /\ UNCHANGED <<rec, copy>>
Forget(c) ==
    /\ pc[c] = "forget" /\ rec' = None /\ Goto(c, "done") /\ UNCHANGED <<qemu, copy>>

\* A command is killed, while commands are issued one at a time.
Crash(c) ==
    /\ serial /\ pc[c] \in Active \cup {"follow"} /\ c \in Crashable
    /\ Goto(c, "failed") /\ UNCHANGED <<rec, qemu, copy>>

Step(c) ==
    \/ AssignName(c) \/ Create(c) \/ CreateFails(c) \/ CreateRecord(c)
    \/ StartGet(c) \/ StartGetMissing(c) \/ StartConnect(c) \/ StartRecreate(c)
    \/ StartCont(c) \/ StartRecord(c) \/ FollowEnds(c)
    \/ StopList(c) \/ Stop(c) \/ StopWait(c) \/ StopTimeout(c) \/ StopRecord(c)
    \/ PauseList(c) \/ Pause(c) \/ PauseRecord(c) \/ RmList(c) \/ Delete(c) \/ Forget(c)

Next == (\E c \in Commands : Step(c) \/ Crash(c)) \/ (\E u \in Uids : VmmExit(u) \/ VmmKilled(u))

Spec == Init /\ [][Next]_vars

----------------------------------------------------------------------------
(* Properties                                                              *)

\* Every variable keeps its type.
TypeOK ==
    /\ rec \in Record \cup {None} /\ vmm \in [Uids -> Attached \cup {"none", "dying"}]
    /\ pid \subseteq Uids /\ sock \subseteq Uids /\ orphan \subseteq Uids \X Attached
    /\ copy \in [Commands -> Record \cup {None}] /\ serial \in BOOLEAN /\ pc \in [Commands -> Phases]

Idle == \A c \in Commands : pc[c] \notin Active

\* When no command is at work, a machine whose QEMU lives is not reported as Exited,
\* which kraft stop would skip and kraft rm would delete without stopping it
\* (QEMU Get 812-935, stop.go 133-138).
AliveIsNotExited ==
    Idle /\ rec # None /\ vmm[rec.uid] \in Attached => "exited" \notin Report(rec)

\* A stop that returns without error has waited for QEMU: the one it told to quit
\* is gone, unless a removal took its machine.pid away (QEMU Stop 957-993).
StopMeansGone ==
    [][\A c \in Stops :
          StopWait(c) /\ (\A x \in Removes \cup AutoRemove : pc[x] \notin {"forget", "done"})
          => vmm[Uid(c)] # "dying"]_vars

\* While commands are issued one at a time, a guest that runs has a record, by
\* which it can be stopped: kraft rm does not forget it while the guest runs (remove.go 231-243).
RunningIsRecorded ==
    serial /\ Idle =>
        \A u \in Uids : /\ vmm[u] = "running" => rec # None /\ rec.uid = u
                        /\ <<u, "running">> \notin orphan

\* A machine is removed completely: when no command is at work and the name is free
\* its pid file and its socket are gone, whichever command removed it and whatever
\* became of its QEMU (QEMU Delete 996-1019).
RemovedLeavesNothing == serial /\ Idle /\ rec = None => pid = {} /\ sock = {}

============================================================================
