------------------------- MODULE QemuMachineProofs -------------------------
(***************************************************************************)
(* For any number of machines and of commands, and whichever QEMUs are     *)
(* killed:                                                                 *)
(*   - a stop that returns without error has seen its QEMU go;             *)
(*   - a machine whose QEMU lives is not reported as Exited, unless a run  *)
(*     or a start is killed half way;                                      *)
(*   - when commands are issued one at a time, a guest that runs has a     *)
(*     record, and a machine that was removed leaves no files.             *)
(***************************************************************************)
EXTENDS QemuMachine, TLAPS

\* The leaves are for Zenon, but for those that name SMT.
USE Zenon

Removers == Removes \cup AutoRemove

\* A command works on a copy of a record from the moment it has read or made one.
HasCopy == Phases \ {"idle", "create", "get", "done", "failed"}
CopiesInv ==
    /\ TypeOK
    /\ \A c \in Commands : pc[c] = "create" => c \in Runs
    /\ \A c \in Commands : pc[c] \in HasCopy => copy[c] \in Record

\* Commands issued one at a time are at work one at a time; only a removal deletes.
TurnsInv ==
    /\ \A c \in Commands : pc[c] = "delete" => c \in Removers
    /\ serial => \A c, d \in Commands : pc[c] \in Active /\ pc[d] \in Active => c = d

\* A QEMU that answers has its machine.pid; a stop waits with the machine.pid of the
\* QEMU it told to quit in place, unless a removal has passed.
PidInv ==
    /\ \A u \in Uids : vmm[u] \in Attached => u \in pid
    /\ \A c \in Stops : pc[c] = "wait" /\ vmm[Uid(c)] = "dying"
          => Uid(c) \in pid \/ \E x \in Removers : pc[x] \in {"forget", "done"}

StopInv == CopiesInv /\ TurnsInv /\ PidInv

----------------------------------------------------------------------------
(* Records and sets of commands.                                           *)

LEMMA CommandSets ==
    /\ Runs \subseteq Commands /\ Starts \subseteq Commands /\ Stops \subseteq Commands
    /\ Removes \subseteq Commands /\ Removers \subseteq Commands /\ Uids = Runs
  BY ConstantsAssumption DEF Commands, Removers, Uids

LEMMA RecordState ==
    ASSUME NEW r \in Record, NEW s \in States
    PROVE  /\ [r EXCEPT !.state = s] \in Record /\ [r EXCEPT !.state = s].uid = r.uid
           /\ r.uid \in Uids
  BY DEF Record

LEMMA NewRecord ==
    ASSUME NEW u \in Uids, NEW s \in States
    PROVE  [uid |-> u, state |-> s] \in Record
  BY DEF Record


----------------------------------------------------------------------------
(* What one step of a command does to the others, to its own place and to  *)
(* the QEMUs.                                                              *)

Alone(c) ==
    /\ serial' = serial
    /\ \A x \in Commands \ {c} : pc'[x] = pc[x] /\ copy'[x] = copy[x]

Moves(c) ==
    /\ pc'[c] \in Active => pc[c] \in Active \/ Turn(c)
    /\ pc'[c] = "delete" => c \in Removers
    /\ pc[c] # "done" /\ (pc[c] = "forget" => pc'[c] = "done" \/ serial)

Steers(c) ==
    /\ pc'[c] = "wait" => Uid(c)' \in Uids /\ vmm[Uid(c)'] \in Attached /\ pid' = pid
    /\ \A u \in Uids :
          /\ vmm'[u] \in Attached => u \in pid' \/ (vmm[u] \in Attached /\ u \notin pid)
          /\ vmm'[u] = "dying" => \/ vmm[u] = "dying" /\ pid \subseteq pid'
                                  \/ vmm[u] = "dying" /\ pc'[c] = "forget" /\ c \in Removers
                                  \/ vmm[u] \in Attached /\ pid' = pid

\* A step that leaves QEMU alone: where it goes and what it writes is all that matters.
LEMMA Quietly ==
    ASSUME CopiesInv, NEW c \in Commands, NEW l \in Phases \ {"wait", "create"},
           UNCHANGED qemu, Goto(c, l), rec' \in Record \cup {None},
           copy' \in [Commands -> Record \cup {None}],
           \A x \in Commands \ {c} : copy'[x] = copy[x],
           l \in HasCopy => copy'[c] \in Record
    PROVE  CopiesInv' /\ Alone(c) /\ Steers(c) /\ pc'[c] = l
<1>1. pc \in [Commands -> Phases] /\ pc' = [pc EXCEPT ![c] = l] /\ serial' = serial
  BY DEF CopiesInv, TypeOK, Goto
<1>2. pc' \in [Commands -> Phases] /\ pc'[c] = l /\ \A x \in Commands \ {c} : pc'[x] = pc[x]
  BY <1>1
<1>3. TypeOK'
  BY <1>1, <1>2 DEF CopiesInv, TypeOK, qemu
<1>4. CopiesInv'
  BY <1>2, <1>3 DEF CopiesInv
<1>5. Alone(c) /\ Steers(c)
  BY <1>1, <1>2 DEF Alone, Steers, qemu
<1> QED BY <1>2, <1>4, <1>5

\* Reading the record.
LEMMA Loads ==
    ASSUME CopiesInv, NEW c \in Commands,
           NEW next \in [States -> Phases \ {"wait", "create"}], Load(c, next)
    PROVE  /\ CopiesInv' /\ Alone(c) /\ Steers(c)
           /\ pc'[c] = "failed" \/ \E s \in States : pc'[c] = next[s]
<1>1. rec \in Record /\ copy \in [Commands -> Record \cup {None}] /\ UNCHANGED qemu
  BY DEF CopiesInv, TypeOK, Load
<1>2. ASSUME NEW s \in Report(rec), copy' = [copy EXCEPT ![c] = [rec EXCEPT !.state = s]],
             rec' \in {rec, copy'[c]}, Goto(c, next[s])
      PROVE  CopiesInv' /\ Alone(c) /\ Steers(c) /\ \E t \in States : pc'[c] = next[t]
  <2>1. vmm \in [Uids -> Attached \cup {"none", "dying"}] /\ rec.uid \in Uids /\ rec.state \in States
    BY <1>1 DEF CopiesInv, TypeOK, Record
  <2>2. s \in States
    BY <2>1 DEF Report, States, Attached
  <2>3. [rec EXCEPT !.state = s] \in Record
    BY <1>1, <2>2, RecordState
  <2>4. /\ copy' \in [Commands -> Record \cup {None}] /\ copy'[c] \in Record
        /\ \A x \in Commands \ {c} : copy'[x] = copy[x]
    BY <1>1, <1>2, <2>3
  <2>5. rec' \in Record \cup {None} /\ next[s] \in Phases \ {"wait", "create"}
    BY <1>1, <1>2, <2>2, <2>4
  <2> QED BY <1>1, <1>2, <2>2, <2>4, <2>5, Quietly
<1>3. ASSUME Goto(c, "failed"), UNCHANGED <<rec, copy>>
      PROVE  CopiesInv' /\ Alone(c) /\ Steers(c) /\ pc'[c] = "failed"
  <2>1. "failed" \in Phases \ {"wait", "create"} /\ "failed" \notin HasCopy
    BY DEF Phases, HasCopy
  <2> QED BY <1>1, <1>3, <2>1, Quietly
<1> QED BY <1>2, <1>3 DEF Load

\* Giving up.
LEMMA Fails ==
    ASSUME CopiesInv, NEW c \in Commands, Fail(c)
    PROVE  CopiesInv' /\ Alone(c) /\ Steers(c) /\ pc'[c] = "failed"
<1>1. "failed" \in Phases \ {"wait", "create"} /\ "failed" \notin HasCopy
  BY DEF Phases, HasCopy
<1>2. rec' \in Record \cup {None} /\ copy' = copy /\ copy \in [Commands -> Record \cup {None}]
  BY DEF Fail, CopiesInv, TypeOK
<1> QED BY <1>1, <1>2, Quietly DEF Fail

----------------------------------------------------------------------------
(* The steps that leave QEMU alone.                                        *)

\* A command that is at one of these phases has a copy; these are where it may go.
LEMMA PhaseSets ==
    /\ {"get", "connect", "recreate", "cont", "started", "quit", "stopped", "pause", "paused",
        "delete", "forget", "follow", "done", "failed", "record"} \subseteq Phases \ {"wait", "create"}
    /\ {"record", "connect", "recreate", "cont", "started", "quit", "wait", "stopped", "pause",
        "paused", "delete", "forget", "follow"} \subseteq HasCopy
    /\ HasCopy \cap {"idle", "create", "get", "done", "failed"} = {}
    /\ {"done", "failed", "follow", "idle"} \cap Active = {}
    /\ {"create", "record", "get", "connect", "recreate", "cont", "started", "quit", "wait",
        "stopped", "pause", "paused", "delete", "forget"} \subseteq Active
  BY DEF Phases, HasCopy, Active

\* A step that only moves on, with its copy as it was, and may save it.
LEMMA Saves ==
    ASSUME CopiesInv, NEW c \in Commands, NEW l \in Phases \ {"wait", "create"},
           pc[c] \in HasCopy, UNCHANGED <<qemu, copy>>, rec' \in {rec, copy[c], None}, Goto(c, l)
    PROVE  CopiesInv' /\ Alone(c) /\ Steers(c) /\ pc'[c] = l
<1>1. /\ copy[c] \in Record /\ rec \in Record \cup {None} /\ copy' = copy
      /\ copy \in [Commands -> Record \cup {None}] /\ UNCHANGED qemu
  BY DEF CopiesInv, TypeOK
<1> QED BY <1>1, Quietly

LEMMA RunSteps ==
    ASSUME CopiesInv, NEW c \in Commands,
           AssignName(c) \/ CreateFails(c) \/ CreateRecord(c) \/ StartGetMissing(c)
    PROVE  CopiesInv' /\ Alone(c) /\ Moves(c) /\ Steers(c)
<1>1. /\ rec \in Record \cup {None} /\ copy \in [Commands -> Record \cup {None}]
      /\ pc \in [Commands -> Phases]
  BY DEF CopiesInv, TypeOK
<1>2. CASE AssignName(c)
  <2>1. /\ pc' = [pc EXCEPT ![c] = "create"] /\ serial' = serial /\ UNCHANGED <<rec, qemu, copy>>
        /\ pc[c] = "idle" /\ c \in Runs /\ Turn(c)
    BY <1>2 DEF AssignName, Goto
  <2>2. pc' \in [Commands -> Phases] /\ pc'[c] = "create" /\ \A x \in Commands \ {c} : pc'[x] = pc[x]
    BY <1>1, <2>1 DEF Phases, Active
  <2>3. TypeOK'
    BY <2>1, <2>2 DEF CopiesInv, TypeOK, qemu
  <2>4. CopiesInv'
    BY <2>1, <2>2, <2>3, PhaseSets DEF CopiesInv
  <2>5. Alone(c) /\ Moves(c) /\ Steers(c)
    BY <2>1, <2>2 DEF Alone, Moves, Steers, qemu
  <2> QED BY <2>4, <2>5
<1>3. CASE CreateFails(c)
  <2>1. pc[c] = "create" /\ UNCHANGED <<qemu, copy>> /\ Goto(c, "failed")
    BY <1>3 DEF CreateFails
  <2>2. c \in Uids /\ [uid |-> c, state |-> "failed"] \in Record
    BY <2>1, NewRecord DEF CopiesInv, Uids, States
  <2>3. rec' \in Record \cup {None}
    BY <1>1, <1>3, <2>2 DEF CreateFails
  <2>4. CopiesInv' /\ Alone(c) /\ Steers(c) /\ pc'[c] = "failed"
    BY <1>1, <2>1, <2>3, Quietly, PhaseSets
  <2>5. Moves(c)
    BY <2>1, <2>4, PhaseSets DEF Moves
  <2> QED BY <2>4, <2>5
<1>4. CASE CreateRecord(c)
  <2>1. PICK l \in {"get", "done"} : Goto(c, l)
    BY <1>4 DEF CreateRecord
  <2>2. pc[c] = "record" /\ UNCHANGED <<qemu, copy>> /\ rec' = copy[c]
    BY <1>4 DEF CreateRecord
  <2>3. CopiesInv' /\ Alone(c) /\ Steers(c) /\ pc'[c] = l
    BY <2>1, <2>2, Saves, PhaseSets
  <2>4. Moves(c)
    BY <2>1, <2>2, <2>3, PhaseSets DEF Moves
  <2> QED BY <2>3, <2>4
<1>5. CASE StartGetMissing(c)
  <2>1. pc[c] = "get" /\ UNCHANGED <<rec, qemu, copy>> /\ Goto(c, "failed")
    BY <1>5 DEF StartGetMissing
  <2>2. CopiesInv' /\ Alone(c) /\ Steers(c) /\ pc'[c] = "failed"
    BY <1>1, <2>1, Quietly, PhaseSets
  <2>3. Moves(c)
    BY <2>1, <2>2, PhaseSets DEF Moves
  <2> QED BY <2>2, <2>3
<1> QED BY <1>2, <1>3, <1>4, <1>5

LEMMA ListSteps ==
    ASSUME CopiesInv, NEW c \in Commands,
           StartGet(c) \/ StopList(c) \/ PauseList(c) \/ RmList(c)
    PROVE  CopiesInv' /\ Alone(c) /\ Moves(c) /\ Steers(c)
<1>1. ASSUME NEW next \in [States -> Phases \ {"wait", "create"}], Load(c, next),
             pc[c] = "get" \/ (pc[c] = "idle" /\ Turn(c)),
             \A s \in States : next[s] = "delete" => c \in Removers
      PROVE  CopiesInv' /\ Alone(c) /\ Moves(c) /\ Steers(c)
  <2>1. /\ CopiesInv' /\ Alone(c) /\ Steers(c)
        /\ pc'[c] = "failed" \/ \E s \in States : pc'[c] = next[s]
    BY <1>1, Loads
  <2>2. Moves(c)
    BY <1>1, <2>1, PhaseSets DEF Moves
  <2> QED BY <2>1, <2>2
<1>2. CASE StartGet(c)
  <2> DEFINE next == [s \in States |-> "connect"]
  <2>1. next \in [States -> Phases \ {"wait", "create"}] /\ \A s \in States : next[s] # "delete"
    BY PhaseSets
  <2>2. Load(c, next) /\ (pc[c] = "get" \/ (pc[c] = "idle" /\ Turn(c)))
    BY <1>2 DEF StartGet
  <2> HIDE DEF next
  <2> QED BY <1>1, <2>1, <2>2
<1>3. CASE StopList(c)
  <2> DEFINE next == [s \in States |-> IF s = "exited" THEN "done" ELSE "quit"]
  <2>1. next \in [States -> Phases \ {"wait", "create"}] /\ \A s \in States : next[s] # "delete"
    BY PhaseSets
  <2>2. Load(c, next) /\ pc[c] = "idle" /\ Turn(c)
    BY <1>3 DEF StopList
  <2> HIDE DEF next
  <2> QED BY <1>1, <2>1, <2>2
<1>4. CASE PauseList(c)
  <2> DEFINE next == [s \in States |-> IF s = "running" THEN "pause" ELSE "done"]
  <2>1. next \in [States -> Phases \ {"wait", "create"}] /\ \A s \in States : next[s] # "delete"
    BY PhaseSets
  <2>2. Load(c, next) /\ pc[c] = "idle" /\ Turn(c)
    BY <1>4 DEF PauseList
  <2> HIDE DEF next
  <2> QED BY <1>1, <2>1, <2>2
<1>5. CASE RmList(c)
  <2> DEFINE next == [s \in States |-> IF s = "running" THEN "quit" ELSE "delete"]
  <2>1. next \in [States -> Phases \ {"wait", "create"}]
    BY PhaseSets
  <2>2. Load(c, next) /\ pc[c] = "idle" /\ Turn(c) /\ c \in Removers
    BY <1>5 DEF RmList, Removers
  <2> HIDE DEF next
  <2> QED BY <1>1, <2>1, <2>2
<1> QED BY <1>2, <1>3, <1>4, <1>5

\* A failed stop gives up or, for a removal, goes on to delete.
LEMMA StopErrors ==
    ASSUME CopiesInv, NEW c \in Commands, pc[c] \in HasCopy, StopError(c)
    PROVE  /\ CopiesInv' /\ Alone(c) /\ Steers(c)
           /\ pc'[c] = "failed" \/ (pc'[c] = "delete" /\ c \in Removers)
<1>1. CASE c \in Removers
  <2>1. rec' \in {rec, copy[c]} /\ Goto(c, "delete") /\ UNCHANGED <<qemu, copy>>
    BY <1>1 DEF StopError, Removers
  <2> QED BY <1>1, <2>1, Saves, PhaseSets
<1>2. CASE c \notin Removers
  BY <1>2, Fails DEF StopError, Removers
<1> QED BY <1>1, <1>2

LEMMA SaveSteps ==
    ASSUME CopiesInv, TurnsInv, NEW c \in Commands,
           \/ StartConnect(c) \/ StartRecord(c) \/ FollowEnds(c) \/ StopWait(c) \/ StopTimeout(c)
           \/ StopRecord(c) \/ PauseRecord(c) \/ Forget(c)
    PROVE  CopiesInv' /\ Alone(c) /\ Moves(c) /\ Steers(c)
<1>1. ASSUME pc[c] \in HasCopy \ {"forget", "follow"}, NEW l \in Phases \ {"wait", "create"},
             rec' \in {rec, copy[c], None}, Goto(c, l), UNCHANGED <<qemu, copy>>,
             l = "delete" => c \in Removers
      PROVE  CopiesInv' /\ Alone(c) /\ Moves(c) /\ Steers(c)
  <2>1. CopiesInv' /\ Alone(c) /\ Steers(c) /\ pc'[c] = l
    BY <1>1, Saves
  <2>2. pc[c] \in Active
    BY <1>1 DEF HasCopy, Phases
  <2>3. Moves(c)
    BY <1>1, <2>1, <2>2, PhaseSets DEF Moves
  <2> QED BY <2>1, <2>3
<1>2. ASSUME pc[c] \in HasCopy \ {"forget", "follow"}, StopError(c) \/ Fail(c)
      PROVE  CopiesInv' /\ Alone(c) /\ Moves(c) /\ Steers(c)
  <2>1. /\ CopiesInv' /\ Alone(c) /\ Steers(c)
        /\ pc'[c] = "failed" \/ (pc'[c] = "delete" /\ c \in Removers)
    BY <1>2, StopErrors, Fails
  <2>2. pc[c] \in Active
    BY <1>2 DEF HasCopy, Phases
  <2>3. Moves(c)
    BY <1>2, <2>1, <2>2, PhaseSets DEF Moves
  <2> QED BY <2>1, <2>3
<1>3. CASE StartConnect(c)
  <2>1. pc[c] = "connect" /\ pc[c] \in HasCopy \ {"forget", "follow"}
    BY <1>3, PhaseSets DEF StartConnect
  <2>2. \/ Goto(c, "cont") /\ UNCHANGED <<rec, qemu, copy>>
        \/ Goto(c, "recreate") /\ UNCHANGED <<rec, qemu, copy>>
        \/ Fail(c)
    BY <1>3 DEF StartConnect
  <2>3. CASE Fail(c)
    BY <1>2, <2>1, <2>3
  <2>4. CASE Goto(c, "cont") /\ UNCHANGED <<rec, qemu, copy>>
    BY <1>1, <2>1, <2>4, PhaseSets
  <2>5. CASE Goto(c, "recreate") /\ UNCHANGED <<rec, qemu, copy>>
    BY <1>1, <2>1, <2>5, PhaseSets
  <2> QED BY <2>2, <2>3, <2>4, <2>5
<1>4. CASE StartRecord(c)
  <2>1. pc[c] \in HasCopy \ {"forget", "follow"}
    BY <1>4, PhaseSets DEF StartRecord
  <2>2. CASE Fail(c)
    BY <1>2, <2>1, <2>2
  <2>3. CASE rec' = copy[c] /\ Goto(c, "follow") /\ UNCHANGED <<qemu, copy>>
    BY <1>1, <2>1, <2>3, PhaseSets
  <2>4. CASE rec' = copy[c] /\ Goto(c, "done") /\ UNCHANGED <<qemu, copy>>
    BY <1>1, <2>1, <2>4, PhaseSets
  <2> QED BY <1>4, <2>2, <2>3, <2>4 DEF StartRecord
<1>5. CASE FollowEnds(c)
  <2>1. /\ pc[c] = "follow" /\ Turn(c) /\ Goto(c, "quit")
        /\ rec' = rec /\ copy' = copy /\ UNCHANGED qemu
    BY <1>5 DEF FollowEnds
  <2>2. CopiesInv' /\ Alone(c) /\ Steers(c) /\ pc'[c] = "quit"
    BY <2>1, Saves, PhaseSets
  <2>3. Moves(c)
    BY <2>1, <2>2 DEF Moves
  <2> QED BY <2>2, <2>3
<1>6. CASE StopWait(c)
  BY <1>1, <1>6, PhaseSets DEF StopWait
<1>7. CASE StopTimeout(c)
  BY <1>2, <1>7, PhaseSets DEF StopTimeout
<1>8. CASE StopRecord(c)
  <2>1. pc[c] \in HasCopy \ {"forget", "follow"} /\ rec' = copy[c] /\ UNCHANGED <<qemu, copy>>
    BY <1>8, PhaseSets DEF StopRecord
  <2>2. CASE c \in Removers
    BY <1>1, <1>8, <2>1, <2>2, PhaseSets DEF StopRecord, Removers
  <2>3. CASE c \notin Removers
    BY <1>1, <1>8, <2>1, <2>3, PhaseSets DEF StopRecord, Removers
  <2> QED BY <2>2, <2>3
<1>9. CASE PauseRecord(c)
  BY <1>1, <1>9, PhaseSets DEF PauseRecord
<1>10. CASE Forget(c)
  <2>1. pc[c] = "forget" /\ rec' = None /\ Goto(c, "done") /\ UNCHANGED <<qemu, copy>>
    BY <1>10 DEF Forget
  <2>2. CopiesInv' /\ Alone(c) /\ Steers(c) /\ pc'[c] = "done"
    BY <2>1, Saves, PhaseSets
  <2>3. Moves(c)
    BY <2>1, <2>2, PhaseSets DEF Moves
  <2> QED BY <2>2, <2>3
<1> QED BY <1>3, <1>4, <1>5, <1>6, <1>7, <1>8, <1>9, <1>10

----------------------------------------------------------------------------
(* The steps that start, steer, stop or remove QEMU.                       *)

\* Such a step leaves the record, or writes one, and puts one into its copy.
LEMMA Steering ==
    ASSUME CopiesInv, NEW c \in Commands, NEW l \in HasCopy, Goto(c, l),
           rec' \in Record \cup {None}, copy' \in [Commands -> Record \cup {None}],
           copy'[c] \in Record, \A x \in Commands \ {c} : copy'[x] = copy[x],
           vmm' \in [Uids -> Attached \cup {"none", "dying"}], pid' \subseteq Uids,
           sock' \subseteq Uids, orphan' \subseteq Uids \X Attached
    PROVE  CopiesInv' /\ Alone(c) /\ pc'[c] = l
<1>1. /\ pc \in [Commands -> Phases] /\ pc' = [pc EXCEPT ![c] = l] /\ serial' = serial
      /\ l \in Phases /\ l # "create"
  BY PhaseSets DEF CopiesInv, TypeOK, Goto, HasCopy
<1>2. pc' \in [Commands -> Phases] /\ pc'[c] = l /\ \A x \in Commands \ {c} : pc'[x] = pc[x]
  BY <1>1
<1>3. TypeOK'
  BY <1>1, <1>2 DEF CopiesInv, TypeOK
<1>4. CopiesInv'
  BY <1>1, <1>2, <1>3 DEF CopiesInv
<1> QED BY <1>1, <1>2, <1>4 DEF Alone

\* A command changes the state in its copy.
LEMMA Sets ==
    ASSUME CopiesInv, NEW c \in Commands, copy[c] \in Record, NEW s \in States, SetState(c, s)
    PROVE  /\ copy' \in [Commands -> Record \cup {None}] /\ copy'[c] \in Record
           /\ copy'[c].uid = copy[c].uid /\ copy[c].uid \in Uids
           /\ \A x \in Commands \ {c} : copy'[x] = copy[x]
<1>1. copy \in [Commands -> Record \cup {None}] /\ copy' = [copy EXCEPT ![c].state = s]
  BY DEF CopiesInv, TypeOK, SetState
<1>2. copy'[c] = [copy[c] EXCEPT !.state = s]
  BY <1>1
<1>3. copy'[c] \in Record /\ copy'[c].uid = copy[c].uid /\ copy[c].uid \in Uids
  BY <1>2, RecordState
<1> QED BY <1>1, <1>3

LEMMA QemuSteps ==
    ASSUME CopiesInv, TurnsInv, NEW c \in Commands,
           Create(c) \/ StartRecreate(c) \/ StartCont(c) \/ Stop(c) \/ Pause(c) \/ Delete(c)
    PROVE  CopiesInv' /\ Alone(c) /\ Moves(c) /\ Steers(c)
<1>1. /\ rec \in Record \cup {None} /\ copy \in [Commands -> Record \cup {None}]
      /\ vmm \in [Uids -> Attached \cup {"none", "dying"}] /\ pid \subseteq Uids
      /\ sock \subseteq Uids /\ orphan \subseteq Uids \X Attached
  BY DEF CopiesInv, TypeOK
<1>2. pc[c] \in HasCopy => copy[c] \in Record /\ Uid(c) \in Uids
  BY DEF CopiesInv, Record, Uid
<1>3. ASSUME NEW u \in Uids, Spawn(u), NEW l \in {"record", "cont"}, Goto(c, l), rec' = rec,
             pc[c] \in {"create", "recreate"},
             copy' \in [Commands -> Record \cup {None}], copy'[c] \in Record,
             \A x \in Commands \ {c} : copy'[x] = copy[x]
      PROVE  CopiesInv' /\ Alone(c) /\ Moves(c) /\ Steers(c)
  <2>1. /\ vmm' = [vmm EXCEPT ![u] = "prelaunch"] /\ pid' = pid \cup {u}
        /\ sock' = sock \cup {u} /\ orphan' = orphan
    BY <1>3 DEF Spawn
  <2>2. vmm' \in [Uids -> Attached \cup {"none", "dying"}]
    BY <1>1, <2>1 DEF Attached
  <2>3. CopiesInv' /\ Alone(c) /\ pc'[c] = l
    BY SMT, <1>1, <1>3, <2>1, <2>2, Steering, PhaseSets
  <2>4. Moves(c)
    BY <1>3, <2>3, PhaseSets DEF Moves
  <2>5. \A v \in Uids : /\ v # u => vmm'[v] = vmm[v] /\ (v \in pid => v \in pid')
                        /\ vmm'[u] = "prelaunch" /\ u \in pid' /\ pid \subseteq pid'
    BY <1>1, <2>1
  <2>6. \A v \in Uids : vmm'[v] \in Attached => v \in pid' \/ (vmm[v] \in Attached /\ v \notin pid)
    BY <1>1, <2>1
  <2> QED BY <2>3, <2>4, <2>5, <2>6 DEF Steers
<1>4. CASE Create(c)
  <2>1. pc[c] = "create" /\ Spawn(c) /\ Goto(c, "record") /\ rec' = rec
        /\ copy' = [copy EXCEPT ![c] = [uid |-> c, state |-> "created"]]
    BY <1>4 DEF Create
  <2>2. c \in Uids /\ [uid |-> c, state |-> "created"] \in Record
    BY <2>1, NewRecord DEF CopiesInv, Uids, States
  <2>3. /\ copy' \in [Commands -> Record \cup {None}] /\ copy'[c] \in Record
        /\ \A x \in Commands \ {c} : copy'[x] = copy[x]
    BY <1>1, <2>1, <2>2
  <2> QED BY <1>3, <2>1, <2>2, <2>3
<1>5. CASE StartRecreate(c)
  <2>1. pc[c] = "recreate" /\ copy[c] \in Record /\ Uid(c) \in Uids
    BY <1>2, <1>5, PhaseSets DEF StartRecreate
  <2>2. CASE Spawn(Uid(c)) /\ SetState(c, "created") /\ Goto(c, "cont") /\ rec' = rec
    BY <1>3, <2>1, <2>2, Sets DEF States
  <2>3. CASE /\ Goto(c, "failed") /\ UNCHANGED <<qemu, copy>>
             /\ rec' \in {rec, [copy[c] EXCEPT !.state = "failed"]}
    <3>1. rec' \in Record \cup {None}
      BY <1>1, <2>1, <2>3, RecordState DEF States
    <3>2. CopiesInv' /\ Alone(c) /\ Steers(c) /\ pc'[c] = "failed"
      BY <1>1, <2>3, <3>1, Quietly, PhaseSets
    <3>3. Moves(c)
      BY <2>1, <3>2, PhaseSets DEF Moves
    <3> QED BY <3>2, <3>3
  <2> QED BY <1>5, <2>2, <2>3 DEF StartRecreate
<1>6. ASSUME pc[c] \in {"cont", "pause"}, Fail(c)
      PROVE  CopiesInv' /\ Alone(c) /\ Moves(c) /\ Steers(c)
  BY <1>6, Fails, PhaseSets DEF Moves
<1>7. ASSUME pc[c] \in {"cont", "pause", "quit"}, NEW l \in {"started", "paused", "wait"}, Goto(c, l),
             NEW s \in States, SetState(c, s), UNCHANGED <<rec, pid, sock, orphan>>,
             NEW q \in Attached \cup {"dying"}, vmm[Uid(c)] \in Attached,
             vmm' = [vmm EXCEPT ![Uid(c)] = q], q = "dying" => l = "wait"
      PROVE  CopiesInv' /\ Alone(c) /\ Moves(c) /\ Steers(c)
  <2>1. copy[c] \in Record /\ Uid(c) \in Uids
    BY <1>2, <1>7, PhaseSets
  <2>2. /\ copy' \in [Commands -> Record \cup {None}] /\ copy'[c] \in Record /\ Uid(c)' = Uid(c)
        /\ \A x \in Commands \ {c} : copy'[x] = copy[x]
    BY <1>7, <2>1, Sets DEF Uid
  <2>3. vmm' \in [Uids -> Attached \cup {"none", "dying"}]
    BY <1>1, <1>7
  <2>4. CopiesInv' /\ Alone(c) /\ pc'[c] = l
    BY SMT, <1>1, <1>7, <2>2, <2>3, Steering, PhaseSets
  <2>5. Moves(c)
    BY <1>7, <2>4, PhaseSets DEF Moves
  <2>6. pid' = pid /\ \A v \in Uids : vmm'[v] = vmm[v] \/ (v = Uid(c) /\ vmm[v] \in Attached)
    BY <1>1, <1>7
  <2>7. Steers(c)
    BY <1>7, <2>1, <2>2, <2>6 DEF Steers
  <2> QED BY <2>4, <2>5, <2>7
<1>8. CASE StartCont(c)
  <2>1. "running" \in States /\ "running" \in Attached \cup {"dying"} /\ "running" # "dying"
    BY DEF States, Attached
  <2> QED BY <1>6, <1>7, <1>8, <2>1 DEF StartCont
<1>9. CASE Stop(c)
  <2>1. pc[c] = "quit" /\ copy[c] \in Record /\ pc[c] \in HasCopy
    BY <1>2, <1>9, PhaseSets DEF Stop
  <2>2. CASE /\ vmm[Uid(c)] \in Attached /\ vmm' = [vmm EXCEPT ![Uid(c)] = "dying"]
             /\ SetState(c, "exited") /\ Goto(c, "wait") /\ UNCHANGED <<rec, pid, sock, orphan>>
    BY <1>7, <2>1, <2>2 DEF States
  <2>3. CASE SetState(c, "exited") /\ Goto(c, "stopped") /\ UNCHANGED <<rec, qemu>>
    <3>1. /\ copy' \in [Commands -> Record \cup {None}] /\ copy'[c] \in Record
          /\ \A x \in Commands \ {c} : copy'[x] = copy[x]
      BY <2>1, <2>3, Sets DEF States
    <3>2. CopiesInv' /\ Alone(c) /\ Steers(c) /\ pc'[c] = "stopped"
      BY <1>1, <2>3, <3>1, Quietly, PhaseSets
    <3>3. Moves(c)
      BY <2>1, <3>2, PhaseSets DEF Moves
    <3> QED BY <3>2, <3>3
  <2>4. CASE StopError(c)
    <3>1. /\ CopiesInv' /\ Alone(c) /\ Steers(c)
          /\ pc'[c] = "failed" \/ (pc'[c] = "delete" /\ c \in Removers)
      BY <2>1, <2>4, StopErrors
    <3>2. Moves(c)
      BY <2>1, <3>1, PhaseSets DEF Moves
    <3> QED BY <3>1, <3>2
  <2> QED BY <1>9, <2>2, <2>3, <2>4 DEF Stop
<1>10. CASE Pause(c)
  <2>1. CASE Fail(c)
    BY <1>6, <1>10, <2>1 DEF Pause
  <2>2. CASE /\ Uid(c) \in sock /\ vmm[Uid(c)] \in Attached
             /\ vmm' = [vmm EXCEPT ![Uid(c)] = IF @ = "running" THEN "paused" ELSE @]
             /\ SetState(c, "paused") /\ Goto(c, "paused") /\ UNCHANGED <<rec, pid, sock, orphan>>
    <3> DEFINE q == IF vmm[Uid(c)] = "running" THEN "paused" ELSE vmm[Uid(c)]
    <3>1. q \in Attached /\ q # "dying" /\ vmm' = [vmm EXCEPT ![Uid(c)] = q]
      BY <2>2 DEF Attached
    <3>2. pc[c] = "pause" /\ "paused" \in States
      BY <1>10 DEF Pause, States
    <3> HIDE DEF q
    <3> QED BY <1>7, <2>2, <3>1, <3>2
  <2> QED BY <1>10, <2>1, <2>2 DEF Pause
<1>11. CASE Delete(c)
  <2>1. /\ pc[c] = "delete" /\ Goto(c, "forget") /\ rec' = rec /\ copy' = copy
        /\ pid' = pid \ {Uid(c)} /\ sock' = sock \ {Uid(c)}
    BY <1>11 DEF Delete
  <2>2. copy[c] \in Record /\ Uid(c) \in Uids /\ c \in Removers
    BY <1>2, <2>1, PhaseSets DEF TurnsInv
  <2>3. /\ vmm' \in [Uids -> Attached \cup {"none", "dying"}] /\ orphan' \subseteq Uids \X Attached
        /\ \A v \in Uids \ {Uid(c)} : vmm'[v] = vmm[v]
        /\ vmm'[Uid(c)] \notin Attached /\ (vmm'[Uid(c)] = "dying" => vmm[Uid(c)] = "dying")
    <3>1. CASE /\ vmm[Uid(c)] \in Attached
               /\ orphan' = orphan \cup {<<Uid(c), vmm[Uid(c)]>>}
               /\ vmm' = [vmm EXCEPT ![Uid(c)] = "none"]
      BY SMT, <1>1, <2>2, <3>1 DEF Attached
    <3>2. CASE vmm[Uid(c)] \notin Attached /\ orphan' = orphan /\ vmm' = vmm
      BY <1>1, <3>2
    <3> QED BY <1>11, <3>1, <3>2 DEF Delete
  <2>4. CopiesInv' /\ Alone(c) /\ pc'[c] = "forget"
    BY <1>1, <2>1, <2>2, <2>3, Steering, PhaseSets
  <2>5. Moves(c)
    BY <2>1, <2>4, PhaseSets DEF Moves
  <2>6. \A v \in Uids : v # Uid(c) => (v \in pid' <=> v \in pid)
    BY <2>1
  <2> QED BY <2>2, <2>3, <2>4, <2>5, <2>6 DEF Steers
<1> QED BY <1>4, <1>5, <1>8, <1>9, <1>10, <1>11

----------------------------------------------------------------------------
(* The invariant.                                                          *)

LEMMA CrashStep ==
    ASSUME CopiesInv, NEW c \in Commands, Crash(c)
    PROVE  CopiesInv' /\ Alone(c) /\ Moves(c) /\ Steers(c)
<1>1. serial /\ pc[c] \in Active \cup {"follow"} /\ Goto(c, "failed") /\ UNCHANGED <<rec, qemu, copy>>
  BY DEF Crash
<1>2. rec \in Record \cup {None} /\ copy \in [Commands -> Record \cup {None}]
  BY DEF CopiesInv, TypeOK
<1>3. CopiesInv' /\ Alone(c) /\ Steers(c) /\ pc'[c] = "failed"
  BY <1>1, <1>2, Quietly, PhaseSets
<1>4. Moves(c)
  BY <1>1, <1>3, PhaseSets DEF Moves
<1> QED BY <1>3, <1>4

LEMMA CommandStep ==
    ASSUME StopInv, NEW c \in Commands, Step(c) \/ Crash(c)
    PROVE  StopInv'
<1>1. CopiesInv' /\ Alone(c) /\ Moves(c) /\ Steers(c)
  BY RunSteps, ListSteps, SaveSteps, QemuSteps, CrashStep DEF StopInv, Step
<1>2. \A x \in Commands : pc'[x] = "delete" => x \in Removers
  BY <1>1 DEF StopInv, TurnsInv, Alone, Moves
<1>3. ASSUME serial', NEW x \in Commands, NEW y \in Commands, pc'[x] \in Active, pc'[y] \in Active
      PROVE  x = y
  <2>1. serial
    BY <1>1, <1>3 DEF Alone
  <2>2. Turn(c) => \A z \in Commands : pc[z] \notin Active
    BY <2>1 DEF Turn
  <2>3. \A z \in Commands \ {c} : pc'[z] = pc[z]
    BY <1>1 DEF Alone
  <2>4. pc'[c] \in Active => pc[c] \in Active \/ Turn(c)
    BY <1>1 DEF Moves
  <2>5. \A z, w \in Commands : pc[z] \in Active /\ pc[w] \in Active => z = w
    BY <2>1 DEF StopInv, TurnsInv
  <2> QED BY <1>3, <2>2, <2>3, <2>4, <2>5
<1>4. TurnsInv'
  BY <1>2, <1>3 DEF TurnsInv
<1>5. \A u \in Uids : vmm'[u] \in Attached => u \in pid'
  BY <1>1 DEF StopInv, PidInv, Steers
<1>6. ASSUME NEW s \in Stops, pc'[s] = "wait", vmm'[Uid(s)'] = "dying"
      PROVE  Uid(s)' \in pid' \/ \E x \in Removers : pc'[x] \in {"forget", "done"}
  <2>1. CASE s = c
    <3>1. Uid(c)' \in Uids /\ vmm[Uid(c)'] \in Attached /\ pid' = pid
      BY <1>1, <1>6, <2>1 DEF Steers
    <3> QED BY <2>1, <3>1 DEF StopInv, PidInv
  <2>2. CASE s # c
    <3>1. s \in Commands /\ pc[s] = "wait" /\ Uid(s)' = Uid(s) /\ copy[s] \in Record
      BY <1>1, <1>6, <2>2, CommandSets, PhaseSets DEF Alone, Uid, StopInv, CopiesInv
    <3>2. Uid(s) \in Uids /\ vmm'[Uid(s)] = "dying"
      BY <1>6, <3>1 DEF Uid, Record
    <3>3. CASE vmm[Uid(s)] \in Attached /\ pid' = pid
      BY <3>1, <3>2, <3>3 DEF StopInv, PidInv
    <3>4. CASE pc'[c] = "forget" /\ c \in Removers
      BY <3>4
    <3>5. CASE vmm[Uid(s)] = "dying" /\ pid \subseteq pid'
      <4>1. Uid(s) \in pid \/ \E x \in Removers : pc[x] \in {"forget", "done"}
        BY <3>1, <3>5 DEF StopInv, PidInv
      <4>2. CASE Uid(s) \in pid
        BY <3>1, <3>5, <4>2
      <4>3. ASSUME NEW x \in Removers, pc[x] \in {"forget", "done"}
            PROVE  pc'[x] \in {"forget", "done"}
        <5>1. CASE x # c
          BY <1>1, <4>3, <5>1, CommandSets DEF Alone
        <5>2. CASE x = c
          <6>1. pc[c] = "forget" /\ (pc'[c] = "done" \/ serial)
            BY <1>1, <4>3, <5>2 DEF Moves
          <6>2. ~serial
            BY <2>2, <3>1, <6>1, PhaseSets DEF StopInv, TurnsInv
          <6> QED BY <5>2, <6>1, <6>2
        <5> QED BY <5>1, <5>2
      <4> QED BY <4>1, <4>2, <4>3
    <3> QED BY <1>1, <3>2, <3>3, <3>4, <3>5 DEF Steers
  <2> QED BY <2>1, <2>2
<1>7. PidInv'
  BY <1>5, <1>6 DEF PidInv
<1> QED BY <1>1, <1>4, <1>7 DEF StopInv

LEMMA VmmStep ==
    ASSUME StopInv, NEW u \in Uids, VmmExit(u) \/ VmmKilled(u)
    PROVE  StopInv'
<1>1. /\ UNCHANGED <<rec, orphan, copy, serial, pc>> /\ vmm' = [vmm EXCEPT ![u] = "none"]
      /\ pid' \in {pid, pid \ {u}} /\ sock' \in {sock, sock \ {u}}
  BY DEF VmmExit, VmmKilled
<1>2. vmm \in [Uids -> Attached \cup {"none", "dying"}]
  BY DEF StopInv, CopiesInv, TypeOK
<1>3. /\ vmm' \in [Uids -> Attached \cup {"none", "dying"}]
      /\ vmm'[u] = "none" /\ \A v \in Uids \ {u} : vmm'[v] = vmm[v] /\ (v \in pid => v \in pid')
  BY <1>1, <1>2
<1>4. CopiesInv'
  BY <1>1, <1>3 DEF StopInv, CopiesInv, TypeOK
<1>5. TurnsInv'
  BY <1>1 DEF StopInv, TurnsInv
<1>6. \A c \in Stops : pc[c] = "wait" => Uid(c)' = Uid(c) /\ Uid(c) \in Uids
  BY <1>1, CommandSets, PhaseSets DEF Uid, StopInv, CopiesInv, Record
<1>7. "none" \notin Attached
  BY DEF Attached
<1>8. PidInv'
  BY <1>1, <1>3, <1>6, <1>7 DEF StopInv, PidInv
<1> QED BY <1>4, <1>5, <1>8 DEF StopInv

\* StopInv holds in every behaviour of the machine's commands and of QEMU.
THEOREM StopInvariant == Spec => []StopInv
<1>1. Init => StopInv
  <2> SUFFICES ASSUME Init PROVE StopInv
    OBVIOUS
  <2>1. \A c \in Commands : pc[c] = "idle"
    BY DEF Init
  <2>2. TypeOK
    BY ConstantsAssumption DEF Init, TypeOK, Phases
  <2>3. CopiesInv /\ TurnsInv
    BY <2>1, <2>2, PhaseSets DEF CopiesInv, TurnsInv
  <2>4. PidInv
    BY <2>1, CommandSets DEF Init, PidInv, Attached
  <2> QED BY <2>3, <2>4 DEF StopInv
<1>2. StopInv /\ [Next]_vars => StopInv'
  <2> SUFFICES ASSUME StopInv, [Next]_vars PROVE StopInv'
    OBVIOUS
  <2>1. CASE UNCHANGED vars
    <3>1. CopiesInv'
      BY <2>1 DEF vars, StopInv, CopiesInv, TypeOK
    <3>2. TurnsInv'
      BY <2>1 DEF vars, StopInv, TurnsInv
    <3>3. PidInv'
      BY <2>1 DEF vars, StopInv, PidInv, Uid
    <3> QED BY <3>1, <3>2, <3>3 DEF StopInv
  <2> QED BY <2>1, CommandStep, VmmStep DEF Next
<1> QED BY <1>1, <1>2, PTL DEF Spec

\* QEMU Stop 957-993: a stop whose wait for machine.pid ends has seen the QEMU it told to
\* quit go, whoever else starts, pauses, stops or kills it meanwhile, as long as no
\* removal has taken the machine.pid away.
THEOREM StopsAreWaitedFor == Spec => StopMeansGone
<1>1. StopInv => (\A c \in Stops :
          StopWait(c) /\ (\A x \in Removes \cup AutoRemove : pc[x] \notin {"forget", "done"})
          => vmm[Uid(c)] # "dying")
  BY DEF StopInv, PidInv, StopWait, Removers
<1> QED BY <1>1, StopInvariant, PTL DEF StopMeansGone

----------------------------------------------------------------------------
(* A machine that lives is not reported as Exited.                          *)

\* A QEMU that answers has its socket.
SockInv == \A u \in Uids : vmm[u] \in Attached => u \in sock

\* Before a run has made its machine nobody knows its UID.
FreshInv ==
    \A c \in Runs : pc[c] \in {"idle", "create"} =>
        /\ rec # None => rec.uid # c
        /\ \A d \in Commands : pc[d] \in HasCopy => Uid(d) # c

\* A QEMU that has not been started is Exited to nobody, but while a start that made it
\* anew is about to continue it.
Exited(u) == rec # None /\ rec.uid = u /\ rec.state = "exited"
Holds(c, u) == pc[c] \in HasCopy /\ Uid(c) = u /\ copy[c].state = "exited"
NewInv ==
    \A u \in Uids : vmm[u] = "prelaunch" /\ (\A c \in Commands : pc[c] = "cont" => Uid(c) # u) =>
        ~Exited(u) /\ \A c \in Commands : ~Holds(c, u)

AliveInv == StopInv /\ SockInv /\ FreshInv /\ NewInv

\* The UIDs and the states that a step takes up.
Known(c, u) ==
    \/ rec # None /\ rec.uid = u
    \/ pc[c] \in HasCopy /\ Uid(c) = u
    \/ pc[c] = "create" /\ u = c
Tracks(c) ==
    /\ pc'[c] # "idle" /\ (pc'[c] = "create" => pc[c] = "idle")
    /\ rec' # None => Known(c, rec'.uid)
    /\ pc'[c] \in HasCopy => Known(c, copy'[c].uid)
Tells(c) ==
    \A u \in Uids : vmm[u] = "prelaunch" /\ vmm'[u] = "prelaunch" /\ (Exited(u)' \/ Holds(c, u)')
        => Exited(u) \/ Holds(c, u)
Plugs(c) ==
    /\ \A u \in Uids : vmm'[u] \in Attached => u \in sock' \/ (vmm[u] \in Attached /\ u \notin sock)
    /\ pc[c] = "cont" => vmm'[Uid(c)] # "prelaunch"
    /\ \A u \in Uids : vmm'[u] = "prelaunch" =>
          \/ vmm[u] = "prelaunch"
          \/ pc'[c] = "cont" /\ copy'[c].uid = u
          \/ pc[c] = "create" /\ u = c /\ rec' = rec /\ copy'[c].state = "created"

\* What a step that leaves QEMU alone may do with the record and the copy.
LEMMA QuietTracks ==
    ASSUME StopInv, NEW c \in Commands, NEW l \in Phases, Goto(c, l), UNCHANGED qemu,
           l # "idle", l = "create" => pc[c] = "idle",
           pc[c] = "cont" => vmm[Uid(c)] \notin Attached,
           rec' # None => \/ rec # None /\ rec'.uid = rec.uid
                          \/ pc[c] \in HasCopy /\ rec'.uid = Uid(c)
                          \/ pc[c] = "create" /\ rec'.uid = c,
           l \in HasCopy => \/ rec # None /\ copy'[c].uid = rec.uid
                            \/ pc[c] \in HasCopy /\ copy'[c].uid = Uid(c),
           \A u \in Uids :
              /\ vmm[u] = "prelaunch"
              /\ Exited(u)' \/ (l \in HasCopy /\ copy'[c].uid = u /\ copy'[c].state = "exited")
              => Exited(u) \/ Holds(c, u)
    PROVE  Tracks(c) /\ Tells(c) /\ Plugs(c)
<1>1. pc'[c] = l
  BY DEF StopInv, CopiesInv, TypeOK, Goto
<1>2. Tracks(c)
  BY <1>1 DEF Tracks, Known
<1>3. Tells(c)
  BY <1>1 DEF Tells, Holds, Uid
<1>4. Plugs(c)
  BY DEF Plugs, qemu, Attached
<1> QED BY <1>2, <1>3, <1>4

\* A step that moves on with its copy as it was, and may save or forget it.
LEMMA SavesTracks ==
    ASSUME StopInv, NEW c \in Commands, NEW l \in Phases, Goto(c, l), UNCHANGED <<qemu, copy>>,
           l # "idle", l # "create", pc[c] \in HasCopy, rec' \in {rec, copy[c], None},
           pc[c] = "cont" => vmm[Uid(c)] \notin Attached
    PROVE  Tracks(c) /\ Tells(c) /\ Plugs(c)
<1>1. copy' = copy /\ UNCHANGED qemu
  OBVIOUS
<1>2. rec' # None => \/ rec # None /\ rec'.uid = rec.uid
                     \/ pc[c] \in HasCopy /\ rec'.uid = Uid(c)
  BY DEF Uid
<1>3. copy'[c].uid = Uid(c)
  BY <1>1 DEF Uid
<1>4. \A u \in Uids : Exited(u)' \/ (l \in HasCopy /\ copy'[c].uid = u /\ copy'[c].state = "exited")
              => Exited(u) \/ Holds(c, u)
  BY <1>1 DEF Exited, Holds, Uid
<1> QED BY <1>1, <1>2, <1>3, <1>4, QuietTracks

\* Reading the record tells Exited only of a QEMU that is gone or going.
LEMMA LoadTracks ==
    ASSUME StopInv, NEW c \in Commands, NEW next \in [States -> Phases \ {"idle", "create"}], Load(c, next),
           pc[c] # "cont"
    PROVE  Tracks(c) /\ Tells(c) /\ Plugs(c)
<1>1. rec \in Record /\ rec # None /\ UNCHANGED qemu /\ copy \in [Commands -> Record \cup {None}]
  BY DEF StopInv, CopiesInv, TypeOK, Load
<1>2. ASSUME NEW s \in Report(rec), copy' = [copy EXCEPT ![c] = [rec EXCEPT !.state = s]],
             rec' \in {rec, copy'[c]}, Goto(c, next[s])
      PROVE  Tracks(c) /\ Tells(c) /\ Plugs(c)
  <2>1. vmm \in [Uids -> Attached \cup {"none", "dying"}] /\ rec.uid \in Uids /\ rec.state \in States
    BY <1>1 DEF StopInv, CopiesInv, TypeOK, Record
  <2>2. s \in States /\ (vmm[rec.uid] = "prelaunch" => s = rec.state)
    BY <2>1 DEF Report, States, Attached, StopInv, PidInv
  <2>3. /\ copy'[c] = [rec EXCEPT !.state = s]
        /\ copy'[c].uid = rec.uid /\ copy'[c].state = s
    <3>1. copy'[c] = [rec EXCEPT !.state = s]
      BY <1>1, <1>2
    <3>2. [rec EXCEPT !.state = s].uid = rec.uid /\ [rec EXCEPT !.state = s].state = s
      BY <1>1, <2>2 DEF Record
    <3> QED BY <3>1, <3>2
  <2>4. rec' # None => rec'.uid = rec.uid
    BY <1>2, <2>3
  <2>5. ASSUME NEW u \in Uids, vmm[u] = "prelaunch",
               Exited(u)' \/ (copy'[c].uid = u /\ copy'[c].state = "exited")
        PROVE  Exited(u)
    <3>1. rec' = rec \/ rec' = copy'[c]
      BY <1>2
    <3>2. CASE Exited(u) /\ rec' = rec
      BY <3>2
    <3>3. CASE rec'.uid = u /\ rec'.state = "exited" /\ rec' = copy'[c]
      BY <1>1, <2>2, <2>3, <2>5, <3>3 DEF Exited
    <3>4. CASE copy'[c].uid = u /\ copy'[c].state = "exited"
      BY <1>1, <2>2, <2>3, <2>5, <3>4 DEF Exited
    <3> QED BY <2>5, <3>1, <3>2, <3>3, <3>4 DEF Exited
  <2>6. next[s] \in Phases /\ next[s] # "idle" /\ next[s] # "create"
    BY <2>2
  <2> QED BY <1>1, <1>2, <2>3, <2>4, <2>5, <2>6, QuietTracks
<1>3. ASSUME Goto(c, "failed"), UNCHANGED <<rec, copy>>
      PROVE  Tracks(c) /\ Tells(c) /\ Plugs(c)
  <2>1. "failed" \in Phases /\ "failed" \notin HasCopy
    BY PhaseSets
  <2>2. rec' = rec /\ \A u \in Uids : Exited(u)' => Exited(u)
    BY <1>3 DEF Exited
  <2> QED BY <1>1, <1>3, <2>1, <2>2, QuietTracks
<1> QED BY <1>2, <1>3 DEF Load

\* The commands that begin by reading the record, and where they may go from there: what
\* runs is not deleted at once, and only a start connects.
LEMMA Listing ==
    ASSUME NEW c \in Commands, StartGet(c) \/ StopList(c) \/ PauseList(c) \/ RmList(c)
    PROVE  /\ pc[c] \in {"get", "idle"}
           /\ \E next \in [States -> {"connect", "done", "quit", "pause", "delete"}] :
                 /\ Load(c, next) /\ next["running"] # "delete"
                 /\ \A s \in States : next[s] = "connect" => StartGet(c)
<1>1. pc[c] \in {"get", "idle"}
  BY DEF StartGet, StopList, PauseList, RmList
<1>2. "running" \in States
  BY DEF States
<1>3. ASSUME NEW next \in [States -> {"connect", "done", "quit", "pause", "delete"}], Load(c, next),
             next["running"] # "delete", \A s \in States : next[s] = "connect" => StartGet(c)
      PROVE  \E n \in [States -> {"connect", "done", "quit", "pause", "delete"}] :
                 /\ Load(c, n) /\ n["running"] # "delete"
                 /\ \A s \in States : n[s] = "connect" => StartGet(c)
  BY <1>3
<1>4. CASE StartGet(c)
  <2> DEFINE next == [s \in States |-> "connect"]
  <2>1. /\ next \in [States -> {"connect", "done", "quit", "pause", "delete"}] /\ Load(c, next)
        /\ next["running"] # "delete"
    BY <1>2, <1>4 DEF StartGet
  <2> QED BY <1>1, <1>3, <1>4, <2>1
<1>5. CASE StopList(c)
  <2> DEFINE next == [s \in States |-> IF s = "exited" THEN "done" ELSE "quit"]
  <2>1. /\ next \in [States -> {"connect", "done", "quit", "pause", "delete"}] /\ Load(c, next)
        /\ next["running"] # "delete" /\ \A s \in States : next[s] # "connect"
    BY <1>2, <1>5 DEF StopList
  <2> QED BY <1>1, <1>3, <2>1
<1>6. CASE PauseList(c)
  <2> DEFINE next == [s \in States |-> IF s = "running" THEN "pause" ELSE "done"]
  <2>1. /\ next \in [States -> {"connect", "done", "quit", "pause", "delete"}] /\ Load(c, next)
        /\ next["running"] # "delete" /\ \A s \in States : next[s] # "connect"
    BY <1>2, <1>6 DEF PauseList
  <2> QED BY <1>1, <1>3, <2>1
<1>7. CASE RmList(c)
  <2> DEFINE next == [s \in States |-> IF s = "running" THEN "quit" ELSE "delete"]
  <2>1. /\ next \in [States -> {"connect", "done", "quit", "pause", "delete"}] /\ Load(c, next)
        /\ next["running"] # "delete" /\ \A s \in States : next[s] # "connect"
    BY <1>2, <1>7 DEF RmList
  <2> QED BY <1>1, <1>3, <2>1
<1> QED BY <1>4, <1>5, <1>6, <1>7

\* A run that has read nothing moves on.
LEMMA RunTracks ==
    ASSUME StopInv, NEW c \in Commands,
           AssignName(c) \/ CreateFails(c) \/ StartGetMissing(c)
    PROVE  Tracks(c) /\ Tells(c) /\ Plugs(c)
<1>1. PICK l \in {"create", "failed"} :
         /\ Goto(c, l) /\ UNCHANGED qemu /\ (l = "create" => pc[c] = "idle") /\ pc[c] # "cont"
         /\ \/ rec' = rec
            \/ pc[c] = "create" /\ rec' = [uid |-> c, state |-> "failed"]
  BY DEF AssignName, CreateFails, StartGetMissing
<1>2. l \in Phases /\ l \notin HasCopy /\ l # "idle"
  BY <1>1, PhaseSets DEF Phases, Active
<1>3. rec' # None => \/ rec # None /\ rec'.uid = rec.uid
                     \/ pc[c] = "create" /\ rec'.uid = c
  BY <1>1, SMT
<1>4. \A u \in Uids : Exited(u)' => Exited(u)
  BY <1>1, SMT DEF Exited
<1> QED BY <1>1, <1>2, <1>3, <1>4, QuietTracks

\* A command reads the record.
LEMMA ListTracks ==
    ASSUME StopInv, NEW c \in Commands,
           StartGet(c) \/ StopList(c) \/ PauseList(c) \/ RmList(c)
    PROVE  Tracks(c) /\ Tells(c) /\ Plugs(c)
<1>1. PICK next \in [States -> {"connect", "done", "quit", "pause", "delete"}] : Load(c, next)
  BY Listing
<1>2. next \in [States -> Phases \ {"idle", "create"}]
  BY PhaseSets
<1>3. pc[c] # "cont"
  BY Listing
<1> QED BY <1>1, <1>2, <1>3, LoadTracks

\* A step that moves on with its copy as it was.
LEMMA SaveTracks ==
    ASSUME StopInv, NEW c \in Commands,
           \/ CreateRecord(c) \/ StartConnect(c) \/ StartRecord(c) \/ FollowEnds(c) \/ StopWait(c)
           \/ StopTimeout(c) \/ StopRecord(c) \/ PauseRecord(c) \/ Forget(c)
           \/ (pc[c] \in {"cont", "pause"} /\ (pc[c] = "cont" => vmm[Uid(c)] \notin Attached) /\ Fail(c))
           \/ (pc[c] = "quit" /\ StopError(c))
    PROVE  Tracks(c) /\ Tells(c) /\ Plugs(c)
<1>1. PICK l \in {"get", "done", "cont", "recreate", "follow", "quit", "stopped", "delete", "failed"} :
         Goto(c, l) /\ UNCHANGED <<qemu, copy>> /\ rec' \in {rec, copy[c], None}
  <2>1. CASE CreateRecord(c) \/ StartConnect(c) \/ StartRecord(c)
    BY <2>1 DEF CreateRecord, StartConnect, StartRecord, Fail
  <2>2. CASE FollowEnds(c) \/ StopWait(c) \/ StopTimeout(c) \/ (pc[c] = "quit" /\ StopError(c))
    BY <2>2 DEF FollowEnds, StopWait, StopTimeout, StopError, Fail
  <2>3. CASE StopRecord(c) \/ PauseRecord(c) \/ Forget(c) \/ Fail(c)
    BY <2>3 DEF StopRecord, PauseRecord, Forget, Fail
  <2> QED BY <2>1, <2>2, <2>3
<1>2. pc[c] \in HasCopy /\ (pc[c] = "cont" => vmm[Uid(c)] \notin Attached)
  <2>1. CASE CreateRecord(c) \/ StartConnect(c) \/ StartRecord(c) \/ FollowEnds(c)
    BY <2>1, PhaseSets DEF CreateRecord, StartConnect, StartRecord, FollowEnds
  <2>2. CASE StopWait(c) \/ StopTimeout(c) \/ StopRecord(c) \/ PauseRecord(c) \/ Forget(c)
    BY <2>2, PhaseSets DEF StopWait, StopTimeout, StopRecord, PauseRecord, Forget
  <2>3. pc[c] \in {"cont", "pause", "quit"} => pc[c] \in HasCopy
    BY PhaseSets
  <2> QED BY <2>1, <2>2, <2>3
<1>3. l \in Phases /\ l # "idle" /\ l # "create"
  BY PhaseSets
<1> QED BY <1>1, <1>2, <1>3, SavesTracks

\* The steps that set the state of the copy: what they say of the UID, and of Exited.
LEMMA SetTracks ==
    ASSUME StopInv, NEW c \in Commands, pc[c] \in HasCopy, NEW s \in States, SetState(c, s), rec' = rec,
           NEW l \in HasCopy, Goto(c, l), s = "exited" => vmm[Uid(c)] # "prelaunch"
    PROVE  /\ Tracks(c) /\ Tells(c) /\ pc'[c] = l
           /\ copy'[c].uid = Uid(c) /\ Uid(c) \in Uids /\ copy'[c].state = s
<1>1. /\ copy \in [Commands -> Record \cup {None}] /\ copy[c] \in Record /\ pc'[c] = l
      /\ l # "idle" /\ l # "create"
  BY PhaseSets DEF StopInv, CopiesInv, TypeOK, Goto
<1>2. copy'[c] = [copy[c] EXCEPT !.state = s]
  BY <1>1 DEF SetState
<1>3. [copy[c] EXCEPT !.state = s].uid = copy[c].uid /\ [copy[c] EXCEPT !.state = s].state = s
      /\ copy[c].uid \in Uids
  BY <1>1 DEF Record
<1>4. copy'[c].uid = Uid(c) /\ Uid(c) \in Uids /\ copy'[c].state = s
  BY <1>2, <1>3 DEF Uid
<1>5. Tracks(c)
  BY <1>1, <1>4 DEF Tracks, Known
<1>6. Tells(c)
  BY <1>4 DEF Tells, Exited, Holds, Uid
<1> QED BY <1>1, <1>4, <1>5, <1>6

\* A step that makes a QEMU or steers it.
LEMMA QemuTracks ==
    ASSUME StopInv, SockInv, NEW c \in Commands,
           Create(c) \/ StartRecreate(c) \/ StartCont(c) \/ Stop(c) \/ Pause(c) \/ Delete(c)
    PROVE  Tracks(c) /\ Tells(c) /\ Plugs(c)
<1>1. /\ rec \in Record \cup {None} /\ copy \in [Commands -> Record \cup {None}]
      /\ vmm \in [Uids -> Attached \cup {"none", "dying"}] /\ pc \in [Commands -> Phases]
      /\ pc[c] = "create" => c \in Uids
  BY DEF StopInv, CopiesInv, TypeOK, Uids
<1>2. pc[c] \in HasCopy => copy[c] \in Record /\ Uid(c) \in Uids
  BY DEF StopInv, CopiesInv, Record, Uid
<1>3. CASE Create(c)
  <2>1. /\ pc[c] = "create" /\ pc' = [pc EXCEPT ![c] = "record"] /\ rec' = rec /\ pc'[c] = "record"
        /\ copy' = [copy EXCEPT ![c] = [uid |-> c, state |-> "created"]]
        /\ vmm' = [vmm EXCEPT ![c] = "prelaunch"] /\ sock' = sock \cup {c} /\ c \in Uids
    BY <1>1, <1>3 DEF Create, Goto, Spawn
  <2>2. copy'[c].uid = c /\ copy'[c].state = "created"
    BY <1>1, <2>1
  <2>3. Tracks(c)
    BY <2>1, <2>2 DEF Tracks, Known
  <2>4. Tells(c)
    BY <2>1, <2>2 DEF Tells, Exited, Holds, Uid
  <2>5. \A u \in Uids : u # c => vmm'[u] = vmm[u]
    BY <1>1, <2>1
  <2>6. Plugs(c)
    BY <2>1, <2>2, <2>5 DEF Plugs
  <2> QED BY <2>3, <2>4, <2>6
<1>4. CASE StartRecreate(c)
  <2>1. pc[c] = "recreate" /\ pc[c] \in HasCopy
    BY <1>4, PhaseSets DEF StartRecreate
  <2>2. CASE Spawn(Uid(c)) /\ SetState(c, "created") /\ Goto(c, "cont") /\ rec' = rec
    <3>1. /\ Tracks(c) /\ Tells(c) /\ pc'[c] = "cont" /\ copy'[c].uid = Uid(c)
          /\ Uid(c) \in Uids /\ copy'[c].state = "created"
      BY <2>1, <2>2, SetTracks, PhaseSets DEF States
    <3>2. /\ vmm' = [vmm EXCEPT ![Uid(c)] = "prelaunch"] /\ sock' = sock \cup {Uid(c)}
      BY <2>2 DEF Spawn
    <3>3. \A u \in Uids : u # Uid(c) => vmm'[u] = vmm[u]
      BY <1>1, <3>2
    <3>4. Plugs(c)
      BY <2>1, <3>1, <3>2, <3>3 DEF Plugs
    <3> QED BY <3>1, <3>4
  <2>3. CASE /\ Goto(c, "failed") /\ UNCHANGED <<qemu, copy>>
             /\ rec' \in {rec, [copy[c] EXCEPT !.state = "failed"]}
    <3>1. /\ [copy[c] EXCEPT !.state = "failed"].uid = Uid(c)
          /\ [copy[c] EXCEPT !.state = "failed"].state = "failed"
      BY <1>2, <2>1 DEF Record, Uid
    <3>2. rec' # None => \/ rec # None /\ rec'.uid = rec.uid
                         \/ pc[c] \in HasCopy /\ rec'.uid = Uid(c)
      BY <2>1, <2>3, <3>1
    <3>3. \A u \in Uids : Exited(u)' => Exited(u)
      BY <2>3, <3>1 DEF Exited
    <3>4. UNCHANGED qemu /\ "failed" \in Phases /\ "failed" \notin HasCopy
      BY <2>3, PhaseSets
    <3> QED BY <2>1, <2>3, <3>2, <3>3, <3>4, QuietTracks
  <2> QED BY <1>4, <2>2, <2>3 DEF StartRecreate
<1>5. ASSUME pc[c] \in {"cont", "pause", "quit"}, NEW l \in {"started", "paused", "wait"}, Goto(c, l),
             NEW s \in States, SetState(c, s), UNCHANGED <<rec, pid, sock, orphan>>,
             NEW q, vmm[Uid(c)] \in Attached, vmm' = [vmm EXCEPT ![Uid(c)] = q],
             pc[c] = "cont" => q # "prelaunch", q = "prelaunch" => vmm[Uid(c)] = "prelaunch",
             s = "exited" => q = "dying"
      PROVE  Tracks(c) /\ Tells(c) /\ Plugs(c)
  <2>1. pc[c] \in HasCopy /\ l \in HasCopy /\ pc[c] # "create" /\ l # "idle" /\ l # "create"
    BY <1>5, PhaseSets
  <2>2. copy[c] \in Record /\ Uid(c) \in Uids /\ pc'[c] = l
    BY <1>1, <1>2, <1>5, <2>1 DEF Goto
  <2>3. copy'[c].uid = Uid(c)
    BY <1>5, <2>2, Sets DEF Uid, StopInv
  <2>4. Tracks(c)
    BY <1>5, <2>1, <2>2, <2>3 DEF Tracks, Known
  <2>5. \A u \in Uids : u # Uid(c) => vmm'[u] = vmm[u]
    BY <1>1, <1>5
  <2>6. vmm'[Uid(c)] = q
    BY <1>1, <1>5, <2>2
  <2>7. Plugs(c)
    BY <1>5, <2>2, <2>5, <2>6 DEF Plugs, SockInv
  <2>8. Tells(c)
    <3>1. copy'[c].state = s
      BY <1>1, <1>5, <2>2 DEF SetState, Record
    <3> QED BY <1>5, <2>2, <2>3, <2>6, <3>1 DEF Tells, Exited, Holds, Uid
  <2> QED BY <2>4, <2>7, <2>8
<1>6. CASE StartCont(c)
  <2>1. CASE Fail(c) /\ vmm[Uid(c)] \notin Attached
    BY <1>6, <2>1, SaveTracks DEF StartCont
  <2>2. CASE /\ vmm[Uid(c)] \in Attached /\ vmm' = [vmm EXCEPT ![Uid(c)] = "running"]
             /\ SetState(c, "running") /\ Goto(c, "started") /\ UNCHANGED <<rec, pid, sock, orphan>>
    <3>1. pc[c] = "cont" /\ "running" \in States
      BY <1>6 DEF StartCont, States
    <3> QED BY <1>5, <2>2, <3>1
  <2> QED BY <1>6, <2>1, <2>2 DEF StartCont
<1>7. CASE Pause(c)
  <2>1. CASE Fail(c)
    BY <1>7, <2>1, SaveTracks DEF Pause
  <2>2. CASE /\ Uid(c) \in sock /\ vmm[Uid(c)] \in Attached
             /\ vmm' = [vmm EXCEPT ![Uid(c)] = IF @ = "running" THEN "paused" ELSE @]
             /\ SetState(c, "paused") /\ Goto(c, "paused") /\ UNCHANGED <<rec, pid, sock, orphan>>
    <3>1. PICK q : q = IF vmm[Uid(c)] = "running" THEN "paused" ELSE vmm[Uid(c)]
      OBVIOUS
    <3>2. vmm' = [vmm EXCEPT ![Uid(c)] = q] /\ (q = "prelaunch" => vmm[Uid(c)] = "prelaunch")
      BY <2>2, <3>1
    <3>3. pc[c] = "pause" /\ "paused" \in States
      BY <1>7 DEF Pause, States
    <3> QED BY <1>5, <2>2, <3>2, <3>3
  <2> QED BY <1>7, <2>1, <2>2 DEF Pause
<1>8. CASE Stop(c)
  <2>1. pc[c] = "quit" /\ pc[c] \in HasCopy /\ "exited" \in States
    BY <1>8, PhaseSets DEF Stop, States
  <2>2. CASE StopError(c)
    BY <2>1, <2>2, SaveTracks
  <2>3. CASE /\ Uid(c) \in sock /\ vmm[Uid(c)] \in Attached /\ vmm' = [vmm EXCEPT ![Uid(c)] = "dying"]
             /\ SetState(c, "exited") /\ Goto(c, "wait") /\ UNCHANGED <<rec, pid, sock, orphan>>
    BY <1>5, <2>1, <2>3
  <2>4. CASE Uid(c) \notin sock /\ SetState(c, "exited") /\ Goto(c, "stopped") /\ UNCHANGED <<rec, qemu>>
    <3>1. vmm[Uid(c)] # "prelaunch"
      BY <1>2, <2>1, <2>4 DEF SockInv, Attached
    <3>2. /\ Tracks(c) /\ Tells(c)
      BY <2>1, <2>4, <3>1, SetTracks, PhaseSets
    <3>3. Plugs(c)
      BY <2>1, <2>4 DEF Plugs, qemu
    <3> QED BY <3>2, <3>3
  <2> QED BY <1>8, <2>2, <2>3, <2>4 DEF Stop
<1>9. CASE Delete(c)
  <2>1. /\ pc[c] = "delete" /\ pc' = [pc EXCEPT ![c] = "forget"] /\ pc'[c] = "forget"
        /\ rec' = rec /\ copy' = copy /\ sock' = sock \ {Uid(c)}
    BY <1>1, <1>9 DEF Delete, Goto
  <2>2. pc[c] \in HasCopy /\ Uid(c) \in Uids
    BY <1>2, <2>1, PhaseSets
  <2>3. \A u \in Uids :
           \/ vmm'[u] = vmm[u] /\ (u = Uid(c) => vmm[u] \notin Attached)
           \/ u = Uid(c) /\ vmm'[u] = "none"
    <3>1. \/ vmm' = [vmm EXCEPT ![Uid(c)] = "none"]
          \/ vmm[Uid(c)] \notin Attached /\ vmm' = vmm
      BY <1>9 DEF Delete
    <3> QED BY <1>1, <2>2, <3>1, SMT
  <2>4. Tracks(c)
    BY <2>1, <2>2 DEF Tracks, Known, Uid
  <2>5. Tells(c)
    BY <2>1, <2>2 DEF Tells, Exited, Holds, Uid
  <2>6. Plugs(c)
    BY <2>1, <2>3 DEF Plugs, Attached
  <2> QED BY <2>4, <2>5, <2>6
<1> QED BY <1>3, <1>4, <1>6, <1>7, <1>8, <1>9

\* Every step of a command tells, tracks and plugs.
LEMMA StepTracks ==
    ASSUME StopInv, SockInv, NEW c \in Commands, Step(c)
    PROVE  Tracks(c) /\ Tells(c) /\ Plugs(c) /\ Alone(c)
<1>1. Alone(c)
  BY RunSteps, ListSteps, SaveSteps, QemuSteps DEF StopInv, Step
<1> QED BY <1>1, RunTracks, ListTracks, SaveTracks, QemuTracks DEF Step

\* A killed command that is not about to continue a QEMU has done no harm.
LEMMA CrashTracks ==
    ASSUME StopInv, NEW c \in Commands, Crash(c), pc[c] # "cont"
    PROVE  Tracks(c) /\ Tells(c) /\ Plugs(c) /\ Alone(c)
<1>1. Goto(c, "failed") /\ UNCHANGED qemu /\ rec' = rec
  BY DEF Crash
<1>2. "failed" \in Phases /\ "failed" \notin HasCopy
  BY PhaseSets
<1>3. \A u \in Uids : Exited(u)' => Exited(u)
  BY <1>1 DEF Exited
<1>4. Alone(c)
  BY CrashStep DEF StopInv
<1> QED BY <1>1, <1>2, <1>3, <1>4, QuietTracks

\* A step with these effects keeps the invariants.
LEMMA AliveStep ==
    ASSUME StopInv, SockInv, FreshInv, NewInv, NEW c \in Commands,
           Tracks(c), Tells(c), Plugs(c), Alone(c), StopInv'
    PROVE  SockInv' /\ FreshInv' /\ NewInv'
<1>1. SockInv'
  BY DEF SockInv, Plugs
<1>2. \A x \in Commands \ {c} : pc'[x] = pc[x] /\ copy'[x] = copy[x]
  BY DEF Alone
<1>3. Runs \subseteq Commands /\ Uids = Runs
  BY CommandSets
<1>4. ASSUME NEW r \in Runs, pc'[r] \in {"idle", "create"}
      PROVE  ~Known(c, r) /\ pc[r] \in {"idle", "create"}
  <2>1. pc[r] \in {"idle", "create"} /\ (r = c => pc[r] = "idle")
    BY <1>2, <1>3, <1>4 DEF Tracks
  <2>2. (rec # None => rec.uid # r) /\ (pc[c] \in HasCopy => Uid(c) # r)
    BY <2>1 DEF FreshInv
  <2>3. ~(pc[c] = "create" /\ r = c)
    BY <2>1
  <2> QED BY <2>1, <2>2, <2>3 DEF Known
<1>5. FreshInv'
  <2> SUFFICES ASSUME NEW r \in Runs, pc'[r] \in {"idle", "create"}
               PROVE  /\ rec' # None => rec'.uid # r
                      /\ \A d \in Commands : pc'[d] \in HasCopy => copy'[d].uid # r
    BY DEF FreshInv, Uid
  <2>1. ~Known(c, r) /\ pc[r] \in {"idle", "create"}
    BY <1>4
  <2>2. rec' # None => rec'.uid # r
    BY <2>1 DEF Tracks
  <2>3. pc'[c] \in HasCopy => copy'[c].uid # r
    BY <2>1 DEF Tracks
  <2>4. \A d \in Commands \ {c} : pc'[d] \in HasCopy => copy'[d].uid # r
    BY <1>2, <2>1 DEF FreshInv, Uid
  <2> QED BY <2>2, <2>3, <2>4
<1>6. NewInv'
  <2> SUFFICES ASSUME NEW u \in Uids, vmm'[u] = "prelaunch",
                      \A d \in Commands : pc'[d] = "cont" => copy'[d].uid # u
               PROVE  ~Exited(u)' /\ \A d \in Commands : ~Holds(d, u)'
    BY DEF NewInv, Uid
  <2>1. \A d \in Commands \ {c} : pc[d] = "cont" => Uid(d) # u
    BY <1>2 DEF Uid
  <2>2. pc[c] = "cont" => Uid(c) # u
    BY DEF Plugs
  <2>3. CASE vmm[u] = "prelaunch"
    <3>1. ~Exited(u) /\ \A d \in Commands : ~Holds(d, u)
      BY <2>1, <2>2, <2>3 DEF NewInv
    <3>2. ~Exited(u)' /\ ~Holds(c, u)'
      BY <2>3, <3>1 DEF Tells
    <3>3. \A d \in Commands \ {c} : ~Holds(d, u)'
      BY <1>2, <3>1 DEF Holds, Uid
    <3> QED BY <3>2, <3>3
  <2>4. CASE pc[c] = "create" /\ u = c /\ rec' = rec /\ copy'[c].state = "created"
    <3>1. (rec # None => rec.uid # u) /\ \A d \in Commands : pc[d] \in HasCopy => Uid(d) # u
      BY <1>3, <2>4 DEF FreshInv
    <3>2. ~Exited(u)' /\ ~Holds(c, u)'
      BY <2>4, <3>1 DEF Exited, Holds
    <3>3. \A d \in Commands \ {c} : ~Holds(d, u)'
      BY <1>2, <3>1 DEF Holds, Uid
    <3> QED BY <3>2, <3>3
  <2> QED BY <2>3, <2>4 DEF Plugs
<1> QED BY <1>1, <1>5, <1>6

\* QEMU goes by itself, or is killed.
LEMMA AliveVmm ==
    ASSUME StopInv, SockInv, FreshInv, NewInv, NEW v \in Uids, VmmExit(v) \/ VmmKilled(v)
    PROVE  SockInv' /\ FreshInv' /\ NewInv'
<1>1. /\ UNCHANGED <<rec, copy, pc>> /\ vmm' = [vmm EXCEPT ![v] = "none"]
      /\ sock' \in {sock, sock \ {v}} /\ vmm \in [Uids -> Attached \cup {"none", "dying"}]
  BY DEF VmmExit, VmmKilled, StopInv, CopiesInv, TypeOK
<1>2. /\ vmm'[v] = "none" /\ \A u \in Uids \ {v} : vmm'[u] = vmm[u] /\ (u \in sock => u \in sock')
  BY <1>1
<1>3. SockInv'
  BY <1>2 DEF SockInv, Attached
<1>4. FreshInv'
  BY <1>1 DEF FreshInv, Uid
<1>5. NewInv'
  <2> SUFFICES ASSUME NEW u \in Uids, vmm'[u] = "prelaunch",
                      \A d \in Commands : pc[d] = "cont" => Uid(d) # u
               PROVE  ~Exited(u) /\ \A d \in Commands : ~Holds(d, u)
    BY <1>1 DEF NewInv, Exited, Holds, Uid
  <2>1. vmm[u] = "prelaunch"
    BY <1>2
  <2> QED BY <2>1 DEF NewInv
<1> QED BY <1>3, <1>4, <1>5


\* Only runs and starts continue a QEMU.
Starting == {"record", "get", "connect", "recreate", "cont"}
ContInv == \A c \in Commands : pc[c] \in Starting => c \in Runs \cup Starts

\* A command comes to these phases from an earlier one of them.
LEMMA ContSteps ==
    ASSUME StopInv, ContInv, NEW c \in Commands, Step(c) \/ Crash(c), Alone(c)
    PROVE  ContInv'
<1>1. \A x \in Commands \ {c} : pc'[x] = pc[x]
  BY DEF Alone
<1>2. pc \in [Commands -> Phases] /\ (pc[c] = "create" => c \in Runs) /\ CopiesInv
  BY DEF StopInv, CopiesInv, TypeOK
<1>3. \A l : Goto(c, l) => pc'[c] = l
  BY <1>2 DEF Goto
<1>4. \A next : Load(c, next) /\ next \in [States -> Phases \ {"wait", "create"}]
                => pc'[c] = "failed" \/ \E s \in States : pc'[c] = next[s]
  BY <1>2, Loads
<1>5. CASE pc[c] \in Starting \cup {"create"}
  BY <1>1, <1>2, <1>5 DEF ContInv
<1>6. CASE c \in Starts
  BY <1>1, <1>6 DEF ContInv
<1>7. CASE pc[c] \notin Starting \cup {"create"} /\ c \notin Starts
  <2>1. pc'[c] \notin Starting
    <3>1. CASE AssignName(c) \/ StartRecord(c) \/ FollowEnds(c) \/ Crash(c)
      BY <1>3, <3>1 DEF AssignName, StartRecord, FollowEnds, Crash, Fail, Starting
    <3>2. CASE StopList(c) \/ PauseList(c) \/ RmList(c)
      <4>1. ~StartGet(c)
        BY <1>7 DEF StartGet, Starting
      <4>2. PICK next \in [States -> {"connect", "done", "quit", "pause", "delete"}] :
               Load(c, next) /\ \A s \in States : next[s] = "connect" => StartGet(c)
        BY <3>2, Listing
      <4>3. next \in [States -> Phases \ {"wait", "create"}]
        BY PhaseSets
      <4>4. \A s \in States : next[s] \in {"done", "quit", "pause", "delete"}
        BY <4>1, <4>2
      <4> QED BY <1>4, <4>2, <4>3, <4>4 DEF Starting
    <3>3. CASE Stop(c) \/ StopWait(c) \/ StopTimeout(c) \/ StopRecord(c)
      BY <1>3, <3>3 DEF Stop, StopWait, StopTimeout, StopRecord, StopError, Fail, Starting
    <3>4. CASE Pause(c) \/ PauseRecord(c) \/ Delete(c) \/ Forget(c)
      BY <1>3, <3>4 DEF Pause, PauseRecord, Delete, Forget, Fail, Starting
    <3> QED BY <1>7, <3>1, <3>2, <3>3, <3>4
       DEF Step, Create, CreateFails, CreateRecord, StartGet, StartGetMissing, StartConnect,
           StartRecreate, StartCont, Starting
  <2> QED BY <1>1, <2>1 DEF ContInv
<1> QED BY <1>5, <1>6, <1>7

\* AliveInv holds in every behaviour in which no run and no start is killed.
THEOREM AliveInvariant ==
    ASSUME Crashable \cap (Runs \cup Starts) = {}
    PROVE  Spec => []AliveInv
<1>1. Init => SockInv /\ FreshInv /\ NewInv /\ ContInv
  <2> SUFFICES ASSUME Init PROVE SockInv /\ FreshInv /\ NewInv /\ ContInv
    OBVIOUS
  <2>1. /\ \A c \in Commands : pc[c] = "idle" /\ pc[c] \notin HasCopy /\ pc[c] \notin Starting
        /\ rec = None /\ \A u \in Uids : vmm[u] = "none"
    BY PhaseSets DEF Init, Starting
  <2>2. SockInv /\ NewInv /\ ContInv
    BY <2>1 DEF SockInv, NewInv, ContInv, Attached
  <2>3. FreshInv
    BY <2>1 DEF FreshInv
  <2> QED BY <2>2, <2>3
<1>2. StopInv /\ StopInv' /\ SockInv /\ FreshInv /\ NewInv /\ ContInv /\ [Next]_vars
      => (SockInv /\ FreshInv /\ NewInv /\ ContInv)'
  <2> SUFFICES ASSUME StopInv, StopInv', SockInv, FreshInv, NewInv, ContInv, [Next]_vars
               PROVE  (SockInv /\ FreshInv /\ NewInv /\ ContInv)'
    OBVIOUS
  <2>1. ASSUME NEW c \in Commands, Step(c) \/ Crash(c)
        PROVE  (SockInv /\ FreshInv /\ NewInv /\ ContInv)'
    <3>1. Crash(c) => pc[c] # "cont"
      BY DEF Crash, ContInv, Starting
    <3>2. Tracks(c) /\ Tells(c) /\ Plugs(c) /\ Alone(c)
      BY <2>1, <3>1, StepTracks, CrashTracks
    <3>3. ContInv'
      BY <2>1, <3>2, ContSteps
    <3> QED BY <3>2, <3>3, AliveStep
  <2>2. ASSUME NEW u \in Uids, VmmExit(u) \/ VmmKilled(u)
        PROVE  (SockInv /\ FreshInv /\ NewInv /\ ContInv)'
    <3>1. ContInv'
      BY <2>2 DEF VmmExit, VmmKilled, ContInv
    <3> QED BY <2>2, <3>1, AliveVmm
  <2>3. CASE UNCHANGED vars
    <3>1. /\ rec' = rec /\ vmm' = vmm /\ sock' = sock /\ copy' = copy /\ pc' = pc
      BY <2>3 DEF vars
    <3>2. SockInv' /\ FreshInv' /\ ContInv'
      BY <3>1 DEF SockInv, FreshInv, ContInv, Uid
    <3>3. NewInv'
      BY <3>1 DEF NewInv, Exited, Holds, Uid
    <3> QED BY <3>2, <3>3
  <2> QED BY <2>1, <2>2, <2>3 DEF Next
<1> QED BY <1>1, <1>2, StopInvariant, PTL DEF Spec, AliveInv

\* Whoever looks when no command is at work finds a machine whose QEMU lives in another
\* state than Exited (QEMU Get 812-935), be the commands issued one at a time or overlapping.
\* A start that is killed between making QEMU anew and continuing it would leave the record
\* as Exited with a QEMU that lives: so no run and no start is killed.
THEOREM AliveIsTold ==
    ASSUME Crashable \cap (Runs \cup Starts) = {}
    PROVE  Spec => []AliveIsNotExited
<1>1. AliveInv => AliveIsNotExited
  <2> SUFFICES ASSUME AliveInv, Idle, rec # None, vmm[rec.uid] \in Attached
               PROVE  "exited" \notin Report(rec)
    BY DEF AliveIsNotExited
  <2>1. StopInv /\ SockInv /\ NewInv /\ rec \in Record /\ rec.uid \in Uids
    BY DEF AliveInv, StopInv, CopiesInv, TypeOK, Record
  <2>2. rec.uid \in pid /\ vmm[rec.uid] # "none" /\ vmm[rec.uid] # "dying"
    BY <2>1 DEF StopInv, PidInv, Attached
  <2>3. vmm[rec.uid] = "prelaunch" => rec.state # "exited"
    <3>1. \A c \in Commands : pc[c] # "cont"
      BY PhaseSets DEF Idle
    <3> QED BY <2>1, <3>1 DEF NewInv, Exited
  <2> QED BY <2>2, <2>3 DEF Report, Attached
<1> QED BY <1>1, AliveInvariant, PTL

----------------------------------------------------------------------------
(* Commands issued one at a time: a guest that runs is recorded, and a     *)
(* machine that was removed leaves no files.                               *)

\* What a command at work knows of the record, when it is the only one.
Mine(c) ==
    /\ pc[c] \in {"create", "record"} => rec = None
    /\ pc[c] \in {"connect", "recreate", "cont", "started", "pause", "paused"} => rec # None
    /\ pc[c] \in HasCopy \cap Active /\ rec # None => rec.uid = Uid(c)
    /\ pc[c] \in {"wait", "stopped"} => vmm[Uid(c)] \notin Attached
    /\ pc[c] \in {"delete", "forget"} => vmm[Uid(c)] # "running"
    /\ pc[c] = "forget" => Uid(c) \notin pid /\ Uid(c) \notin sock
    /\ pc[c] = "record" => Uid(c) = c

\* A guest that runs is recorded; a file is of the recorded machine, or of one that is about to be.
Running ==
    \A u \in Uids : /\ vmm[u] = "running" => rec # None /\ rec.uid = u
                    /\ <<u, "running">> \notin orphan
Kept ==
    \A u \in Uids : u \in pid \/ u \in sock => (rec # None /\ rec.uid = u) \/ pc[u] = "record"

RecordedInv == serial => (\A c \in Commands : Mine(c)) /\ Running
FilesInv == serial => Kept

Only(c) == \A x \in Commands \ {c} : pc[x] \notin Active

\* Commands issued one at a time: the one that takes a step is the only one at work.
LEMMA StepsAlone ==
    ASSUME StopInv, serial, NEW c \in Commands, Step(c)
    PROVE  Only(c)
<1>1. pc[c] \in Active \/ Turn(c)
  BY PhaseSets DEF Step, AssignName, Create, CreateFails, CreateRecord, StartGet, StartGetMissing,
     StartConnect, StartRecreate, StartCont, StartRecord, FollowEnds, StopList, Stop, StopWait,
     StopTimeout, StopRecord, PauseList, Pause, PauseRecord, RmList, Delete, Forget
<1> QED BY <1>1 DEF StopInv, TurnsInv, Turn, Only

\* A step that leaves QEMU alone, and the record under its UID.
LEMMA QuietRecorded ==
    ASSUME Running, NEW c \in Commands, Only(c), NEW l, Goto(c, l), pc \in [Commands -> Phases],
           UNCHANGED qemu, pc[c] # "record", rec # None => rec' # None /\ rec'.uid = rec.uid
    PROVE  Running' /\ (Kept => Kept')
<1>1. UNCHANGED <<vmm, pid, sock, orphan>>
  BY DEF qemu
<1>2. Running'
  BY <1>1 DEF Running
<1>3. \A u \in Uids : u \in Commands /\ pc[u] # "record"
  BY PhaseSets, CommandSets DEF Only
<1>4. Kept => Kept'
  BY <1>1, <1>3 DEF Kept
<1> QED BY <1>2, <1>4

\* A step that keeps its copy and may save it.
LEMMA SavedRecorded ==
    ASSUME StopInv, NEW c \in Commands, Mine(c), Running, Only(c),
           pc[c] \in HasCopy \cap Active, pc[c] # "record",
           NEW l \in {"done", "failed", "follow", "cont", "recreate", "stopped", "delete"}, Goto(c, l),
           UNCHANGED <<qemu, copy>>, rec' \in {rec, copy[c]},
           l \in {"cont", "recreate"} => pc[c] = "connect",
           l = "stopped" => vmm[Uid(c)] \notin Attached, l = "delete" => vmm[Uid(c)] # "running"
    PROVE  Mine(c)' /\ Running' /\ (Kept => Kept')
<1>1. /\ copy[c] \in Record /\ pc \in [Commands -> Phases] /\ UNCHANGED qemu /\ vmm' = vmm
      /\ copy' = copy /\ pc'[c] = l
  BY DEF StopInv, CopiesInv, TypeOK, qemu, Goto
<1>2. copy[c] # None /\ copy[c].uid = Uid(c) /\ Uid(c)' = Uid(c)
  BY <1>1, ConstantsAssumption DEF Uid
<1>3. rec # None => rec.uid = Uid(c)
  BY DEF Mine
<1>4. (rec # None => rec' # None /\ rec'.uid = rec.uid) /\ (rec' # None => rec'.uid = Uid(c))
  BY <1>2, <1>3
<1>5. pc[c] = "connect" => rec # None
  BY DEF Mine
<1>6. Mine(c)'
  BY <1>1, <1>2, <1>4, <1>5 DEF Mine
<1> QED BY <1>1, <1>4, <1>6, QuietRecorded

\* The steps of a run before it has a copy.
LEMMA RunRecorded ==
    ASSUME StopInv, NEW c \in Commands, Mine(c), Running, Only(c),
           AssignName(c) \/ CreateFails(c) \/ StartGetMissing(c)
    PROVE  Mine(c)' /\ Running' /\ (Kept => Kept')
<1>1. PICK l \in {"create", "failed"} :
         /\ Goto(c, l) /\ UNCHANGED qemu /\ pc[c] # "record" /\ rec = None /\ (l = "create" => rec' = None)
  BY DEF AssignName, CreateFails, StartGetMissing, Mine
<1>2. pc \in [Commands -> Phases] /\ pc'[c] = l
  BY <1>1 DEF StopInv, CopiesInv, TypeOK, Goto
<1>3. Mine(c)'
  BY <1>1, <1>2, PhaseSets DEF Mine
<1> QED BY <1>1, <1>2, <1>3, QuietRecorded

\* The record that a run makes is the first.
LEMMA FirstRecorded ==
    ASSUME StopInv, NEW c \in Commands, Mine(c), Running, Only(c), CreateRecord(c)
    PROVE  Mine(c)' /\ Running' /\ (Kept => Kept')
<1>1. PICK l \in {"get", "done"} : pc[c] = "record" /\ Goto(c, l) /\ UNCHANGED qemu /\ rec' = copy[c]
  BY DEF CreateRecord
<1>2. /\ pc'[c] = l /\ UNCHANGED <<vmm, pid, sock, orphan>> /\ copy[c] \in Record /\ rec = None
      /\ copy[c].uid = c
  BY <1>1, PhaseSets DEF StopInv, CopiesInv, TypeOK, Goto, Mine, qemu, Uid
<1>3. rec' # None /\ rec'.uid = c
  BY <1>1, <1>2, ConstantsAssumption
<1>4. Mine(c)'
  BY <1>2, PhaseSets DEF Mine
<1>5. Running'
  BY <1>2 DEF Running
<1>6. \A u \in Uids : u \in Commands /\ (pc[u] = "record" => u = c)
  BY PhaseSets, CommandSets DEF Only
<1>7. Kept => Kept'
  BY <1>2, <1>3, <1>6 DEF Kept
<1> QED BY <1>4, <1>5, <1>7

\* Forgetting the record leaves nothing that was recorded by it.
LEMMA ForgetRecorded ==
    ASSUME StopInv, NEW c \in Commands, Mine(c), Running, Only(c), Forget(c)
    PROVE  Mine(c)' /\ Running' /\ (Kept => Kept')
<1>1. /\ pc[c] = "forget" /\ pc'[c] = "done" /\ UNCHANGED <<vmm, pid, sock, orphan>> /\ rec' = None
  BY DEF Forget, StopInv, CopiesInv, TypeOK, Goto, qemu
<1>2. /\ rec # None => rec.uid = Uid(c)
      /\ vmm[Uid(c)] # "running" /\ Uid(c) \notin pid /\ Uid(c) \notin sock
  BY <1>1, PhaseSets DEF Mine
<1>3. Mine(c)'
  BY <1>1, PhaseSets DEF Mine
<1>4. Running'
  BY <1>1, <1>2 DEF Running
<1>5. \A u \in Uids : pc[u] # "record"
  BY <1>1, PhaseSets, CommandSets DEF Only
<1>6. Kept => Kept'
  BY <1>1, <1>2, <1>5 DEF Kept
<1> QED BY <1>3, <1>4, <1>6

\* A foreground command goes back to its machine, which has the only UID there is.
LEMMA FollowRecorded ==
    ASSUME StopInv, NEW c \in Commands, Mine(c), Running, Only(c), FollowEnds(c),
           c \in Foreground, Foreground = {} \/ \A r, s \in Runs : r = s
    PROVE  Mine(c)' /\ Running' /\ (Kept => Kept')
<1>1. /\ pc[c] = "follow" /\ pc'[c] = "quit" /\ UNCHANGED qemu /\ rec' = rec /\ copy' = copy
      /\ Goto(c, "quit") /\ pc \in [Commands -> Phases] /\ rec \in Record \cup {None}
  BY DEF FollowEnds, StopInv, CopiesInv, TypeOK, Goto
<1>2. copy[c] \in Record
  BY <1>1, PhaseSets DEF StopInv, CopiesInv
<1>3. rec # None => rec.uid = Uid(c)
  BY <1>1, <1>2, CommandSets DEF Record, Uid
<1>4. Uid(c)' = Uid(c)
  BY <1>1 DEF Uid
<1>5. Mine(c)'
  BY <1>1, <1>3, <1>4, PhaseSets DEF Mine
<1> QED BY <1>1, <1>5, QuietRecorded

\* A command reads the record: what runs is told to run.
LEMMA LoadRecorded ==
    ASSUME StopInv, NEW c \in Commands, Mine(c), Running, Only(c), pc[c] \in {"get", "idle"},
           NEW next \in [States -> {"connect", "done", "quit", "pause", "delete"}], Load(c, next),
           next["running"] # "delete"
    PROVE  Mine(c)' /\ Running' /\ (Kept => Kept')
<1>1. /\ rec \in Record /\ rec # None /\ UNCHANGED qemu /\ copy \in [Commands -> Record \cup {None}]
      /\ pc \in [Commands -> Phases] /\ vmm' = vmm /\ vmm \in [Uids -> Attached \cup {"none", "dying"}]
      /\ rec.uid \in Uids /\ rec.state \in States
  BY DEF StopInv, CopiesInv, TypeOK, Load, qemu, Record
<1>2. ASSUME NEW s \in Report(rec), copy' = [copy EXCEPT ![c] = [rec EXCEPT !.state = s]],
             rec' \in {rec, copy'[c]}, Goto(c, next[s])
      PROVE  Mine(c)' /\ Running' /\ (Kept => Kept')
  <2>1. s \in States /\ (vmm[rec.uid] = "running" => s = "running")
    BY <1>1 DEF Report, States, Attached, StopInv, PidInv
  <2>2. copy'[c] \in Record /\ copy'[c].uid = rec.uid
    <3>1. copy'[c] = [rec EXCEPT !.state = s]
      BY <1>1, <1>2
    <3>2. [rec EXCEPT !.state = s] \in Record /\ [rec EXCEPT !.state = s].uid = rec.uid
      BY <1>1, <2>1, RecordState
    <3> QED BY <3>1, <3>2
  <2>3. rec' # None /\ rec'.uid = rec.uid /\ Uid(c)' = rec.uid
    BY <1>1, <1>2, <2>2, ConstantsAssumption DEF Uid
  <2>4. /\ pc'[c] = next[s] /\ next[s] \in {"connect", "done", "quit", "pause", "delete"}
        /\ pc'[c] = "delete" => vmm[rec.uid] # "running"
    BY <1>1, <1>2, <2>1 DEF Goto
  <2>5. Mine(c)'
    BY <1>1, <2>3, <2>4 DEF Mine
  <2> QED BY <1>1, <1>2, <2>3, <2>5, QuietRecorded
<1>3. ASSUME Goto(c, "failed"), UNCHANGED <<rec, copy>>
      PROVE  Mine(c)' /\ Running' /\ (Kept => Kept')
  <2>1. pc'[c] = "failed"
    BY <1>1, <1>3 DEF Goto
  <2>2. Mine(c)'
    BY <2>1, PhaseSets DEF Mine
  <2> QED BY <1>1, <1>3, <2>2, QuietRecorded
<1> QED BY <1>2, <1>3 DEF Load

\* The commands that begin by reading the record.
LEMMA ListRecorded ==
    ASSUME StopInv, NEW c \in Commands, Mine(c), Running, Only(c),
           StartGet(c) \/ StopList(c) \/ PauseList(c) \/ RmList(c)
    PROVE  Mine(c)' /\ Running' /\ (Kept => Kept')
<1>1. PICK next \in [States -> {"connect", "done", "quit", "pause", "delete"}] :
         Load(c, next) /\ next["running"] # "delete"
  BY Listing
<1>2. pc[c] \in {"get", "idle"}
  BY Listing
<1> QED BY <1>1, <1>2, LoadRecorded

\* The steps that move on with their copy as it was.
LEMMA SaveRecorded ==
    ASSUME StopInv, NEW c \in Commands, Mine(c), Running, Only(c),
           \/ StartConnect(c) \/ StartRecord(c) \/ StopWait(c) \/ StopTimeout(c) \/ StopRecord(c)
           \/ PauseRecord(c) \/ (pc[c] \in {"cont", "pause"} /\ Fail(c))
           \/ (pc[c] = "quit" /\ vmm[Uid(c)] \notin Attached /\ StopError(c))
    PROVE  Mine(c)' /\ Running' /\ (Kept => Kept')
<1>1. PICK l \in {"done", "failed", "follow", "cont", "recreate", "stopped", "delete"} :
         /\ Goto(c, l) /\ UNCHANGED <<qemu, copy>> /\ rec' \in {rec, copy[c]}
         /\ pc[c] \in {"connect", "started", "wait", "stopped", "paused", "cont", "pause", "quit"}
         /\ l \in {"cont", "recreate"} => pc[c] = "connect"
         /\ l = "stopped" => pc[c] = "wait"
         /\ l = "delete" => pc[c] \in {"wait", "stopped"} \/ vmm[Uid(c)] \notin Attached
  <2>1. CASE StartConnect(c) \/ StartRecord(c)
    BY <2>1 DEF StartConnect, StartRecord, Fail
  <2>2. CASE StopWait(c) \/ StopTimeout(c) \/ (pc[c] = "quit" /\ vmm[Uid(c)] \notin Attached /\ StopError(c))
    BY <2>2 DEF StopWait, StopTimeout, StopError, Fail
  <2>3. CASE StopRecord(c) \/ PauseRecord(c) \/ (pc[c] \in {"cont", "pause"} /\ Fail(c))
    BY <2>3 DEF StopRecord, PauseRecord, Fail
  <2> QED BY <2>1, <2>2, <2>3
<1>2. pc[c] \in HasCopy \cap Active /\ pc[c] # "record"
  BY <1>1, PhaseSets
<1>3. pc[c] \in {"wait", "stopped"} => vmm[Uid(c)] \notin Attached
  BY DEF Mine
<1>4. vmm[Uid(c)] \notin Attached => vmm[Uid(c)] # "running"
  BY DEF Attached
<1>5. l = "stopped" => vmm[Uid(c)] \notin Attached
  BY <1>1, <1>3
<1>6. l = "delete" => vmm[Uid(c)] # "running"
  BY <1>1, <1>3, <1>4
<1> QED BY <1>1, <1>2, <1>5, <1>6, SavedRecorded

\* A step that steers the QEMU of its copy's UID, and leaves the record alone.
LEMMA SteerRecorded ==
    ASSUME StopInv, NEW c \in Commands, Mine(c), Running, Only(c), pc[c] \in HasCopy \cap Active,
           pc[c] # "record", NEW l \in (HasCopy \cap Active) \ {"record"}, Goto(c, l), rec' = rec,
           copy'[c].uid = Uid(c),
           l \in {"cont", "started", "paused"} => rec # None, l \notin {"connect", "recreate", "pause"},
           NEW q, vmm' = [vmm EXCEPT ![Uid(c)] = q],
           q = "running" => vmm[Uid(c)] = "running" \/ (rec # None /\ rec.uid = Uid(c)),
           l \in {"wait", "stopped"} => q \notin Attached, l \in {"delete", "forget"} => q # "running",
           l = "forget" => Uid(c) \notin pid' /\ Uid(c) \notin sock',
           <<Uid(c), "running">> \notin orphan',
           \A u \in Uids \ {Uid(c)} : <<u, "running">> \in orphan' => <<u, "running">> \in orphan,
           \A u \in Uids \ {Uid(c)} : (u \in pid' => u \in pid) /\ (u \in sock' => u \in sock),
           Uid(c) \in pid' \/ Uid(c) \in sock' => Uid(c) \in pid \/ Uid(c) \in sock \/ rec # None
    PROVE  Mine(c)' /\ Running' /\ (Kept => Kept')
<1>1. /\ vmm \in [Uids -> Attached \cup {"none", "dying"}] /\ pc \in [Commands -> Phases]
      /\ copy[c] \in Record /\ Uid(c) \in Uids
  BY DEF StopInv, CopiesInv, TypeOK, Uid, Record
<1>2. /\ vmm'[Uid(c)] = q /\ \A u \in Uids \ {Uid(c)} : vmm'[u] = vmm[u]
      /\ pc'[c] = l /\ Uid(c)' = Uid(c)
  BY <1>1 DEF Goto, Uid
<1>3. rec # None => rec.uid = Uid(c)
  BY DEF Mine
<1>4. Mine(c)'
  BY <1>2, <1>3, PhaseSets DEF Mine
<1>5. Running'
  <2>1. ASSUME NEW u \in Uids, vmm'[u] = "running" PROVE rec # None /\ rec.uid = u
    <3>1. CASE u = Uid(c)
      BY <1>2, <2>1, <3>1 DEF Running
    <3>2. CASE u # Uid(c)
      BY <1>2, <2>1, <3>2 DEF Running
    <3> QED BY <3>1, <3>2
  <2>2. \A u \in Uids : <<u, "running">> \notin orphan'
    BY DEF Running
  <2> QED BY <2>1, <2>2 DEF Running
<1>6. \A u \in Uids : pc[u] # "record"
  BY PhaseSets, CommandSets DEF Only
<1>7. Kept => Kept'
  <2> SUFFICES ASSUME Kept, NEW u \in Uids, u \in pid' \/ u \in sock'
               PROVE  rec # None /\ rec.uid = u
    BY DEF Kept
  <2>1. CASE u = Uid(c)
    BY <1>1, <1>3, <1>6, <2>1 DEF Kept
  <2>2. CASE u # Uid(c)
    BY <1>6, <2>2 DEF Kept
  <2> QED BY <2>1, <2>2
<1> QED BY <1>4, <1>5, <1>7

\* The steps that make a QEMU or steer it.
LEMMA QemuRecorded ==
    ASSUME StopInv, SockInv, NEW c \in Commands, Mine(c), Running, Only(c),
           Create(c) \/ StartRecreate(c) \/ StartCont(c) \/ Stop(c) \/ Pause(c) \/ Delete(c)
    PROVE  Mine(c)' /\ Running' /\ (Kept => Kept')
<1>1. /\ copy \in [Commands -> Record \cup {None}] /\ vmm \in [Uids -> Attached \cup {"none", "dying"}]
      /\ pc \in [Commands -> Phases] /\ (pc[c] = "create" => c \in Uids)
  BY DEF StopInv, CopiesInv, TypeOK, Uids
<1>2. pc[c] \in HasCopy => copy[c] \in Record /\ Uid(c) \in Uids /\ copy[c].uid = Uid(c)
  BY DEF StopInv, CopiesInv, Record, Uid
<1>3. CASE Create(c)
  <2>1. /\ pc[c] = "create" /\ pc'[c] = "record" /\ rec' = rec /\ rec = None /\ orphan' = orphan
        /\ copy' = [copy EXCEPT ![c] = [uid |-> c, state |-> "created"]] /\ c \in Uids
        /\ vmm' = [vmm EXCEPT ![c] = "prelaunch"] /\ sock' = sock \cup {c} /\ pid' = pid \cup {c}
    BY <1>1, <1>3 DEF Create, Goto, Spawn, Mine
  <2>2. copy'[c].uid = c
    BY <1>1, <2>1
  <2>3. \A u \in Uids : vmm'[u] = "running" => vmm[u] = "running"
    BY <1>1, <2>1
  <2>4. Mine(c)'
    BY <2>1, <2>2 DEF Mine, Uid
  <2>5. Running'
    BY <2>1, <2>3 DEF Running
  <2>6. \A u \in Uids \ {c} : pc'[u] = pc[u]
    BY <1>1, <1>3, CommandSets DEF Create, Goto
  <2>7. Kept => Kept'
    BY <2>1, <2>6 DEF Kept
  <2> QED BY <2>4, <2>5, <2>7
<1>4. ASSUME pc[c] \in HasCopy, NEW s \in States, SetState(c, s)
      PROVE  copy'[c].uid = Uid(c)
  BY <1>2, <1>4, Sets DEF StopInv
<1>5. {"cont", "started", "wait", "stopped", "paused", "forget"} \subseteq (HasCopy \cap Active) \ {"record"}
  BY PhaseSets
<1>6. pc[c] \in {"recreate", "cont", "quit", "pause", "delete"} =>
         pc[c] \in HasCopy \cap Active /\ pc[c] # "record" /\ <<Uid(c), "running">> \notin orphan
  BY <1>2, PhaseSets DEF Running
<1>7. "created" \in States /\ "running" \in States /\ "paused" \in States /\ "exited" \in States
  BY DEF States
<1>8. CASE StartRecreate(c)
  <2>1. pc[c] = "recreate" /\ rec # None
    BY <1>8 DEF StartRecreate, Mine
  <2>2. CASE Spawn(Uid(c)) /\ SetState(c, "created") /\ Goto(c, "cont") /\ rec' = rec
    <3>1. /\ vmm' = [vmm EXCEPT ![Uid(c)] = "prelaunch"] /\ sock' = sock \cup {Uid(c)}
          /\ pid' = pid \cup {Uid(c)} /\ orphan' = orphan /\ copy'[c].uid = Uid(c)
      BY <1>4, <1>6, <1>7, <2>1, <2>2 DEF Spawn
    <3> QED BY <1>5, <1>6, <2>1, <2>2, <3>1, SteerRecorded
  <2>3. CASE /\ Goto(c, "failed") /\ UNCHANGED <<qemu, copy>>
             /\ rec' \in {rec, [copy[c] EXCEPT !.state = "failed"]}
    <3>1. [copy[c] EXCEPT !.state = "failed"] \in Record /\ [copy[c] EXCEPT !.state = "failed"].uid = Uid(c)
      BY <1>2, <1>6, <2>1 DEF Record, States
    <3>2. rec # None => rec.uid = Uid(c)
      BY <1>6, <2>1 DEF Mine
    <3>3. rec' # None /\ rec'.uid = rec.uid
      BY <2>1, <2>3, <3>1, <3>2, ConstantsAssumption
    <3>4. pc'[c] = "failed" /\ UNCHANGED qemu
      BY <1>1, <2>3 DEF Goto
    <3>5. Mine(c)'
      BY <3>4, PhaseSets DEF Mine
    <3> QED BY <1>1, <1>6, <2>1, <2>3, <3>3, <3>4, <3>5, QuietRecorded
  <2> QED BY <1>8, <2>2, <2>3 DEF StartRecreate
<1>9. CASE StartCont(c)
  <2>1. pc[c] = "cont" /\ rec # None /\ rec.uid = Uid(c)
    BY <1>9, PhaseSets DEF StartCont, Mine
  <2>2. CASE Fail(c)
    BY <2>1, <2>2, SaveRecorded
  <2>3. CASE /\ vmm' = [vmm EXCEPT ![Uid(c)] = "running"]
             /\ SetState(c, "running") /\ Goto(c, "started") /\ UNCHANGED <<rec, pid, sock, orphan>>
    <3>1. copy'[c].uid = Uid(c)
      BY <1>4, <1>6, <1>7, <2>1, <2>3
    <3> QED BY <1>5, <1>6, <2>1, <2>3, <3>1, SteerRecorded
  <2> QED BY <1>9, <2>2, <2>3 DEF StartCont
<1>10. CASE Stop(c)
  <2>1. pc[c] = "quit"
    BY <1>10 DEF Stop
  <2>2. CASE vmm[Uid(c)] \notin Attached /\ StopError(c)
    BY <2>1, <2>2, SaveRecorded
  <2>3. CASE /\ vmm' = [vmm EXCEPT ![Uid(c)] = "dying"]
             /\ SetState(c, "exited") /\ Goto(c, "wait") /\ UNCHANGED <<rec, pid, sock, orphan>>
    <3>1. copy'[c].uid = Uid(c) /\ "dying" \notin Attached
      BY <1>4, <1>6, <1>7, <2>1, <2>3 DEF Attached
    <3> QED BY <1>5, <1>6, <2>1, <2>3, <3>1, SteerRecorded
  <2>4. CASE Uid(c) \notin sock /\ SetState(c, "exited") /\ Goto(c, "stopped") /\ UNCHANGED <<rec, qemu>>
    <3>1. /\ copy'[c].uid = Uid(c) /\ vmm[Uid(c)] \notin Attached /\ UNCHANGED <<rec, vmm, pid, sock, orphan>>
      BY <1>2, <1>4, <1>6, <1>7, <2>1, <2>4 DEF SockInv, qemu
    <3>2. PICK q : vmm' = [vmm EXCEPT ![Uid(c)] = q] /\ q \notin Attached /\ q = vmm[Uid(c)]
      BY <1>1, <3>1
    <3>3. /\ pc[c] \in HasCopy \cap Active /\ pc[c] # "record" /\ "stopped" \in (HasCopy \cap Active) \ {"record"}
          /\ Goto(c, "stopped") /\ rec' = rec /\ copy'[c].uid = Uid(c)
          /\ orphan' = orphan /\ <<Uid(c), "running">> \notin orphan' /\ pid' = pid /\ sock' = sock
      BY <1>5, <1>6, <2>1, <2>4, <3>1
    <3> QED BY <3>2, <3>3, SteerRecorded
  <2> QED BY <1>10, <2>2, <2>3, <2>4 DEF Stop
<1>11. CASE Pause(c)
  <2>1. pc[c] = "pause" /\ rec # None
    BY <1>11 DEF Pause, Mine
  <2>2. CASE Fail(c)
    BY <2>1, <2>2, SaveRecorded
  <2>3. CASE /\ vmm' = [vmm EXCEPT ![Uid(c)] = IF @ = "running" THEN "paused" ELSE @]
             /\ SetState(c, "paused") /\ Goto(c, "paused") /\ UNCHANGED <<rec, pid, sock, orphan>>
    <3>1. PICK q : q = IF vmm[Uid(c)] = "running" THEN "paused" ELSE vmm[Uid(c)]
      OBVIOUS
    <3>2. vmm' = [vmm EXCEPT ![Uid(c)] = q] /\ q # "running"
      BY <2>3, <3>1
    <3>3. copy'[c].uid = Uid(c)
      BY <1>4, <1>6, <1>7, <2>1, <2>3
    <3>4. Goto(c, "paused") /\ UNCHANGED <<rec, pid, sock, orphan>>
      BY <2>3
    <3> QED BY <1>5, <1>6, <2>1, <3>2, <3>3, <3>4, SteerRecorded
  <2> QED BY <1>11, <2>2, <2>3 DEF Pause
<1>12. CASE Delete(c)
  <2>1. /\ pc[c] = "delete" /\ Goto(c, "forget") /\ rec' = rec /\ copy' = copy
        /\ sock' = sock \ {Uid(c)} /\ pid' = pid \ {Uid(c)} /\ vmm[Uid(c)] # "running"
    BY <1>12 DEF Delete, Mine
  <2>2. copy'[c].uid = Uid(c)
    BY <2>1 DEF Uid
  <2>3. /\ <<Uid(c), "running">> \notin orphan'
        /\ \A u \in Uids \ {Uid(c)} : <<u, "running">> \in orphan' => <<u, "running">> \in orphan
    <3>1. orphan' = orphan \/ orphan' = orphan \cup {<<Uid(c), vmm[Uid(c)]>>}
      BY <1>12 DEF Delete
    <3> QED BY <1>6, <2>1, <3>1, SMT
  <2>4. PICK q : vmm' = [vmm EXCEPT ![Uid(c)] = q] /\ q # "running"
    <3>1. vmm' = [vmm EXCEPT ![Uid(c)] = "none"] \/ vmm' = [vmm EXCEPT ![Uid(c)] = vmm[Uid(c)]]
      BY <1>1, <1>12 DEF Delete
    <3> QED BY <2>1, <3>1
  <2> QED BY <1>5, <1>6, <2>1, <2>2, <2>3, <2>4, SteerRecorded
<1> QED BY <1>3, <1>8, <1>9, <1>10, <1>11, <1>12

\* Only a foreground command follows.
FollowInv == \A c \in Commands : pc[c] = "follow" => c \in Foreground

\* A command follows after it has started the machine.
LEMMA FollowSteps ==
    ASSUME StopInv, FollowInv, NEW c \in Commands, Step(c) \/ Crash(c)
    PROVE  FollowInv'
<1>1. Alone(c)
  BY RunSteps, ListSteps, SaveSteps, QemuSteps, CrashStep DEF StopInv, Step
<1>2. \A x \in Commands \ {c} : pc'[x] = pc[x]
  BY <1>1 DEF Alone
<1>3. pc \in [Commands -> Phases] /\ CopiesInv
  BY DEF StopInv, CopiesInv, TypeOK
<1>4. \A l : Goto(c, l) => pc'[c] = l
  BY <1>3 DEF Goto
<1>5. \A next : Load(c, next) /\ next \in [States -> Phases \ {"wait", "create"}]
                => pc'[c] = "failed" \/ \E s \in States : pc'[c] = next[s]
  BY <1>3, Loads
<1>6. ASSUME pc'[c] = "follow" PROVE c \in Foreground
  <2>1. CASE StartGet(c) \/ StopList(c) \/ PauseList(c) \/ RmList(c)
    <3>1. PICK next \in [States -> {"connect", "done", "quit", "pause", "delete"}] : Load(c, next)
      BY <2>1, Listing
    <3>2. next \in [States -> Phases \ {"wait", "create"}]
      BY PhaseSets
    <3> QED BY <1>5, <1>6, <3>1, <3>2
  <2>2. CASE AssignName(c) \/ Create(c) \/ CreateFails(c) \/ CreateRecord(c) \/ StartGetMissing(c)
    BY <1>4, <1>6, <2>2 DEF AssignName, Create, CreateFails, CreateRecord, StartGetMissing
  <2>3. CASE StartConnect(c) \/ StartRecreate(c) \/ StartCont(c) \/ FollowEnds(c) \/ Crash(c)
    BY <1>4, <1>6, <2>3 DEF StartConnect, StartRecreate, StartCont, FollowEnds, Crash, Fail
  <2>4. CASE StartRecord(c)
    BY <1>4, <1>6, <2>4 DEF StartRecord, Fail
  <2>5. CASE Stop(c) \/ StopWait(c) \/ StopTimeout(c) \/ StopRecord(c)
    BY <1>4, <1>6, <2>5 DEF Stop, StopWait, StopTimeout, StopRecord, StopError, Fail
  <2>6. CASE Pause(c) \/ PauseRecord(c) \/ Delete(c) \/ Forget(c)
    BY <1>4, <1>6, <2>6 DEF Pause, PauseRecord, Delete, Forget, Fail
  <2> QED BY <2>1, <2>2, <2>3, <2>4, <2>5, <2>6 DEF Step
<1> QED BY <1>2, <1>6 DEF FollowInv

OneOrNone == Foreground = {} \/ \A r, s \in Runs : r = s

\* Commands issued one at a time, one step of the one at work.
LEMMA StepRecorded ==
    ASSUME OneOrNone, StopInv, SockInv, FollowInv, serial, NEW c \in Commands, Mine(c), Running, Step(c)
    PROVE  Mine(c)' /\ Running' /\ (Kept => Kept')
<1>1. Only(c)
  BY StepsAlone
<1>2. FollowEnds(c) => c \in Foreground
  BY DEF FollowEnds, FollowInv
<1>3. CASE AssignName(c) \/ CreateFails(c) \/ StartGetMissing(c)
  BY <1>1, <1>3, RunRecorded
<1>4. CASE StartGet(c) \/ StopList(c) \/ PauseList(c) \/ RmList(c)
  BY <1>1, <1>4, ListRecorded
<1>5. CASE Create(c) \/ StartRecreate(c) \/ StartCont(c) \/ Stop(c) \/ Pause(c) \/ Delete(c)
  BY <1>1, <1>5, QemuRecorded
<1>6. CASE \/ StartConnect(c) \/ StartRecord(c) \/ StopWait(c) \/ StopTimeout(c) \/ StopRecord(c)
           \/ PauseRecord(c)
  BY <1>1, <1>6, SaveRecorded
<1>7. CASE CreateRecord(c)
  BY <1>1, <1>7, FirstRecorded
<1>8. CASE Forget(c)
  BY <1>1, <1>8, ForgetRecorded
<1>9. CASE FollowEnds(c)
  BY <1>1, <1>2, <1>9, FollowRecorded DEF OneOrNone
<1> QED BY <1>3, <1>4, <1>5, <1>6, <1>7, <1>8, <1>9 DEF Step

\* The others are not at work: nothing is claimed of them.
LEMMA OthersMine ==
    ASSUME NEW x \in Commands, pc'[x] \notin Active
    PROVE  Mine(x)'
  BY PhaseSets DEF Mine

\* A step, or the death, of a command.
LEMMA CommandRecorded ==
    ASSUME OneOrNone, StopInv, SockInv, FollowInv, RecordedInv, NEW c \in Commands, Step(c) \/ Crash(c)
    PROVE  /\ SockInv' /\ FollowInv' /\ RecordedInv'
           /\ FilesInv /\ (Crash(c) => c \notin Runs) => FilesInv'
<1>1. Alone(c) /\ FollowInv'
  BY FollowSteps, RunSteps, ListSteps, SaveSteps, QemuSteps, CrashStep DEF StopInv, Step
<1>2. \A x \in Commands \ {c} : pc'[x] = pc[x] /\ serial' = serial
  BY <1>1 DEF Alone
<1>3. CASE Step(c)
  <2>1. SockInv'
    BY <1>3, StepTracks DEF Plugs, SockInv
  <2>2. ASSUME serial
        PROVE  (\A x \in Commands : Mine(x)') /\ Running' /\ (Kept => Kept')
    <3>1. Mine(c)' /\ Running' /\ (Kept => Kept')
      BY <1>3, <2>2, StepRecorded DEF RecordedInv
    <3>2. \A x \in Commands \ {c} : Mine(x)'
      BY <1>2, <1>3, <2>2, StepsAlone, OthersMine DEF Only
    <3> QED BY <3>1, <3>2
  <2> QED BY <1>1, <2>1, <2>2 DEF RecordedInv, FilesInv, Alone
<1>4. CASE Crash(c)
  <2>1. /\ serial /\ serial' = serial /\ UNCHANGED <<rec, vmm, pid, sock, orphan, copy>> /\ pc'[c] = "failed"
    BY <1>4 DEF Crash, Goto, StopInv, CopiesInv, TypeOK, qemu
  <2>2. SockInv' /\ Running'
    BY <2>1 DEF SockInv, RecordedInv, Running
  <2>3. Mine(c)'
    BY <2>1, PhaseSets, OthersMine
  <2>4. ASSUME NEW x \in Commands \ {c} PROVE Mine(x)'
    <3>1. Mine(x) /\ Uid(x)' = Uid(x) /\ pc'[x] = pc[x]
      BY <1>2, <2>1 DEF RecordedInv, Uid
    <3> QED BY <2>1, <3>1 DEF Mine
  <2>5. ASSUME Kept, c \notin Runs PROVE Kept'
    BY <1>2, <2>1, <2>5, CommandSets DEF Kept
  <2> QED BY <1>1, <1>4, <2>1, <2>2, <2>3, <2>4, <2>5 DEF RecordedInv, FilesInv
<1> QED BY <1>3, <1>4

\* QEMU goes by itself, or is killed.
LEMMA VmmRecorded ==
    ASSUME StopInv, SockInv, RecordedInv, NEW v \in Uids, VmmExit(v) \/ VmmKilled(v)
    PROVE  SockInv' /\ RecordedInv' /\ (FilesInv => FilesInv')
<1>1. /\ UNCHANGED <<rec, orphan, copy, serial, pc>> /\ vmm' = [vmm EXCEPT ![v] = "none"]
      /\ sock' \in {sock, sock \ {v}} /\ pid' \in {pid, pid \ {v}}
      /\ vmm \in [Uids -> Attached \cup {"none", "dying"}]
  BY DEF VmmExit, VmmKilled, StopInv, CopiesInv, TypeOK
<1>2. /\ vmm'[v] = "none" /\ \A u \in Uids \ {v} : vmm'[u] = vmm[u] /\ (u \in sock => u \in sock')
      /\ "none" \notin Attached /\ \A u : (u \in sock' => u \in sock) /\ (u \in pid' => u \in pid)
  BY <1>1 DEF Attached
<1>3. SockInv'
  BY <1>2 DEF SockInv
<1>4. ASSUME NEW c \in Commands, Mine(c) PROVE Mine(c)'
  <2>1. Uid(c)' = Uid(c) /\ pc'[c] = pc[c] /\ rec' = rec
    BY <1>1 DEF Uid
  <2>2. pc[c] \in HasCopy => Uid(c) \in Uids
    BY DEF StopInv, CopiesInv, Record, Uid
  <2>3. pc[c] \in HasCopy => vmm'[Uid(c)] = vmm[Uid(c)] \/ vmm'[Uid(c)] = "none"
    BY <1>2, <2>2
  <2>4. pc[c] \in {"wait", "stopped", "delete", "forget"} => pc[c] \in HasCopy
    BY PhaseSets
  <2> QED BY <1>2, <1>4, <2>1, <2>3, <2>4 DEF Mine
<1>5. Running => Running'
  BY <1>1, <1>2 DEF Running
<1>6. Kept => Kept'
  BY <1>1, <1>2 DEF Kept
<1> QED BY <1>1, <1>3, <1>4, <1>5, <1>6 DEF RecordedInv, FilesInv

\* When commands are issued one at a time, the one at work and the record agree; with at
\* most one run, or none in the foreground.
THEOREM RecordedInvariant ==
    ASSUME OneOrNone
    PROVE  Spec => [](SockInv /\ FollowInv /\ RecordedInv)
<1>1. Init => SockInv /\ FollowInv /\ RecordedInv
  <2> SUFFICES ASSUME Init PROVE SockInv /\ FollowInv /\ RecordedInv
    OBVIOUS
  <2>1. /\ \A c \in Commands : pc[c] = "idle" /\ pc[c] \notin Active
        /\ orphan = {} /\ \A u \in Uids : vmm[u] = "none"
    BY PhaseSets DEF Init
  <2>2. SockInv /\ FollowInv /\ Running
    BY <2>1 DEF SockInv, FollowInv, Running, Attached
  <2>3. \A c \in Commands : Mine(c)
    BY <2>1, PhaseSets DEF Mine
  <2> QED BY <2>2, <2>3 DEF RecordedInv
<1>2. StopInv /\ SockInv /\ FollowInv /\ RecordedInv /\ [Next]_vars
      => (SockInv /\ FollowInv /\ RecordedInv)'
  <2> SUFFICES ASSUME StopInv, SockInv, FollowInv, RecordedInv, [Next]_vars
               PROVE  (SockInv /\ FollowInv /\ RecordedInv)'
    OBVIOUS
  <2>1. ASSUME NEW c \in Commands, Step(c) \/ Crash(c)
        PROVE  (SockInv /\ FollowInv /\ RecordedInv)'
    BY <2>1, CommandRecorded
  <2>2. ASSUME NEW u \in Uids, VmmExit(u) \/ VmmKilled(u)
        PROVE  (SockInv /\ FollowInv /\ RecordedInv)'
    <3>1. FollowInv'
      BY <2>2 DEF VmmExit, VmmKilled, FollowInv
    <3> QED BY <2>2, <3>1, VmmRecorded
  <2>3. CASE UNCHANGED vars
    <3>1. UNCHANGED <<rec, vmm, pid, sock, orphan, copy, serial, pc>>
      BY <2>3 DEF vars
    <3>2. SockInv' /\ FollowInv' /\ (Running => Running')
      <4>1. SockInv'
        BY <3>1 DEF SockInv
      <4>2. FollowInv' /\ (Running => Running')
        BY <3>1 DEF FollowInv, Running
      <4> QED BY <4>1, <4>2
    <3>3. \A c \in Commands : Mine(c) => Mine(c)'
      BY <3>1 DEF Mine, Uid
    <3> QED BY <3>1, <3>2, <3>3 DEF RecordedInv
  <2> QED BY <2>1, <2>2, <2>3 DEF Next
<1> QED BY <1>1, <1>2, StopInvariant, PTL DEF Spec

\* A guest that runs has a record by which it can be stopped, when commands are issued one
\* at a time, whichever of them are killed: kraft rm does not forget it (remove.go 231-243).
\* A foreground run whose machine was removed saves its old copy when it ends, over the
\* record of another run of the name: so there is one run, or none is in the foreground.
THEOREM GuestsAreRecorded ==
    ASSUME Foreground = {} \/ \A r, s \in Runs : r = s
    PROVE  Spec => []RunningIsRecorded
<1>1. OneOrNone
  BY DEF OneOrNone
<1>2. RecordedInv => RunningIsRecorded
  BY DEF RecordedInv, Running, RunningIsRecorded
<1> QED BY <1>1, <1>2, RecordedInvariant, PTL

\* Removing a machine removes its pid file and its socket, whichever command removed it and
\* whatever became of its QEMU (QEMU Delete 996-1019); a run that is killed between the
\* start of QEMU and the record would leave files that no command knows of.
THEOREM RemovedCompletely ==
    ASSUME Foreground = {} \/ \A r, s \in Runs : r = s,
           Runs \cap Crashable = {}
    PROVE  Spec => []RemovedLeavesNothing
<1>1. OneOrNone
  BY DEF OneOrNone
<1>2. Init => FilesInv
  BY DEF Init, FilesInv, Kept
<1>3. StopInv /\ SockInv /\ FollowInv /\ RecordedInv /\ FilesInv /\ [Next]_vars => FilesInv'
  <2> SUFFICES ASSUME StopInv, SockInv, FollowInv, RecordedInv, FilesInv, [Next]_vars
               PROVE  FilesInv'
    OBVIOUS
  <2>1. ASSUME NEW c \in Commands, Step(c) \/ Crash(c)
        PROVE  FilesInv'
    <3>1. Crash(c) => c \notin Runs
      BY DEF Crash
    <3> QED BY <1>1, <2>1, <3>1, CommandRecorded
  <2>2. ASSUME NEW u \in Uids, VmmExit(u) \/ VmmKilled(u)
        PROVE  FilesInv'
    BY <2>2, VmmRecorded
  <2>3. CASE UNCHANGED vars
    BY <2>3 DEF vars, FilesInv, Kept
  <2> QED BY <2>1, <2>2, <2>3 DEF Next
<1>4. StopInv /\ FilesInv => RemovedLeavesNothing
  <2> SUFFICES ASSUME StopInv, FilesInv, serial, Idle, rec = None
               PROVE  pid = {} /\ sock = {}
    BY DEF RemovedLeavesNothing
  <2>1. \A u \in Uids : pc[u] # "record"
    BY CommandSets, PhaseSets DEF Idle
  <2>2. \A u \in Uids : u \notin pid /\ u \notin sock
    BY <2>1 DEF FilesInv, Kept
  <2>3. pid \subseteq Uids /\ sock \subseteq Uids
    BY DEF StopInv, CopiesInv, TypeOK
  <2> QED BY <2>2, <2>3
<1> QED BY <1>1, <1>2, <1>3, <1>4, StopInvariant, RecordedInvariant, PTL DEF Spec

============================================================================
