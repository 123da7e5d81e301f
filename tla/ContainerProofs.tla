-------------------------- MODULE ContainerProofs --------------------------
(***************************************************************************)
(* Container for any sets of commands: type correctness, the lock step of  *)
(* the sync protocol, and the safety properties.  The steps are taken      *)
(* actor by actor: a create, an init, a start, a delete, a kill, a command *)
(* that begins (CreateStat, Load) or is killed (Crash).  A Frame lemma     *)
(* says what the steps of an actor may change; the preservation of each    *)
(* part of the types, of SyncInv and of the inductive invariant IndInv is  *)
(* then argued from the frame alone.                                       *)
(***************************************************************************)
EXTENDS Container, TLAPS

\* The leaves are for Zenon, but for those that name SMT.
USE Zenon

-----------------------------------------------------------------------------
(* The sets of phases and messages, and the pipe.                          *)

LEMMA PhaseLiterals ==
       {"idle", "checked", "made", "fifo", "config", "sync", "hooks", "save", "run",
        "post", "pidfile", "term", "unfifo", "destroy", "removing", "failed", "done",
        "crashed", "loaded", "exec", "blocked", "open", "reading", "remove", "kill",
        "wait"} \subseteq Phases
  BY DEF Phases, CreatePhases, StartPhases, DeletePhases, KillPhases, Terminal

LEMMA InitPhaseLiterals ==
       {"none", "config", "hooks", "ready", "check", "closed", "fifo", "opened", "wrote",
        "running", "dead"} \subseteq InitPhases
  BY DEF InitPhases

LEMMA MessageLiterals ==
    {"procConfig", "procHooks", "procResume", "procReady", "procRun", "procError"}
        \subseteq Messages
  BY DEF Messages

LEMMA CommandSets ==
    /\ Creators \subseteq Commands /\ Starters \subseteq Commands
    /\ Deleters \subseteq Commands /\ Killers \subseteq Commands
  BY DEF Commands

LEMMA RunTypeType ==
    ASSUME NEW i PROVE RunType(i) \in {"stopped", "created", "running"}
  BY DEF RunType

LEMMA OpenType ==
    ASSUME TypeOK, NEW p \in Creators \cup Starters, fd' = [fd EXCEPT ![p] = fifo]
    PROVE  fd' \in [Creators \cup Starters -> Creators \cup {None}]
  BY DEF TypeOK

LEMMA LoadType ==
    ASSUME TypeOK, NEW p \in Commands, loaded' = [loaded EXCEPT ![p] = saved]
    PROVE  loaded' \in [Commands -> Creators \cup {None}]
  BY DEF TypeOK

LEMMA AppendType ==
    ASSUME NEW q \in Seq(Messages), NEW m \in Messages
    PROVE  Append(q, m) \in Seq(Messages)
  BY SMT

LEMMA TailType ==
    ASSUME NEW q \in Seq(Messages), q # <<>>
    PROVE  Tail(q) \in Seq(Messages)
  BY SMT

\* A write by the create, a read and a write by the init keep the pipe typed.
LEMMA AppendsType ==
    ASSUME down \in [Creators -> Seq(Messages)], NEW c \in Creators,
           NEW m \in Messages, down' = [down EXCEPT ![c] = Append(@, m)]
    PROVE  down' \in [Creators -> Seq(Messages)]
  BY AppendType

LEMMA ReceiveType ==
    ASSUME down \in [Creators -> Seq(Messages)], NEW i \in Creators, down[i] # <<>>,
           down' = [down EXCEPT ![i] = Tail(@)]
    PROVE  down' \in [Creators -> Seq(Messages)]
  BY TailType

LEMMA DropType ==
    ASSUME down \in [Creators -> Seq(Messages)], NEW i \in Creators,
           down' = [down EXCEPT ![i] = <<>>]
    PROVE  down' \in [Creators -> Seq(Messages)]
  BY SMT

LEMMA ConsumeType ==
    ASSUME up \in [Creators -> Seq(Messages)], NEW i \in Creators, up[i] # <<>>,
           up' = [up EXCEPT ![i] = Tail(@)]
    PROVE  up' \in [Creators -> Seq(Messages)]
  BY TailType

LEMMA ReplyType ==
    ASSUME up \in [Creators -> Seq(Messages)], NEW i \in Creators,
           NEW m \in Messages, Reply(i, m)
    PROVE  up' \in [Creators -> Seq(Messages)]
  BY AppendType DEF Reply

LEMMA HasRunAppend ==
    ASSUME NEW q \in Seq(Messages), NEW m \in Messages, HasRun(Append(q, m))
    PROVE  m = "procRun" \/ HasRun(q)
  BY SMT DEF HasRun

LEMMA HasRunTail ==
    ASSUME NEW q \in Seq(Messages), q # <<>>, HasRun(Tail(q))
    PROVE  HasRun(q)
  BY SMT DEF HasRun

LEMMA HasRunHead ==
    ASSUME NEW q \in Seq(Messages), q # <<>>, Head(q) = "procRun"
    PROVE  HasRun(q)
  BY SMT DEF HasRun

LEMMA HasRunEmpty == ~HasRun(<<>>)
  BY SMT DEF HasRun

LEMMA PipeShrinks ==
    ASSUME down \in [Creators -> Seq(Messages)], NEW c \in Creators,
           \/ down' = down \/ down' = [down EXCEPT ![c] = <<>>]
           \/ down[c] # <<>> /\ down' = [down EXCEPT ![c] = Tail(@)],
           NEW e \in Creators, HasRun(down'[e])
    PROVE  HasRun(down[e])
<1>1. CASE down' = down
  BY <1>1
<1>2. CASE down' = [down EXCEPT ![c] = <<>>]
  BY <1>2, HasRunEmpty
<1>3. CASE down[c] # <<>> /\ down' = [down EXCEPT ![c] = Tail(@)]
  BY <1>3, HasRunTail
<1> QED BY <1>1, <1>2, <1>3

-----------------------------------------------------------------------------
(* What the steps of each actor may change.                                *)

LEMMA CreateFrame ==
    ASSUME pc \in [Commands -> Phases], NEW c \in Creators, CreateStep(c)
    PROVE  /\ loaded' = loaded /\ got' = got /\ byte' = byte
           /\ ~Quiet(c) /\ \A q \in Commands \ {c} : pc'[q] = pc[q]
           /\ \/ saved' = saved
              \/ pc[c] = "save" /\ saved' = c /\ dir # None /\ dir' = dir
              \/ pc[c] = "removing" /\ saved' = None
           /\ \/ fifo' = fifo
              \/ pc[c] = "made" /\ fifo' = c /\ dir # None /\ dir' = dir
              \/ fifo' = None
           /\ dir' = None => dir = None \/ (saved' = None /\ fifo' = None)
           /\ \/ pc[c] = "fifo" /\ fifo # None /\ fd' = [fd EXCEPT ![c] = fifo]
                                /\ init' = [init EXCEPT ![c] = "config"]
                                /\ pc'[c] = "config" /\ down' = down
              \/ fd' = fd /\ init' = init
              \/ /\ pc[c] \in {"term", "pidfile"} /\ fd' = fd
                 /\ init' = [init EXCEPT ![c] = "dead"]
           /\ \/ down' = down
              \/ /\ pc[c] \in {"config", "hooks", "run"}
                 /\ \E m \in Messages : /\ down' = [down EXCEPT ![c] = Append(@, m)]
                                        /\ m = "procRun" => pc[c] = "run"
           /\ pc'[c] = "run" => saved' = c
           /\ pc'[c] \in {"idle", "checked", "made", "fifo"}
                => pc[c] \in {"checked", "made"} /\ init' = init
           /\ pc'[c] \in {"config", "sync", "hooks", "save", "run", "post", "pidfile", "term"}
                => \/ init' = [init EXCEPT ![c] = "config"]
                   \/ /\ init' = init
                      /\ pc[c] \in {"config", "sync", "hooks", "save", "run", "post"}
           /\ pc'[c] \in {"unfifo", "destroy", "removing", "failed"}
                => \/ init' = [init EXCEPT ![c] = "dead"]
                   \/ /\ init' = init
                      /\ pc[c] \in {"checked", "made", "fifo", "unfifo", "destroy", "removing"}
<1> USE CommandsAreDisjoint DEF Commands
<1>1. loaded' = loaded /\ got' = got /\ byte' = byte
  BY DEF loading, inits, CreateStep, CreateMkdir, CreateExecFifo, Spawn, SendConfig, Sync, SyncEOF,
      RunHooks, UpdateState, WriteProcRun, Poststart, CreatePidFile, Terminate,
      DeleteExecFifo, Destroy, RemoveAll, Send
<1>2. ~Quiet(c) /\ \A q \in Commands \ {c} : pc'[q] = pc[q]
  BY DEF Goto, Quiet, Terminal, CreateStep, CreateMkdir, CreateExecFifo, Spawn, SendConfig, Sync, SyncEOF,
      RunHooks, UpdateState, WriteProcRun, Poststart, CreatePidFile, Terminate,
      DeleteExecFifo, Destroy, RemoveAll, Send
<1>3. \/ saved' = saved
      \/ pc[c] = "save" /\ saved' = c /\ dir # None /\ dir' = dir
      \/ pc[c] = "removing" /\ saved' = None
  BY DEF files, CreateStep, CreateMkdir, CreateExecFifo, Spawn, SendConfig, Sync, SyncEOF,
      RunHooks, UpdateState, WriteProcRun, Poststart, CreatePidFile, Terminate,
      DeleteExecFifo, Destroy, RemoveAll, Send
<1>4. \/ fifo' = fifo
      \/ pc[c] = "made" /\ fifo' = c /\ dir # None /\ dir' = dir
      \/ fifo' = None
  BY DEF files, CreateStep, CreateMkdir, CreateExecFifo, Spawn, SendConfig, Sync, SyncEOF,
      RunHooks, UpdateState, WriteProcRun, Poststart, CreatePidFile, Terminate,
      DeleteExecFifo, Destroy, RemoveAll, Send
<1>5. dir' = None => dir = None \/ (saved' = None /\ fifo' = None)
  BY DEF files, CreateStep, CreateMkdir, CreateExecFifo, Spawn, SendConfig, Sync, SyncEOF,
      RunHooks, UpdateState, WriteProcRun, Poststart, CreatePidFile, Terminate,
      DeleteExecFifo, Destroy, RemoveAll, Send
<1>6. \/ pc[c] = "fifo" /\ fifo # None /\ fd' = [fd EXCEPT ![c] = fifo]
                        /\ init' = [init EXCEPT ![c] = "config"]
                        /\ pc'[c] = "config" /\ down' = down
      \/ fd' = fd /\ init' = init
      \/ /\ pc[c] \in {"term", "pidfile"} /\ fd' = fd
         /\ init' = [init EXCEPT ![c] = "dead"]
  BY DEF Goto, inits, CreateStep, CreateMkdir, CreateExecFifo, Spawn, SendConfig, Sync, SyncEOF,
      RunHooks, UpdateState, WriteProcRun, Poststart, CreatePidFile, Terminate,
      DeleteExecFifo, Destroy, RemoveAll, Send
<1>7. \/ down' = down
      \/ /\ pc[c] \in {"config", "hooks", "run"}
         /\ \E m \in Messages : /\ down' = [down EXCEPT ![c] = Append(@, m)]
                                /\ m = "procRun" => pc[c] = "run"
  BY MessageLiterals DEF inits, CreateStep, CreateMkdir, CreateExecFifo, Spawn, SendConfig, Sync, SyncEOF,
      RunHooks, UpdateState, WriteProcRun, Poststart, CreatePidFile, Terminate,
      DeleteExecFifo, Destroy, RemoveAll, Send
<1>8. pc'[c] = "run" => saved' = c
  BY DEF Goto, CreateStep, CreateMkdir, CreateExecFifo, Spawn, SendConfig, Sync, SyncEOF,
      RunHooks, UpdateState, WriteProcRun, Poststart, CreatePidFile, Terminate,
      DeleteExecFifo, Destroy, RemoveAll, Send
<1>9. /\ pc'[c] \in {"idle", "checked", "made", "fifo"}
           => pc[c] \in {"checked", "made"} /\ init' = init
      /\ pc'[c] \in {"config", "sync", "hooks", "save", "run", "post", "pidfile", "term"}
           => \/ init' = [init EXCEPT ![c] = "config"]
              \/ /\ init' = init
                 /\ pc[c] \in {"config", "sync", "hooks", "save", "run", "post"}
      /\ pc'[c] \in {"unfifo", "destroy", "removing", "failed"}
           => \/ init' = [init EXCEPT ![c] = "dead"]
              \/ /\ init' = init
                 /\ pc[c] \in {"checked", "made", "fifo", "unfifo", "destroy", "removing"}
  BY SMT DEF Goto, inits, CreateStep, CreateMkdir, CreateExecFifo, Spawn, SendConfig, Sync, SyncEOF,
      RunHooks, UpdateState, WriteProcRun, Poststart, CreatePidFile, Terminate,
      DeleteExecFifo, Destroy, RemoveAll, Send
<1> QED BY <1>1, <1>2, <1>3, <1>4, <1>5, <1>6, <1>7, <1>8, <1>9

LEMMA InitFrame ==
    ASSUME pc \in [Commands -> Phases], init \in [Creators -> InitPhases],
           down \in [Creators -> Seq(Messages)],
           NEW i \in Creators, InitStep(i) \/ InitExit(i)
    PROVE  /\ UNCHANGED <<dir, saved, fifo, loaded, got, fd>>
           /\ \A p \in Commands :
                 \/ pc'[p] = pc[p]
                 \/ p \in Starters /\ pc[p] = "blocked" /\ pc'[p] = "open"
           /\ init[i] # "none" /\ init[i] # "dead" /\ init'[i] # "none"
           /\ \A e \in Creators \ {i} : init'[e] = init[e] /\ down'[e] = down[e]
           /\ init[i] \in {"wrote", "running"} => init'[i] \in {"running", "dead"}
           /\ \/ byte' = byte
              \/ byte' = byte \cup {fd[i]} /\ init[i] = "opened" /\ init'[i] = "wrote"
           /\ Released(i)' => Released(i) \/ HasRun(down[i])
           /\ HasRun(down'[i]) => HasRun(down[i])
<1> USE CommandsAreDisjoint DEF Commands
<1>1. UNCHANGED <<dir, saved, fifo, loaded, got, fd>>
  BY DEF files, loading, InitStep, InitExit, InitConfig, InitReady, InitRun, InitError, InitOrphaned,
      CheckParent, OpenFifoForWriting, WriteFifo, ExecUser, InitKilled, InitGoto,
      Receive, Reply
<1>2. \A p \in Commands :
         \/ pc'[p] = pc[p]
         \/ p \in Starters /\ pc[p] = "blocked" /\ pc'[p] = "open"
  BY DEF InitStep, InitExit, InitConfig, InitReady, InitRun, InitError, InitOrphaned,
      CheckParent, OpenFifoForWriting, WriteFifo, ExecUser, InitKilled, InitGoto,
      Receive, Reply
<1>3. init[i] # "none" /\ init[i] # "dead"
  BY DEF Alive, InitStep, InitExit, InitConfig, InitReady, InitRun, InitError, InitOrphaned,
      CheckParent, OpenFifoForWriting, WriteFifo, ExecUser, InitKilled, InitGoto,
      Receive, Reply
<1>4. \E x \in {"hooks", "ready", "check", "closed", "fifo", "opened", "wrote", "running",
               "dead"} :
         /\ init' = [init EXCEPT ![i] = x]
         /\ init[i] \in {"wrote", "running"} => x \in {"running", "dead"}
         /\ x \in {"check", "closed", "fifo", "opened", "wrote", "running"}
              => Released(i) \/ InitRun(i)
         /\ byte' = byte \/ (byte' = byte \cup {fd[i]} /\ init[i] = "opened" /\ x = "wrote")
  BY DEF Released, inits, InitStep, InitExit, InitConfig, InitReady, InitRun, InitError, InitOrphaned,
      CheckParent, OpenFifoForWriting, WriteFifo, ExecUser, InitKilled, InitGoto,
      Receive, Reply
<1>5. \/ down' = down \/ down' = [down EXCEPT ![i] = <<>>]
      \/ down[i] # <<>> /\ down' = [down EXCEPT ![i] = Tail(@)]
  BY DEF inits, InitStep, InitExit, InitConfig, InitReady, InitRun, InitError, InitOrphaned,
      CheckParent, OpenFifoForWriting, WriteFifo, ExecUser, InitKilled, InitGoto,
      Receive, Reply
<1>6. InitRun(i) => HasRun(down[i])
  BY HasRunHead DEF InitRun, Receive
<1>7. HasRun(down'[i]) => HasRun(down[i])
  BY <1>5, PipeShrinks, Zenon
<1>8. \A e \in Creators \ {i} : init'[e] = init[e] /\ down'[e] = down[e]
  BY <1>4, <1>5
<1>9. Released(i)' => Released(i) \/ HasRun(down[i])
  BY <1>4, <1>6 DEF Released
<1> QED BY <1>1, <1>2, <1>3, <1>4, <1>7, <1>8, <1>9

LEMMA StartFrame ==
    ASSUME pc \in [Commands -> Phases], init \in [Creators -> InitPhases],
           fd \in [Creators \cup Starters -> Creators \cup {None}],
           NEW s \in Starters, StartStep(s)
    PROVE  /\ UNCHANGED <<dir, saved, loaded, down>> /\ fifo' \in {fifo, None}
           /\ ~Quiet(s) /\ \A q \in Commands \ {s} : pc'[q] = pc[q]
           /\ \A e \in Creators : init'[e] = init[e] \/ (init[e] = "fifo" /\ init'[e] = "opened")
           /\ \/ fd' = fd
              \/ fd' = [fd EXCEPT ![s] = fifo] /\ pc[s] \in {"exec", "blocked", "open"}
                                               /\ pc'[s] \in {"open", "blocked", "reading"}
           /\ \/ got' = got
              \/ got' = got \cup {s} /\ pc[s] = "reading" /\ fd' = fd /\ pc' = pc
                                     /\ fd[s] \in byte /\ byte' = byte \ {fd[s]}
           /\ byte' \subseteq byte
           /\ pc'[s] \in {"remove", "done"} =>
                 \/ pc[s] \in {"remove"} /\ fd' = fd
                 \/ pc[s] = "reading" /\ s \in got /\ ~Writing(fd[s]) /\ fd' = fd
           /\ pc[s] \in {"reading", "remove"} => pc'[s] \in {"reading", "remove"} \cup Terminal
<1> USE CommandsAreDisjoint DEF Commands
<1>1. UNCHANGED <<dir, saved, loaded, down>> /\ fifo' \in {fifo, None}
  BY DEF files, loading, inits, StartStep, StartStatus, AwaitFifoOpen, FifoOpened, PollInit, ReadFifo,
      ReadFifoEOF, RemoveFifo, OpenFifoForReading
<1>2. ~Quiet(s) /\ \A q \in Commands \ {s} : pc'[q] = pc[q]
  BY DEF Goto, Quiet, Terminal, StartStep, StartStatus, AwaitFifoOpen, FifoOpened, PollInit, ReadFifo,
      ReadFifoEOF, RemoveFifo, OpenFifoForReading
<1>3. \A e \in Creators : init'[e] = init[e] \/ (init[e] = "fifo" /\ init'[e] = "opened")
  BY DEF inits, StartStep, StartStatus, AwaitFifoOpen, FifoOpened, PollInit, ReadFifo,
      ReadFifoEOF, RemoveFifo, OpenFifoForReading
<1>4. \/ fd' = fd
      \/ fd' = [fd EXCEPT ![s] = fifo] /\ pc[s] \in {"exec", "blocked", "open"}
                                       /\ pc'[s] \in {"open", "blocked", "reading"}
  BY DEF Goto, StartStep, StartStatus, AwaitFifoOpen, FifoOpened, PollInit, ReadFifo,
      ReadFifoEOF, RemoveFifo, OpenFifoForReading
<1>5. \/ got' = got
      \/ got' = got \cup {s} /\ pc[s] = "reading" /\ fd' = fd /\ pc' = pc
                             /\ fd[s] \in byte /\ byte' = byte \ {fd[s]}
  BY DEF loading, StartStep, StartStatus, AwaitFifoOpen, FifoOpened, PollInit, ReadFifo,
      ReadFifoEOF, RemoveFifo, OpenFifoForReading
<1>6. byte' \subseteq byte
  BY SMT DEF inits, StartStep, StartStatus, AwaitFifoOpen, FifoOpened, PollInit, ReadFifo,
      ReadFifoEOF, RemoveFifo, OpenFifoForReading
<1>7. pc'[s] \in {"remove", "done"} =>
         \/ pc[s] \in {"remove"} /\ fd' = fd
         \/ pc[s] = "reading" /\ s \in got /\ ~Writing(fd[s]) /\ fd' = fd
  BY DEF Goto, StartStep, StartStatus, AwaitFifoOpen, FifoOpened, PollInit, ReadFifo,
      ReadFifoEOF, RemoveFifo, OpenFifoForReading
<1>8. pc[s] \in {"reading", "remove"} => pc'[s] \in {"reading", "remove"} \cup Terminal
  BY DEF Goto, Terminal, StartStep, StartStatus, AwaitFifoOpen, FifoOpened, PollInit, ReadFifo,
      ReadFifoEOF, RemoveFifo, OpenFifoForReading
<1> QED BY <1>1, <1>2, <1>3, <1>4, <1>5, <1>6, <1>7, <1>8

\* A delete, a kill, a crash.
LEMMA DeleteFrame ==
    ASSUME TypeOK, DeletesDead,
           \/ \E d \in Deleters : DeleteStep(d)
           \/ \E k \in Killers : KillSignal(k)
           \/ \E p \in Commands : Crash(p)
    PROVE  /\ UNCHANGED <<loaded, init, down, byte, fd, got>>
           /\ \A q \in Commands : Quiet(q) => pc'[q] = pc[q]
           /\ \A c \in Creators : pc'[c] \in {pc[c], "crashed"}
           /\ \A s \in Starters : pc'[s] \in {pc[s], "crashed"}
           /\ \/ saved' = saved
              \/ \E d \in Deleters : pc[d] = "removing" /\ saved' = None
           /\ fifo' \in {fifo, None}
           /\ dir' = None => dir = None \/ (saved' = None /\ fifo' = None)
           /\ \A d \in Deleters : pc'[d] \in {"removing", "done"} => ~Alive(loaded[d])
<1> USE CommandsAreDisjoint DEF Commands
<1>1. UNCHANGED <<loaded, init, down, byte, fd, got>>
  BY DEF loading, inits, KillSignal, Crash, DeleteStep, DeleteStatus, KillContainer, PollKilled, RemoveAll, Signal
<1>2. pc \in [Commands -> Phases]
  BY DEF TypeOK
<1>3. /\ \A q \in Commands : Quiet(q) => pc'[q] = pc[q]
      /\ \A c \in Creators : pc'[c] \in {pc[c], "crashed"}
      /\ \A s \in Starters : pc'[s] \in {pc[s], "crashed"}
  BY SMT, <1>2 DEF Goto, Quiet, Terminal, KillSignal, Crash, DeleteStep, DeleteStatus, KillContainer, PollKilled, RemoveAll, Signal
<1>4. /\ \/ saved' = saved
         \/ \E d \in Deleters : pc[d] = "removing" /\ saved' = None
      /\ fifo' \in {fifo, None}
      /\ dir' = None => dir = None \/ (saved' = None /\ fifo' = None)
  BY DEF files, KillSignal, Crash, DeleteStep, DeleteStatus, KillContainer, PollKilled, RemoveAll, Signal
<1>5. \A d \in Deleters : pc'[d] \in {"removing", "done"} => ~Alive(loaded[d])
  BY SMT, <1>2 DEF Goto, RunType, DeletesDead, KillSignal, Crash, DeleteStep, DeleteStatus, KillContainer, PollKilled, RemoveAll, Signal
<1> QED BY <1>1, <1>3, <1>4, <1>5

-----------------------------------------------------------------------------
(* Type correctness.                                                       *)

LEMMA CreateType ==
    ASSUME TypeOK, NEW c \in Creators, CreateStep(c) PROVE TypeOK'
<1> USE CommandsAreDisjoint DEF Commands
<1>1. pc \in [Commands -> Phases] /\ init \in [Creators -> InitPhases]
  BY DEF TypeOK
<1>2. pc' \in [Commands -> Phases]
  BY SMT, <1>1, PhaseLiterals DEF Goto, CreateStep, CreateMkdir, CreateExecFifo, Spawn, SendConfig, Sync, SyncEOF,
      RunHooks, UpdateState, WriteProcRun, Poststart, CreatePidFile, Terminate,
      DeleteExecFifo, Destroy, RemoveAll, Send
<1>3. init' \in [Creators -> InitPhases]
  BY SMT, <1>1, CreateFrame, InitPhaseLiterals
<1>4. fd' \in [Creators \cup Starters -> Creators \cup {None}]
  BY <1>1, CreateFrame, OpenType, Zenon DEF TypeOK
<1>5. down' \in [Creators -> Seq(Messages)]
  <2>1. down \in [Creators -> Seq(Messages)]
    BY DEF TypeOK
  <2>2. down' = down \/ \E m \in Messages : down' = [down EXCEPT ![c] = Append(@, m)]
    BY <1>1, CreateFrame, Zenon
  <2> QED BY <2>1, <2>2, AppendsType, Zenon
<1>6. /\ dir' \in {dir, c, None} /\ saved' \in {saved, c, None}
      /\ fifo' \in {fifo, c, None} /\ killed' \subseteq killed \cup {c}
  BY DEF files, inits, CreateStep, CreateMkdir, CreateExecFifo, Spawn, SendConfig, Sync, SyncEOF,
      RunHooks, UpdateState, WriteProcRun, Poststart, CreatePidFile, Terminate,
      DeleteExecFifo, Destroy, RemoveAll, Send
<1>7. \E x \in {"created", RunType(c)} :
        cstate' = cstate \/ cstate' = [cstate EXCEPT ![c] = x]
  BY DEF creating, CreateStep, CreateMkdir, CreateExecFifo, Spawn, SendConfig, Sync, SyncEOF,
      RunHooks, UpdateState, WriteProcRun, Poststart, CreatePidFile, Terminate,
      DeleteExecFifo, Destroy, RemoveAll, Send
<1>8. cstate' \in [Creators -> {"stopped", "created", "running"}]
  BY <1>7, RunTypeType, ZenonT(30) DEF TypeOK
<1>9. seenReady' = seenReady \/ seenReady' = [seenReady EXCEPT ![c] = TRUE]
  BY DEF creating, CreateStep, CreateMkdir, CreateExecFifo, Spawn, SendConfig, Sync, SyncEOF,
      RunHooks, UpdateState, WriteProcRun, Poststart, CreatePidFile, Terminate,
      DeleteExecFifo, Destroy, RemoveAll, Send
<1>10. seenReady' \in [Creators -> BOOLEAN]
  BY <1>9, ZenonT(30) DEF TypeOK
<1>11. up' = up \/ (up[c] # <<>> /\ up' = [up EXCEPT ![c] = Tail(@)])
  BY DEF inits, CreateStep, CreateMkdir, CreateExecFifo, Spawn, SendConfig, Sync, SyncEOF,
      RunHooks, UpdateState, WriteProcRun, Poststart, CreatePidFile, Terminate,
      DeleteExecFifo, Destroy, RemoveAll, Send
<1>12. up' \in [Creators -> Seq(Messages)]
  BY <1>11, ConsumeType, Zenon DEF TypeOK
<1>13. byte' = byte /\ loaded' = loaded /\ got' = got
  BY <1>1, CreateFrame
<1>14. /\ dir' \in Creators \cup {None} /\ saved' \in Creators \cup {None}
       /\ fifo' \in Creators \cup {None} /\ killed' \subseteq Creators
  BY SMT, <1>6 DEF TypeOK
<1> QED
  BY <1>2, <1>3, <1>4, <1>5, <1>8, <1>10, <1>12, <1>13, <1>14, Zenon DEF TypeOK

LEMMA InitType ==
    ASSUME TypeOK, NEW c \in Creators, InitStep(c) \/ InitExit(c) PROVE TypeOK'
<1> USE CommandsAreDisjoint DEF Commands
<1>1. pc \in [Commands -> Phases] /\ init \in [Creators -> InitPhases]
  BY DEF TypeOK
<1>2. pc' \in [Commands -> Phases]
  BY SMT, <1>1, PhaseLiterals DEF InitStep, InitExit, InitConfig, InitReady, InitRun, InitError, InitOrphaned,
      CheckParent, OpenFifoForWriting, WriteFifo, ExecUser, InitKilled, InitGoto,
      Receive, Reply
<1>3. init' \in [Creators -> InitPhases]
  BY SMT, <1>1, InitPhaseLiterals DEF InitStep, InitExit, InitConfig, InitReady, InitRun, InitError, InitOrphaned,
      CheckParent, OpenFifoForWriting, WriteFifo, ExecUser, InitKilled, InitGoto,
      Receive, Reply
<1>4. up' = up \/ \E m \in Messages : Reply(c, m)
  BY MessageLiterals DEF inits, InitStep, InitExit, InitConfig, InitReady, InitRun, InitError, InitOrphaned,
      CheckParent, OpenFifoForWriting, WriteFifo, ExecUser, InitKilled, InitGoto,
      Receive, Reply
<1>5. up' \in [Creators -> Seq(Messages)]
  BY <1>4, ReplyType DEF TypeOK
<1>6. \/ down' = down \/ down' = [down EXCEPT ![c] = <<>>]
      \/ down[c] # <<>> /\ down' = [down EXCEPT ![c] = Tail(@)]
  BY DEF inits, InitStep, InitExit, InitConfig, InitReady, InitRun, InitError, InitOrphaned,
      CheckParent, OpenFifoForWriting, WriteFifo, ExecUser, InitKilled, InitGoto,
      Receive, Reply
<1>7. down' \in [Creators -> Seq(Messages)]
  BY <1>6, DropType, ReceiveType, Zenon DEF TypeOK
<1>8. byte' = byte \/ byte' = byte \cup {fd[c]}
  BY DEF inits, InitStep, InitExit, InitConfig, InitReady, InitRun, InitError, InitOrphaned,
      CheckParent, OpenFifoForWriting, WriteFifo, ExecUser, InitKilled, InitGoto,
      Receive, Reply
<1>9. byte' \subseteq Creators \cup {None}
  BY SMT, <1>8 DEF TypeOK
<1>10. UNCHANGED <<dir, saved, fifo, cstate, seenReady, killed, loaded, fd, got>>
  BY DEF files, creating, loading, InitStep, InitExit, InitConfig, InitReady, InitRun, InitError, InitOrphaned,
      CheckParent, OpenFifoForWriting, WriteFifo, ExecUser, InitKilled, InitGoto,
      Receive, Reply
<1> QED BY <1>2, <1>3, <1>5, <1>7, <1>9, <1>10, Zenon DEF TypeOK

LEMMA StartType ==
    ASSUME TypeOK, NEW s \in Starters, StartStep(s) PROVE TypeOK'
<1> USE CommandsAreDisjoint DEF Commands
<1>1. /\ pc \in [Commands -> Phases] /\ init \in [Creators -> InitPhases]
      /\ fd \in [Creators \cup Starters -> Creators \cup {None}]
  BY DEF TypeOK
<1>2. pc' \in [Commands -> Phases]
  BY SMT, <1>1, PhaseLiterals DEF Goto, StartStep, StartStatus, AwaitFifoOpen, FifoOpened, PollInit, ReadFifo,
      ReadFifoEOF, RemoveFifo, OpenFifoForReading
<1>3. init' \in [Creators -> InitPhases]
  BY SMT, <1>1, InitPhaseLiterals DEF inits, StartStep, StartStatus, AwaitFifoOpen, FifoOpened, PollInit, ReadFifo,
      ReadFifoEOF, RemoveFifo, OpenFifoForReading
<1>4. fd' \in [Creators \cup Starters -> Creators \cup {None}]
  BY <1>1, StartFrame, OpenType, Zenon
<1>5. byte' \subseteq byte /\ got' \subseteq got \cup {s} /\ fifo' \in {fifo, None}
  BY <1>1, StartFrame
<1>6. UNCHANGED <<dir, saved, cstate, seenReady, up, down, killed, loaded>>
  BY DEF files, creating, inits, loading, StartStep, StartStatus, AwaitFifoOpen, FifoOpened, PollInit, ReadFifo,
      ReadFifoEOF, RemoveFifo, OpenFifoForReading
<1>7. /\ byte' \subseteq Creators \cup {None} /\ got' \subseteq Starters
      /\ fifo' \in Creators \cup {None}
  BY SMT, <1>5 DEF TypeOK
<1> QED BY <1>2, <1>3, <1>4, <1>6, <1>7 DEF TypeOK

LEMMA OtherType ==
    ASSUME TypeOK,
           \/ \E c \in Creators : CreateStat(c)
           \/ \E d \in Deleters : DeleteStep(d)
           \/ \E k \in Killers : KillSignal(k)
           \/ \E p \in Loaders : Load(p)
           \/ \E p \in Commands : Crash(p)
    PROVE  TypeOK'
<1> USE CommandsAreDisjoint DEF Commands, Loaders
<1>1. pc \in [Commands -> Phases]
  BY DEF TypeOK
<1>2. pc' \in [Commands -> Phases]
  BY SMT, <1>1, PhaseLiterals DEF Goto, CreateStat, KillSignal, Load, Crash, DeleteStep, DeleteStatus, KillContainer, PollKilled, RemoveAll, Signal
<1>3. killed' = killed \/ \E p \in Loaders : Alive(loaded[p]) /\ killed' = killed \cup {loaded[p]}
  BY DEF inits, CreateStat, KillSignal, Load, Crash, DeleteStep, DeleteStatus, KillContainer, PollKilled, RemoveAll, Signal
<1>4. killed' \subseteq Creators
  BY SMT, <1>3 DEF TypeOK, Alive
<1>5. /\ dir' \in {dir, None} /\ saved' \in {saved, None} /\ fifo' \in {fifo, None}
      /\ loaded' = loaded \/ \E p \in Loaders : loaded' = [loaded EXCEPT ![p] = saved]
  BY DEF files, loading, CreateStat, KillSignal, Load, Crash, DeleteStep, DeleteStatus, KillContainer, PollKilled, RemoveAll, Signal
<1>6. loaded' \in [Commands -> Creators \cup {None}]
  BY <1>5, LoadType, Zenon DEF TypeOK
<1>7. UNCHANGED <<cstate, seenReady, init, up, down, byte, fd, got>>
  BY DEF creating, inits, loading, CreateStat, KillSignal, Load, Crash, DeleteStep, DeleteStatus, KillContainer, PollKilled, RemoveAll, Signal
<1>8. /\ dir' \in Creators \cup {None} /\ saved' \in Creators \cup {None}
      /\ fifo' \in Creators \cup {None}
  BY SMT, <1>5 DEF TypeOK
<1> QED BY <1>2, <1>4, <1>6, <1>7, <1>8 DEF TypeOK

\* Every step of runu and of the init keeps the types of the shared files and
\* of the processes' memory.
THEOREM TypeCorrect == Spec => []TypeOK
<1>1. Init => TypeOK
  BY SMT, CommandsAreDisjoint, PhaseLiterals, InitPhaseLiterals DEF Init, TypeOK, Commands
<1>2. TypeOK /\ [Next]_vars => TypeOK'
  <2> SUFFICES ASSUME TypeOK, [Next]_vars PROVE TypeOK'
    OBVIOUS
  <2>1. CASE UNCHANGED vars
    BY <2>1 DEF vars, TypeOK
  <2> QED
    BY <2>1, CreateType, InitType, StartType, OtherType DEF Next, Loaders
<1>3. QED BY <1>1, <1>2, PTL DEF Spec

-----------------------------------------------------------------------------
(* The sync protocol between a create and its init keeps in lock step,     *)
(* without any assumption on when an ID is created again.  The invariant   *)
(* SyncOK says, for each point where one side sends, that the pipe is      *)
(* empty there, or that nobody listens.                                    *)

Empty(c) == up[c] = <<>> /\ down[c] = <<>>

\* Where a create is about to write, its init waits for that message with the pipe
\* empty, or has closed its end; where an init is about to write, the create has read
\* what came before; and a message is from where the init still is, or died.
SyncOK(c) ==
    /\ up[c] = <<>> \/ down[c] = <<>>
    /\ Len(up[c]) <= 1 /\ Len(down[c]) <= 1
    /\ init[c] = "none" => Empty(c)
    /\ pc[c] \in {"idle", "checked", "made", "fifo"} => init[c] = "none"
    /\ pc[c] = "config" => PipeClosed(c) \/ (init[c] = "config" /\ Empty(c))
    /\ pc[c] = "hooks" => PipeClosed(c) \/ (init[c] = "hooks" /\ Empty(c))
    /\ pc[c] \in {"save", "run"} => PipeClosed(c) \/ (init[c] = "ready" /\ Empty(c))
    /\ init[c] \in {"config", "check"} => up[c] = <<>>
    /\ up[c] # <<>> => \/ Head(up[c]) = "procHooks" /\ init[c] \in {"hooks", "dead"}
                       \/ Head(up[c]) = "procReady" /\ init[c] \in {"ready", "dead"}
                       \/ Head(up[c]) = "procError" /\ init[c] = "dead"

SyncInv == \A c \in Creators : SyncOK(c)

-----------------------------------------------------------------------------
(* What keeps the state of one create and its init.                        *)

\* Neither moves, or the create goes on to where it neither writes nor is early.
LEMMA SyncKept ==
    ASSUME NEW c \in Creators, SyncOK(c), init'[c] = init[c], up'[c] = up[c], down'[c] = down[c],
           \/ pc'[c] = pc[c]
           \/ pc'[c] \notin {"idle", "checked", "made", "fifo", "config", "hooks", "save", "run"}
    PROVE  SyncOK(c)'
  BY DEF SyncOK, Empty, PipeClosed

\* The init dies.
LEMMA SyncDies ==
    ASSUME NEW c \in Creators, SyncOK(c), init'[c] = "dead", up'[c] = up[c], down'[c] = down[c],
           pc'[c] \notin {"idle", "checked", "made", "fifo"}
    PROVE  SyncOK(c)'
  BY DEF SyncOK, Empty, PipeClosed

\* The init goes on with its end of the pipe closed, and nothing in it.
LEMMA SyncClosed ==
    ASSUME NEW c \in Creators, SyncOK(c), init[c] # "none", up[c] = <<>>, up'[c] = up[c],
           down'[c] = down[c], pc'[c] = pc[c],
           init'[c] \in {"closed", "fifo", "opened", "wrote", "running", "dead"}
    PROVE  SyncOK(c)'
  BY DEF SyncOK, Empty, PipeClosed

\* An empty pipe holds nothing.
LEMMA EmptyLen == Len(<<>>) = 0
  OBVIOUS

\* A message is put into an empty pipe, or taken from one that holds it alone.
LEMMA Put ==
    ASSUME NEW m \in Messages
    PROVE  /\ Append(<<>>, m) # <<>> /\ Len(Append(<<>>, m)) = 1 /\ Head(Append(<<>>, m)) = m
           /\ Append(<<>>, m) \in Seq(Messages)
  BY SMT

LEMMA Take ==
    ASSUME NEW q \in Seq(Messages), q # <<>>, Len(q) <= 1
    PROVE  Tail(q) = <<>>
  BY SMT

-----------------------------------------------------------------------------
(* The steps of the create.                                                *)

LEMMA CreateSync ==
    ASSUME TypeOK, SyncInv, NEW c \in Creators, CreateStep(c)
    PROVE  SyncInv'
<1>1. /\ pc \in [Commands -> Phases] /\ init \in [Creators -> InitPhases] /\ c \in Commands
      /\ up \in [Creators -> Seq(Messages)] /\ down \in [Creators -> Seq(Messages)]
      /\ Creators \subseteq Commands
  BY CommandSets DEF TypeOK
<1>2. SyncOK(c)
  BY DEF SyncInv
<1>3. SUFFICES SyncOK(c)' /\ \A e \in Creators \ {c} : /\ pc'[e] = pc[e] /\ init'[e] = init[e]
                                                       /\ up'[e] = up[e] /\ down'[e] = down[e]
  BY SyncKept DEF SyncInv
<1>4. CASE CreateMkdir(c) \/ CreateExecFifo(c)
  <2>1. UNCHANGED <<init, up, down>> /\ \A e \in Creators \ {c} : pc'[e] = pc[e]
    BY <1>1, <1>4 DEF CreateMkdir, CreateExecFifo, Goto, inits
  <2>2. pc[c] \in {"checked", "made"} /\ pc'[c] \in {"made", "fifo", "destroy", "failed"}
    BY <1>1, <1>4 DEF CreateMkdir, CreateExecFifo, Goto
  <2> QED BY <1>2, <2>1, <2>2 DEF SyncOK, Empty, PipeClosed
<1>5. CASE Spawn(c)
  <2>1. UNCHANGED <<up, down>> /\ \A e \in Creators \ {c} : pc'[e] = pc[e] /\ init'[e] = init[e]
    BY <1>1, <1>5 DEF Spawn, Goto
  <2>2. init[c] = "none" /\ Empty(c)
    BY <1>2, <1>5 DEF Spawn, SyncOK
  <2>3. \/ pc'[c] = "config" /\ init'[c] = "config"
        \/ pc'[c] = "unfifo" /\ init'[c] = init[c]
    BY <1>1, <1>5 DEF Spawn, Goto
  <2> QED BY <1>2, <2>1, <2>2, <2>3 DEF SyncOK, Empty, PipeClosed
<1>6. CASE SendConfig(c) \/ RunHooks(c) \/ WriteProcRun(c)
  <2>1. /\ UNCHANGED <<init, up>> /\ \A e \in Creators \ {c} : pc'[e] = pc[e] /\ down'[e] = down[e]
        /\ pc[c] \in {"config", "hooks", "run"} /\ pc'[c] \in {"sync", "term"}
    BY <1>1, <1>6 DEF SendConfig, RunHooks, WriteProcRun, Send, Goto
  <2>2. CASE down' = down
    BY <1>2, <2>1, <2>2, SyncKept
  <2>3. CASE down' # down
    <3>1. PICK m \in Messages : ~PipeClosed(c) /\ down'[c] = Append(down[c], m)
      BY <1>1, <1>6, <2>3, MessageLiterals DEF SendConfig, RunHooks, WriteProcRun, Send
    <3>2. Empty(c) /\ init[c] \in {"config", "hooks", "ready"}
      BY <1>2, <2>1, <3>1 DEF SyncOK
    <3>3. up'[c] = <<>> /\ down'[c] # <<>> /\ Len(down'[c]) = 1
      BY <2>1, <3>1, <3>2, Put DEF Empty
    <3> QED BY SMT, <2>1, <3>2, <3>3 DEF SyncOK, Empty, PipeClosed
  <2> QED BY <2>2, <2>3
<1>7. CASE Sync(c)
  <2>1. /\ UNCHANGED <<init, down>> /\ \A e \in Creators \ {c} : pc'[e] = pc[e] /\ up'[e] = up[e]
        /\ up[c] # <<>> /\ up'[c] = Tail(up[c])
    BY <1>1, <1>7 DEF Sync, Goto
  <2>2. up'[c] = <<>> /\ down'[c] = <<>>
    BY <1>1, <1>2, <2>1, Take DEF SyncOK
  <2>3. \/ Head(up[c]) = "procHooks" /\ pc'[c] = "hooks"
        \/ Head(up[c]) = "procReady" /\ pc'[c] = "save"
        \/ Head(up[c]) = "procError" /\ pc'[c] = "term"
    BY <1>1, <1>7 DEF Sync, Goto
  <2> QED BY <1>2, <2>1, <2>2, <2>3 DEF SyncOK, Empty, PipeClosed
<1>8. CASE UpdateState(c)
  <2>1. UNCHANGED <<init, up, down>> /\ \A e \in Creators \ {c} : pc'[e] = pc[e]
    BY <1>1, <1>8 DEF UpdateState, Goto, inits
  <2>2. pc[c] = "save" /\ pc'[c] \in {"run", "term"}
    BY <1>1, <1>8 DEF UpdateState, Goto
  <2> QED BY <1>2, <2>1, <2>2 DEF SyncOK, Empty, PipeClosed
<1>9. CASE SyncEOF(c) \/ Poststart(c) \/ DeleteExecFifo(c) \/ Destroy(c) \/ RemoveAll(c)
  <2>1. UNCHANGED <<init, up, down>> /\ \A e \in Creators \ {c} : pc'[e] = pc[e]
    BY <1>1, <1>9 DEF SyncEOF, Poststart, DeleteExecFifo, Destroy, RemoveAll, Goto, inits
  <2>2. \/ pc'[c] = pc[c]
        \/ pc'[c] \in {"post", "pidfile", "term", "destroy", "removing", "failed", "done"}
    BY <1>1, <1>9 DEF SyncEOF, Poststart, DeleteExecFifo, Destroy, RemoveAll, Goto
  <2> QED BY <1>2, <2>1, <2>2, SyncKept
<1>10. CASE CreatePidFile(c) \/ Terminate(c)
  <2>1. UNCHANGED <<up, down>> /\ \A e \in Creators \ {c} : pc'[e] = pc[e] /\ init'[e] = init[e]
    BY <1>1, <1>10 DEF CreatePidFile, Terminate, Goto
  <2>2. init'[c] \in {init[c], "dead"} /\ pc'[c] \in {"done", "destroy", "unfifo"}
    BY <1>1, <1>10 DEF CreatePidFile, Terminate, Goto
  <2> QED BY <1>2, <2>1, <2>2, SyncKept, SyncDies
<1> QED BY <1>4, <1>5, <1>6, <1>7, <1>8, <1>9, <1>10 DEF CreateStep

-----------------------------------------------------------------------------
(* The steps of the init, and of everyone else.                            *)

LEMMA InitSync ==
    ASSUME TypeOK, SyncInv, NEW i \in Creators, InitStep(i) \/ InitExit(i)
    PROVE  SyncInv'
<1>1. /\ pc \in [Commands -> Phases] /\ init \in [Creators -> InitPhases]
      /\ up \in [Creators -> Seq(Messages)] /\ down \in [Creators -> Seq(Messages)]
      /\ Creators \subseteq Commands /\ Creators \cap Starters = {}
  BY CommandSets, CommandsAreDisjoint DEF TypeOK
<1>2. SyncOK(i) /\ init[i] # "none"
  BY <1>1, InitFrame DEF SyncInv
<1>3. pc[i] \notin {"idle", "checked", "made", "fifo"}
  BY <1>2 DEF SyncOK
<1>4. \A e \in Creators : pc'[e] = pc[e]
  BY <1>1, InitFrame
<1>5. SUFFICES SyncOK(i)' /\ \A e \in Creators \ {i} : /\ init'[e] = init[e] /\ up'[e] = up[e]
                                                       /\ down'[e] = down[e]
  BY <1>4, SyncKept DEF SyncInv
<1>6. CASE InitConfig(i) \/ InitReady(i)
  <2>1. /\ \A e \in Creators \ {i} : /\ init'[e] = init[e] /\ up'[e] = up[e]
                                     /\ down'[e] = down[e]
        /\ down[i] # <<>> /\ down'[i] = Tail(down[i])
    BY <1>1, <1>6 DEF InitConfig, InitReady, InitGoto, Receive, Reply
  <2>2. up[i] = <<>> /\ down'[i] = <<>>
    BY <1>1, <1>2, <2>1, Take DEF SyncOK
  <2>3. PICK m \in Messages : /\ up'[i] = Append(up[i], m)
                              /\ \/ m = "procHooks" /\ init[i] = "config" /\ init'[i] = "hooks"
                                 \/ m = "procReady" /\ init[i] = "hooks" /\ init'[i] = "ready"
    BY <1>1, <1>6, MessageLiterals DEF InitConfig, InitReady, InitGoto, Reply
  <2>4. up'[i] # <<>> /\ Len(up'[i]) = 1 /\ Head(up'[i]) = m
    BY <2>2, <2>3, Put
  <2>5. pc[i] \notin {"config", "hooks", "save", "run"}
    BY <1>2, <2>1, <2>3 DEF SyncOK, Empty, PipeClosed
  <2>6. Len(down'[i]) = 0
    BY <2>2, EmptyLen
  <2>7. SyncOK(i)'
    BY SMT, <1>3, <1>4, <2>2, <2>3, <2>4, <2>5, <2>6 DEF SyncOK, Empty, PipeClosed
  <2> QED BY <2>1, <2>7
<1>7. CASE InitRun(i)
  <2>1. /\ \A e \in Creators \ {i} : init'[e] = init[e] /\ down'[e] = down[e]
        /\ up' = up /\ down[i] # <<>> /\ down'[i] = Tail(down[i])
        /\ init[i] = "ready" /\ init'[i] = "check"
    BY <1>1, <1>7 DEF InitRun, InitGoto, Receive
  <2>2. up'[i] = <<>> /\ down'[i] = <<>>
    BY <1>1, <1>2, <2>1, Take DEF SyncOK
  <2>3. pc[i] \notin {"config", "hooks", "save", "run"}
    BY <1>2, <2>1 DEF SyncOK, Empty, PipeClosed
  <2>4. Len(up'[i]) = 0 /\ Len(down'[i]) = 0
    BY <2>2, EmptyLen
  <2>5. SyncOK(i)'
    <3>1. init'[i] = "check"
      BY <2>1
    <3>2. pc'[i] \notin {"idle", "checked", "made", "fifo", "config", "hooks", "save", "run"}
      BY <1>3, <1>4, <2>3
    <3> QED BY SMT, <2>2, <2>4, <3>1, <3>2 DEF SyncOK, Empty
  <2> QED BY <2>1, <2>5
<1>8. CASE InitError(i)
  <2>1. /\ \A e \in Creators \ {i} : /\ init'[e] = init[e] /\ up'[e] = up[e]
                                     /\ down'[e] = down[e]
        /\ up'[i] = Append(up[i], "procError") /\ down'[i] = <<>> /\ init'[i] = "dead"
    BY <1>1, <1>8 DEF InitError, InitGoto, Reply
  <2>2. up[i] = <<>>
    BY <1>2, <1>8 DEF InitError, SyncOK
  <2>3. up'[i] # <<>> /\ Len(up'[i]) = 1 /\ Head(up'[i]) = "procError"
    BY <2>1, <2>2, Put, MessageLiterals
  <2> QED BY SMT, <1>3, <1>4, <2>1, <2>3 DEF SyncOK, Empty, PipeClosed
<1>9. CASE CheckParent(i) \/ OpenFifoForWriting(i) \/ WriteFifo(i) \/ ExecUser(i) \/ InitExit(i)
  <2>1. /\ UNCHANGED <<up, down>> /\ \A e \in Creators \ {i} : init'[e] = init[e]
        /\ init[i] \in {"check", "closed", "opened", "wrote", "running"}
        /\ init'[i] \in {"closed", "fifo", "opened", "wrote", "running", "dead"}
    BY <1>1, <1>9
    DEF CheckParent, OpenFifoForWriting, WriteFifo, ExecUser, InitExit, InitGoto
  <2>2. up[i] = <<>>
    BY <1>2, <2>1 DEF SyncOK
  <2> QED BY <1>2, <1>4, <2>1, <2>2, SyncClosed
<1>10. CASE InitOrphaned(i) \/ InitKilled(i)
  <2>1. /\ UNCHANGED <<up, down>> /\ \A e \in Creators \ {i} : init'[e] = init[e]
        /\ init'[i] = "dead"
    BY <1>1, <1>10 DEF InitOrphaned, InitKilled, InitGoto
  <2> QED BY <1>2, <1>3, <1>4, <2>1, SyncDies
<1> QED BY <1>6, <1>7, <1>8, <1>9, <1>10 DEF InitStep

LEMMA OthersSync ==
    ASSUME TypeOK, SyncInv,
           \/ \E c \in Creators : CreateStat(c)
           \/ \E s \in Starters : Load(s) \/ StartStep(s)
           \/ \E d \in Deleters : Load(d) \/ DeleteStep(d)
           \/ \E k \in Killers : Load(k) \/ KillSignal(k)
           \/ \E p \in Commands : Crash(p)
    PROVE  SyncInv'
<1>1. /\ pc \in [Commands -> Phases] /\ init \in [Creators -> InitPhases]
      /\ fd \in [Creators \cup Starters -> Creators \cup {None}]
      /\ Creators \subseteq Commands
      /\ Creators \cap Starters = {} /\ Creators \cap Deleters = {} /\ Creators \cap Killers = {}
  BY CommandSets, CommandsAreDisjoint DEF TypeOK
<1>2. UNCHANGED <<up, down>>
  BY DEF CreateStat, Load, StartStep, StartStatus, AwaitFifoOpen, FifoOpened, PollInit, ReadFifo,
      ReadFifoEOF, RemoveFifo, DeleteStep, DeleteStatus, KillContainer, PollKilled, RemoveAll,
      KillSignal, Crash, inits
<1>3. CASE \E c \in Creators : CreateStat(c)
  <2>1. PICK c \in Creators : CreateStat(c)
    BY <1>3
  <2>2. /\ init' = init /\ \A e \in Creators \ {c} : pc'[e] = pc[e]
        /\ pc[c] = "idle" /\ pc'[c] \in {"checked", "failed"}
    BY <1>1, <2>1 DEF CreateStat, Goto, inits
  <2>3. SyncOK(c)'
    BY <1>2, <2>2 DEF SyncInv, SyncOK, Empty, PipeClosed
  <2> QED BY <1>2, <2>2, <2>3, SyncKept DEF SyncInv
<1>4. CASE \E s \in Starters : StartStep(s)
  <2>1. PICK s \in Starters : StartStep(s)
    BY <1>4
  <2>2. /\ \A e \in Creators : pc'[e] = pc[e]
        /\ \A e \in Creators : init'[e] = init[e] \/ (init[e] = "fifo" /\ init'[e] = "opened")
    BY SMT, <1>1, <2>1, StartFrame
  <2>3. \A e \in Creators : init[e] = "fifo" => up[e] = <<>>
    BY DEF SyncInv, SyncOK
  <2> QED BY <1>2, <2>2, <2>3, SyncKept, SyncClosed DEF SyncInv
<1>5. CASE \/ \E p \in Starters \cup Deleters \cup Killers : Load(p)
           \/ \E d \in Deleters : DeleteStep(d)
           \/ \E k \in Killers : KillSignal(k)
           \/ \E p \in Commands : Crash(p)
  <2>1. init' = init
    BY <1>5 DEF Load, DeleteStep, DeleteStatus, KillContainer, PollKilled, RemoveAll,
        KillSignal, Crash, inits
  <2>2. \A e \in Creators : pc'[e] \in {pc[e], "crashed"}
    BY SMT, <1>1, <1>5 DEF Load, DeleteStep, DeleteStatus, KillContainer, PollKilled, RemoveAll,
        KillSignal, Crash, Goto
  <2> QED BY <1>2, <2>1, <2>2, SyncKept DEF SyncInv
<1> QED BY <1>3, <1>4, <1>5

\* sync.go, parseSync and syncParent: whatever fails or is killed, at most one message is
\* in flight between a create and its init.
THEOREM SyncInLockStep == Spec => []LockStep
<1>1. Init => SyncInv
  <2> SUFFICES ASSUME Init, NEW c \in Creators PROVE SyncOK(c)
    BY DEF SyncInv
  <2>1. pc[c] = "idle" /\ init[c] = "none" /\ up[c] = <<>> /\ down[c] = <<>>
    BY CommandSets DEF Init
  <2>2. Len(up[c]) = 0 /\ Len(down[c]) = 0
    BY <2>1, EmptyLen
  <2> QED BY SMT, <2>1, <2>2 DEF SyncOK, Empty
<1>2. TypeOK /\ SyncInv /\ [Next]_vars => SyncInv'
  <2> SUFFICES ASSUME TypeOK, SyncInv, [Next]_vars PROVE SyncInv'
    OBVIOUS
  <2>1. CASE UNCHANGED vars
    BY SMT, <2>1 DEF vars, SyncInv, SyncOK, Empty, PipeClosed
  <2>2. CASE \E c \in Creators : CreateStep(c) \/ InitStep(c) \/ InitExit(c)
    BY <2>2, CreateSync, InitSync
  <2>3. CASE \/ \E c \in Creators : CreateStat(c)
             \/ \E s \in Starters : Load(s) \/ StartStep(s)
             \/ \E d \in Deleters : Load(d) \/ DeleteStep(d)
             \/ \E k \in Killers : Load(k) \/ KillSignal(k)
             \/ \E p \in Commands : Crash(p)
    BY <2>3, OthersSync
  <2> QED BY <2>1, <2>2, <2>3 DEF Next
<1>3. TypeOK /\ SyncInv => LockStep
  BY SMT DEF TypeOK, SyncInv, SyncOK, LockStep
<1>4. QED BY <1>1, <1>2, <1>3, TypeCorrect, PTL DEF Spec

-----------------------------------------------------------------------------
(* The inductive invariant, actor by actor.                                *)

\* A create begins: with SerialReuse nothing else runs, and the directory is
\* empty if it goes on.
LEMMA BeginInv ==
    ASSUME SerialReuse, TypeOK, IndInv, NEW c \in Creators, CreateStat(c) PROVE IndInv'
<1>1. UNCHANGED <<dir, saved, fifo, init, down, byte, fd, loaded, got>>
  BY DEF CreateStat, files, inits, loading
<1>2. pc[c] = "idle" /\ \A q \in Commands \ {c} : Quiet(q) /\ pc'[q] = pc[q]
  BY DEF CreateStat, Goto, TypeOK
<1>3. pc'[c] = "failed" \/ (pc'[c] = "checked" /\ dir = None)
  BY CommandSets DEF CreateStat, Goto, TypeOK
<1>4. /\ Creators \subseteq Commands /\ Loaders \subseteq Commands \ {c}
      /\ Starters \subseteq Loaders /\ Deleters \subseteq Loaders
  BY CommandsAreDisjoint DEF Commands, Loaders
<1>5. \A q \in Commands \ {c} : Quiet(q)'
  BY <1>2 DEF Quiet
<1>6. pc'[c] = "failed" => Quiet(c)'
  BY DEF Quiet, Terminal
<1>7. OneCreate' /\ EntriesNeedDir'
  BY <1>1, <1>4, <1>5 DEF IndInv, OneCreate, EntriesNeedDir
<1>8. CreateOwns' /\ LoadedIsSaved'
  BY <1>1, <1>3, <1>4, <1>5, <1>6 DEF IndInv, CreateOwns, LoadedIsSaved, EntriesNeedDir
<1>9. InitFollowsCreate'
  BY SMT, <1>1, <1>2, <1>3, <1>4 DEF IndInv, InitFollowsCreate, Alive
<1>10. UnforkedIsSilent' /\ OwnFifo' /\ ByteWrittenOnce'
  BY <1>1 DEF IndInv, UnforkedIsSilent, OwnFifo, ByteWrittenOnce
<1>11. \A p \in Loaders : pc'[p] = pc[p]
  BY <1>2, <1>4
<1>12. DeletesDead' /\ StartedGotByte' /\ StartReturnsAfterExec'
  BY <1>1, <1>4, <1>11
  DEF IndInv, DeletesDead, StartedGotByte, StartReturnsAfterExec, Alive
<1>13. RecordedBeforeRun'
  BY <1>1, <1>2, <1>3, <1>4 DEF IndInv, RecordedBeforeRun, Released, Alive
<1>14. got \subseteq Loaders
  BY <1>4 DEF TypeOK
<1>15. ByteReadOnce'
  BY <1>1, <1>11, <1>14 DEF IndInv, ByteReadOnce
<1> QED BY <1>7, <1>8, <1>9, <1>10, <1>12, <1>13, <1>15 DEF IndInv

\* A step of a create preserves the invariant: only a create that holds the
\* directory writes or removes its entries, and it removes them only after its
\* init is dead.
LEMMA CreateInv ==
    ASSUME TypeOK, IndInv, NEW c \in Creators, CreateStep(c) PROVE IndInv'
<1>1. pc \in [Commands -> Phases] /\ init \in [Creators -> InitPhases]
  BY DEF TypeOK
<1>2. fd \in [Creators \cup Starters -> Creators \cup {None}]
  BY DEF TypeOK
<1>3. down \in [Creators -> Seq(Messages)]
  BY DEF TypeOK
<1>4. None \notin Creators /\ Creators \subseteq Commands /\ Loaders \subseteq Commands \ Creators
      /\ Starters \subseteq Loaders
  BY CommandsAreDisjoint DEF Commands, Loaders
<1>5. UNCHANGED <<loaded, got, byte>> /\ ~Quiet(c) /\ \A q \in Commands \ {c} : pc'[q] = pc[q]
  BY <1>1, CreateFrame, Zenon
<1>6. \A e \in Creators \ {c} : Quiet(e) /\ Quiet(e)'
  BY <1>4, <1>5 DEF Quiet, IndInv, OneCreate
<1>7. \A p \in Loaders : Quiet(p)' = Quiet(p)
  BY <1>4, <1>5 DEF Quiet
<1>8. /\ \/ saved' = saved
         \/ pc[c] = "save" /\ saved' = c /\ dir # None /\ dir' = dir
         \/ pc[c] = "removing" /\ saved' = None
      /\ fifo' \in {fifo, None} \/ (pc[c] = "made" /\ fifo' = c /\ dir # None /\ dir' = dir)
      /\ dir' = None => dir = None \/ (saved' = None /\ fifo' = None)
  BY <1>1, CreateFrame
<1>9. \/ pc[c] = "fifo" /\ fifo # None /\ fd' = [fd EXCEPT ![c] = fifo]
                        /\ init' = [init EXCEPT ![c] = "config"]
                        /\ pc'[c] = "config" /\ down' = down
      \/ fd' = fd /\ init' = init
      \/ /\ pc[c] \in {"term", "pidfile"} /\ fd' = fd
         /\ init' = [init EXCEPT ![c] = "dead"]
  BY <1>1, CreateFrame, Zenon
<1>10. OneCreate'
  BY <1>6 DEF OneCreate
<1>11. EntriesNeedDir'
  BY <1>8, <1>4 DEF IndInv, EntriesNeedDir
<1>12. saved \in {None, c} /\ fifo \in {None, c} /\ \A p \in Loaders : ~Quiet(p) => loaded[p] = c
  BY <1>5 DEF IndInv, CreateOwns
<1>13. CreateOwns'
  BY <1>5, <1>6, <1>7, <1>8, <1>12 DEF CreateOwns
<1>14. LoadedIsSaved'
  BY <1>4, <1>5, <1>7, <1>8, <1>12 DEF LoadedIsSaved
<1>15. \A e \in Creators \ {c} : init'[e] = init[e] /\ fd'[e] = fd[e]
  BY <1>1, <1>2, <1>9
<1>16. \/ pc[c] = "fifo" /\ fd'[c] = c /\ init'[c] = "config" /\ down' = down
                         /\ init[c] = "none"
       \/ fd'[c] = fd[c] /\ init'[c] = init[c]
       \/ fd'[c] = fd[c] /\ init'[c] = "dead" /\ init[c] # "none"
  BY <1>1, <1>2, <1>9, <1>12 DEF IndInv, InitFollowsCreate
<1>17. InitFollowsCreate'
  <2> SUFFICES ASSUME NEW e \in Creators
        PROVE /\ pc'[e] \in {"idle", "checked", "made", "fifo"} => init'[e] = "none"
              /\ pc'[e] \in {"config", "sync", "hooks", "save", "run", "post",
                             "pidfile", "term"} => init'[e] # "none"
              /\ pc'[e] \in {"unfifo", "destroy", "removing", "failed"} => ~Alive(e)'
              /\ init'[e] = "none" => saved' # e /\ \A p \in Loaders : loaded[p] # e
    BY <1>5 DEF InitFollowsCreate
  <2>1. CASE e # c
    BY SMT, <2>1, <1>4, <1>5, <1>8, <1>15 DEF Alive, IndInv, InitFollowsCreate
  <2>2. CASE e = c
    <3>1. pc'[c] \in {"idle", "checked", "made", "fifo"} => init'[c] = "none"
      <4>1. pc'[c] \in {"idle", "checked", "made", "fifo"}
              => pc[c] \in {"checked", "made"} /\ init' = init
        BY <1>1, CreateFrame, Zenon
      <4> QED BY <4>1 DEF IndInv, InitFollowsCreate
    <3>2. pc'[c] \in {"config", "sync", "hooks", "save", "run", "post", "pidfile", "term"}
            => init'[c] # "none"
      <4>1. pc'[c] \in {"config", "sync", "hooks", "save", "run", "post", "pidfile", "term"}
              => \/ init' = [init EXCEPT ![c] = "config"]
                 \/ /\ init' = init
                    /\ pc[c] \in {"config", "sync", "hooks", "save", "run", "post"}
        BY <1>1, CreateFrame, Zenon
      <4> QED BY <4>1, <1>1 DEF IndInv, InitFollowsCreate
    <3>3. pc'[c] \in {"unfifo", "destroy", "removing", "failed"} => ~Alive(c)'
      <4>1. pc'[c] \in {"unfifo", "destroy", "removing", "failed"}
           => \/ init' = [init EXCEPT ![c] = "dead"]
              \/ /\ init' = init
                 /\ pc[c] \in {"checked", "made", "fifo", "unfifo", "destroy", "removing"}
        BY <1>1, CreateFrame, Zenon
      <4> QED BY <4>1, <1>1 DEF Alive, IndInv, InitFollowsCreate
    <3>4. init'[c] = "none" => saved' # c /\ \A p \in Loaders : loaded[p] # c
      BY <1>4, <1>8, <1>16 DEF IndInv, InitFollowsCreate
    <3> QED BY <2>2, <3>1, <3>2, <3>3, <3>4
  <2> QED BY <2>1, <2>2
<1>18. \/ down' = down
       \/ /\ pc[c] \in {"config", "hooks", "run"}
          /\ \E m \in Messages : /\ down' = [down EXCEPT ![c] = Append(@, m)]
                                 /\ m = "procRun" => pc[c] = "run"
  BY <1>1, CreateFrame, Zenon
<1>19. \A e \in Creators \ {c} : down'[e] = down[e]
  BY <1>3, <1>18
<1>20. HasRun(down'[c]) => HasRun(down[c]) \/ pc[c] = "run"
  <2>1. CASE down' = down
    BY <2>1
  <2>2. ASSUME NEW m \in Messages, down' = [down EXCEPT ![c] = Append(@, m)],
               m = "procRun" => pc[c] = "run"
        PROVE  HasRun(down'[c]) => HasRun(down[c]) \/ pc[c] = "run"
    <3>1. down'[c] = Append(down[c], m) /\ down[c] \in Seq(Messages)
      BY <2>2, <1>3
    <3> QED BY <2>2, <3>1, HasRunAppend, Zenon
  <2> QED BY <2>1, <2>2, <1>18
<1>21. UnforkedIsSilent'
  BY SMT, <1>15, <1>16, <1>18, <1>19 DEF IndInv, UnforkedIsSilent, InitFollowsCreate
<1>22. DeletesDead'
  <2>1. \A d \in Deleters : loaded[d] # c \/ init[c] # "none"
    BY DEF IndInv, InitFollowsCreate, Loaders
  <2>2. \A d \in Deleters : pc'[d] = pc[d] /\ loaded[d] \in Creators \cup {None}
    BY SMT, <1>4, <1>5, CommandSets DEF TypeOK, Loaders
  <2>3. \A i \in Creators : Alive(i)' => Alive(i) \/ (i = c /\ init[c] = "none")
    BY <1>15, <1>16 DEF Alive
  <2> QED BY <2>1, <2>2, <2>3, <1>5 DEF IndInv, DeletesDead, Alive
<1>23. RecordedBeforeRun'
  <2> SUFFICES ASSUME NEW e \in Creators, Alive(e)',
                      Released(e)' \/ pc'[e] = "run" \/ HasRun(down'[e])
               PROVE saved' = e
    BY DEF RecordedBeforeRun
  <2>1. CASE e # c
    <3>1. Alive(e) /\ (Released(e) \/ pc[e] = "run" \/ HasRun(down[e]))
      BY <2>1, <1>4, <1>5, <1>15, <1>19 DEF Alive, Released
    <3>2. saved = e
      BY <3>1 DEF IndInv, RecordedBeforeRun
    <3> QED BY <3>2, <1>12, <2>1, <1>4
  <2>2. CASE e = c
    <3>1. pc'[c] = "run" => saved' = c
      BY <1>1, CreateFrame, Zenon
    <3>2. (Alive(c) /\ (Released(c) \/ pc[c] = "run" \/ HasRun(down[c]))) => saved = c
      BY DEF IndInv, RecordedBeforeRun
    <3>3. Alive(c)' => init'[c] = "config" \/ Alive(c)
      BY <1>16 DEF Alive
    <3>4. pc[c] = "removing" => ~Alive(c)'
      BY <1>16 DEF Alive, IndInv, InitFollowsCreate
    <3>5. Released(c)' => Released(c)
      BY <1>16 DEF Released
    <3>6. CASE Alive(c)
      BY <3>1, <3>2, <3>4, <3>5, <3>6, <1>8, <1>20, <2>2
    <3>7. CASE ~Alive(c)
      <4>1. down'[c] = <<>> /\ init'[c] = "config"
        BY <3>3, <3>7, <2>2, <1>16 DEF Alive, IndInv, UnforkedIsSilent
      <4> QED BY <4>1, <3>1, <2>2, HasRunEmpty DEF Released
    <3> QED BY <3>6, <3>7
  <2> QED BY <2>1, <2>2
<1>24. OwnFifo'
  BY <1>15, <1>16 DEF IndInv, OwnFifo
<1>25. \A s \in Starters : fd'[s] = fd[s] /\ pc'[s] = pc[s]
  BY <1>2, <1>4, <1>5, <1>9
<1>26. got \subseteq Starters
  BY DEF TypeOK
<1>27. ByteReadOnce'
  BY SMT, <1>5, <1>25, <1>26 DEF IndInv, ByteReadOnce
<1>28. ByteWrittenOnce'
  BY SMT, <1>5, <1>15, <1>16, <1>25, <1>26 DEF IndInv, ByteWrittenOnce
<1>29. StartedGotByte'
  BY <1>5, <1>25 DEF IndInv, StartedGotByte
<1>30. StartReturnsAfterExec'
  <2> SUFFICES ASSUME NEW s \in Starters, pc[s] \in {"remove", "done"},
                      NEW e \in Creators, fd'[e] = fd[s]
               PROVE init'[e] \in {"running", "dead"}
    BY <1>25 DEF StartReturnsAfterExec
  <2>1. s \in got
    BY DEF IndInv, StartedGotByte
  <2>2. fd[s] = e => init[e] \in {"wrote", "running", "dead"}
    BY <2>1 DEF IndInv, ByteWrittenOnce
  <2>3. fd[e] = fd[s] => init[e] \in {"running", "dead"}
    BY DEF IndInv, StartReturnsAfterExec
  <2> QED BY <2>2, <2>3, <1>15, <1>16
<1> QED
  BY <1>10, <1>11, <1>13, <1>14, <1>17, <1>21, <1>22, <1>23, <1>24, <1>27, <1>28,
     <1>29, <1>30 DEF IndInv

\* A step of an init preserves the invariant.
LEMMA InitInv ==
    ASSUME TypeOK, IndInv, NEW i \in Creators, InitStep(i) \/ InitExit(i) PROVE IndInv'
<1>1. /\ pc \in [Commands -> Phases] /\ init \in [Creators -> InitPhases]
      /\ down \in [Creators -> Seq(Messages)]
  BY DEF TypeOK
<1>2. UNCHANGED <<dir, saved, fifo, loaded, got, fd>>
  BY <1>1, InitFrame, Zenon
<1>3. \A p \in Commands : \/ pc'[p] = pc[p]
                          \/ p \in Starters /\ pc[p] = "blocked" /\ pc'[p] = "open"
  BY <1>1, InitFrame, Zenon
<1>4. /\ Creators \subseteq Commands /\ Loaders \subseteq Commands /\ Starters \subseteq Loaders
      /\ Deleters \subseteq Loaders /\ Starters \cap Creators = {} /\ Starters \cap Deleters = {}
  BY CommandsAreDisjoint DEF Commands, Loaders
<1>5. (\A c \in Creators : pc'[c] = pc[c]) /\ \A d \in Deleters : pc'[d] = pc[d]
  BY <1>3, <1>4
<1>6. \A p \in Commands : Quiet(p)' = Quiet(p)
  BY SMT, <1>3 DEF Quiet, Terminal
<1>7. /\ init[i] # "none" /\ init[i] # "dead" /\ init'[i] # "none"
      /\ \A e \in Creators \ {i} : init'[e] = init[e] /\ down'[e] = down[e]
      /\ init[i] \in {"wrote", "running"} => init'[i] \in {"running", "dead"}
  BY <1>1, InitFrame, Zenon
<1>8. \/ byte' = byte
      \/ byte' = byte \cup {fd[i]} /\ init[i] = "opened" /\ init'[i] = "wrote"
  BY <1>1, InitFrame, Zenon
<1>9. /\ Released(i)' => Released(i) \/ HasRun(down[i])
      /\ HasRun(down'[i]) => HasRun(down[i])
  BY <1>1, InitFrame, Zenon
<1>10. \A e \in Creators \cup {None} : Alive(e)' => Alive(e)
  BY <1>7 DEF Alive
<1>11. OneCreate' /\ EntriesNeedDir'
  BY <1>2, <1>4, <1>6 DEF IndInv, OneCreate, EntriesNeedDir
<1>12. CreateOwns'
  BY <1>2, <1>4, <1>6 DEF IndInv, CreateOwns
<1>13. LoadedIsSaved'
  BY <1>2, <1>4, <1>6 DEF IndInv, LoadedIsSaved
<1>14. InitFollowsCreate'
  <2> SUFFICES ASSUME NEW e \in Creators
        PROVE /\ pc[e] \in {"idle", "checked", "made", "fifo"} => init'[e] = "none"
              /\ pc[e] \in {"config", "sync", "hooks", "save", "run", "post",
                             "pidfile", "term"} => init'[e] # "none"
              /\ pc[e] \in {"unfifo", "destroy", "removing", "failed"} => ~Alive(e)'
              /\ init'[e] = "none" => saved # e /\ \A p \in Loaders : loaded[p] # e
    BY <1>2, <1>5 DEF InitFollowsCreate
  <2> QED BY <1>7, <1>10 DEF IndInv, InitFollowsCreate
<1>15. UnforkedIsSilent'
  BY <1>7 DEF IndInv, UnforkedIsSilent
<1>16. DeletesDead'
  <2>1. \A d \in Deleters : loaded[d] \in Creators \cup {None}
    BY <1>4 DEF TypeOK
  <2> QED BY <2>1, <1>2, <1>5, <1>10 DEF IndInv, DeletesDead
<1>17. RecordedBeforeRun'
  <2> SUFFICES ASSUME NEW e \in Creators, Alive(e)',
                      Released(e)' \/ pc[e] = "run" \/ HasRun(down'[e])
               PROVE saved = e
    BY <1>2, <1>5 DEF RecordedBeforeRun
  <2>1. Alive(e) /\ (Released(e) \/ pc[e] = "run" \/ HasRun(down[e]))
    BY <1>7, <1>9, <1>10 DEF Released
  <2> QED BY <2>1 DEF IndInv, RecordedBeforeRun
<1>18. OwnFifo'
  BY <1>2, <1>7 DEF IndInv, OwnFifo
<1>19. fd[i] = i
  BY <1>7 DEF IndInv, OwnFifo
<1>20. \A s \in got : s \in Starters /\ (fd[s] = i => init[i] \in {"wrote", "running", "dead"})
  BY DEF TypeOK, IndInv, ByteWrittenOnce
<1>21. \A s \in got : pc'[s] = pc[s]
  BY <1>3, <1>4, <1>20 DEF IndInv, ByteReadOnce, Terminal
<1>22. ByteReadOnce'
  <2>1. None \notin byte' /\ \A s \in got : fd[s] \notin byte' \cup {None}
    BY <1>8, <1>19, <1>20, CommandsAreDisjoint DEF Commands, IndInv, ByteReadOnce
  <2> QED BY <2>1, <1>2, <1>21 DEF IndInv, ByteReadOnce
<1>23. ByteWrittenOnce'
  BY SMT, <1>2, <1>7, <1>8, <1>19 DEF IndInv, ByteWrittenOnce
<1>24. \A s \in Starters : pc'[s] \in {"remove", "done"} => pc[s] \in {"remove", "done"}
  BY <1>3, <1>4
<1>25. StartedGotByte'
  BY <1>2, <1>24 DEF IndInv, StartedGotByte
<1>26. StartReturnsAfterExec'
  BY <1>2, <1>7, <1>24 DEF IndInv, StartReturnsAfterExec
<1> QED
  BY <1>11, <1>12, <1>13, <1>14, <1>15, <1>16, <1>17, <1>18, <1>22, <1>23,
     <1>25, <1>26 DEF IndInv

\* A step of a start preserves the invariant: it reads the byte only once, and
\* reaches EOF only when the init has closed the FIFO.
LEMMA StartInv ==
    ASSUME TypeOK, IndInv, NEW s \in Starters, StartStep(s) PROVE IndInv'
<1>1. /\ pc \in [Commands -> Phases] /\ init \in [Creators -> InitPhases]
      /\ fd \in [Creators \cup Starters -> Creators \cup {None}]
  BY DEF TypeOK
<1>2. UNCHANGED <<dir, saved, loaded, down>> /\ fifo' \in {fifo, None}
  BY <1>1, StartFrame, Zenon
<1>3. ~Quiet(s) /\ \A q \in Commands \ {s} : pc'[q] = pc[q]
  BY <1>1, StartFrame, Zenon
<1>4. /\ Creators \subseteq Commands \ {s} /\ Loaders \subseteq Commands /\ Starters \subseteq Loaders
      /\ Deleters \subseteq Loaders \ {s}
  BY CommandsAreDisjoint DEF Commands, Loaders
<1>5. (\A c \in Creators : pc'[c] = pc[c]) /\ \A d \in Deleters : pc'[d] = pc[d]
  BY <1>3, <1>4
<1>6. (\A p \in Loaders : ~Quiet(p)' => ~Quiet(p)) /\ \A c \in Creators : Quiet(c)' = Quiet(c)
  BY <1>3, <1>4 DEF Quiet
<1>7. \A e \in Creators : init'[e] = init[e] \/ (init[e] = "fifo" /\ init'[e] = "opened")
  BY <1>1, StartFrame, Zenon
<1>8. \/ fd' = fd
      \/ fd' = [fd EXCEPT ![s] = fifo] /\ pc[s] \in {"exec", "blocked", "open"}
                                       /\ pc'[s] \in {"open", "blocked", "reading"}
  BY <1>1, StartFrame, Zenon
<1>9. /\ \/ got' = got
         \/ got' = got \cup {s} /\ pc[s] = "reading" /\ fd' = fd /\ pc' = pc
                                /\ fd[s] \in byte /\ byte' = byte \ {fd[s]}
      /\ byte' \subseteq byte
  BY <1>1, StartFrame, Zenon
<1>10. pc'[s] \in {"remove", "done"} =>
         \/ pc[s] \in {"remove"} /\ fd' = fd
         \/ pc[s] = "reading" /\ s \in got /\ ~Writing(fd[s]) /\ fd' = fd
  BY <1>1, StartFrame, Zenon
<1>11. pc[s] \in {"reading", "remove"} => pc'[s] \in {"reading", "remove"} \cup Terminal
  BY <1>1, StartFrame, Zenon
<1>12. \A e \in Creators \cup {None} : Alive(e)' => Alive(e)
  BY <1>7 DEF Alive
<1>13. OneCreate' /\ EntriesNeedDir'
  BY <1>2, <1>6 DEF IndInv, OneCreate, EntriesNeedDir
<1>14. CreateOwns' /\ LoadedIsSaved'
  BY <1>2, <1>6 DEF IndInv, CreateOwns, LoadedIsSaved
<1>15. InitFollowsCreate'
  <2> SUFFICES ASSUME NEW e \in Creators
        PROVE /\ pc[e] \in {"idle", "checked", "made", "fifo"} => init'[e] = "none"
              /\ pc[e] \in {"config", "sync", "hooks", "save", "run", "post",
                             "pidfile", "term"} => init'[e] # "none"
              /\ pc[e] \in {"unfifo", "destroy", "removing", "failed"} => ~Alive(e)'
              /\ init'[e] = "none" => saved # e /\ \A p \in Loaders : loaded[p] # e
    BY <1>2, <1>5 DEF InitFollowsCreate
  <2> QED BY <1>7, <1>12 DEF IndInv, InitFollowsCreate
<1>16. UnforkedIsSilent'
  BY <1>2, <1>7 DEF IndInv, UnforkedIsSilent
<1>17. DeletesDead'
  <2>1. \A d \in Deleters : loaded[d] \in Creators \cup {None}
    BY <1>4 DEF TypeOK
  <2> QED BY <2>1, <1>2, <1>5, <1>12 DEF IndInv, DeletesDead
<1>18. RecordedBeforeRun'
  <2> SUFFICES ASSUME NEW e \in Creators, Alive(e)',
                      Released(e)' \/ pc[e] = "run" \/ HasRun(down[e])
               PROVE saved = e
    BY <1>2, <1>5 DEF RecordedBeforeRun
  <2>1. Alive(e) /\ (Released(e) \/ pc[e] = "run" \/ HasRun(down[e]))
    BY <1>7, <1>12 DEF Released
  <2> QED BY <2>1 DEF IndInv, RecordedBeforeRun
<1>19. (\A c \in Creators : fd'[c] = fd[c]) /\ \A t \in Starters \ {s} : fd'[t] = fd[t]
  BY <1>1, <1>4, <1>8
<1>20. OwnFifo'
  BY <1>7, <1>19 DEF IndInv, OwnFifo
<1>21. got \subseteq Starters
  BY DEF TypeOK
<1>22. \A t \in got : fd'[t] = fd[t] /\ (pc[t] \in {"reading", "remove"} \cup Terminal)
  BY <1>8, <1>19, <1>21 DEF IndInv, ByteReadOnce, Terminal
<1>23. \A t \in got : pc'[t] \in {"reading", "remove"} \cup Terminal
  BY <1>3, <1>4, <1>11, <1>21, <1>22 DEF Quiet
<1>24. ByteReadOnce'
  BY <1>9, <1>22, <1>23 DEF IndInv, ByteReadOnce
<1>25. ByteWrittenOnce'
  BY SMT, <1>7, <1>9, <1>22 DEF IndInv, ByteWrittenOnce
<1>26. StartedGotByte'
  BY <1>3, <1>4, <1>9, <1>10 DEF IndInv, StartedGotByte
<1>27. StartReturnsAfterExec'
  <2> SUFFICES ASSUME NEW t \in Starters, pc'[t] \in {"remove", "done"},
                      NEW e \in Creators, fd'[e] = fd'[t]
               PROVE init'[e] \in {"running", "dead"}
    BY DEF StartReturnsAfterExec
  <2>1. CASE pc[t] \in {"remove", "done"}
    BY SMT, <2>1, <1>7, <1>8, <1>10, <1>19 DEF IndInv, StartReturnsAfterExec
  <2>2. CASE pc[t] \notin {"remove", "done"}
    <3>1. t = s /\ s \in got /\ ~Writing(fd[s]) /\ fd' = fd
      BY <2>2, <1>3, <1>4, <1>10
    <3>2. init[e] \notin {"fifo", "opened", "wrote"} /\ init'[e] = init[e]
      BY <3>1, <1>7 DEF Writing
    <3>3. fd[s] # None => init[e] \in {"wrote", "running", "dead"}
      <4>1. fd[s] # None => fd[s] = e
        BY <3>1 DEF IndInv, OwnFifo
      <4> QED BY <4>1, <3>1 DEF IndInv, ByteWrittenOnce
    <3> QED BY <3>1, <3>2, <3>3 DEF IndInv, ByteReadOnce
  <2> QED BY <2>1, <2>2
<1> QED
  BY <1>13, <1>14, <1>15, <1>16, <1>17, <1>18, <1>20, <1>24, <1>25, <1>26, <1>27
     DEF IndInv

\* A start, a kill or a delete begins: it loads what state.json says.
LEMMA LoadInv ==
    ASSUME TypeOK, IndInv, NEW p \in Loaders, Load(p) PROVE IndInv'
<1>1. UNCHANGED <<dir, saved, fifo, init, down, byte, fd, got>>
  BY DEF Load, files, inits
<1>2. /\ pc[p] = "idle" /\ (pc'[p] = "failed" \/ (pc'[p] = "loaded" /\ saved # None))
      /\ \A q \in Commands \ {p} : pc'[q] = pc[q] /\ loaded'[q] = loaded[q]
      /\ loaded'[p] = saved
  BY DEF Load, Goto, TypeOK, Commands, Loaders
<1>3. /\ Creators \subseteq Commands \ {p} /\ Loaders \subseteq Commands
      /\ Starters \subseteq Loaders /\ Deleters \subseteq Loaders
  BY CommandsAreDisjoint DEF Commands, Loaders
<1>4. \A q \in Commands \ {p} : Quiet(q)' = Quiet(q)
  BY <1>2 DEF Quiet
<1>5. pc'[p] = "failed" => Quiet(p)'
  BY DEF Quiet, Terminal
<1>6. OneCreate' /\ EntriesNeedDir'
  BY <1>1, <1>3, <1>4 DEF IndInv, OneCreate, EntriesNeedDir
<1>7. CreateOwns' /\ LoadedIsSaved'
  BY <1>1, <1>2, <1>3, <1>4, <1>5 DEF IndInv, CreateOwns, LoadedIsSaved
<1>8. InitFollowsCreate'
  BY SMT, <1>1, <1>2, <1>3 DEF IndInv, InitFollowsCreate, Alive
<1>9. UnforkedIsSilent' /\ OwnFifo' /\ ByteWrittenOnce'
  BY <1>1 DEF IndInv, UnforkedIsSilent, OwnFifo, ByteWrittenOnce
<1>10. DeletesDead'
  BY <1>1, <1>2, <1>3 DEF IndInv, DeletesDead, Alive
<1>11. StartedGotByte' /\ StartReturnsAfterExec'
  BY <1>1, <1>2, <1>3 DEF IndInv, StartedGotByte, StartReturnsAfterExec
<1>12. RecordedBeforeRun'
  BY <1>1, <1>2, <1>3 DEF IndInv, RecordedBeforeRun, Released, Alive
<1>13. got \subseteq Loaders
  BY <1>3 DEF TypeOK
<1>14. p \notin got
  BY <1>2 DEF IndInv, ByteReadOnce, Terminal
<1>15. ByteReadOnce'
  BY <1>1, <1>2, <1>3, <1>13, <1>14 DEF IndInv, ByteReadOnce
<1> QED BY <1>6, <1>7, <1>8, <1>9, <1>10, <1>11, <1>12, <1>15 DEF IndInv

\* A delete, a kill or a crash: a delete removes state.json only when the init
\* it loaded is dead, and no other init can be recorded there meanwhile.
LEMMA DeleteInv ==
    ASSUME TypeOK, IndInv,
           \/ \E d \in Deleters : DeleteStep(d)
           \/ \E k \in Killers : KillSignal(k)
           \/ \E p \in Commands : Crash(p)
    PROVE  IndInv'
<1>1. DeletesDead
  BY DEF IndInv
<1>2. UNCHANGED <<loaded, init, down, byte, fd, got>> /\ fifo' \in {fifo, None}
  BY <1>1, DeleteFrame, Zenon
<1>3. \A q \in Commands : Quiet(q) => pc'[q] = pc[q]
  BY <1>1, DeleteFrame, Zenon
<1>4. (\A c \in Creators : pc'[c] \in {pc[c], "crashed"})
      /\ \A s \in Starters : pc'[s] \in {pc[s], "crashed"}
  BY <1>1, DeleteFrame, Zenon
<1>5. saved' = saved \/ \E d \in Deleters : pc[d] = "removing" /\ saved' = None
  BY <1>1, DeleteFrame, Zenon
<1>6. /\ dir' = None => dir = None \/ (saved' = None /\ fifo' = None)
      /\ \A d \in Deleters : pc'[d] \in {"removing", "done"} => ~Alive(loaded[d])
  BY <1>1, DeleteFrame, Zenon
<1>7. /\ Creators \subseteq Commands /\ Loaders \subseteq Commands
      /\ Starters \subseteq Loaders /\ Deleters \subseteq Loaders
  BY DEF Commands, Loaders
<1>8. \A q \in Commands : ~Quiet(q)' => ~Quiet(q)
  BY <1>3 DEF Quiet
<1>9. saved' \in {saved, None} /\ \A e : Alive(e)' = Alive(e)
  BY <1>2, <1>5 DEF Alive
<1>10. OneCreate' /\ EntriesNeedDir'
  BY <1>2, <1>6, <1>7, <1>8, <1>9 DEF IndInv, OneCreate, EntriesNeedDir
<1>11. CreateOwns' /\ LoadedIsSaved'
  BY <1>2, <1>7, <1>8, <1>9 DEF IndInv, CreateOwns, LoadedIsSaved
<1>12. InitFollowsCreate'
  <2>1. \A c \in Creators : c # None
    BY CommandsAreDisjoint DEF Commands
  <2> QED BY <2>1, <1>2, <1>4, <1>9 DEF IndInv, InitFollowsCreate
<1>13. UnforkedIsSilent' /\ OwnFifo' /\ ByteWrittenOnce'
  BY <1>2 DEF IndInv, UnforkedIsSilent, OwnFifo, ByteWrittenOnce
<1>14. DeletesDead'
  BY <1>2, <1>6, <1>9 DEF DeletesDead
<1>15. \A e \in Creators : Alive(e) /\ saved = e => saved' = e
  <2> SUFFICES ASSUME NEW e \in Creators, Alive(e), saved = e,
                      NEW d \in Deleters, pc[d] = "removing"
               PROVE  FALSE
    BY <1>5
  <2>1. ~Quiet(d)
    BY DEF Quiet, Terminal
  <2>2. loaded[d] = e
    BY <2>1, <1>7 DEF IndInv, LoadedIsSaved, Alive
  <2> QED BY <2>2 DEF IndInv, DeletesDead
<1>16. RecordedBeforeRun'
  BY <1>2, <1>4, <1>9, <1>15 DEF IndInv, RecordedBeforeRun, Released
<1>17. StartedGotByte' /\ StartReturnsAfterExec'
  BY <1>2, <1>4 DEF IndInv, StartedGotByte, StartReturnsAfterExec
<1>18. got \subseteq Starters
  BY DEF TypeOK
<1>19. ByteReadOnce'
  BY <1>2, <1>4, <1>18 DEF IndInv, ByteReadOnce, Terminal
<1> QED BY <1>10, <1>11, <1>12, <1>13, <1>14, <1>16, <1>17, <1>19 DEF IndInv

-----------------------------------------------------------------------------
(* The theorems.                                                           *)

LEMMA StutterInv == ASSUME IndInv, UNCHANGED vars PROVE IndInv'
<1>1. UNCHANGED <<dir, saved, fifo, pc, init, down, byte, loaded, fd, got>>
  BY DEF vars
<1>2. OneCreate' /\ EntriesNeedDir' /\ CreateOwns' /\ LoadedIsSaved'
  BY <1>1 DEF IndInv, OneCreate, EntriesNeedDir, CreateOwns, LoadedIsSaved, Quiet
<1>3. InitFollowsCreate' /\ UnforkedIsSilent' /\ DeletesDead'
  BY <1>1 DEF IndInv, InitFollowsCreate, UnforkedIsSilent, DeletesDead, Alive
<1>4. RecordedBeforeRun' /\ OwnFifo'
  BY <1>1 DEF IndInv, RecordedBeforeRun, OwnFifo, Alive, Released
<1>5. ByteReadOnce' /\ ByteWrittenOnce' /\ StartedGotByte' /\ StartReturnsAfterExec'
  BY <1>1 DEF IndInv, ByteReadOnce, ByteWrittenOnce, StartedGotByte, StartReturnsAfterExec
<1> QED BY <1>2, <1>3, <1>4, <1>5 DEF IndInv

LEMMA InitialInv == Init => IndInv
<1> SUFFICES ASSUME Init PROVE IndInv
  OBVIOUS
<1> USE CommandsAreDisjoint DEF Init, Commands, Loaders
<1>1. OneCreate /\ EntriesNeedDir /\ CreateOwns /\ LoadedIsSaved
  BY DEF OneCreate, EntriesNeedDir, CreateOwns, LoadedIsSaved, Quiet
<1>2. InitFollowsCreate /\ UnforkedIsSilent /\ DeletesDead
  BY DEF InitFollowsCreate, UnforkedIsSilent, DeletesDead, Alive
<1>3. RecordedBeforeRun /\ OwnFifo
  BY HasRunEmpty DEF RecordedBeforeRun, OwnFifo, Alive, Released
<1>4. ByteReadOnce /\ ByteWrittenOnce /\ StartedGotByte /\ StartReturnsAfterExec
  BY DEF ByteReadOnce, ByteWrittenOnce, StartedGotByte, StartReturnsAfterExec
<1> QED BY <1>1, <1>2, <1>3, <1>4 DEF IndInv

\* If the ID is created again only while it is quiet, the inductive invariant
\* holds throughout, with any number of commands and any of them killed.
THEOREM InductiveInvariant == ASSUME SerialReuse PROVE Spec => []IndInv
<1>1. TypeOK /\ IndInv /\ [Next]_vars => IndInv'
  <2> SUFFICES ASSUME TypeOK, IndInv, [Next]_vars PROVE IndInv'
    OBVIOUS
  <2>1. CASE UNCHANGED vars
    BY <2>1, StutterInv
  <2>2. CASE \E c \in Creators : CreateStat(c) \/ CreateStep(c) \/ InitStep(c) \/ InitExit(c)
    BY <2>2, BeginInv, CreateInv, InitInv
  <2>3. CASE \E s \in Starters : Load(s) \/ StartStep(s)
    BY <2>3, LoadInv, StartInv DEF Loaders
  <2>4. CASE \E d \in Deleters : Load(d) \/ DeleteStep(d)
    BY <2>4, LoadInv, DeleteInv DEF Loaders
  <2>5. CASE \E k \in Killers : Load(k) \/ KillSignal(k)
    BY <2>5, LoadInv, DeleteInv DEF Loaders
  <2>6. CASE \E p \in Commands : Crash(p)
    BY <2>6, DeleteInv
  <2> QED BY <2>1, <2>2, <2>3, <2>4, <2>5, <2>6 DEF Next
<1>2. QED BY <1>1, InitialInv, TypeCorrect, PTL DEF Spec

\* updateState before procRun: a released init that is not dead is recorded in
\* state.json, so runu delete finds it even after runu create was killed.
THEOREM Recorded == ASSUME SerialReuse PROVE Spec => []ReleasedInitIsRecorded
<1>1. IndInv => ReleasedInitIsRecorded
  BY CommandsAreDisjoint
  DEF IndInv, RecordedBeforeRun, ReleasedInitIsRecorded, Released, Alive, Commands
<1>2. QED BY <1>1, InductiveInvariant, PTL

\* readFromExecFifo: of any number of starts of one container at most one
\* returns success.
THEOREM OneWinner == ASSUME SerialReuse PROVE Spec => []OneStartWins
<1>1. IndInv => OneStartWins
  BY DEF IndInv, StartedGotByte, ByteReadOnce, OneStartWins
<1>2. QED BY <1>1, InductiveInvariant, PTL

\* A start returns success only after the init has executed the unikernel, or
\* has died trying.
THEOREM StartAfterExec == ASSUME SerialReuse PROVE Spec => []StartReturnsAfterExec
<1>1. IndInv => StartReturnsAfterExec
  BY DEF IndInv
<1>2. QED BY <1>1, InductiveInvariant, PTL

\* destroy: state.json is removed, by a create or a delete, only when the init
\* that it names is dead.
THEOREM RemovalIsSafe == ASSUME SerialReuse PROVE Spec => RemovesOnlyDead
<1>1. TypeOK /\ IndInv /\ [Next]_vars => [saved' # saved /\ saved' = None => ~Alive(saved)]_vars
  <2> SUFFICES ASSUME TypeOK, IndInv, Next, saved' # saved, saved' = None
               PROVE  ~Alive(saved)
    BY DEF vars
  <2>1. pc \in [Commands -> Phases] /\ init \in [Creators -> InitPhases]
        /\ fd \in [Creators \cup Starters -> Creators \cup {None}]
        /\ down \in [Creators -> Seq(Messages)]
    BY DEF TypeOK
  <2>2. ASSUME NEW c \in Creators, CreateStep(c) PROVE ~Alive(saved)
    <3>1. pc[c] = "removing" /\ ~Quiet(c)
      BY <2>1, <2>2, CommandsAreDisjoint, CreateFrame DEF Commands
    <3> QED BY <3>1 DEF IndInv, InitFollowsCreate, CreateOwns, Alive
  <2>3. ASSUME \/ \E d \in Deleters : DeleteStep(d)
               \/ \E k \in Killers : KillSignal(k)
               \/ \E p \in Commands : Crash(p)
        PROVE  ~Alive(saved)
    <3>1. PICK d \in Deleters : pc[d] = "removing"
      BY <2>3, DeleteFrame DEF IndInv
    <3>2. d \in Loaders /\ ~Quiet(d)
      BY <3>1 DEF Quiet, Terminal, Loaders
    <3> QED BY <3>1, <3>2 DEF IndInv, LoadedIsSaved, DeletesDead, Alive
  <2>4. ASSUME NEW c \in Creators, CreateStat(c) \/ InitStep(c) \/ InitExit(c) PROVE FALSE
    <3>1. CreateStat(c) => saved' = saved
      BY DEF CreateStat, files
    <3> QED BY <2>1, <2>4, <3>1, InitFrame, Zenon
  <2>5. ASSUME NEW s \in Starters, StartStep(s) PROVE FALSE
    BY <2>1, <2>5, StartFrame, Zenon
  <2>6. ASSUME NEW p \in Loaders, Load(p) PROVE FALSE
    BY <2>6 DEF Load, files
  <2> QED BY <2>2, <2>3, <2>4, <2>5, <2>6 DEF Next, Loaders
<1>2. QED BY <1>1, InductiveInvariant, TypeCorrect, PTL DEF Spec, RemovesOnlyDead

-----------------------------------------------------------------------------
(* That runu implements the OCI lifecycle, and that what fails or is       *)
(* deleted leaves nothing behind.  Both rest on IndInv and on              *)
(* LifecycleInv, which is inductive relative to it.                        *)

-----------------------------------------------------------------------------
(* What the steps may do to the directory and to the FIFO.                 *)

LEMMA CreateFiles ==
    ASSUME pc \in [Commands -> Phases], NEW c \in Creators, CreateStep(c)
    PROVE  /\ pc'[c] = "fifo" => fifo' = c
           /\ fifo' = c /\ fifo # c => pc[c] = "made"
           /\ pc'[c] \in {"config", "sync", "hooks", "save"} =>
                 /\ pc[c] \in {"fifo", "config", "sync", "hooks", "save", "run"}
                 /\ fifo' = fifo /\ saved' = saved
           /\ pc[c] = "save" => fifo' = fifo /\ init' = init
           /\ dir' \in {dir, None} \/ (pc[c] = "checked" /\ pc'[c] = "made" /\ dir' = c)
           /\ pc'[c] \notin {"idle", "checked"}
           /\ pc'[c] = "failed" => \/ pc[c] = "checked" /\ dir' = dir
                                   \/ pc[c] = "destroy" /\ RunType(c) = "running"
                                   \/ dir' = None
<1> USE CommandsAreDisjoint DEF Commands
<1>1. /\ pc'[c] = "fifo" => fifo' = c
      /\ fifo' = c /\ fifo # c => pc[c] = "made"
  BY DEF Goto, files, CreateStep, CreateMkdir, CreateExecFifo, Spawn, SendConfig, Sync, SyncEOF,
      RunHooks, UpdateState, WriteProcRun, Poststart, CreatePidFile, Terminate,
      DeleteExecFifo, Destroy, RemoveAll
<1>2. pc'[c] \in {"config", "sync", "hooks", "save"} =>
         /\ pc[c] \in {"fifo", "config", "sync", "hooks", "save", "run"}
         /\ fifo' = fifo /\ saved' = saved
  BY DEF Goto, files, CreateStep, CreateMkdir, CreateExecFifo, Spawn, SendConfig, Sync, SyncEOF,
      RunHooks, UpdateState, WriteProcRun, Poststart, CreatePidFile, Terminate,
      DeleteExecFifo, Destroy, RemoveAll
<1>3. pc[c] = "save" => fifo' = fifo /\ init' = init
  BY DEF inits, CreateStep, CreateMkdir, CreateExecFifo, Spawn, SendConfig, Sync, SyncEOF,
      RunHooks, UpdateState, WriteProcRun, Poststart, CreatePidFile, Terminate,
      DeleteExecFifo, Destroy, RemoveAll
<1>4. dir' \in {dir, None} \/ (pc[c] = "checked" /\ pc'[c] = "made" /\ dir' = c)
  BY DEF Goto, files, CreateStep, CreateMkdir, CreateExecFifo, Spawn, SendConfig, Sync, SyncEOF,
      RunHooks, UpdateState, WriteProcRun, Poststart, CreatePidFile, Terminate,
      DeleteExecFifo, Destroy, RemoveAll
<1>5. pc'[c] \notin {"idle", "checked"}
  BY DEF Goto, CreateStep, CreateMkdir, CreateExecFifo, Spawn, SendConfig, Sync, SyncEOF,
      RunHooks, UpdateState, WriteProcRun, Poststart, CreatePidFile, Terminate,
      DeleteExecFifo, Destroy, RemoveAll
<1>6. pc'[c] = "failed" => \/ pc[c] = "checked" /\ dir' = dir
                           \/ pc[c] = "destroy" /\ RunType(c) = "running"
                           \/ dir' = None
  BY DEF Goto, files, CreateStep, CreateMkdir, CreateExecFifo, Spawn, SendConfig, Sync, SyncEOF,
      RunHooks, UpdateState, WriteProcRun, Poststart, CreatePidFile, Terminate,
      DeleteExecFifo, Destroy, RemoveAll
<1> QED BY <1>1, <1>2, <1>3, <1>4, <1>5, <1>6

\* What a delete removes, and how it ends.
LEMMA DeleteFiles ==
    ASSUME TypeOK,
           \/ \E d \in Deleters : DeleteStep(d)
           \/ \E k \in Killers : KillSignal(k)
           \/ \E p \in Commands : Crash(p)
    PROVE  /\ dir' \in {dir, None}
           /\ fifo' # fifo \/ saved' # saved => \E d \in Deleters : pc[d] = "removing"
           /\ \A d \in Deleters : pc'[d] = "done" => pc[d] = "done" \/ (~Quiet(d) /\ dir' = None)
<1> USE CommandsAreDisjoint DEF Commands
<1>1. /\ dir' \in {dir, None}
      /\ fifo' # fifo \/ saved' # saved => \E d \in Deleters : pc[d] = "removing"
  BY DEF files, KillSignal, Crash, DeleteStep, DeleteStatus, KillContainer, PollKilled, RemoveAll
<1>2. pc \in [Commands -> Phases]
  BY DEF TypeOK
<1>3. \A d \in Deleters : pc'[d] = "done" => pc[d] = "done" \/ (~Quiet(d) /\ dir' = None)
  BY SMT, <1>2 DEF Goto, Quiet, Terminal, KillSignal, Crash, DeleteStep, DeleteStatus, KillContainer,
      PollKilled, RemoveAll
<1> QED BY <1>1, <1>3

-----------------------------------------------------------------------------
(* The invariant, actor by actor.                                          *)

LEMMA CreateLifecycle ==
    ASSUME TypeOK, IndInv, LifecycleInv, NEW c \in Creators, CreateStep(c)
    PROVE  LifecycleInv'
<1>1. /\ pc \in [Commands -> Phases] /\ init \in [Creators -> InitPhases]
      /\ loaded \in [Commands -> Creators \cup {None}]
  BY DEF TypeOK
<1>2. /\ Creators \subseteq Commands /\ None \notin Creators
      /\ Loaders \subseteq Commands /\ Loaders \cap Creators = {}
      /\ Deleters \subseteq Loaders
  BY CommandsAreDisjoint DEF Commands, Loaders
<1>3. loaded' = loaded /\ ~Quiet(c) /\ \A q \in Commands \ {c} : pc'[q] = pc[q]
  BY <1>1, CreateFrame, Zenon
<1>4. LoadedLiveIsSaved'
  <2> SUFFICES ASSUME NEW p \in Loaders, Alive(loaded[p])' PROVE saved' = loaded[p]
    BY <1>3 DEF LoadedLiveIsSaved
  <2>1. loaded[p] \in Creators
    BY <1>1, <1>2, <1>3 DEF Alive
  <2>2. loaded[p] = c => init[c] # "none"
    BY DEF IndInv, InitFollowsCreate
  <2>3. \/ pc[c] = "fifo" /\ init' = [init EXCEPT ![c] = "config"]
        \/ init' = init \/ init' = [init EXCEPT ![c] = "dead"]
    BY <1>1, CreateFrame
  <2>4. pc[c] = "fifo" => init[c] = "none"
    BY DEF IndInv, InitFollowsCreate
  <2>5. Alive(loaded[p])
    BY <1>1, <1>2, <1>3, <2>1, <2>2, <2>3, <2>4 DEF Alive
  <2>6. saved = loaded[p] /\ saved = c
    BY <1>2, <1>3, <2>1, <2>5 DEF LifecycleInv, LoadedLiveIsSaved, IndInv, CreateOwns
  <2>7. pc[c] # "removing"
    BY <2>5, <2>6 DEF IndInv, InitFollowsCreate
  <2> QED BY <1>1, <2>6, <2>7, CreateFrame
<1>5. FifoUntilSaved'
  <2> SUFFICES ASSUME NEW e \in Creators,
                      pc'[e] \in {"fifo", "config", "sync", "hooks", "save"},
                      saved' = None, init'[e] # "dead"
               PROVE  fifo' = e
    BY DEF FifoUntilSaved
  <2>1. e = c
    BY <1>2, <1>3 DEF IndInv, OneCreate, Quiet, Terminal
  <2>2. CASE pc'[c] = "fifo"
    BY <1>1, <2>1, <2>2, CreateFiles
  <2>3. CASE pc'[c] \in {"config", "sync", "hooks", "save"}
    <3>1. /\ pc[c] \in {"fifo", "config", "sync", "hooks", "save", "run"}
          /\ fifo' = fifo /\ saved = None
      BY <1>1, <2>3, CreateFiles
    <3>2. init[c] # "dead"
      <4>1. \/ pc[c] = "fifo" \/ init' = init
            \/ init' = [init EXCEPT ![c] = "dead"]
        BY <1>1, CreateFrame
      <4>2. pc[c] = "fifo" => init[c] = "none"
        BY DEF IndInv, InitFollowsCreate
      <4> QED BY <1>1, <2>1, <4>1, <4>2
    <3>3. pc[c] # "run"
      BY <1>2, <3>1, <3>2 DEF IndInv, RecordedBeforeRun, InitFollowsCreate, Alive
    <3> QED BY <2>1, <3>1, <3>2, <3>3 DEF LifecycleInv, FifoUntilSaved
  <2> QED BY <2>1, <2>2, <2>3
<1>6. DirOfCreate'
  <2>1. pc[c] = "checked" => init[c] = "none"
    BY DEF IndInv, InitFollowsCreate
  <2>2. ASSUME NEW e \in Creators, pc'[e] \in {"idle", "checked", "failed"} PROVE dir' # e
    <3>1. CASE e # c
      <4>1. dir # e
        BY <1>2, <1>3, <2>2, <3>1 DEF LifecycleInv, DirOfCreate
      <4> QED BY <1>1, <1>2, <3>1, <4>1, CreateFiles
    <3>2. CASE e = c
      <4>1. pc'[c] = "failed"
        BY <1>1, <2>2, <3>2, CreateFiles
      <4>2. ~(pc[c] = "destroy" /\ RunType(c) = "running")
        BY DEF IndInv, InitFollowsCreate, RunType
      <4>3. pc[c] = "checked" => dir # c
        BY DEF LifecycleInv, DirOfCreate
      <4> QED BY <1>1, <1>2, <3>2, <4>1, <4>2, <4>3, CreateFiles
    <3> QED BY <3>1, <3>2
  <2>3. ASSUME NEW d \in Deleters, pc'[d] = "done" PROVE loaded[d] # None /\ dir' # loaded[d]
    <3>1. loaded[d] # None /\ dir # loaded[d]
      BY <1>2, <1>3, <2>3 DEF LifecycleInv, DirOfCreate
    <3>2. pc[c] = "checked" => loaded[d] # c
      BY <1>2, <2>1 DEF IndInv, InitFollowsCreate
    <3> QED BY <1>1, <3>1, <3>2, CreateFiles
  <2> QED BY <1>3, <2>2, <2>3 DEF DirOfCreate
<1> QED BY <1>4, <1>5, <1>6 DEF LifecycleInv

\* An init, and a command that begins, leave the files alone.
LEMMA InitLifecycle ==
    ASSUME TypeOK, IndInv, LifecycleInv, NEW i \in Creators, InitStep(i) \/ InitExit(i)
    PROVE  LifecycleInv'
<1>1. /\ pc \in [Commands -> Phases] /\ init \in [Creators -> InitPhases]
      /\ down \in [Creators -> Seq(Messages)]
      /\ loaded \in [Commands -> Creators \cup {None}]
  BY DEF TypeOK
<1>2. /\ Creators \subseteq Commands /\ Creators \cap Starters = {} /\ Loaders \subseteq Commands
      /\ Deleters \subseteq Loaders /\ Deleters \cap Starters = {}
  BY CommandsAreDisjoint DEF Commands, Loaders
<1>3. UNCHANGED <<dir, saved, fifo, loaded>>
  BY <1>1, InitFrame, Zenon
<1>4. \A p \in Commands : p \notin Starters => pc'[p] = pc[p]
  BY <1>1, InitFrame
<1>5. init[i] # "none" /\ init[i] # "dead" /\ \A e \in Creators \ {i} : init'[e] = init[e]
  BY <1>1, InitFrame
<1>6. LoadedLiveIsSaved'
  BY <1>1, <1>2, <1>3, <1>5 DEF LifecycleInv, LoadedLiveIsSaved, Alive
<1>7. FifoUntilSaved'
  BY <1>2, <1>3, <1>4, <1>5 DEF LifecycleInv, FifoUntilSaved
<1>8. DirOfCreate'
  BY <1>2, <1>3, <1>4 DEF LifecycleInv, DirOfCreate
<1> QED BY <1>6, <1>7, <1>8 DEF LifecycleInv

LEMMA BeginLifecycle ==
    ASSUME TypeOK, IndInv, LifecycleInv,
           \/ \E c \in Creators : CreateStat(c)
           \/ \E p \in Loaders : Load(p)
    PROVE  LifecycleInv'
<1>1. /\ pc \in [Commands -> Phases] /\ loaded \in [Commands -> Creators \cup {None}]
  BY DEF TypeOK
<1>2. /\ Creators \subseteq Commands /\ Loaders \subseteq Commands /\ Loaders \cap Creators = {}
      /\ Deleters \subseteq Loaders
  BY CommandsAreDisjoint DEF Commands, Loaders
<1>3. UNCHANGED <<dir, saved, fifo, init>>
  BY DEF CreateStat, Load, files, inits
<1>4. ASSUME NEW c \in Creators, CreateStat(c) PROVE LifecycleInv'
  <2>1. loaded' = loaded /\ pc[c] = "idle"
    BY <1>4 DEF CreateStat, loading
  <2>2. \A q \in Commands \ {c} : pc'[q] = pc[q]
    BY <1>1, <1>4 DEF CreateStat, Goto
  <2>3. pc'[c] \in {"checked", "failed"}
    BY <1>1, <1>2, <1>4 DEF CreateStat, Goto
  <2>4. LoadedLiveIsSaved'
    BY <1>3, <2>1 DEF LifecycleInv, LoadedLiveIsSaved, Alive
  <2>5. FifoUntilSaved'
    BY <1>2, <1>3, <2>2, <2>3 DEF LifecycleInv, FifoUntilSaved
  <2>6. DirOfCreate'
    BY <1>2, <1>3, <2>1, <2>2 DEF LifecycleInv, DirOfCreate
  <2> QED BY <2>4, <2>5, <2>6 DEF LifecycleInv
<1>5. ASSUME NEW p \in Loaders, Load(p) PROVE LifecycleInv'
  <2>1. \A q \in Commands \ {p} : pc'[q] = pc[q] /\ loaded'[q] = loaded[q]
    BY <1>1, <1>5 DEF Load, Goto
  <2>2. loaded'[p] = saved /\ pc'[p] \in {"loaded", "failed"}
    BY <1>1, <1>2, <1>5 DEF Load, Goto
  <2>3. LoadedLiveIsSaved'
    BY <1>2, <1>3, <2>1, <2>2 DEF LifecycleInv, LoadedLiveIsSaved, Alive
  <2>4. FifoUntilSaved'
    BY <1>2, <1>3, <2>1 DEF LifecycleInv, FifoUntilSaved
  <2>5. DirOfCreate'
    BY <1>2, <1>3, <2>1, <2>2 DEF LifecycleInv, DirOfCreate
  <2> QED BY <2>3, <2>4, <2>5 DEF LifecycleInv
<1> QED BY <1>4, <1>5

\* A command that removes the FIFO while a create runs has loaded its init, which
\* is recorded or dead by then.
LEMMA RemoverHasLoaded ==
    ASSUME TypeOK, IndInv, LifecycleInv, NEW p \in Loaders, ~Quiet(p),
           NEW c \in Creators, ~Quiet(c), saved = None
    PROVE  init[c] = "dead"
<1>1. loaded[p] = c
  BY DEF IndInv, CreateOwns
<1>2. init[c] # "none"
  BY <1>1 DEF IndInv, InitFollowsCreate
<1>3. ~Alive(c)
  BY <1>1, CommandsAreDisjoint DEF LifecycleInv, LoadedLiveIsSaved, Commands
<1> QED BY <1>2, <1>3, CommandsAreDisjoint DEF Alive, Commands

LEMMA StartLifecycle ==
    ASSUME TypeOK, IndInv, LifecycleInv, NEW s \in Starters, StartStep(s)
    PROVE  LifecycleInv'
<1>1. /\ pc \in [Commands -> Phases] /\ init \in [Creators -> InitPhases]
      /\ fd \in [Creators \cup Starters -> Creators \cup {None}]
      /\ loaded \in [Commands -> Creators \cup {None}]
  BY DEF TypeOK
<1>2. /\ Creators \subseteq Commands /\ Creators \cap Starters = {} /\ Loaders \subseteq Commands
      /\ Deleters \subseteq Loaders /\ Deleters \cap Starters = {} /\ s \in Loaders
  BY CommandsAreDisjoint DEF Commands, Loaders
<1>3. UNCHANGED <<dir, saved, loaded>> /\ ~Quiet(s) /\ \A q \in Commands \ {s} : pc'[q] = pc[q]
  BY <1>1, StartFrame, Zenon
<1>4. \A e \in Creators : init'[e] = init[e] \/ (init[e] = "fifo" /\ init'[e] = "opened")
  BY <1>1, StartFrame, Zenon
<1>5. LoadedLiveIsSaved'
  BY <1>1, <1>2, <1>3, <1>4 DEF LifecycleInv, LoadedLiveIsSaved, Alive
<1>6. FifoUntilSaved'
  <2> SUFFICES ASSUME NEW c \in Creators,
                      pc[c] \in {"fifo", "config", "sync", "hooks", "save"},
                      saved = None, init[c] # "dead"
               PROVE  fifo' = c
    BY <1>2, <1>3, <1>4 DEF FifoUntilSaved
  <2>1. ~Quiet(c)
    BY DEF Quiet, Terminal
  <2> QED BY <1>2, <1>3, <2>1, RemoverHasLoaded
<1>7. DirOfCreate'
  BY <1>2, <1>3 DEF LifecycleInv, DirOfCreate
<1> QED BY <1>5, <1>6, <1>7 DEF LifecycleInv

LEMMA DeleteLifecycle ==
    ASSUME TypeOK, IndInv, LifecycleInv,
           \/ \E d \in Deleters : DeleteStep(d)
           \/ \E k \in Killers : KillSignal(k)
           \/ \E p \in Commands : Crash(p)
    PROVE  LifecycleInv'
<1>1. loaded \in [Commands -> Creators \cup {None}]
  BY DEF TypeOK
<1>2. /\ Creators \subseteq Commands /\ None \notin Creators /\ Loaders \subseteq Commands
      /\ Deleters \subseteq Loaders
  BY CommandsAreDisjoint DEF Commands, Loaders
<1>3. UNCHANGED <<loaded, init>> /\ \A c \in Creators : pc'[c] \in {pc[c], "crashed"}
  BY DeleteFrame, Zenon DEF IndInv
<1>4. /\ dir' \in {dir, None}
      /\ fifo' # fifo \/ saved' # saved => \E d \in Deleters : pc[d] = "removing"
      /\ \A d \in Deleters : pc'[d] = "done" => pc[d] = "done" \/ (~Quiet(d) /\ dir' = None)
  BY DeleteFiles, Zenon
<1>5. LoadedLiveIsSaved'
  <2> SUFFICES ASSUME NEW p \in Loaders, Alive(loaded[p]), saved' # saved PROVE FALSE
    BY <1>3 DEF LifecycleInv, LoadedLiveIsSaved, Alive
  <2>1. PICK d \in Deleters : pc[d] = "removing"
    BY <1>4
  <2>2. ~Alive(loaded[d]) /\ loaded[d] # None /\ saved \in {None, loaded[d]}
    BY <1>2, <2>1 DEF IndInv, DeletesDead, LoadedIsSaved, Quiet, Terminal
  <2>3. saved = loaded[p]
    BY DEF LifecycleInv, LoadedLiveIsSaved
  <2> QED BY <2>2, <2>3 DEF Alive
<1>6. FifoUntilSaved'
  <2> SUFFICES ASSUME NEW c \in Creators,
                      pc[c] \in {"fifo", "config", "sync", "hooks", "save"},
                      saved' = None, init[c] # "dead"
               PROVE  fifo' = c
    BY <1>3 DEF FifoUntilSaved
  <2>1. ~Quiet(c)
    BY DEF Quiet, Terminal
  <2>2. CASE fifo' = fifo /\ saved' = saved
    BY <2>2 DEF LifecycleInv, FifoUntilSaved
  <2>3. CASE fifo' # fifo \/ saved' # saved
    <3>1. PICK d \in Deleters : pc[d] = "removing"
      BY <1>4, <2>3
    <3>2. ~Alive(loaded[d]) /\ loaded[d] = c
      BY <1>2, <2>1, <3>1 DEF IndInv, DeletesDead, CreateOwns, Quiet, Terminal
    <3>3. init[c] # "none"
      BY <1>2, <3>2 DEF IndInv, InitFollowsCreate
    <3> QED BY <1>2, <3>2, <3>3 DEF Alive
  <2> QED BY <2>2, <2>3
<1>7. DirOfCreate'
  <2>1. ASSUME NEW c \in Creators, pc'[c] \in {"idle", "checked", "failed"} PROVE dir' # c
    BY <1>2, <1>3, <1>4, <2>1 DEF LifecycleInv, DirOfCreate
  <2>2. ASSUME NEW d \in Deleters, pc'[d] = "done" PROVE loaded[d] # None /\ dir' # loaded[d]
    <3>1. ~Quiet(d) => loaded[d] # None
      BY <1>2 DEF IndInv, LoadedIsSaved
    <3> QED BY <1>4, <2>2, <3>1 DEF LifecycleInv, DirOfCreate
  <2> QED BY <1>3, <2>1, <2>2 DEF DirOfCreate
<1> QED BY <1>5, <1>6, <1>7 DEF LifecycleInv

LEMMA StutterLifecycle == ASSUME LifecycleInv, UNCHANGED vars PROVE LifecycleInv'
  BY DEF vars, LifecycleInv, LoadedLiveIsSaved, FifoUntilSaved, DirOfCreate, Alive

LEMMA InitialLifecycle == Init => LifecycleInv
  BY SMT, CommandsAreDisjoint
  DEF Init, LifecycleInv, LoadedLiveIsSaved, FifoUntilSaved, DirOfCreate, Alive, Commands, Loaders

LEMMA LifecycleInvariant == ASSUME SerialReuse PROVE Spec => []LifecycleInv
<1>1. TypeOK /\ IndInv /\ LifecycleInv /\ [Next]_vars => LifecycleInv'
  <2> SUFFICES ASSUME TypeOK, IndInv, LifecycleInv, [Next]_vars PROVE LifecycleInv'
    OBVIOUS
  <2>1. CASE UNCHANGED vars
    BY <2>1, StutterLifecycle
  <2>2. CASE \E c \in Creators : CreateStat(c) \/ CreateStep(c) \/ InitStep(c) \/ InitExit(c)
    BY <2>2, BeginLifecycle, CreateLifecycle, InitLifecycle
  <2>3. CASE \E s \in Starters : Load(s) \/ StartStep(s)
    BY <2>3, BeginLifecycle, StartLifecycle DEF Loaders
  <2>4. CASE \E d \in Deleters : Load(d) \/ DeleteStep(d)
    BY <2>4, BeginLifecycle, DeleteLifecycle DEF Loaders
  <2>5. CASE \E k \in Killers : Load(k) \/ KillSignal(k)
    BY <2>5, BeginLifecycle, DeleteLifecycle DEF Loaders
  <2>6. CASE \E p \in Commands : Crash(p)
    BY <2>6, DeleteLifecycle
  <2> QED BY <2>1, <2>2, <2>3, <2>4, <2>5, <2>6 DEF Next
<1>2. QED BY <1>1, InitialLifecycle, InductiveInvariant, TypeCorrect, PTL DEF Spec

-----------------------------------------------------------------------------
(* The refinement.                                                         *)

\* The status follows the lifecycle if state.json appears with a FIFO or a dead
\* init, goes only when the init is dead, and meanwhile neither a dead init comes
\* to life nor a FIFO appears.
LEMMA StatusStep ==
    ASSUME \/ saved' = saved
           \/ saved = None /\ saved' # None /\ (Alive(saved)' => fifo' # None)
           \/ saved' = None /\ ~Alive(saved),
           saved' = saved /\ saved # None =>
               (Alive(saved)' => Alive(saved)) /\ fifo' \in {fifo, None}
    PROVE  [OCI!Next]_ObservedStatus
<1> USE DEF OCI!Next, OCI!Create, OCI!Start, OCI!Stop, OCI!Delete, ObservedStatus, RunType
<1>1. CASE saved' = saved /\ saved = None
  BY <1>1
<1>2. CASE saved' = saved /\ saved # None
  BY <1>2
<1>3. CASE saved = None /\ saved' # None /\ (Alive(saved)' => fifo' # None)
  BY <1>3
<1>4. CASE saved' = None /\ ~Alive(saved)
  BY <1>4
<1> QED BY <1>1, <1>2, <1>3, <1>4

LEMMA CreateRefines ==
    ASSUME TypeOK, IndInv, LifecycleInv, NEW c \in Creators, CreateStep(c)
    PROVE  [OCI!Next]_ObservedStatus
<1>1. /\ pc \in [Commands -> Phases] /\ init \in [Creators -> InitPhases]
      /\ saved \in Creators \cup {None}
  BY DEF TypeOK
<1>2. Creators \subseteq Commands /\ None \notin Creators
  BY CommandsAreDisjoint DEF Commands
<1>3. ~Quiet(c) /\ saved \in {None, c}
  BY <1>1, CreateFrame DEF IndInv, CreateOwns
<1>4. CASE saved' = saved
  <2>1. \/ pc[c] = "fifo" \/ init' = init \/ init' = [init EXCEPT ![c] = "dead"]
    BY <1>1, CreateFrame
  <2>2. pc[c] \in {"made", "fifo"} => saved = None
    BY <1>3 DEF IndInv, InitFollowsCreate
  <2>3. saved # None => (Alive(saved)' => Alive(saved))
    BY <1>1, <1>3, <1>4, <2>1, <2>2 DEF Alive
  <2>4. saved # None => fifo' \in {fifo, None}
    BY <1>1, <2>2, CreateFrame
  <2> QED BY <1>4, <2>3, <2>4, StatusStep
<1>5. CASE saved' # saved /\ pc[c] = "save"
  <2>1. saved' = c /\ saved = None
    BY <1>1, <1>3, <1>5, CreateFrame
  <2>2. fifo' = fifo /\ init' = init
    BY <1>1, <1>5, CreateFiles
  <2>3. Alive(c) => fifo = c
    BY <1>5, <2>1 DEF LifecycleInv, FifoUntilSaved, Alive
  <2>4. Alive(saved)' => fifo' # None
    BY <1>2, <2>1, <2>2, <2>3 DEF Alive
  <2> QED BY <1>2, <1>5, <2>1, <2>4, StatusStep
<1>6. CASE saved' # saved /\ pc[c] # "save"
  <2>1. pc[c] = "removing" /\ saved' = None
    BY <1>1, <1>6, CreateFrame
  <2>2. ~Alive(saved)
    BY <1>3, <2>1 DEF IndInv, InitFollowsCreate, Alive
  <2> QED BY <1>6, <2>1, <2>2, StatusStep
<1> QED BY <1>4, <1>5, <1>6

LEMMA OthersRefine ==
    ASSUME TypeOK, IndInv,
           \/ \E c \in Creators : CreateStat(c) \/ InitStep(c) \/ InitExit(c)
           \/ \E s \in Starters : StartStep(s)
           \/ \E p \in Loaders : Load(p)
    PROVE  [OCI!Next]_ObservedStatus
<1>1. /\ pc \in [Commands -> Phases] /\ init \in [Creators -> InitPhases]
      /\ fd \in [Creators \cup Starters -> Creators \cup {None}]
      /\ down \in [Creators -> Seq(Messages)] /\ saved \in Creators \cup {None}
  BY DEF TypeOK
<1>2. ASSUME NEW c \in Creators, InitStep(c) \/ InitExit(c)
      PROVE  /\ saved' = saved /\ fifo' = fifo
             /\ \A e \in Creators : init'[e] = init[e] \/ init[e] \notin {"none", "dead"}
  BY <1>1, <1>2, InitFrame
<1>3. ASSUME NEW s \in Starters, StartStep(s)
      PROVE  /\ saved' = saved /\ fifo' \in {fifo, None}
             /\ \A e \in Creators : init'[e] = init[e] \/ init[e] \notin {"none", "dead"}
  BY <1>1, <1>3, StartFrame
<1>4. ASSUME \/ \E c \in Creators : CreateStat(c)
             \/ \E p \in Loaders : Load(p)
      PROVE  saved' = saved /\ fifo' = fifo /\ init' = init
  BY <1>4 DEF CreateStat, Load, files, inits
<1>5. /\ saved' = saved /\ fifo' \in {fifo, None}
      /\ \A e \in Creators : init'[e] = init[e] \/ init[e] \notin {"none", "dead"}
  BY <1>2, <1>3, <1>4
<1>6. saved # None => (Alive(saved)' => Alive(saved))
  BY <1>1, <1>5 DEF Alive
<1> QED BY <1>5, <1>6, StatusStep

LEMMA DeleteRefines ==
    ASSUME TypeOK, IndInv,
           \/ \E d \in Deleters : DeleteStep(d)
           \/ \E k \in Killers : KillSignal(k)
           \/ \E p \in Commands : Crash(p)
    PROVE  [OCI!Next]_ObservedStatus
<1>1. /\ init' = init /\ fifo' \in {fifo, None}
      /\ saved' = saved \/ \E d \in Deleters : pc[d] = "removing" /\ saved' = None
  BY DeleteFrame DEF IndInv
<1>2. CASE saved' = saved
  BY <1>1, <1>2, StatusStep DEF Alive
<1>3. ASSUME NEW d \in Deleters, pc[d] = "removing", saved' = None
      PROVE  [OCI!Next]_ObservedStatus
  <2>1. d \in Loaders /\ ~Quiet(d)
    BY <1>3 DEF Loaders, Quiet, Terminal
  <2>2. ~Alive(saved)
    BY <1>3, <2>1 DEF IndInv, LoadedIsSaved, DeletesDead, Alive
  <2> QED BY <1>3, <2>2, StatusStep
<1> QED BY <1>1, <1>2, <1>3

\* If the ID is created again only while it is quiet, what runu state reports
\* follows the OCI lifecycle: a container is first seen created or stopped, a
\* created one may run, a running one stops, and only a stopped one goes away.
THEOREM RefinesLifecycle == ASSUME SerialReuse PROVE Spec => ImplementsOCI
<1>1. Init => OCI!Init
  BY DEF Init, OCI!Init, ObservedStatus
<1>2. TypeOK /\ IndInv /\ LifecycleInv /\ [Next]_vars => [OCI!Next]_ObservedStatus
  <2> SUFFICES ASSUME TypeOK, IndInv, LifecycleInv, [Next]_vars
               PROVE  [OCI!Next]_ObservedStatus
    OBVIOUS
  <2>1. CASE UNCHANGED vars
    BY <2>1 DEF vars, ObservedStatus, RunType, Alive
  <2>2. CASE \E c \in Creators : CreateStat(c) \/ CreateStep(c) \/ InitStep(c) \/ InitExit(c)
    BY <2>2, CreateRefines, OthersRefine
  <2>3. CASE \E s \in Starters : Load(s) \/ StartStep(s)
    BY <2>3, OthersRefine DEF Loaders
  <2>4. CASE \E d \in Deleters : Load(d) \/ DeleteStep(d)
    BY <2>4, OthersRefine, DeleteRefines DEF Loaders
  <2>5. CASE \E k \in Killers : Load(k) \/ KillSignal(k)
    BY <2>5, OthersRefine, DeleteRefines DEF Loaders
  <2>6. CASE \E p \in Commands : Crash(p)
    BY <2>6, DeleteRefines
  <2> QED BY <2>1, <2>2, <2>3, <2>4, <2>5, <2>6 DEF Next
<1>3. QED
  BY <1>1, <1>2, TypeCorrect, InductiveInvariant, LifecycleInvariant, PTL
  DEF Spec, ImplementsOCI, OCI!Spec

\* bootstrapContainer and delete: a create that fails and a delete that succeeds
\* leave neither the directory nor a live init of their container.
THEOREM LeavesNothing == ASSUME SerialReuse PROVE Spec => []NothingLeftBehind
<1>1. IndInv /\ LifecycleInv => NothingLeftBehind
  BY DEF IndInv, InitFollowsCreate, DeletesDead, LifecycleInv, DirOfCreate, NothingLeftBehind
<1>2. QED BY <1>1, InductiveInvariant, LifecycleInvariant, PTL

=============================================================================
