---------------------------- MODULE ParaProgress ----------------------------
(***************************************************************************)
(* The progress bars behind `kraft pkg pull`, `fetch`, `build` and `pkg`:  *)
(* a bubbletea program that runs a list of processes, all at once or one   *)
(* after the other.                                                        *)
(*                                                                         *)
(* Every process has two goroutines: one sends the message that it runs,   *)
(* the other calls it, writes its status, and then sends the status.  The  *)
(* messages of different goroutines reach the event loop in any order; a   *)
(* goroutine that reports progress waits until the loop has taken it.      *)
(***************************************************************************)
EXTENDS Naturals, FiniteSets

CONSTANTS
    N,         \* the number of processes
    Options    \* the options that are run

ASSUME NAssumption == N \in Nat \ {0}
ASSUME OptionsAssumption == Options \subseteq [parallel : BOOLEAN, failFast : BOOLEAN, timeout : BOOLEAN]

Processes == 1..N
Statuses == {"Pending", "Running", "Failed", "Success"}

VARIABLES
    opt, curr, err, quitting,
    Status,
    percent,   \* the processes at 100%
    go,        \* the goroutine that calls a process
    failed,    \* the processes that have returned an error
    msgs,      \* the messages on their way to the event loop
    quit,      \* whether a Quit message is one of them
    ended,     \* whether Start has returned
    expired,   \* the processes whose timer has passed the timeout
    full, late \* history: who reported 100%; whose Running message came after its return

vars == <<opt, curr, err, quitting, Status, percent, go, failed, msgs, quit, ended, expired, full, late>>
loopVars == <<opt, curr, err, quitting, percent, quit, ended, expired, late>>

StatusMsg(p, status, error) == [id |-> p, status |-> status, err |-> error]
ProgressMsg(p, progress) == [id |-> p, progress |-> progress]
Message ==
    [id : Processes, status : Statuses, err : BOOLEAN] \cup [id : Processes, progress : {"part", "full"}]

\* Start: a goroutine for the message, a goroutine for the process.
Starting(S) == {StatusMsg(p, "Running", FALSE) : p \in S}

Init ==
    /\ opt \in Options /\ curr = 1 /\ err = "nil" /\ quitting = FALSE
    /\ Status = [p \in Processes |-> "Pending"] /\ percent = {} /\ failed = {}
    /\ LET first == IF opt.parallel THEN Processes ELSE {1} IN
       /\ go = [p \in Processes |-> IF p \in first THEN "run" ELSE "idle"] /\ msgs = Starting(first)
    /\ quit = FALSE /\ ended = FALSE /\ expired = {} /\ full = {} /\ late = {}

----------------------------------------------------------------------------
(* The goroutine of a process.  (What it does once Start has returned is   *)
(* left out.)                                                              *)

\* onProgress: the call returns when the event loop has taken the message.
Report(p, progress) ==
    /\ go[p] = "run" /\ ~ended /\ go' = [go EXCEPT ![p] = "report"]
    /\ msgs' = msgs \cup {ProgressMsg(p, progress)}
    /\ full' = IF progress = "full" THEN full \cup {p} ELSE full
    /\ UNCHANGED <<loopVars, Status, failed>>

Return(p, status) ==
    /\ go[p] = "run" /\ ~ended /\ go' = [go EXCEPT ![p] = "send"]
    /\ Status' = [Status EXCEPT ![p] = status]
    /\ failed' = IF status = "Failed" THEN failed \cup {p} ELSE failed
    /\ UNCHANGED <<loopVars, msgs, full>>

\* Variant of Send: the error is not passed on.
SendWithoutError(p) ==
    /\ go[p] = "send" /\ ~ended /\ go' = [go EXCEPT ![p] = "done"]
    /\ msgs' = msgs \cup {StatusMsg(p, Status[p], FALSE)}
    /\ UNCHANGED <<loopVars, Status, failed, full>>

\* The message takes the status the process has by now: the event loop may have
\* written another one.
Send(p) ==
    /\ go[p] = "send" /\ ~ended /\ go' = [go EXCEPT ![p] = "done"]
    /\ msgs' = msgs \cup {StatusMsg(p, Status[p], p \in failed)}
    /\ UNCHANGED <<loopVars, Status, failed, full>>

----------------------------------------------------------------------------
(* The event loop                                                          *)

\* Variant of Complete: the last process speaks for all.
CompleteLast == Status'[N] \in {"Failed", "Success"} \/ N \in percent'

\* The end of Update: quit when every process is complete.
Complete == \A p \in Processes : Status'[p] \in {"Failed", "Success"} \/ p \in percent'

\* Variant of Advances: any message of a serial program starts the next process.
AdvancesAlways(m) == ~(m.err /\ opt.failFast) /\ ~opt.parallel

\* Variant of Advances: a failure is not gone past, with failFast or without.
AdvancesOnSuccess(m) == m.status = "Success" /\ ~opt.parallel

\* A serial program goes on to the next process; without failFast also when one
\* has failed, or has just been started.
Advances(m) == ~(m.err /\ opt.failFast) /\ (~opt.failFast \/ m.status = "Success") /\ ~opt.parallel

HandleStatus(m) ==
    /\ m \in msgs /\ "status" \in DOMAIN m /\ ~ended
    /\ err' = IF m.err THEN "process" ELSE err
    /\ curr' = IF Advances(m) THEN curr + 1 ELSE curr
    /\ LET next == IF Advances(m) THEN {curr'} \cap Processes ELSE {} IN
       /\ go' = [p \in Processes |-> IF p \in next THEN "run" ELSE go[p]]
       /\ msgs' = (msgs \ {m}) \cup Starting(next)
    /\ Status' = [Status EXCEPT ![m.id] = m.status]
    /\ percent' = IF m.status = "Success" THEN percent \cup {m.id} ELSE percent
    /\ LET out == (m.err /\ opt.failFast) \/ Complete
       IN  quitting' = (quitting \/ out) /\ quit' = (quit \/ out)
    /\ late' = IF m.status = "Running" /\ go[m.id] \in {"send", "done"} THEN late \cup {m.id} ELSE late
    /\ UNCHANGED <<opt, failed, ended, expired, full>>

HandleProgress(m) ==
    /\ m \in msgs /\ "progress" \in DOMAIN m /\ ~ended /\ msgs' = msgs \ {m}
    /\ percent' = IF m.progress = "full" THEN percent \cup {m.id} ELSE percent \ {m.id}
    /\ go' = [go EXCEPT ![m.id] = "run"] /\ UNCHANGED Status
    /\ quitting' = (quitting \/ Complete) /\ quit' = (quit \/ Complete)
    /\ UNCHANGED <<opt, curr, err, failed, ended, expired, full, late>>

\* The timer of a process passes the timeout, which a tick of the spinner finds.
Elapse(p) ==
    /\ opt.timeout /\ ~ended /\ go[p] # "idle" /\ expired' = expired \cup {p}
    /\ UNCHANGED <<opt, curr, err, quitting, Status, percent, go, failed, msgs, quit, ended, full, late>>
Tick ==
    /\ ~ended /\ Status' = [p \in Processes |-> IF p \in expired THEN "Failed" ELSE Status[p]]
    /\ UNCHANGED percent
    /\ LET out == expired # {} \/ Complete IN quitting' = (quitting \/ Complete) /\ quit' = (quit \/ out)
    /\ UNCHANGED <<opt, curr, err, go, failed, msgs, ended, expired, full, late>>

CtrlC ==
    /\ ~ended /\ quitting' = TRUE /\ err' = "force quit" /\ quit' = TRUE
    /\ UNCHANGED <<opt, curr, Status, percent, go, failed, msgs, ended, expired, full, late>>

\* Start returns what is in err.
Quit ==
    /\ quit /\ ~ended /\ ended' = TRUE
    /\ UNCHANGED <<opt, curr, err, quitting, Status, percent, go, failed, msgs, quit, expired, full, late>>

Next ==
    \/ \E p \in Processes : \/ \E progress \in {"part", "full"} : Report(p, progress)
                            \/ \E status \in {"Success", "Failed"} : Return(p, status)
                            \/ Send(p) \/ Elapse(p)
    \/ \E m \in msgs : HandleStatus(m) \/ HandleProgress(m)
    \/ Tick \/ CtrlC \/ Quit

\* Processes return, goroutines run, and the event loop takes every message.
Fairness ==
    /\ \A p \in Processes : /\ SF_vars(\E status \in {"Success", "Failed"} : Return(p, status))
                            /\ WF_vars(Send(p))
    /\ \A m \in Message : WF_vars(HandleStatus(m) \/ HandleProgress(m))
    /\ WF_vars(Quit)

Spec == Init /\ [][Next]_vars /\ Fairness

----------------------------------------------------------------------------
(* Properties                                                              *)

\* Every variable keeps its type.
TypeOK ==
    /\ opt \in Options /\ curr \in 1..2 * N + 1 /\ err \in {"nil", "process", "force quit"}
    /\ Status \in [Processes -> Statuses] /\ percent \subseteq Processes /\ msgs \subseteq Message
    /\ go \in [Processes -> {"idle", "run", "report", "send", "done"}]
    /\ failed \subseteq Processes /\ quitting \in BOOLEAN /\ quit \in BOOLEAN /\ ended \in BOOLEAN

Returned(p) == go[p] \in {"send", "done"}

\* With failFast a serial program calls a process only when all before it have
\* returned without an error, so that nothing runs beside it or after a failure
\* (Update 192-205).
SerialInOrder ==
    opt.failFast /\ ~opt.parallel =>
        \A p \in Processes : go[p] # "idle" => \A q \in 1..p - 1 : Returned(q) /\ q \notin failed

\* Start returns without an error only when every process has returned or has
\* reported 100%, unless a timeout made it quit (Update 207-236).
NilMeansReported ==
    [][Quit /\ err = "nil" /\ expired = {} => \A p \in Processes : Returned(p) \/ p \in full]_vars

\* An error that Start does not return is one whose message the loop had not
\* taken when it quit (Update 193-195, Process.Start 134-146).
FailureReported ==
    [][Quit /\ err = "nil" =>
         \A p \in failed : go[p] = "send" \/ \E s \in Statuses : StatusMsg(p, s, TRUE) \in msgs]_vars

\* When the processes return the program ends, unless the message that a process
\* runs is taken after it has returned and hides its result (Process.Update 222-234).
Ends == <>(ended \/ late # {})

============================================================================
