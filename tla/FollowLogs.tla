----------------------------- MODULE FollowLogs -----------------------------
(***************************************************************************)
(* An attended `kraft start --rm` (or `kraft run --rm`): FollowLogs prints  *)
(* the machine's log until the machine ends, and the command then stops and *)
(* removes it.  Four goroutines share a context: the tail of the log file   *)
(* (LogTail, here by lines), the driver's monitor of QMP events, FollowLogs *)
(* itself and its watcher.  Channels are unbuffered: a send and its receive *)
(* are one step, taken by the receiver.                                     *)
(***************************************************************************)
EXTENDS Naturals

CONSTANTS Preamble,   \* lines that Logs consumes before it returns
          MaxLines    \* bound on the lines written

ASSUME LinesAssumption == MaxLines \in Nat /\ Preamble \in 1 .. MaxLines

VARIABLES
    vm,          \* QEMU: running, closing (its sockets are closed), gone
    event,       \* the last event QEMU sends: shutdown, panic, or none when it is killed
    written,     \* lines in the log file
    note,        \* Write notifications waiting for the tail
    tail,        \* the tail's goroutine
    tailCatchUp, \* it is reading what was there at first
    read,        \* lines it has taken from the file
    mon,         \* the monitor's goroutine
    firstCall,   \* it has not sent the current state yet
    offer,       \* what it is sending
    watch,       \* the watcher's goroutine
    main,        \* FollowLogs and the command around it
    shown,       \* lines received from the tail
    eof, exitErr,
    ctxDone,     \* the context is cancelled
    interrupted, \* by the user
    result,      \* what FollowLogs returned
    sawPanic     \* the watcher was told of a panic (history)

machine == <<vm, event, written>>
tailing == <<tail, tailCatchUp, read>>
monitor == <<mon, firstCall, offer>>
outcome == <<result, sawPanic>>
followVars == <<machine, note, tailing, monitor, watch, main, shown, eof, exitErr, ctxDone, interrupted, outcome>>

FollowInit ==
    /\ vm = "running" /\ event = "none" /\ written = 0 /\ note = 0
    /\ tail = "off" /\ tailCatchUp = TRUE /\ read = 0
    /\ mon = "off" /\ firstCall = TRUE /\ offer = "none"
    /\ watch = "off" /\ main = "list" /\ shown = 0 /\ eof = FALSE /\ exitErr = FALSE
    /\ ctxDone = FALSE /\ interrupted = FALSE /\ result = "none" /\ sawPanic = FALSE

----------------------------------------------------------------------------
(* QEMU and the user                                                       *)

\* A line is written; its notification may be merged with a waiting one.
WriteLine ==
    /\ vm = "running" /\ written < MaxLines /\ written' = written + 1
    /\ note' \in {note, note + 1} \cap 1 .. 2
    /\ UNCHANGED <<vm, event, tailing, monitor, watch, main, shown, eof, exitErr, ctxDone, interrupted, outcome>>
Exit ==
    /\ vm = "running" /\ vm' = "closing" /\ event' \in {"shutdown", "panic", "none"}
    /\ UNCHANGED <<written, note, tailing, monitor, watch, main, shown, eof, exitErr, ctxDone, interrupted, outcome>>
Gone ==
    /\ vm = "closing" /\ vm' = "gone"
    /\ UNCHANGED <<event, written, note, tailing, monitor, watch, main, shown, eof, exitErr, ctxDone, interrupted, outcome>>
Interrupt ==
    /\ main \in {"logs", "loop"} /\ ~interrupted /\ interrupted' = TRUE /\ ctxDone' = TRUE
    /\ UNCHANGED <<machine, note, tailing, monitor, watch, main, shown, eof, exitErr, outcome>>

\* What Get reports: while QEMU closes its sockets it may also fail.
Reported == CASE vm = "running" -> {"running"}
              [] vm = "closing" -> {"exited", "error"}
              [] vm = "gone"    -> {"exited"}

----------------------------------------------------------------------------
(* The tail                                                                *)

TailRead ==
    /\ tail = "read"
    /\ \/ read < written /\ tail' = "line" /\ read' = read + 1
       \/ read = written /\ tail' = "eof" /\ UNCHANGED read
    /\ UNCHANGED <<machine, note, tailCatchUp, monitor, watch, main, shown, eof, exitErr, ctxDone, interrupted, outcome>>
TailNotified ==
    /\ tail = "select" /\ note > 0 /\ note' = note - 1 /\ tail' = "read"
    /\ UNCHANGED <<machine, tailCatchUp, read, monitor, watch, main, shown, eof, exitErr, ctxDone, interrupted, outcome>>
TailCancelled ==
    /\ tail = "select" /\ ctxDone /\ tail' = "ctxerr"
    /\ UNCHANGED <<machine, note, tailCatchUp, read, monitor, watch, main, shown, eof, exitErr, ctxDone, interrupted, outcome>>

\* What the receiver of a line, of io.EOF or of ctx.Err() lets the tail do next.
LineSent == tail = "line" /\ tail' = (IF tailCatchUp THEN "read" ELSE "select") /\ UNCHANGED <<tailCatchUp, read>>
EOFSent == tail = "eof" /\ tail' = "select" /\ tailCatchUp' = FALSE /\ UNCHANGED read
ErrSent == tail = "ctxerr" /\ tail' = "done" /\ UNCHANGED <<tailCatchUp, read>>

----------------------------------------------------------------------------
(* The driver's monitor (Watch)                                            *)

MonCancelled ==
    /\ mon = "get" /\ ctxDone /\ mon' = "done"
    /\ UNCHANGED <<machine, note, tailing, firstCall, offer, watch, main, shown, eof, exitErr, ctxDone, interrupted, outcome>>
MonGet ==
    /\ mon = "get" /\ ~ctxDone
    /\ \E st \in Reported :
           \/ st = "error" /\ mon' = "send" /\ offer' = "error" /\ UNCHANGED firstCall
           \/ st # "error" /\ firstCall /\ mon' = "send" /\ offer' = st /\ firstCall' = FALSE
           \/ st # "error" /\ ~firstCall /\ mon' = "accept" /\ UNCHANGED <<offer, firstCall>>
    /\ UNCHANGED <<machine, note, tailing, watch, main, shown, eof, exitErr, ctxDone, interrupted, outcome>>
MonAccept ==
    /\ mon = "accept" /\ vm # "running" /\ mon' = "send"
    /\ offer' = (CASE event = "shutdown" -> "exited" [] event = "panic" -> "errored" [] OTHER -> "error")
    /\ UNCHANGED <<machine, note, tailing, firstCall, watch, main, shown, eof, exitErr, ctxDone, interrupted, outcome>>

----------------------------------------------------------------------------
(* The watcher                                                             *)

\* Watch connects, or fails because QEMU has gone.
WatchOpen ==
    /\ watch = "open" /\ vm = "running" /\ watch' = "loop" /\ mon' = "get"
    /\ UNCHANGED <<machine, note, tailing, firstCall, offer, main, shown, eof, exitErr, ctxDone, interrupted, outcome>>

\* eof is shared without synchronisation: a stale value may be read.
WatchFailsAtEOF ==
    /\ watch = "open" /\ vm # "running" /\ eof /\ ctxDone' = TRUE /\ watch' = "done"
    /\ UNCHANGED <<machine, note, tailing, monitor, main, shown, eof, exitErr, interrupted, outcome>>

\* Variant of WatchFails: the context is cancelled only if Get failed.
WatchFailsUncancelled ==
    /\ watch = "open" /\ vm # "running"
    /\ \E st \in Reported : watch' = (IF st = "exited" THEN "done" ELSE "fail") /\ ctxDone' = (ctxDone \/ st = "error")
    /\ UNCHANGED <<machine, note, tailing, monitor, main, shown, eof, exitErr, interrupted, outcome>>

\* The condition after Get tests the error of Watch: the context is cancelled always.
WatchFails ==
    /\ watch = "open" /\ vm # "running" /\ ctxDone' = TRUE
    /\ \E st \in Reported : watch' = (IF st = "exited" THEN "done" ELSE "fail")
    /\ UNCHANGED <<machine, note, tailing, monitor, main, shown, eof, exitErr, interrupted, outcome>>

\* exitErr is set after the context has been cancelled.
WatchSetErr ==
    /\ watch = "fail" /\ watch' = "done" /\ exitErr' = TRUE
    /\ UNCHANGED <<machine, note, tailing, monitor, main, shown, eof, ctxDone, interrupted, outcome>>

\* Variant of WatchEvent: exitErr is set after the context has been cancelled.
WatchEventCancelsFirst ==
    /\ watch = "loop" /\ mon = "send"
    /\ \/ offer = "running" /\ mon' = "get" /\ UNCHANGED <<watch, exitErr, ctxDone, sawPanic>>
       \/ /\ offer # "running" /\ ctxDone' = TRUE /\ mon' = (IF offer = "error" THEN "get" ELSE "done")
          /\ watch' = (IF offer = "exited" THEN "done" ELSE "fail")
          /\ sawPanic' = (offer = "errored") /\ UNCHANGED exitErr
    /\ UNCHANGED <<machine, note, tailing, firstCall, offer, main, shown, eof, interrupted, result>>

\* A state or an error of the monitor.  The end of the machine cancels the context.
WatchEvent ==
    /\ watch = "loop" /\ mon = "send"
    /\ \/ offer = "running" /\ mon' = "get" /\ UNCHANGED <<watch, exitErr, ctxDone, sawPanic>>
       \/ /\ offer # "running" /\ ctxDone' = TRUE /\ watch' = "done"
          /\ mon' = (IF offer = "error" THEN "get" ELSE "done")
          /\ exitErr' = (offer # "exited") /\ sawPanic' = (offer = "errored")
    /\ UNCHANGED <<machine, note, tailing, firstCall, offer, main, shown, eof, interrupted, result>>
WatchCancelled ==
    /\ watch = "loop" /\ ctxDone /\ watch' = "done"
    /\ UNCHANGED <<machine, note, tailing, monitor, main, shown, eof, exitErr, ctxDone, interrupted, outcome>>

----------------------------------------------------------------------------
(* FollowLogs and the command                                              *)

\* LogOptions.Run: a machine listed as running is followed, the log of another is copied.
Follow ==
    /\ main = "list" /\ vm = "running" /\ main' = "logs" /\ watch' = "open" /\ tail' = "read"
    /\ UNCHANGED <<machine, note, tailCatchUp, read, monitor, shown, eof, exitErr, ctxDone, interrupted, outcome>>
Copy ==
    /\ main = "list" /\ vm # "running" /\ main' = "returned" /\ result' = "ok" /\ shown' = written
    /\ UNCHANGED <<machine, note, tailing, monitor, watch, eof, exitErr, ctxDone, interrupted, sawPanic>>

Return(r) == main' = "returned" /\ result' = r

\* Logs trims the preamble before it returns.
MainLine ==
    /\ main \in {"logs", "loop"} /\ LineSent /\ shown' = shown + 1
    /\ main' = IF shown + 1 >= Preamble THEN "loop" ELSE main
    /\ UNCHANGED <<machine, note, monitor, watch, eof, exitErr, ctxDone, interrupted, outcome>>
MainEOF ==
    /\ main \in {"logs", "loop"} /\ EOFSent /\ eof' = (eof \/ main = "loop")
    /\ UNCHANGED <<machine, note, monitor, watch, main, shown, exitErr, ctxDone, interrupted, outcome>>
MainErr ==
    /\ main \in {"logs", "loop"} /\ ErrSent /\ Return("error") /\ eof' = (eof \/ main = "loop")
    /\ UNCHANGED <<machine, note, monitor, watch, shown, exitErr, ctxDone, interrupted, sawPanic>>
LogsCancelled ==
    /\ main = "logs" /\ ctxDone /\ main' = "loop"
    /\ UNCHANGED <<machine, note, tailing, monitor, watch, shown, eof, exitErr, ctxDone, interrupted, outcome>>
MainCancelled ==
    /\ main = "loop" /\ ctxDone /\ Return(IF exitErr THEN "error" ELSE "ok")
    /\ UNCHANGED <<machine, note, tailing, monitor, watch, shown, eof, exitErr, ctxDone, interrupted, sawPanic>>

\* Start: an error ends the command; otherwise the machine is stopped and removed.
Cleanup ==
    /\ main = "returned" /\ main' = (IF result = "ok" THEN "removed" ELSE "failed")
    /\ UNCHANGED <<machine, note, tailing, monitor, watch, shown, eof, exitErr, ctxDone, interrupted, outcome>>

TailLineStep == TailRead \/ TailNotified \/ TailCancelled
MonStep == MonCancelled \/ MonGet \/ MonAccept
WatchStep == WatchOpen \/ WatchFailsAtEOF \/ WatchFails \/ WatchSetErr \/ WatchEvent \/ WatchCancelled
MainStep == Follow \/ Copy \/ MainLine \/ MainEOF \/ MainErr \/ LogsCancelled \/ MainCancelled \/ Cleanup

FollowNext == WriteLine \/ Exit \/ Gone \/ Interrupt \/ TailLineStep \/ MonStep \/ WatchStep \/ MainStep

\* Every goroutine is scheduled; a closing QEMU goes.  The guest need not write or end.
FollowSpec ==
    /\ FollowInit /\ [][FollowNext]_followVars
    /\ WF_followVars(TailLineStep) /\ WF_followVars(MonStep) /\ WF_followVars(WatchStep)
    /\ WF_followVars(MainStep) /\ WF_followVars(Gone)

----------------------------------------------------------------------------
(* Properties                                                              *)

\* Every variable keeps its type.
FollowTypeOK ==
    /\ vm \in {"running", "closing", "gone"} /\ event \in {"none", "shutdown", "panic"}
    /\ written \in 0 .. MaxLines /\ read \in 0 .. written /\ shown \in 0 .. written /\ note \in 0 .. 2
    /\ tail \in {"off", "read", "line", "eof", "select", "ctxerr", "done"}
    /\ mon \in {"off", "get", "send", "accept", "done"}
    /\ offer \in {"none", "running", "exited", "errored", "error"}
    /\ watch \in {"off", "open", "loop", "fail", "done"}
    /\ main \in {"list", "logs", "loop", "returned", "removed", "failed"}
    /\ result \in {"none", "ok", "error"}
    /\ {tailCatchUp, firstCall, eof, exitErr, ctxDone, interrupted, sawPanic} \subseteq BOOLEAN

\* Once the machine has ended, or the user has interrupted it, the command ends,
\* whatever the order in which the goroutines learn of it (FollowLogs, Watch, Logs).
FollowEnds == (vm = "gone" \/ interrupted) ~> main \in {"removed", "failed"}

\* A panic the watcher was told of is not reported as success, unless the user
\* interrupted first (the order of exitErr and cancel in FollowLogs).
PanicIsReported == (sawPanic /\ result = "ok") => interrupted

\* With --rm a machine that shuts down is removed ("Automatically remove the
\* unikernel when it shutsdown"), unless the user interrupts.
ShutdownIsRemoved == (vm = "gone" /\ event = "shutdown") ~> (main = "removed" \/ interrupted)

=============================================================================
