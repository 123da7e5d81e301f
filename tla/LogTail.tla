------------------------------ MODULE LogTail ------------------------------
(***************************************************************************)
(* Following a machine's log file (internal/logtail): the file grows in     *)
(* pieces that need not end at a line's end, inotify merges notifications   *)
(* that nobody has read yet, and the tail reads the file through a buffer.  *)
(* Bytes are letters, "nl" and "nul".  The consumer always receives.        *)
(***************************************************************************)
EXTENDS Integers, Sequences, FiniteSets

CONSTANTS Existing,   \* what the file may hold when the tail is opened
          Chunks,     \* what one write may append
          MaxLen      \* bound on the file's length

ASSUME ConstantsAssumption ==
    MaxLen \in Nat /\ \A f \in Existing \cup Chunks : f \in Seq(STRING)

VARIABLES
    file,      \* the bytes of the log file
    queued,    \* the kernel holds a Write notification
    held,      \* fsnotify holds one for the tail
    ctx,       \* the context is cancelled
    pc,        \* the tail's goroutine
    catchUp,   \* it is still reading what was there at first
    pos,       \* its offset in the file
    buf,       \* the bytes read and not consumed
    s,         \* what ReadBytes has gathered
    discarded, \* the NUL bytes skipped before the line
    out,       \* the lines sent
    initial    \* the number of lines at the start (history)

vars == <<file, queued, held, ctx, pc, catchUp, pos, buf, s, discarded, out, initial>>
notify == <<queued, held>>
reader == <<catchUp, pos, buf, s, discarded>>

Ends(f) == {i \in 1 .. Len(f) : f[i] = "nl"}
NthEnd(f, k) == IF k = 0 THEN 0
                ELSE CHOOSE e \in Ends(f) : Cardinality({x \in Ends(f) : x <= e}) = k
NulPrefix(f) == IF \E i \in 1 .. Len(f) : f[i] # "nul"
                THEN (CHOOSE i \in 1 .. Len(f) : f[i] # "nul" /\ \A j \in 1 .. i - 1 : f[j] = "nul") - 1
                ELSE Len(f)
Drop(f, n) == SubSeq(f, n + 1, Len(f))

\* The k-th complete line of the file.
Line(k) == SubSeq(file, NthEnd(file, k - 1) + 1, NthEnd(file, k) - 1)

Init ==
    /\ file \in Existing /\ queued = FALSE /\ held = FALSE /\ ctx = FALSE
    /\ pc = "peek" /\ catchUp = TRUE /\ pos = 0 /\ buf = <<>> /\ s = <<>> /\ discarded = 0
    /\ out = <<>> /\ initial = Cardinality(Ends(file))

----------------------------------------------------------------------------
(* The machine, the kernel and the caller                                  *)

\* The notification of a write is merged with one that is still queued.
Write(chunk) ==
    /\ Len(file) + Len(chunk) <= MaxLen /\ file' = file \o chunk /\ queued' = TRUE
    /\ UNCHANGED <<held, ctx, pc, reader, out, initial>>
Fetch ==
    /\ queued /\ ~held /\ queued' = FALSE /\ held' = TRUE
    /\ UNCHANGED <<file, ctx, pc, reader, out, initial>>
Cancel == ~ctx /\ ctx' = TRUE /\ UNCHANGED <<file, notify, pc, reader, out, initial>>

----------------------------------------------------------------------------
(* The tail                                                                *)

\* Peek fills the buffer; the NULs at its head are discarded.
Peek ==
    /\ pc = "peek" /\ pc' = "read" /\ s' = <<>> /\ pos' = Len(file)
    /\ LET b == buf \o Drop(file, pos)
       IN buf' = Drop(b, NulPrefix(b)) /\ discarded' = NulPrefix(b)
    /\ UNCHANGED <<file, notify, ctx, catchUp, out, initial>>

\* ReadBytes: up to a newline, filling the buffer as long as the file goes on.
ReadLine ==
    /\ pc = "read" /\ Ends(buf) # {}
    /\ LET e == NthEnd(buf, 1)
       IN s' = s \o SubSeq(buf, 1, e) /\ buf' = Drop(buf, e)
    /\ pc' = "line"
    /\ UNCHANGED <<file, notify, ctx, catchUp, pos, discarded, out, initial>>
ReadMore ==
    /\ pc = "read" /\ Ends(buf) = {} /\ pos < Len(file)
    /\ s' = s \o buf /\ buf' = Drop(file, pos) /\ pos' = Len(file)
    /\ UNCHANGED <<file, notify, ctx, pc, catchUp, discarded, out, initial>>

\* Variant of ReadEOF: the offset is not moved back over the unfinished line.
ReadEOFNoSeek ==
    /\ pc = "read" /\ Ends(buf) = {} /\ pos = Len(file)
    /\ s' = s \o buf /\ buf' = <<>> /\ pc' = "eof"
    /\ UNCHANGED <<file, notify, ctx, catchUp, pos, discarded, out, initial>>

\* The end of the file: the unfinished line is given back.
ReadEOF ==
    /\ pc = "read" /\ Ends(buf) = {} /\ pos = Len(file)
    /\ s' = s \o buf /\ buf' = <<>> /\ pos' = pos - Len(s \o buf) /\ pc' = "eof"
    /\ UNCHANGED <<file, notify, ctx, catchUp, discarded, out, initial>>

\* Variant of Continue: the tail waits after the first line.
ContinueOnce == pc' = "select" /\ catchUp' = FALSE

\* After a line the first loop goes on; afterwards one notification is one call.
Continue == pc' = (IF catchUp THEN "peek" ELSE "select") /\ UNCHANGED catchUp

SendLine ==
    /\ pc = "line" /\ Continue
    /\ out' = IF Len(s) > discarded THEN Append(out, SubSeq(s, discarded + 1, Len(s) - 1)) ELSE out
    /\ UNCHANGED <<file, notify, ctx, pos, buf, s, discarded, initial>>
SendEOF ==
    /\ pc = "eof" /\ pc' = "select" /\ catchUp' = FALSE
    /\ UNCHANGED <<file, notify, ctx, pos, buf, s, discarded, out, initial>>

Notified ==
    /\ pc = "select" /\ held /\ held' = FALSE /\ pc' = "peek"
    /\ UNCHANGED <<file, queued, ctx, reader, out, initial>>
Cancelled ==
    /\ pc = "select" /\ ctx /\ pc' = "done"
    /\ UNCHANGED <<file, notify, ctx, reader, out, initial>>

TailStep == Peek \/ ReadLine \/ ReadMore \/ ReadEOF \/ SendLine \/ SendEOF \/ Notified \/ Cancelled

Next == (\E chunk \in Chunks : Write(chunk)) \/ Fetch \/ Cancel \/ TailStep

\* The goroutines of fsnotify and of the tail are scheduled; writes need not come.
Spec == Init /\ [][Next]_vars /\ WF_vars(Fetch) /\ WF_vars(TailStep)

----------------------------------------------------------------------------
(* Properties                                                              *)

\* Every variable keeps its type.
TypeOK ==
    /\ file \in Seq(STRING) /\ buf \in Seq(STRING) /\ s \in Seq(STRING) /\ out \in Seq(Seq(STRING))
    /\ pos \in 0 .. Len(file) /\ discarded \in Nat /\ initial \in Nat
    /\ queued \in BOOLEAN /\ held \in BOOLEAN /\ ctx \in BOOLEAN /\ catchUp \in BOOLEAN
    /\ pc \in {"peek", "read", "line", "eof", "select", "done"}

\* The lines sent are the lines of the file, whole and in order, whatever pieces
\* the file grows in while the tail reads, peeks and rewinds, up to the first NUL
\* (peekAndRead).
LinesIntact ==
    /\ Len(out) <= Cardinality(Ends(file))
    /\ \A k \in 1 .. Len(out) :
           (\A i \in 1 .. NthEnd(file, k) : file[i] # "nul") => out[k] = Line(k)

\* What was in the file when the tail was opened is sent without waiting for a
\* write ("First read everything that already exists inside of the log file").
ExistingIsSent == <>(Len(out) >= initial)

\* A line that has been written is sent (the doc of NewLogTail), unless the caller
\* cancels.
WrittenIsSent ==
    \A k \in 1 .. MaxLen : Cardinality(Ends(file)) >= k ~> (Len(out) >= k \/ ctx)

============================================================================
