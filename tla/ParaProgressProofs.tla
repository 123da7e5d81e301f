------------------------- MODULE ParaProgressProofs -------------------------
(* What ParaProgress promises, for any number of processes: the order of a *)
(* serial program, and what Start's nil means.                             *)
EXTENDS ParaProgress, FiniteSetTheorems, TLAPS

\* The leaves are for Zenon, but for those that name SMT.
USE Zenon

GoStates == {"idle", "run", "report", "send", "done"}
Progress == {"part", "full"}

\* A message with a status is one that StatusMsg makes.
LEMMA StatusForm ==
    ASSUME NEW m \in Message, "status" \in DOMAIN m
    PROVE  /\ m.id \in Processes /\ m.status \in Statuses /\ m.err \in BOOLEAN
           /\ m = StatusMsg(m.id, m.status, m.err)
BY SMT DEF Message, StatusMsg

\* A message with a progress is one that ProgressMsg makes.
LEMMA ProgressForm ==
    ASSUME NEW m \in Message, "progress" \in DOMAIN m
    PROVE  m.id \in Processes /\ m.progress \in Progress /\ m = ProgressMsg(m.id, m.progress)
BY DEF Message, ProgressMsg, Progress

\* What the goroutines of a process send are messages.
LEMMA StatusMsgType ==
    ASSUME NEW p \in Processes, NEW s \in Statuses, NEW e \in BOOLEAN
    PROVE  StatusMsg(p, s, e) \in Message
BY DEF StatusMsg, Message

\* So is what Start sends.
LEMMA StartingType ==
    ASSUME NEW S \in SUBSET Processes
    PROVE  Starting(S) \subseteq Message
<1> SUFFICES ASSUME NEW p \in S PROVE StatusMsg(p, "Running", FALSE) \in Message
  BY DEF Starting
<1>1. "Running" \in Statuses /\ FALSE \in BOOLEAN
  BY DEF Statuses
<1> QED BY <1>1, StatusMsgType

----------------------------------------------------------------------------
(* The types the proof needs                                               *)

Types ==
    /\ opt \in Options /\ curr \in Nat \ {0} /\ failed \subseteq Processes /\ msgs \subseteq Message
    /\ go \in [Processes -> GoStates] /\ Status \in [Processes -> Statuses]

\* Every step of the goroutines and of the event loop keeps them.
LEMMA TypesKept == Types /\ [Next]_vars => Types'
<1> SUFFICES ASSUME Types, [Next]_vars PROVE Types'
  OBVIOUS
<1>1. ASSUME NEW p \in Processes, NEW progress \in Progress, Report(p, progress) PROVE Types'
  BY SMT, <1>1 DEF Report, Types, loopVars, Message, ProgressMsg, GoStates, Progress
<1>2. ASSUME NEW p \in Processes, NEW status \in {"Success", "Failed"}, Return(p, status) PROVE Types'
  BY <1>2 DEF Return, Types, loopVars, GoStates, Statuses
<1>3. ASSUME NEW p \in Processes, Send(p) PROVE Types'
  <2>1. (p \in failed) \in BOOLEAN
    BY SMT
  <2>2. StatusMsg(p, Status[p], p \in failed) \in Message
    BY <2>1, StatusMsgType DEF Types
  <2> QED BY <1>3, <2>2 DEF Send, Types, loopVars, GoStates
<1>4. ASSUME NEW m \in msgs, HandleStatus(m) PROVE Types'
  <2>1. m.id \in Processes /\ m.status \in Statuses
    BY <1>4, StatusForm DEF HandleStatus, Types
  <2>2. msgs' \subseteq Message
    BY <1>4, StartingType DEF HandleStatus, Types
  <2> QED BY SMT, <1>4, <2>1, <2>2 DEF HandleStatus, Types, GoStates
<1>5. ASSUME NEW m \in msgs, HandleProgress(m) PROVE Types'
  BY <1>5, ProgressForm DEF HandleProgress, Types, GoStates
<1>6. ASSUME NEW p \in Processes, Elapse(p) PROVE Types'
  BY <1>6 DEF Elapse, Types
<1>7. CASE Tick
  BY <1>7 DEF Tick, Types, Statuses
<1>8. CASE CtrlC
  BY <1>8 DEF CtrlC, Types
<1>9. CASE Quit
  BY <1>9 DEF Quit, Types
<1>10. CASE UNCHANGED vars
  BY <1>10 DEF vars, Types
<1> QED BY <1>1, <1>2, <1>3, <1>4, <1>5, <1>6, <1>7, <1>8, <1>9, <1>10 DEF Next, Progress

----------------------------------------------------------------------------
(* What the goroutines wait for                                            *)

\* A process has failed only once it has returned; a report that is on its way is the
\* one its goroutine waits for; a serial program has not called what comes after curr.
Waiting ==
    /\ \A p \in Processes : p \in failed => go[p] \in {"send", "done"}
    /\ \A p \in Processes, x \in Progress : ProgressMsg(p, x) \in msgs => go[p] = "report"
    /\ \A p \in Processes : ~(ProgressMsg(p, "part") \in msgs /\ ProgressMsg(p, "full") \in msgs)
    /\ ~opt.parallel => \A p \in Processes : p > curr => go[p] = "idle"

\* Only the processes that are started have sent anything.
LEMMA InitKept == Init => Types /\ Waiting
<1> SUFFICES ASSUME Init PROVE Types /\ Waiting
  OBVIOUS
<1>1. 1 \in Processes /\ \A p \in Processes : p \in Nat
  BY SMT, NAssumption DEF Processes
<1>2. Types
  BY SMT, <1>1, StartingType DEF Init, Types, GoStates, Statuses
<1>3. \A p \in Processes, x \in Progress : ProgressMsg(p, x) \notin msgs
  BY DEF Init, Starting, StatusMsg, ProgressMsg
<1> QED BY SMT, <1>1, <1>2, <1>3 DEF Init, Waiting, Progress

\* A status that is handled calls the process after curr, or none.
LEMMA StatusHandled ==
    ASSUME Types, Waiting, NEW m \in msgs, HandleStatus(m)
    PROVE  /\ m.id \in Processes /\ m.status \in Statuses /\ m.err \in BOOLEAN
           /\ m = StatusMsg(m.id, m.status, m.err)
           /\ \A x \in msgs' : x \in msgs \ {m} \/ \E p \in Processes : x = StatusMsg(p, "Running", FALSE)
           /\ \A x \in msgs : x \in msgs' \/ x = m
           /\ \A p \in Processes : go'[p] = go[p] \/ (go[p] = "idle" /\ go'[p] = "run" /\ p = curr + 1)
           /\ ~Advances(m) => go' = go /\ curr' = curr /\ msgs' = msgs \ {m}
           /\ Advances(m) => /\ ~opt.parallel /\ curr' = curr + 1
                             /\ \A p \in Processes : p = curr + 1 => go'[p] = "run"
<1>1. m.id \in Processes /\ m.status \in Statuses /\ m.err \in BOOLEAN
      /\ m = StatusMsg(m.id, m.status, m.err)
  BY StatusForm DEF HandleStatus, Types
<1>2. CASE Advances(m)
  <2>1. ~opt.parallel /\ curr' = curr + 1
    BY <1>2 DEF HandleStatus, Advances
  <2>2. \A p \in Processes : p = curr + 1 => go[p] = "idle"
    BY SMT, <2>1 DEF Waiting, Types
  <2>3. \A p \in Processes : go'[p] = IF p = curr + 1 THEN "run" ELSE go[p]
    BY <1>2, <2>1 DEF HandleStatus
  <2>4. /\ \A x \in msgs' : x \in msgs \ {m} \/ \E p \in Processes : x = StatusMsg(p, "Running", FALSE)
        /\ \A x \in msgs : x \in msgs' \/ x = m
    BY <1>2 DEF HandleStatus, Starting
  <2> QED BY <1>1, <1>2, <2>1, <2>2, <2>3, <2>4
<1>3. CASE ~Advances(m)
  BY <1>1, <1>3 DEF HandleStatus, Starting, Types
<1> QED BY <1>1, <1>2, <1>3

\* A report that is handled wakes the goroutine that waits for it.
LEMMA ProgressHandled ==
    ASSUME Types, Waiting, NEW m \in msgs, HandleProgress(m)
    PROVE  /\ m.id \in Processes /\ m.progress \in Progress /\ m = ProgressMsg(m.id, m.progress)
           /\ go[m.id] = "report" /\ go' = [go EXCEPT ![m.id] = "run"] /\ msgs' = msgs \ {m}
           /\ UNCHANGED <<opt, curr, err, failed, Status, expired, full>>
BY SMT, ProgressForm DEF HandleProgress, Types, Waiting

\* Every step keeps what the goroutines wait for.
LEMMA WaitingStep == Types /\ Waiting /\ [Next]_vars => Waiting'
<1> SUFFICES ASSUME Types, Waiting, [Next]_vars PROVE Waiting'
  OBVIOUS
<1> USE DEF GoStates, Progress
<1>a. \A p \in Processes : p \in Nat
  BY SMT, NAssumption DEF Processes
<1>1. ASSUME NEW p \in Processes, NEW progress \in Progress, Report(p, progress) PROVE Waiting'
  BY <1>1 DEF Report, loopVars, Waiting, Types, ProgressMsg
<1>2. ASSUME NEW p \in Processes, NEW status \in {"Success", "Failed"}, Return(p, status) PROVE Waiting'
  BY <1>2 DEF Return, loopVars, Waiting, Types
<1>3. ASSUME NEW p \in Processes, Send(p) PROVE Waiting'
  BY <1>3 DEF Send, loopVars, Waiting, Types, StatusMsg, ProgressMsg
<1>4. ASSUME NEW m \in msgs, HandleStatus(m) PROVE Waiting'
  <2>1. \A p \in Processes, x \in Progress : ProgressMsg(p, x) \in msgs' => ProgressMsg(p, x) \in msgs
    BY <1>4, StatusHandled DEF StatusMsg, ProgressMsg
  <2>2. failed' = failed /\ opt' = opt
    BY <1>4 DEF HandleStatus
  <2>3. ~opt.parallel => \A p \in Processes : p > curr' => go'[p] = "idle"
    <3>1. CASE Advances(m)
      <4>1. curr' = curr + 1 /\ \A p \in Processes : go'[p] = go[p] \/ p = curr + 1
        BY <1>4, <3>1, StatusHandled
      <4> QED BY SMT, <4>1, <1>a DEF Waiting, Types
    <3>2. CASE ~Advances(m)
      <4>1. curr' = curr /\ go' = go
        BY <1>4, <3>2, StatusHandled
      <4> QED BY <4>1 DEF Waiting
    <3> QED BY <3>1, <3>2
  <2> QED BY <1>4, <2>1, <2>2, <2>3, StatusHandled DEF Waiting
<1>5. ASSUME NEW m \in msgs, HandleProgress(m) PROVE Waiting'
  BY SMT, <1>5, ProgressHandled DEF Waiting, Types
<1>6. ASSUME NEW p \in Processes, Elapse(p) PROVE Waiting'
  BY <1>6 DEF Elapse, Waiting
<1>7. CASE Tick
  BY <1>7 DEF Tick, Waiting
<1>8. CASE CtrlC
  BY <1>8 DEF CtrlC, Waiting
<1>9. CASE Quit
  BY <1>9 DEF Quit, Waiting
<1>10. CASE UNCHANGED vars
  BY <1>10 DEF vars, Waiting
<1> QED BY <1>1, <1>2, <1>3, <1>4, <1>5, <1>6, <1>7, <1>8, <1>9, <1>10 DEF Next

----------------------------------------------------------------------------
(* The order of a serial program                                           *)

\* The processes up to curr have been called, and those before it have returned without
\* an error.
Called ==
    /\ \A p \in Processes : go[p] # "idle" <=> p <= curr
    /\ \A p \in Processes : p < curr => go[p] = "done" /\ p \notin failed

\* Only curr can have a message of success on its way, and at most one.
Successes ==
    /\ \A p \in Processes : StatusMsg(p, "Success", TRUE) \notin msgs
    /\ \A p \in Processes :
          StatusMsg(p, "Success", FALSE) \in msgs => p = curr /\ go[p] = "done" /\ p \notin failed
    /\ \A p \in Processes : go[p] = "send" /\ Status[p] = "Success" => p \notin failed

SerialInv == opt.failFast /\ ~opt.parallel => Called /\ Successes

\* The first process is called first, and alone.
LEMMA SerialInit == Init => SerialInv
<1> SUFFICES ASSUME Init, opt.failFast, ~opt.parallel PROVE Called /\ Successes
  BY DEF SerialInv
<1>1. msgs = {StatusMsg(1, "Running", FALSE)}
  BY DEF Init, Starting
<1>2. 1 \in Processes /\ \A p \in Processes : p \in Nat /\ p >= 1
  BY SMT, NAssumption DEF Processes
<1>3. Called
  BY SMT, <1>2 DEF Init, Called
<1>4. Successes
  BY <1>1 DEF Init, Successes, StatusMsg
<1> QED BY <1>3, <1>4

\* Every step keeps it: the success of curr is what advances the program.
LEMMA SerialStep == Types /\ Waiting /\ SerialInv /\ [Next]_vars => SerialInv'
<1> SUFFICES ASSUME Types, Waiting, SerialInv, [Next]_vars, opt'.failFast, ~opt'.parallel
             PROVE  (Called /\ Successes)'
  BY DEF SerialInv
<1> USE DEF GoStates, Progress
<1>0. opt' = opt
  BY DEF Next, vars, Report, Return, Send, HandleStatus, HandleProgress, Elapse, Tick, CtrlC, Quit, loopVars
<1>a. opt.failFast /\ ~opt.parallel /\ Called /\ Successes
  BY <1>0 DEF SerialInv
<1>b. \A p \in Processes : p \in Nat /\ p >= 1
  BY SMT, NAssumption DEF Processes
<1>1. ASSUME NEW p \in Processes, NEW progress \in Progress, Report(p, progress)
      PROVE  (Called /\ Successes)'
  <2>1. Called'
    BY <1>a, <1>b, <1>1 DEF Report, loopVars, Called, Types
  <2>2. Successes'
    BY <1>a, <1>1 DEF Report, loopVars, Successes, Types, StatusMsg, ProgressMsg
  <2> QED BY <2>1, <2>2
<1>2. ASSUME NEW p \in Processes, NEW status \in {"Success", "Failed"}, Return(p, status)
      PROVE  (Called /\ Successes)'
  <2>1. Called'
    BY <1>a, <1>b, <1>2 DEF Return, loopVars, Called, Types
  <2>2. Successes'
    BY <1>a, <1>2 DEF Return, loopVars, Successes, Waiting, Types
  <2> QED BY <2>1, <2>2
<1>3. ASSUME NEW p \in Processes, Send(p) PROVE (Called /\ Successes)'
  <2>1. p = curr
    BY SMT, <1>a, <1>b, <1>3 DEF Send, Called, Types
  <2>2. Called'
    BY <1>a, <1>b, <1>3 DEF Send, loopVars, Called, Types
  <2>3. Successes'
    BY <1>a, <1>3, <2>1 DEF Send, loopVars, Successes, Types, StatusMsg
  <2> QED BY <2>2, <2>3
<1>4. ASSUME NEW m \in msgs, HandleStatus(m), ~Advances(m) PROVE (Called /\ Successes)'
  <2>1. failed' = failed /\ Status' = [Status EXCEPT ![m.id] = m.status]
    BY <1>4 DEF HandleStatus
  <2>2. /\ m.id \in Processes /\ m.err \in BOOLEAN /\ m = StatusMsg(m.id, m.status, m.err)
        /\ go' = go /\ curr' = curr /\ msgs' = msgs \ {m}
    BY <1>4, StatusHandled
  <2>3. Called'
    BY <1>a, <2>1, <2>2 DEF Called
  <2>4. Successes'
    BY <1>a, <2>1, <2>2 DEF Successes, Types
  <2> QED BY <2>3, <2>4
<1>5. ASSUME NEW m \in msgs, HandleStatus(m), Advances(m) PROVE (Called /\ Successes)'
  <2>0. /\ m.id \in Processes /\ m.err \in BOOLEAN /\ m = StatusMsg(m.id, m.status, m.err)
        /\ \A x \in msgs' : x \in msgs \ {m} \/ \E p \in Processes : x = StatusMsg(p, "Running", FALSE)
    BY <1>5, StatusHandled
  <2>1. /\ m = StatusMsg(curr, "Success", FALSE) /\ m.id = curr /\ m.status = "Success"
        /\ curr \in Processes /\ go[curr] = "done" /\ curr \notin failed
    BY <1>a, <1>5, <2>0 DEF Advances, Successes
  <2>2. /\ curr' = curr + 1 /\ failed' = failed /\ Status' = [Status EXCEPT ![curr] = "Success"]
        /\ \A p \in Processes : go'[p] = IF p = curr + 1 THEN "run" ELSE go[p]
    BY <1>5, <2>1, StatusHandled DEF HandleStatus
  <2>3. Called'
    BY SMT, <1>a, <1>b, <2>1, <2>2 DEF Called, Types
  <2>4. Successes'
    <3>1. \A p \in Processes : StatusMsg(p, "Success", TRUE) \notin msgs'
      BY <1>a, <2>0 DEF Successes, StatusMsg
    <3>2. \A p \in Processes : StatusMsg(p, "Success", FALSE) \notin msgs'
      BY <1>a, <2>0, <2>1 DEF Successes, StatusMsg
    <3>3. \A p \in Processes : go'[p] = "send" /\ Status'[p] = "Success" => p \notin failed'
      BY <1>a, <2>1, <2>2 DEF Successes, Types
    <3> QED BY <3>1, <3>2, <3>3 DEF Successes
  <2> QED BY <2>3, <2>4
<1>6. ASSUME NEW m \in msgs, HandleProgress(m) PROVE (Called /\ Successes)'
  <2>1. Called'
    BY SMT, <1>a, <1>b, <1>6, ProgressHandled DEF Called, Types
  <2>2. Successes'
    <3>1. /\ msgs' \subseteq msgs /\ curr' = curr /\ failed' = failed /\ Status' = Status
          /\ go[m.id] = "report" /\ go' = [go EXCEPT ![m.id] = "run"]
      BY <1>a, <1>6, ProgressHandled
    <3>2. \A p \in Processes : go'[p] = go[p] \/ (go[p] = "report" /\ go'[p] = "run")
      BY <1>a, <3>1 DEF Types
    <3> QED BY <1>a, <3>1, <3>2 DEF Successes
  <2> QED BY <2>1, <2>2
<1>7. ASSUME NEW p \in Processes, Elapse(p) PROVE (Called /\ Successes)'
  BY <1>a, <1>7 DEF Elapse, Called, Successes
<1>8. CASE Tick
  BY <1>a, <1>8 DEF Tick, Called, Successes, Types
<1>9. CASE CtrlC
  BY <1>a, <1>9 DEF CtrlC, Called, Successes
<1>10. CASE Quit
  BY <1>a, <1>10 DEF Quit, Called, Successes
<1>11. CASE UNCHANGED vars
  BY <1>a, <1>11 DEF vars, Called, Successes
<1> QED BY <1>1, <1>2, <1>3, <1>4, <1>5, <1>6, <1>7, <1>8, <1>9, <1>10, <1>11 DEF Next

\* It implies that nothing runs beside a process, or after a failure.
LEMMA SerialImplies == Types /\ SerialInv => SerialInOrder
<1> SUFFICES ASSUME Types, Called, NEW p \in Processes, go[p] # "idle", NEW q \in 1..p - 1
             PROVE  Returned(q) /\ q \notin failed
  BY DEF SerialInv, SerialInOrder
<1>1. p <= curr /\ q \in Processes /\ q < curr
  BY SMT, NAssumption DEF Called, Types, Processes
<1> QED BY <1>1 DEF Called, Returned

\* With failFast a serial program of any number of processes calls one only when all
\* before it have returned without an error, whatever order the messages are taken in
\* (Update 192-205).
THEOREM SerialOrder == Spec => []SerialInOrder
<1> DEFINE Inv == Types /\ Waiting /\ SerialInv
<1>1. Init => Inv
  BY InitKept, SerialInit
<1>2. Inv /\ [Next]_vars => Inv'
  BY TypesKept, WaitingStep, SerialStep
<1>3. Inv => SerialInOrder
  BY SerialImplies
<1> HIDE DEF Inv
<1> QED BY <1>1, <1>2, <1>3, PTL DEF Spec

----------------------------------------------------------------------------
(* What becomes of an error                                                *)

\* An error has reached err, is on its way, or is about to be sent.
ErrorInv ==
    \A p \in failed : err # "nil" \/ go[p] = "send" \/ \E s \in Statuses : StatusMsg(p, s, TRUE) \in msgs

\* No step loses an error.
LEMMA ErrorStep == Types /\ Waiting /\ ErrorInv /\ [Next]_vars => ErrorInv'
<1> SUFFICES ASSUME Types, Waiting, ErrorInv, [Next]_vars PROVE ErrorInv'
  OBVIOUS
<1> USE DEF GoStates, Progress
<1>1. ASSUME NEW p \in Processes, NEW progress \in Progress, Report(p, progress) PROVE ErrorInv'
  BY <1>1 DEF Report, loopVars, ErrorInv, Types
<1>2. ASSUME NEW p \in Processes, NEW status \in {"Success", "Failed"}, Return(p, status) PROVE ErrorInv'
  BY <1>2 DEF Return, loopVars, ErrorInv, Types
<1>3. ASSUME NEW p \in Processes, Send(p) PROVE ErrorInv'
  <2>1. p \in failed => StatusMsg(p, Status[p], p \in failed) = StatusMsg(p, Status[p], TRUE)
    BY DEF StatusMsg
  <2>2. p \in failed => StatusMsg(p, Status[p], TRUE) \in msgs'
    BY <1>3, <2>1 DEF Send
  <2> QED BY <1>3, <2>2 DEF Send, loopVars, ErrorInv, Types
<1>4. ASSUME NEW m \in msgs, HandleStatus(m) PROVE ErrorInv'
  <2>1. /\ \A x \in msgs : x \in msgs' \/ x = m
        /\ \A p \in Processes : go'[p] = go[p] \/ go[p] = "idle"
    BY <1>4, StatusHandled
  <2>2. failed' = failed /\ err' = IF m.err THEN "process" ELSE err
    BY <1>4 DEF HandleStatus
  <2>3. SUFFICES ASSUME NEW p \in failed, err' = "nil"
                 PROVE  go'[p] = "send" \/ \E s \in Statuses : StatusMsg(p, s, TRUE) \in msgs'
    BY <2>2 DEF ErrorInv
  <2>4. ~m.err /\ err = "nil" /\ p \in Processes
    BY <2>2, <2>3 DEF Types
  <2>5. \A s : StatusMsg(p, s, TRUE) # m
    BY SMT, <2>4 DEF StatusMsg
  <2> QED BY <2>1, <2>4, <2>5 DEF ErrorInv
<1>5. ASSUME NEW m \in msgs, HandleProgress(m) PROVE ErrorInv'
  <2>1. \A p, s : StatusMsg(p, s, TRUE) # m
    BY SMT, <1>5, ProgressHandled DEF StatusMsg, ProgressMsg
  <2>2. /\ go[m.id] = "report" /\ go' = [go EXCEPT ![m.id] = "run"] /\ msgs' = msgs \ {m}
        /\ UNCHANGED <<err, failed>>
    BY <1>5, ProgressHandled
  <2>3. \A p \in failed : go[p] = "send" => go'[p] = "send"
    BY <2>2 DEF Types
  <2> QED BY <2>1, <2>2, <2>3 DEF ErrorInv
<1>6. ASSUME NEW p \in Processes, Elapse(p) PROVE ErrorInv'
  BY <1>6 DEF Elapse, ErrorInv
<1>7. CASE Tick
  BY <1>7 DEF Tick, ErrorInv
<1>8. CASE CtrlC
  BY <1>8 DEF CtrlC, ErrorInv
<1>9. CASE Quit
  BY <1>9 DEF Quit, ErrorInv
<1>10. CASE UNCHANGED vars
  BY <1>10 DEF vars, ErrorInv
<1> QED BY <1>1, <1>2, <1>3, <1>4, <1>5, <1>6, <1>7, <1>8, <1>9, <1>10 DEF Next

\* With any number of processes, an error that Start does not return is one whose message
\* the loop had not taken when it quit (Update 193-195, Process.Start 134-146).
THEOREM ErrorsReported == Spec => FailureReported
<1> DEFINE Inv == Types /\ Waiting /\ ErrorInv
           Reported == Quit /\ err = "nil" =>
                          \A p \in failed : go[p] = "send" \/ \E s \in Statuses : StatusMsg(p, s, TRUE) \in msgs
<1>1. Init => Inv
  BY InitKept DEF Init, ErrorInv
<1>2. Inv /\ [Next]_vars => Inv'
  BY TypesKept, WaitingStep, ErrorStep
<1>3. Inv => Reported
  BY DEF ErrorInv
<1>4. FailureReported <=> [][Reported]_vars
  BY DEF FailureReported
<1> HIDE DEF Inv, Reported
<1> QED BY <1>1, <1>2, <1>3, <1>4, PTL DEF Spec

----------------------------------------------------------------------------
(* What nil means                                                          *)

Over(p) == Returned(p) \/ p \in full

\* A process that is counted as complete has returned or has reported 100%, unless a
\* timeout has marked it.
NilInv ==
    /\ \A p \in Processes : Status[p] \in {"Failed", "Success"} => Returned(p) \/ expired # {}
    /\ \A p \in Processes, s \in {"Failed", "Success"}, e \in BOOLEAN : StatusMsg(p, s, e) \in msgs => Returned(p)
    /\ \A p \in Processes : ProgressMsg(p, "full") \in msgs => p \in full
    /\ \A p \in Processes : p \in percent => Over(p)
    /\ quit => err # "nil" \/ expired # {} \/ \A p \in Processes : Over(p)

\* A process that has returned is not called again, and nothing that is known is forgotten.
Lasting ==
    /\ \A p \in Processes : Returned(p) => Returned(p)'
    /\ full \subseteq full' /\ expired \subseteq expired' /\ (err # "nil" => err' # "nil")

\* Every step is so.
LEMMA LastingStep == Types /\ Waiting /\ [Next]_vars => Lasting
<1> SUFFICES ASSUME Types, Waiting, [Next]_vars PROVE Lasting
  OBVIOUS
<1> USE DEF Lasting, Returned
<1>1. ASSUME NEW p \in Processes, NEW progress \in Progress, Report(p, progress) PROVE Lasting
  BY <1>1 DEF Report, loopVars, Types
<1>2. ASSUME NEW p \in Processes, NEW status \in {"Success", "Failed"}, Return(p, status) PROVE Lasting
  BY <1>2 DEF Return, loopVars, Types
<1>3. ASSUME NEW p \in Processes, Send(p) PROVE Lasting
  BY <1>3 DEF Send, loopVars, Types
<1>4. ASSUME NEW m \in msgs, HandleStatus(m) PROVE Lasting
  <2>1. \A p \in Processes : go'[p] = go[p] \/ go[p] = "idle"
    BY <1>4, StatusHandled
  <2> QED BY <1>4, <2>1 DEF HandleStatus
<1>5. ASSUME NEW m \in msgs, HandleProgress(m) PROVE Lasting
  BY <1>5, ProgressHandled DEF Types
<1>6. ASSUME NEW p \in Processes, Elapse(p) PROVE Lasting
  BY <1>6 DEF Elapse
<1>7. CASE Tick
  BY <1>7 DEF Tick
<1>8. CASE CtrlC
  BY <1>8 DEF CtrlC
<1>9. CASE Quit
  BY <1>9 DEF Quit
<1>10. CASE UNCHANGED vars
  BY <1>10 DEF vars
<1> QED BY <1>1, <1>2, <1>3, <1>4, <1>5, <1>6, <1>7, <1>8, <1>9, <1>10 DEF Next, Progress

\* No step counts a process that is not over.
LEMMA NilStep == Types /\ Waiting /\ NilInv /\ [Next]_vars => NilInv'
<1> SUFFICES ASSUME Types, Waiting, NilInv, [Next]_vars PROVE NilInv'
  OBVIOUS
<1> USE DEF GoStates, Progress
<1>0. Lasting
  BY LastingStep
<1>1. ASSUME NEW p \in Processes, NEW progress \in Progress, Report(p, progress) PROVE NilInv'
  BY <1>0, <1>1 DEF Lasting, Report, loopVars, NilInv, Over, Types, StatusMsg, ProgressMsg
<1>2. ASSUME NEW p \in Processes, NEW status \in {"Success", "Failed"}, Return(p, status) PROVE NilInv'
  <2>1. Returned(p)'
    BY <1>2 DEF Return, Returned, Types
  <2> QED BY <1>0, <1>2, <2>1 DEF Lasting, Return, loopVars, NilInv, Over, Types
<1>3. ASSUME NEW p \in Processes, Send(p) PROVE NilInv'
  <2>1. Returned(p)'
    BY <1>3 DEF Send, Returned, Types
  <2>2. \A q \in Processes, s \in {"Failed", "Success"}, e \in BOOLEAN :
           StatusMsg(q, s, e) \in msgs' => StatusMsg(q, s, e) \in msgs \/ q = p
    BY <1>3 DEF Send, StatusMsg
  <2>3. \A q \in Processes : ProgressMsg(q, "full") \in msgs' => ProgressMsg(q, "full") \in msgs
    BY <1>3 DEF Send, StatusMsg, ProgressMsg
  <2> QED BY <1>0, <1>3, <2>1, <2>2, <2>3 DEF Lasting, Send, loopVars, NilInv, Over
<1>4. ASSUME NEW m \in msgs, HandleStatus(m) PROVE NilInv'
  <2>1. /\ m.id \in Processes /\ m.err \in BOOLEAN /\ m = StatusMsg(m.id, m.status, m.err)
        /\ \A x \in msgs' : x \in msgs \ {m} \/ \E p \in Processes : x = StatusMsg(p, "Running", FALSE)
    BY <1>4, StatusHandled
  <2>2. m.status \in {"Failed", "Success"} => Returned(m.id)'
    BY <1>0, <2>1 DEF NilInv, Lasting
  <2>3. /\ Status' = [Status EXCEPT ![m.id] = m.status] /\ expired' = expired /\ full' = full
        /\ percent' = IF m.status = "Success" THEN percent \cup {m.id} ELSE percent
    BY <1>4 DEF HandleStatus
  <2>4. \A p \in Processes : Status'[p] \in {"Failed", "Success"} => Returned(p)' \/ expired' # {}
    BY <1>0, <2>1, <2>2, <2>3 DEF NilInv, Lasting, Types
  <2>5. \A p \in Processes : p \in percent' => Over(p)'
    BY <1>0, <2>1, <2>2, <2>3 DEF NilInv, Lasting, Over
  <2>6. \A p \in Processes, s \in {"Failed", "Success"}, e \in BOOLEAN :
           StatusMsg(p, s, e) \in msgs' => StatusMsg(p, s, e) \in msgs
    BY <2>1 DEF StatusMsg
  <2>7. \A p \in Processes : ProgressMsg(p, "full") \in msgs' => ProgressMsg(p, "full") \in msgs
    BY <2>1 DEF StatusMsg, ProgressMsg
  <2>8. quit' => quit \/ m.err \/ Complete
    BY <1>4 DEF HandleStatus
  <2>9. m.err => err' # "nil"
    BY <1>4 DEF HandleStatus
  <2>10. Complete => expired' # {} \/ \A p \in Processes : Over(p)'
    BY <2>4, <2>5 DEF Complete, Over
  <2>11. quit' => err' # "nil" \/ expired' # {} \/ \A p \in Processes : Over(p)'
    BY <1>0, <2>8, <2>9, <2>10 DEF NilInv, Lasting, Over
  <2> QED BY <1>0, <2>3, <2>4, <2>5, <2>6, <2>7, <2>11 DEF NilInv, Lasting
<1>5. ASSUME NEW m \in msgs, HandleProgress(m) PROVE NilInv'
  <2>1. /\ m.id \in Processes /\ m = ProgressMsg(m.id, m.progress) /\ msgs' = msgs \ {m}
        /\ UNCHANGED <<err, Status, expired, full>>
    BY <1>5, ProgressHandled
  <2>2. percent' = IF m.progress = "full" THEN percent \cup {m.id} ELSE percent \ {m.id}
    BY <1>5 DEF HandleProgress
  <2>3. \A p \in Processes : p \in percent' => Over(p)'
    BY <1>0, <2>1, <2>2 DEF NilInv, Lasting, Over
  <2>4. quit' => quit \/ Complete
    BY <1>5 DEF HandleProgress
  <2>5. Complete => expired' # {} \/ \A p \in Processes : Over(p)'
    BY <1>0, <2>1, <2>3 DEF Complete, NilInv, Lasting, Over
  <2> QED BY <1>0, <2>1, <2>3, <2>4, <2>5 DEF NilInv, Lasting, Over
<1>6. ASSUME NEW p \in Processes, Elapse(p) PROVE NilInv'
  BY <1>0, <1>6 DEF Elapse, NilInv, Lasting, Over
<1>7. CASE Tick
  <2>1. \A p \in Processes : Status'[p] \in {"Failed", "Success"} => Returned(p)' \/ expired' # {}
    BY <1>0, <1>7 DEF Tick, NilInv, Lasting
  <2>2. Complete => expired' # {} \/ \A p \in Processes : Over(p)'
    BY <1>0, <1>7, <2>1 DEF Complete, Tick, NilInv, Lasting, Over
  <2>3. quit' => quit \/ expired # {} \/ Complete
    BY <1>7 DEF Tick
  <2> QED BY <1>0, <1>7, <2>1, <2>2, <2>3 DEF Tick, NilInv, Lasting, Over
<1>8. CASE CtrlC
  BY <1>0, <1>8 DEF CtrlC, NilInv, Lasting, Over
<1>9. CASE Quit
  BY <1>0, <1>9 DEF Quit, NilInv, Lasting, Over
<1>10. CASE UNCHANGED vars
  BY <1>0, <1>10 DEF vars, NilInv, Lasting, Over
<1> QED BY <1>1, <1>2, <1>3, <1>4, <1>5, <1>6, <1>7, <1>8, <1>9, <1>10 DEF Next

\* With any number of processes, Start returns without an error only when every process
\* has returned or has reported 100%, unless a timeout made it quit (Update 207-236).
THEOREM NilIsOver == Spec => NilMeansReported
<1> DEFINE Inv == Types /\ Waiting /\ NilInv
           AllOver == Quit /\ err = "nil" /\ expired = {} => \A p \in Processes : Returned(p) \/ p \in full
<1>1. Init => Inv
  <2> SUFFICES ASSUME Init PROVE NilInv
    BY InitKept
  <2>1. /\ \A p \in Processes, s \in {"Failed", "Success"}, e \in BOOLEAN : StatusMsg(p, s, e) \notin msgs
        /\ \A p \in Processes : ProgressMsg(p, "full") \notin msgs
    BY DEF Init, Starting, StatusMsg, ProgressMsg
  <2> QED BY <2>1 DEF Init, NilInv
<1>2. Inv /\ [Next]_vars => Inv'
  BY TypesKept, WaitingStep, NilStep
<1>3. Inv => AllOver
  BY DEF NilInv, Over, Quit
<1>4. NilMeansReported <=> [][AllOver]_vars
  BY DEF NilMeansReported
<1> HIDE DEF Inv, AllOver
<1> QED BY <1>1, <1>2, <1>3, <1>4, PTL DEF Spec

----------------------------------------------------------------------------
(* How far curr can go                                                     *)

\* The types that Types leaves out.
LoopTypes ==
    /\ err \in {"nil", "process", "force quit"} /\ percent \subseteq Processes
    /\ quitting \in BOOLEAN /\ quit \in BOOLEAN /\ ended \in BOOLEAN

\* The statuses on their way, the processes whose goroutine has still to send one, and
\* those that have still to be started, which sends another.
Underway == {m \in msgs : "status" \in DOMAIN m}
Unsent == {p \in Processes : go[p] # "done"}
Uncalled == {p \in Processes : go[p] = "idle"}

\* A serial program advances at most once for each of these.
CurrInv ==
    /\ opt.parallel => curr = 1
    /\ ~opt.parallel =>
          /\ IsFiniteSet(Underway)
          /\ curr + Cardinality(Underway) + Cardinality(Unsent) + Cardinality(Uncalled) <= 2 * N + 1

\* There are N processes.
LEMMA ProcessesFinite ==
    /\ IsFiniteSet(Processes) /\ Cardinality(Processes) = N
    /\ IsFiniteSet(Unsent) /\ Cardinality(Unsent) \in Nat
    /\ IsFiniteSet(Uncalled) /\ Cardinality(Uncalled) \in Nat
<1>1. IsFiniteSet(1..N) /\ Cardinality(1..N) = N
  <2>1. 1 \in Int /\ N \in Int /\ ~(1 > N) /\ N - 1 + 1 = N
    BY NAssumption, SMT
  <2> QED BY <2>1, FS_Interval, SMT
<1>2. Unsent \subseteq Processes /\ Uncalled \subseteq Processes
  BY DEF Unsent, Uncalled
<1> QED BY <1>1, <1>2, FS_Subset, FS_CardinalityType DEF Processes

\* The first process alone has been started.
LEMMA CurrInit == Init => LoopTypes /\ CurrInv
<1> SUFFICES ASSUME Init PROVE LoopTypes /\ CurrInv
  OBVIOUS
<1>1. LoopTypes
  BY DEF Init, LoopTypes
<1>2. 1 \in Processes
  BY SMT, NAssumption DEF Processes
<1>3. ASSUME ~opt.parallel
      PROVE  IsFiniteSet(Underway) /\ curr + Cardinality(Underway) + Cardinality(Unsent) + Cardinality(Uncalled) <= 2 * N + 1
  <2>1. Underway = {StatusMsg(1, "Running", FALSE)}
    BY <1>3 DEF Init, Starting, Underway, StatusMsg
  <2>2. Unsent = Processes /\ Uncalled = Processes \ {1}
    BY <1>2, <1>3 DEF Init, Unsent, Uncalled
  <2>3. IsFiniteSet(Underway) /\ Cardinality(Underway) = 1
    BY <2>1, FS_Singleton
  <2>4. Cardinality(Unsent) = N /\ Cardinality(Uncalled) = N - 1
    BY <1>2, <2>2, ProcessesFinite, FS_RemoveElement
  <2>5. curr = 1
    BY DEF Init
  <2> QED BY SMT, <2>3, <2>4, <2>5, NAssumption
<1> QED BY <1>1, <1>3 DEF CurrInv, Init

\* A step that adds nothing to any of them.
LEMMA CurrKept ==
    ASSUME Types, CurrInv, opt' = opt, curr' = curr, Underway' \subseteq Underway,
           Unsent' \subseteq Unsent, Uncalled' \subseteq Uncalled
    PROVE  CurrInv'
<1>1. CASE opt.parallel
  BY <1>1 DEF CurrInv
<1>2. CASE ~opt.parallel
  <2>1. /\ IsFiniteSet(Underway)
        /\ curr + Cardinality(Underway) + Cardinality(Unsent) + Cardinality(Uncalled) <= 2 * N + 1
    BY <1>2 DEF CurrInv
  <2>2. /\ IsFiniteSet(Underway') /\ Cardinality(Underway') \in Nat /\ Cardinality(Underway) \in Nat
        /\ Cardinality(Underway') <= Cardinality(Underway)
    BY <2>1, FS_Subset, FS_CardinalityType
  <2>3. Cardinality(Unsent') \in Nat /\ Cardinality(Unsent') <= Cardinality(Unsent)
    BY ProcessesFinite, FS_Subset, FS_CardinalityType
  <2>4. Cardinality(Uncalled') \in Nat /\ Cardinality(Uncalled') <= Cardinality(Uncalled)
    BY ProcessesFinite, FS_Subset, FS_CardinalityType
  <2>5. curr \in Nat /\ N \in Nat /\ Cardinality(Unsent) \in Nat /\ Cardinality(Uncalled) \in Nat
    BY NAssumption, ProcessesFinite DEF Types
  <2>6. curr + Cardinality(Underway') + Cardinality(Unsent') + Cardinality(Uncalled') <= 2 * N + 1
    BY SMT, <2>1, <2>2, <2>3, <2>4, <2>5
  <2> QED BY <1>2, <2>2, <2>6 DEF CurrInv
<1> QED BY <1>1, <1>2

\* A goroutine that sends its status has sent it.
LEMMA CurrSend ==
    ASSUME Types, CurrInv, NEW p \in Processes, Send(p)
    PROVE  CurrInv'
<1>1. opt' = opt /\ curr' = curr
  BY DEF Send, loopVars
<1>2. p \in Unsent /\ Unsent' \subseteq Unsent \ {p} /\ Uncalled' \subseteq Uncalled
  BY DEF Send, Unsent, Uncalled, Types
<1>3. PICK x : Underway' \subseteq Underway \cup {x}
  BY DEF Send, Underway
<1>4. CASE opt.parallel
  BY <1>1, <1>4 DEF CurrInv
<1>5. CASE ~opt.parallel
  <2>1. /\ IsFiniteSet(Underway)
        /\ curr + Cardinality(Underway) + Cardinality(Unsent) + Cardinality(Uncalled) <= 2 * N + 1
    BY <1>5 DEF CurrInv
  <2>2. IsFiniteSet(Underway \cup {x}) /\ Cardinality(Underway) \in Nat
        /\ (Cardinality(Underway \cup {x}) = Cardinality(Underway) \/ Cardinality(Underway \cup {x}) = Cardinality(Underway) + 1)
    BY <2>1, FS_AddElement, FS_CardinalityType
  <2>3. IsFiniteSet(Underway') /\ Cardinality(Underway') \in Nat /\ Cardinality(Underway') <= Cardinality(Underway \cup {x})
    BY <1>3, <2>2, FS_Subset, FS_CardinalityType
  <2>4. IsFiniteSet(Unsent \ {p}) /\ Cardinality(Unsent \ {p}) = Cardinality(Unsent) - 1
    BY <1>2, ProcessesFinite, FS_RemoveElement
  <2>5. Cardinality(Unsent') \in Nat /\ Cardinality(Unsent') <= Cardinality(Unsent \ {p})
    BY <1>2, <2>4, FS_Subset, FS_CardinalityType
  <2>6. Cardinality(Uncalled') \in Nat /\ Cardinality(Uncalled') <= Cardinality(Uncalled)
    BY <1>2, ProcessesFinite, FS_Subset, FS_CardinalityType
  <2>7. curr \in Nat /\ N \in Nat /\ Cardinality(Unsent) \in Nat /\ Cardinality(Uncalled) \in Nat
    BY NAssumption, ProcessesFinite DEF Types
  <2>8. curr + Cardinality(Underway') + Cardinality(Unsent') + Cardinality(Uncalled') <= 2 * N + 1
    BY SMT, <2>1, <2>2, <2>3, <2>4, <2>5, <2>6, <2>7
  <2> QED BY <1>1, <1>5, <2>3, <2>8 DEF CurrInv
<1> QED BY <1>4, <1>5

\* A status that makes a serial program advance has been taken; the process it starts
\* is called, and sends another.
LEMMA CurrAdvance ==
    ASSUME Types, Waiting, CurrInv, NEW m \in msgs, HandleStatus(m), Advances(m)
    PROVE  CurrInv'
<1> DEFINE n == curr + 1
           new == IF n \in Processes THEN {StatusMsg(n, "Running", FALSE)} ELSE {}
<1>1. ~opt.parallel /\ opt' = opt /\ curr' = n /\ m \in Underway
  BY DEF HandleStatus, Advances, Underway
<1>2. msgs' = (msgs \ {m}) \cup Starting({n} \cap Processes)
  BY <1>1 DEF HandleStatus
<1>3. Underway' \subseteq (Underway \ {m}) \cup new
  BY <1>2 DEF Underway, Starting
<1>4. \A p \in Processes : go'[p] = IF p = n THEN "run" ELSE go[p]
  BY <1>1 DEF HandleStatus
<1>5. \A p \in Processes : p = n => go[p] = "idle"
  BY SMT, <1>1 DEF Waiting, Types
<1>6. Unsent' \subseteq Unsent /\ Uncalled' \subseteq Uncalled \ {n} /\ (n \in Processes => n \in Uncalled)
  BY <1>4, <1>5 DEF Unsent, Uncalled
<1>7. /\ IsFiniteSet(Underway)
      /\ curr + Cardinality(Underway) + Cardinality(Unsent) + Cardinality(Uncalled) <= 2 * N + 1
  BY <1>1 DEF CurrInv
<1>8. IsFiniteSet(Underway \ {m}) /\ Cardinality(Underway \ {m}) = Cardinality(Underway) - 1 /\ Cardinality(Underway \ {m}) \in Nat
      /\ Cardinality(Underway) \in Nat
  BY <1>1, <1>7, FS_RemoveElement, FS_CardinalityType
<1>9. Cardinality(Unsent') \in Nat /\ Cardinality(Unsent') <= Cardinality(Unsent)
  BY <1>6, ProcessesFinite, FS_Subset, FS_CardinalityType
<1>10. curr \in Nat /\ N \in Nat /\ Cardinality(Unsent) \in Nat /\ Cardinality(Uncalled) \in Nat /\ curr' = curr + 1
  BY <1>1, NAssumption, ProcessesFinite DEF Types
<1> HIDE DEF n
<1>11. CASE n \in Processes
  <2>1. Underway' \subseteq (Underway \ {m}) \cup {StatusMsg(n, "Running", FALSE)}
    BY <1>3, <1>11
  <2>2. /\ IsFiniteSet((Underway \ {m}) \cup {StatusMsg(n, "Running", FALSE)})
        /\ \/ Cardinality((Underway \ {m}) \cup {StatusMsg(n, "Running", FALSE)}) = Cardinality(Underway \ {m})
           \/ Cardinality((Underway \ {m}) \cup {StatusMsg(n, "Running", FALSE)}) = Cardinality(Underway \ {m}) + 1
    BY <1>8, FS_AddElement
  <2>3. /\ IsFiniteSet(Underway') /\ Cardinality(Underway') \in Nat
        /\ Cardinality(Underway') <= Cardinality((Underway \ {m}) \cup {StatusMsg(n, "Running", FALSE)})
    BY <2>1, <2>2, FS_Subset, FS_CardinalityType
  <2>4. IsFiniteSet(Uncalled \ {n}) /\ Cardinality(Uncalled \ {n}) = Cardinality(Uncalled) - 1
    BY <1>6, <1>11, ProcessesFinite, FS_RemoveElement
  <2>5. Cardinality(Uncalled') \in Nat /\ Cardinality(Uncalled') <= Cardinality(Uncalled \ {n})
    BY <1>6, <2>4, FS_Subset, FS_CardinalityType
  <2>6. curr' + Cardinality(Underway') + Cardinality(Unsent') + Cardinality(Uncalled') <= 2 * N + 1
    BY SMT, <1>7, <1>8, <1>9, <1>10, <2>2, <2>3, <2>4, <2>5
  <2> QED BY <1>1, <2>3, <2>6 DEF CurrInv
<1>12. CASE n \notin Processes
  <2>1. Underway' \subseteq Underway \ {m}
    BY <1>3, <1>12
  <2>2. IsFiniteSet(Underway') /\ Cardinality(Underway') \in Nat /\ Cardinality(Underway') <= Cardinality(Underway \ {m})
    BY <1>8, <2>1, FS_Subset, FS_CardinalityType
  <2>3. Uncalled' \subseteq Uncalled
    BY <1>6
  <2>4. Cardinality(Uncalled') \in Nat /\ Cardinality(Uncalled') <= Cardinality(Uncalled)
    BY <2>3, ProcessesFinite, FS_Subset, FS_CardinalityType
  <2>5. curr' + Cardinality(Underway') + Cardinality(Unsent') + Cardinality(Uncalled') <= 2 * N + 1
    BY SMT, <1>7, <1>8, <1>9, <1>10, <2>2, <2>4
  <2> QED BY <1>1, <2>2, <2>5 DEF CurrInv
<1> QED BY <1>11, <1>12

\* Every step keeps it.
LEMMA CurrStep == Types /\ Waiting /\ CurrInv /\ [Next]_vars => CurrInv'
<1> SUFFICES ASSUME Types, Waiting, CurrInv, [Next]_vars PROVE CurrInv'
  OBVIOUS
<1>1. ASSUME NEW p \in Processes, NEW progress \in Progress, Report(p, progress) PROVE CurrInv'
  <2>1. opt' = opt /\ curr' = curr /\ Unsent' \subseteq Unsent /\ Uncalled' \subseteq Uncalled
    BY <1>1 DEF Report, loopVars, Unsent, Uncalled, Types
  <2>2. Underway' \subseteq Underway
    <3>1. msgs' = msgs \cup {ProgressMsg(p, progress)}
      BY <1>1 DEF Report
    <3>2. "status" \notin DOMAIN ProgressMsg(p, progress)
      BY SMT DEF ProgressMsg
    <3> QED BY <3>1, <3>2 DEF Underway
  <2> QED BY <2>1, <2>2, CurrKept
<1>2. ASSUME NEW p \in Processes, NEW status \in {"Success", "Failed"}, Return(p, status) PROVE CurrInv'
  <2>1. /\ opt' = opt /\ curr' = curr /\ Underway' \subseteq Underway
        /\ Unsent' \subseteq Unsent /\ Uncalled' \subseteq Uncalled
    BY <1>2 DEF Return, loopVars, Underway, Unsent, Uncalled, Types
  <2> QED BY <2>1, CurrKept
<1>3. ASSUME NEW m \in msgs, HandleStatus(m), ~Advances(m) PROVE CurrInv'
  <2>1. go' = go /\ curr' = curr /\ msgs' = msgs \ {m} /\ opt' = opt
    BY <1>3, StatusHandled DEF HandleStatus
  <2>2. Underway' \subseteq Underway /\ Unsent' \subseteq Unsent /\ Uncalled' \subseteq Uncalled
    BY <2>1 DEF Underway, Unsent, Uncalled
  <2> QED BY <2>1, <2>2, CurrKept
<1>4. ASSUME NEW m \in msgs, HandleProgress(m) PROVE CurrInv'
  <2>1. /\ go[m.id] = "report" /\ go' = [go EXCEPT ![m.id] = "run"] /\ msgs' = msgs \ {m}
        /\ opt' = opt /\ curr' = curr
    BY <1>4, ProgressHandled
  <2>2. Underway' \subseteq Underway /\ Unsent' \subseteq Unsent /\ Uncalled' \subseteq Uncalled
    BY <2>1 DEF Underway, Unsent, Uncalled, Types
  <2> QED BY <2>1, <2>2, CurrKept
<1>5. CASE UNCHANGED <<opt, curr, msgs, go>>
  <2>1. Underway' \subseteq Underway /\ Unsent' \subseteq Unsent /\ Uncalled' \subseteq Uncalled
    BY <1>5 DEF Underway, Unsent, Uncalled
  <2> QED BY <1>5, <2>1, CurrKept
<1>6. (\E p \in Processes : Elapse(p)) \/ Tick \/ CtrlC \/ Quit \/ UNCHANGED vars => UNCHANGED <<opt, curr, msgs, go>>
  BY DEF Elapse, Tick, CtrlC, Quit, vars
<1> QED BY <1>1, <1>2, <1>3, <1>4, <1>5, <1>6, CurrSend, CurrAdvance DEF Next, Progress

\* The event loop keeps its types.
LEMMA LoopTypesStep == Types /\ LoopTypes /\ [Next]_vars => LoopTypes'
<1> SUFFICES ASSUME Types, LoopTypes, [Next]_vars PROVE LoopTypes'
  OBVIOUS
<1>1. ASSUME NEW p \in Processes,
             (\E progress \in {"part", "full"} : Report(p, progress)) \/ Elapse(p)
             \/ (\E status \in {"Success", "Failed"} : Return(p, status)) \/ Send(p)
      PROVE  LoopTypes'
  BY <1>1 DEF Report, Return, Send, Elapse, loopVars, LoopTypes
<1>2. ASSUME NEW m \in msgs, HandleStatus(m) PROVE LoopTypes'
  <2>1. m.id \in Processes
    BY <1>2, StatusForm DEF HandleStatus, Types
  <2> QED BY <1>2, <2>1 DEF HandleStatus, LoopTypes
<1>3. ASSUME NEW m \in msgs, HandleProgress(m) PROVE LoopTypes'
  <2>1. m.id \in Processes
    BY <1>3, ProgressForm DEF HandleProgress, Types
  <2> QED BY <1>3, <2>1 DEF HandleProgress, LoopTypes
<1>4. CASE Tick \/ CtrlC \/ Quit
  BY <1>4 DEF Tick, CtrlC, Quit, LoopTypes
<1>5. CASE UNCHANGED vars
  BY <1>5 DEF vars, LoopTypes
<1> QED BY <1>1, <1>2, <1>3, <1>4, <1>5 DEF Next

\* With any number of processes every variable keeps its type. In particular curr, which
\* advances on every status of a serial program without failFast, never passes 2N+1
\* (Update 192-205).
THEOREM TypeCorrect == Spec => []TypeOK
<1> DEFINE Inv == Types /\ Waiting /\ LoopTypes /\ CurrInv
<1>1. Init => Inv
  BY InitKept, CurrInit
<1>2. Inv /\ [Next]_vars => Inv'
  BY TypesKept, WaitingStep, LoopTypesStep, CurrStep
<1>3. Inv => TypeOK
  <2> SUFFICES ASSUME Types, LoopTypes, CurrInv PROVE TypeOK
    OBVIOUS
  <2>1. curr \in 1..2 * N + 1
    <3>1. CASE opt.parallel
      BY SMT, <3>1, NAssumption DEF CurrInv
    <3>2. CASE ~opt.parallel
      <4>1. /\ Cardinality(Underway) \in Nat /\ Cardinality(Unsent) \in Nat /\ Cardinality(Uncalled) \in Nat
            /\ curr + Cardinality(Underway) + Cardinality(Unsent) + Cardinality(Uncalled) <= 2 * N + 1
        BY <3>2, ProcessesFinite, FS_CardinalityType DEF CurrInv
      <4>2. curr \in Nat \ {0} /\ N \in Nat
        BY NAssumption DEF Types
      <4> QED BY SMT, <4>1, <4>2
    <3> QED BY <3>1, <3>2
  <2> QED BY <2>1 DEF Types, LoopTypes, TypeOK, GoStates
<1> HIDE DEF Inv
<1> QED BY <1>1, <1>2, <1>3, PTL DEF Spec
=============================================================================
