------------------------------ MODULE LogsProofs ------------------------------
(***************************************************************************)
(* The path of a machine's log to the user.  Of the tail of the log file:  *)
(* the lines sent are the lines of the file, for any contents and any      *)
(* pieces the file grows in.  Of the follower, which shares no variable    *)
(* with it: a panic is reported, however many lines are written and        *)
(* however the goroutines are scheduled.                                   *)
(***************************************************************************)
EXTENDS LogTail, FollowLogs, FiniteSetTheorems, WellFoundedInduction, TLAPS

\* The leaves are for Zenon, but for those that name SMT.
USE Zenon

Text == Seq(STRING)

----------------------------------------------------------------------------
(* Sequences of bytes.                                                     *)

\* What concatenation and Drop return.
LEMMA Cat ==
    ASSUME NEW f \in Text, NEW g \in Text
    PROVE  /\ f \o g \in Text /\ Len(f \o g) = Len(f) + Len(g) /\ Len(f) \in Nat /\ Len(g) \in Nat
           /\ \A i \in 1 .. Len(f) : (f \o g)[i] = f[i]
           /\ \A i \in 1 .. Len(g) : (f \o g)[Len(f) + i] = g[i]
  BY SMT DEF Text

LEMMA Dropped ==
    ASSUME NEW f \in Text, NEW n \in 0 .. Len(f)
    PROVE  /\ Drop(f, n) \in Text /\ Len(Drop(f, n)) = Len(f) - n /\ Len(f) \in Nat
           /\ \A i \in 1 .. Len(f) - n : Drop(f, n)[i] = f[n + i]
  BY SMT DEF Text, Drop

LEMMA Piece ==
    ASSUME NEW f \in Text, NEW a \in Nat, a > 0, NEW n \in Nat, n <= Len(f)
    PROVE  /\ SubSeq(f, a, n) \in Text
           /\ Len(SubSeq(f, a, n)) = IF a <= n THEN n - a + 1 ELSE 0
           /\ \A i \in 1 .. n - a + 1 : SubSeq(f, a, n)[i] = f[a + i - 1]
  BY SMT DEF Text

LEMMA SamePiece ==
    ASSUME NEW f \in Text, NEW g \in Text, NEW b \in Nat, NEW e \in Nat, e <= Len(f), e <= Len(g),
           e > 0, \A i \in 1 .. e : f[i] = g[i]
    PROVE  SubSeq(f, b + 1, e - 1) = SubSeq(g, b + 1, e - 1)
  BY SMT DEF Text

\* A line gathered from place c of the file, without its newline.
LEMMA SentBytes ==
    ASSUME NEW f \in Text, NEW t \in Text, NEW c \in Nat, NEW n \in Nat, n <= Len(f),
           c + Len(t) = n, Len(t) > 0, \A i \in 1 .. Len(t) : t[i] = f[c + i]
    PROVE  SubSeq(f, c + 1, n - 1) = SubSeq(t, 1, Len(t) - 1)
  BY SMT DEF Text

\* A nonempty set of naturals has a least member.
LEMMA Least ==
    ASSUME NEW T, T \subseteq Nat, T # {}
    PROVE  \E x \in T : \A y \in T : x <= y
<1>1. PICK x \in T : \A y \in T : ~ (<<y, x>> \in OpToRel(<, Nat))
  BY NatLessThanWellFounded, WFMin
<1>2. \A y \in T : ~ (y < x)
  <2> TAKE y \in T
  <2>1. y < x => <<y, x>> \in OpToRel(<, Nat)
    BY DEF OpToRel
  <2> QED BY <1>1, <2>1
<1> QED BY <1>2, SMT

\* NulPrefix counts the NULs at the head (peekAndRead).
LEMMA Nuls ==
    ASSUME NEW f \in Text
    PROVE  NulPrefix(f) \in 0 .. Len(f) /\ \A i \in 1 .. NulPrefix(f) : f[i] = "nul"
<1>1. Len(f) \in Nat
  BY SMT DEF Text
<1>2. CASE \E i \in 1 .. Len(f) : f[i] # "nul"
  <2> DEFINE T == {i \in 1 .. Len(f) : f[i] # "nul"}
  <2>1. PICK x \in T : \A y \in T : x <= y
    <3>1. T \subseteq Nat /\ T # {}
      BY SMT, <1>1, <1>2
    <3> HIDE DEF T
    <3> QED BY <3>1, Least
  <2>2. x \in 1 .. Len(f) /\ f[x] # "nul" /\ \A j \in 1 .. x - 1 : f[j] = "nul"
    <3>1. x \in 1 .. Len(f) /\ f[x] # "nul"
      BY <2>1
    <3>2. ASSUME NEW j \in 1 .. x - 1 PROVE f[j] = "nul"
      <4>1. j \in 1 .. Len(f) /\ ~ (x <= j)
        BY SMT, <1>1, <3>1, <3>2
      <4> QED BY <2>1, <4>1
    <3> QED BY <3>1, <3>2
  <2>3. PICK k : k = CHOOSE i \in 1 .. Len(f) : f[i] # "nul" /\ \A j \in 1 .. i - 1 : f[j] = "nul"
    OBVIOUS
  <2>4. k \in 1 .. Len(f) /\ \A j \in 1 .. k - 1 : f[j] = "nul"
    BY <2>2, <2>3
  <2>5. NulPrefix(f) = k - 1
    BY <1>2, <2>3 DEF NulPrefix
  <2>6. k - 1 \in 0 .. Len(f)
    BY SMT, <1>1, <2>4
  <2> QED BY <2>4, <2>5, <2>6
<1>3. CASE \A i \in 1 .. Len(f) : f[i] = "nul"
  <2>1. NulPrefix(f) = Len(f)
    BY <1>3 DEF NulPrefix
  <2>2. Len(f) \in 0 .. Len(f)
    BY SMT, <1>1
  <2> QED BY <1>3, <2>1, <2>2
<1> QED BY <1>2, <1>3

----------------------------------------------------------------------------
(* Counting line ends.                                                     *)

\* The line ends of a text up to a place, and their number.
EndsUpTo(f, m) == {x \in Ends(f) : x <= m}
UpTo(f, m) == Cardinality(EndsUpTo(f, m))

LEMMA EndsFinite ==
    ASSUME NEW f \in Text
    PROVE  /\ Ends(f) \subseteq 1 .. Len(f) /\ Len(f) \in Nat /\ IsFiniteSet(Ends(f))
           /\ \A m : IsFiniteSet(EndsUpTo(f, m)) /\ UpTo(f, m) \in Nat
<1>1. Ends(f) \subseteq 1 .. Len(f) /\ Len(f) \in Nat
  BY SMT DEF Ends, Text
<1>2. IsFiniteSet(Ends(f))
  <2>1. 1 \in Int /\ Len(f) \in Int
    BY SMT, <1>1
  <2>2. IsFiniteSet(1 .. Len(f))
    BY <2>1, FS_Interval
  <2> QED BY <1>1, <2>2, FS_Subset
<1>3. \A m : IsFiniteSet(EndsUpTo(f, m))
  <2> TAKE m
  <2>1. EndsUpTo(f, m) \subseteq Ends(f)
    BY DEF EndsUpTo
  <2> QED BY <1>2, <2>1, FS_Subset
<1> QED BY <1>1, <1>2, <1>3, FS_CardinalityType DEF UpTo

\* There is no line end before the first byte, and all are up to the last.
LEMMA UpToBounds ==
    ASSUME NEW f \in Text
    PROVE  UpTo(f, 0) = 0 /\ UpTo(f, Len(f)) = Cardinality(Ends(f))
<1>1. Ends(f) \subseteq 1 .. Len(f) /\ Len(f) \in Nat
  BY EndsFinite
<1>2. EndsUpTo(f, 0) = {}
  BY SMT, <1>1 DEF EndsUpTo
<1>3. EndsUpTo(f, Len(f)) = Ends(f)
  BY SMT, <1>1 DEF EndsUpTo
<1> QED BY <1>2, <1>3, FS_EmptySet DEF UpTo

\* The count grows with the place, and not where there is no line end.
LEMMA UpToGrows ==
    ASSUME NEW f \in Text, NEW m \in Nat, NEW n \in Nat, m <= n
    PROVE  /\ UpTo(f, m) <= UpTo(f, n)
           /\ (\A i \in m + 1 .. n : i \notin Ends(f)) => UpTo(f, m) = UpTo(f, n)
<1>1. Ends(f) \subseteq Nat /\ IsFiniteSet(EndsUpTo(f, n))
  <2>1. Ends(f) \subseteq 1 .. Len(f) /\ Len(f) \in Nat /\ IsFiniteSet(EndsUpTo(f, n))
    BY EndsFinite
  <2> QED BY SMT, <2>1
<1>2. EndsUpTo(f, m) \subseteq EndsUpTo(f, n)
  BY SMT, <1>1 DEF EndsUpTo
<1>3. (\A i \in m + 1 .. n : i \notin Ends(f)) => EndsUpTo(f, m) = EndsUpTo(f, n)
  BY SMT, <1>1 DEF EndsUpTo
<1> QED BY <1>1, <1>2, <1>3, FS_Subset DEF UpTo

\* A line end adds one.
LEMMA UpToEnd ==
    ASSUME NEW f \in Text, NEW e \in Ends(f)
    PROVE  e \in Nat /\ e - 1 \in Nat /\ e <= Len(f) /\ UpTo(f, e) = UpTo(f, e - 1) + 1
<1>1. Ends(f) \subseteq 1 .. Len(f) /\ Len(f) \in Nat /\ IsFiniteSet(EndsUpTo(f, e - 1))
  BY EndsFinite
<1>2. e \in Nat /\ e - 1 \in Nat /\ e <= Len(f)
  BY SMT, <1>1
<1>3. EndsUpTo(f, e) = EndsUpTo(f, e - 1) \cup {e} /\ e \notin EndsUpTo(f, e - 1)
  BY SMT, <1>1, <1>2 DEF EndsUpTo
<1> QED BY <1>1, <1>2, <1>3, FS_AddElement DEF UpTo

\* A later line end has a larger number.
LEMMA UpToStrict ==
    ASSUME NEW f \in Text, NEW m \in Nat, NEW e \in Ends(f), m < e
    PROVE  UpTo(f, m) < UpTo(f, e)
<1>1. e \in Nat /\ e - 1 \in Nat /\ UpTo(f, e) = UpTo(f, e - 1) + 1
  BY UpToEnd
<1>2. m <= e - 1
  BY SMT, <1>1
<1>3. UpTo(f, m) <= UpTo(f, e - 1)
  BY <1>1, <1>2, UpToGrows
<1>4. UpTo(f, m) \in Nat /\ UpTo(f, e - 1) \in Nat
  BY EndsFinite
<1> QED BY SMT, <1>1, <1>3, <1>4

\* Starts of lines: the beginning, or a line end.  One has each number.
Bound(f, b) == b = 0 \/ b \in Ends(f)

LEMMA BoundUnique ==
    ASSUME NEW f \in Text, NEW a, NEW b, Bound(f, a), Bound(f, b), UpTo(f, a) = UpTo(f, b)
    PROVE  a = b /\ a \in Nat
<1>1. a \in Nat /\ b \in Nat
  <2>1. 0 \in Nat
    BY SMT
  <2> QED BY <2>1, UpToEnd DEF Bound
<1>2. UpTo(f, a) \in Nat /\ UpTo(f, b) \in Nat
  BY EndsFinite
<1>3. ASSUME NEW x, NEW y, Bound(f, x), Bound(f, y), x \in Nat, y \in Nat, x < y
      PROVE  UpTo(f, x) < UpTo(f, y)
  <2>1. y # 0
    BY SMT, <1>3
  <2>2. y \in Ends(f)
    BY <1>3, <2>1 DEF Bound
  <2> QED BY <1>3, <2>2, UpToStrict
<1>4. ~ (a < b)
  <2>1. a < b => UpTo(f, a) < UpTo(f, b)
    BY <1>1, <1>3
  <2> QED BY SMT, <1>2, <2>1
<1>5. ~ (b < a)
  <2>1. b < a => UpTo(f, b) < UpTo(f, a)
    BY <1>1, <1>3
  <2> QED BY SMT, <1>2, <2>1
<1> QED BY SMT, <1>1, <1>4, <1>5

\* A text with at least k line ends has a k-th.
LEMMA NthExists ==
    ASSUME NEW f \in Text, NEW k \in Nat, k # 0, NEW n \in 0 .. Len(f), k <= UpTo(f, n)
    PROVE  /\ NthEnd(f, k) \in Ends(f) /\ UpTo(f, NthEnd(f, k)) = k /\ NthEnd(f, k) <= n
<1>1. Len(f) \in Nat
  BY EndsFinite
<1> DEFINE T == {m \in Nat : k <= UpTo(f, m)}
<1>2. PICK e \in T : \A y \in T : e <= y
  <2>1. n \in Nat
    BY SMT, <1>1
  <2>2. T \subseteq Nat /\ n \in T
    BY <2>1
  <2> HIDE DEF T
  <2> QED BY <2>2, Least
<1>3. e \in Nat /\ k <= UpTo(f, e) /\ e # 0 /\ e <= n
  <2>1. UpTo(f, 0) = 0
    BY UpToBounds
  <2>2. ~ (k <= 0) /\ n \in Nat
    BY SMT, <1>1
  <2> QED BY <1>2, <2>1, <2>2
<1>4. e - 1 \in Nat /\ ~ (e <= e - 1) /\ e - 1 <= e /\ (e - 1) + 1 = e
  BY SMT, <1>3
<1>5. ~ (k <= UpTo(f, e - 1))
  BY <1>2, <1>4
<1>6. e \in Ends(f)
  <2> SUFFICES ASSUME e \notin Ends(f) PROVE FALSE
    OBVIOUS
  <2>1. \A i \in (e - 1) + 1 .. e : i \notin Ends(f)
    <3>1. \A i \in (e - 1) + 1 .. e : i = e
      BY SMT, <1>3, <1>4
    <3> QED BY <3>1
  <2>2. UpTo(f, e - 1) = UpTo(f, e)
    BY <1>3, <1>4, <2>1, UpToGrows
  <2> QED BY <1>3, <1>5, <2>2
<1>7. UpTo(f, e) = k
  <2>1. UpTo(f, e) = UpTo(f, e - 1) + 1
    BY <1>6, UpToEnd
  <2>2. UpTo(f, e - 1) \in Nat
    BY EndsFinite
  <2> QED BY SMT, <1>3, <1>5, <2>1, <2>2
<1>8. NthEnd(f, k) = CHOOSE x \in Ends(f) : UpTo(f, x) = k
  BY DEF NthEnd, UpTo, EndsUpTo
<1>9. NthEnd(f, k) \in Ends(f) /\ UpTo(f, NthEnd(f, k)) = k
  BY <1>6, <1>7, <1>8
<1>10. NthEnd(f, k) = e
  BY <1>6, <1>7, <1>9, BoundUnique DEF Bound
<1> QED BY <1>3, <1>9, <1>10

\* The first line end: no byte before it is one.
LEMMA FirstEnd ==
    ASSUME NEW f \in Text, Ends(f) # {}
    PROVE  /\ NthEnd(f, 1) \in 1 .. Len(f) /\ f[NthEnd(f, 1)] = "nl"
           /\ \A i \in 1 .. NthEnd(f, 1) - 1 : f[i] # "nl"
<1>1. PICK x : x \in Ends(f)
  OBVIOUS
<1>2. x \in Nat /\ x <= Len(f) /\ UpTo(f, x) = UpTo(f, x - 1) + 1 /\ UpTo(f, x - 1) \in Nat
  BY <1>1, UpToEnd, EndsFinite
<1>3. 1 \in Nat /\ 1 # 0 /\ x \in 0 .. Len(f) /\ 1 <= UpTo(f, x)
  <2>1. Len(f) \in Nat
    BY EndsFinite
  <2> QED BY SMT, <1>2, <2>1
<1>4. PICK e : e = NthEnd(f, 1)
  OBVIOUS
<1>5. e \in Ends(f) /\ UpTo(f, e) = 1
  BY <1>3, <1>4, NthExists
<1>6. e \in 1 .. Len(f) /\ f[e] = "nl" /\ e \in Nat
  BY <1>5, UpToEnd DEF Ends
<1>7. ASSUME NEW i \in 1 .. e - 1, f[i] = "nl" PROVE FALSE
  <2>1. Len(f) \in Nat
    BY EndsFinite
  <2>2. i \in 1 .. Len(f) /\ i \in Nat /\ i < e
    BY SMT, <1>6, <2>1
  <2>3. i \in Ends(f)
    BY <1>7, <2>2 DEF Ends
  <2>4. UpTo(f, i) < 1
    BY <1>5, <2>2, UpToStrict
  <2>5. UpTo(f, i) = UpTo(f, i - 1) + 1 /\ UpTo(f, i - 1) \in Nat
    BY <2>3, UpToEnd, EndsFinite
  <2> QED BY SMT, <2>4, <2>5
<1> QED BY <1>4, <1>6, <1>7

\* Appending to a text leaves its line ends and their numbers alone.
LEMMA UpToAppend ==
    ASSUME NEW f \in Text, NEW g \in Text, NEW m \in 0 .. Len(f)
    PROVE  UpTo(f \o g, m) = UpTo(f, m)
<1>1. /\ Len(f \o g) = Len(f) + Len(g) /\ Len(f) \in Nat /\ Len(g) \in Nat
      /\ \A i \in 1 .. Len(f) : (f \o g)[i] = f[i]
  BY Cat
<1>2. PICK h : h = f \o g
  OBVIOUS
<1>3. EndsUpTo(h, m) = EndsUpTo(f, m)
  BY SMT, <1>1, <1>2 DEF EndsUpTo, Ends
<1> QED BY <1>2, <1>3 DEF UpTo

----------------------------------------------------------------------------
(* The invariant.                                                          *)

\* ReadBytes has bytes in hand.
Reading == pc \in {"read", "line"}

\* Where the buffered bytes begin in the file, and where those do that no line
\* or NUL run taken so far holds.
Start == pos - Len(buf)
Taken == IF Reading THEN Start - Len(s) ELSE Start

\* The buffer, and what ReadBytes has gathered, are the file's bytes before the
\* offset; only a complete line ends in a newline, and it has no other; the byte
\* before a line with discarded NULs is the last of them.
ReadInv ==
    /\ Start \in Nat /\ Taken \in Nat
    /\ \A i \in 1 .. Len(buf) : buf[i] = file[Start + i]
    /\ Reading => /\ \A i \in 1 .. Len(s) : s[i] = file[Taken + i]
                  /\ discarded > 0 => Taken > 0 /\ file[Taken] = "nul"
    /\ pc = "read" => \A i \in 1 .. Len(s) : s[i] # "nl"
    /\ pc = "line" => Len(s) > 0 /\ s[Len(s)] = "nl" /\ \A i \in 1 .. Len(s) - 1 : s[i] # "nl"
    /\ pc = "eof" => Len(buf) = 0

NoNul(n) == \A i \in 1 .. n : file[i] # "nul"

\* No more lines are sent than were taken, and as many up to the first NUL,
\* where what is taken is whole lines.
CountInv ==
    /\ Len(out) <= UpTo(file, Taken)
    /\ \A m \in 0 .. Taken : NoNul(m) => UpTo(file, m) <= Len(out)
    /\ NoNul(Taken) => Bound(file, Taken)

\* The k-th line sent is the bytes between the line ends numbered k - 1 and k.
LineInv ==
    \A k \in 1 .. Len(out) : \A b \in 0 .. Len(file), e \in Ends(file) :
        Bound(file, b) /\ UpTo(file, b) = k - 1 /\ UpTo(file, e) = k /\ NoNul(e)
            => out[k] = SubSeq(file, b + 1, e - 1)

Inv == TypeOK /\ ReadInv /\ CountInv /\ LineInv

LEMMA Initially ==
    Init => Inv
<1> SUFFICES ASSUME Init PROVE Inv
  OBVIOUS
<1>1. /\ file \in Text /\ pos = 0 /\ buf = <<>> /\ s = <<>> /\ discarded = 0 /\ out = <<>>
      /\ pc = "peek" /\ initial = Cardinality(Ends(file))
  BY ConstantsAssumption DEF Init, Text
<1>2. initial \in Nat
  BY <1>1, EndsFinite, FS_CardinalityType
<1>3. TypeOK
  <2>1. /\ buf \in Seq(STRING) /\ s \in Seq(STRING) /\ out \in Seq(Seq(STRING))
        /\ pos \in 0 .. Len(file) /\ discarded \in Nat
    BY SMT, <1>1 DEF Text
  <2> QED BY <1>1, <1>2, <2>1 DEF TypeOK, Init, Text
<1>4. Taken = 0 /\ Start = 0
  <2>1. ~Reading
    BY <1>1 DEF Reading
  <2>2. Len(buf) = 0 /\ pos = 0
    BY SMT, <1>1
  <2>3. pos - Len(buf) = 0
    BY SMT, <2>2
  <2> QED BY <2>1, <2>3 DEF Taken, Start
<1>5. ReadInv
  BY SMT, <1>1, <1>4 DEF ReadInv, Reading
<1>6. Len(out) = 0 /\ 0 <= 0 /\ \A m \in 0 .. 0 : m = 0
  BY SMT, <1>1
<1>7. UpTo(file, 0) = 0
  BY <1>1, UpToBounds
<1>8. CountInv
  BY <1>4, <1>6, <1>7 DEF CountInv, Bound
<1>9. LineInv
  BY SMT, <1>6 DEF LineInv
<1> QED BY <1>3, <1>5, <1>8, <1>9 DEF Inv

\* What a step leaves of the counts when it takes nothing and sends nothing.
LEMMA NothingTaken ==
    ASSUME CountInv, LineInv, UNCHANGED <<file, out>>, Taken' = Taken
    PROVE  CountInv' /\ LineInv'
<1> HIDE DEF Taken
<1>1. file' = file /\ out' = out
  OBVIOUS
<1>2. CountInv'
  BY <1>1 DEF CountInv, NoNul
<1>3. LineInv'
  BY SMT, <1>1 DEF LineInv, NoNul
<1> QED BY <1>2, <1>3

\* The types and places the steps start from.
LEMMA Places ==
    ASSUME TypeOK, ReadInv
    PROVE  /\ file \in Text /\ buf \in Text /\ s \in Text /\ out \in Seq(Text)
           /\ Len(file) \in Nat /\ Len(buf) \in Nat /\ Len(s) \in Nat /\ Len(out) \in Nat
           /\ pos \in Nat /\ pos <= Len(file) /\ discarded \in Nat /\ Start \in Nat /\ Taken \in Nat
           /\ Start = pos - Len(buf) /\ Start + Len(buf) = pos /\ Start <= Len(file)
           /\ Reading => Taken = Start - Len(s) /\ Taken + Len(s) = Start
           /\ ~Reading => Taken = Start
           /\ Taken <= Start /\ Taken \in 0 .. Len(file)
<1>1. /\ file \in Text /\ buf \in Text /\ s \in Text /\ out \in Seq(Text)
      /\ pos \in 0 .. Len(file) /\ discarded \in Nat /\ Start \in Nat /\ Taken \in Nat
  BY DEF TypeOK, ReadInv, Text
<1>2. Len(file) \in Nat /\ Len(buf) \in Nat /\ Len(s) \in Nat /\ Len(out) \in Nat
  BY SMT, <1>1 DEF Text
<1> QED BY SMT, <1>1, <1>2 DEF Start, Taken

LEMMA WriteKeeps ==
    ASSUME Inv, NEW chunk \in Chunks, Write(chunk)
    PROVE  Inv'
<1>1. /\ TypeOK /\ ReadInv /\ CountInv /\ LineInv
  BY DEF Inv
<1>2. chunk \in Text
  BY ConstantsAssumption DEF Text
<1>3. /\ file' = file \o chunk
      /\ held' = held /\ ctx' = ctx /\ pc' = pc /\ out' = out /\ initial' = initial /\ queued' = TRUE
      /\ catchUp' = catchUp /\ pos' = pos /\ buf' = buf /\ s' = s /\ discarded' = discarded
  BY DEF Write, reader
<1>4. /\ file \in Text /\ Len(file) \in Nat /\ pos \in Nat /\ pos <= Len(file) /\ Len(out) \in Nat
      /\ Start \in Nat /\ Start + Len(buf) = pos /\ Len(buf) \in Nat /\ Len(s) \in Nat
      /\ Taken \in Nat /\ Taken <= Start /\ (Reading => Taken + Len(s) = Start)
      /\ Taken \in 0 .. Len(file)
  BY <1>1, Places
<1>5. /\ file' \in Text /\ Len(file') = Len(file) + Len(chunk) /\ Len(chunk) \in Nat
      /\ \A i \in 1 .. Len(file) : file'[i] = file[i]
  BY <1>2, <1>3, <1>4, Cat
<1>6. Start' = Start /\ Taken' = Taken /\ Reading' = Reading
  BY <1>3 DEF Start, Taken, Reading
<1>7. TypeOK'
  <2>1. pos' \in 0 .. Len(file')
    BY SMT, <1>3, <1>4, <1>5
  <2> QED BY <1>1, <1>3, <1>5, <2>1 DEF TypeOK, Text
<1>8. ReadInv'
  <2>1. \A i \in 1 .. Len(buf) : file'[Start + i] = file[Start + i]
    BY SMT, <1>4, <1>5
  <2>2. ASSUME Reading PROVE \A i \in 1 .. Len(s) : file'[Taken + i] = file[Taken + i]
    <3>1. /\ Taken + Len(s) = Start /\ Start + Len(buf) = pos /\ pos <= Len(file)
          /\ Taken \in Nat /\ Start \in Nat /\ pos \in Nat
          /\ Len(s) \in Nat /\ Len(buf) \in Nat /\ Len(file) \in Nat
      BY <1>4, <2>2
    <3>2. \A i \in 1 .. Len(s) : Taken + i \in 1 .. Len(file)
      BY SMTT(20), <3>1
    <3> QED BY <1>5, <3>2
  <2>3. Taken > 0 => file'[Taken] = file[Taken]
    BY SMT, <1>4, <1>5
  <2> QED BY <1>1, <1>3, <1>6, <2>1, <2>2, <2>3 DEF ReadInv
<1>9. \A m \in 0 .. Len(file) : UpTo(file', m) = UpTo(file, m)
  BY <1>2, <1>3, <1>4, UpToAppend
<1>10. \A m \in 0 .. Len(file) : NoNul(m)' <=> NoNul(m)
  <2> TAKE m \in 0 .. Len(file)
  <2>1. \A i \in 1 .. m : i \in 1 .. Len(file)
    BY SMT, <1>4
  <2> QED BY <1>5, <2>1 DEF NoNul
<1>11. \A i \in 1 .. Len(file) : i \in Ends(file') <=> i \in Ends(file)
  <2> TAKE i \in 1 .. Len(file)
  <2>1. i \in 1 .. Len(file')
    BY SMT, <1>4, <1>5
  <2> QED BY <1>5, <2>1 DEF Ends
<1>12. \A b \in 0 .. Len(file) : Bound(file', b) <=> Bound(file, b)
  <2> TAKE b \in 0 .. Len(file)
  <2>1. b = 0 \/ b \in 1 .. Len(file)
    BY SMT, <1>4
  <2> QED BY <1>11, <2>1 DEF Bound
<1>13. CountInv'
  <2>1. \A m \in 0 .. Taken : m \in 0 .. Len(file)
    BY SMT, <1>4
  <2>2. \A m \in 0 .. Taken : NoNul(m)' => UpTo(file', m) <= Len(out)
    BY <1>1, <1>9, <1>10, <2>1 DEF CountInv
  <2>3. Len(out) <= UpTo(file', Taken)
    BY <1>1, <1>4, <1>9 DEF CountInv
  <2>4. NoNul(Taken)' => Bound(file', Taken')
    <3>1. NoNul(Taken)' => NoNul(Taken)
      BY <1>4, <1>6, <1>10 DEF NoNul
    <3> QED BY <1>1, <1>4, <1>6, <1>12, <3>1 DEF CountInv
  <2> QED BY <1>3, <1>6, <2>2, <2>3, <2>4 DEF CountInv, NoNul
<1>14. LineInv'
  <2>0. out' = out
    BY <1>3
  <2> SUFFICES ASSUME NEW k \in 1 .. Len(out), NEW b \in 0 .. Len(file'), NEW e \in Ends(file'),
                      Bound(file', b), UpTo(file', b) = k - 1, UpTo(file', e) = k, NoNul(e)'
               PROVE  out[k] = SubSeq(file', b + 1, e - 1)
    BY SMT, <2>0 DEF LineInv, NoNul
  <2>1. UpTo(file', Len(file)) = UpTo(file, Len(file)) /\ UpTo(file, Taken) <= UpTo(file, Len(file))
    <3>1. Len(file) \in 0 .. Len(file) /\ Taken <= Len(file)
      BY SMT, <1>4
    <3> QED BY <1>4, <1>9, <3>1, UpToGrows
  <2>2. /\ UpTo(file, Taken) \in Nat /\ UpTo(file, Len(file)) \in Nat /\ k \in Nat /\ k <= Len(out)
        /\ Len(out) <= UpTo(file, Taken)
    <3>1. UpTo(file, Taken) \in Nat /\ UpTo(file, Len(file)) \in Nat
      BY <1>4, EndsFinite
    <3>2. k \in Nat /\ k <= Len(out)
      BY SMT, <1>4
    <3> QED BY <1>1, <3>1, <3>2 DEF CountInv
  <2>3. k <= UpTo(file', Len(file))
    BY SMT, <1>4, <2>1, <2>2
  <2>4. e \in Nat /\ e \in 1 .. Len(file')
    BY <1>5, UpToEnd DEF Ends
  <2>5. e <= Len(file)
    <3>1. Len(file) < e => UpTo(file', Len(file)) < k
      BY <1>4, <1>5, UpToStrict
    <3>2. k <= UpTo(file', Len(file)) /\ UpTo(file', Len(file)) \in Nat /\ k \in Nat
      BY <2>1, <2>2, <2>3
    <3>3. Len(file) \in Nat /\ e \in Nat
      BY <1>4, <2>4
    <3> QED BY SMT, <3>1, <3>2, <3>3
  <2>6. e \in 1 .. Len(file) /\ e \in 0 .. Len(file)
    BY SMT, <1>4, <2>4, <2>5
  <2>7. b <= Len(file) /\ b \in Nat
    <3>1. b \in Nat
      BY SMT, <1>4, <1>5
    <3>2. CASE b = 0
      BY SMT, <1>4, <3>2
    <3>3. CASE b \in Ends(file')
      <4>1. Len(file) < b => UpTo(file', Len(file)) < k - 1
        BY <1>4, <1>5, <3>3, UpToStrict
      <4> QED BY SMT, <1>4, <2>1, <2>2, <2>3, <3>1, <4>1
    <3> QED BY <3>2, <3>3, <3>1 DEF Bound
  <2>8. b \in 0 .. Len(file)
    BY SMT, <1>4, <2>7
  <2>9. e \in Ends(file) /\ Bound(file, b) /\ UpTo(file, b) = k - 1 /\ UpTo(file, e) = k /\ NoNul(e)
    BY <1>9, <1>10, <1>11, <1>12, <2>6, <2>8
  <2>10. out[k] = SubSeq(file, b + 1, e - 1)
    BY <1>1, <2>8, <2>9 DEF LineInv
  <2>11. SubSeq(file', b + 1, e - 1) = SubSeq(file, b + 1, e - 1)
    <3>1. e <= Len(file') /\ e > 0 /\ \A i \in 1 .. e : file[i] = file'[i]
      BY SMT, <1>4, <1>5, <2>4, <2>5
    <3>2. file \in Text /\ file' \in Text /\ b \in Nat /\ e \in Nat /\ e <= Len(file)
      BY <1>4, <1>5, <2>4, <2>5, <2>7
    <3>3. SubSeq(file, b + 1, e - 1) = SubSeq(file', b + 1, e - 1)
      BY <3>1, <3>2, SamePiece
    <3> QED BY <3>3
  <2> QED BY <2>10, <2>11
<1> QED BY <1>7, <1>8, <1>13, <1>14 DEF Inv

\* Peek: the discarded NULs are taken, and no line end is among them.
LEMMA PeekKeeps ==
    ASSUME Inv, Peek
    PROVE  Inv'
<1>1. TypeOK /\ ReadInv /\ CountInv /\ LineInv
  BY DEF Inv
<1> DEFINE b == buf \o Drop(file, pos)
           d == NulPrefix(b)
<1>2. /\ pc = "peek" /\ pc' = "read" /\ s' = <<>> /\ pos' = Len(file) /\ buf' = Drop(b, d)
      /\ discarded' = d /\ file' = file /\ out' = out /\ initial' = initial
      /\ queued' = queued /\ held' = held /\ ctx' = ctx /\ catchUp' = catchUp
  BY DEF Peek, notify
<1>3. /\ file \in Text /\ buf \in Text /\ Len(file) \in Nat /\ Len(buf) \in Nat /\ Len(out) \in Nat
      /\ pos \in Nat /\ pos <= Len(file) /\ Start \in Nat /\ Start + Len(buf) = pos
      /\ Taken \in Nat /\ Taken = Start
  <2>1. ~Reading
    BY <1>2 DEF Reading
  <2> QED BY <1>1, <2>1, Places
<1>4. /\ Drop(file, pos) \in Text /\ Len(Drop(file, pos)) = Len(file) - pos
      /\ \A i \in 1 .. Len(file) - pos : Drop(file, pos)[i] = file[pos + i]
  <2>1. pos \in 0 .. Len(file)
    BY SMT, <1>3
  <2> QED BY <1>3, <2>1, Dropped
<1>5. b \in Text /\ Len(b) = Len(file) - Taken /\ \A i \in 1 .. Len(b) : b[i] = file[Taken + i]
  <2>1. /\ b \in Text /\ Len(b) = Len(buf) + Len(Drop(file, pos))
        /\ \A i \in 1 .. Len(buf) : b[i] = buf[i]
        /\ \A i \in 1 .. Len(Drop(file, pos)) : b[Len(buf) + i] = Drop(file, pos)[i]
    BY <1>3, <1>4, Cat
  <2> HIDE DEF b
  <2>2. Len(b) = Len(file) - Taken
    <3>1. Len(b) = Len(buf) + Len(Drop(file, pos)) /\ Len(Drop(file, pos)) = Len(file) - pos
      BY <1>4, <2>1
    <3>2. /\ Len(file) \in Nat /\ Len(buf) \in Nat /\ pos \in Nat /\ Taken \in Nat
          /\ Taken + Len(buf) = pos
      BY <1>3
    <3> QED BY SMT, <3>1, <3>2
  <2>3. \A i \in 1 .. Len(buf) : buf[i] = file[Taken + i]
    BY <1>1, <1>3 DEF ReadInv
  <2>4. ASSUME NEW i \in 1 .. Len(b) PROVE b[i] = file[Taken + i]
    <3>1. CASE i <= Len(buf)
      <4>1. i \in 1 .. Len(buf)
        BY SMT, <1>3, <2>2, <3>1
      <4> QED BY <2>1, <2>3, <4>1
    <3>2. CASE ~ (i <= Len(buf))
      <4>1. PICK l, m : l = Len(buf) /\ m = Len(Drop(file, pos))
        OBVIOUS
      <4>2. l \in Nat /\ m \in Nat /\ Taken \in Nat /\ i \in 1 .. l + m /\ ~ (i <= l)
        <5>1. m \in Nat
          BY SMT, <1>4, <4>1 DEF Text
        <5> QED BY <1>3, <2>1, <3>2, <4>1, <5>1
      <4>3. i - l \in 1 .. m /\ l + (i - l) = i /\ (Taken + l) + (i - l) = Taken + i
        BY SMT, <4>2
      <4>4. b[l + (i - l)] = Drop(file, pos)[i - l]
        BY <2>1, <4>1, <4>3
      <4>5. Drop(file, pos)[i - l] = file[pos + (i - l)]
        BY <1>4, <4>1, <4>3
      <4>6. pos = Taken + l
        BY <1>3, <4>1
      <4> QED BY <4>3, <4>4, <4>5, <4>6
    <3> QED BY <3>1, <3>2
  <2> QED BY <2>1, <2>2, <2>4
<1>6. d \in 0 .. Len(b) /\ \A i \in 1 .. d : b[i] = "nul"
  BY <1>5, Nuls
<1> HIDE DEF d, b
<1>7. /\ buf' \in Text /\ Len(buf') = Len(b) - d /\ \A i \in 1 .. Len(b) - d : buf'[i] = b[d + i]
  BY <1>2, <1>5, <1>6, Dropped
<1>8. d \in Nat /\ d <= Len(b) /\ Len(b) \in Nat /\ Taken + d \in Nat /\ Taken + d <= Len(file)
  BY SMT, <1>3, <1>5, <1>6
<1>9. s' \in Text /\ Len(s') = 0
  BY SMT, <1>2 DEF Text
<1>10. Start' = Taken + d
  <2>1. Len(file) - Len(buf') = Taken + d
    BY SMT, <1>3, <1>5, <1>7, <1>8
  <2> QED BY <1>2, <2>1 DEF Start
<1>11. Reading' /\ Taken' = Taken + d
  <2>1. Reading'
    BY <1>2 DEF Reading
  <2>2. Start' - Len(s') = Taken + d
    BY SMT, <1>8, <1>9, <1>10
  <2> QED BY <2>1, <2>2 DEF Taken
<1>12. TypeOK'
  <2>1. pos' \in 0 .. Len(file')
    BY SMT, <1>2, <1>3
  <2> QED BY <1>1, <1>2, <1>7, <1>8, <1>9, <2>1 DEF TypeOK, Text
<1>13. d > 0 => Taken + d > 0 /\ file[Taken + d] = "nul"
  <2>1. d > 0 => d \in 1 .. d /\ d \in 1 .. Len(b) /\ Taken + d > 0
    <3>1. d \in Nat /\ d <= Len(b) /\ Len(b) \in Nat /\ Taken \in Nat
      BY <1>3, <1>8
    <3> QED BY SMT, <3>1
  <2> QED BY <1>5, <1>6, <2>1
<1>14. ReadInv'
  <2>1. \A i \in 1 .. Len(buf') : buf'[i] = file[(Taken + d) + i]
    BY SMT, <1>3, <1>5, <1>7, <1>8
  <2>2. 1 .. Len(s') = {}
    BY SMT, <1>9
  <2>3. pc' # "line" /\ pc' # "eof"
    BY <1>2
  <2>4. discarded' > 0 => Taken' > 0 /\ file'[Taken'] = "nul"
    BY <1>2, <1>11, <1>13
  <2>5. \A i \in 1 .. Len(buf') : buf'[i] = file'[Start' + i]
    BY <1>2, <1>10, <2>1
  <2>6. Start' \in Nat /\ Taken' \in Nat
    BY <1>8, <1>10, <1>11
  <2> QED BY <2>2, <2>3, <2>4, <2>5, <2>6 DEF ReadInv
<1>15. \A m \in 0 .. Taken + d : NoNul(m) => m \in 0 .. Taken
  <2> SUFFICES ASSUME NEW m \in 0 .. Taken + d, NoNul(m), ~ (m \in 0 .. Taken) PROVE FALSE
    OBVIOUS
  <2>1. 1 \in 1 .. d /\ 1 \in 1 .. Len(b) /\ Taken + 1 \in 1 .. m
    BY SMT, <1>3, <1>8
  <2>2. file[Taken + 1] = "nul"
    BY <1>5, <1>6, <2>1
  <2> QED BY <2>1, <2>2 DEF NoNul
<1>16. CountInv'
  <2>1. UpTo(file, Taken) <= UpTo(file, Taken + d)
    <3>1. Taken <= Taken + d
      BY SMT, <1>3, <1>8
    <3> QED BY <1>3, <1>8, <3>1, UpToGrows
  <2>2. Len(out) <= UpTo(file, Taken + d)
    <3>1. UpTo(file, Taken) \in Nat /\ UpTo(file, Taken + d) \in Nat /\ Len(out) <= UpTo(file, Taken)
      BY <1>1, <1>3, EndsFinite DEF CountInv
    <3> QED BY SMT, <1>3, <2>1, <3>1
  <2>3. \A m \in 0 .. Taken + d : NoNul(m) => UpTo(file, m) <= Len(out)
    BY <1>1, <1>15 DEF CountInv
  <2>4. NoNul(Taken + d) => Bound(file, Taken + d)
    <3>1. Taken + d \in 0 .. Taken + d
      BY SMT, <1>8
    <3>2. Taken + d \in 0 .. Taken => Taken + d = Taken
      BY SMT, <1>3, <1>8
    <3> QED BY <1>1, <1>15, <3>1, <3>2 DEF CountInv
  <2> QED BY <1>2, <1>11, <2>2, <2>3, <2>4 DEF CountInv, NoNul
<1>17. LineInv'
  BY SMT, <1>1, <1>2 DEF LineInv, NoNul
<1> QED BY <1>12, <1>14, <1>16, <1>17 DEF Inv

\* ReadBytes finds a newline.
LEMMA ReadLineKeeps ==
    ASSUME Inv, ReadLine
    PROVE  Inv'
<1>1. TypeOK /\ ReadInv /\ CountInv /\ LineInv
  BY DEF Inv
<1>2. PICK e : e = NthEnd(buf, 1)
  OBVIOUS
<1>3. /\ pc = "read" /\ pc' = "line" /\ s' = s \o SubSeq(buf, 1, e) /\ buf' = Drop(buf, e)
      /\ file' = file /\ out' = out /\ initial' = initial /\ discarded' = discarded /\ pos' = pos
      /\ queued' = queued /\ held' = held /\ ctx' = ctx /\ catchUp' = catchUp /\ Ends(buf) # {}
  BY <1>2 DEF ReadLine, notify
<1>4. Reading /\ Reading'
  BY <1>3 DEF Reading
<1>5. /\ file \in Text /\ buf \in Text /\ s \in Text /\ Len(buf) \in Nat /\ Len(s) \in Nat
      /\ pos \in Nat /\ Start \in Nat /\ Start + Len(buf) = pos
      /\ Taken \in Nat /\ Taken + Len(s) = Start
  BY <1>1, <1>4, Places
<1>6. e \in 1 .. Len(buf) /\ buf[e] = "nl" /\ \A i \in 1 .. e - 1 : buf[i] # "nl"
  BY <1>2, <1>3, <1>5, FirstEnd
<1>7. e \in Nat /\ e > 0 /\ e <= Len(buf) /\ e \in 0 .. Len(buf)
  BY SMT, <1>5, <1>6
<1>8. /\ buf' \in Text /\ Len(buf') = Len(buf) - e /\ \A i \in 1 .. Len(buf) - e : buf'[i] = buf[e + i]
  BY <1>3, <1>5, <1>7, Dropped
<1>9. PICK t : t = SubSeq(buf, 1, e)
  OBVIOUS
<1>10. t \in Text /\ Len(t) = e /\ \A i \in 1 .. e : t[i] = buf[i]
  BY SMT, <1>5, <1>7, <1>9 DEF Text
<1>11. /\ s' \in Text /\ Len(s') = Len(s) + e
       /\ \A i \in 1 .. Len(s) : s'[i] = s[i]
       /\ \A i \in 1 .. e : s'[Len(s) + i] = buf[i]
  <2>1. s' = s \o t
    BY <1>3, <1>9
  <2>2. /\ s' \in Text /\ Len(s') = Len(s) + Len(t)
        /\ \A i \in 1 .. Len(s) : s'[i] = s[i]
        /\ \A i \in 1 .. Len(t) : s'[Len(s) + i] = t[i]
    BY <1>5, <1>10, <2>1, Cat
  <2> QED BY <1>10, <2>2
<1>12. Start' = Start + e /\ Taken' = Taken
  <2>1. pos - Len(buf') = Start + e /\ (Start + e) - Len(s') = Taken
    <3>1. Len(buf') = Len(buf) - e /\ Len(s') = Len(s) + e
      BY <1>8, <1>11
    <3>2. /\ pos \in Nat /\ Start \in Nat /\ Len(buf) \in Nat /\ Len(s) \in Nat /\ Taken \in Nat
          /\ Start + Len(buf) = pos /\ Taken + Len(s) = Start /\ e \in Nat
      BY <1>5, <1>7
    <3> QED BY SMT, <3>1, <3>2
  <2>2. Start' = Start + e
    BY <1>3, <2>1 DEF Start
  <2> QED BY <1>4, <2>1, <2>2 DEF Taken
<1>13. TypeOK'
  BY <1>1, <1>3, <1>8, <1>11 DEF TypeOK, Text
<1>14. ReadInv'
  <2>1. /\ \A i \in 1 .. Len(buf) : buf[i] = file[Start + i]
        /\ \A i \in 1 .. Len(s) : s[i] = file[Taken + i] /\ s[i] # "nl"
        /\ discarded > 0 => Taken > 0 /\ file[Taken] = "nul"
    BY <1>1, <1>3, <1>4 DEF ReadInv
  <2>2. \A i \in 1 .. Len(buf') : buf'[i] = file[(Start + e) + i]
    BY SMT, <1>5, <1>7, <1>8, <2>1
  <2>3. ASSUME NEW i \in 1 .. Len(s')
        PROVE  s'[i] = file[Taken + i] /\ (i # Len(s') => s'[i] # "nl") /\ (i = Len(s') => s'[i] = "nl")
    <3>1. CASE i <= Len(s)
      <4>1. i \in 1 .. Len(s) /\ i # Len(s')
        BY SMT, <1>5, <1>7, <1>11, <3>1
      <4> QED BY <1>11, <2>1, <4>1
    <3>2. CASE ~ (i <= Len(s))
      <4>1. PICK j : j = i - Len(s)
        OBVIOUS
      <4>2. /\ j \in 1 .. e /\ Len(s) + j = i /\ Start + j = Taken + i
            /\ (i = Len(s') => j = e) /\ (i # Len(s') => j \in 1 .. e - 1)
        <5>1. PICK l : l = Len(s)
          OBVIOUS
        <5>2. l \in Nat /\ e \in Nat /\ Taken \in Nat /\ i \in 1 .. l + e /\ ~ (i <= l)
          BY <1>5, <1>7, <1>11, <3>2, <5>1
        <5>3. /\ i - l \in 1 .. e /\ l + (i - l) = i /\ (Taken + l) + (i - l) = Taken + i
              /\ (i = l + e => i - l = e) /\ (i # l + e => i - l \in 1 .. e - 1)
          BY SMT, <5>2
        <5> QED BY <1>5, <1>11, <4>1, <5>1, <5>3
      <4>3. j \in 1 .. Len(buf)
        BY SMT, <1>5, <1>7, <4>2
      <4> QED BY <1>6, <1>11, <2>1, <4>2, <4>3
    <3> QED BY <3>1, <3>2
  <2>4. /\ Len(s') > 0 /\ Len(s') \in 1 .. Len(s') /\ Start + e \in Nat
        /\ \A i \in 1 .. Len(s') - 1 : i \in 1 .. Len(s') /\ i # Len(s')
    BY SMT, <1>5, <1>7, <1>11
  <2>5. Len(s') > 0 /\ s'[Len(s')] = "nl" /\ \A i \in 1 .. Len(s') - 1 : s'[i] # "nl"
    BY <2>3, <2>4
  <2>6. \A i \in 1 .. Len(buf') : buf'[i] = file'[Start' + i]
    BY <1>3, <1>12, <2>2
  <2>7. \A i \in 1 .. Len(s') : s'[i] = file'[Taken' + i]
    BY <1>3, <1>12, <2>3
  <2>8. pc' # "read" /\ pc' # "eof"
    BY <1>3
  <2>9. Start' \in Nat /\ Taken' \in Nat /\ (discarded' > 0 => Taken' > 0 /\ file'[Taken'] = "nul")
    BY <1>3, <1>5, <1>12, <2>1, <2>4
  <2> QED BY <2>5, <2>6, <2>7, <2>8, <2>9 DEF ReadInv
<1>15. CountInv' /\ LineInv'
  BY <1>1, <1>3, <1>12, NothingTaken
<1> QED BY <1>13, <1>14, <1>15 DEF Inv

\* ReadBytes has no newline yet and the file goes on.
LEMMA ReadMoreKeeps ==
    ASSUME Inv, ReadMore
    PROVE  Inv'
<1>1. TypeOK /\ ReadInv /\ CountInv /\ LineInv
  BY DEF Inv
<1>2. /\ pc = "read" /\ pc' = pc /\ s' = s \o buf /\ buf' = Drop(file, pos) /\ pos' = Len(file)
      /\ file' = file /\ out' = out /\ initial' = initial /\ discarded' = discarded
      /\ queued' = queued /\ held' = held /\ ctx' = ctx /\ catchUp' = catchUp /\ Ends(buf) = {}
  BY DEF ReadMore, notify
<1>3. Reading /\ Reading'
  BY <1>2 DEF Reading
<1>4. /\ file \in Text /\ buf \in Text /\ s \in Text /\ Len(buf) \in Nat /\ Len(s) \in Nat
      /\ Len(file) \in Nat /\ pos \in Nat /\ pos <= Len(file) /\ Start \in Nat /\ Start + Len(buf) = pos
      /\ Taken \in Nat /\ Taken + Len(s) = Start
  BY <1>1, <1>3, Places
<1>5. /\ buf' \in Text /\ Len(buf') = Len(file) - pos
      /\ \A i \in 1 .. Len(file) - pos : buf'[i] = file[pos + i]
  <2>1. pos \in 0 .. Len(file)
    BY SMT, <1>4
  <2> QED BY <1>2, <1>4, <2>1, Dropped
<1>6. /\ s' \in Text /\ Len(s') = Len(s) + Len(buf)
      /\ \A i \in 1 .. Len(s) : s'[i] = s[i]
      /\ \A i \in 1 .. Len(buf) : s'[Len(s) + i] = buf[i]
  BY <1>2, <1>4, Cat
<1>7. Start' = pos /\ Taken' = Taken
  <2>1. Len(file) - Len(buf') = pos /\ pos - Len(s') = Taken
    BY SMT, <1>4, <1>5, <1>6
  <2>2. Start' = pos
    BY <1>2, <2>1 DEF Start
  <2> QED BY <1>3, <2>1, <2>2 DEF Taken
<1>8. TypeOK'
  <2>1. pos' \in 0 .. Len(file')
    BY SMT, <1>2, <1>4
  <2> QED BY <1>1, <1>2, <1>5, <1>6, <2>1 DEF TypeOK, Text
<1>9. ReadInv'
  <2>1. /\ \A i \in 1 .. Len(buf) : buf[i] = file[Start + i]
        /\ \A i \in 1 .. Len(s) : s[i] = file[Taken + i] /\ s[i] # "nl"
        /\ discarded > 0 => Taken > 0 /\ file[Taken] = "nul"
    BY <1>1, <1>2, <1>3 DEF ReadInv
  <2>2. \A i \in 1 .. Len(buf) : buf[i] # "nl"
    BY <1>2 DEF Ends
  <2>3. ASSUME NEW i \in 1 .. Len(s') PROVE s'[i] = file[Taken + i] /\ s'[i] # "nl"
    <3>1. CASE i <= Len(s)
      <4>1. i \in 1 .. Len(s)
        BY SMT, <1>4, <1>6, <3>1
      <4> QED BY <1>6, <2>1, <4>1
    <3>2. CASE ~ (i <= Len(s))
      <4>1. PICK j : j = i - Len(s)
        OBVIOUS
      <4>2. j \in 1 .. Len(buf) /\ Len(s) + j = i /\ Start + j = Taken + i
        <5>1. PICK l, m : l = Len(s) /\ m = Len(buf)
          OBVIOUS
        <5>2. l \in Nat /\ m \in Nat /\ Taken \in Nat /\ i \in 1 .. l + m /\ ~ (i <= l)
          BY <1>4, <1>6, <3>2, <5>1
        <5>3. i - l \in 1 .. m /\ l + (i - l) = i /\ (Taken + l) + (i - l) = Taken + i
          BY SMT, <5>2
        <5> QED BY <1>4, <4>1, <5>1, <5>3
      <4> QED BY <1>6, <2>1, <2>2, <4>2
    <3> QED BY <3>1, <3>2
  <2>4. pc' = "read" /\ pc' # "line" /\ pc' # "eof"
    BY <1>2
  <2>5. /\ \A i \in 1 .. Len(buf') : buf'[i] = file'[Start' + i]
        /\ \A i \in 1 .. Len(s') : s'[i] = file'[Taken' + i] /\ s'[i] # "nl"
    BY <1>2, <1>5, <1>7, <2>3
  <2>6. Start' \in Nat /\ Taken' \in Nat /\ (discarded' > 0 => Taken' > 0 /\ file'[Taken'] = "nul")
    BY <1>2, <1>4, <1>7, <2>1
  <2> QED BY <2>4, <2>5, <2>6 DEF ReadInv
<1>10. CountInv' /\ LineInv'
  BY <1>1, <1>2, <1>7, NothingTaken
<1> QED BY <1>8, <1>9, <1>10 DEF Inv

\* The end of the file: the offset is back where the unfinished line begins.
LEMMA ReadEOFKeeps ==
    ASSUME Inv, ReadEOF
    PROVE  Inv'
<1>1. TypeOK /\ ReadInv /\ CountInv /\ LineInv
  BY DEF Inv
<1>2. /\ pc = "read" /\ pc' = "eof" /\ s' = s \o buf /\ buf' = <<>> /\ pos' = pos - Len(s \o buf)
      /\ file' = file /\ out' = out /\ initial' = initial /\ discarded' = discarded
      /\ queued' = queued /\ held' = held /\ ctx' = ctx /\ catchUp' = catchUp
  BY DEF ReadEOF, notify
<1>3. Reading /\ ~Reading'
  BY <1>2 DEF Reading
<1>4. /\ file \in Text /\ buf \in Text /\ s \in Text /\ Len(buf) \in Nat /\ Len(s) \in Nat
      /\ Len(file) \in Nat /\ pos \in Nat /\ pos <= Len(file) /\ Start \in Nat /\ Start + Len(buf) = pos
      /\ Taken \in Nat /\ Taken + Len(s) = Start
  BY <1>1, <1>3, Places
<1>5. s' \in Text /\ Len(s \o buf) = Len(s) + Len(buf)
  BY <1>2, <1>4, Cat
<1>6. buf' \in Text /\ Len(buf') = 0
  BY SMT, <1>2 DEF Text
<1>7. pos' = Taken /\ pos' \in 0 .. Len(file) /\ Taken - 0 = Taken
  <2>1. pos - (Len(s) + Len(buf)) = Taken /\ Taken \in 0 .. Len(file) /\ Taken - 0 = Taken
    BY SMT, <1>4
  <2> QED BY <1>2, <1>5, <2>1
<1>8. Start' = Taken /\ Taken' = Taken
  <2>1. Start' = Taken
    BY <1>6, <1>7 DEF Start
  <2> QED BY <1>3, <2>1 DEF Taken
<1>9. TypeOK'
  BY <1>1, <1>2, <1>5, <1>6, <1>7 DEF TypeOK, Text
<1>10. ReadInv'
  <2>1. 1 .. Len(buf') = {}
    BY SMT, <1>6
  <2>2. pc' # "read" /\ pc' # "line"
    BY <1>2
  <2> QED BY <1>3, <1>4, <1>6, <1>8, <2>1, <2>2 DEF ReadInv
<1>11. CountInv' /\ LineInv'
  BY <1>1, <1>2, <1>8, NothingTaken
<1> QED BY <1>9, <1>10, <1>11 DEF Inv

\* A line is sent.
LEMMA SendLineKeeps ==
    ASSUME Inv, SendLine
    PROVE  Inv'
<1>1. TypeOK /\ ReadInv /\ CountInv /\ LineInv
  BY DEF Inv
<1>2. /\ pc = "line" /\ file' = file /\ initial' = initial /\ discarded' = discarded /\ pos' = pos
      /\ buf' = buf /\ s' = s /\ queued' = queued /\ held' = held /\ ctx' = ctx /\ catchUp' = catchUp
      /\ pc' \in {"peek", "select"}
      /\ out' = IF Len(s) > discarded THEN Append(out, SubSeq(s, discarded + 1, Len(s) - 1)) ELSE out
  BY DEF SendLine, Continue, notify
<1>3. Reading /\ ~Reading'
  BY <1>2 DEF Reading
<1>4. PICK c, n : c = Taken /\ n = Start
  OBVIOUS
<1>5. /\ file \in Text /\ s \in Text /\ out \in Seq(Text) /\ Len(s) \in Nat /\ Len(file) \in Nat
      /\ Len(out) \in Nat /\ discarded \in Nat /\ n \in Nat /\ c \in Nat /\ c + Len(s) = n
      /\ n <= Len(file)
  BY <1>1, <1>3, <1>4, Places
<1>6. /\ \A i \in 1 .. Len(s) : s[i] = file[c + i]
      /\ Len(s) > 0 /\ s[Len(s)] = "nl" /\ \A i \in 1 .. Len(s) - 1 : s[i] # "nl"
      /\ discarded > 0 => c > 0 /\ file[c] = "nul"
  BY <1>1, <1>2, <1>3, <1>4 DEF ReadInv
<1>7. Start' = n /\ Taken' = n
  <2>1. Start' = n
    BY <1>2, <1>4 DEF Start
  <2> QED BY <1>3, <2>1 DEF Taken
<1>8. PICK t : t = SubSeq(s, discarded + 1, Len(s) - 1)
  OBVIOUS
<1>9. t \in Text
  <2>1. discarded + 1 \in Nat /\ discarded + 1 > 0 /\ Len(s) - 1 \in Nat /\ Len(s) - 1 <= Len(s)
    BY SMT, <1>5, <1>6
  <2> QED BY <1>5, <1>8, <2>1, Piece
<1>10. \/ /\ Len(s) > discarded /\ out' \in Seq(Text) /\ Len(out') = Len(out) + 1
          /\ out'[Len(out) + 1] = t /\ \A k \in 1 .. Len(out) : out'[k] = out[k]
       \/ ~ (Len(s) > discarded) /\ out' = out
  <2>1. CASE Len(s) > discarded
    <3>1. out' = Append(out, t)
      BY <1>2, <1>8, <2>1
    <3>2. /\ Append(out, t) \in Seq(Text) /\ Len(Append(out, t)) = Len(out) + 1
          /\ Append(out, t)[Len(out) + 1] = t /\ \A k \in 1 .. Len(out) : Append(out, t)[k] = out[k]
      <4>1. out \in Seq(Text)
        BY <1>5
      <4> QED BY SMT, <1>9, <4>1
    <3> QED BY <2>1, <3>1, <3>2
  <2> QED BY <1>2, <2>1
<1>11. /\ Len(out') \in Nat /\ Len(out) <= Len(out') /\ Len(out') <= Len(out) + 1
       /\ \A k \in 1 .. Len(out) : out'[k] = out[k]
  <2>1. Len(out) <= Len(out) + 1 /\ Len(out) <= Len(out) /\ Len(out) + 1 <= Len(out) + 1 /\ Len(out) + 1 \in Nat
    BY SMT, <1>5
  <2> QED BY <1>5, <1>10, <2>1
<1>12. TypeOK'
  <2>1. pc' \in {"peek", "read", "line", "eof", "select", "done"}
    BY <1>2
  <2>2. out' \in Seq(Seq(STRING))
    BY <1>5, <1>10 DEF Text
  <2> QED BY <1>1, <1>2, <2>1, <2>2 DEF TypeOK
<1>13. ReadInv'
  <2>1. pc' # "read" /\ pc' # "line" /\ pc' # "eof"
    BY <1>2
  <2>2. \A i \in 1 .. Len(buf) : buf[i] = file[n + i]
    BY <1>1, <1>4 DEF ReadInv
  <2> QED BY <1>2, <1>3, <1>5, <1>7, <2>1, <2>2 DEF ReadInv

\* The line's end is the next after the place it begins.
<1>14. n \in Ends(file) /\ \A i \in c + 1 .. n - 1 : i \notin Ends(file)
  <2>1. Len(s) \in 1 .. Len(s) /\ n \in 1 .. Len(file)
    BY SMT, <1>5, <1>6
  <2>2. file[n] = "nl"
    BY <1>5, <1>6, <2>1
  <2>3. ASSUME NEW i \in c + 1 .. n - 1 PROVE file[i] # "nl"
    <3>1. i - c \in 1 .. Len(s) /\ i - c \in 1 .. Len(s) - 1 /\ c + (i - c) = i
      <4>1. c \in Nat /\ n \in Nat /\ Len(s) \in Nat /\ c + Len(s) = n
        BY <1>5
      <4> QED BY SMT, <4>1
    <3>2. s[i - c] = file[c + (i - c)] /\ s[i - c] # "nl"
      BY <1>6, <3>1
    <3> QED BY <3>1, <3>2
  <2> QED BY <2>1, <2>2, <2>3 DEF Ends
<1>15. UpTo(file, n) = UpTo(file, c) + 1 /\ UpTo(file, c) \in Nat
  <2>1. n - 1 \in Nat /\ UpTo(file, n) = UpTo(file, n - 1) + 1
    BY <1>5, <1>14, UpToEnd
  <2>2. c <= n - 1
    BY SMT, <1>5, <1>6
  <2>3. UpTo(file, c) = UpTo(file, n - 1)
    <3>1. file \in Text /\ c \in Nat
      BY <1>5
    <3>2. (\A i \in c + 1 .. n - 1 : i \notin Ends(file)) => UpTo(file, c) = UpTo(file, n - 1)
      BY <2>1, <2>2, <3>1, UpToGrows
    <3> QED BY <1>14, <3>2
  <2> QED BY <1>5, <2>1, <2>3, EndsFinite
<1>16. /\ Len(out) <= UpTo(file, c)
       /\ \A m \in 0 .. c : NoNul(m) => UpTo(file, m) <= Len(out)
       /\ NoNul(c) => Bound(file, c)
  BY <1>1, <1>4 DEF CountInv

\* Before the first NUL nothing has been discarded, and all is sent.
<1>17. ASSUME NoNul(c)
       PROVE  /\ UpTo(file, c) = Len(out) /\ discarded = 0 /\ Len(s) > discarded
              /\ Len(out') = Len(out) + 1 /\ out'[Len(out) + 1] = t
  <2>1. c \in 0 .. c
    BY SMT, <1>5
  <2>2. UpTo(file, c) <= Len(out)
    BY <1>16, <1>17, <2>1
  <2>3. UpTo(file, c) = Len(out)
    BY SMT, <1>5, <1>15, <1>16, <2>2
  <2>4. discarded = 0
    <3>1. c > 0 => c \in 1 .. c
      BY SMT, <1>5
    <3>2. ~ (discarded > 0)
      BY <1>6, <1>17, <3>1 DEF NoNul
    <3> QED BY SMT, <1>5, <3>2
  <2>5. Len(s) > discarded
    BY <1>6, <2>4
  <2> QED BY <1>10, <2>3, <2>4, <2>5
<1>18. \A m \in Nat : c <= m /\ NoNul(m) => NoNul(c)
  <2> TAKE m \in Nat
  <2>1. c <= m => \A i \in 1 .. c : i \in 1 .. m
    BY SMT, <1>5
  <2> QED BY <2>1 DEF NoNul
<1>19. CountInv'
  <2>1. Len(out') <= UpTo(file, n)
    BY SMT, <1>5, <1>11, <1>15, <1>16
  <2>2. ASSUME NEW m \in 0 .. n, NoNul(m) PROVE UpTo(file, m) <= Len(out')
    <3>1. m \in Nat /\ UpTo(file, m) \in Nat
      <4>1. m \in Nat
        BY SMT, <1>5
      <4> QED BY <1>5, <4>1, EndsFinite
    <3>2. CASE m <= c
      <4>1. m \in 0 .. c
        BY SMT, <1>5, <3>1, <3>2
      <4>2. UpTo(file, m) <= Len(out)
        BY <1>16, <2>2, <4>1
      <4> QED BY SMT, <1>5, <1>11, <3>1, <4>2
    <3>3. CASE ~ (m <= c)
      <4>1. c <= m /\ m <= n
        BY SMT, <1>5, <3>1, <3>3
      <4>2. UpTo(file, m) <= UpTo(file, n)
        BY <1>5, <3>1, <4>1, UpToGrows
      <4>3. UpTo(file, c) = Len(out) /\ Len(out') = Len(out) + 1
        BY <1>17, <1>18, <2>2, <3>1, <4>1
      <4> QED BY <1>15, <4>2, <4>3
    <3> QED BY <3>2, <3>3
  <2>3. Bound(file, n)
    BY <1>14 DEF Bound
  <2> QED BY <1>2, <1>7, <2>1, <2>2, <2>3 DEF CountInv, NoNul
<1>20. LineInv'
  <2>0. file' = file
    BY <1>2
  <2> SUFFICES ASSUME NEW k \in 1 .. Len(out'), NEW b \in 0 .. Len(file), NEW e \in Ends(file),
                      Bound(file, b), UpTo(file, b) = k - 1, UpTo(file, e) = k, NoNul(e)
               PROVE  out'[k] = SubSeq(file, b + 1, e - 1)
    BY SMT, <2>0 DEF LineInv, NoNul
  <2>1. k \in Nat /\ (k \in 1 .. Len(out) \/ (k = Len(out) + 1 /\ ~ (k <= Len(out))))
    <3>1. Len(out) \in Nat /\ Len(out') \in Nat /\ Len(out') <= Len(out) + 1
      BY <1>5, <1>11
    <3> QED BY SMT, <3>1
  <2>2. CASE k \in 1 .. Len(out)
    <3>1. out[k] = SubSeq(file, b + 1, e - 1)
      BY <1>1, <2>2 DEF LineInv
    <3> QED BY <1>11, <2>2, <3>1
  <2>3. CASE k = Len(out) + 1 /\ ~ (k <= Len(out))
    <3>1. e \in Nat
      BY <1>5, UpToEnd
    <3>2. ~ (e <= c)
      <4>1. e <= c => e \in 0 .. c
        BY SMT, <1>5, <3>1
      <4> QED BY <1>16, <2>3, <4>1
    <3>3. c <= e /\ e >= n
      <4>1. e \notin c + 1 .. n - 1
        BY <1>14
      <4> QED BY SMT, <1>5, <3>1, <3>2, <4>1
    <3>4. NoNul(c)
      BY <1>18, <3>1, <3>3
    <3>5. UpTo(file, c) = Len(out) /\ discarded = 0 /\ out'[k] = t
      BY <1>17, <2>3, <3>4
    <3>6. e = n
      <4>1. UpTo(file, e) = UpTo(file, n)
        BY <1>15, <2>3, <3>5
      <4> QED BY <1>5, <1>14, <4>1, BoundUnique DEF Bound
    <3>7. b = c
      <4>1. UpTo(file, b) = UpTo(file, c)
        <5>1. (Len(out) + 1) - 1 = Len(out)
          BY SMT, <1>5
        <5> QED BY <2>3, <3>5, <5>1
      <4> QED BY <1>5, <1>16, <3>4, <4>1, BoundUnique
    <3>8. SubSeq(file, c + 1, n - 1) = SubSeq(s, 1, Len(s) - 1)
      <4>1. /\ file \in Text /\ s \in Text /\ c \in Nat /\ n \in Nat /\ n <= Len(file)
            /\ c + Len(s) = n /\ Len(s) > 0 /\ \A i \in 1 .. Len(s) : s[i] = file[c + i]
        BY <1>5, <1>6
      <4> QED BY <4>1, SentBytes
    <3>9. t = SubSeq(s, 1, Len(s) - 1)
      <4>1. 0 + 1 = 1
        BY SMT
      <4> QED BY <1>8, <3>5, <4>1
    <3> QED BY <3>5, <3>6, <3>7, <3>8, <3>9
  <2> QED BY <2>1, <2>2, <2>3
<1> QED BY <1>12, <1>13, <1>19, <1>20 DEF Inv

\* The other steps leave the file, the buffer and the lines alone.
LEMMA OthersKeep ==
    ASSUME Inv, Fetch \/ Cancel \/ SendEOF \/ Notified \/ Cancelled \/ UNCHANGED vars
    PROVE  Inv'
<1>1. TypeOK /\ ReadInv /\ CountInv /\ LineInv
  BY DEF Inv
<1>2. /\ file' = file /\ pos' = pos /\ buf' = buf /\ s' = s /\ discarded' = discarded /\ out' = out
      /\ initial' = initial
      /\ queued' \in BOOLEAN /\ held' \in BOOLEAN /\ ctx' \in BOOLEAN /\ catchUp' \in BOOLEAN
      /\ \/ pc' = pc
         \/ pc \in {"eof", "select"} /\ pc' \in {"peek", "select", "done"}
  BY <1>1 DEF TypeOK, Fetch, Cancel, SendEOF, Notified, Cancelled, vars, reader, notify
<1>3. (Reading <=> Reading') /\ (pc' \in {"read", "line", "eof"} => pc = pc')
  BY <1>2 DEF Reading
<1>4. Start' = Start /\ Taken' = Taken
  BY <1>2, <1>3 DEF Start, Taken
<1>5. TypeOK'
  BY <1>1, <1>2 DEF TypeOK
<1>6. ReadInv'
  BY <1>1, <1>2, <1>3, <1>4 DEF ReadInv
<1>7. CountInv' /\ LineInv'
  BY <1>1, <1>2, <1>4, NothingTaken
<1> QED BY <1>5, <1>6, <1>7 DEF Inv

----------------------------------------------------------------------------
(* The theorems about the tail.                                            *)

\* The invariant holds in every reachable state of the tail.
THEOREM TailInvariant == Spec => []Inv
<1>1. Inv /\ [Next]_vars => Inv'
  <2> SUFFICES ASSUME Inv, [Next]_vars PROVE Inv'
    OBVIOUS
  <2> QED BY WriteKeeps, PeekKeeps, ReadLineKeeps, ReadMoreKeeps, ReadEOFKeeps, SendLineKeeps,
             OthersKeep DEF Next, TailStep
<1> QED BY Initially, <1>1, PTL DEF Spec

\* The variables of the tail and of the file keep their types, and the offset
\* stays within the file (NewLogTail, peekAndRead).
THEOREM TailTypes == Spec => []TypeOK
<1>1. Inv => TypeOK
  BY DEF Inv
<1> QED BY TailInvariant, <1>1, PTL

\* The lines sent are the lines of the file, whole and in order, up to the first
\* NUL, for any contents and pieces (peekAndRead).
THEOREM LinesWhole == Spec => []LinesIntact
<1>1. Inv => LinesIntact
  <2> SUFFICES ASSUME Inv PROVE LinesIntact
    OBVIOUS
  <2>1. TypeOK /\ ReadInv /\ CountInv /\ LineInv
    BY DEF Inv
  <2>2. file \in Text /\ Len(file) \in Nat /\ Len(out) \in Nat /\ Taken \in 0 .. Len(file) /\ Taken \in Nat
    BY <2>1, Places
  <2>3. /\ Len(out) <= UpTo(file, Taken) /\ UpTo(file, Taken) \in Nat /\ UpTo(file, Len(file)) \in Nat
        /\ UpTo(file, Taken) <= UpTo(file, Len(file))
    <3>1. Taken <= Len(file)
      BY SMT, <2>2
    <3> QED BY <2>1, <2>2, <3>1, EndsFinite, UpToGrows DEF CountInv
  <2>4. Len(out) <= UpTo(file, Len(file))
    BY SMT, <2>2, <2>3
  <2>5. Len(out) <= Cardinality(Ends(file))
    BY <2>2, <2>4, UpToBounds
  <2>6. ASSUME NEW k \in 1 .. Len(out), \A i \in 1 .. NthEnd(file, k) : file[i] # "nul"
        PROVE  out[k] = Line(k)
    <3>1. /\ k \in Nat /\ k # 0 /\ k <= UpTo(file, Len(file)) /\ Len(file) \in 0 .. Len(file)
          /\ k - 1 \in Nat /\ (k - 1 # 0 => k - 1 <= UpTo(file, Len(file)))
      BY SMT, <2>2, <2>3, <2>4
    <3>2. PICK e : e = NthEnd(file, k)
      OBVIOUS
    <3>3. e \in Ends(file) /\ UpTo(file, e) = k /\ NoNul(e)
      BY <2>2, <2>6, <3>1, <3>2, NthExists DEF NoNul
    <3>4. PICK b : b = NthEnd(file, k - 1)
      OBVIOUS
    <3>5. b \in 0 .. Len(file) /\ Bound(file, b) /\ UpTo(file, b) = k - 1
      <4>1. CASE k - 1 = 0
        <5>1. b = 0
          BY <3>4, <4>1 DEF NthEnd
        <5>2. 0 \in 0 .. Len(file)
          BY SMT, <2>2
        <5> QED BY <2>2, <4>1, <5>1, <5>2, UpToBounds DEF Bound
      <4>2. CASE k - 1 # 0
        <5>1. b \in Ends(file) /\ UpTo(file, b) = k - 1 /\ b <= Len(file)
          BY <2>2, <3>1, <3>4, <4>2, NthExists
        <5>2. b \in Nat
          BY <2>2, <5>1, UpToEnd
        <5>3. b \in 0 .. Len(file)
          BY SMT, <2>2, <5>1, <5>2
        <5> QED BY <5>1, <5>3 DEF Bound
      <4> QED BY <4>1, <4>2
    <3>6. out[k] = SubSeq(file, b + 1, e - 1)
      BY <2>1, <3>3, <3>5 DEF LineInv
    <3> QED BY <3>2, <3>4, <3>6 DEF Line
  <2> QED BY <2>5, <2>6 DEF LinesIntact
<1> QED BY TailInvariant, <1>1, PTL

----------------------------------------------------------------------------
(* The follower.                                                           *)

\* Without an interrupt only the watcher cancels the context, and it then ends: what it
\* was told of is in exitErr before FollowLogs can see the context cancelled, and it is
\* told of nothing afterwards.
PanicInv ==
    /\ main = "list" => watch = "off" /\ result = "none"
    /\ ~interrupted =>
          /\ ctxDone => watch \in {"fail", "done"}
          /\ sawPanic => exitErr /\ watch = "done"
          /\ result = "ok" => ~sawPanic /\ watch \in {"off", "fail", "done"}

\* The actions that touch neither the watcher nor the result.
LEMMA PanicInvOthers ==
    ASSUME PanicInv, WriteLine \/ Exit \/ Gone \/ TailLineStep \/ MonStep \/ UNCHANGED followVars
    PROVE  PanicInv'
BY SMT DEF PanicInv, WriteLine, Exit, Gone, TailLineStep, TailRead, TailNotified,
       TailCancelled, MonStep, MonCancelled, MonGet, MonAccept, followVars, outcome, machine, tailing, monitor

\* The watcher sets exitErr and cancels the context in one step, and ends.
LEMMA PanicInvWatch == ASSUME PanicInv, WatchStep PROVE PanicInv'
<1> USE DEF PanicInv, outcome, machine, tailing, monitor
<1>1. CASE WatchOpen
  BY SMT, <1>1 DEF WatchOpen
<1>2. CASE WatchFailsAtEOF
  BY SMT, <1>2 DEF WatchFailsAtEOF
<1>3. CASE WatchFails
  BY SMT, <1>3 DEF WatchFails
<1>4. CASE WatchSetErr
  BY SMT, <1>4 DEF WatchSetErr
<1>5. CASE WatchEvent
  <2>1. watch = "loop" /\ UNCHANGED <<main, interrupted, result>>
    BY SMT, <1>5 DEF WatchEvent
  <2>2. CASE UNCHANGED <<watch, exitErr, ctxDone, sawPanic>>
    BY SMT, <2>1, <2>2
  <2>3. CASE watch' = "done" /\ exitErr' = (offer # "exited") /\ sawPanic' = (offer = "errored")
    <3>1. offer = "errored" => offer # "exited"
      OBVIOUS
    <3>2. sawPanic' => exitErr'
      BY <2>3, <3>1
    <3>3. ~interrupted => result # "ok"
      BY SMT, <2>1
    <3> QED BY SMT, <2>1, <2>3, <3>2, <3>3
  <2> QED BY SMT, <1>5, <2>2, <2>3 DEF WatchEvent
<1>6. CASE WatchCancelled
  BY SMT, <1>6 DEF WatchCancelled
<1> QED BY SMT, <1>1, <1>2, <1>3, <1>4, <1>5, <1>6 DEF WatchStep

\* FollowLogs returns nil from a cancelled context only when exitErr is not set.
LEMMA PanicInvMain == ASSUME PanicInv, MainStep \/ Interrupt PROVE PanicInv'
<1> USE DEF PanicInv, outcome, machine, tailing, monitor, Return
<1>1. CASE Follow \/ Copy
  BY SMT, <1>1 DEF Follow, Copy
<1>2. CASE MainLine
  BY SMT, <1>2 DEF MainLine
<1>3. CASE MainEOF
  BY SMT, <1>3 DEF MainEOF
<1>4. CASE MainErr
  BY SMT, <1>4 DEF MainErr
<1>5. CASE LogsCancelled
  BY SMT, <1>5 DEF LogsCancelled
<1>6. CASE MainCancelled
  BY SMT, <1>6 DEF MainCancelled
<1>7. CASE Cleanup
  BY SMT, <1>7 DEF Cleanup
<1>8. CASE Interrupt
  BY SMT, <1>8 DEF Interrupt
<1> QED BY SMT, <1>1, <1>2, <1>3, <1>4, <1>5, <1>6, <1>7, <1>8 DEF MainStep

\* With any number of lines and any preamble, a panic the watcher was told of is not
\* returned as success unless the user interrupted (FollowLogs 247-301).
THEOREM PanicReported == FollowSpec => []PanicIsReported
<1>1. FollowInit => PanicInv
  BY SMT DEF FollowInit, PanicInv
<1>2. PanicInv /\ [FollowNext]_followVars => PanicInv'
  BY PanicInvOthers, PanicInvWatch, PanicInvMain DEF FollowNext
<1>3. PanicInv => PanicIsReported
  BY SMT DEF PanicInv, PanicIsReported
<1> QED BY <1>1, <1>2, <1>3, PTL DEF FollowSpec

\* The lines that FollowLogs has received are lines that the tail has taken, one less while
\* the tail is sending one; a log that is copied has no tail.
ShownInv ==
    /\ main = "list" => tail = "off" /\ shown = 0
    /\ main \in {"logs", "loop"} => shown <= read /\ (tail = "line" => shown < read)

\* Every step of QEMU, of the user and of the four goroutines keeps it, and the types.
LEMMA FollowTypesStep ==
    ASSUME FollowTypeOK, ShownInv, [FollowNext]_followVars
    PROVE  FollowTypeOK' /\ ShownInv'
<1> USE DEF FollowTypeOK, ShownInv, machine, tailing, monitor, outcome
<1>1. CASE WriteLine
  BY SMT, <1>1, LinesAssumption DEF WriteLine
<1>2. CASE Exit
  BY SMT, <1>2 DEF Exit
<1>3. CASE Gone
  BY SMT, <1>3 DEF Gone
<1>4. CASE Interrupt
  BY SMT, <1>4 DEF Interrupt
<1>5. CASE TailRead
  BY SMT, <1>5 DEF TailRead
<1>6. CASE TailNotified
  BY SMT, <1>6 DEF TailNotified
<1>7. CASE TailCancelled
  BY SMT, <1>7 DEF TailCancelled
<1>8. CASE MonCancelled
  BY SMT, <1>8 DEF MonCancelled
<1>9. CASE MonGet
  <2>1. PICK st \in Reported :
           \/ st = "error" /\ mon' = "send" /\ offer' = "error" /\ UNCHANGED firstCall
           \/ st # "error" /\ firstCall /\ mon' = "send" /\ offer' = st /\ firstCall' = FALSE
           \/ st # "error" /\ ~firstCall /\ mon' = "accept" /\ UNCHANGED <<offer, firstCall>>
    BY <1>9 DEF MonGet
  <2>2. st \in {"running", "exited", "error"}
    BY SMT DEF Reported
  <2>3. mon' \in {"send", "accept"} /\ (offer' = offer \/ offer' = st) /\ (firstCall' = firstCall \/ firstCall' = FALSE)
    BY <2>1
  <2>4. UNCHANGED <<vm, event, written, note, tail, tailCatchUp, read, watch, main, shown, eof, exitErr,
                    ctxDone, interrupted, result, sawPanic>>
    BY <1>9 DEF MonGet
  <2>5. ({tailCatchUp, firstCall, eof, exitErr, ctxDone, interrupted, sawPanic} \subseteq BOOLEAN)'
    BY <2>3, <2>4
  <2> QED BY SMT, <2>2, <2>3, <2>4, <2>5
<1>10. CASE MonAccept
  BY SMT, <1>10 DEF MonAccept
<1>11. CASE WatchOpen
  BY SMT, <1>11 DEF WatchOpen
<1>12. CASE WatchFailsAtEOF
  BY SMT, <1>12 DEF WatchFailsAtEOF
<1>13. CASE WatchFails
  BY SMT, <1>13 DEF WatchFails
<1>14. CASE WatchSetErr
  BY SMT, <1>14 DEF WatchSetErr
<1>15. CASE WatchEvent
  <2>1. UNCHANGED <<vm, event, written, note, tail, tailCatchUp, read, firstCall, offer, main, shown, eof,
                    interrupted, result>>
    BY <1>15 DEF WatchEvent
  <2>2. /\ mon' \in {"get", "done"} /\ watch' \in {watch, "done"} /\ ctxDone' \in {ctxDone, TRUE}
        /\ exitErr' \in {exitErr, offer # "exited"} /\ sawPanic' \in {sawPanic, offer = "errored"}
    BY <1>15 DEF WatchEvent
  <2>3. (offer # "exited") \in BOOLEAN /\ (offer = "errored") \in BOOLEAN
    OBVIOUS
  <2>4. ctxDone' \in BOOLEAN /\ exitErr' \in BOOLEAN /\ sawPanic' \in BOOLEAN
    BY <2>2, <2>3
  <2> QED BY SMT, <2>1, <2>2, <2>4
<1>16. CASE WatchCancelled
  BY SMT, <1>16 DEF WatchCancelled
<1>17. CASE Follow
  BY SMT, <1>17 DEF Follow
<1>18. CASE Copy
  BY SMT, <1>18 DEF Copy
<1>19. CASE MainLine
  BY SMT, <1>19 DEF MainLine, LineSent
<1>20. CASE MainEOF
  <2>1. UNCHANGED <<vm, event, written, note, read, mon, firstCall, offer, watch, main, shown, exitErr,
                    ctxDone, interrupted, result, sawPanic>>
    BY <1>20 DEF MainEOF, EOFSent
  <2>2. tail' = "select" /\ tailCatchUp' = FALSE /\ main # "list"
    BY <1>20 DEF MainEOF, EOFSent
  <2>3. eof' \in BOOLEAN
    BY <1>20 DEF MainEOF
  <2>4. ({tailCatchUp, firstCall, eof, exitErr, ctxDone, interrupted, sawPanic} \subseteq BOOLEAN)'
    BY <2>1, <2>2, <2>3
  <2> QED BY SMT, <2>1, <2>2, <2>4
<1>21. CASE MainErr
  BY SMT, <1>21 DEF MainErr, ErrSent, Return
<1>22. CASE LogsCancelled
  BY SMT, <1>22 DEF LogsCancelled
<1>23. CASE MainCancelled
  BY SMT, <1>23 DEF MainCancelled, Return
<1>24. CASE Cleanup
  BY SMT, <1>24 DEF Cleanup
<1>25. CASE UNCHANGED followVars
  BY SMT, <1>25 DEF followVars
<1> QED BY <1>1, <1>2, <1>3, <1>4, <1>5, <1>6, <1>7, <1>8, <1>9, <1>10, <1>11, <1>12, <1>13, <1>14,
           <1>15, <1>16, <1>17, <1>18, <1>19, <1>20, <1>21, <1>22, <1>23, <1>24, <1>25
        DEF FollowNext, TailLineStep, MonStep, WatchStep, MainStep

\* With any number of lines and any preamble every variable keeps its type; in particular
\* FollowLogs shows no line that was not written.
THEOREM FollowTypes == FollowSpec => []FollowTypeOK
<1>1. FollowInit => FollowTypeOK /\ ShownInv
  <2>1. FollowInit => {tailCatchUp, firstCall, eof, exitErr, ctxDone, interrupted, sawPanic} \subseteq BOOLEAN
    BY DEF FollowInit
  <2> QED BY SMT, <2>1, LinesAssumption DEF FollowInit, FollowTypeOK, ShownInv
<1>2. (FollowTypeOK /\ ShownInv) /\ [FollowNext]_followVars => (FollowTypeOK /\ ShownInv)'
  BY FollowTypesStep
<1> QED BY <1>1, <1>2, PTL DEF FollowSpec
=============================================================================
