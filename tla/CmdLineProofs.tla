----------------------------- MODULE CmdLineProofs -----------------------------
(***************************************************************************)
(* Proofs about the command line reader, for a line buffer, a read buffer  *)
(* and a DTE of any size: the types, that every line is run as it was      *)
(* typed, that what is typed ahead is kept, and what may end the session.  *)
(***************************************************************************)
EXTENDS CmdLine, Induction

Tape == Byte \cup {"data", "BACK"}

LEMMA Sizes ==
  /\ CmdMax \in Nat /\ CmdMax >= 1 /\ BufR \in Nat /\ BufR >= 1 /\ Hosts \subseteq BOOLEAN
  /\ \A c \in {"CR", "BS", "^C", "CTL", "NUL", "data", "BACK"} : c \notin Letters
BY CmdAssumption

LEMMA Kinds ==
  /\ "CR" \in Byte /\ "BS" \in Byte /\ "^C" \in Byte /\ "CTL" \in Byte
  /\ \A c \in Byte : c \in Tape
  /\ \A c \in Byte : c \notin {"CR", "BS", "^C", "CTL"} <=> c \in Letters
  /\ \A c \in Tape : c \in Byte <=> c \notin {"data", "BACK"}
BY Sizes DEF Byte, Tape

-----------------------------------------------------------------------------
(* Editing: the lines in what has been taken. *)

Pages == [done : Seq(Seq(Letters)), line : Seq(Letters)]

LEMMA PageIs ==
  ASSUME NEW d \in Seq(Seq(Letters)), NEW l \in Seq(Letters)
  PROVE  [done |-> d, line |-> l] \in Pages
BY DEF Pages

LEMMA EditType ==
  ASSUME NEW a \in Pages, NEW c \in Tape
  PROVE  edit(a, c) \in Pages
<1>. DEFINE z == <<>>
            d == a.done
            l == a.line
<1>1. d \in Seq(Seq(Letters)) /\ l \in Seq(Letters) /\ z \in Seq(Letters) /\ Len(l) \in Nat
  BY EmptySeq, LenProperties DEF Pages
<1>2. a = [done |-> d, line |-> l]
  BY DEF Pages
<1>. HIDE DEF d, l, z
<1>3. CASE c = "CR"
  <2>1. edit(a, c) = [done |-> Append(d, l), line |-> z]
    BY <1>3 DEF edit, d, l, z
  <2>2. Append(d, l) \in Seq(Seq(Letters))
    BY <1>1, AppendProperties
  <2>. QED BY <1>1, <2>1, <2>2, PageIs
<1>4. CASE c = "BS"
  <2>1. edit(a, c) = [done |-> d, line |-> SubSeq(l, 1, Len(l) - 1)]
    BY <1>2, <1>4 DEF edit
  <2>2. SubSeq(l, 1, Len(l) - 1) \in Seq(Letters)
    BY <1>1, SubSeqProperties
  <2>. QED BY <1>1, <2>1, <2>2, PageIs
<1>5. CASE c \in {"^C", "BACK"}
  <2>1. edit(a, c) = [done |-> d, line |-> z]
    BY <1>2, <1>5 DEF edit, z
  <2>. QED BY <1>1, <2>1, PageIs
<1>6. CASE c \in {"CTL", "data"}
  BY <1>6 DEF edit
<1>7. CASE c \in Letters
  <2>. DEFINE k == Least(CmdMax, Len(l) + 1)
              s == Append(l, c)
  <2>1. edit(a, c) = [done |-> d, line |-> SubSeq(s, 1, k)]
    BY <1>2, <1>7, Sizes DEF edit
  <2>2. s \in Seq(Letters) /\ Len(s) = Len(l) + 1
    BY <1>1, <1>7, AppendProperties
  <2>3. k \in 0..Len(s)
    BY <1>1, <2>2, Sizes DEF Least
  <2>. HIDE DEF s, k
  <2>4. SubSeq(s, 1, k) \in Seq(Letters)
    BY <2>2, <2>3, Cut
  <2>. QED BY <1>1, <2>1, <2>4, PageIs
<1>. QED BY <1>3, <1>4, <1>5, <1>6, <1>7 DEF Tape, Byte

editOf == [p \in Pages \X Tape |-> edit(p[1], p[2])]

LEMMA EditOfType == editOf \in Steps(Pages, Tape)
BY EditType DEF editOf, Steps

Blank == [done |-> <<>>, line |-> <<>>]

LEMMA BlankType == Blank \in Pages
<1>1. <<>> \in Seq(Letters) /\ <<>> \in Seq(Seq(Letters))
  BY EmptySeq
<1>. QED BY <1>1, PageIs DEF Blank

LEMMA EditFold ==
  ASSUME NEW s \in Seq(Tape)
  PROVE  Edited(s) = FoldOf(s, Pages, Blank, editOf)
<1>. DEFINE N == Len(s)
            z == Blank
            from[n \in 0..N] ==
              IF n = 0 THEN [done |-> <<>>, line |-> <<>>] ELSE edit(from[n - 1], s[n])
<1>1. N \in Nat /\ z \in Pages /\ \A n \in 1..N : s[n] \in Tape /\ n - 1 \in 0..N
  BY EmptyLen, ElementOfSeq, BlankType
<1>2. Edited(s) = from[N]
  BY DEF Edited, from
<1>3. \A a \in Pages, c \in Tape : editOf[<<a, c>>] = edit(a, c)
  BY DEF editOf
<1>. HIDE DEF N, z
<1>4. PICK f : FoldRun(f, s, Pages, z, editOf)
  BY <1>1, EditOfType, FoldExists
<1>. DEFINE F(n) == IF n = 0 THEN z ELSE edit(f[n - 1], s[n])
            E(n) == IF n = 0 THEN z ELSE edit(from[n - 1], s[n])
<1>. HIDE DEF from
<1>5. f \in [0..N -> Pages] /\ f[0] = z
  BY <1>4 DEF FoldRun, N
<1>6. ASSUME NEW n \in 1..N PROVE f[n] = F(n)
  <2>1. f[n] = editOf[<<f[n - 1], s[n]>>] /\ f[n - 1] \in Pages /\ s[n] \in Tape /\ n # 0
    BY <1>1, <1>4, <1>5 DEF FoldRun, N
  <2>. QED BY <2>1, <1>3
<1>7. \A n \in 0..N : f[n] = F(n)
  <2>1. F(0) = z
    OBVIOUS
  <2>2. \A n \in 0..N : n = 0 \/ n \in 1..N
    BY <1>1
  <2>. HIDE DEF F
  <2>. QED BY <1>5, <1>6, <2>1, <2>2
<1>8. f = [n \in 0..N |-> F(n)]
  <2>. HIDE DEF F
  <2>. QED BY <1>5, <1>7
<1>9. from = [n \in 0..N |-> E(n)]
  BY <1>8 DEF from, z, Blank
<1>10. \A n \in 0..N : from[n] = E(n)
  <2>. HIDE DEF E
  <2>. QED BY <1>9
<1>11. DOMAIN from = 0..N /\ from = [n \in DOMAIN from |-> from[n]] /\ from[0] = z
  <2>1. DOMAIN from = 0..N /\ from = [n \in DOMAIN from |-> from[n]]
    <3>. HIDE DEF E
    <3>. QED BY <1>9
  <2>2. 0 \in 0..N
    BY <1>1
  <2>. QED BY <2>1, <2>2, <1>10
<1>12. ASSUME NEW n \in 1..N, from[n - 1] \in Pages
       PROVE  from[n] = editOf[<<from[n - 1], s[n]>>]
  <2>1. from[n] = E(n) /\ n # 0
    BY <1>1, <1>10
  <2>. QED BY <2>1, <1>12, <1>1, <1>3
<1>13. FoldSteps(from, s, Pages, z, editOf)
  <2>. HIDE DEF E, F
  <2>. QED BY <1>11, <1>12 DEF FoldSteps, N
<1>14. FoldOf(s, Pages, z, editOf) = from[Len(s)]
  <2>. HIDE DEF E, F
  <2>. QED BY <1>1, <1>13, EditOfType, FoldLoop
<1>. QED BY <1>2, <1>14 DEF N, z

\* The line is edited byte by byte.
LEMMA EditedAppend ==
  /\ Edited(<<>>) = Blank
  /\ \A s \in Seq(Tape) : Edited(s) \in Pages
  /\ \A s \in Seq(Tape), c \in Tape : Edited(Append(s, c)) = edit(Edited(s), c)
<1>. DEFINE z == <<>>
<1>1. z \in Seq(Tape) /\ Len(z) \in {0}
  BY EmptySeq
<1>2. \A a \in Pages, c \in Tape : editOf[<<a, c>>] = edit(a, c)
  BY DEF editOf
<1>3. \A s \in Seq(Tape) : Edited(s) = FoldOf(s, Pages, Blank, editOf)
  BY EditFold
<1>. HIDE DEF z
<1>4. ASSUME NEW s \in Seq(Tape), NEW c \in Tape
      PROVE  /\ FoldOf(s, Pages, Blank, editOf) \in Pages
             /\ FoldOf(Append(s, c), Pages, Blank, editOf)
                  = editOf[<<FoldOf(s, Pages, Blank, editOf), c>>]
  BY EditOfType, BlankType, FoldType, FoldAppend
<1>5. FoldOf(z, Pages, Blank, editOf) = Blank
  BY <1>1, EditOfType, BlankType, FoldNone
<1>6. \A s \in Seq(Tape) : Edited(s) \in Pages
  <2>1. "CR" \in Tape
    BY Kinds
  <2>. QED BY <2>1, <1>3, <1>4
<1>7. ASSUME NEW s \in Seq(Tape), NEW c \in Tape
      PROVE  Edited(Append(s, c)) = edit(Edited(s), c)
  <2>1. Append(s, c) \in Seq(Tape)
    BY AppendProperties
  <2>2. Edited(Append(s, c)) = editOf[<<Edited(s), c>>]
    BY <2>1, <1>3, <1>4
  <2>. QED BY <2>2, <1>2, <1>6
<1>8. Edited(z) = Blank
  BY <1>1, <1>3, <1>5
<1>. QED BY <1>6, <1>7, <1>8 DEF z

-----------------------------------------------------------------------------
(* The reader's record. *)

Buffers == [0..CmdMax -> Letters \cup {"NUL"}]

\* The last byte that was taken in command mode is a Ctrl-C.
EndsInCtrlC(t) == \E i \in 1..Len(t) : t[i] = "^C" /\ \A k \in (i + 1)..Len(t) : t[k] \notin Byte

\* What holds of the reader whatever the DTE does: the last place of the buffer
\* is always the terminator, what is in front of the pointer has been typed, and
\* Ctrl-C is armed by a Ctrl-C, which empties the line.
Good == {x \in Reader :
    /\ x.buf[CmdMax] = "NUL"
    /\ \A i \in 0..CmdMax : i < x.ptr => x.buf[i] \in Letters
    /\ x.armed => x.ptr = 0 /\ ~x.eol /\ EndsInCtrlC(x.taken)}

\* The unfinished line, in the buffer.
draft(b, p) == [i \in 1..p |-> b[i - 1]]

\* The lines that were run or are about to be, and the unfinished one.
page(x) == IF x.eol THEN [done |-> Append(x.ran, cString(x.buf)), line |-> <<>>]
           ELSE [done |-> x.ran, line |-> draft(x.buf, x.ptr)]

\* The reader has made of the bytes it took what editing them makes of them.
Told(x) == Edited(x.taken) = page(x)

LEMMA GoodIs ==
  ASSUME NEW x \in Good
  PROVE  /\ x.state \in {"CMD", "AWAY", "DONE"} /\ x.ttyR \in Seq(Byte) /\ x.buf \in Buffers
         /\ x.ptr \in 0..CmdMax /\ x.eol \in BOOLEAN /\ x.armed \in BOOLEAN
         /\ x.quitReq \in BOOLEAN /\ x.ttyW \in BOOLEAN /\ x.taken \in Seq(Tape)
         /\ x.ran \in Seq(Seq(Letters))
         /\ x.buf[CmdMax] = "NUL"
         /\ \A i \in 0..CmdMax : i < x.ptr => x.buf[i] \in Letters
         /\ x.armed => x.ptr = 0 /\ ~x.eol /\ EndsInCtrlC(x.taken)
         /\ x = [state |-> x.state, ttyR |-> x.ttyR, buf |-> x.buf, ptr |-> x.ptr,
                 eol |-> x.eol, armed |-> x.armed, quitReq |-> x.quitReq, ttyW |-> x.ttyW,
                 taken |-> x.taken, ran |-> x.ran]
BY DEF Good, Reader, Buffers, Tape

LEMMA CStringIs ==
  ASSUME NEW b \in Buffers, NEW p \in 0..CmdMax, b[p] = "NUL",
         \A i \in 0..CmdMax : i < p => b[i] \in Letters
  PROVE  cString(b) = draft(b, p) /\ cString(b) \in Seq(Letters) /\ Len(cString(b)) = p
<1>. DEFINE R(i) == b[i] = "NUL" /\ \A j \in 0..(i - 1) : b[j] # "NUL"
            n == CHOOSE i \in 0..CmdMax : R(i)
<1>1. R(p)
  BY Sizes
<1>2. ASSUME NEW i \in 0..CmdMax, R(i) PROVE i = p
  <2>1. ~ (i < p)
    BY <1>2, Sizes
  <2>2. ~ (p < i)
    <3>1. p < i => p \in 0..(i - 1)
      BY Sizes
    <3>. QED BY <3>1, <1>2
  <2>. QED BY <2>1, <2>2, Sizes
<1>3. n = p
  <2>. HIDE DEF R
  <2>. QED BY <1>1, <1>2
<1>4. cString(b) = [i \in 1..n |-> b[i - 1]]
  BY DEF cString
<1>5. cString(b) = draft(b, p)
  BY <1>3, <1>4 DEF draft
<1>6. draft(b, p) \in [1..p -> Letters]
  <2>1. ASSUME NEW i \in 1..p PROVE b[i - 1] \in Letters
    <3>1. i - 1 \in 0..CmdMax /\ i - 1 < p
      BY Sizes
    <3>. QED BY <3>1
  <2>. QED BY <2>1 DEF draft
<1>7. p \in Nat
  BY Sizes
<1>8. draft(b, p) \in Seq(Letters) /\ Len(draft(b, p)) = p
  <2>. DEFINE d == draft(b, p)
  <2>1. d \in [1..p -> Letters]
    BY <1>6
  <2>. HIDE DEF d
  <2>2. d \in Seq(Letters) /\ Len(d) = p
    BY <1>7, <2>1, IsASeq, LenProperties
  <2>. QED BY <2>2 DEF d
<1>. QED BY <1>5, <1>8

\* There is a string in the buffer in every state.
LEMMA CStringType ==
  ASSUME NEW b \in Buffers, b[CmdMax] = "NUL"
  PROVE  cString(b) \in Seq(Letters)
<1>. DEFINE T == {i \in 0..CmdMax : b[i] = "NUL"}
<1>1. T \subseteq Nat /\ CmdMax \in T
  BY Sizes
<1>2. PICK p \in T : \A y \in T : p <= y
  <2>. HIDE DEF T
  <2>. QED BY <1>1, NatMin
<1>3. p \in 0..CmdMax /\ b[p] = "NUL"
  OBVIOUS
<1>4. ASSUME NEW i \in 0..CmdMax, i < p PROVE b[i] \in Letters
  <2>1. i \notin T
    BY <1>2, <1>3, <1>4, Sizes
  <2>. QED BY <2>1 DEF Buffers
<1>. QED BY <1>3, <1>4, CStringIs

LEMMA DraftType ==
  ASSUME NEW b \in Buffers, NEW p \in 0..CmdMax,
         \A i \in 0..CmdMax : i < p => b[i] \in Letters
  PROVE  draft(b, p) \in Seq(Letters) /\ Len(draft(b, p)) = p
<1>. DEFINE d == draft(b, p)
<1>1. d \in [1..p -> Letters]
  <2>1. ASSUME NEW i \in 1..p PROVE b[i - 1] \in Letters
    <3>1. i - 1 \in 0..CmdMax /\ i - 1 < p
      BY Sizes
    <3>. QED BY <3>1
  <2>. QED BY <2>1 DEF draft
<1>2. p \in Nat
  BY Sizes
<1>. HIDE DEF d
<1>3. d \in Seq(Letters) /\ Len(d) = p
  BY <1>1, <1>2, IsASeq, LenProperties
<1>. QED BY <1>3 DEF d

LEMMA DraftEmpty == \A b : draft(b, 0) = <<>>
<1>. SUFFICES ASSUME NEW b PROVE draft(b, 0) = <<>>
  OBVIOUS
<1>. DEFINE d == draft(b, 0)
<1>1. d = [i \in 1..0 |-> b[i - 1]]
  BY DEF draft
<1>2. d \in [1..0 -> {0}]
  <2>1. \A i \in 1..0 : FALSE
    OBVIOUS
  <2>2. \A i \in 1..0 : b[i - 1] \in {0}
    BY <2>1
  <2>. QED BY <1>1, <2>2
<1>. HIDE DEF d
<1>3. d \in Seq({0}) /\ Len(d) = 0
  BY <1>2, IsASeq, LenProperties
<1>4. d = <<>>
  BY <1>3, EmptyLen
<1>. QED BY <1>4 DEF d

\* A byte that is put behind the line, one that is rubbed out.
LEMMA DraftGrows ==
  ASSUME NEW b \in Buffers, NEW p \in 0..CmdMax, p < CmdMax, NEW c \in Letters,
         \A i \in 0..CmdMax : i < p => b[i] \in Letters
  PROVE  /\ [b EXCEPT ![p] = c] \in Buffers
         /\ \A i \in 0..CmdMax : i < p + 1 => [b EXCEPT ![p] = c][i] \in Letters
         /\ [b EXCEPT ![p] = c][CmdMax] = b[CmdMax]
         /\ draft([b EXCEPT ![p] = c], p + 1) = Append(draft(b, p), c)
<1>. DEFINE w == [b EXCEPT ![p] = c]
            d == draft(b, p)
            e == draft(w, p + 1)
<1>1. w \in Buffers /\ w[p] = c /\ \A i \in 0..CmdMax : i # p => w[i] = b[i]
  BY DEF Buffers
<1>2. w[CmdMax] = b[CmdMax]
  BY <1>1, Sizes
<1>. HIDE DEF w
<1>3. \A i \in 0..CmdMax : i < p + 1 => w[i] \in Letters
  <2>1. ASSUME NEW i \in 0..CmdMax, i < p + 1 PROVE w[i] \in Letters
    <3>1. i = p \/ i < p
      BY <2>1, Sizes
    <3>. QED BY <3>1, <1>1
  <2>. QED BY <2>1
<1>4. d \in Seq(Letters) /\ Len(d) = p
  BY DraftType
<1>5. e \in Seq(Letters) /\ Len(e) = p + 1
  <2>1. p + 1 \in 0..CmdMax
    BY Sizes
  <2>. QED BY <1>1, <1>3, <2>1, DraftType
<1>6. \A i \in 1..p : d[i] = b[i - 1]
  BY DEF draft
<1>7. \A i \in 1..(p + 1) : e[i] = w[i - 1]
  BY DEF draft
<1>. HIDE DEF d, e
<1>8. /\ Append(d, c) \in Seq(Letters) /\ Len(Append(d, c)) = p + 1
      /\ \A i \in 1..p : Append(d, c)[i] = d[i]
      /\ Append(d, c)[p + 1] = c
  BY <1>4, AppendProperties
<1>9. ASSUME NEW i \in 1..(p + 1) PROVE e[i] = Append(d, c)[i]
  <2>1. CASE i = p + 1
    BY <2>1, <1>1, <1>7, <1>8, Sizes
  <2>2. CASE i \in 1..p
    <3>1. i - 1 \in 0..CmdMax /\ i - 1 # p
      BY <2>2, Sizes
    <3>. QED BY <2>2, <3>1, <1>1, <1>6, <1>7, <1>8
  <2>3. i = p + 1 \/ i \in 1..p
    <3>1. p \in Nat
      BY Sizes
    <3>. QED BY <3>1
  <2>. QED BY <2>1, <2>2, <2>3
<1>10. e = Append(d, c)
  <2>1. \A i \in 1..Len(e) : e[i] = Append(d, c)[i]
    BY <1>5, <1>9
  <2>2. Len(e) = Len(Append(d, c))
    BY <1>5, <1>8
  <2>. QED BY <1>5, <1>8, <2>1, <2>2, SeqEqual
<1>. QED BY <1>1, <1>2, <1>3, <1>10 DEF w, d, e

LEMMA DraftShrinks ==
  ASSUME NEW b \in Buffers, NEW p \in 1..CmdMax,
         \A i \in 0..CmdMax : i < p => b[i] \in Letters
  PROVE  draft(b, p - 1) = SubSeq(draft(b, p), 1, p - 1)
<1>. DEFINE d == draft(b, p)
            e == draft(b, p - 1)
            k == p - 1
<1>1. k \in 0..CmdMax /\ p \in 0..CmdMax /\ k \in 0..p
  BY Sizes
<1>2. d \in Seq(Letters) /\ Len(d) = p
  BY <1>1, DraftType
<1>3. e \in Seq(Letters) /\ Len(e) = k
  <2>1. \A i \in 0..CmdMax : i < k => b[i] \in Letters
    BY Sizes
  <2>. QED BY <1>1, <2>1, DraftType
<1>4. \A i \in 1..p : d[i] = b[i - 1]
  BY DEF draft
<1>5. \A i \in 1..k : e[i] = b[i - 1]
  BY DEF draft
<1>. HIDE DEF d, e
<1>6. SubSeq(d, 1, k) \in Seq(Letters) /\ Len(SubSeq(d, 1, k)) = k
  BY <1>1, <1>2, Cut
<1>7. \A i \in 1..k : SubSeq(d, 1, k)[i] = d[i]
  BY <1>1, <1>2, SubSeqProperties
<1>8. \A i \in 1..k : e[i] = SubSeq(d, 1, k)[i]
  BY <1>1, <1>4, <1>5, <1>7
<1>9. e = SubSeq(d, 1, k)
  BY <1>3, <1>6, <1>8, SeqEqual
<1>. QED BY <1>9 DEF d, e

-----------------------------------------------------------------------------
(* A byte is read. *)

\* What one byte does to the reader, but for the bytes that are left and the
\* ones that were taken.
ReadsByte(x, c, y) ==
    /\ y \in Reader /\ y.buf[CmdMax] = "NUL"
    /\ \A i \in 0..CmdMax : i < y.ptr => y.buf[i] \in Letters
    /\ y.state = x.state /\ y.ttyR = x.ttyR /\ y.taken = x.taken /\ y.ran = x.ran
    /\ y.armed => c = "^C" /\ y.ptr = 0 /\ ~y.eol
    /\ y.quitReq <=> x.quitReq \/ (c = "^C" /\ x.armed)
    /\ c = "CR" => y.eol
    /\ ~x.eol => (y.eol <=> c = "CR") /\ page(y) = edit(page(x), c)

\* The page of a reader that has no whole line.
LEMMA PageOpen ==
  ASSUME NEW x \in Good, ~x.eol
  PROVE  /\ page(x) = [done |-> x.ran, line |-> draft(x.buf, x.ptr)]
         /\ draft(x.buf, x.ptr) \in Seq(Letters) /\ Len(draft(x.buf, x.ptr)) = x.ptr
<1>1. page(x) = [done |-> x.ran, line |-> draft(x.buf, x.ptr)]
  BY DEF page
<1>2. x.buf \in Buffers /\ x.ptr \in 0..CmdMax
      /\ \A i \in 0..CmdMax : i < x.ptr => x.buf[i] \in Letters
  BY GoodIs
<1>. QED BY <1>1, <1>2, DraftType

LEMMA EditLine ==
  ASSUME NEW d, NEW l
  PROVE  /\ edit([done |-> d, line |-> l], "BS") = [done |-> d, line |-> SubSeq(l, 1, Len(l) - 1)]
         /\ \A c \in Letters :
              edit([done |-> d, line |-> l], c)
                = [done |-> d, line |-> SubSeq(Append(l, c), 1, Least(CmdMax, Len(l) + 1))]
BY Sizes DEF edit

LEMMA ReadsQuit ==
  ASSUME NEW x \in Good, x.armed
  PROVE  ReadsByte(x, "^C", readByte(x, "^C"))
<1>. DEFINE c == "^C"
            y == [x EXCEPT !.quitReq = TRUE, !.armed = FALSE]
<1>1. readByte(x, c) = y
  BY DEF readByte
<1>2. /\ y \in Reader /\ y.buf = x.buf /\ y.ptr = 0 /\ ~y.eol /\ ~y.armed /\ y.quitReq
      /\ y.state = x.state /\ y.ttyR = x.ttyR /\ y.taken = x.taken /\ y.ran = x.ran
  BY GoodIs DEF Good, Reader
<1>3. page(y) = edit(page(x), c)
  <2>1. page(x) = [done |-> x.ran, line |-> draft(x.buf, 0)] /\ page(y) = page(x)
    BY <1>2, GoodIs DEF page
  <2>2. edit(page(x), c) = [page(x) EXCEPT !.line = <<>>]
    BY DEF edit
  <2>. QED BY <2>1, <2>2, DraftEmpty
<1>. HIDE DEF y
<1>4. y.buf[CmdMax] = "NUL" /\ \A i \in 0..CmdMax : i < y.ptr => y.buf[i] \in Letters
  BY <1>2, GoodIs
<1>5. (y.eol <=> c = "CR")
  BY <1>2
<1>. QED BY <1>1, <1>2, <1>3, <1>4, <1>5 DEF ReadsByte

LEMMA ReadsIntr ==
  ASSUME NEW x \in Good, ~x.armed
  PROVE  ReadsByte(x, "^C", readByte(x, "^C"))
<1>. DEFINE c == "^C"
            y == [x EXCEPT !.ptr = 0, !.eol = FALSE, !.armed = TRUE]
<1>1. readByte(x, c) = y
  BY DEF readByte, cmdBufReset, Good, Reader
<1>2. /\ y \in Reader /\ y.buf = x.buf /\ y.ptr = 0 /\ ~y.eol /\ y.armed
      /\ y.quitReq = x.quitReq
      /\ y.state = x.state /\ y.ttyR = x.ttyR /\ y.taken = x.taken /\ y.ran = x.ran
  <2>1. 0 \in 0..CmdMax
    BY Sizes
  <2>. QED BY <2>1 DEF Good, Reader
<1>3. ~x.eol => page(y) = edit(page(x), c)
  <2>1. page(y) = [done |-> x.ran, line |-> draft(x.buf, 0)]
    BY <1>2 DEF page
  <2>2. edit(page(x), c) = [page(x) EXCEPT !.line = <<>>]
    BY DEF edit
  <2>3. ~x.eol => page(x) = [done |-> x.ran, line |-> draft(x.buf, x.ptr)]
    BY PageOpen
  <2>. QED BY <2>1, <2>2, <2>3, DraftEmpty
<1>. HIDE DEF y
<1>4. y.buf[CmdMax] = "NUL" /\ \A i \in 0..CmdMax : i < y.ptr => y.buf[i] \in Letters
  BY <1>2, GoodIs
<1>5. (y.eol <=> c = "CR")
  BY <1>2
<1>. QED BY <1>1, <1>2, <1>3, <1>4, <1>5 DEF ReadsByte

LEMMA ReadsCR ==
  ASSUME NEW x \in Good
  PROVE  ReadsByte(x, "CR", readByte(x, "CR"))
<1>. DEFINE c == "CR"
            b == x.buf
            p == x.ptr
            w == [b EXCEPT ![p] = "NUL"]
            y == [x EXCEPT !.armed = FALSE, !.ttyW = TRUE, !.eol = TRUE, !.buf = w]
<1>1. readByte(x, c) = y
  BY DEF readByte, Good, Reader
<1>2. b \in Buffers /\ p \in 0..CmdMax /\ b[CmdMax] = "NUL"
      /\ \A i \in 0..CmdMax : i < p => b[i] \in Letters
  BY GoodIs
<1>3. w \in Buffers /\ w[p] = "NUL" /\ \A i \in 0..CmdMax : i # p => w[i] = b[i]
  BY <1>2 DEF Buffers
<1>. HIDE DEF w
<1>4. /\ y \in Reader /\ y.buf = w /\ y.ptr = p /\ y.eol /\ ~y.armed
      /\ y.quitReq = x.quitReq
      /\ y.state = x.state /\ y.ttyR = x.ttyR /\ y.taken = x.taken /\ y.ran = x.ran
  BY <1>3 DEF Good, Reader, Buffers
<1>5. w[CmdMax] = "NUL" /\ \A i \in 0..CmdMax : i < p => w[i] \in Letters
  BY <1>2, <1>3, Sizes
<1>6. cString(w) = draft(w, p)
  BY <1>2, <1>3, <1>5, CStringIs
<1>7. draft(w, p) = draft(b, p)
  <2>1. \A i \in 1..p : w[i - 1] = b[i - 1]
    BY <1>2, <1>3, Sizes
  <2>. QED BY <2>1 DEF draft
<1>8. ~x.eol => page(y) = edit(page(x), c)
  <2>1. page(y) = [done |-> Append(x.ran, draft(b, p)), line |-> <<>>]
    BY <1>4, <1>6, <1>7 DEF page
  <2>2. edit(page(x), c) = [done |-> Append(page(x).done, page(x).line), line |-> <<>>]
    BY DEF edit
  <2>3. ~x.eol => page(x) = [done |-> x.ran, line |-> draft(b, p)]
    BY PageOpen
  <2>. QED BY <2>1, <2>2, <2>3
<1>. HIDE DEF y, b, p
<1>. QED BY <1>1, <1>4, <1>5, <1>8 DEF ReadsByte

LEMMA ReadsCtl ==
  ASSUME NEW x \in Good
  PROVE  ReadsByte(x, "CTL", readByte(x, "CTL"))
<1>. DEFINE c == "CTL"
            y == [x EXCEPT !.armed = FALSE, !.ttyW = TRUE]
<1>1. readByte(x, c) = y
  BY DEF readByte, Good, Reader
<1>2. /\ y \in Reader /\ y.buf = x.buf /\ y.ptr = x.ptr /\ y.eol = x.eol /\ ~y.armed
      /\ y.quitReq = x.quitReq
      /\ y.state = x.state /\ y.ttyR = x.ttyR /\ y.taken = x.taken /\ y.ran = x.ran
  BY DEF Good, Reader
<1>3. page(y) = edit(page(x), c)
  BY <1>2 DEF page, edit
<1>. HIDE DEF y
<1>4. y.buf[CmdMax] = "NUL" /\ \A i \in 0..CmdMax : i < y.ptr => y.buf[i] \in Letters
  BY <1>2, GoodIs
<1>. QED BY <1>1, <1>2, <1>3, <1>4 DEF ReadsByte

LEMMA ReadsBS ==
  ASSUME NEW x \in Good
  PROVE  ReadsByte(x, "BS", readByte(x, "BS"))
<1>. DEFINE c == "BS"
            b == x.buf
            p == x.ptr
            k == IF p > 0 THEN p - 1 ELSE 0
            y == [x EXCEPT !.armed = FALSE, !.ttyW = TRUE, !.ptr = k]
<1>1. readByte(x, c) = y
  BY DEF readByte, cmdBufBS, Good, Reader
<1>2. b \in Buffers /\ p \in 0..CmdMax /\ b[CmdMax] = "NUL"
      /\ \A i \in 0..CmdMax : i < p => b[i] \in Letters
  BY GoodIs
<1>3. k \in 0..CmdMax /\ k <= p
  BY <1>2, Sizes
<1>. HIDE DEF k
<1>4. /\ y \in Reader /\ y.buf = b /\ y.ptr = k /\ y.eol = x.eol /\ ~y.armed
      /\ y.quitReq = x.quitReq
      /\ y.state = x.state /\ y.ttyR = x.ttyR /\ y.taken = x.taken /\ y.ran = x.ran
  BY <1>3 DEF Good, Reader
<1>5. b[CmdMax] = "NUL" /\ \A i \in 0..CmdMax : i < k => b[i] \in Letters
  BY <1>2, <1>3, Sizes
<1>6. ASSUME ~x.eol PROVE page(y) = edit(page(x), c)
  <2>. DEFINE d == draft(b, p)
  <2>1. page(x) = [done |-> x.ran, line |-> d] /\ d \in Seq(Letters) /\ Len(d) = p
    BY <1>6, PageOpen
  <2>2. page(y) = [done |-> x.ran, line |-> draft(b, k)]
    BY <1>4, <1>6 DEF page
  <2>3. edit(page(x), c) = [done |-> x.ran, line |-> SubSeq(d, 1, Len(d) - 1)]
    BY <2>1, EditLine
  <2>4. draft(b, k) = SubSeq(d, 1, Len(d) - 1)
    <3>1. CASE p > 0
      <4>1. p \in 1..CmdMax /\ k = p - 1
        BY <1>2, <3>1, Sizes DEF k
      <4>. HIDE DEF b, p
      <4>2. draft(b, p - 1) = SubSeq(draft(b, p), 1, p - 1)
        BY <1>2, <4>1, DraftShrinks
      <4>. QED BY <2>1, <4>1, <4>2
    <3>2. CASE p = 0
      <4>1. k = 0 /\ Len(d) - 1 = -1
        BY <2>1, <3>2 DEF k
      <4>. HIDE DEF d
      <4>2. SubSeq(d, 1, -1) \in Seq(Letters) /\ Len(SubSeq(d, 1, -1)) = 0
        BY <2>1, SubSeqProperties
      <4>3. SubSeq(d, 1, -1) = <<>>
        BY <4>2, EmptyLen
      <4>. QED BY <4>1, <4>3, DraftEmpty
    <3>. QED BY <3>1, <3>2, <1>2, Sizes
  <2>. HIDE DEF d, y, b, p
  <2>. QED BY <2>1, <2>2, <2>3, <2>4
<1>. HIDE DEF y, b, p
<1>. QED BY <1>1, <1>4, <1>5, <1>6 DEF ReadsByte

LEMMA ReadsLetter ==
  ASSUME NEW x \in Good, NEW c \in Letters
  PROVE  ReadsByte(x, c, readByte(x, c))
<1>. DEFINE b == x.buf
            p == x.ptr
            e == [x EXCEPT !.armed = FALSE, !.ttyW = TRUE]
<1>1. readByte(x, c) = putCmd1(e, c)
  BY Sizes DEF readByte
<1>2. b \in Buffers /\ p \in 0..CmdMax /\ b[CmdMax] = "NUL"
      /\ \A i \in 0..CmdMax : i < p => b[i] \in Letters
  BY GoodIs
<1>3. /\ e \in Reader /\ e.buf = b /\ e.ptr = p /\ e.eol = x.eol /\ ~e.armed
      /\ e.quitReq = x.quitReq
      /\ e.state = x.state /\ e.ttyR = x.ttyR /\ e.taken = x.taken /\ e.ran = x.ran
  BY DEF Good, Reader
<1>4. c \notin {"CR", "BS", "^C", "BACK", "CTL", "data"}
  BY Sizes
<1>. HIDE DEF e
<1>. DEFINE d == draft(b, p)
            s == Append(d, c)
<1>5. d \in Seq(Letters) /\ Len(d) = p /\ s \in Seq(Letters) /\ Len(s) = p + 1
  <2>1. d \in Seq(Letters) /\ Len(d) = p
    BY <1>2, DraftType
  <2>. HIDE DEF d
  <2>. QED BY <2>1, AppendProperties
<1>6. ASSUME ~x.eol
      PROVE  /\ page(x) = [done |-> x.ran, line |-> d]
             /\ edit(page(x), c) = [done |-> x.ran, line |-> SubSeq(s, 1, Least(CmdMax, p + 1))]
  <2>1. page(x) = [done |-> x.ran, line |-> d]
    BY <1>6, PageOpen
  <2>. HIDE DEF d
  <2>2. edit(page(x), c) = [done |-> x.ran, line |-> SubSeq(s, 1, Least(CmdMax, Len(d) + 1))]
    BY <2>1, EditLine
  <2>. QED BY <1>5, <2>1, <2>2
<1>7. CASE p < CmdMax
  <2>. DEFINE w == [b EXCEPT ![p] = c]
              y == [e EXCEPT !.buf = w, !.ptr = p + 1]
  <2>1. putCmd1(e, c) = y
    BY <1>3, <1>7 DEF putCmd1, Reader
  <2>2. /\ w \in Buffers /\ w[CmdMax] = "NUL"
        /\ \A i \in 0..CmdMax : i < p + 1 => w[i] \in Letters
        /\ draft(w, p + 1) = s
    <3>. HIDE DEF b, p
    <3>. QED BY <1>2, <1>7, DraftGrows
  <2>. HIDE DEF w
  <2>3. /\ y \in Reader /\ y.buf = w /\ y.ptr = p + 1 /\ y.eol = x.eol /\ ~y.armed
        /\ y.quitReq = x.quitReq
        /\ y.state = x.state /\ y.ttyR = x.ttyR /\ y.taken = x.taken /\ y.ran = x.ran
    <3>1. p + 1 \in 0..CmdMax
      BY <1>2, <1>7, Sizes
    <3>. HIDE DEF p
    <3>. QED BY <1>3, <2>2, <3>1 DEF Reader, Buffers
  <2>4. ASSUME ~x.eol PROVE page(y) = edit(page(x), c)
    <3>1. page(y) = [done |-> x.ran, line |-> s]
      BY <2>2, <2>3, <2>4 DEF page
    <3>2. Least(CmdMax, p + 1) = Len(s)
      BY <1>2, <1>5, <1>7, Sizes DEF Least
    <3>. HIDE DEF s
    <3>3. SubSeq(s, 1, Len(s)) = s
      <4>1. Len(s) \in 0..Len(s)
        BY <1>5, EmptyLen
      <4>. QED BY <1>5, <4>1, Cut
    <3>. QED BY <1>6, <2>4, <3>1, <3>2, <3>3
  <2>. HIDE DEF y, b, p
  <2>. QED BY <1>1, <1>4, <2>1, <2>2, <2>3, <2>4 DEF ReadsByte
<1>8. CASE p = CmdMax
  <2>1. putCmd1(e, c) = e
    BY <1>3, <1>8, Sizes DEF putCmd1
  <2>2. ASSUME ~x.eol PROVE page(e) = edit(page(x), c)
    <3>1. page(e) = [done |-> x.ran, line |-> d]
      BY <1>3, <2>2 DEF page
    <3>2. Least(CmdMax, p + 1) = p
      BY <1>8, Sizes DEF Least
    <3>3. SubSeq(s, 1, p) = d
      <4>. HIDE DEF d
      <4>1. p \in Nat /\ p <= Len(d)
        BY <1>2, <1>5, Sizes
      <4>2. \A i \in 1..p : s[i] = d[i]
        BY <1>5, AppendProperties
      <4>3. SubSeq(s, 1, p) \in Seq(Letters) /\ Len(SubSeq(s, 1, p)) = p
            /\ \A i \in 1..p : SubSeq(s, 1, p)[i] = s[i]
        <5>. HIDE DEF s
        <5>. QED BY <1>5, <4>1, SubSeqProperties
      <4>4. \A i \in 1..Len(d) : SubSeq(s, 1, p)[i] = d[i]
        BY <1>5, <4>2, <4>3
      <4>. HIDE DEF s
      <4>. QED BY <1>5, <4>3, <4>4, SeqEqual
    <3>. QED BY <1>6, <2>2, <3>1, <3>2, <3>3
  <2>. HIDE DEF b, p
  <2>. QED BY <1>1, <1>2, <1>3, <1>4, <2>1, <2>2 DEF ReadsByte
<1>. QED BY <1>2, <1>7, <1>8, Sizes

LEMMA ReadByte ==
  ASSUME NEW x \in Good, NEW c \in Byte
  PROVE  ReadsByte(x, c, readByte(x, c))
<1>1. x.armed \/ ~x.armed
  OBVIOUS
<1>. QED BY <1>1, ReadsQuit, ReadsIntr, ReadsCR, ReadsCtl, ReadsBS, ReadsLetter DEF Byte

-----------------------------------------------------------------------------
(* What a reader takes of the bytes that are left. *)

\* The last two bytes of t that were taken in command mode are Ctrl-C.
TwoCtrlC(t) == \E i, j \in 1..Len(t) :
    /\ i < j /\ t[i] = "^C" /\ t[j] = "^C"
    /\ \A k \in (i + 1)..Len(t) : t[k] \in Byte => k = j

\* x has read some of its bytes and become y.
Reads(x, y) ==
    /\ y.state = x.state /\ y.ran = x.ran
    /\ y.taken \o y.ttyR = x.taken \o x.ttyR /\ Len(y.ttyR) <= Len(x.ttyR)
    /\ Told(x) /\ ~x.eol => Told(y)
    /\ x.quitReq => y.quitReq
    /\ y.quitReq => x.quitReq \/ TwoCtrlC(y.taken)
    /\ y.eol => x.eol \/ (Len(y.ttyR) < Len(x.ttyR) /\ y.taken[Len(y.taken)] = "CR")

LEMMA ReadsNothing ==
  ASSUME NEW x \in Good
  PROVE  Reads(x, x)
<1>1. Len(x.ttyR) \in Nat
  BY GoodIs, EmptyLen
<1>. QED BY <1>1 DEF Reads

\* A second Ctrl-C behind the first, and what a Ctrl-C is when it is taken.
LEMMA Pair ==
  ASSUME NEW t \in Seq(Tape), NEW c \in Tape
  PROVE  /\ c = "^C" => EndsInCtrlC(Append(t, c))
         /\ c = "^C" /\ EndsInCtrlC(t) => TwoCtrlC(Append(t, c))
<1>. DEFINE s == Append(t, c)
            n == Len(t)
<1>1. /\ n \in Nat /\ Len(s) = n + 1 /\ s[n + 1] = c
      /\ \A i \in 1..n : s[i] = t[i]
  BY AppendProperties, EmptyLen
<1>. HIDE DEF s, n
<1>2. ASSUME c = "^C" PROVE EndsInCtrlC(s)
  <2>1. n + 1 \in 1..Len(s) /\ \A k \in (n + 1 + 1)..Len(s) : FALSE
    BY <1>1
  <2>. QED BY <1>1, <1>2, <2>1 DEF EndsInCtrlC
<1>3. ASSUME c = "^C", EndsInCtrlC(t) PROVE TwoCtrlC(s)
  <2>1. PICK i \in 1..n : t[i] = "^C" /\ \A k \in (i + 1)..n : t[k] \notin Byte
    BY <1>3 DEF EndsInCtrlC, n
  <2>2. i \in 1..Len(s) /\ n + 1 \in 1..Len(s) /\ i < n + 1 /\ s[i] = "^C" /\ s[n + 1] = "^C"
    BY <1>1, <1>3, <2>1
  <2>3. ASSUME NEW k \in (i + 1)..Len(s), s[k] \in Byte PROVE k = n + 1
    <3>1. k \in (i + 1)..n \/ k = n + 1
      BY <1>1
    <3>2. k \in (i + 1)..n => s[k] = t[k]
      BY <1>1, <2>1
    <3>. QED BY <2>1, <2>3, <3>1, <3>2
  <2>. QED BY <2>2, <2>3 DEF TwoCtrlC
<1>. QED BY <1>2, <1>3 DEF s

LEMMA Take ==
  ASSUME NEW x \in Good, x.ttyR # <<>>
  PROVE  /\ take(x) \in Good /\ Reads(x, take(x))
         /\ Len(take(x).ttyR) = Len(x.ttyR) - 1
         /\ take(x).quitReq <=> x.quitReq \/ (Head(x.ttyR) = "^C" /\ x.armed)
         /\ take(x).eol /\ ~x.eol <=> Head(x.ttyR) = "CR" /\ ~x.eol
         /\ Head(x.ttyR) = "CR" => take(x).eol
<1>. DEFINE r == x.ttyR
            t == x.taken
            c == Head(r)
            m == Tail(r)
            s == Append(t, c)
            z == readByte(x, c)
            y == [z EXCEPT !.ttyR = m, !.taken = s]
<1>1. r \in Seq(Byte) /\ t \in Seq(Tape) /\ Edited(t) \in Pages /\ r # <<>>
  BY GoodIs, EditedAppend
<1>. HIDE DEF r, t
<1>2. c \in Byte /\ m \in Seq(Byte) /\ Len(m) = Len(r) - 1 /\ Len(r) \in Nat
  BY <1>1, HeadTailProperties, EmptyLen
<1>3. c \in Tape
  BY <1>2, Kinds
<1>4. ReadsByte(x, c, z)
  BY <1>2, ReadByte
<1>5. take(x) = y
  BY <1>4 DEF take, ReadsByte, Reader, r, t
<1>. HIDE DEF c, m, z
<1>6. s \in Seq(Tape) /\ Len(s) = Len(t) + 1 /\ s[Len(t) + 1] = c /\ Len(t) \in Nat
  BY <1>1, <1>3, AppendProperties, EmptyLen
<1>7. Edited(s) = edit(Edited(t), c)
  BY <1>1, <1>3, EditedAppend
<1>8. /\ c = "^C" => EndsInCtrlC(s)
      /\ c = "^C" /\ EndsInCtrlC(t) => TwoCtrlC(s)
  BY <1>1, <1>3, Pair
<1>9. s \o m = t \o r
  <2>1. r = <<c>> \o m
    BY <1>1, HeadTailProperties DEF c, m
  <2>2. <<c>> \in Seq(Tape) /\ s = t \o <<c>>
    BY <1>1, <1>3, AppendIsConcat
  <2>3. m \in Seq(Tape)
    BY <1>2, Kinds, SeqMonotonic DEF Tape
  <2>. DEFINE o == <<c>>
  <2>. HIDE DEF o
  <2>4. (t \o o) \o m = t \o (o \o m)
    BY <1>1, <2>2, <2>3, ConcatAssociative DEF o
  <2>. QED BY <2>1, <2>2, <2>4 DEF o
<1>. HIDE DEF s
<1>10. /\ y \in Reader /\ y.state = x.state /\ y.ran = x.ran /\ y.ttyR = m /\ y.taken = s
       /\ y.buf = z.buf /\ y.ptr = z.ptr /\ y.eol = z.eol /\ y.armed = z.armed
       /\ y.quitReq = z.quitReq
  BY <1>2, <1>4, <1>6 DEF ReadsByte, Reader, Tape
<1>. HIDE DEF y
<1>11. y \in Good
  <2>1. /\ y.buf[CmdMax] = "NUL"
        /\ \A i \in 0..CmdMax : i < y.ptr => y.buf[i] \in Letters
    BY <1>4, <1>10 DEF ReadsByte
  <2>2. y.armed => y.ptr = 0 /\ ~y.eol /\ EndsInCtrlC(y.taken)
    BY <1>4, <1>8, <1>10 DEF ReadsByte
  <2>. QED BY <1>10, <2>1, <2>2 DEF Good
<1>12. y.quitReq <=> x.quitReq \/ (c = "^C" /\ x.armed)
  BY <1>4, <1>10 DEF ReadsByte
<1>13. (c = "CR" => y.eol) /\ (~x.eol => (y.eol <=> c = "CR"))
  BY <1>4, <1>10 DEF ReadsByte
<1>14. page(y) = page(z)
  BY <1>4, <1>10 DEF page, ReadsByte
<1>15. Told(x) /\ ~x.eol => Told(y)
  <2>1. ~x.eol => page(z) = edit(page(x), c)
    BY <1>4 DEF ReadsByte
  <2>. QED BY <1>7, <1>10, <1>14, <2>1 DEF Told, t
<1>16. x.armed => EndsInCtrlC(t)
  BY GoodIs DEF t
<1>17. Reads(x, y)
  <2>1. y.taken \o y.ttyR = x.taken \o x.ttyR
    BY <1>9, <1>10 DEF r, t
  <2>2. Len(y.ttyR) < Len(x.ttyR)
    BY <1>2, <1>10 DEF r
  <2>3. y.quitReq => x.quitReq \/ TwoCtrlC(y.taken)
    BY <1>8, <1>10, <1>12, <1>16
  <2>4. y.eol => x.eol \/ y.taken[Len(y.taken)] = "CR"
    BY <1>6, <1>10, <1>13
  <2>5. Len(y.ttyR) <= Len(x.ttyR)
    BY <1>2, <1>10 DEF r
  <2>. QED BY <1>10, <1>12, <1>15, <2>1, <2>2, <2>3, <2>4, <2>5 DEF Reads
<1>18. Len(y.ttyR) = Len(x.ttyR) - 1
  BY <1>2, <1>10 DEF r
<1>19. c = Head(x.ttyR)
  BY DEF c, r
<1>. QED BY <1>5, <1>11, <1>12, <1>13, <1>17, <1>18, <1>19

\* One byte after others.
LEMMA ReadsOn ==
  ASSUME NEW x \in Good, NEW y \in Good, NEW z \in Good, Reads(x, y), Reads(y, z),
         y.eol => x.eol, y.quitReq => x.quitReq
  PROVE  Reads(x, z)
<1>1. Len(x.ttyR) \in Nat /\ Len(y.ttyR) \in Nat /\ Len(z.ttyR) \in Nat
  BY GoodIs, EmptyLen
<1>. QED BY <1>1 DEF Reads

-----------------------------------------------------------------------------
(* cmdReadLoop(). *)

returns(y) == Head(y.ttyR) = "CR" \/ (Head(y.ttyR) = "^C" /\ y.armed)

LEMMA ReadLoop ==
  ASSUME NEW x \in Good
  PROVE  /\ cmdReadLoop(x) \in Good /\ Reads(x, cmdReadLoop(x))
         /\ x.ttyR # <<>> => Len(cmdReadLoop(x).ttyR) < Len(x.ttyR)
         /\ cmdReadLoop(x).ttyR = <<>> \/ cmdReadLoop(x).eol \/ cmdReadLoop(x).quitReq
         /\ cmdReadLoop(x).eol /\ ~x.eol /\ cmdReadLoop(x).quitReq => x.quitReq
<1>. DEFINE N == Len(x.ttyR)
            A == [x : Good, on : BOOLEAN]
            turn(a) == IF a.on THEN [x |-> take(a.x), on |-> ~returns(a.x)] ELSE a
            S(n) == {a \in A :
                       /\ Reads(x, a.x)
                       /\ IF a.on THEN /\ Len(a.x.ttyR) = N - n
                                       /\ a.x.eol => x.eol
                                       /\ a.x.quitReq => x.quitReq
                          ELSE /\ Len(a.x.ttyR) < N
                               /\ a.x.eol \/ a.x.quitReq
                               /\ a.x.eol /\ ~x.eol /\ a.x.quitReq => x.quitReq}
            J == [n \in 0..N |-> S(n)]
            h == [n \in 1..N |-> [a \in A |-> turn(a)]]
            a0 == [x |-> x, on |-> TRUE]
            after[n \in 0..N] ==
              IF n = 0 THEN [x |-> x, on |-> TRUE]
              ELSE LET a == after[n - 1]
                   IN  IF a.on THEN [x |-> take(a.x), on |->
                                       ~(\/ Head(a.x.ttyR) = "CR"
                                         \/ Head(a.x.ttyR) = "^C" /\ a.x.armed)] ELSE a
<1>1. N \in Nat
  BY GoodIs, EmptyLen
<1>2. cmdReadLoop(x) = after[N].x
  BY DEF cmdReadLoop, after
<1>. HIDE DEF N
<1>3. \A n \in 1..N : n - 1 \in 0..N /\ n \in 0..N /\ n # 0
  BY <1>1
<1>4. ASSUME NEW n \in 1..N, NEW a \in A, a \in S(n - 1) PROVE turn(a) \in S(n)
  <2>1. a.x \in Good /\ a.on \in BOOLEAN /\ Reads(x, a.x)
    BY <1>4
  <2>2. CASE ~a.on
    <3>1. turn(a) = a
      BY <2>2
    <3>. HIDE DEF turn
    <3>. QED BY <1>4, <2>2, <3>1
  <2>3. CASE a.on
    <3>. DEFINE u == a.x
                y == take(u)
                o == ~returns(u)
    <3>1. /\ u \in Good /\ Reads(x, u) /\ Len(u.ttyR) = N - (n - 1)
          /\ u.eol => x.eol
          /\ u.quitReq => x.quitReq
      BY <1>4, <2>1, <2>3
    <3>2. turn(a) = [x |-> y, on |-> o]
      BY <2>3
    <3>. HIDE DEF u
    <3>3. u.ttyR # <<>>
      <4>1. u.ttyR \in Seq(Byte) /\ Len(u.ttyR) # 0
        BY <1>1, <3>1, GoodIs
      <4>. QED BY <4>1, EmptyLen
    <3>4. /\ y \in Good /\ Reads(u, y) /\ Len(y.ttyR) = N - n /\ Len(y.ttyR) < N
          /\ y.quitReq <=> u.quitReq \/ (Head(u.ttyR) = "^C" /\ u.armed)
          /\ y.eol /\ ~u.eol <=> Head(u.ttyR) = "CR" /\ ~u.eol
          /\ Head(u.ttyR) = "CR" => y.eol
      <4>1. /\ y \in Good /\ Reads(u, y) /\ Len(y.ttyR) = Len(u.ttyR) - 1
            /\ y.quitReq <=> u.quitReq \/ (Head(u.ttyR) = "^C" /\ u.armed)
            /\ y.eol /\ ~u.eol <=> Head(u.ttyR) = "CR" /\ ~u.eol
            /\ Head(u.ttyR) = "CR" => y.eol
        BY <3>1, <3>3, Take
      <4>2. Len(y.ttyR) = N - n /\ Len(y.ttyR) < N
        BY <1>1, <3>1, <4>1
      <4>. QED BY <4>1, <4>2
    <3>. HIDE DEF y
    <3>5. Reads(x, y)
      BY <3>1, <3>4, ReadsOn
    <3>6. o = ~(Head(u.ttyR) = "CR" \/ (Head(u.ttyR) = "^C" /\ u.armed)) /\ o \in BOOLEAN
      BY DEF returns
    <3>. HIDE DEF o
    <3>7. o => (y.eol => x.eol) /\ (y.quitReq => x.quitReq)
      BY <3>1, <3>4, <3>6
    <3>8. ~o => y.eol \/ y.quitReq
      BY <3>1, <3>4, <3>6
    <3>9. ~o /\ y.eol /\ ~x.eol /\ y.quitReq => x.quitReq
      BY <3>1, <3>4, <3>6
    <3>10. [x |-> y, on |-> o] \in S(n)
      BY <3>4, <3>5, <3>6, <3>7, <3>8, <3>9
    <3>. QED BY <3>2, <3>10
  <2>. QED BY <2>1, <2>2, <2>3
<1>5. a0 \in S(0)
  BY <1>1, ReadsNothing DEF N
<1>. HIDE DEF S, turn, a0
<1>6. \A n \in 0..N : J[n] = S(n) /\ J[n] \subseteq A
  BY DEF S
<1>7. \A n \in 1..N : \A a \in J[n - 1] : a \in A /\ h[n][a] = turn(a) /\ turn(a) \in J[n]
  BY <1>3, <1>4, <1>6
<1>8. a0 \in J[0]
  BY <1>1, <1>5, <1>6
<1>. HIDE DEF A, J, h, after
<1>9. PICK f : Loop(f, N, A, J, a0, h)
  <2>1. Turns(N, A, J, h)
    BY <1>6, <1>7 DEF Turns
  <2>. QED BY <1>1, <1>8, <2>1, LoopExists
<1>. DEFINE F(n) == IF n = 0 THEN a0 ELSE turn(f[n - 1])
            E(n) == IF n = 0 THEN a0 ELSE turn(after[n - 1])
<1>10. \A n \in 0..N : f[n] = F(n)
  <2>1. ASSUME NEW n \in 1..N PROVE f[n] = turn(f[n - 1])
    <3>1. f[n - 1] \in J[n - 1] /\ f[n] = h[n][f[n - 1]]
      BY <1>3, <1>9 DEF Loop
    <3>. QED BY <1>7, <3>1
  <2>2. f[0] = a0
    BY <1>9 DEF Loop
  <2>3. \A n \in 0..N : n = 0 \/ n \in 1..N
    BY <1>1
  <2>. QED BY <1>3, <2>1, <2>2, <2>3
<1>11. f = [n \in 0..N |-> F(n)]
  <2>1. f = [n \in 0..N |-> f[n]]
    BY <1>9 DEF Loop
  <2>. HIDE DEF F
  <2>. QED BY <1>10, <2>1
<1>12. after = [n \in 0..N |-> E(n)]
  BY <1>11 DEF after, turn, a0, returns
<1>13. \A n \in 0..N : after[n] = E(n)
  <2>. HIDE DEF E
  <2>. QED BY <1>12
<1>14. after[0] = a0 /\ \A n \in 1..N : after[n] = turn(after[n - 1])
  BY <1>1, <1>3, <1>13
<1>15. after[N] \in S(N)
  <2>1. after[0] \in J[0] /\ \A n \in 1..N : after[n - 1] \in J[n - 1] => after[n] \in J[n]
    BY <1>7, <1>8, <1>14
  <2>2. \A n \in 0..N : after[n] \in J[n]
    BY <1>1, <2>1, LoopStays
  <2>. QED BY <1>1, <1>6, <2>2
<1>. HIDE DEF E, F
<1>16. ASSUME NEW a \in S(N)
       PROVE  /\ a.x \in Good /\ Reads(x, a.x)
              /\ x.ttyR # <<>> => Len(a.x.ttyR) < Len(x.ttyR)
              /\ a.x.ttyR = <<>> \/ a.x.eol \/ a.x.quitReq
              /\ a.x.eol /\ ~x.eol /\ a.x.quitReq => x.quitReq
  <2>1. /\ a.x \in Good /\ a.on \in BOOLEAN /\ Reads(x, a.x)
        /\ a.on => Len(a.x.ttyR) = N - N /\ (a.x.eol => x.eol)
        /\ ~a.on => /\ Len(a.x.ttyR) < N
                    /\ a.x.eol \/ a.x.quitReq
                    /\ a.x.eol /\ ~x.eol /\ a.x.quitReq => x.quitReq
    BY <1>16 DEF S, A
  <2>2. a.x.ttyR \in Seq(Byte) /\ x.ttyR \in Seq(Byte)
    BY <2>1, GoodIs
  <2>3. a.on => a.x.ttyR = <<>> /\ Len(a.x.ttyR) = 0
    BY <1>1, <2>1, <2>2, EmptyLen
  <2>4. x.ttyR # <<>> => N > 0
    BY <1>1, <2>2, EmptyLen DEF N
  <2>. QED BY <1>1, <2>1, <2>3, <2>4 DEF N
<1>. QED BY <1>2, <1>15, <1>16

-----------------------------------------------------------------------------
(* Running a line. *)

\* s begins with r, and has a line behind it that asks for the end.
Extends(r, s) == Len(r) <= Len(s) /\ \A i \in 1..Len(r) : s[i] = r[i]
HasQuit(r, s) == \E i \in (Len(r) + 1)..Len(s) : "q" \in Range(s[i])

LEMMA ExtendsSelf ==
  ASSUME NEW r \in Seq(Seq(Letters))
  PROVE  Extends(r, r)
<1>1. Len(r) \in Nat
  BY EmptyLen
<1>2. Len(r) <= Len(r)
  BY <1>1
<1>3. \A i \in 1..Len(r) : r[i] = r[i]
  OBVIOUS
<1>. QED BY ONLY <1>2, <1>3 DEF Extends

LEMMA ExtendsOn ==
  ASSUME NEW r \in Seq(Seq(Letters)), NEW s \in Seq(Seq(Letters)),
         NEW t \in Seq(Seq(Letters)), Extends(r, s), Extends(s, t)
  PROVE  /\ Extends(r, t)
         /\ HasQuit(r, s) \/ HasQuit(s, t) => HasQuit(r, t)
<1>1. Len(r) \in Nat /\ Len(s) \in Nat /\ Len(t) \in Nat
  BY EmptyLen
<1>2. Len(r) <= Len(s) /\ Len(s) <= Len(t)
  BY DEF Extends
<1>3. \A i \in 1..Len(r) : s[i] = r[i]
  BY DEF Extends
<1>4. \A i \in 1..Len(s) : t[i] = s[i]
  BY DEF Extends
<1>5. Extends(r, t)
  <2>1. ASSUME NEW i \in 1..Len(r) PROVE t[i] = r[i]
    <3>1. i \in 1..Len(s)
      BY <1>1, <1>2
    <3>. QED BY <3>1, <1>3, <1>4
  <2>. QED BY <1>1, <1>2, <2>1 DEF Extends
<1>6. ASSUME HasQuit(r, s) PROVE HasQuit(r, t)
  <2>1. PICK i \in (Len(r) + 1)..Len(s) : "q" \in Range(s[i])
    BY <1>6 DEF HasQuit
  <2>2. i \in (Len(r) + 1)..Len(t) /\ i \in 1..Len(s)
    BY <1>1, <1>2
  <2>3. t[i] = s[i]
    BY <1>4, <2>2
  <2>. QED BY <2>1, <2>2, <2>3 DEF HasQuit
<1>7. ASSUME HasQuit(s, t) PROVE HasQuit(r, t)
  <2>1. PICK i \in (Len(s) + 1)..Len(t) : "q" \in Range(t[i])
    BY <1>7 DEF HasQuit
  <2>2. i \in (Len(r) + 1)..Len(t)
    BY <1>1, <1>2
  <2>. QED BY <2>1, <2>2 DEF HasQuit
<1>. QED BY <1>5, <1>6, <1>7

LEMMA ExtendsMore ==
  ASSUME NEW r \in Seq(Seq(Letters)), NEW l \in Seq(Letters)
  PROVE  /\ Append(r, l) \in Seq(Seq(Letters)) /\ Extends(r, Append(r, l))
         /\ "q" \in Range(l) => HasQuit(r, Append(r, l))
<1>. DEFINE s == Append(r, l)
<1>1. /\ s \in Seq(Seq(Letters)) /\ Len(r) \in Nat /\ Len(s) = Len(r) + 1
      /\ s[Len(r) + 1] = l /\ \A i \in 1..Len(r) : s[i] = r[i]
  BY AppendProperties, EmptyLen
<1>. HIDE DEF s
<1>2. Extends(r, s)
  <2>1. Len(r) <= Len(s)
    BY <1>1
  <2>2. \A i \in 1..Len(r) : s[i] = r[i]
    BY <1>1
  <2>. QED BY ONLY <2>1, <2>2 DEF Extends
<1>3. ASSUME "q" \in Range(l) PROVE HasQuit(r, s)
  <2>1. Len(r) + 1 \in (Len(r) + 1)..Len(s)
    BY <1>1
  <2>. QED BY <1>1, <1>3, <2>1 DEF HasQuit
<1>. QED BY <1>1, <1>2, <1>3 DEF s

\* x has run its line, if it has one, and become z.
Dispatches(x, z) ==
    /\ ~z.eol /\ z.taken = x.taken
    /\ \/ z.state = x.state /\ z.ttyR = x.ttyR
       \/ z.state = "AWAY" /\ z.ttyR = <<>> /\ z.ttyW
    /\ Told(x) => Told(z)
    /\ Extends(x.ran, z.ran)
    /\ x.quitReq => z.quitReq
    /\ z.quitReq => x.quitReq \/ HasQuit(x.ran, z.ran)

\* A reader with no line, one with a line that was run.
RanLine(x, l, z) ==
    /\ z \in Reader /\ z.buf = x.buf /\ z.ptr = 0 /\ ~z.eol /\ z.armed = x.armed
    /\ z.taken = x.taken /\ z.ran = Append(x.ran, l)
    /\ \/ z.state = x.state /\ z.ttyR = x.ttyR
       \/ z.state = "AWAY" /\ z.ttyR = <<>> /\ z.ttyW
    /\ z.quitReq = x.quitReq \/ (z.quitReq /\ "q" \in Range(l))

LEMMA RanDispatches ==
  ASSUME NEW x \in Good, x.eol, NEW z, RanLine(x, cString(x.buf), z)
  PROVE  z \in Good /\ Dispatches(x, z)
<1>. DEFINE l == cString(x.buf)
            r == x.ran
<1>1. l \in Seq(Letters) /\ r \in Seq(Seq(Letters))
  <2>1. x.buf \in Buffers /\ x.buf[CmdMax] = "NUL" /\ r \in Seq(Seq(Letters))
    BY GoodIs
  <2>. QED BY <2>1, CStringType
<1>2. RanLine(x, l, z)
  OBVIOUS
<1>. HIDE DEF l
<1>3. z \in Good
  <2>1. /\ z \in Reader /\ z.buf = x.buf /\ z.ptr = 0 /\ ~z.eol /\ z.armed = x.armed
        /\ z.taken = x.taken
    BY <1>2 DEF RanLine
  <2>2. z.buf[CmdMax] = "NUL" /\ (z.armed => EndsInCtrlC(z.taken))
    BY <2>1, GoodIs
  <2>3. \A i \in 0..CmdMax : i < z.ptr => z.buf[i] \in Letters
    BY <2>1, Sizes
  <2>. QED BY <2>1, <2>2, <2>3 DEF Good
<1>4. Told(x) => Told(z)
  <2>1. page(z) = [done |-> Append(r, l), line |-> draft(x.buf, 0)]
    BY <1>2 DEF RanLine, page
  <2>2. page(x) = [done |-> Append(r, l), line |-> <<>>]
    BY DEF page, l
  <2>3. page(z) = page(x)
    BY <2>1, <2>2, DraftEmpty
  <2>4. z.taken = x.taken
    BY <1>2 DEF RanLine
  <2>. QED BY <2>3, <2>4 DEF Told
<1>5. Extends(r, z.ran) /\ ("q" \in Range(l) => HasQuit(r, z.ran))
  BY <1>1, <1>2, ExtendsMore DEF RanLine
<1>6. x.quitReq \in BOOLEAN /\ z.quitReq \in BOOLEAN
  BY <1>3, GoodIs
<1>. QED BY <1>2, <1>3, <1>4, <1>5, <1>6 DEF Dispatches, RanLine

LEMMA Dispatch ==
  ASSUME NEW x \in Good, NEW z \in cmdDispatchIfReady(x)
  PROVE  z \in Good /\ Dispatches(x, z)
<1>1. CASE ~x.eol
  <2>1. z = x
    BY <1>1 DEF cmdDispatchIfReady
  <2>2. Extends(x.ran, x.ran)
    BY GoodIs, ExtendsSelf
  <2>. QED BY <1>1, <2>1, <2>2 DEF Dispatches
<1>2. CASE x.eol
  <2>. DEFINE l == cString(x.buf)
              s == Append(x.ran, l)
              y == [x EXCEPT !.ptr = 0, !.eol = FALSE, !.ran = s]
              y2 == [x EXCEPT !.ptr = 0, !.eol = FALSE, !.ran = s, !.ttyW = TRUE]
              y3 == [x EXCEPT !.ptr = 0, !.eol = FALSE, !.ran = s, !.state = "AWAY",
                              !.ttyR = <<>>, !.ttyW = TRUE]
              y4 == [x EXCEPT !.ptr = 0, !.eol = FALSE, !.ran = s, !.quitReq = TRUE,
                              !.ttyW = TRUE]
  <2>1. z \in {y, y2, y3} \/ (z = y4 /\ "q" \in Range(l))
    BY <1>2 DEF cmdDispatchIfReady, cmdBufReset, leave, Good, Reader
  <2>2. l \in Seq(Letters) /\ x.ran \in Seq(Seq(Letters))
    BY GoodIs, CStringType
  <2>3. s \in Seq(Seq(Letters))
    BY <2>2, ExtendsMore
  <2>4. 0 \in 0..CmdMax /\ <<>> \in Seq(Byte)
    BY Sizes, EmptySeq
  <2>. HIDE DEF l
  <2>5. RanLine(x, l, y) /\ RanLine(x, l, y2)
    <3>. HIDE DEF s
    <3>1. y \in Reader /\ y2 \in Reader
      BY <2>3, <2>4 DEF Good, Reader
    <3>. QED BY <3>1 DEF RanLine, Good, Reader, s
  <2>6. RanLine(x, l, y3)
    <3>. HIDE DEF s
    <3>1. y3 \in Reader
      BY <2>3, <2>4 DEF Good, Reader
    <3>. QED BY <3>1 DEF RanLine, Good, Reader, s
  <2>7. "q" \in Range(l) => RanLine(x, l, y4)
    <3>. HIDE DEF s
    <3>1. y4 \in Reader
      BY <2>3, <2>4 DEF Good, Reader
    <3>. QED BY <3>1 DEF RanLine, Good, Reader, s
  <2>. HIDE DEF y, y2, y3, y4
  <2>8. RanLine(x, l, z)
    BY <2>1, <2>5, <2>6, <2>7
  <2>. QED BY <1>2, <2>8, RanDispatches DEF l
<1>. QED BY <1>1, <1>2

LEMMA QuitIfDone ==
  ASSUME NEW x \in Good
  PROVE  /\ quitIfDone(x) \in Good
         /\ quitIfDone(x).state = IF x.quitReq /\ ~x.ttyW THEN "DONE" ELSE x.state
         /\ quitIfDone(x).ttyR = x.ttyR /\ quitIfDone(x).taken = x.taken
         /\ quitIfDone(x).ran = x.ran /\ quitIfDone(x).eol = x.eol
         /\ quitIfDone(x).quitReq = x.quitReq
         /\ Told(x) => Told(quitIfDone(x))
<1>. DEFINE y == [x EXCEPT !.state = "DONE"]
<1>1. /\ y \in Good /\ y.state = "DONE" /\ y.ttyR = x.ttyR /\ y.taken = x.taken
      /\ y.ran = x.ran /\ y.eol = x.eol /\ y.quitReq = x.quitReq /\ page(y) = page(x)
  BY DEF Good, Reader, page
<1>2. quitIfDone(x) = IF x.quitReq /\ ~x.ttyW THEN y ELSE x
  BY DEF quitIfDone
<1>. HIDE DEF y
<1>. QED BY <1>1, <1>2 DEF Told

-----------------------------------------------------------------------------
(* A step of cmdIter() in a host. *)

\* x has run and read lines and become y.
Runs(x, y) ==
    /\ y.state # "AWAY" => y.taken \o y.ttyR = x.taken \o x.ttyR
    /\ Told(x) => Told(y)
    /\ Extends(x.ran, y.ran)
    /\ x.quitReq => y.quitReq
    /\ y.quitReq => x.quitReq \/ HasQuit(x.ran, y.ran) \/ (TwoCtrlC(y.taken) /\ ~y.eol)
    /\ y.eol => y.state = "CMD"
    /\ Len(y.ttyR) <= Len(x.ttyR)

goesOn(w) == IF w.state # "CMD" \/ w.ttyR = <<>> THEN {w} ELSE {cmdReadLoop(w)}
runOne(y) == UNION {goesOn(quitIfDone(z)) : z \in cmdDispatchIfReady(y)}

LEMMA RunOne ==
  ASSUME NEW x \in Good, x.state = "CMD", NEW v \in runOne(x)
  PROVE  /\ v \in Good /\ Runs(x, v)
         /\ v.eol => Len(v.ttyR) < Len(x.ttyR)
<1>1. PICK z \in cmdDispatchIfReady(x) : v \in goesOn(quitIfDone(z))
  BY DEF runOne
<1>2. z \in Good /\ Dispatches(x, z)
  BY Dispatch
<1>. DEFINE w == quitIfDone(z)
<1>3. /\ w \in Good /\ w.ttyR = z.ttyR /\ w.taken = z.taken
      /\ w.state = IF z.quitReq /\ ~z.ttyW THEN "DONE" ELSE z.state
      /\ w.ran = z.ran /\ w.eol = z.eol /\ w.quitReq = z.quitReq
      /\ Told(z) => Told(w)
  BY <1>2, QuitIfDone
<1>4. v \in goesOn(w)
  BY <1>1
<1>. HIDE DEF w
<1>5. /\ ~w.eol /\ w.taken = x.taken
      /\ \/ w.state \in {"CMD", "DONE"} /\ w.ttyR = x.ttyR
         \/ w.state = "AWAY" /\ w.ttyR = <<>>
      /\ Told(x) => Told(w)
      /\ Extends(x.ran, w.ran)
      /\ x.quitReq => w.quitReq
      /\ w.quitReq => x.quitReq \/ HasQuit(x.ran, w.ran)
  BY <1>2, <1>3 DEF Dispatches
<1>6. Len(w.ttyR) <= Len(x.ttyR)
  <2>1. Len(x.ttyR) \in Nat /\ Len(x.ttyR) <= Len(x.ttyR)
    BY GoodIs, EmptyLen
  <2>. DEFINE e == <<>>
  <2>2. Len(e) = 0
    BY EmptySeq
  <2>. HIDE DEF e
  <2>. QED BY <1>5, <2>1, <2>2 DEF e
<1>7. CASE w.state # "CMD" \/ w.ttyR = <<>>
  <2>1. v = w
    BY <1>4, <1>7 DEF goesOn
  <2>2. w.state # "AWAY" => w.taken \o w.ttyR = x.taken \o x.ttyR
    BY <1>5
  <2>3. Runs(x, w)
    BY <1>5, <1>6, <2>2 DEF Runs
  <2>. QED BY <1>3, <1>5, <2>1, <2>3
<1>8. CASE w.state = "CMD" /\ w.ttyR # <<>>
  <2>1. v = cmdReadLoop(w)
    BY <1>4, <1>8 DEF goesOn
  <2>2. /\ v \in Good /\ Reads(w, v) /\ Len(v.ttyR) < Len(w.ttyR)
        /\ v.eol /\ v.quitReq => w.quitReq
    BY <1>3, <1>5, <1>8, <2>1, ReadLoop
  <2>3. w.ttyR = x.ttyR /\ Len(v.ttyR) < Len(x.ttyR) /\ Len(v.ttyR) <= Len(x.ttyR)
    <3>1. Len(v.ttyR) \in Nat /\ Len(x.ttyR) \in Nat
      BY <2>2, GoodIs, EmptyLen
    <3>. QED BY <1>5, <1>8, <2>2, <3>1
  <2>4. /\ v.state = "CMD" /\ v.ran = w.ran /\ v.taken \o v.ttyR = x.taken \o x.ttyR
        /\ Told(x) => Told(v)
        /\ x.quitReq => v.quitReq
        /\ v.quitReq => w.quitReq \/ TwoCtrlC(v.taken)
    BY <1>5, <1>8, <2>2, <2>3 DEF Reads
  <2>5. v.quitReq => x.quitReq \/ HasQuit(x.ran, v.ran) \/ (TwoCtrlC(v.taken) /\ ~v.eol)
    BY <1>5, <2>2, <2>4
  <2>6. Extends(x.ran, v.ran)
    BY <1>5, <2>4
  <2>. QED BY <2>2, <2>3, <2>4, <2>5, <2>6 DEF Runs
<1>. QED BY <1>7, <1>8, <1>5

LEMMA RunsOn ==
  ASSUME NEW x \in Good, NEW y \in Good, NEW z \in Good, Runs(x, y), Runs(y, z), y.eol
  PROVE  Runs(x, z)
<1>1. Extends(x.ran, z.ran)
      /\ (HasQuit(x.ran, y.ran) \/ HasQuit(y.ran, z.ran) => HasQuit(x.ran, z.ran))
  <2>1. Extends(x.ran, y.ran) /\ Extends(y.ran, z.ran)
    BY DEF Runs
  <2>2. x.ran \in Seq(Seq(Letters)) /\ y.ran \in Seq(Seq(Letters)) /\ z.ran \in Seq(Seq(Letters))
    BY GoodIs
  <2>. QED BY <2>1, <2>2, ExtendsOn
<1>2. Len(z.ttyR) <= Len(x.ttyR)
  <2>1. Len(x.ttyR) \in Nat /\ Len(y.ttyR) \in Nat /\ Len(z.ttyR) \in Nat
    BY GoodIs, EmptyLen
  <2>. QED BY <2>1 DEF Runs
<1>3. y.state = "CMD"
  BY DEF Runs
<1>4. z.quitReq => x.quitReq \/ HasQuit(x.ran, z.ran) \/ (TwoCtrlC(z.taken) /\ ~z.eol)
  BY <1>1 DEF Runs
<1>. QED BY <1>1, <1>2, <1>3, <1>4 DEF Runs

\* However many lines the host has handed over, the step runs them all: when it
\* is over no line is left that has not been run.
LEMMA AppIter ==
  ASSUME NEW x \in Good, x.state = "CMD", ~x.eol, NEW z \in appIter(x)
  PROVE  z \in Good /\ Runs(x, z) /\ ~z.eol
<1>. DEFINE L == Len(x.ttyR)
            N == L + 1
            S(n) == {y \in Good : IF n = 0 THEN y = x
                                  ELSE Runs(x, y) /\ (y.eol => Len(y.ttyR) <= L - n)}
            turn(n, Y) == UNION {IF n > 1 /\ ~y.eol THEN {y} ELSE runOne(y) : y \in Y}
            P == SUBSET Good
            J == [n \in 0..N |-> SUBSET S(n)]
            h == [n \in 1..N |-> [Y \in P |-> turn(n, Y)]]
            after[n \in 0..N] ==
              IF n = 0 THEN {x}
              ELSE UNION {IF n > 1 /\ ~y.eol THEN {y}
                          ELSE UNION {
                                 LET w == quitIfDone(q) IN
                                 IF w.state # "CMD" \/ w.ttyR = <<>> THEN {w} ELSE {cmdReadLoop(w)} :
                                   q \in cmdDispatchIfReady(y)}
                          : y \in after[n - 1]}
<1>1. L \in Nat /\ N \in Nat /\ N = L + 1
  <2>1. L \in Nat
    BY GoodIs, EmptyLen
  <2>. HIDE DEF L
  <2>. QED BY <2>1
<1>2. z \in after[N]
  BY DEF appIter, after
<1>. HIDE DEF L, N
<1>3. \A n \in 1..N : n - 1 \in 0..N /\ n \in 0..N /\ n # 0
  BY <1>1
<1>4. ASSUME NEW n \in 1..N, NEW y \in S(n - 1),
             NEW v \in (IF n > 1 /\ ~y.eol THEN {y} ELSE runOne(y))
      PROVE  v \in S(n)
  <2>1. y \in Good /\ n # 0 /\ n \in Nat
    BY <1>3
  <2>2. CASE n = 1
    <3>1. y = x /\ v \in runOne(x)
      BY <1>4, <2>2
    <3>2. v \in Good /\ Runs(x, v) /\ (v.eol => Len(v.ttyR) < Len(x.ttyR))
      BY <3>1, RunOne
    <3>3. v.ttyR \in Seq(Byte) /\ Len(v.ttyR) \in Nat
      BY <3>2, GoodIs, EmptyLen
    <3>4. v.eol => Len(v.ttyR) <= L - n
      BY <1>1, <2>2, <3>2, <3>3 DEF L
    <3>. QED BY <2>1, <3>2, <3>4
  <2>3. CASE n > 1 /\ ~y.eol
    <3>1. v = y /\ n - 1 # 0
      BY <2>3, <1>1
    <3>. QED BY <2>1, <2>3, <3>1
  <2>4. CASE n > 1 /\ y.eol
    <3>1. v \in runOne(y) /\ n - 1 # 0
      BY <2>4, <1>1
    <3>2. Runs(x, y) /\ Len(y.ttyR) <= L - (n - 1)
      BY <2>4, <3>1
    <3>3. y.state = "CMD"
      BY <2>4, <3>2 DEF Runs
    <3>4. v \in Good /\ Runs(y, v) /\ (v.eol => Len(v.ttyR) < Len(y.ttyR))
      BY <2>1, <3>1, <3>3, RunOne
    <3>5. Runs(x, v)
      BY <2>1, <2>4, <3>2, <3>4, RunsOn
    <3>6. Len(v.ttyR) \in Nat /\ Len(y.ttyR) \in Nat
      BY <2>1, <3>4, GoodIs, EmptyLen
    <3>7. v.eol => Len(v.ttyR) <= L - n
      BY <1>1, <2>1, <3>2, <3>4, <3>6
    <3>. QED BY <2>1, <3>4, <3>5, <3>7
  <2>. QED BY <1>1, <2>1, <2>2, <2>3, <2>4
<1>5. S(0) = {x}
  OBVIOUS
<1>6. \A n \in 0..N : J[n] = SUBSET S(n) /\ J[n] \subseteq P
  OBVIOUS
<1>. HIDE DEF S
<1>7. ASSUME NEW n \in 1..N, NEW Y \in J[n - 1]
      PROVE  Y \in P /\ h[n][Y] = turn(n, Y) /\ turn(n, Y) \in J[n]
  <2>1. Y \in P /\ Y \subseteq S(n - 1)
    BY <1>3, <1>6
  <2>2. h[n][Y] = turn(n, Y)
    BY <2>1
  <2>3. turn(n, Y) \subseteq S(n)
    BY <1>4, <2>1
  <2>. QED BY <1>3, <1>6, <2>1, <2>2, <2>3
<1>8. {x} \in J[0]
  BY <1>1, <1>5, <1>6
<1>. HIDE DEF P, J, h, after, turn
<1>9. PICK f : Loop(f, N, P, J, {x}, h)
  <2>1. Turns(N, P, J, h)
    BY <1>6, <1>7 DEF Turns
  <2>. QED BY <1>1, <1>8, <2>1, LoopExists
<1>. DEFINE F(n) == IF n = 0 THEN {x} ELSE turn(n, f[n - 1])
            E(n) == IF n = 0 THEN {x} ELSE turn(n, after[n - 1])
<1>10. \A n \in 0..N : f[n] = F(n)
  <2>1. ASSUME NEW n \in 1..N PROVE f[n] = turn(n, f[n - 1])
    <3>1. f[n - 1] \in J[n - 1] /\ f[n] = h[n][f[n - 1]]
      BY <1>3, <1>9 DEF Loop
    <3>. QED BY <1>7, <3>1
  <2>2. f[0] = {x}
    BY <1>9 DEF Loop
  <2>3. \A n \in 0..N : n = 0 \/ n \in 1..N
    BY <1>1
  <2>. QED BY <1>3, <2>1, <2>2, <2>3
<1>11. f = [n \in 0..N |-> F(n)]
  <2>1. f = [n \in 0..N |-> f[n]]
    BY <1>9 DEF Loop
  <2>. HIDE DEF F
  <2>. QED BY <1>10, <2>1
<1>12. after = [n \in 0..N |-> E(n)]
  BY <1>11 DEF after, turn, runOne, goesOn
<1>13. \A n \in 0..N : after[n] = E(n)
  <2>. HIDE DEF E
  <2>. QED BY <1>12
<1>14. after[0] = {x} /\ \A n \in 1..N : after[n] = turn(n, after[n - 1])
  BY <1>1, <1>3, <1>13
<1>15. after[N] \subseteq S(N)
  <2>1. after[0] \in J[0] /\ \A n \in 1..N : after[n - 1] \in J[n - 1] => after[n] \in J[n]
    BY <1>7, <1>8, <1>14
  <2>2. \A n \in 0..N : after[n] \in J[n]
    BY <1>1, <2>1, LoopStays
  <2>3. N \in 0..N
    BY <1>1
  <2>. QED BY <1>6, <2>2, <2>3
<1>. HIDE DEF E, F
<1>16. z \in Good /\ Runs(x, z) /\ (z.eol => Len(z.ttyR) <= L - N)
  BY <1>1, <1>2, <1>15 DEF S
<1>17. Len(z.ttyR) \in Nat
  BY <1>16, GoodIs, EmptyLen
<1>. QED BY <1>1, <1>16, <1>17

-----------------------------------------------------------------------------
(* A step of cmdIter() over a tty. *)

LEMMA ByteSeqs == \A s \in Seq(Byte) : s \in Seq(Tape)
<1>1. Byte \subseteq Tape
  BY Kinds
<1>. QED BY <1>1, SeqMonotonic

\* What was taken and what is left, before and after.
Rejoins(t, r, a, b) == t \o r = a \o b

LEMMA LastOf ==
  ASSUME NEW S, NEW a \in Seq(S), NEW b \in Seq(S), NEW t \in Seq(S), NEW r \in Seq(S),
         Rejoins(t, r, a, b), Len(r) < Len(b)
  PROVE  /\ Len(b) - Len(r) \in 1..Len(b)
         /\ t[Len(t)] = b[Len(b) - Len(r)]
<1>. DEFINE k == Len(b) - Len(r)
            u == t \o r
            v == a \o b
<1>1. Len(a) \in Nat /\ Len(b) \in Nat /\ Len(t) \in Nat /\ Len(r) \in Nat
  BY EmptyLen
<1>2. Len(u) = Len(t) + Len(r) /\ \A i \in 1..Len(u) : u[i] = IF i <= Len(t) THEN t[i] ELSE r[i - Len(t)]
  BY ConcatProperties
<1>3. Len(v) = Len(a) + Len(b) /\ \A i \in 1..Len(v) : v[i] = IF i <= Len(a) THEN a[i] ELSE b[i - Len(a)]
  BY ConcatProperties
<1>4. u = v
  BY DEF Rejoins
<1>. HIDE DEF u, v
<1>5. Len(t) = Len(a) + k /\ k \in 1..Len(b)
  <2>1. Len(t) + Len(r) = Len(a) + Len(b)
    BY <1>2, <1>3, <1>4
  <2>. QED BY <1>1, <2>1
<1>. HIDE DEF k
<1>6. Len(t) \in 1..Len(u) /\ Len(t) - Len(a) = k /\ ~(Len(t) <= Len(a))
  BY <1>1, <1>2, <1>5
<1>7. u[Len(t)] = t[Len(t)]
  BY <1>1, <1>2, <1>6
<1>8. v[Len(t)] = b[k]
  BY <1>1, <1>3, <1>4, <1>6
<1>. QED BY <1>4, <1>5, <1>7, <1>8 DEF k

\* Nothing is typed behind the end of a line.
OnlyLast(s) == \A i \in 1..Len(s) : s[i] = "CR" => i = Len(s)

LEMMA TtyParts ==
  ASSUME NEW s \in Seq(Byte), NEW rd \in 1..Len(s), NEW a \in Seq(Tape)
  PROVE  (a \o SubSeq(s, 1, rd)) \o SubSeq(s, rd + 1, Len(s)) = a \o s
<1>. DEFINE p == SubSeq(s, 1, rd)
            e == SubSeq(s, rd + 1, Len(s))
<1>1. rd \in 0..Len(s)
  BY EmptyLen
<1>2. p \in Seq(Byte) /\ e \in Seq(Byte)
  BY <1>1, Cut
<1>3. s = p \o e
  BY <1>1, Cut
<1>. HIDE DEF p, e
<1>4. p \in Seq(Tape) /\ e \in Seq(Tape)
  BY <1>2, ByteSeqs
<1>5. (a \o p) \o e = a \o (p \o e)
  BY <1>4, ConcatAssociative
<1>. QED BY <1>3, <1>5 DEF p, e

LEMMA TtyTook ==
  ASSUME NEW s \in Seq(Byte), NEW rd \in 1..Len(s), NEW a \in Seq(Tape), NEW t \in Seq(Tape),
         NEW r \in Seq(Byte), Rejoins(t, r, a, SubSeq(s, 1, rd))
  PROVE  /\ (t \o r) \o SubSeq(s, rd + 1, Len(s)) = a \o s
         /\ OnlyLast(s) /\ Len(r) < rd /\ t[Len(t)] = "CR"
              => r = <<>> /\ SubSeq(s, rd + 1, Len(s)) = <<>>
<1>. DEFINE p == SubSeq(s, 1, rd)
            e == SubSeq(s, rd + 1, Len(s))
<1>1. Len(s) \in Nat /\ rd \in Nat /\ rd <= Len(s) /\ rd \in 0..Len(s)
  BY EmptyLen
<1>2. p \in Seq(Byte) /\ Len(p) = rd /\ e \in Seq(Byte) /\ Len(e) = Len(s) - rd
  BY <1>1, Cut
<1>4. \A i \in 1..rd : p[i] = s[i]
  BY <1>1, SubSeqProperties
<1>5. Rejoins(t, r, a, p)
  OBVIOUS
<1>. HIDE DEF p, e
<1>6. r \in Seq(Tape) /\ p \in Seq(Tape) /\ e \in Seq(Tape)
  BY <1>2, ByteSeqs
<1>7. (t \o r) \o e = a \o s
  <2>1. (a \o p) \o e = a \o s
    BY TtyParts DEF p, e
  <2>. QED BY <1>5, <2>1 DEF Rejoins
<1>8. ASSUME OnlyLast(s), Len(r) < rd, t[Len(t)] = "CR" PROVE r = <<>> /\ e = <<>>
  <2>. DEFINE k == Len(p) - Len(r)
  <2>1. k \in 1..Len(p) /\ p[k] = "CR"
    <3>1. Len(r) < Len(p)
      BY <1>2, <1>8
    <3>2. k \in 1..Len(p) /\ t[Len(t)] = p[k]
      BY <1>5, <1>6, <3>1, LastOf
    <3>. QED BY <1>8, <3>2
  <2>2. Len(r) \in Nat /\ k = rd - Len(r)
    BY <1>2, EmptyLen
  <2>. HIDE DEF k
  <2>3. k \in 1..rd /\ k \in 1..Len(s) /\ s[k] = "CR"
    BY <1>1, <1>2, <1>4, <2>1
  <2>4. k = Len(s)
    BY <1>8, <2>3 DEF OnlyLast
  <2>5. Len(r) = 0 /\ Len(e) = 0
    BY <1>1, <1>2, <2>2, <2>3, <2>4
  <2>. QED BY <1>2, <2>5, EmptyLen
<1>. QED BY <1>7, <1>8 DEF e

LEMMA TtyRead ==
  ASSUME NEW u \in Good, NEW v \in Good, Reads(u, v), NEW s \in Seq(Byte), NEW rd \in 1..Len(s),
         u.ttyR = SubSeq(s, 1, rd)
  PROVE  /\ Len(v.ttyR) <= rd
         /\ (v.taken \o v.ttyR) \o SubSeq(s, rd + 1, Len(s)) = u.taken \o s
         /\ ~u.eol /\ v.eol /\ OnlyLast(s)
              => v.ttyR = <<>> /\ SubSeq(s, rd + 1, Len(s)) = <<>>
<1>. DEFINE a == u.taken
            t == v.taken
            r == v.ttyR
            e == SubSeq(s, rd + 1, Len(s))
<1>1. a \in Seq(Tape) /\ t \in Seq(Tape) /\ r \in Seq(Byte)
  BY GoodIs
<1>2. Len(u.ttyR) = rd
  <2>1. rd \in 0..Len(s)
    BY EmptyLen
  <2>2. Len(SubSeq(s, 1, rd)) = rd
    BY <2>1, Cut
  <2>. QED BY <2>2
<1>3. /\ t \o r = a \o SubSeq(s, 1, rd) /\ Len(r) <= rd
      /\ v.eol => u.eol \/ (Len(r) < rd /\ t[Len(t)] = "CR")
  BY <1>2 DEF Reads
<1>. HIDE DEF a, t, r, e
<1>4. /\ (t \o r) \o e = a \o s
      /\ OnlyLast(s) /\ Len(r) < rd /\ t[Len(t)] = "CR" => r = <<>> /\ e = <<>>
  <2>1. Rejoins(t, r, a, SubSeq(s, 1, rd))
    BY <1>3 DEF Rejoins
  <2>. QED BY <1>1, <2>1, TtyTook DEF e
<1>. QED BY <1>3, <1>4 DEF a, t, r, e

\* What poll() finds of the terminal comes first.
LEMMA TtyReady ==
  ASSUME NEW x \in Good, x.state = "CMD", NEW wr \in {"no", "part", "all"}, NEW y,
         y \in (IF wr = "no" THEN {IF wr = "all" THEN [x EXCEPT !.ttyW = FALSE] ELSE x}
                ELSE cmdDispatchIfReady(IF wr = "all" THEN [x EXCEPT !.ttyW = FALSE] ELSE x))
  PROVE  /\ y \in Good /\ y.taken = x.taken
         /\ \/ y.state = "CMD" /\ y.ttyR = x.ttyR
            \/ y.state = "AWAY" /\ y.ttyR = <<>> /\ ~y.eol
         /\ Told(x) => Told(y)
         /\ Extends(x.ran, y.ran)
         /\ x.quitReq => y.quitReq
         /\ y.quitReq => x.quitReq \/ HasQuit(x.ran, y.ran)
         /\ y.eol => x.eol /\ wr = "no"
<1>. DEFINE w == IF wr = "all" THEN [x EXCEPT !.ttyW = FALSE] ELSE x
<1>1. /\ w \in Good /\ w.state = "CMD" /\ w.ttyR = x.ttyR /\ w.taken = x.taken
      /\ w.ran = x.ran /\ w.eol = x.eol /\ w.quitReq = x.quitReq /\ page(w) = page(x)
  BY DEF Good, Reader, page
<1>2. Told(x) => Told(w)
  BY <1>1 DEF Told
<1>3. y \in (IF wr = "no" THEN {w} ELSE cmdDispatchIfReady(w))
  OBVIOUS
<1>. HIDE DEF w
<1>4. CASE wr = "no"
  <2>1. y = w
    BY <1>3, <1>4
  <2>2. Extends(x.ran, y.ran)
    BY <1>1, <2>1, GoodIs, ExtendsSelf
  <2>. QED BY <1>1, <1>2, <1>4, <2>1, <2>2
<1>5. CASE wr # "no"
  <2>1. y \in cmdDispatchIfReady(w)
    BY <1>3, <1>5
  <2>2. y \in Good /\ Dispatches(w, y)
    BY <1>1, <2>1, Dispatch
  <2>. QED BY <1>1, <1>2, <2>2 DEF Dispatches
<1>. QED BY <1>4, <1>5

\* Nothing has been overtaken: what is then so before a step, and after it.
Waited(x, s) ==
    /\ Told(x) /\ OnlyLast(s) /\ (x.eol => s = <<>>)
    /\ (~x.quitReq => x.ttyR = <<>>) /\ (x.eol => x.ttyR = <<>>)
Waits(x, s, z, e) ==
    /\ Told(z) /\ OnlyLast(e)
    /\ z.eol => z.state # "AWAY" /\ z.ttyR = <<>> /\ e = <<>>
    /\ ~z.quitReq => z.ttyR = <<>>
    /\ z.state # "AWAY" /\ ~z.quitReq => (z.taken \o z.ttyR) \o e = (x.taken \o x.ttyR) \o s

LEMMA TtyIter ==
  ASSUME NEW x \in Good, x.state = "CMD", ttyIn \in Seq(Byte), Len(x.ttyR) <= BufR,
         NEW wr \in {"no", "part", "all"}, NEW rd \in 0..Least(BufR, Len(ttyIn)),
         wr # "no" \/ rd > 0, NEW z \in ttyIter(x, wr, rd),
         NEW e, e = IF z.state = "AWAY" THEN ttyIn ELSE SubSeq(ttyIn, rd + 1, Len(ttyIn))
  PROVE  /\ z \in Good /\ e \in Seq(Byte) /\ Len(z.ttyR) <= BufR
         /\ Extends(x.ran, z.ran)
         /\ z.quitReq => x.quitReq \/ HasQuit(x.ran, z.ran) \/ TwoCtrlC(z.taken)
         /\ x.quitReq => z.quitReq
         /\ Waited(x, ttyIn) => Waits(x, ttyIn, z, e)
<1>. USE DEF Waited, Waits
<1>. DEFINE s == ttyIn
            m == SubSeq(s, rd + 1, Len(s))
            Calm == Told(x) /\ OnlyLast(s) /\ (x.eol => s = <<>>)
                    /\ (~x.quitReq => x.ttyR = <<>>) /\ (x.eol => x.ttyR = <<>>)
            w == IF wr = "all" THEN [x EXCEPT !.ttyW = FALSE] ELSE x
            ready == IF wr = "no" THEN {w} ELSE cmdDispatchIfReady(w)
            rest(y) == IF rd = 0 THEN y
                       ELSE cmdReadLoop([y EXCEPT !.ttyR = SubSeq(s, 1, rd)])
<1>1. s \in Seq(Byte) /\ Len(s) \in Nat
  BY EmptyLen
<1>2. rd \in 0..Len(s) /\ rd \in Nat /\ rd <= BufR
  BY <1>1, Sizes DEF Least
<1>3. PICK y \in ready : z = IF y.state = "AWAY" THEN y ELSE quitIfDone(rest(y))
  BY DEF ttyIter
<1>. HIDE DEF rest
<1>4. /\ y \in Good /\ y.taken = x.taken
      /\ \/ y.state = "CMD" /\ y.ttyR = x.ttyR
         \/ y.state = "AWAY" /\ y.ttyR = <<>> /\ ~y.eol
      /\ Told(x) => Told(y)
      /\ Extends(x.ran, y.ran)
      /\ x.quitReq => y.quitReq
      /\ y.quitReq => x.quitReq \/ HasQuit(x.ran, y.ran)
      /\ y.eol => x.eol /\ wr = "no"
  BY <1>3, TtyReady
<1>. HIDE DEF w, ready, s
<1>5. m \in Seq(Byte) /\ Len(m) = Len(s) - rd /\ (rd = 0 => m = s)
  BY <1>1, <1>2, Cut
<1>6. OnlyLast(s) => OnlyLast(m)
  <2>1. ASSUME NEW i \in 1..Len(m), m[i] = "CR", OnlyLast(s) PROVE i = Len(m)
    <3>1. rd + i \in 1..Len(s) /\ i \in 1..(Len(s) - rd)
      BY <1>1, <1>2, <1>5
    <3>2. m[i] = s[rd + i]
      <4>1. rd \in Nat /\ Len(s) \in Nat /\ rd <= Len(s) /\ Len(s) <= Len(s)
        BY <1>1, <1>2
      <4>2. \A j \in 1..(Len(s) - rd) : m[j] = s[rd + j]
        BY <1>1, <4>1, PartIs
      <4>. QED BY <3>1, <4>2
    <3>3. rd + i = Len(s)
      BY <2>1, <3>1, <3>2 DEF OnlyLast
    <3>. QED BY <1>1, <1>2, <1>5, <3>3
  <2>. QED BY <2>1 DEF OnlyLast
<1>. HIDE DEF m
<1>7. CASE y.state = "AWAY"
  <2>1. z = y /\ e = s /\ y.ttyR = <<>>
    BY <1>3, <1>4, <1>7 DEF s
  <2>2. Len(z.ttyR) <= BufR
    BY <2>1, Sizes, EmptySeq
  <2>. QED BY <1>1, <1>4, <1>7, <2>1, <2>2 DEF s
<1>8. CASE y.state = "CMD"
  <2>. DEFINE v == rest(y)
  <2>1. /\ v \in Good /\ v.state = "CMD" /\ Len(v.ttyR) <= BufR
        /\ Extends(x.ran, v.ran)
        /\ v.quitReq => x.quitReq \/ HasQuit(x.ran, v.ran) \/ TwoCtrlC(v.taken)
        /\ x.quitReq => v.quitReq
        /\ Calm => /\ Told(v)
                   /\ v.eol => v.ttyR = <<>> /\ m = <<>>
                   /\ ~v.quitReq => v.ttyR = <<>>
                   /\ ~v.quitReq => (v.taken \o v.ttyR) \o m = (x.taken \o x.ttyR) \o s
    <3>1. CASE rd = 0
      <4>1. v = y /\ m = s /\ wr # "no"
        BY <1>5, <3>1 DEF rest
      <4>2. ~y.eol /\ y.ttyR = x.ttyR
        BY <1>4, <1>8, <4>1
      <4>. QED BY <1>4, <1>8, <4>1, <4>2
    <3>2. CASE rd # 0
      <4>1. rd \in 1..Len(s)
        BY <1>1, <1>2, <3>2
      <4>2. v = cmdReadLoop([y EXCEPT !.ttyR = SubSeq(s, 1, rd)])
        BY <3>2 DEF rest
      <4>. HIDE DEF v
      <4>3. /\ v \in Good /\ v.state = "CMD" /\ v.ran = y.ran /\ Len(v.ttyR) <= rd
            /\ y.quitReq => v.quitReq
            /\ v.quitReq => y.quitReq \/ TwoCtrlC(v.taken)
            /\ Told(y) /\ ~y.eol => Told(v)
            /\ (v.taken \o v.ttyR) \o m = y.taken \o s
            /\ v.ttyR = <<>> \/ v.eol \/ v.quitReq
            /\ ~y.eol /\ v.eol /\ OnlyLast(s) => v.ttyR = <<>> /\ m = <<>>
        <5>. DEFINE p == SubSeq(s, 1, rd)
                    u == [y EXCEPT !.ttyR = p]
        <5>1. p \in Seq(Byte)
          BY <1>1, <1>2, Cut
        <5>2. v = cmdReadLoop(u)
          BY <4>2
        <5>. HIDE DEF p
        <5>3. /\ u \in Good /\ u.state = "CMD" /\ u.ran = y.ran /\ u.taken = y.taken
              /\ u.ttyR = p /\ u.eol = y.eol /\ u.quitReq = y.quitReq /\ page(u) = page(y)
          BY <1>4, <1>8, <5>1 DEF Good, Reader, page
        <5>. HIDE DEF u
        <5>4. v \in Good /\ Reads(u, v) /\ (v.ttyR = <<>> \/ v.eol \/ v.quitReq)
          BY <5>2, <5>3, ReadLoop
        <5>5. /\ v.state = "CMD" /\ v.ran = y.ran
              /\ y.quitReq => v.quitReq
              /\ v.quitReq => y.quitReq \/ TwoCtrlC(v.taken)
              /\ Told(y) /\ ~y.eol => Told(v)
          BY <5>3, <5>4 DEF Reads, Told
        <5>6. u.ttyR = SubSeq(s, 1, rd)
          BY <5>3 DEF p
        <5>7. /\ Len(v.ttyR) <= rd
              /\ (v.taken \o v.ttyR) \o m = u.taken \o s
              /\ ~u.eol /\ v.eol /\ OnlyLast(s) => v.ttyR = <<>> /\ m = <<>>
          BY <1>1, <4>1, <5>3, <5>4, <5>6, TtyRead DEF m
        <5>. QED BY <5>3, <5>4, <5>5, <5>7
      <4>4. Len(v.ttyR) <= BufR
        <5>1. Len(v.ttyR) \in Nat
          BY <4>3, GoodIs, EmptyLen
        <5>. QED BY <1>2, <4>3, <5>1, Sizes
      <4>5. Calm => ~y.eol
        <5>1. s # <<>>
          BY <1>1, <4>1, EmptyLen
        <5>. QED BY <1>4, <5>1
      <4>6. x.taken = y.taken /\ (~v.quitReq => ~x.quitReq)
        BY <1>4, <4>3
      <4>7. x.ttyR = <<>> => x.taken \o x.ttyR = x.taken
        <5>1. x.taken \in Seq(Tape)
          BY GoodIs
        <5>. QED BY <5>1, ConcatEmptySeq
      <4>. QED BY <1>4, <4>3, <4>4, <4>5, <4>6, <4>7
    <3>. QED BY <3>1, <3>2
  <2>2. z = quitIfDone(v)
    BY <1>3, <1>8
  <2>. HIDE DEF v
  <2>3. /\ z \in Good /\ z.state # "AWAY" /\ z.ttyR = v.ttyR /\ z.taken = v.taken
        /\ z.ran = v.ran /\ z.eol = v.eol /\ z.quitReq = v.quitReq /\ (Told(v) => Told(z))
    BY <2>1, <2>2, QuitIfDone
  <2>4. e = m
    BY <2>3 DEF m, s
  <2>. QED BY <1>5, <1>6, <2>1, <2>3, <2>4 DEF s
<1>. QED BY <1>4, <1>7, <1>8

-----------------------------------------------------------------------------
(* The bytes of a call, and bytes that are passed on. *)

LEMMA EditedData ==
  ASSUME NEW t \in Seq(Tape), NEW u \in Seq({"data"})
  PROVE  Edited(t \o u) = Edited(t) /\ t \o u \in Seq(Tape)
<1>. DEFINE P == {v \in Seq({"data"}) : Edited(t \o v) = Edited(t) /\ t \o v \in Seq(Tape)}
            z == <<>>
<1>1. z \in P
  <2>1. t \o z = t /\ z \in Seq({"data"})
    BY ConcatEmptySeq, EmptySeq
  <2>. HIDE DEF z
  <2>. QED BY <2>1
<1>. HIDE DEF z
<1>2. ASSUME NEW v \in Seq({"data"}), NEW c \in {"data"}, v \in P PROVE Append(v, c) \in P
  <2>. DEFINE a == t \o v
              w == Append(v, c)
  <2>1. w \in Seq({"data"})
    BY AppendProperties
  <2>2. Edited(a) = Edited(t) /\ a \in Seq(Tape)
    BY <1>2
  <2>3. t \o w = Append(a, c)
    <3>1. {"data"} \subseteq Tape
      BY DEF Tape
    <3>2. v \in Seq(Tape) /\ c \in Tape
      BY <3>1, SeqMonotonic
    <3>. QED BY <3>2, JoinAppend
  <2>. HIDE DEF a, w
  <2>4. c \in Tape /\ c = "data"
    BY DEF Tape
  <2>5. Append(a, c) \in Seq(Tape) /\ Edited(Append(a, c)) = edit(Edited(a), c)
    BY <2>2, <2>4, AppendProperties, EditedAppend
  <2>6. edit(Edited(a), c) = Edited(a)
    BY <2>4 DEF edit
  <2>7. Edited(t \o w) = Edited(t) /\ t \o w \in Seq(Tape)
    BY <2>2, <2>3, <2>5, <2>6
  <2>. QED BY <2>1, <2>7 DEF w
<1>3. Seq({"data"}) \subseteq P
  <2>. HIDE DEF P
  <2>. QED BY <1>1, <1>2, SeqInduct DEF z
<1>. QED BY <1>3

\* A Ctrl-C is still the last byte of command mode behind what is not typed there.
LEMMA StillCtrlC ==
  ASSUME NEW t \in Seq(Tape), NEW u \in Seq({"data", "BACK"}), EndsInCtrlC(t)
  PROVE  EndsInCtrlC(t \o u)
<1>. DEFINE s == t \o u
            n == Len(t)
<1>1. u \in Seq(Tape)
  <2>1. {"data", "BACK"} \subseteq Tape
    BY DEF Tape
  <2>. QED BY <2>1, SeqMonotonic
<1>2. /\ n \in Nat /\ Len(u) \in Nat /\ Len(s) = n + Len(u)
      /\ \A k \in 1..Len(s) : s[k] = IF k <= n THEN t[k] ELSE u[k - n]
  <2>1. n \in Nat /\ Len(u) \in Nat
    BY <1>1, EmptyLen
  <2>2. Len(s) = n + Len(u) /\ \A k \in 1..(n + Len(u)) : s[k] = IF k <= n THEN t[k] ELSE u[k - n]
    BY <1>1, ConcatProperties
  <2>. HIDE DEF s, n
  <2>. QED BY <2>1, <2>2
<1>3. \A k \in 1..Len(u) : u[k] \notin Byte
  <2>1. \A k \in 1..Len(u) : u[k] \in {"data", "BACK"}
    BY ElementOfSeq
  <2>. QED BY <2>1, Sizes DEF Byte
<1>4. PICK i \in 1..n : t[i] = "^C" /\ \A k \in (i + 1)..n : t[k] \notin Byte
  BY DEF EndsInCtrlC
<1>. HIDE DEF s, n
<1>5. i \in 1..Len(s) /\ s[i] = "^C"
  BY <1>2, <1>4
<1>6. ASSUME NEW k \in (i + 1)..Len(s) PROVE s[k] \notin Byte
  <2>1. k \in 1..Len(s)
    BY <1>2
  <2>2. CASE k <= n
    BY <1>2, <1>4, <2>1, <2>2
  <2>3. CASE ~(k <= n)
    <3>1. k - n \in 1..Len(u) /\ s[k] = u[k - n]
      BY <1>2, <2>1, <2>3
    <3>. QED BY <1>3, <3>1
  <2>. QED BY <2>2, <2>3
<1>7. EndsInCtrlC(s)
  BY <1>5, <1>6 DEF EndsInCtrlC
<1>. QED BY <1>7 DEF s

-----------------------------------------------------------------------------
(* The invariant. *)

\* Of a reader, the host or tty it serves, what has been overtaken, the bytes
\* that wait outside, the bytes that have been typed and the number of calls.
\* Embedded no line is left behind by a step.  Over a tty, while nothing has
\* been overtaken, a line that waits to be run has nothing behind it.
Held(x, app, over, rest, ty, cl) ==
    /\ x \in Good /\ Len(x.ttyR) <= BufR /\ over \in BOOLEAN
    /\ rest \in Seq(Byte) /\ ty \in Seq(Byte) /\ cl \in Nat
    /\ app => ~x.eol
    /\ app \/ ~over => Told(x)
    /\ ~app /\ ~over =>
         /\ OnlyLast(rest)
         /\ x.eol => x.state # "AWAY" /\ x.ttyR = <<>> /\ rest = <<>>
         /\ ~x.quitReq => x.ttyR = <<>>
    /\ x.state = "AWAY" => cl # 0
    /\ (app \/ ~over) /\ cl = 0 /\ ~x.quitReq => ty = (x.taken \o x.ttyR) \o rest

IInv == appIO \in Hosts /\ Held(Now, appIO, overtaken, ttyIn, typed, calls)

LEMMA BecomesIs ==
  ASSUME NEW x \in Good, Becomes(x)
  PROVE  Now' = x
<1>1. x = [state |-> x.state, ttyR |-> x.ttyR, buf |-> x.buf, ptr |-> x.ptr, eol |-> x.eol,
           armed |-> x.armed, quitReq |-> x.quitReq, ttyW |-> x.ttyW, taken |-> x.taken,
           ran |-> x.ran]
  BY GoodIs
<1>. QED BY <1>1 DEF Now, Becomes

LEMMA NowHas ==
  /\ Now.state = state /\ Now.ttyR = ttyR /\ Now.buf = buf /\ Now.ptr = ptr /\ Now.eol = eol
  /\ Now.armed = armed /\ Now.quitReq = quitReq /\ Now.ttyW = ttyW /\ Now.taken = taken
  /\ Now.ran = ran
BY DEF Now

-----------------------------------------------------------------------------
(* Every step keeps the invariant. *)

LEMMA HeldApp ==
  ASSUME NEW x, NEW over, NEW rest, NEW ty, NEW cl, Held(x, TRUE, over, rest, ty, cl),
         x.state = "CMD", NEW z \in appIter(x)
  PROVE  Held(z, TRUE, over, rest, ty, cl + (IF z.state = "AWAY" THEN 1 ELSE 0))
<1>1. x \in Good /\ ~x.eol /\ Len(x.ttyR) <= BufR /\ cl \in Nat /\ Told(x)
  BY DEF Held
<1>2. z \in Good /\ Runs(x, z) /\ ~z.eol
  BY <1>1, AppIter
<1>3. Len(z.ttyR) <= BufR
  <2>1. Len(z.ttyR) <= Len(x.ttyR) /\ Len(z.ttyR) \in Nat /\ Len(x.ttyR) \in Nat
    BY <1>1, <1>2, GoodIs, EmptyLen DEF Runs
  <2>. QED BY <1>1, <2>1, Sizes
<1>. DEFINE c == cl + (IF z.state = "AWAY" THEN 1 ELSE 0)
<1>4. c \in Nat /\ (z.state = "AWAY" => c # 0) /\ (c = 0 => cl = 0 /\ z.state # "AWAY")
  BY <1>1
<1>. HIDE DEF c
<1>5. Told(z) /\ (x.quitReq => z.quitReq)
  BY <1>1, <1>2 DEF Runs
<1>6. z.state # "AWAY" => z.taken \o z.ttyR = x.taken \o x.ttyR
  BY <1>2 DEF Runs
<1>7. c = 0 /\ ~z.quitReq => ty = (z.taken \o z.ttyR) \o rest
  BY <1>4, <1>5, <1>6 DEF Held
<1>8. Held(z, TRUE, over, rest, ty, c)
  BY <1>2, <1>3, <1>4, <1>5, <1>7 DEF Held
<1>. QED BY <1>8 DEF c

LEMMA StepsApp ==
  ASSUME IInv, CmdStepsApp
  PROVE  IInv' /\ (~quitReq /\ quitReq' => QuitLine \/ TwoCtrlC(taken'))
<1>1. Held(Now, TRUE, overtaken, ttyIn, typed, calls) /\ Now.state = "CMD" /\ appIO = TRUE
  BY Sizes DEF IInv, CmdStepsApp, Now
<1>2. PICK z \in appIter(Now) : Becomes(z)
  BY DEF CmdStepsApp
<1>3. Held(z, TRUE, overtaken, ttyIn, typed, calls + (IF z.state = "AWAY" THEN 1 ELSE 0))
  BY <1>1, HeldApp
<1>4. Now \in Good /\ ~Now.eol /\ z \in Good
  BY <1>1, <1>3 DEF Held
<1>5. Runs(Now, z) /\ ~z.eol
  BY <1>1, <1>4, AppIter
<1>6. Now' = z
  BY <1>2, <1>4, BecomesIs
<1>7. /\ appIO' = appIO /\ typed' = typed /\ ttyIn' = ttyIn /\ overtaken' = overtaken
      /\ calls' = calls + (IF z.state = "AWAY" THEN 1 ELSE 0)
  BY <1>2 DEF CmdStepsApp, counted, Becomes
<1>8. IInv'
  BY <1>1, <1>3, <1>6, <1>7 DEF IInv
<1>9. ~quitReq /\ quitReq' => QuitLine \/ TwoCtrlC(taken')
  <2>1. z.quitReq = quitReq' /\ z.ran = ran' /\ z.taken = taken'
    BY <1>2 DEF Becomes
  <2>2. quitReq' => quitReq \/ HasQuit(ran, ran') \/ TwoCtrlC(taken')
    BY <1>5, <2>1, NowHas DEF Runs
  <2>. QED BY <2>2 DEF HasQuit, QuitLine
<1>. QED BY <1>8, <1>9

LEMMA StepsTty ==
  ASSUME IInv, CmdStepsTty
  PROVE  IInv' /\ (~quitReq /\ quitReq' => QuitLine \/ TwoCtrlC(taken'))
<1>1. Held(Now, FALSE, overtaken, ttyIn, typed, calls) /\ Now.state = "CMD" /\ appIO = FALSE
  BY Sizes DEF IInv, CmdStepsTty, Now
<1>2. PICK wr \in {"no", "part", "all"}, rd \in 0..Least(BufR, Len(ttyIn)) :
        /\ wr # "no" \/ rd > 0
        /\ \E y \in ttyIter(Now, wr, rd) :
             /\ Becomes(y)
             /\ ttyIn' = IF y.state = "AWAY" THEN ttyIn ELSE SubSeq(ttyIn, rd + 1, Len(ttyIn))
  BY DEF CmdStepsTty
<1>3. PICK z \in ttyIter(Now, wr, rd) :
        /\ Becomes(z)
        /\ ttyIn' = IF z.state = "AWAY" THEN ttyIn ELSE SubSeq(ttyIn, rd + 1, Len(ttyIn))
  BY <1>2
<1>4. Now \in Good /\ ttyIn \in Seq(Byte) /\ Len(Now.ttyR) <= BufR
  BY <1>1 DEF Held
<1>. DEFINE e == ttyIn'
<1>5. e = IF z.state = "AWAY" THEN ttyIn ELSE SubSeq(ttyIn, rd + 1, Len(ttyIn))
  BY <1>3
<1>. HIDE DEF e
<1>6. /\ z \in Good /\ e \in Seq(Byte) /\ Len(z.ttyR) <= BufR
      /\ z.quitReq => Now.quitReq \/ HasQuit(Now.ran, z.ran) \/ TwoCtrlC(z.taken)
      /\ Now.quitReq => z.quitReq
      /\ Waited(Now, ttyIn) => Waits(Now, ttyIn, z, e)
  BY <1>1, <1>2, <1>4, <1>5, TtyIter, ZenonT(60)
<1>7. Now' = z
  BY <1>3, <1>6, BecomesIs
<1>. DEFINE c == calls + (IF z.state = "AWAY" THEN 1 ELSE 0)
<1>8. /\ appIO' = FALSE /\ typed' = typed /\ overtaken' = overtaken /\ calls' = c
  BY <1>1, <1>3 DEF CmdStepsTty, counted, Becomes
<1>9. c \in Nat /\ (z.state = "AWAY" => c # 0) /\ (c = 0 => calls = 0 /\ z.state # "AWAY")
  BY <1>1 DEF Held
<1>. HIDE DEF c
<1>10. Held(z, FALSE, overtaken, e, typed, c)
  <2>1. ~overtaken => Waits(Now, ttyIn, z, e)
    BY <1>1, <1>6 DEF Held, Waited
  <2>2. ~overtaken =>
              /\ Told(z) /\ OnlyLast(e)
              /\ z.eol => z.state # "AWAY" /\ z.ttyR = <<>> /\ e = <<>>
              /\ ~z.quitReq => z.ttyR = <<>>
    BY <2>1 DEF Waits
  <2>3. ~overtaken /\ c = 0 /\ ~z.quitReq => typed = (z.taken \o z.ttyR) \o e
    <3>1. ~overtaken /\ c = 0 /\ ~z.quitReq
            => typed = (Now.taken \o Now.ttyR) \o ttyIn
      BY <1>1, <1>6, <1>9 DEF Held
    <3>. QED BY <1>9, <2>1, <3>1 DEF Waits
  <2>4. overtaken \in BOOLEAN /\ typed \in Seq(Byte)
    BY <1>1 DEF Held
  <2>. QED BY <1>6, <1>9, <2>2, <2>3, <2>4 DEF Held
<1>11. IInv'
  BY <1>1, <1>7, <1>8, <1>10 DEF IInv, e
<1>12. ~quitReq /\ quitReq' => QuitLine \/ TwoCtrlC(taken')
  <2>1. z.quitReq = quitReq' /\ z.ran = ran' /\ z.taken = taken'
    BY <1>3 DEF Becomes
  <2>2. quitReq' => quitReq \/ HasQuit(ran, ran') \/ TwoCtrlC(taken')
    BY <1>6, <2>1, NowHas
  <2>. QED BY <2>2 DEF HasQuit, QuitLine
<1>. QED BY <1>11, <1>12

LEMMA Leaves ==
  ASSUME NEW x \in Good
  PROVE  /\ leave(x) \in Good /\ leave(x).state = "AWAY" /\ leave(x).ttyR = <<>>
         /\ leave(x).eol = x.eol /\ leave(x).quitReq = x.quitReq /\ leave(x).taken = x.taken
         /\ Told(x) => Told(leave(x))
<1>. DEFINE z == <<>>
            y == [x EXCEPT !.state = "AWAY", !.ttyR = z, !.ttyW = TRUE]
<1>1. z \in Seq(Byte)
  BY EmptySeq
<1>2. leave(x) = y
  BY DEF leave
<1>. HIDE DEF z
<1>3. /\ y \in Good /\ y.state = "AWAY" /\ y.ttyR = z /\ y.eol = x.eol
      /\ y.quitReq = x.quitReq /\ y.taken = x.taken /\ page(y) = page(x)
  BY <1>1 DEF Good, Reader, page
<1>. HIDE DEF y
<1>. QED BY <1>2, <1>3 DEF Told, z

LEMMA NoBytes ==
  Len(<<>>) = 0 /\ Len(<<>>) <= BufR /\ <<>> \in Seq(Byte) /\ OnlyLast(<<>>)
<1>. DEFINE z == <<>>
<1>1. Len(z) = 0 /\ z \in Seq(Byte)
  BY EmptySeq
<1>. HIDE DEF z
<1>2. Len(z) <= BufR /\ OnlyLast(z)
  BY <1>1, Sizes DEF OnlyLast
<1>. QED BY <1>1, <1>2 DEF z

LEMMA StepRing ==
  ASSUME IInv, RingAnswered
  PROVE  IInv' /\ quitReq' = quitReq
<1>. DEFINE x == Now
            z == leave(Now)
<1>1. Held(x, appIO, overtaken, ttyIn, typed, calls) /\ x \in Good /\ appIO \in BOOLEAN
  BY Sizes DEF IInv, Held
<1>2. /\ z \in Good /\ z.state = "AWAY" /\ z.ttyR = <<>> /\ z.eol = x.eol
      /\ z.quitReq = x.quitReq /\ z.taken = x.taken /\ (Told(x) => Told(z))
  BY <1>1, Leaves
<1>3. Now' = z
  BY <1>2, BecomesIs DEF RingAnswered
<1>. DEFINE o == overtaken \/ eol
<1>4. /\ appIO' = appIO /\ typed' = typed /\ ttyIn' = ttyIn /\ overtaken' = o
      /\ calls' = calls + 1 /\ quitReq' = quitReq
  BY <1>2, NowHas DEF RingAnswered, counted, Becomes
<1>5. x.eol = eol /\ eol \in BOOLEAN
  BY <1>1, NowHas, GoodIs
<1>6. o \in BOOLEAN /\ (~o => ~overtaken /\ ~x.eol)
  BY <1>1, <1>5 DEF Held
<1>. HIDE DEF x, z, o
<1>7. calls + 1 \in Nat /\ calls + 1 # 0
  BY <1>1 DEF Held
<1>8. Held(z, appIO, o, ttyIn, typed, calls + 1)
  <2>1. Len(z.ttyR) <= BufR
    BY <1>2, NoBytes
  <2>2. ~appIO /\ ~o => OnlyLast(ttyIn) /\ ~z.eol
    BY <1>1, <1>2, <1>6 DEF Held
  <2>3. (appIO => ~z.eol) /\ (appIO \/ ~o => Told(z))
    BY <1>1, <1>2, <1>6 DEF Held
  <2>4. ttyIn \in Seq(Byte) /\ typed \in Seq(Byte)
    BY <1>1 DEF Held
  <2>. QED BY <1>2, <1>6, <1>7, <2>1, <2>2, <2>3, <2>4 DEF Held
<1>9. appIO \in Hosts
  BY DEF IInv
<1>. QED BY <1>3, <1>4, <1>8, <1>9 DEF IInv

\* The bytes of the DTE that a call takes.
takesData(x, u) == [x EXCEPT !.taken = x.taken \o u, !.ttyR = <<>>]

LEMMA TakesData ==
  ASSUME NEW x \in Good, NEW u \in Seq({"data"})
  PROVE  takesData(x, u) \in Good /\ (Told(x) => Told(takesData(x, u)))
<1>. DEFINE y == takesData(x, u)
            z == <<>>
            t == x.taken
            s == t \o u
<1>1. z \in Seq(Byte) /\ t \in Seq(Tape)
  BY EmptySeq, GoodIs
<1>. HIDE DEF z
<1>2. s \in Seq(Tape) /\ Edited(s) = Edited(t)
  BY <1>1, EditedData
<1>3. x.armed => EndsInCtrlC(s)
  <2>1. u \in Seq({"data", "BACK"})
    BY SeqMonotonic
  <2>2. x.armed => EndsInCtrlC(t)
    BY GoodIs
  <2>. QED BY <1>1, <2>1, <2>2, StillCtrlC
<1>. HIDE DEF s
<1>4. y = [x EXCEPT !.taken = s, !.ttyR = z]
  BY DEF s, z, t, takesData
<1>. HIDE DEF y
<1>5. /\ y \in Reader /\ y.buf = x.buf /\ y.ptr = x.ptr /\ y.eol = x.eol /\ y.armed = x.armed
      /\ y.taken = s /\ y.ran = x.ran
  BY <1>1, <1>2, <1>4 DEF Good, Reader, Tape
<1>6. y \in Good
  BY <1>3, <1>5 DEF Good
<1>7. page(y) = page(x)
  BY <1>5 DEF page
<1>8. Told(x) => Told(y)
  BY <1>2, <1>5, <1>7 DEF Told, t
<1>. QED BY <1>6, <1>8 DEF y

LEMMA StepAway ==
  ASSUME IInv, AwayReads
  PROVE  IInv' /\ quitReq' = quitReq
<1>. DEFINE x == Now
            u == [i \in 1..Len(IF appIO THEN ttyR ELSE ttyIn) |-> "data"]
            y == [x EXCEPT !.taken = x.taken \o u, !.ttyR = <<>>]
<1>1. Held(x, appIO, overtaken, ttyIn, typed, calls) /\ x \in Good /\ appIO \in BOOLEAN
  BY Sizes DEF IInv, Held
<1>2. x.state = "AWAY" /\ x.ttyR = ttyR /\ ttyIn \in Seq(Byte) /\ ttyR \in Seq(Byte)
  BY <1>1, NowHas, GoodIs DEF AwayReads, Held
<1>3. u \in Seq({"data"})
  <2>. DEFINE n == Len(IF appIO THEN ttyR ELSE ttyIn)
  <2>1. n \in Nat
    BY <1>2, EmptyLen
  <2>2. u \in [1..n -> {"data"}]
    OBVIOUS
  <2>. HIDE DEF n, u
  <2>. QED BY <2>1, <2>2, IsASeq
<1>. DEFINE r == IF appIO THEN ttyIn ELSE <<>>
<1>4. /\ Becomes(y) /\ appIO' = appIO /\ typed' = typed /\ overtaken' = overtaken
      /\ calls' = calls /\ quitReq' = quitReq /\ ttyIn' = r
  BY DEF AwayReads, Becomes, Now
<1>5. appIO \/ ~overtaken => ~x.eol
  BY <1>1, <1>2 DEF Held
<1>6. /\ y.state = "AWAY" /\ y.eol = x.eol /\ y.ttyR = <<>>
  BY <1>1, <1>2 DEF Good, Reader
<1>7. y \in Good /\ (Told(x) => Told(y))
  <2>. HIDE DEF x, u
  <2>1. y = takesData(x, u)
    BY DEF takesData
  <2>2. x \in Good
    BY <1>1
  <2>. HIDE DEF y
  <2>. QED BY <1>3, <2>1, <2>2, TakesData
<1>12. Now' = y
  BY <1>4, <1>7, BecomesIs
<1>. HIDE DEF x, u, y
<1>8. r \in Seq(Byte) /\ (~appIO => OnlyLast(r))
  BY <1>2, NoBytes
<1>. HIDE DEF r
<1>9. calls # 0 /\ calls \in Nat
  BY <1>1, <1>2 DEF Held
<1>10. Held(y, appIO, overtaken, r, typed, calls)
  <2>1. Len(y.ttyR) <= BufR
    BY <1>6, NoBytes
  <2>2. (appIO => ~y.eol) /\ (appIO \/ ~overtaken => Told(y) /\ ~y.eol)
    BY <1>1, <1>5, <1>6, <1>7 DEF Held
  <2>3. overtaken \in BOOLEAN /\ typed \in Seq(Byte)
    BY <1>1 DEF Held
  <2>. QED BY <1>6, <1>7, <1>8, <1>9, <2>1, <2>2, <2>3 DEF Held
<1>11. appIO \in Hosts
  BY DEF IInv
<1>. QED BY <1>4, <1>10, <1>11, <1>12 DEF IInv

LEMMA StepBack ==
  ASSUME IInv, BackToCmd
  PROVE  IInv' /\ quitReq' = quitReq
<1>. DEFINE x == Now
            z == <<>>
            t == x.taken
            s == Append(t, "BACK")
            y == [x EXCEPT !.ptr = 0, !.eol = FALSE, !.state = "CMD", !.ttyR = z,
                           !.ttyW = TRUE, !.taken = s]
<1>1. Held(x, appIO, overtaken, ttyIn, typed, calls) /\ x \in Good /\ appIO \in BOOLEAN
  BY Sizes DEF IInv, Held
<1>2. x.state = "AWAY" /\ t \in Seq(Tape) /\ z \in Seq(Byte) /\ "BACK" \in Tape
  BY <1>1, NowHas, GoodIs, EmptySeq DEF BackToCmd, Tape
<1>3. Becomes(y)
  BY <1>1 DEF BackToCmd, cmdBufReset, Good, Reader
<1>. HIDE DEF z, x, t
<1>4. s \in Seq(Tape) /\ Edited(s) = edit(Edited(t), "BACK") /\ Edited(t) \in Pages
  BY <1>2, AppendProperties, EditedAppend
<1>5. EndsInCtrlC(t) => EndsInCtrlC(s)
  <2>1. <<"BACK">> \in Seq({"data", "BACK"}) /\ s = t \o <<"BACK">>
    BY <1>2, AppendIsConcat
  <2>. QED BY <1>2, <2>1, StillCtrlC
<1>. HIDE DEF s
<1>6. /\ y \in Reader /\ y.buf = x.buf /\ y.ptr = 0 /\ ~y.eol /\ y.armed = x.armed
      /\ y.taken = s /\ y.ran = x.ran /\ y.state = "CMD" /\ y.ttyR = z /\ y.quitReq = x.quitReq
  <2>1. 0 \in 0..CmdMax
    BY Sizes
  <2>. QED BY <1>1, <1>2, <1>4, <2>1 DEF Good, Reader, Tape
<1>. HIDE DEF y
<1>7. y \in Good
  <2>1. x.buf[CmdMax] = "NUL" /\ (x.armed => EndsInCtrlC(t))
    BY <1>1, GoodIs DEF t
  <2>2. \A i \in 0..CmdMax : i < 0 => x.buf[i] \in Letters
    BY Sizes
  <2>. QED BY <1>5, <1>6, <2>1, <2>2 DEF Good
<1>8. Now' = y
  BY <1>3, <1>7, BecomesIs
<1>9. /\ appIO' = appIO /\ typed' = typed /\ ttyIn' = ttyIn /\ overtaken' = overtaken
      /\ calls' = calls
  BY DEF BackToCmd
<1>10. quitReq' = quitReq
  BY <1>3, <1>6, NowHas DEF Becomes, x
<1>11. appIO \/ ~overtaken => ~x.eol /\ Told(x)
  BY <1>1, <1>2 DEF Held
<1>12. ~x.eol /\ Told(x) => Told(y)
  <2>1. page(y) = [done |-> x.ran, line |-> draft(x.buf, 0)]
    BY <1>6 DEF page
  <2>2. ~x.eol /\ Told(x) => Edited(t) = [done |-> x.ran, line |-> draft(x.buf, x.ptr)]
    BY DEF Told, page, t
  <2>3. edit(Edited(t), "BACK") = [Edited(t) EXCEPT !.line = <<>>]
    BY DEF edit
  <2>4. ~x.eol /\ Told(x) => Edited(s) = [done |-> x.ran, line |-> <<>>]
    BY <1>4, <2>2, <2>3
  <2>. QED BY <1>6, <2>1, <2>4, DraftEmpty DEF Told
<1>13. calls # 0 /\ calls \in Nat
  BY <1>1, <1>2 DEF Held
<1>14. Held(y, appIO, overtaken, ttyIn, typed, calls)
  <2>1. Len(y.ttyR) <= BufR /\ y.ttyR = <<>>
    BY <1>6, NoBytes DEF z
  <2>2. overtaken \in BOOLEAN /\ typed \in Seq(Byte) /\ ttyIn \in Seq(Byte)
        /\ (~appIO /\ ~overtaken => OnlyLast(ttyIn))
    BY <1>1 DEF Held
  <2>. QED BY <1>6, <1>7, <1>11, <1>12, <1>13, <2>1, <2>2 DEF Held
<1>15. appIO \in Hosts
  BY DEF IInv
<1>. QED BY <1>8, <1>9, <1>10, <1>14, <1>15 DEF IInv

LEMMA StepDrains ==
  ASSUME IInv, Drains
  PROVE  IInv' /\ quitReq' = quitReq
<1>. DEFINE x == Now
            y == [x EXCEPT !.ttyW = FALSE]
<1>1. Held(x, appIO, overtaken, ttyIn, typed, calls) /\ x \in Good
  BY DEF IInv, Held
<1>2. /\ Becomes(y) /\ appIO' = appIO /\ typed' = typed /\ ttyIn' = ttyIn /\ calls' = calls
      /\ overtaken' = overtaken /\ quitReq' = quitReq
  BY DEF Drains, Becomes, Now
<1>. HIDE DEF x
<1>3. /\ y \in Good /\ y.state = x.state /\ y.ttyR = x.ttyR /\ y.taken = x.taken
      /\ y.eol = x.eol /\ y.quitReq = x.quitReq /\ page(y) = page(x)
  BY <1>1 DEF Good, Reader, page
<1>5. Now' = y
  BY <1>2, <1>3, BecomesIs
<1>. HIDE DEF y
<1>4. Held(y, appIO, overtaken, ttyIn, typed, calls)
  BY <1>1, <1>3 DEF Held, Told
<1>. QED BY <1>2, <1>4, <1>5 DEF IInv

LEMMA StepCloses ==
  ASSUME IInv, TtyCloses
  PROVE  IInv' /\ quitReq' = quitReq
<1>. DEFINE x == Now
            y == [x EXCEPT !.state = "DONE"]
<1>1. Held(x, appIO, overtaken, ttyIn, typed, calls) /\ x \in Good
  BY DEF IInv, Held
<1>2. /\ Now' = y /\ appIO' = appIO /\ typed' = typed /\ ttyIn' = ttyIn /\ calls' = calls
      /\ overtaken' = overtaken /\ quitReq' = quitReq
  BY DEF TtyCloses, Now
<1>. HIDE DEF x
<1>3. /\ y \in Good /\ y.state = "DONE" /\ y.ttyR = x.ttyR /\ y.taken = x.taken
      /\ y.eol = x.eol /\ y.quitReq = x.quitReq /\ page(y) = page(x)
  BY <1>1 DEF Good, Reader, page
<1>. HIDE DEF y
<1>4. Held(y, appIO, overtaken, ttyIn, typed, calls)
  BY <1>1, <1>3 DEF Held, Told
<1>. QED BY <1>2, <1>4 DEF IInv

\* Concatenation, without what the provers know of it.
join(a, b) == a \o b

LEMMA JoinIs ==
  ASSUME NEW S
  PROVE  /\ \A s, t \in Seq(S) : join(s, t) \in Seq(S)
         /\ \A s, t, u \in Seq(S) : join(join(s, t), u) = join(s, join(t, u))
<1>1. ASSUME NEW s \in Seq(S), NEW t \in Seq(S), NEW u \in Seq(S)
      PROVE  join(join(s, t), u) = join(s, join(t, u))
  BY ConcatAssociative DEF join
<1>2. ASSUME NEW s \in Seq(S), NEW t \in Seq(S)
      PROVE  join(s, t) \in Seq(S)
  BY ConcatProperties DEF join
<1>. QED BY <1>1, <1>2

LEMMA Regroup ==
  ASSUME NEW S, NEW k \in Seq(S), NEW r \in Seq(S), NEW p \in Seq(S), NEW e \in Seq(S)
  PROVE  join(join(k, join(r, p)), e) = join(join(k, r), join(p, e))
<1>1. join(k, r) \in Seq(S)
  BY JoinIs
<1>2. join(k, join(r, p)) = join(join(k, r), p)
  BY JoinIs
<1>3. join(join(join(k, r), p), e) = join(join(k, r), join(p, e))
  BY <1>1, JoinIs
<1>. QED BY <1>2, <1>3

\* What the host has handed over is still what was typed.
handed(r, s, n) == r \o SubSeq(s, 1, n)
kept(s, n) == SubSeq(s, n + 1, Len(s))

LEMMA Passed ==
  ASSUME NEW k \in Seq(Tape), NEW r \in Seq(Byte), NEW s \in Seq(Byte), NEW n \in 0..Len(s)
  PROVE  /\ handed(r, s, n) \in Seq(Byte) /\ Len(handed(r, s, n)) = Len(r) + n
         /\ kept(s, n) \in Seq(Byte)
         /\ (k \o handed(r, s, n)) \o kept(s, n) = (k \o r) \o s
<1>. DEFINE p == SubSeq(s, 1, n)
            e == SubSeq(s, n + 1, Len(s))
<1>1. p \in Seq(Byte) /\ Len(p) = n /\ e \in Seq(Byte)
  BY Cut
<1>2. s = p \o e
  BY Cut
<1>3. handed(r, s, n) = r \o p /\ kept(s, n) = e
  BY DEF handed, kept
<1>. HIDE DEF p, e
<1>4. r \o p \in Seq(Byte) /\ Len(r \o p) = Len(r) + n
  BY <1>1, ConcatProperties
<1>5. r \in Seq(Tape) /\ p \in Seq(Tape) /\ e \in Seq(Tape)
  BY <1>1, ByteSeqs
<1>6. (k \o (r \o p)) \o e = (k \o r) \o (p \o e)
  <2>1. join(join(k, join(r, p)), e) = join(join(k, r), join(p, e))
    BY <1>5, Regroup
  <2>. QED BY <2>1 DEF join
<1>. QED BY <1>1, <1>2, <1>3, <1>4, <1>6

LEMMA StepWrite ==
  ASSUME IInv, m2k_write_from_app
  PROVE  IInv' /\ quitReq' = quitReq
<1>. DEFINE x == Now
            n == Least(Len(ttyIn), BufR - Len(ttyR))
            r == handed(ttyR, ttyIn, n)
            e == kept(ttyIn, n)
            y == [x EXCEPT !.ttyR = r]
<1>1. Held(x, TRUE, overtaken, ttyIn, typed, calls) /\ x \in Good /\ appIO = TRUE
  BY Sizes DEF IInv, Held, m2k_write_from_app
<1>2. /\ x.taken \in Seq(Tape) /\ x.ttyR = ttyR /\ ttyR \in Seq(Byte) /\ ttyIn \in Seq(Byte)
      /\ Len(ttyR) \in Nat /\ Len(ttyIn) \in Nat /\ Len(ttyR) <= BufR
  <2>1. x.taken \in Seq(Tape) /\ x.ttyR = ttyR /\ ttyR \in Seq(Byte) /\ ttyIn \in Seq(Byte)
    BY <1>1, NowHas, GoodIs DEF Held
  <2>2. Len(ttyR) <= BufR
    BY <1>1, <2>1 DEF Held
  <2>. QED BY <2>1, <2>2, EmptyLen
<1>3. n \in 0..Len(ttyIn) /\ Len(ttyR) + n <= BufR
  BY <1>2, Sizes DEF Least
<1>4. /\ Becomes(y) /\ appIO' = appIO /\ typed' = typed /\ ttyIn' = e /\ calls' = calls
      /\ overtaken' = overtaken /\ quitReq' = quitReq
  BY DEF m2k_write_from_app, Becomes, Now, handed, kept
<1>. HIDE DEF n, x
<1>5. r \in Seq(Byte) /\ Len(r) = Len(ttyR) + n /\ e \in Seq(Byte)
  BY <1>2, <1>3, Passed
<1>6. (x.taken \o r) \o e = (x.taken \o ttyR) \o ttyIn
  <2>. DEFINE k == x.taken
  <2>1. k \in Seq(Tape)
    BY <1>2
  <2>. HIDE DEF k
  <2>2. (k \o r) \o e = (k \o ttyR) \o ttyIn
    BY <1>2, <1>3, <2>1, Passed, ZenonT(60)
  <2>. QED BY <2>2 DEF k
<1>. HIDE DEF r, e
<1>7. /\ y \in Good /\ y.state = x.state /\ y.ttyR = r /\ y.taken = x.taken
      /\ y.eol = x.eol /\ y.quitReq = x.quitReq /\ page(y) = page(x)
  BY <1>1, <1>5 DEF Good, Reader, page
<1>8. Now' = y
  BY <1>4, <1>7, BecomesIs
<1>. HIDE DEF y
<1>9. Told(x) => Told(y)
  BY <1>7 DEF Told
<1>10. Len(r) <= BufR
  BY <1>3, <1>5
<1>11. Held(y, TRUE, overtaken, e, typed, calls)
  <2>1. calls = 0 /\ ~y.quitReq => typed = (y.taken \o y.ttyR) \o e
    BY <1>1, <1>2, <1>6, <1>7 DEF Held
  <2>. QED BY <1>1, <1>5, <1>7, <1>9, <1>10, <2>1 DEF Held
<1>. QED BY <1>1, <1>4, <1>8, <1>11 DEF IInv

LEMMA StepTypes ==
  ASSUME IInv, NEW c \in Byte, DteTypes(c)
  PROVE  IInv' /\ quitReq' = quitReq
<1>. DEFINE x == Now
            o == overtaken \/ eol \/ "CR" \in Range(ttyR \o ttyIn)
            r == Append(ttyIn, c)
            t == Append(typed, c)
<1>1. Held(x, appIO, overtaken, ttyIn, typed, calls) /\ x \in Good /\ appIO \in BOOLEAN
  BY Sizes DEF IInv, Held
<1>2. Now' = Now /\ x.eol = eol /\ x.ttyR = ttyR /\ eol \in BOOLEAN
  BY <1>1, NowHas, GoodIs DEF DteTypes, Now
<1>3. /\ appIO' = appIO /\ typed' = t /\ ttyIn' = r /\ calls' = calls
      /\ overtaken' = o /\ quitReq' = quitReq
  BY DEF DteTypes
<1>4. ttyIn \in Seq(Byte) /\ typed \in Seq(Byte) /\ ttyR \in Seq(Byte) /\ x.taken \in Seq(Tape)
  BY <1>1, <1>2, GoodIs DEF Held
<1>5. r \in Seq(Byte) /\ t \in Seq(Byte) /\ Len(r) = Len(ttyIn) + 1
      /\ Len(ttyIn) \in Nat /\ \A i \in 1..Len(ttyIn) : r[i] = ttyIn[i]
  BY <1>4, AppendProperties, EmptyLen
<1>6. o \in BOOLEAN /\ (~o => ~overtaken /\ ~x.eol)
  BY <1>1, <1>2 DEF Held
<1>7. ASSUME ~o PROVE OnlyLast(r)
  <2>. DEFINE a == ttyR \o ttyIn
  <2>1. Len(ttyR) \in Nat /\ Len(a) = Len(ttyR) + Len(ttyIn)
        /\ \A i \in 1..Len(a) : a[i] = IF i <= Len(ttyR) THEN ttyR[i] ELSE ttyIn[i - Len(ttyR)]
    BY <1>4, EmptyLen, ConcatProperties
  <2>2. a \in Seq(Byte) /\ "CR" \notin Range(a)
    BY <1>4, <1>7, ConcatProperties
  <2>. HIDE DEF a
  <2>3. \A i \in 1..Len(a) : a[i] # "CR"
    <3>1. DOMAIN a = 1..Len(a)
      BY <2>2, LenProperties
    <3>. QED BY <2>2, <3>1 DEF Range
  <2>4. ASSUME NEW i \in 1..Len(r), r[i] = "CR" PROVE i = Len(r)
    <3>1. SUFFICES ASSUME i \in 1..Len(ttyIn) PROVE FALSE
      BY <1>5
    <3>2. ttyIn[i] = "CR"
      BY <1>5, <2>4, <3>1
    <3>3. Len(ttyR) + i \in 1..Len(a) /\ ~(Len(ttyR) + i <= Len(ttyR)) /\ Len(ttyR) + i - Len(ttyR) = i
      BY <1>5, <2>1, <3>1
    <3>4. a[Len(ttyR) + i] = ttyIn[i]
      BY <2>1, <3>3
    <3>. QED BY <2>3, <3>2, <3>3, <3>4
  <2>. QED BY <2>4 DEF OnlyLast
<1>8. typed = (x.taken \o x.ttyR) \o ttyIn => t = (x.taken \o x.ttyR) \o r
  <2>. DEFINE k == x.taken \o x.ttyR
  <2>1. k \in Seq(Tape) /\ ttyIn \in Seq(Tape) /\ c \in Tape
    <3>1. ttyR \in Seq(Tape) /\ ttyIn \in Seq(Tape)
      BY <1>4, ByteSeqs
    <3>2. c \in Tape
      BY Kinds
    <3>. QED BY <1>2, <1>4, <3>1, <3>2, ConcatProperties
  <2>. HIDE DEF k
  <2>2. k \o Append(ttyIn, c) = Append(k \o ttyIn, c)
    BY <2>1, JoinAppend
  <2>3. typed = k \o ttyIn => t = k \o r
    BY <2>2
  <2>. QED BY <2>3 DEF k
<1>. HIDE DEF x, o, r, t
<1>9. Held(x, appIO, o, r, t, calls)
  BY <1>1, <1>5, <1>6, <1>7, <1>8 DEF Held
<1>10. Now' = x
  BY <1>2 DEF x
<1>. QED BY <1>3, <1>9, <1>10 DEF IInv

LEMMA InitIInv == Init => IInv
<1>. SUFFICES ASSUME Init PROVE IInv
  OBVIOUS
<1>. DEFINE z == <<>>
            b == [i \in 0..CmdMax |-> "NUL"]
<1>1. /\ z \in Seq(Byte) /\ z \in Seq(Tape) /\ z \in Seq(Seq(Letters)) /\ Len(z) = 0
      /\ z \o z = z /\ OnlyLast(z)
  BY EmptySeq, ConcatEmptySeq, NoBytes
<1>2. Now = [state |-> "CMD", ttyR |-> z, buf |-> b, ptr |-> 0, eol |-> FALSE,
             armed |-> FALSE, quitReq |-> FALSE, ttyW |-> FALSE, taken |-> z, ran |-> z]
  BY DEF Init, Now
<1>3. 0 \in 0..CmdMax /\ CmdMax \in 0..CmdMax /\ \A i \in 0..CmdMax : ~(i < 0)
  BY Sizes
<1>4. page(Now) = [done |-> z, line |-> draft(b, 0)]
  BY <1>2 DEF page
<1>5. Told(Now)
  BY <1>2, <1>4, DraftEmpty, EditedAppend DEF Told, Blank
<1>. HIDE DEF z
<1>6. Now \in Reader
  BY <1>1, <1>2, <1>3 DEF Reader, Tape
<1>7. Now \in Good
  BY <1>2, <1>3, <1>6 DEF Good
<1>8. typed = z /\ ttyIn = z /\ overtaken = FALSE /\ calls = 0 /\ appIO \in Hosts
  BY DEF Init, z
<1>9. Held(Now, appIO, FALSE, z, z, 0)
  <2>1. /\ Now.ttyR = z /\ Now.taken = z /\ Now.eol = FALSE /\ Now.state = "CMD"
    BY <1>2
  <2>2. Len(z) <= BufR
    BY <1>1, Sizes
  <2>. QED BY <1>1, <1>5, <1>7, <2>1, <2>2 DEF Held, z
<1>. QED BY <1>8, <1>9 DEF IInv

LEMMA Stays ==
  ASSUME IInv, UNCHANGED vars
  PROVE  IInv' /\ quitReq' = quitReq
BY DEF IInv, Now, vars

LEMMA IInvStep ==
  ASSUME IInv, [Next]_vars
  PROVE  IInv' /\ (~quitReq /\ quitReq' => QuitLine \/ TwoCtrlC(taken'))
<1>1. CASE CmdStepsApp
  BY <1>1, StepsApp
<1>2. CASE CmdStepsTty
  BY <1>2, StepsTty
<1>3. CASE RingAnswered
  BY <1>3, StepRing
<1>4. CASE AwayReads
  BY <1>4, StepAway
<1>5. CASE Drains
  BY <1>5, StepDrains
<1>6. CASE BackToCmd
  BY <1>6, StepBack
<1>7. CASE TtyCloses
  BY <1>7, StepCloses
<1>8. CASE Done \/ UNCHANGED vars
  BY <1>8, Stays DEF Done
<1>9. CASE m2k_write_from_app
  BY <1>9, StepWrite
<1>10. ASSUME NEW c \in Byte, DteTypes(c)
       PROVE  IInv' /\ (~quitReq /\ quitReq' => QuitLine \/ TwoCtrlC(taken'))
  BY <1>10, StepTypes
<1>. QED BY <1>1, <1>2, <1>3, <1>4, <1>5, <1>6, <1>7, <1>8, <1>9, <1>10 DEF Next

-----------------------------------------------------------------------------
(* The theorems. *)

\* What a step of the reader leaves behind, in every state that is reached.
THEOREM Invariance == Spec => []IInv
<1>1. Init => IInv
  BY InitIInv
<1>2. IInv /\ [Next]_vars => IInv'
  BY IInvStep
<1>. QED BY <1>1, <1>2, PTL DEF Spec

\* The reader keeps to its types for a line buffer and a read buffer of any
\* size, and cmdLex() always finds the terminator.
THEOREM Types == Spec => []TypeOK
<1>1. IInv => TypeOK
  <2>. SUFFICES ASSUME IInv PROVE TypeOK
    OBVIOUS
  <2>1. Now \in Good /\ typed \in Seq(Byte) /\ Len(Now.ttyR) <= BufR /\ appIO \in Hosts
    BY DEF IInv, Held
  <2>2. Now \in Reader /\ Now.buf[CmdMax] = "NUL" /\ CmdMax \in 0..CmdMax
    BY <2>1, Sizes DEF Good
  <2>. QED BY <2>1, <2>2, NowHas DEF TypeOK
<1>. QED BY <1>1, Invariance, PTL

\* Every line is run once, in its order and as it was typed and edited, for lines
\* of any length, however the host feeds the bytes and however poll() and read()
\* spread them.
THEOREM LinesAreRunHolds == Spec => []LinesAreRun
<1>1. IInv => LinesAreRun
  <2>. SUFFICES ASSUME IInv, appIO \/ ~overtaken PROVE AllRun
    BY DEF LinesAreRun
  <2>1. Now \in Good /\ Told(Now)
    BY DEF IInv, Held
  <2>2. Edited(taken) = page(Now) /\ Now.eol = eol /\ Now.ran = ran /\ Now.buf = buf
    BY <2>1, NowHas DEF Told
  <2>3. ran \in Seq(Seq(Letters)) /\ eol \in BOOLEAN /\ cString(buf) \in Seq(Letters)
    <3>1. Now.buf \in Buffers /\ Now.buf[CmdMax] = "NUL"
      BY <2>1, GoodIs
    <3>. QED BY <2>1, <3>1, GoodIs, NowHas, CStringType
  <2>4. CASE eol
    <3>. DEFINE l == cString(buf)
    <3>1. Lines(taken) = Append(ran, l)
      BY <2>2, <2>4 DEF Lines, page
    <3>2. l \in Seq(Letters)
      BY <2>3
    <3>. HIDE DEF l
    <3>3. Append(ran, l) = ran \o <<l>>
      BY <2>3, <3>2, AppendIsConcat
    <3>. QED BY <2>4, <3>1, <3>3 DEF AllRun, l
  <2>5. CASE ~eol
    <3>1. Lines(taken) = ran
      BY <2>2, <2>5 DEF Lines, page
    <3>2. ran \o <<>> = ran
      BY <2>3, ConcatEmptySeq
    <3>. QED BY <2>5, <3>1, <3>2 DEF AllRun
  <2>. QED BY <2>4, <2>5
<1>. QED BY <1>1, Invariance, PTL

\* As long as there has been no call, and over a tty as long as the DTE waits for the
\* dispatch of a line, what has been typed ahead is the next line, for buffers of any
\* size.
THEOREM TypeAheadKeptHolds == Spec => []TypeAheadKept
<1>1. IInv => TypeAheadKept
  <2>. SUFFICES ASSUME IInv, (appIO \/ ~overtaken) /\ calls = 0 /\ ~quitReq
                PROVE  typed = taken \o ttyR \o ttyIn
    BY DEF TypeAheadKept
  <2>. QED BY NowHas DEF IInv, Held
<1>. QED BY <1>1, Invariance, PTL

\* Two Ctrl-C of command mode have nothing between them, or what a call had.
LEMMA PairOrCall ==
  ASSUME NEW t \in Seq(Tape), TwoCtrlC(t)
  PROVE  EndsInPair(t) \/ ArmedBeforeCall(t)
<1>1. PICK i, j \in 1..Len(t) :
         /\ i < j /\ t[i] = "^C" /\ t[j] = "^C"
         /\ \A k \in (i + 1)..Len(t) : t[k] \in Byte => k = j
  BY DEF TwoCtrlC
<1>2. Len(t) \in Nat /\ i \in Nat /\ j \in Nat
  BY EmptyLen
<1>3. ASSUME NEW k \in (i + 1)..Len(t) PROVE t[k] \in {"data", "BACK"} \/ k = j
  <2>1. k \in 1..Len(t)
    BY <1>2
  <2>2. t[k] \in Tape
    BY <2>1, ElementOfSeq
  <2>. QED BY <1>1, <2>2 DEF Tape
<1>4. CASE \E k \in (i + 1)..Len(t) : t[k] = "data"
  BY <1>1, <1>3, <1>4 DEF ArmedBeforeCall
<1>5. CASE \A k \in (i + 1)..Len(t) : t[k] # "data"
  BY <1>1, <1>3, <1>5 DEF EndsInPair
<1>. QED BY <1>4, <1>5

\* Only AT%Q and two Ctrl-C with nothing typed between them ask for the end of the
\* session, however many steps and reads lie between the two.
\* Only AT%Q and two Ctrl-C with nothing but a call between them ask for the end of
\* the session, however many steps and reads lie between the two.
THEOREM QuitIsAskedHolds == Spec => QuitIsAsked
<1>1. IInv /\ [Next]_vars
        => [~quitReq /\ quitReq' =>
              QuitLine \/ EndsInPair(taken') \/ ArmedBeforeCall(taken')]_vars
  <2>. SUFFICES ASSUME IInv, [Next]_vars, ~quitReq, quitReq'
                PROVE  QuitLine \/ EndsInPair(taken') \/ ArmedBeforeCall(taken')
    OBVIOUS
  <2>1. QuitLine \/ TwoCtrlC(taken')
    BY IInvStep
  <2>2. taken' \in Seq(Tape)
    <3>1. IInv'
      BY IInvStep
    <3>2. Now' \in Good /\ Now.taken' = taken'
      BY <3>1, NowHas DEF IInv, Held, Now
    <3>. QED BY <3>2, GoodIs
  <2>. QED BY <2>1, <2>2, PairOrCall
<1>. QED BY <1>1, Invariance, PTL DEF Spec, QuitIsAsked

=============================================================================
