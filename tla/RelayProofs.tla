----------------------------- MODULE RelayProofs -----------------------------
(***************************************************************************)
(* The data path of a call, for buffers of any size and streams of any     *)
(* length: what a full buffer means, and what the loops keep, turn by turn.*)
(***************************************************************************)
EXTENDS Relay, Induction

(* A write buffer is empty only if it starts over, and is behind the soft  *)
(* limit only under flow control.                                          *)
Buf ==
    {w \in Buffer : /\ w.q = <<>> => w.fill = 0 /\ ~w.stop
                    /\ ~w.stop => w.fill <= Soft}

Good == {x \in Path : x.sockW \in Buf /\ x.ttyW \in Buf /\ Len(x.line) <= LineMax}

-----------------------------------------------------------------------------
(* Buffers. *)

LEMMA Sizes ==
  /\ Soft \in Nat /\ BufR \in Nat \ {0} /\ LineMax \in Nat /\ TermLen \in Nat
  /\ Hard \in Nat \ {0} /\ Hard = Soft + BufR /\ LineMax + 2 <= BufR
BY SizeAssumption DEF Hard

LEMMA LeastIs ==
  ASSUME NEW a \in Int, NEW b \in Int
  PROVE  Least(a, b) \in {a, b} /\ Least(a, b) <= a /\ Least(a, b) <= b
BY DEF Least

\* What does not fit is dropped; the rest goes behind what is there, and flow
\* control goes on.
LEMMA PutIs ==
  ASSUME NEW w \in Buf, NEW s \in Seq(Byte)
  PROVE  /\ put(w, s) \in Buf
         /\ w.stop => put(w, s).stop
         /\ s # <<>> \/ w.q # <<>> => put(w, s).q # <<>>
         /\ w.fill + Len(s) <= Hard => put(w, s).q = w.q \o s
         /\ put(w, s).fill <= w.fill + Len(s)
         /\ \E n \in 0..Len(s) : put(w, s).q = w.q \o SubSeq(s, 1, n)
<1>. DEFINE n == Least(Len(s), Hard - w.fill)
            t == SubSeq(s, 1, n)
            v == [fill |-> w.fill + Len(t), q |-> w.q \o t,
                  stop |-> w.stop \/ (s # <<>> /\ w.fill + Len(s) > Soft)]
<1>1. put(w, s) = v
  BY DEF put
<1>2. /\ w \in Buffer /\ w.fill \in 0..Hard /\ w.q \in Seq(Byte) /\ w.stop \in BOOLEAN
      /\ w.q = <<>> => w.fill = 0 /\ ~w.stop
      /\ ~w.stop => w.fill <= Soft
  BY DEF Buf, Buffer
<1>3. Len(s) \in Nat /\ (s # <<>> => Len(s) > 0)
  BY LenProperties, EmptySeq
<1>4. /\ n \in 0..Len(s) /\ n <= Hard - w.fill
      /\ Len(s) <= Hard - w.fill => n = Len(s)
      /\ w.fill = 0 /\ s # <<>> => n > 0
  BY <1>2, <1>3, Sizes DEF Least
<1>. HIDE DEF n
<1>5. t \in Seq(Byte) /\ Len(t) = n /\ (n = Len(s) => t = s)
  BY <1>3, <1>4, SubSeqProperties
<1>. HIDE DEF t
<1>6. /\ w.q \o t \in Seq(Byte) /\ Len(w.q \o t) = Len(w.q) + n
      /\ w.q \o t = <<>> <=> w.q = <<>> /\ t = <<>>
  <2>1. w.q \o t \in Seq(Byte) /\ Len(w.q \o t) = Len(w.q) + n
    BY <1>2, <1>5, ConcatProperties
  <2>2. w.q \o t = <<>> <=> w.q = <<>> /\ t = <<>>
    BY <1>2, <1>5, ConcatEqualIffEmpty
  <2>. QED BY <2>1, <2>2
<1>7. t = <<>> <=> n = 0
  BY <1>5, EmptySeq
<1>8. w.q \o t = <<>> => w.q = <<>> /\ s = <<>>
  BY <1>2, <1>4, <1>6, <1>7
<1>9. v \in Buffer
  BY <1>2, <1>4, <1>5, <1>6, Sizes DEF Buffer
<1>10. v \in Buf
  <2>1. v.q = w.q \o t /\ v.fill = w.fill + n
        /\ v.stop = (w.stop \/ (s # <<>> /\ w.fill + Len(s) > Soft))
    BY <1>5
  <2>2. v.q = <<>> => v.fill = 0 /\ ~v.stop
    <3>1. CASE v.q = <<>>
      <4>1. w.q = <<>> /\ s = <<>> /\ n = 0
        BY <3>1, <2>1, <1>8, <1>6, <1>7
      <4>. QED BY <4>1, <2>1, <1>2
    <3>. QED BY <3>1
  <2>3. ~v.stop => v.fill <= Soft
    <3>1. CASE s = <<>>
      BY <3>1, <2>1, <1>2, <1>3, <1>4, EmptySeq
    <3>2. CASE s # <<>> /\ ~v.stop
      <4>1. ~(w.fill + Len(s) > Soft)
        <5>. HIDE DEF v
        <5>. QED BY <3>2, <2>1
      <4>2. v.fill = w.fill + n
        BY <2>1
      <4>. HIDE DEF v
      <4>. QED BY <4>1, <4>2, <1>2, <1>3, <1>4, Sizes
    <3>. QED BY <3>1, <3>2
  <2>. HIDE DEF v
  <2>. QED BY <2>2, <2>3, <1>9 DEF Buf
<1>11. w.fill + Len(s) <= Hard => v.q = w.q \o s
  <2>1. w.fill + Len(s) <= Hard => n = Len(s)
    BY <1>2, <1>3, <1>4, Sizes
  <2>. QED BY <2>1, <1>5
<1>12. v.fill <= w.fill + Len(s) /\ (w.stop => v.stop)
  BY <1>2, <1>3, <1>4, <1>5
<1>13. \E m \in 0..Len(s) : v.q = w.q \o SubSeq(s, 1, m)
  BY <1>4 DEF t
<1>14. s # <<>> \/ w.q # <<>> => v.q # <<>>
  BY <1>8
<1>. HIDE DEF v
<1>. QED BY <1>1, <1>10, <1>11, <1>12, <1>13, <1>14

\* Flow control ends only with an empty buffer.
LEMMA DrainedIs ==
  ASSUME NEW w \in Buf, NEW n \in Nat
  PROVE  /\ drained(w, n) \in Buf
         /\ w.q \in Seq(Byte)
         /\ n <= Len(w.q) => w.q = SubSeq(w.q, 1, n) \o drained(w, n).q
<1>1. /\ w \in Buffer /\ w.fill \in 0..Hard /\ w.q \in Seq(Byte) /\ w.stop \in BOOLEAN
      /\ w.q = <<>> => w.fill = 0 /\ ~w.stop
      /\ ~w.stop => w.fill <= Soft
  BY DEF Buf, Buffer
<1>2. CASE n < Len(w.q)
  <2>. DEFINE t == SubSeq(w.q, n + 1, Len(w.q))
  <2>1. t \in Seq(Byte) /\ Len(t) = Len(w.q) - n /\ t # <<>>
    <3>1. n \in 0..Len(w.q) /\ Len(w.q) \in Nat
      BY <1>1, <1>2, EmptyLen
    <3>2. t \in Seq(Byte) /\ Len(t) = Len(w.q) - n
      BY <1>1, <3>1, Cut
    <3>. HIDE DEF t
    <3>. QED BY <3>1, <3>2, <1>2, EmptyLen
  <2>2. w.q = SubSeq(w.q, 1, n) \o t
    <3>1. n \in 0..Len(w.q)
      BY <1>1, <1>2, EmptyLen
    <3>. QED BY <1>1, <3>1, Cut, ZenonT(60)
  <2>. HIDE DEF t
  <2>3. drained(w, n) = [w EXCEPT !.q = t]
    BY <1>2 DEF drained, t
  <2>4. [w EXCEPT !.q = t] \in Buffer
    BY <1>1, <2>1 DEF Buffer
  <2>5. [w EXCEPT !.q = t].q = t /\ [w EXCEPT !.q = t].fill = w.fill
        /\ [w EXCEPT !.q = t].stop = w.stop
    BY <1>1 DEF Buffer
  <2>. QED BY <1>1, <2>1, <2>2, <2>3, <2>4, <2>5 DEF Buf
<1>3. CASE ~(n < Len(w.q))
  <2>1. drained(w, n) = Empty
    BY <1>3 DEF drained
  <2>2. Empty \in Buf /\ Empty.q = <<>>
    BY Sizes, EmptySeq DEF Empty, Buf, Buffer
  <2>3. n <= Len(w.q) => n = Len(w.q)
    BY <1>1, <1>3, LenProperties
  <2>4. SubSeq(w.q, 1, Len(w.q)) = w.q /\ w.q \o <<>> = w.q
    BY <1>1, SubSeqFull, ConcatEmptySeq
  <2>. QED BY <1>1, <2>1, <2>2, <2>3, <2>4
<1>. QED BY <1>2, <1>3
-----------------------------------------------------------------------------
(* One byte of the DTE. *)

\* What a loop over the bytes of the DTE leaves alone.
SameBut(x, y) ==
    /\ y.srl = x.srl /\ y.opt = x.opt /\ y.sga = x.sga /\ y.alive = x.alive
    /\ x.sockW.stop => y.sockW.stop

LEMMA GoodIs ==
  ASSUME NEW x \in Good
  PROVE  /\ x \in Path /\ x.sockW \in Buf /\ x.ttyW \in Buf /\ Len(x.line) <= LineMax
         /\ x.ttyR \in Seq(Byte) /\ x.line \in Seq(Byte) /\ x.srl \in Srl
         /\ x.opt \in Byte /\ x.sga \in BOOLEAN /\ x.alive \in BOOLEAN
BY DEF Good, Path

LEMMA PutGood ==
  ASSUME NEW x \in Good, NEW s \in Seq(Byte)
  PROVE  /\ putSock(x, s) \in Good /\ putTty(x, s) \in Good
         /\ putSock(x, s) = [x EXCEPT !.sockW = put(x.sockW, s)]
         /\ putTty(x, s) = [x EXCEPT !.ttyW = put(x.ttyW, s)]
<1>1. put(x.sockW, s) \in Buf /\ put(x.ttyW, s) \in Buf
  BY PutIs, GoodIs
<1>2. /\ putSock(x, s) = [x EXCEPT !.sockW = put(x.sockW, s)]
      /\ putTty(x, s) = [x EXCEPT !.ttyW = put(x.ttyW, s)]
  BY GoodIs DEF putSock, putTty, Path
<1>3. \A b \in Buf : b \in Buffer
  BY DEF Buf
<1>. QED BY <1>1, <1>2, <1>3 DEF Good, Path

\* A line takes what fits in it.
LEMMA LineIs ==
  ASSUME NEW s \in Seq(Byte)
  PROVE  LET t == SubSeq(s, 1, Least(LineMax, Len(s)))
         IN  t \in Seq(Byte) /\ Len(t) <= LineMax
<1>1. Len(s) \in Nat
  BY EmptyLen
<1>2. Least(LineMax, Len(s)) \in 0..Len(s) /\ Least(LineMax, Len(s)) <= LineMax
  BY <1>1, Sizes DEF Least
<1>. QED BY <1>2, Cut

\* What line mode keeps of a byte.
lineKeeps(c) == IF c = "IAC" THEN <<"IAC", "IAC">> ELSE <<c>>

LEMMA Bytes ==
  /\ \A c \in Byte : <<c>> \in Seq(Byte) /\ lineKeeps(c) \in Seq(Byte)
  /\ <<"IAC", "IAC">> \in Seq(Byte) /\ <<"CR", "LF">> \in Seq(Byte)
  /\ <<"echo">> \in Seq(Byte) /\ <<"echo", "echo">> \in Seq(Byte)
<1>1. "IAC" \in Byte /\ "CR" \in Byte /\ "LF" \in Byte /\ "echo" \in Byte
  BY DEF Byte, Special
<1>. HIDE DEF Byte
<1>. QED BY <1>1 DEF lineKeeps

LEMMA LineByteGood ==
  ASSUME NEW x \in Good, NEW c \in Byte
  PROVE  /\ lineByte(x, c) \in Good /\ SameBut(x, lineByte(x, c))
         /\ lineByte(x, c).ttyR = x.ttyR
<1>. DEFINE e == putTty(x, IF c = "CR" THEN <<"echo", "echo">> ELSE <<"echo">>)
<1>1. /\ e \in Good /\ e.line = x.line /\ e.sockW = x.sockW /\ e.ttyR = x.ttyR
      /\ e.srl = x.srl /\ e.opt = x.opt /\ e.sga = x.sga /\ e.alive = x.alive
  <2>. DEFINE s == IF c = "CR" THEN <<"echo", "echo">> ELSE <<"echo">>
  <2>1. s \in Seq(Byte)
    BY Bytes
  <2>. HIDE DEF s
  <2>2. putTty(x, s) \in Good /\ putTty(x, s) = [x EXCEPT !.ttyW = put(x.ttyW, s)]
    BY <2>1, PutGood
  <2>3. e = putTty(x, s)
    BY DEF s
  <2>. QED BY <2>2, <2>3, GoodIs DEF Path
<1>. HIDE DEF e
<1>2. CASE c = "CR"
  <2>. DEFINE p == putSock(e, x.line \o <<"CR", "LF">>)
  <2>1. x.line \o <<"CR", "LF">> \in Seq(Byte)
    BY GoodIs, Bytes, ConcatProperties
  <2>2. p \in Good /\ p = [e EXCEPT !.sockW = put(e.sockW, x.line \o <<"CR", "LF">>)]
        /\ (e.sockW.stop => put(e.sockW, x.line \o <<"CR", "LF">>).stop)
    BY <1>1, <2>1, PutGood, PutIs, GoodIs
  <2>. HIDE DEF p
  <2>3. lineByte(x, c) = [p EXCEPT !.line = <<>>]
    BY <1>2 DEF lineByte, e, p
  <2>4. <<>> \in Seq(Byte) /\ Len(<<>>) <= LineMax
    BY EmptySeq, Sizes
  <2>. QED BY <1>1, <2>2, <2>3, <2>4 DEF Good, Path, SameBut
<1>3. CASE c = "LF"
  BY <1>1, <1>3 DEF lineByte, e, SameBut
<1>4. ASSUME NEW l \in Seq(Byte), Len(l) <= LineMax, lineByte(x, c) = [e EXCEPT !.line = l]
      PROVE  /\ lineByte(x, c) \in Good /\ SameBut(x, lineByte(x, c))
             /\ lineByte(x, c).ttyR = x.ttyR
  BY <1>1, <1>4 DEF Good, Path, SameBut
<1>5. CASE c = "BS"
  <2>. DEFINE l == IF x.line = <<>> THEN <<>> ELSE SubSeq(x.line, 1, Len(x.line) - 1)
  <2>1. l \in Seq(Byte) /\ Len(l) <= LineMax
    <3>1. CASE x.line = <<>>
      BY <3>1, EmptySeq, Sizes
    <3>2. CASE x.line # <<>>
      <4>1. Len(x.line) - 1 \in 0..Len(x.line) /\ Len(x.line) \in Nat
        BY <3>2, GoodIs, EmptyLen
      <4>2. l \in Seq(Byte) /\ Len(l) = Len(x.line) - 1
        BY <3>2, <4>1, GoodIs, Cut
      <4>. HIDE DEF l
      <4>. QED BY <4>1, <4>2, GoodIs, Sizes
    <3>. QED BY <3>1, <3>2
  <2>2. lineByte(x, c) = [e EXCEPT !.line = l]
    BY <1>1, <1>5, GoodIs DEF lineByte, e, Front, Good, Path
  <2>. HIDE DEF l
  <2>. QED BY <2>1, <2>2, <1>4
<1>6. CASE c \notin {"CR", "LF", "BS"}
  <2>. DEFINE a == x.line \o lineKeeps(c)
              l == SubSeq(a, 1, Least(LineMax, Len(a)))
  <2>1. l \in Seq(Byte) /\ Len(l) <= LineMax
    <3>1. a \in Seq(Byte)
      BY GoodIs, Bytes, ConcatProperties
    <3>. HIDE DEF a
    <3>. QED BY <3>1, LineIs
  <2>2. lineByte(x, c) = [e EXCEPT !.line = l]
    BY <1>1, <1>6, GoodIs DEF lineByte, e, lineKeeps, Good, Path
  <2>. HIDE DEF l
  <2>. QED BY <2>1, <2>2, <1>4
<1>. QED BY <1>2, <1>3, <1>5, <1>6

LEMMA TtyByteGood ==
  ASSUME NEW x \in Good, NEW c \in Byte, raw \in BOOLEAN
  PROVE  /\ ttyByte(x, c) \in Good /\ SameBut(x, ttyByte(x, c))
         /\ ttyByte(x, c).ttyR = x.ttyR
<1>1. ASSUME NEW s \in Seq(Byte), ttyByte(x, c) = putSock(x, s)
      PROVE  /\ ttyByte(x, c) \in Good /\ SameBut(x, ttyByte(x, c))
             /\ ttyByte(x, c).ttyR = x.ttyR
  <2>1. putSock(x, s) \in Good /\ putSock(x, s) = [x EXCEPT !.sockW = put(x.sockW, s)]
        /\ (x.sockW.stop => put(x.sockW, s).stop)
    BY PutGood, PutIs, GoodIs
  <2>. QED BY <1>1, <2>1 DEF SameBut, Good, Path
<1>2. CASE raw
  <2>1. ttyByte(x, c) = putSock(x, <<c>>)
    BY <1>2 DEF ttyByte
  <2>. QED BY <2>1, <1>1, Bytes
<1>3. CASE ~raw /\ x.sga
  <2>1. ttyByte(x, c) = putSock(x, lineKeeps(c))
    BY <1>3 DEF ttyByte, lineKeeps
  <2>. QED BY <2>1, <1>1, Bytes
<1>4. CASE ~raw /\ ~x.sga
  <2>1. ttyByte(x, c) = lineByte(x, c)
    BY <1>4 DEF ttyByte
  <2>. QED BY <2>1, LineByteGood
<1>. QED BY <1>2, <1>3, <1>4
-----------------------------------------------------------------------------
(* The loops. *)

\* A turn of ttyReadLoop().
ttyTurn(y) == [ttyByte(y, Head(y.ttyR)) EXCEPT !.ttyR = Tail(y.ttyR)]

LEMMA TtyTurnGood ==
  ASSUME NEW y \in Good, y.ttyR # <<>>, raw \in BOOLEAN
  PROVE  /\ ttyTurn(y) \in Good /\ SameBut(y, ttyTurn(y))
         /\ ttyTurn(y).ttyR = Tail(y.ttyR) /\ Head(y.ttyR) \in Byte
<1>1. Head(y.ttyR) \in Byte /\ Tail(y.ttyR) \in Seq(Byte)
  BY GoodIs, HeadTailProperties
<1>2. ttyByte(y, Head(y.ttyR)) \in Good /\ SameBut(y, ttyByte(y, Head(y.ttyR)))
  BY <1>1, TtyByteGood
<1>. QED BY <1>1, <1>2 DEF ttyTurn, Good, Path, SameBut

\* What every turn keeps, the loop keeps; and it goes on until flow control
\* stops it or nothing is left.
LEMMA TtyLoop ==
  ASSUME NEW K, K \subseteq Good, NEW x \in K, raw \in BOOLEAN,
         \A y \in K : ~y.sockW.stop /\ y.ttyR # <<>> => ttyTurn(y) \in K
  PROVE  /\ ttyReadLoop(x) \in K
         /\ ttyReadLoop(x).sockW.stop \/ ttyReadLoop(x).ttyR = <<>>
<1>. DEFINE N == Len(x.ttyR)
            turn(y) == IF y.sockW.stop THEN y ELSE ttyTurn(y)
            J == [n \in 0..N |-> {y \in K : y.sockW.stop \/ Len(y.ttyR) = N - n}]
            h == [n \in 1..N |-> [y \in K |-> turn(y)]]
            after[n \in 0..N] ==
              IF n = 0 THEN x
              ELSE LET y == after[n - 1] IN
                   IF y.sockW.stop THEN y
                   ELSE [ttyByte(y, Head(y.ttyR)) EXCEPT !.ttyR = Tail(y.ttyR)]
<1>1. N \in Nat
  BY GoodIs, EmptyLen
<1>. HIDE DEF N
<1>2. ASSUME NEW n \in 1..N, NEW y \in J[n - 1] PROVE turn(y) \in J[n] /\ y \in K
  <2>1. n - 1 \in 0..N /\ n \in 0..N
    BY <1>1
  <2>2. y \in K /\ (y.sockW.stop \/ Len(y.ttyR) = N - (n - 1))
    BY <1>2, <2>1
  <2>3. ASSUME NEW z \in K, z.sockW.stop \/ Len(z.ttyR) = N - n PROVE z \in J[n]
    BY <2>1, <2>3
  <2>. HIDE DEF J
  <2>4. CASE y.sockW.stop
    BY <2>2, <2>3, <2>4
  <2>5. CASE ~y.sockW.stop
    <3>1. y \in Good /\ y.ttyR \in Seq(Byte) /\ Len(y.ttyR) = N - (n - 1)
      BY <2>2, <2>5, GoodIs
    <3>2. y.ttyR # <<>>
      BY <3>1, <1>1, EmptyLen
    <3>3. ttyTurn(y) \in K /\ ttyTurn(y).ttyR = Tail(y.ttyR)
      BY <2>2, <3>1, <3>2, <2>5, TtyTurnGood
    <3>4. Len(Tail(y.ttyR)) = Len(y.ttyR) - 1
      BY <3>1, <3>2, HeadTailProperties
    <3>5. Len(Tail(y.ttyR)) = N - n
      BY <3>1, <3>4, <1>1
    <3>. QED BY <2>2, <2>3, <2>5, <3>3, <3>5
  <2>. QED BY <2>4, <2>5
<1>3. x \in J[0]
  BY <1>1 DEF N
<1>4. \A n \in 1..N : \A y \in J[n - 1] : h[n][y] = turn(y) /\ h[n][y] \in J[n]
  <2>. HIDE DEF J, turn
  <2>. QED BY <1>2
<1>. HIDE DEF J, h, turn, after
<1>5. PICK f : Loop(f, N, K, J, x, h)
  <2>1. \A n \in 1..N : \A y \in J[n - 1] : h[n][y] \in J[n]
    BY <1>4
  <2>2. \A n \in 0..N : J[n] \subseteq K
    BY DEF J
  <2>3. Turns(N, K, J, h)
    BY <2>1, <2>2 DEF Turns
  <2>. QED BY <1>1, <1>3, <2>3, LoopExists
<1>6. \A n \in 1..N : n - 1 \in 0..N /\ f[n] = turn(f[n - 1])
  <2>1. ASSUME NEW n \in 1..N PROVE n - 1 \in 0..N /\ f[n] = turn(f[n - 1])
    <3>1. n - 1 \in 0..N
      BY <1>1
    <3>2. f[n - 1] \in J[n - 1] /\ f[n] = h[n][f[n - 1]]
      BY <1>5, <3>1 DEF Loop
    <3>3. h[n][f[n - 1]] = turn(f[n - 1])
      BY <1>4, <3>2
    <3>. QED BY <3>1, <3>2, <3>3
  <2>. QED BY <2>1
<1>7. f = [n \in 0..N |->
            IF n = 0 THEN x
            ELSE LET y == f[n - 1] IN
                 IF y.sockW.stop THEN y
                 ELSE [ttyByte(y, Head(y.ttyR)) EXCEPT !.ttyR = Tail(y.ttyR)]]
  <2>. DEFINE E(n) == IF n = 0 THEN x ELSE turn(f[n - 1])
  <2>1. f = [n \in 0..N |-> f[n]]
    BY <1>5 DEF Loop
  <2>2. \A n \in 0..N : f[n] = E(n)
    BY <1>1, <1>5, <1>6 DEF Loop
  <2>. HIDE DEF E
  <2>3. f = [n \in 0..N |-> E(n)]
    BY <2>1, <2>2
  <2>. QED BY <2>3 DEF E, turn, ttyTurn
<1>8. after = [n \in 0..N |->
                IF n = 0 THEN x
                ELSE LET y == after[n - 1] IN
                     IF y.sockW.stop THEN y
                     ELSE [ttyByte(y, Head(y.ttyR)) EXCEPT !.ttyR = Tail(y.ttyR)]]
  BY <1>7 DEF after
<1>9. ttyReadLoop(x) = after[N]
  BY DEF ttyReadLoop, N, after
<1>10. after[0] = x /\ \A n \in 1..N : after[n] = turn(after[n - 1])
  <2>. DEFINE E(n) == IF n = 0 THEN x ELSE turn(after[n - 1])
  <2>1. after = [n \in 0..N |-> E(n)]
    BY <1>8 DEF turn, ttyTurn
  <2>. HIDE DEF E
  <2>2. \A n \in 0..N : after[n] = E(n)
    BY <2>1
  <2>. QED BY <1>1, <2>2 DEF E
<1>11. after[N] \in J[N]
  <2>1. after[0] \in J[0] /\ \A n \in 1..N : after[n - 1] \in J[n - 1] => after[n] \in J[n]
    BY <1>2, <1>3, <1>10
  <2>2. \A n \in 0..N : after[n] \in J[n]
    BY <1>1, <2>1, LoopStays
  <2>. QED BY <1>1, <2>2
<1>12. ASSUME NEW y \in J[N] PROVE y \in K /\ (y.sockW.stop \/ y.ttyR = <<>>)
  <2>1. y \in K /\ (y.sockW.stop \/ Len(y.ttyR) = N - N)
    BY <1>1, <1>12 DEF J
  <2>2. y.ttyR \in Seq(Byte)
    BY <2>1, GoodIs
  <2>. QED BY <1>1, <2>1, <2>2, EmptyLen
<1>. QED BY <1>9, <1>11, <1>12

\* What a byte of the peer leaves alone.
SameTyped(y, z) ==
    /\ z.ttyR = y.ttyR /\ z.line = y.line
    /\ y.sockW.q # <<>> => z.sockW.q # <<>>

LEMMA SrlGood ==
  ASSUME NEW y \in Good, NEW s \in Srl
  PROVE  /\ [y EXCEPT !.srl = s] \in Good /\ SameTyped(y, [y EXCEPT !.srl = s])
         /\ [y EXCEPT !.srl = s].sockW = y.sockW /\ [y EXCEPT !.srl = s].opt = y.opt
BY DEF Good, Path, SameTyped

LEMMA PutSame ==
  ASSUME NEW y \in Good, NEW s \in Seq(Byte)
  PROVE  SameTyped(y, putSock(y, s)) /\ SameTyped(y, putTty(y, s))
<1>1. /\ putSock(y, s) = [y EXCEPT !.sockW = put(y.sockW, s)]
      /\ putTty(y, s) = [y EXCEPT !.ttyW = put(y.ttyW, s)]
      /\ y.sockW.q # <<>> => put(y.sockW, s).q # <<>>
  BY PutGood, PutIs, GoodIs
<1>. QED BY <1>1 DEF Good, Path, SameTyped

\* The modem's own bytes.
LEMMA ReplyBytes ==
  /\ <<"opt", "opt", "opt">> \in Seq({"opt"})
  /\ [i \in 1..(6 + TermLen) |-> "opt"] \in Seq({"opt"})
  /\ \A s \in Seq({"opt"}) : s \in Seq(Byte)
<1>1. 6 + TermLen \in Nat
  BY Sizes
<1>. DEFINE M == 6 + TermLen
<1>2. [i \in 1..M |-> "opt"] \in [1..M -> {"opt"}]
  OBVIOUS
<1>3. [i \in 1..M |-> "opt"] \in Seq({"opt"})
  <2>. HIDE DEF M
  <2>. QED BY <1>1, <1>2, IsASeq DEF M
<1>4. {"opt"} \subseteq Byte
  BY DEF Byte
<1>. QED BY <1>3, <1>4, SeqMonotonic

LEMMA OptGood ==
  ASSUME NEW y \in Good, NEW c, NEW z \in telOptHandle(y, c)
  PROVE  z \in Good /\ SameTyped(y, z)
<1>. DEFINE r == putSock(y, <<"opt", "opt", "opt">>)
<1>1. r \in Good /\ SameTyped(y, r)
  BY ReplyBytes, PutGood, PutSame
<1>2. ASSUME NEW a \in Good, SameTyped(y, a), NEW b \in BOOLEAN
      PROVE  [a EXCEPT !.sga = b] \in Good /\ SameTyped(y, [a EXCEPT !.sga = b])
  BY <1>2 DEF Good, Path, SameTyped
<1>3. SameTyped(y, y)
  BY DEF SameTyped
<1>4. [y EXCEPT !.alive = FALSE] \in Good /\ SameTyped(y, [y EXCEPT !.alive = FALSE])
  BY DEF Good, Path, SameTyped
<1>. HIDE DEF r
<1>5. CASE z = [y EXCEPT !.alive = FALSE]
  BY <1>4, <1>5
<1>6. CASE z # [y EXCEPT !.alive = FALSE]
  <2>1. PICK a \in {y, r}, b \in (IF c = "SGA" THEN BOOLEAN ELSE {y.sga}) :
          z = [a EXCEPT !.sga = b]
    BY <1>6 DEF telOptHandle, r
  <2>2. b \in BOOLEAN
    BY <2>1, GoodIs
  <2>. QED BY <2>1, <2>2, <1>1, <1>2, <1>3
<1>. QED BY <1>5, <1>6

LEMMA SockByteGood ==
  ASSUME NEW y \in Good, NEW c \in Byte, raw \in BOOLEAN, NEW z \in sockByte(y, c)
  PROVE  z \in Good /\ SameTyped(y, z)
<1>. DEFINE to(s) == [y EXCEPT !.srl = s]
            G(a) == a \in Good /\ SameTyped(y, a)
<1>1. ASSUME NEW s \in Srl PROVE G(to(s))
  BY SrlGood
<1>2. ASSUME NEW a, G(a), NEW s \in Seq(Byte) PROVE G(putTty(a, s)) /\ G(putSock(a, s))
  BY <1>2, PutGood, PutSame DEF SameTyped
<1>3. G(y) /\ <<c>> \in Seq(Byte)
  BY Bytes DEF SameTyped
<1>4. y.srl \in Srl /\ \A s \in {"NORM", "IAC", "CMD", "SB", "SBC", "SBS", "SBI"} : s \in Srl
  BY GoodIs DEF Srl
<1>. HIDE DEF G
<1>5. CASE raw
  <2>1. z = putTty(y, <<c>>)
    BY <1>5 DEF sockByte
  <2>. QED BY <2>1, <1>2, <1>3 DEF G
<1>6. CASE ~raw
  <2>1. CASE y.srl = "NORM"
    <3>1. z = to("IAC") \/ z = putTty(y, <<c>>)
      BY <1>6, <2>1 DEF sockByte
    <3>. QED BY <3>1, <1>1, <1>2, <1>3, <1>4, ZenonT(60) DEF G
  <2>2. CASE y.srl = "IAC"
    <3>1. z \in {to("CMD"), to("SB"), putTty(to("NORM"), <<c>>), to("NORM")}
      BY <1>6, <2>2 DEF sockByte
    <3>2. G(to("CMD")) /\ G(to("SB")) /\ G(to("NORM"))
      BY <1>1, <1>4
    <3>3. G(putTty(to("NORM"), <<c>>))
      BY <3>2, <1>2, <1>3
    <3>. QED BY <3>1, <3>2, <3>3 DEF G
  <2>3. CASE y.srl = "CMD"
    <3>1. z \in telOptHandle(to("NORM"), c)
      BY <1>6, <2>3 DEF sockByte
    <3>2. G(to("NORM"))
      BY <1>1, <1>4
    <3>3. z \in Good /\ SameTyped(to("NORM"), z)
      BY <3>1, <3>2, OptGood DEF G
    <3>. QED BY <3>2, <3>3 DEF G, SameTyped
  <2>4. CASE y.srl = "SB"
    <3>1. z = [to("SBC") EXCEPT !.opt = c]
      BY <1>6, <2>4 DEF sockByte
    <3>2. G(to("SBC"))
      BY <1>1, <1>4
    <3>. QED BY <3>1, <3>2 DEF G, Good, Path, SameTyped
  <2>5. CASE y.srl = "SBC"
    <3>1. z \in {to("SBS"), to("NORM")}
      BY <1>6, <2>5 DEF sockByte
    <3>. QED BY <3>1, <1>1, <1>4 DEF G
  <2>6. CASE y.srl = "SBS"
    <3>1. z \in {to("SBI"), to("NORM")}
      BY <1>6, <2>6 DEF sockByte
    <3>. QED BY <3>1, <1>1, <1>4 DEF G
  <2>7. CASE y.srl = "SBI"
    <3>1. z = telOptSBHandle(to("NORM"))
      BY <1>6, <2>7 DEF sockByte
    <3>2. z = to("NORM") \/ z = putSock(to("NORM"), [i \in 1..(6 + TermLen) |-> "opt"])
      BY <3>1 DEF telOptSBHandle
    <3>3. G(to("NORM")) /\ [i \in 1..(6 + TermLen) |-> "opt"] \in Seq(Byte)
      BY <1>1, <1>4, ReplyBytes
    <3>. QED BY <3>2, <3>3, <1>2 DEF G
  <2>. QED BY <1>4, <2>1, <2>2, <2>3, <2>4, <2>5, <2>6, <2>7 DEF Srl
<1>. QED BY <1>5, <1>6

\* The states after the first n bytes are in K[n] when every byte keeps to that.
LEMMA SockLoop ==
  ASSUME NEW s \in Seq(Byte), NEW K, NEW x \in K[0],
         \A n \in 0..Len(s) : K[n] \subseteq Good,
         \A n \in 1..Len(s) : \A y \in K[n - 1] : sockByte(y, s[n]) \subseteq K[n]
  PROVE  sockReadLoop(x, s) \subseteq K[Len(s)]
<1>. DEFINE N == Len(s)
            J == [n \in 0..N |-> SUBSET K[n]]
            turn(Z, n) == UNION {sockByte(y, s[n]) : y \in Z}
            h == [n \in 1..N |-> [Z \in SUBSET Good |-> turn(Z, n)]]
            after[n \in 0..N] ==
              IF n = 0 THEN {x} ELSE UNION {sockByte(y, s[n]) : y \in after[n - 1]}
<1>1. N \in Nat
  BY EmptyLen
<1>. HIDE DEF N
<1>2. ASSUME NEW n \in 1..N, NEW Z \in J[n - 1]
      PROVE  turn(Z, n) \in J[n] /\ h[n][Z] = turn(Z, n)
  <2>1. n - 1 \in 0..N /\ n \in 0..N
    BY <1>1
  <2>2. Z \subseteq K[n - 1] /\ Z \in SUBSET Good
    BY <1>2, <2>1 DEF N
  <2>3. \A y \in Z : sockByte(y, s[n]) \subseteq K[n]
    BY <2>2 DEF N
  <2>4. turn(Z, n) \subseteq K[n]
    BY <2>3
  <2>5. h[n][Z] = turn(Z, n)
    BY <2>2
  <2>. HIDE DEF turn
  <2>. QED BY <2>1, <2>4, <2>5
<1>3. {x} \in J[0]
  BY <1>1
<1>. HIDE DEF turn, h, after
<1>4. PICK f : Loop(f, N, SUBSET Good, J, {x}, h)
  <2>1. \A n \in 0..N : J[n] \subseteq SUBSET Good
    BY DEF N
  <2>. HIDE DEF J
  <2>2. Turns(N, SUBSET Good, J, h)
    BY <2>1, <1>2 DEF Turns
  <2>. QED BY <1>1, <1>3, <2>2, LoopExists
<1>. HIDE DEF J
<1>5. \A n \in 1..N : f[n] = turn(f[n - 1], n)
  <2>1. ASSUME NEW n \in 1..N PROVE f[n] = turn(f[n - 1], n)
    <3>1. n - 1 \in 0..N
      BY <1>1
    <3>2. f[n - 1] \in J[n - 1] /\ f[n] = h[n][f[n - 1]]
      BY <1>4, <3>1 DEF Loop
    <3>. QED BY <1>2, <3>2
  <2>. QED BY <2>1
<1>6. f = [n \in 0..N |-> IF n = 0 THEN {x} ELSE UNION {sockByte(y, s[n]) : y \in f[n - 1]}]
  <2>. DEFINE E(n) == IF n = 0 THEN {x} ELSE turn(f[n - 1], n)
  <2>1. f = [n \in 0..N |-> f[n]]
    BY <1>4 DEF Loop
  <2>2. \A n \in 0..N : f[n] = E(n)
    BY <1>1, <1>4, <1>5 DEF Loop
  <2>. HIDE DEF E
  <2>3. f = [n \in 0..N |-> E(n)]
    BY <2>1, <2>2
  <2>. QED BY <2>3 DEF E, turn
<1>7. after = [n \in 0..N |->
                IF n = 0 THEN {x} ELSE UNION {sockByte(y, s[n]) : y \in after[n - 1]}]
  BY <1>6 DEF after
<1>8. sockReadLoop(x, s) = after[N]
  BY DEF sockReadLoop, N, after
<1>9. after[0] = {x} /\ \A n \in 1..N : after[n] = turn(after[n - 1], n)
  <2>. DEFINE E(n) == IF n = 0 THEN {x} ELSE turn(after[n - 1], n)
  <2>1. after = [n \in 0..N |-> E(n)]
    BY <1>7 DEF turn
  <2>. HIDE DEF E
  <2>2. \A n \in 0..N : after[n] = E(n)
    BY <2>1
  <2>. QED BY <1>1, <2>2 DEF E
<1>10. after[N] \in J[N]
  <2>1. after[0] \in J[0] /\ \A n \in 1..N : after[n - 1] \in J[n - 1] => after[n] \in J[n]
    BY <1>2, <1>3, <1>9
  <2>2. \A n \in 0..N : after[n] \in J[n]
    BY <1>1, <2>1, LoopStays
  <2>. QED BY <1>1, <2>2
<1>. QED BY <1>1, <1>8, <1>10 DEF J, N
-----------------------------------------------------------------------------
(* Types, and who wakes the loop. *)

\* What the DTE has typed waits for something to be sent.
Waits(y) == y.ttyR # <<>> => y.sockW.q # <<>>

(* The states of a step: what the DTE has typed is in the read buffer, and *)
(* over a tty it waits for a reason.                                       *)
Steady == {y \in Good : /\ y.ttyR \in Seq(Typeable) /\ Len(y.ttyR) <= BufR
                        /\ appIO \/ Waits(y)}

IInv ==
    /\ Now \in Good /\ Len(ttyR) <= BufR
    /\ raw \in BOOLEAN /\ appIO \in BOOLEAN /\ hup \in BOOLEAN
    /\ typed \in Seq(Typeable) /\ ttyIn \in Seq(Typeable) /\ ttyR \in Seq(Typeable)
    /\ sockIn \in Seq(Byte) /\ got \in Seq(Byte) /\ shown \in Seq(Byte)
    /\ LeftoverHasWakeup

LEMMA TypeableBytes == Typeable \subseteq Byte
BY DEF Typeable, Byte, Special

\* A state in which flow control has stopped the loop, or nothing is left.
LEMMA StoppedWaits ==
  ASSUME NEW y \in Good, y.sockW.stop \/ y.ttyR = <<>>
  PROVE  Waits(y)
BY GoodIs DEF Waits, Buf

LEMMA TtySteady ==
  ASSUME NEW x \in Good, raw \in BOOLEAN, x.ttyR \in Seq(Typeable), Len(x.ttyR) <= BufR
  PROVE  ttyReadLoop(x) \in Steady
<1>. DEFINE K == {y \in Good : y.ttyR \in Seq(Typeable) /\ Len(y.ttyR) <= BufR}
<1>1. ASSUME NEW y \in K, y.ttyR # <<>> PROVE ttyTurn(y) \in K
  <2>1. ttyTurn(y) \in Good /\ ttyTurn(y).ttyR = Tail(y.ttyR)
    BY <1>1, TtyTurnGood
  <2>2. Tail(y.ttyR) \in Seq(Typeable) /\ Len(Tail(y.ttyR)) = Len(y.ttyR) - 1
        /\ Len(y.ttyR) \in Nat
    BY <1>1, HeadTailProperties, EmptyLen
  <2>3. Len(Tail(y.ttyR)) <= BufR
    BY <2>2, Sizes
  <2>. QED BY <2>1, <2>2, <2>3
<1>2. x \in K /\ K \subseteq Good
  OBVIOUS
<1>. HIDE DEF K
<1>3. /\ ttyReadLoop(x) \in K
      /\ ttyReadLoop(x).sockW.stop \/ ttyReadLoop(x).ttyR = <<>>
  BY <1>1, <1>2, TtyLoop
<1>. QED BY <1>3, StoppedWaits DEF K, Steady

LEMMA SockSteady ==
  ASSUME NEW x \in Steady, raw \in BOOLEAN, NEW s \in Seq(Byte)
  PROVE  sockReadLoop(x, s) \subseteq Steady
<1>. DEFINE K == [n \in 0..Len(s) |-> Steady]
<1>1. ASSUME NEW y \in Steady, NEW c \in Byte PROVE sockByte(y, c) \subseteq Steady
  <2>1. ASSUME NEW z \in sockByte(y, c) PROVE z \in Steady
    <3>1. y \in Good
      BY DEF Steady
    <3>2. z \in Good /\ SameTyped(y, z)
      BY <3>1, SockByteGood
    <3>. QED BY <3>2 DEF Steady, SameTyped, Waits
  <2>. QED BY <2>1
<1>2. Len(s) \in Nat /\ \A n \in 1..Len(s) : s[n] \in Byte
  BY EmptyLen, ElementOfSeq
<1>3. Steady \subseteq Good
  BY DEF Steady
<1>. HIDE DEF Steady
<1>4. K[0] = Steady /\ K[Len(s)] = Steady /\ \A n \in 0..Len(s) : K[n] \subseteq Good
  BY <1>2, <1>3
<1>5. \A n \in 1..Len(s) : \A y \in K[n - 1] : sockByte(y, s[n]) \subseteq K[n]
  BY <1>1, <1>2
<1>. HIDE DEF K
<1>. QED BY <1>4, <1>5, SockLoop

LEMMA WriteSteady ==
  ASSUME NEW x \in Good, raw \in BOOLEAN, x.ttyR \in Seq(Typeable), Len(x.ttyR) <= BufR,
         NEW n \in Nat
  PROVE  sockBufWrite(x, n) \in Steady
<1>. DEFINE y == [x EXCEPT !.sockW = drained(@, n)]
<1>1. y = [x EXCEPT !.sockW = drained(x.sockW, n)] /\ drained(x.sockW, n) \in Buf
  BY GoodIs, DrainedIs DEF Good, Path
<1>2. y \in Good /\ y.ttyR = x.ttyR
  BY <1>1 DEF Good, Path, Buf
<1>3. sockBufWrite(x, n) = IF y.ttyR # <<>> /\ ~y.sockW.stop THEN ttyReadLoop(y) ELSE y
  BY DEF sockBufWrite
<1>. HIDE DEF y
<1>4. CASE y.ttyR # <<>> /\ ~y.sockW.stop
  BY <1>2, <1>3, <1>4, TtySteady
<1>5. CASE ~(y.ttyR # <<>> /\ ~y.sockW.stop)
  BY <1>2, <1>3, <1>5, StoppedWaits DEF Steady
<1>. QED BY <1>4, <1>5

\* An iteration of the online loop.
LEMMA IterSteady ==
  ASSUME IInv, alive, NEW wr \in Nat, NEW tw \in Nat, NEW rd \in 0..Len(sockIn),
         NEW tr \in 0..Len(ttyIn), tr <= BufR, NEW y \in onlineIter(wr, tw, rd, tr)
  PROVE  y \in Steady
<1>. DEFINE w == IF wr > 0 THEN sockBufWrite(Now, wr) ELSE Now
            a == IF appIO THEN ttyReadLoop(w)
                 ELSE IF tw > 0 THEN [w EXCEPT !.ttyW = drained(@, tw)] ELSE w
            r == IF rd > 0 THEN sockReadLoop(a, SubSeq(sockIn, 1, rd)) ELSE {a}
<1>1. PICK z \in r : y = IF tr > 0 THEN ttyReadLoop([z EXCEPT !.ttyR = SubSeq(ttyIn, 1, tr)])
                         ELSE z
  BY DEF onlineIter
<1>2. Now \in Good /\ Now \in Steady /\ Now.ttyR = ttyR /\ raw \in BOOLEAN
  BY DEF IInv, Now, Steady, Waits, LeftoverHasWakeup
<1>3. w \in Steady
  BY <1>2, WriteSteady DEF IInv
<1>. HIDE DEF w
<1>4. a \in Steady
  <2>1. w \in Good /\ w.ttyR \in Seq(Typeable) /\ Len(w.ttyR) <= BufR
    BY <1>3 DEF Steady
  <2>2. CASE appIO
    BY <1>2, <2>1, <2>2, TtySteady
  <2>3. [w EXCEPT !.ttyW = drained(@, tw)] \in Steady
    <3>1. drained(w.ttyW, tw) \in Buf /\ w \in Path
      BY <2>1, GoodIs, DrainedIs
    <3>2. [w EXCEPT !.ttyW = drained(w.ttyW, tw)] \in Good
      BY <2>1, <3>1 DEF Good, Path, Buf
    <3>3. [w EXCEPT !.ttyW = drained(@, tw)] = [w EXCEPT !.ttyW = drained(w.ttyW, tw)]
      BY <3>1 DEF Path
    <3>. QED BY <1>3, <3>1, <3>2, <3>3 DEF Steady, Waits, Path
  <2>. QED BY <1>3, <2>2, <2>3
<1>. HIDE DEF a
<1>5. r \subseteq Steady
  <2>1. SubSeq(sockIn, 1, rd) \in Seq(Byte)
    BY Cut DEF IInv
  <2>. QED BY <1>2, <1>4, <2>1, SockSteady
<1>. HIDE DEF r
<1>6. z \in Steady
  BY <1>1, <1>5
<1>7. CASE tr > 0
  <2>. DEFINE t == SubSeq(ttyIn, 1, tr)
              q == [z EXCEPT !.ttyR = t]
  <2>1. t \in Seq(Typeable) /\ Len(t) = tr
    BY Cut DEF IInv
  <2>2. t \in Seq(Byte)
    BY <2>1, TypeableBytes, SeqMonotonic
  <2>3. y = ttyReadLoop(q)
    BY <1>1, <1>7
  <2>. HIDE DEF t
  <2>4. q \in Good /\ q.ttyR = t
    BY <1>6, <2>2 DEF Steady, Good, Path
  <2>. HIDE DEF q
  <2>. QED BY <1>2, <2>1, <2>3, <2>4, TtySteady
<1>8. CASE ~(tr > 0)
  BY <1>1, <1>6, <1>8
<1>. QED BY <1>7, <1>8

\* A step of the loop: the buffers become those of y.
LEMMA BecomesIs ==
  ASSUME NEW y \in Good, Becomes(y)
  PROVE  Now' = y
BY DEF Becomes, Now, Good, Path

LEMMA RelayStep ==
  ASSUME IInv, OnlineRelays \/ OnlineIdles
  PROVE  IInv'
<1>1. ASSUME NEW y \in Steady, Becomes(y), UNCHANGED <<raw, appIO, hup, typed>>,
             sockIn' \in Seq(Byte), ttyIn' \in Seq(Typeable),
             got' \in Seq(Byte), shown' \in Seq(Byte)
      PROVE  IInv'
  <2>1. y \in Good /\ Now' = y
    BY <1>1, BecomesIs DEF Steady
  <2>2. ttyR' = y.ttyR /\ sockW' = y.sockW
    BY <1>1 DEF Becomes
  <2>3. Good' = Good /\ Typeable' = Typeable
    BY <1>1 DEF Typeable, Good
  <2>. QED
    BY <1>1, <2>1, <2>2, <2>3 DEF IInv, Steady, Waits, LeftoverHasWakeup
<1>2. CASE OnlineRelays
  <2>1. PICK wr \in 0..Len(sockW.q),
             tw \in (IF appIO THEN {0} ELSE 0..Len(ttyW.q)),
             rd \in (IF ttyW.stop /\ ~hup THEN {0} ELSE 0..Least(BufR, Len(sockIn))),
             tr \in (IF mayReadTty THEN 0..Least(BufR, Len(ttyIn)) ELSE {0}) :
          /\ got' = got \o SubSeq(sockW.q, 1, wr)
          /\ shown' = shown \o SubSeq(ttyW.q, 1, tw)
          /\ sockIn' = SubSeq(sockIn, rd + 1, Len(sockIn))
          /\ ttyIn' = SubSeq(ttyIn, tr + 1, Len(ttyIn))
          /\ \E y \in onlineIter(wr, tw, rd, tr) : Becomes(y)
    BY <1>2, Zenon DEF OnlineRelays
  <2>2. /\ sockW.q \in Seq(Byte) /\ ttyW.q \in Seq(Byte)
    BY DEF IInv, Now, Good, Path, Buf, Buffer
  <2>3. /\ Len(sockW.q) \in Nat /\ Len(ttyW.q) \in Nat /\ Len(sockIn) \in Nat
        /\ Len(ttyIn) \in Nat
    BY <2>2, EmptyLen DEF IInv
  <2>4. /\ wr \in Nat /\ tw \in 0..Len(ttyW.q) /\ rd \in 0..Len(sockIn)
        /\ tr \in 0..Len(ttyIn) /\ tr <= BufR
    BY <2>3, Sizes DEF Least
  <2>5. PICK y \in onlineIter(wr, tw, rd, tr) : Becomes(y)
    BY <2>1
  <2>6. y \in Steady
    BY <1>2, <2>4, IterSteady DEF OnlineRelays
  <2>7. /\ sockIn' \in Seq(Byte) /\ ttyIn' \in Seq(Typeable)
        /\ SubSeq(sockW.q, 1, wr) \in Seq(Byte) /\ SubSeq(ttyW.q, 1, tw) \in Seq(Byte)
    BY <2>1, <2>2, <2>4, Cut DEF IInv
  <2>8. got' \in Seq(Byte) /\ shown' \in Seq(Byte)
    BY <2>1, <2>7, ConcatProperties DEF IInv
  <2>. QED BY <1>1, <1>2, <2>5, <2>6, <2>7, <2>8 DEF OnlineRelays
<1>3. CASE OnlineIdles
  <2>1. PICK y \in onlineIter(0, 0, 0, 0) : Becomes(y)
    BY <1>3 DEF OnlineIdles
  <2>2. y \in Steady
    <3>1. 0 \in 0..Len(sockIn) /\ 0 \in 0..Len(ttyIn) /\ 0 \in Nat /\ 0 <= BufR
      BY EmptyLen, Sizes DEF IInv
    <3>. QED BY <1>3, <3>1, IterSteady DEF OnlineIdles
  <2>. QED BY <1>1, <1>3, <2>1, <2>2 DEF OnlineIdles, IInv
<1>. QED BY <1>2, <1>3

LEMMA PeerUnits ==
  ASSUME NEW u \in Units
  PROVE  u.bytes \in Seq(Byte)
<1>1. /\ Data \subseteq Byte /\ Opts \subseteq Byte
      /\ \A c \in {"IAC", "WILL", "SB", "TTYPE", "SEND", "SE"} : c \in Byte
  BY ModeAssumption DEF Byte, Special
<1>2. \/ \E c \in Data \cup {"IAC"} : u.bytes = <<c>>
      \/ u.bytes = <<"IAC", "IAC">>
      \/ \E o \in Opts : u.bytes = <<"IAC", "WILL", o>>
      \/ u.bytes = <<"IAC", "SB", "TTYPE", "SEND", "IAC", "SE">>
  BY DEF Units
<1>. HIDE DEF Byte
<1>3. \A c \in Byte : <<c>> \in Seq(Byte)
  OBVIOUS
<1>4. <<"IAC", "IAC">> \in Seq(Byte)
  BY <1>1
<1>5. \A o \in Byte : <<"IAC", "WILL", o>> \in Seq(Byte)
  BY <1>1
<1>6. <<"IAC", "SB", "TTYPE", "SEND", "IAC", "SE">> \in Seq(Byte)
  BY <1>1
<1>. QED BY <1>1, <1>2, <1>3, <1>4, <1>5, <1>6

Held ==
    /\ ttyR \in Seq(Byte) /\ line \in Seq(Byte) /\ Len(line) <= LineMax
    /\ sockW \in Buf /\ ttyW \in Buf
    /\ srl \in Srl /\ opt \in Byte /\ sga \in BOOLEAN /\ alive \in BOOLEAN

LEMMA NowIs == Held <=> Now \in Good
BY DEF Held, Now, Good, Path, Buf

LEMMA IInvStep == IInv /\ [Next]_vars => IInv'
<1>. SUFFICES ASSUME IInv, [Next]_vars PROVE IInv'
  OBVIOUS
<1>1. ASSUME UNCHANGED raw PROVE Good' = Good /\ Typeable' = Typeable
  BY <1>1 DEF Typeable, Good
<1>2. Held /\ (Held <=> Now \in Good)'
  BY NowIs, PTL DEF IInv
<1>3. CASE OnlineRelays \/ OnlineIdles
  BY <1>3, RelayStep
<1>4. CASE CallEnds
  <2>1. Now' \in Good'
    BY <1>2, <1>4 DEF CallEnds, Held
  <2>. QED BY <1>1, <1>4, <2>1 DEF CallEnds, IInv, LeftoverHasWakeup
<1>5. ASSUME UNCHANGED vars PROVE IInv'
  BY <1>1, <1>5 DEF vars, IInv, Now, LeftoverHasWakeup
<1>6. ASSUME NEW c \in Typeable, DteTypes(c) PROVE IInv'
  <2>1. typed' \in Seq(Typeable) /\ ttyIn' \in Seq(Typeable)
    BY <1>6, AppendProperties DEF DteTypes, IInv
  <2>. QED BY <1>1, <1>6, <2>1 DEF DteTypes, IInv, Now, LeftoverHasWakeup
<1>7. CASE m2k_write_from_app
  <2>. DEFINE n == Least(Len(ttyIn), BufR - Len(ttyR))
              t == SubSeq(ttyIn, 1, n)
  <2>1. Len(ttyIn) \in Nat /\ Len(ttyR) \in Nat
    BY EmptyLen DEF IInv
  <2>2. n \in 0..Len(ttyIn) /\ n <= BufR - Len(ttyR)
    BY <1>7, <2>1, Sizes DEF m2k_write_from_app, Least
  <2>3. ttyR' = ttyR \o t /\ ttyIn' = SubSeq(ttyIn, n + 1, Len(ttyIn))
    BY <1>7 DEF m2k_write_from_app
  <2>. HIDE DEF n
  <2>4. t \in Seq(Typeable) /\ Len(t) = n /\ ttyIn' \in Seq(Typeable)
    BY <2>2, <2>3, Cut DEF IInv
  <2>. HIDE DEF t
  <2>5. ttyR' \in Seq(Typeable) /\ Len(ttyR') <= BufR
    <3>1. ttyR' \in Seq(Typeable) /\ Len(ttyR') = Len(ttyR) + Len(t)
      BY <2>3, <2>4, ConcatProperties DEF IInv
    <3>. QED BY <3>1, <2>1, <2>2, <2>4, Sizes
  <2>6. ttyR' \in Seq(Byte)
    BY <2>5, TypeableBytes, SeqMonotonic
  <2>8. Now' \in Good'
    BY <1>2, <1>7, <2>6 DEF m2k_write_from_app, Held
  <2>. QED
    BY <1>1, <1>7, <2>4, <2>5, <2>8 DEF m2k_write_from_app, IInv, LeftoverHasWakeup
<1>8. ASSUME NEW max \in 1..Hard, m2k_read_to_app(max) PROVE IInv'
  <2>1. max \in Nat /\ ttyW.q \in Seq(Byte) /\ Len(ttyW.q) \in Nat
    BY <1>2, Sizes, EmptyLen DEF Held, Buf, Buffer
  <2>2. ttyW' = drained(ttyW, max) /\ drained(ttyW, max) \in Buf
    BY <1>2, <1>8, <2>1, DrainedIs DEF m2k_read_to_app, Held
  <2>3. shown' \in Seq(Byte)
    <3>1. Least(max, Len(ttyW.q)) \in 0..Len(ttyW.q)
      BY <2>1 DEF Least
    <3>2. SubSeq(ttyW.q, 1, Least(max, Len(ttyW.q))) \in Seq(Byte)
      BY <2>1, <3>1, Cut
    <3>. QED BY <1>8, <3>2, ConcatProperties DEF m2k_read_to_app, IInv
  <2>5. Now' \in Good'
    BY <1>2, <1>8, <2>2 DEF m2k_read_to_app, Held
  <2>. QED BY <1>1, <1>8, <2>3, <2>5 DEF m2k_read_to_app, IInv, LeftoverHasWakeup
<1>9. CASE PeerSends
  <2>1. PICK u \in Units : sockIn' = sockIn \o u.bytes
    BY <1>9 DEF PeerSends
  <2>2. sockIn' \in Seq(Byte)
    BY <2>1, PeerUnits, ConcatProperties DEF IInv
  <2>. QED BY <1>1, <1>9, <2>2 DEF PeerSends, IInv, Now, LeftoverHasWakeup
<1>10. CASE PeerResets
  BY <1>1, <1>10 DEF PeerResets, IInv, Now, LeftoverHasWakeup
<1>. QED
  BY <1>3, <1>4, <1>5, <1>6, <1>7, <1>8, <1>9, <1>10 DEF Next, Ended

LEMMA OwnIs ==
  ASSUME NEW n \in Nat, NEW c \in {"opt", "echo"}
  PROVE  own(c, n) \in Seq({"opt", "echo"}) /\ own(c, n) \in Seq(Byte)
<1>1. own(c, n) \in Seq({"opt", "echo"})
  BY DEF own
<1>2. {"opt", "echo"} \subseteq Byte
  BY DEF Byte
<1>. QED BY <1>1, <1>2, SeqMonotonic

LEMMA EmptyIs == Empty \in Buf /\ Empty.q = <<>>
<1>1. <<>> \in Seq(Byte) /\ Len(<<>>) = 0
  BY EmptySeq
<1>. QED BY <1>1, Sizes DEF Empty, Buf, Buffer

\* What is in the write buffers when the call is up.
LEMMA Opening ==
  ASSUME Init
  PROVE  /\ \E n \in Nat : sockW = put(Empty, own("opt", n))
         /\ \E n \in Nat : ttyW = put(Empty, own("echo", n))
         /\ sockW \in Buf /\ ttyW \in Buf
<1>1. PICK m \in Nat : sockW = put(Empty, own("opt", m))
  BY SizeAssumption, Zenon DEF Init
<1>2. Greeting \in Nat /\ ttyW = put(Empty, own("echo", Greeting))
  BY SizeAssumption, Zenon DEF Init
<1>3. sockW \in Buf
  BY <1>1, OwnIs, EmptyIs, PutIs
<1>4. ttyW \in Buf
  BY <1>2, OwnIs, EmptyIs, PutIs
<1>. QED BY <1>1, <1>2, <1>3, <1>4

LEMMA InitIInv == Init => IInv
<1>. SUFFICES ASSUME Init PROVE IInv
  OBVIOUS
<1>1. \A S : <<>> \in Seq(S) /\ Len(<<>>) = 0
  BY EmptySeq
<1>2. sockW \in Buf /\ ttyW \in Buf
  BY Opening
<1>3. Now \in Good
  <2>1. "NORM" \in Srl /\ "OTHER" \in Byte
    BY DEF Srl, Byte, Special
  <2>2. sockW \in Buffer /\ ttyW \in Buffer
    BY <1>2 DEF Buf
  <2>3. /\ ttyR = <<>> /\ line = <<>> /\ srl = "NORM" /\ opt = "OTHER"
        /\ sga \in BOOLEAN /\ alive = TRUE
    BY Zenon DEF Init
  <2>. QED BY <1>1, <1>2, <2>1, <2>2, <2>3, Sizes DEF Now, Good, Path
<1>4. raw \in BOOLEAN /\ appIO \in BOOLEAN /\ hup \in BOOLEAN
  <2>1. raw \in Raws /\ appIO \in Hosts /\ hup = FALSE
    BY Zenon DEF Init
  <2>. QED BY <2>1, ModeAssumption
<1>5. /\ typed = <<>> /\ ttyIn = <<>> /\ ttyR = <<>> /\ sockIn = <<>> /\ got = <<>>
      /\ shown = <<>>
  BY Zenon DEF Init
<1>. QED BY <1>1, <1>3, <1>4, <1>5, Sizes DEF IInv, LeftoverHasWakeup

\* What a step of the loop leaves behind, in every state that is reached.
THEOREM Invariance == Spec => []IInv
<1>. QED BY InitIInv, IInvStep, PTL DEF Spec

\* The buffers stay within the sizes they are allocated with, however much comes
\* in and whatever the peer negotiates.
THEOREM Types == Spec => []TypeOK
<1>1. IInv => TypeOK
  BY DEF IInv, TypeOK, Good, Now
<1>. QED BY <1>1, Invariance, PTL

\* Bytes left in the tty read buffer never wait for nothing, for buffers of any
\* size: there is something to send, so the loop is woken.
THEOREM LeftoverHasWakeupHolds == Spec => []LeftoverHasWakeup
<1>1. IInv => LeftoverHasWakeup
  BY DEF IInv
<1>. QED BY <1>1, Invariance, PTL
-----------------------------------------------------------------------------
(* What the peer gets. *)

Plain == Byte \ {"opt", "echo"}

keep == [p \in Seq(Byte) \X Byte |->
            IF p[2] \in {"opt", "echo"} THEN p[1] ELSE Append(p[1], p[2])]

LEMMA KeepType == keep \in Steps(Seq(Byte), Byte)
BY AppendProperties DEF keep, Steps

LEMMA PayloadFold ==
  ASSUME NEW s \in Seq(Byte)
  PROVE  Payload(s) = FoldOf(s, Seq(Byte), <<>>, keep)
<1>. DEFINE N == Len(s)
            z == <<>>
            from[n \in 0..N] ==
              IF n = 0 THEN z
              ELSE IF s[n] \in {"opt", "echo"} THEN from[n - 1] ELSE Append(from[n - 1], s[n])
<1>1. N \in Nat /\ z \in Seq(Byte) /\ \A n \in 1..N : s[n] \in Byte /\ n - 1 \in 0..N
  BY EmptyLen, EmptySeq, ElementOfSeq
<1>2. Payload(s) = from[N]
  BY DEF Payload, from
<1>. HIDE DEF N, z
<1>3. PICK f : FoldRun(f, s, Seq(Byte), z, keep)
  BY <1>1, KeepType, FoldExists
<1>. DEFINE F(n) == IF n = 0 THEN z
                    ELSE IF s[n] \in {"opt", "echo"} THEN f[n - 1] ELSE Append(f[n - 1], s[n])
            E(n) == IF n = 0 THEN z
                    ELSE IF s[n] \in {"opt", "echo"} THEN from[n - 1]
                    ELSE Append(from[n - 1], s[n])
<1>. HIDE DEF from
<1>4. f \in [0..N -> Seq(Byte)] /\ f[0] = z
  BY <1>3 DEF FoldRun, N
<1>5. ASSUME NEW n \in 1..N PROVE f[n] = F(n)
  <2>1. f[n] = keep[<<f[n - 1], s[n]>>] /\ n - 1 \in 0..N /\ f[n - 1] \in Seq(Byte)
    BY <1>1, <1>3, <1>4 DEF FoldRun, N
  <2>. QED BY <2>1, <1>1 DEF keep
<1>6. \A n \in 0..N : f[n] = F(n)
  <2>1. F(0) = z
    OBVIOUS
  <2>2. \A n \in 0..N : n = 0 \/ n \in 1..N
    BY <1>1
  <2>. HIDE DEF F
  <2>. QED BY <1>4, <1>5, <2>1, <2>2
<1>7. f = [n \in 0..N |-> F(n)]
  <2>. HIDE DEF F
  <2>. QED BY <1>4, <1>6
<1>8. from = [n \in 0..N |-> E(n)]
  BY <1>7 DEF from
<1>9. \A n \in 0..N : from[n] = E(n)
  <2>. HIDE DEF E
  <2>. QED BY <1>8
<1>10. DOMAIN from = 0..N /\ from = [n \in DOMAIN from |-> from[n]] /\ from[0] = z
  <2>1. DOMAIN from = 0..N /\ from = [n \in DOMAIN from |-> from[n]]
    <3>. HIDE DEF E
    <3>. QED BY <1>8
  <2>2. 0 \in 0..N
    BY <1>1
  <2>. QED BY <2>1, <2>2, <1>9
<1>11. ASSUME NEW n \in 1..N, from[n - 1] \in Seq(Byte)
       PROVE  from[n] = keep[<<from[n - 1], s[n]>>]
  <2>1. from[n] = E(n) /\ n # 0
    BY <1>1, <1>9
  <2>. QED BY <2>1, <1>11, <1>1 DEF keep
<1>12. FoldSteps(from, s, Seq(Byte), z, keep)
  <2>. HIDE DEF E, F
  <2>. QED BY <1>10, <1>11 DEF FoldSteps, N
<1>13. FoldOf(s, Seq(Byte), z, keep) = from[Len(s)]
  <2>. HIDE DEF E, F
  <2>. QED BY <1>1, <1>12, KeepType, FoldLoop
<1>. QED BY <1>2, <1>13 DEF N, z

LEMMA PayloadAppend ==
  /\ Payload(<<>>) = <<>>
  /\ \A s \in Seq(Byte), c \in Byte :
       /\ Payload(s) \in Seq(Byte)
       /\ Payload(Append(s, c)) = IF c \in {"opt", "echo"} THEN Payload(s)
                                  ELSE Append(Payload(s), c)
<1>. DEFINE z == <<>>
<1>1. z \in Seq(Byte)
  BY EmptySeq
<1>. HIDE DEF z
<1>2. ASSUME NEW s \in Seq(Byte), NEW c \in Byte
      PROVE  /\ FoldOf(s, Seq(Byte), z, keep) \in Seq(Byte)
             /\ FoldOf(Append(s, c), Seq(Byte), z, keep)
                  = keep[<<FoldOf(s, Seq(Byte), z, keep), c>>]
  <2>1. FoldOf(s, Seq(Byte), z, keep) \in Seq(Byte)
    BY <1>1, KeepType, FoldType
  <2>2. FoldOf(Append(s, c), Seq(Byte), z, keep) = keep[<<FoldOf(s, Seq(Byte), z, keep), c>>]
    BY <1>1, KeepType, FoldAppend
  <2>. QED BY <2>1, <2>2
<1>3. FoldOf(z, Seq(Byte), z, keep) = z
  <2>1. Len(z) \in {0}
    BY EmptySeq DEF z
  <2>. QED BY <1>1, <2>1, KeepType, FoldNone
<1>4. \A s \in Seq(Byte) : Payload(s) = FoldOf(s, Seq(Byte), z, keep)
  BY PayloadFold DEF z
<1>5. Payload(z) = z
  BY <1>1, <1>3, <1>4
<1>6. ASSUME NEW s \in Seq(Byte), NEW c \in Byte
      PROVE  /\ Payload(s) \in Seq(Byte)
             /\ Payload(Append(s, c)) = IF c \in {"opt", "echo"} THEN Payload(s)
                                        ELSE Append(Payload(s), c)
  <2>1. Append(s, c) \in Seq(Byte)
    BY AppendProperties
  <2>2. Payload(s) \in Seq(Byte)
    BY <1>2, <1>4
  <2>3. Payload(Append(s, c)) = keep[<<Payload(s), c>>]
    BY <2>1, <1>2, <1>4
  <2>4. keep[<<Payload(s), c>>] = IF c \in {"opt", "echo"} THEN Payload(s)
                                  ELSE Append(Payload(s), c)
    BY <2>2 DEF keep
  <2>. QED BY <2>2, <2>3, <2>4
<1>. QED BY <1>5, <1>6 DEF z

LEMMA PayloadConcat ==
  ASSUME NEW s \in Seq(Byte), NEW t \in Seq(Byte)
  PROVE  Payload(s \o t) = Payload(s) \o Payload(t)
<1>. DEFINE P == {u \in Seq(Byte) : Payload(s \o u) = Payload(s) \o Payload(u)}
            z == <<>>
<1>1. Payload(s) \in Seq(Byte) /\ \A u \in Seq(Byte) : Payload(u) \in Seq(Byte)
  <2>1. "opt" \in Byte
    BY DEF Byte
  <2>. QED BY <2>1, PayloadAppend
<1>2. z \in P
  <2>1. z \in Seq(Byte) /\ s \o z = s /\ Payload(s) \o z = Payload(s)
    BY <1>1, EmptySeq, ConcatEmptySeq
  <2>2. Payload(z) = z
    BY PayloadAppend
  <2>. HIDE DEF z
  <2>. QED BY <2>1, <2>2
<1>. HIDE DEF z
<1>3. ASSUME NEW u \in Seq(Byte), NEW c \in Byte, u \in P PROVE Append(u, c) \in P
  <2>1. /\ Payload(s \o u) = Payload(s) \o Payload(u) /\ s \o u \in Seq(Byte)
        /\ Append(u, c) \in Seq(Byte)
    BY <1>3, ConcatProperties, AppendProperties
  <2>2. s \o Append(u, c) = Append(s \o u, c)
    <3>1. <<c>> \in Seq(Byte) /\ Append(u, c) = u \o <<c>>
          /\ Append(s \o u, c) = (s \o u) \o <<c>>
      BY <2>1, Bytes, AppendIsConcat
    <3>. QED BY <3>1, ConcatAssociative
  <2>3. /\ Payload(Append(s \o u, c)) = IF c \in {"opt", "echo"} THEN Payload(s \o u)
                                        ELSE Append(Payload(s \o u), c)
        /\ Payload(Append(u, c)) = IF c \in {"opt", "echo"} THEN Payload(u)
                                   ELSE Append(Payload(u), c)
    BY <2>1, PayloadAppend
  <2>4. Append(Payload(s) \o Payload(u), c) = Payload(s) \o Append(Payload(u), c)
    <3>1. /\ Payload(s) \in Seq(Byte) /\ Payload(u) \in Seq(Byte) /\ <<c>> \in Seq(Byte)
      BY <1>1, Bytes
    <3>2. Payload(s) \o Payload(u) \in Seq(Byte)
      BY <3>1, ConcatProperties
    <3>3. /\ Append(Payload(s) \o Payload(u), c) = (Payload(s) \o Payload(u)) \o <<c>>
          /\ Append(Payload(u), c) = Payload(u) \o <<c>>
      BY <3>1, <3>2, AppendIsConcat
    <3>. QED BY <3>1, <3>3, ConcatAssociative, SMTT(30)
  <2>. QED BY <2>1, <2>2, <2>3, <2>4
<1>4. Seq(Byte) \subseteq P
  <2>. HIDE DEF P
  <2>. QED BY <1>2, <1>3, SeqInduct DEF z
<1>. QED BY <1>4

\* Bytes that are not the modem's own are all there, its own are not.
LEMMA PayloadPlain ==
  /\ \A t \in Seq(Plain) : t \in Seq(Byte) /\ Payload(t) = t
  /\ \A t \in Seq({"opt", "echo"}) : t \in Seq(Byte) /\ Payload(t) = <<>>
<1>. DEFINE z == <<>>
            P == {u \in Seq(Plain) : Payload(u) = u}
            Q == {u \in Seq({"opt", "echo"}) : Payload(u) = z}
<1>1. Plain \subseteq Byte /\ {"opt", "echo"} \subseteq Byte
  BY DEF Plain, Byte
<1>2. (\A t \in Seq(Plain) : t \in Seq(Byte)) /\ \A t \in Seq({"opt", "echo"}) : t \in Seq(Byte)
  BY <1>1, SeqMonotonic
<1>3. Payload(z) = z /\ z \in Seq(Plain) /\ z \in Seq({"opt", "echo"})
  BY PayloadAppend, EmptySeq
<1>. HIDE DEF z
<1>4. ASSUME NEW u \in Seq(Plain), NEW c \in Plain, u \in P PROVE Append(u, c) \in P
  <2>1. Append(u, c) \in Seq(Plain) /\ Payload(u) = u /\ c \in Byte /\ c \notin {"opt", "echo"}
    BY <1>1, <1>4, AppendProperties DEF Plain
  <2>2. Payload(Append(u, c)) = Append(Payload(u), c)
    BY <1>2, <2>1, PayloadAppend
  <2>. QED BY <2>1, <2>2
<1>5. ASSUME NEW u \in Seq({"opt", "echo"}), NEW c \in {"opt", "echo"}, u \in Q
      PROVE  Append(u, c) \in Q
  <2>1. Append(u, c) \in Seq({"opt", "echo"}) /\ Payload(u) = z /\ c \in Byte
    BY <1>1, <1>5, AppendProperties
  <2>2. Payload(Append(u, c)) = Payload(u)
    BY <1>2, <2>1, PayloadAppend
  <2>. QED BY <2>1, <2>2
<1>6. Seq(Plain) \subseteq P
  <2>1. z \in P
    BY <1>3
  <2>. HIDE DEF P
  <2>. QED BY <2>1, <1>4, SeqInduct DEF z
<1>7. Seq({"opt", "echo"}) \subseteq Q
  <2>1. z \in Q
    BY <1>3
  <2>. HIDE DEF Q
  <2>. QED BY <2>1, <1>5, SeqInduct DEF z
<1>. QED BY <1>2, <1>6, <1>7 DEF z

(* What has been typed becomes output and an unfinished line. *)
Drafts == {a \in [out : Seq(Plain), line : Seq(Plain)] : Len(a.line) <= LineMax}

Modes == {"raw", "char", "line"}

LEMMA PlainBytes ==
  /\ \A c \in Plain : <<c>> \in Seq(Plain) /\ <<c, c>> \in Seq(Plain)
  /\ <<"CR", "LF">> \in Seq(Plain) /\ Typeable \subseteq Plain
<1>1. Typeable \subseteq Plain /\ "CR" \in Plain /\ "LF" \in Plain
  BY DataAssumption DEF Typeable, Plain, Byte, Special
<1>. HIDE DEF Plain
<1>. QED BY <1>1

LEMMA DraftIs ==
  ASSUME NEW a \in Drafts
  PROVE  /\ a.out \in Seq(Plain) /\ a.line \in Seq(Plain) /\ Len(a.line) <= LineMax
         /\ \A o \in Seq(Plain) : [a EXCEPT !.out = o] \in Drafts
         /\ \A l \in Seq(Plain) : Len(l) <= LineMax => [a EXCEPT !.line = l] \in Drafts
BY DEF Drafts

\* A line takes what fits in it.
LEMMA DraftLine ==
  ASSUME NEW s \in Seq(Plain)
  PROVE  LET t == SubSeq(s, 1, Least(LineMax, Len(s)))
         IN  t \in Seq(Plain) /\ Len(t) <= LineMax
<1>1. Len(s) \in Nat
  BY EmptyLen
<1>2. Least(LineMax, Len(s)) \in 0..Len(s) /\ Least(LineMax, Len(s)) <= LineMax
  BY <1>1, Sizes DEF Least
<1>. QED BY <1>2, Cut

LEMMA TypeLineType ==
  ASSUME NEW a \in Drafts, NEW c \in Plain
  PROVE  typeLine(a, c) \in Drafts
<1>1. CASE c = "CR"
  <2>1. a.out \o a.line \o <<"CR", "LF">> \in Seq(Plain)
    BY DraftIs, PlainBytes, ConcatProperties
  <2>2. <<>> \in Seq(Plain) /\ Len(<<>>) <= LineMax
    BY EmptySeq, Sizes
  <2>3. typeLine(a, c) = [out |-> a.out \o a.line \o <<"CR", "LF">>, line |-> <<>>]
    BY <1>1 DEF typeLine
  <2>. QED BY <2>1, <2>2, <2>3 DEF Drafts
<1>2. CASE c = "LF"
  BY <1>2 DEF typeLine
<1>3. CASE c = "BS"
  <2>. DEFINE l == IF a.line = <<>> THEN a.line ELSE SubSeq(a.line, 1, Len(a.line) - 1)
  <2>1. l \in Seq(Plain) /\ Len(l) <= LineMax
    <3>1. CASE a.line = <<>>
      BY <3>1, DraftIs
    <3>2. CASE a.line # <<>>
      <4>1. Len(a.line) - 1 \in 0..Len(a.line) /\ Len(a.line) \in Nat
        BY <3>2, DraftIs, EmptyLen
      <4>2. l \in Seq(Plain) /\ Len(l) = Len(a.line) - 1
        BY <3>2, <4>1, DraftIs, Cut
      <4>. HIDE DEF l
      <4>. QED BY <4>1, <4>2, DraftIs, Sizes
    <3>. QED BY <3>1, <3>2
  <2>2. typeLine(a, c) = [a EXCEPT !.line = l]
    BY <1>3 DEF typeLine, Drafts
  <2>. HIDE DEF l
  <2>. QED BY <2>1, <2>2, DraftIs
<1>4. CASE c = "IAC"
  <2>. DEFINE s == a.line \o <<c, c>>
  <2>1. s \in Seq(Plain) /\ Len(s) = Len(a.line) + 2
    <3>1. Len(<<c, c>>) = 2
      OBVIOUS
    <3>. QED BY <3>1, DraftIs, PlainBytes, ConcatProperties
  <2>2. typeLine(a, c) = [a EXCEPT !.line = SubSeq(s, 1, Least(LineMax, Len(a.line) + 2))]
    BY <1>4 DEF typeLine, Drafts
  <2>. HIDE DEF s
  <2>. QED BY <2>1, <2>2, DraftIs, DraftLine
<1>5. CASE c \notin {"CR", "LF", "BS", "IAC"}
  <2>. DEFINE s == Append(a.line, c)
  <2>1. s \in Seq(Plain) /\ Len(s) = Len(a.line) + 1
    BY DraftIs, AppendProperties
  <2>2. typeLine(a, c) = [a EXCEPT !.line = SubSeq(s, 1, Least(LineMax, Len(a.line) + 1))]
    BY <1>5 DEF typeLine, Drafts
  <2>. HIDE DEF s
  <2>. QED BY <2>1, <2>2, DraftIs, DraftLine
<1>. QED BY <1>1, <1>2, <1>3, <1>4, <1>5

LEMMA TypeByteType ==
  ASSUME NEW m \in Modes, NEW a \in Drafts, NEW c \in Plain
  PROVE  typeByte(m, a, c) \in Drafts
<1>1. CASE m = "raw"
  <2>1. Append(a.out, c) \in Seq(Plain)
    BY DraftIs, AppendProperties
  <2>2. typeByte(m, a, c) = [a EXCEPT !.out = Append(a.out, c)]
    BY <1>1 DEF typeByte, Drafts
  <2>. QED BY <2>1, <2>2, DraftIs
<1>2. CASE m = "char"
  <2>. DEFINE k == IF c = "IAC" THEN <<c, c>> ELSE <<c>>
  <2>1. k \in Seq(Plain)
    BY PlainBytes
  <2>2. typeByte(m, a, c) = [a EXCEPT !.out = a.out \o k]
    BY <1>2 DEF typeByte, Drafts
  <2>. HIDE DEF k
  <2>3. a.out \o k \in Seq(Plain)
    BY <2>1, DraftIs, ConcatProperties
  <2>. QED BY <2>2, <2>3, DraftIs
<1>3. CASE m = "line"
  <2>1. typeByte(m, a, c) = typeLine(a, c)
    BY <1>3 DEF typeByte
  <2>. QED BY <2>1, TypeLineType
<1>. QED BY <1>1, <1>2, <1>3 DEF Modes

typeOf(m) == [p \in Drafts \X Plain |-> typeByte(m, p[1], p[2])]

LEMMA TypeOfType ==
  ASSUME NEW m \in Modes
  PROVE  typeOf(m) \in Steps(Drafts, Plain)
BY TypeByteType DEF typeOf, Steps

NoDraft == [out |-> <<>>, line |-> <<>>]

LEMMA NoDraftType == NoDraft \in Drafts
<1>1. <<>> \in Seq(Plain) /\ Len(<<>>) <= LineMax
  BY EmptySeq, Sizes
<1>. QED BY <1>1 DEF NoDraft, Drafts

LEMMA SentFold ==
  ASSUME NEW m \in Modes, NEW s \in Seq(Plain)
  PROVE  Sent(m, s) = FoldOf(s, Drafts, NoDraft, typeOf(m))
<1>. DEFINE N == Len(s)
            z == NoDraft
            h == typeOf(m)
            from[n \in 0..N] ==
              IF n = 0 THEN [out |-> <<>>, line |-> <<>>] ELSE typeByte(m, from[n - 1], s[n])
<1>1. N \in Nat /\ z \in Drafts /\ \A n \in 1..N : s[n] \in Plain /\ n - 1 \in 0..N
  BY EmptyLen, ElementOfSeq, NoDraftType
<1>2. Sent(m, s) = from[N]
  BY DEF Sent, from
<1>3. \A a \in Drafts, c \in Plain : h[<<a, c>>] = typeByte(m, a, c)
  BY DEF typeOf
<1>4. h \in Steps(Drafts, Plain)
  BY TypeOfType
<1>. HIDE DEF N, h, z
<1>5. PICK f : FoldRun(f, s, Drafts, z, h)
  BY <1>1, <1>4, FoldExists
<1>. DEFINE F(n) == IF n = 0 THEN z ELSE typeByte(m, f[n - 1], s[n])
            E(n) == IF n = 0 THEN z ELSE typeByte(m, from[n - 1], s[n])
<1>. HIDE DEF from
<1>6. f \in [0..N -> Drafts] /\ f[0] = z
  BY <1>5 DEF FoldRun, N
<1>7. ASSUME NEW n \in 1..N PROVE f[n] = F(n)
  <2>1. f[n] = h[<<f[n - 1], s[n]>>] /\ f[n - 1] \in Drafts /\ s[n] \in Plain /\ n # 0
    BY <1>1, <1>5, <1>6 DEF FoldRun, N
  <2>. QED BY <2>1, <1>3
<1>8. \A n \in 0..N : f[n] = F(n)
  <2>1. F(0) = z
    OBVIOUS
  <2>2. \A n \in 0..N : n = 0 \/ n \in 1..N
    BY <1>1
  <2>. HIDE DEF F
  <2>. QED BY <1>6, <1>7, <2>1, <2>2
<1>9. f = [n \in 0..N |-> F(n)]
  <2>. HIDE DEF F
  <2>. QED BY <1>6, <1>8
<1>10. from = [n \in 0..N |-> E(n)]
  BY <1>9 DEF from, z, NoDraft
<1>11. \A n \in 0..N : from[n] = E(n)
  <2>. HIDE DEF E
  <2>. QED BY <1>10
<1>12. DOMAIN from = 0..N /\ from = [n \in DOMAIN from |-> from[n]] /\ from[0] = z
  <2>1. DOMAIN from = 0..N /\ from = [n \in DOMAIN from |-> from[n]]
    <3>. HIDE DEF E
    <3>. QED BY <1>10
  <2>2. 0 \in 0..N
    BY <1>1
  <2>. QED BY <2>1, <2>2, <1>11
<1>13. ASSUME NEW n \in 1..N, from[n - 1] \in Drafts
       PROVE  from[n] = h[<<from[n - 1], s[n]>>]
  <2>1. from[n] = E(n) /\ n # 0
    BY <1>1, <1>11
  <2>. QED BY <2>1, <1>13, <1>1, <1>3
<1>14. FoldSteps(from, s, Drafts, z, h)
  <2>. HIDE DEF E, F
  <2>. QED BY <1>12, <1>13 DEF FoldSteps, N
<1>15. FoldOf(s, Drafts, z, h) = from[Len(s)]
  <2>. HIDE DEF E, F
  <2>. QED BY <1>1, <1>4, <1>14, FoldLoop
<1>. QED BY <1>2, <1>15 DEF N, z, h

LEMMA SentAppend ==
  ASSUME NEW m \in Modes
  PROVE  /\ Sent(m, <<>>) = NoDraft
         /\ \A s \in Seq(Plain) : Sent(m, s) \in Drafts
         /\ \A s \in Seq(Plain), c \in Plain :
              Sent(m, Append(s, c)) = typeByte(m, Sent(m, s), c)
<1>. DEFINE z == <<>>
            h == typeOf(m)
<1>1. z \in Seq(Plain) /\ Len(z) \in {0} /\ "CR" \in Plain
  BY EmptySeq DEF Plain, Byte, Special
<1>2. h \in Steps(Drafts, Plain)
  BY TypeOfType
<1>3. \A a \in Drafts, c \in Plain : h[<<a, c>>] = typeByte(m, a, c)
  BY DEF typeOf
<1>4. \A s \in Seq(Plain) : Sent(m, s) = FoldOf(s, Drafts, NoDraft, h)
  BY SentFold
<1>. HIDE DEF z, h
<1>5. ASSUME NEW s \in Seq(Plain), NEW c \in Plain
      PROVE  /\ FoldOf(s, Drafts, NoDraft, h) \in Drafts
             /\ FoldOf(Append(s, c), Drafts, NoDraft, h) = h[<<FoldOf(s, Drafts, NoDraft, h), c>>]
  BY <1>2, NoDraftType, FoldType, FoldAppend
<1>6. FoldOf(z, Drafts, NoDraft, h) = NoDraft
  BY <1>1, <1>2, NoDraftType, FoldNone
<1>7. \A s \in Seq(Plain) : Sent(m, s) \in Drafts
  BY <1>1, <1>4, <1>5
<1>8. ASSUME NEW s \in Seq(Plain), NEW c \in Plain
      PROVE  Sent(m, Append(s, c)) = typeByte(m, Sent(m, s), c)
  <2>1. Append(s, c) \in Seq(Plain)
    BY AppendProperties
  <2>2. Sent(m, Append(s, c)) = h[<<Sent(m, s), c>>]
    BY <2>1, <1>4, <1>5
  <2>. QED BY <2>2, <1>3, <1>7
<1>9. Sent(m, z) = NoDraft
  BY <1>1, <1>4, <1>6
<1>. QED BY <1>7, <1>8, <1>9 DEF z

-----------------------------------------------------------------------------
(* A byte of the DTE, and one of the peer. *)

\* What there is room for is kept.
LEMMA PutRoom ==
  ASSUME NEW w \in Buf, NEW s \in Seq(Plain), w.fill + Len(s) <= Hard, NEW g \in Seq(Byte)
  PROVE  Payload(g \o put(w, s).q) = Payload(g \o w.q) \o s
<1>1. w.q \in Seq(Byte) /\ s \in Seq(Byte)
  BY PayloadPlain DEF Buf, Buffer
<1>2. put(w, s).q = w.q \o s
  BY <1>1, PutIs
<1>3. g \o w.q \in Seq(Byte)
  BY <1>1, ConcatProperties
<1>4. g \o (w.q \o s) = (g \o w.q) \o s
  <2>. DEFINE q == w.q
  <2>1. q \in Seq(Byte) /\ s \in Seq(Byte)
    BY <1>1
  <2>. HIDE DEF q
  <2>2. g \o (q \o s) = (g \o q) \o s
    BY <2>1, ConcatAssociative
  <2>. QED BY <2>2 DEF q
<1>. QED BY <1>1, <1>2, <1>3, <1>4, PayloadConcat, PayloadPlain

\* Without flow control there is room for what a read may bring.
LEMMA PutAll ==
  ASSUME NEW w \in Buf, ~w.stop, NEW s \in Seq(Plain), Len(s) <= BufR, NEW g \in Seq(Byte)
  PROVE  Payload(g \o put(w, s).q) = Payload(g \o w.q) \o s
<1>1. w.fill \in Nat /\ w.fill <= Soft
  BY Sizes DEF Buf, Buffer
<1>2. w.fill + Len(s) <= Hard
  BY <1>1, EmptyLen, Sizes
<1>. QED BY <1>2, PutRoom

\* What the modem says of its own is not for the application.
LEMMA PutReply ==
  ASSUME NEW w \in Buf, NEW s \in Seq({"opt", "echo"}), NEW g \in Seq(Byte)
  PROVE  Payload(g \o put(w, s).q) = Payload(g \o w.q)
<1>1. w.q \in Seq(Byte) /\ s \in Seq(Byte)
  BY PayloadPlain DEF Buf, Buffer
<1>2. PICK n \in 0..Len(s) : put(w, s).q = w.q \o SubSeq(s, 1, n)
  BY <1>1, PutIs
<1>. DEFINE t == SubSeq(s, 1, n)
<1>3. t \in Seq({"opt", "echo"})
  BY Cut
<1>. HIDE DEF t
<1>4. t \in Seq(Byte) /\ Payload(t) = <<>>
  BY <1>3, PayloadPlain
<1>5. g \o (w.q \o t) = (g \o w.q) \o t /\ g \o w.q \in Seq(Byte)
  <2>1. g \o w.q \in Seq(Byte)
    BY <1>1, ConcatProperties
  <2>. DEFINE q == w.q
  <2>2. q \in Seq(Byte)
    BY <1>1
  <2>. HIDE DEF q
  <2>3. g \o (q \o t) = (g \o q) \o t
    BY <1>4, <2>2, ConcatAssociative, SMTT(30)
  <2>. QED BY <2>1, <2>3 DEF q
<1>6. Payload(g \o w.q) \in Seq(Byte)
  <2>1. "opt" \in Byte
    BY DEF Byte
  <2>. QED BY <1>5, <2>1, PayloadAppend
<1>7. Payload((g \o w.q) \o t) = Payload(g \o w.q) \o Payload(t)
  BY <1>4, <1>5, PayloadConcat
<1>8. Payload(g \o w.q) \o <<>> = Payload(g \o w.q)
  BY <1>6, ConcatEmptySeq
<1>. QED BY <1>2, <1>4, <1>5, <1>7, <1>8 DEF t

\* z has sent and keeps in its line what the draft a says.
Says(z, g, a) == Payload(g \o z.sockW.q) = a.out /\ z.line = a.line

LEMMA LineByteSays ==
  ASSUME NEW y \in Good, ~y.sockW.stop, NEW c \in Plain, NEW g \in Seq(Byte),
         NEW a \in Drafts, Says(y, g, a)
  PROVE  Says(lineByte(y, c), g, typeLine(a, c))
<1>. DEFINE e == putTty(y, IF c = "CR" THEN <<"echo", "echo">> ELSE <<"echo">>)
<1>0. c \in Byte /\ Payload(g \o y.sockW.q) = a.out /\ y.line = a.line
  BY DEF Plain, Says
<1>1. e \in Good /\ e.line = y.line /\ e.sockW = y.sockW
  <2>. DEFINE s == IF c = "CR" THEN <<"echo", "echo">> ELSE <<"echo">>
  <2>1. s \in Seq(Byte)
    BY Bytes
  <2>. HIDE DEF s
  <2>2. putTty(y, s) \in Good /\ putTty(y, s) = [y EXCEPT !.ttyW = put(y.ttyW, s)]
    BY <2>1, PutGood
  <2>3. e = putTty(y, s)
    BY DEF s
  <2>. QED BY <2>2, <2>3, GoodIs DEF Path
<1>. HIDE DEF e
<1>2. CASE c = "CR"
  <2>. DEFINE s == y.line \o <<"CR", "LF">>
              p == putSock(e, s)
  <2>1. s \in Seq(Plain) /\ s \in Seq(Byte) /\ Len(s) <= BufR
    <3>1. s \in Seq(Plain) /\ Len(s) = Len(a.line) + 2
      <4>1. Len(<<"CR", "LF">>) = 2
        OBVIOUS
      <4>. QED BY <4>1, <1>0, DraftIs, PlainBytes, ConcatProperties
    <3>. HIDE DEF s
    <3>2. Len(a.line) \in Nat /\ Len(a.line) <= LineMax
      BY DraftIs, EmptyLen
    <3>. QED BY <3>1, <3>2, Sizes, PayloadPlain
  <2>2. lineByte(y, c) = [p EXCEPT !.line = <<>>]
    BY <1>2 DEF lineByte, e
  <2>. HIDE DEF s
  <2>3. p \in Good /\ p.sockW = put(y.sockW, s)
    <3>1. p \in Good /\ p = [e EXCEPT !.sockW = put(e.sockW, s)]
      BY <1>1, <2>1, PutGood
    <3>. QED BY <3>1, <1>1, GoodIs DEF Path
  <2>. HIDE DEF p
  <2>4. lineByte(y, c).sockW = put(y.sockW, s) /\ lineByte(y, c).line = <<>>
    BY <2>2, <2>3, GoodIs DEF Path
  <2>5. Payload(g \o put(y.sockW, s).q) = a.out \o s
    BY <1>0, <2>1, GoodIs, PutAll
  <2>6. typeLine(a, c) = [out |-> a.out \o a.line \o <<"CR", "LF">>, line |-> <<>>]
    BY <1>2 DEF typeLine
  <2>7. a.out \o s = (a.out \o a.line) \o <<"CR", "LF">>
    <3>. DEFINE r == <<"CR", "LF">>
                o == a.out
                l == a.line
    <3>1. r \in Seq(Plain) /\ o \in Seq(Plain) /\ l \in Seq(Plain)
      BY DraftIs, PlainBytes
    <3>2. s = l \o r
      BY <1>0 DEF s
    <3>. HIDE DEF o, l, r
    <3>3. (o \o l) \o r = o \o (l \o r)
      BY <3>1, ConcatAssociative
    <3>. QED BY <3>2, <3>3 DEF o, l, r
  <2>8. /\ typeLine(a, c).out = (a.out \o a.line) \o <<"CR", "LF">>
        /\ typeLine(a, c).line = <<>>
    <3>. DEFINE o == (a.out \o a.line) \o <<"CR", "LF">>
                z == <<>>
    <3>1. typeLine(a, c) = [out |-> o, line |-> z]
      BY <2>6
    <3>. HIDE DEF o, z
    <3>2. typeLine(a, c).out = o /\ typeLine(a, c).line = z
      BY <3>1
    <3>. QED BY <3>2 DEF o, z
  <2>. QED BY <2>4, <2>5, <2>7, <2>8 DEF Says
<1>3. CASE c = "LF"
  <2>1. lineByte(y, c) = e /\ typeLine(a, c) = a
    BY <1>3 DEF lineByte, typeLine, e
  <2>. QED BY <2>1, <1>0, <1>1 DEF Says
<1>4. ASSUME NEW l, lineByte(y, c) = [e EXCEPT !.line = l], typeLine(a, c) = [a EXCEPT !.line = l]
      PROVE  Says(lineByte(y, c), g, typeLine(a, c))
  <2>1. [e EXCEPT !.line = l].sockW = y.sockW /\ [e EXCEPT !.line = l].line = l
    BY <1>1 DEF Good, Path
  <2>2. [a EXCEPT !.line = l].out = a.out /\ [a EXCEPT !.line = l].line = l
    BY DEF Drafts
  <2>. QED BY <2>1, <2>2, <1>0, <1>4 DEF Says
<1>5. CASE c = "BS"
  <2>. DEFINE l == IF a.line = <<>> THEN a.line ELSE SubSeq(a.line, 1, Len(a.line) - 1)
  <2>1. lineByte(y, c) = [e EXCEPT !.line = l]
    BY <1>0, <1>1, <1>5, GoodIs DEF lineByte, e, Front, Good, Path
  <2>2. typeLine(a, c) = [a EXCEPT !.line = l]
    BY <1>5 DEF typeLine, Drafts
  <2>. HIDE DEF l
  <2>. QED BY <2>1, <2>2, <1>4
<1>6. CASE c \notin {"CR", "LF", "BS"}
  <2>. DEFINE b == a.line \o lineKeeps(c)
              l == SubSeq(b, 1, Least(LineMax, Len(b)))
  <2>1. lineByte(y, c) = [e EXCEPT !.line = l]
    BY <1>0, <1>1, <1>6, GoodIs DEF lineByte, e, lineKeeps, Good, Path
  <2>2. typeLine(a, c) = [a EXCEPT !.line = l]
    <3>1. CASE c = "IAC"
      <4>1. b = a.line \o <<c, c>>
        BY <3>1 DEF lineKeeps
      <4>2. Len(b) = Len(a.line) + 2
        <5>1. Len(<<c, c>>) = 2
          OBVIOUS
        <5>. QED BY <4>1, <5>1, DraftIs, PlainBytes, ConcatProperties
      <4>3. typeLine(a, c) = [a EXCEPT !.line =
                SubSeq(a.line \o <<c, c>>, 1, Least(LineMax, Len(a.line) + 2))]
        BY <3>1 DEF typeLine, Drafts
      <4>. QED BY <4>1, <4>2, <4>3
    <3>2. CASE c # "IAC"
      <4>1. b = Append(a.line, c)
        BY <3>2, DraftIs, AppendIsConcat DEF lineKeeps
      <4>2. Len(b) = Len(a.line) + 1
        BY <4>1, DraftIs, AppendProperties
      <4>3. typeLine(a, c) = [a EXCEPT !.line =
                SubSeq(Append(a.line, c), 1, Least(LineMax, Len(a.line) + 1))]
        BY <1>6, <3>2 DEF typeLine, Drafts
      <4>. QED BY <4>1, <4>2, <4>3
    <3>. QED BY <3>1, <3>2
  <2>. HIDE DEF l
  <2>. QED BY <2>1, <2>2, <1>4
<1>. QED BY <1>2, <1>3, <1>5, <1>6

\* The mode that ttyByte() goes by.
modeOf(y) == IF raw THEN "raw" ELSE IF y.sga THEN "char" ELSE "line"

LEMMA TtyByteSays ==
  ASSUME NEW y \in Good, ~y.sockW.stop, NEW c \in Plain, NEW g \in Seq(Byte),
         NEW a \in Drafts, Says(y, g, a), raw \in BOOLEAN
  PROVE  Says(ttyByte(y, c), g, typeByte(modeOf(y), a, c))
<1>0. c \in Byte /\ Payload(g \o y.sockW.q) = a.out /\ y.line = a.line
  BY DEF Plain, Says
<1>1. ASSUME NEW s \in Seq(Plain), Len(s) <= 2, ttyByte(y, c) = putSock(y, s),
             typeByte(modeOf(y), a, c) = [a EXCEPT !.out = a.out \o s]
      PROVE  Says(ttyByte(y, c), g, typeByte(modeOf(y), a, c))
  <2>1. Len(s) <= BufR /\ s \in Seq(Byte)
    BY <1>1, EmptyLen, Sizes, PayloadPlain
  <2>2. putSock(y, s) = [y EXCEPT !.sockW = put(y.sockW, s)]
    BY <2>1, PutGood
  <2>3. putSock(y, s).sockW = put(y.sockW, s) /\ putSock(y, s).line = y.line
    BY <2>2 DEF Good, Path
  <2>4. Payload(g \o put(y.sockW, s).q) = a.out \o s
    BY <1>0, <2>1, GoodIs, PutAll
  <2>5. [a EXCEPT !.out = a.out \o s].out = a.out \o s
        /\ [a EXCEPT !.out = a.out \o s].line = a.line
    BY DEF Drafts
  <2>. QED BY <2>3, <2>4, <2>5, <1>0, <1>1 DEF Says
<1>2. <<c>> \in Seq(Plain) /\ <<c, c>> \in Seq(Plain) /\ Len(<<c>>) <= 2 /\ Len(<<c, c>>) <= 2
  BY PlainBytes
<1>3. CASE raw
  <2>1. ttyByte(y, c) = putSock(y, <<c>>)
    BY <1>3 DEF ttyByte
  <2>2. typeByte(modeOf(y), a, c) = [a EXCEPT !.out = a.out \o <<c>>]
    BY <1>3, DraftIs, AppendIsConcat DEF typeByte, modeOf, Drafts
  <2>. QED BY <2>1, <2>2, <1>1, <1>2
<1>4. CASE ~raw /\ y.sga
  <2>. DEFINE s == IF c = "IAC" THEN <<c, c>> ELSE <<c>>
  <2>1. ttyByte(y, c) = putSock(y, s)
    BY <1>4 DEF ttyByte
  <2>2. typeByte(modeOf(y), a, c) = [a EXCEPT !.out = a.out \o s]
    BY <1>4 DEF typeByte, modeOf, Drafts
  <2>3. s \in Seq(Plain) /\ Len(s) <= 2
    BY <1>2
  <2>. HIDE DEF s
  <2>. QED BY <2>1, <2>2, <2>3, <1>1
<1>5. CASE ~raw /\ ~y.sga
  <2>1. ttyByte(y, c) = lineByte(y, c) /\ typeByte(modeOf(y), a, c) = typeLine(a, c)
    BY <1>5 DEF ttyByte, typeByte, modeOf
  <2>. QED BY <2>1, LineByteSays
<1>. QED BY <1>3, <1>4, <1>5


(* Of the bytes typed, y holds those from m - Len(y.ttyR) + 1 to m; the    *)
(* bytes before them it has sent behind g, or keeps in its line.           *)
Holds(y, m) ==
    /\ m \in Nat /\ m <= Len(typed) /\ Len(y.ttyR) <= m
    /\ y.ttyR = SubSeq(typed, m - Len(y.ttyR) + 1, m)

Conveys(y, m, g, b) ==
    /\ y.sga = b /\ Holds(y, m)
    /\ Says(y, g, Sent(modeOf(y), SubSeq(typed, 1, m - Len(y.ttyR))))

LEMMA TtyTurnConveys ==
  ASSUME NEW y \in Good, ~y.sockW.stop, y.ttyR # <<>>, NEW g \in Seq(Byte), NEW m, NEW b,
         Conveys(y, m, g, b), typed \in Seq(Typeable), raw \in BOOLEAN
  PROVE  Conveys(ttyTurn(y), m, g, b)
<1>. DEFINE k == m - Len(y.ttyR)
            c == typed[k + 1]
            z == ttyTurn(y)
            a == Sent(modeOf(y), SubSeq(typed, 1, k))
<1>1. typed \in Seq(Plain) /\ Len(typed) \in Nat
  BY PlainBytes, SeqMonotonic, EmptyLen
<1>2. /\ m \in Nat /\ m <= Len(typed) /\ Len(y.ttyR) \in Nat /\ Len(y.ttyR) > 0 /\ k \in Nat
      /\ k < m /\ y.ttyR = SubSeq(typed, k + 1, m) /\ y.sga = b /\ Says(y, g, a)
  <2>1. Len(y.ttyR) \in Nat /\ Len(y.ttyR) > 0
    BY GoodIs, EmptyLen
  <2>2. m \in Nat /\ m <= Len(typed) /\ Len(y.ttyR) <= m
    BY DEF Conveys, Holds
  <2>3. y.ttyR = SubSeq(typed, k + 1, m) /\ y.sga = b /\ Says(y, g, a)
    BY DEF Conveys, Holds
  <2>4. k \in Nat /\ k < m
    BY <2>1, <2>2
  <2>. HIDE DEF k, a, c
  <2>. QED BY <2>1, <2>2, <2>3, <2>4
<1>. HIDE DEF k
<1>3. /\ c \in Plain /\ SubSeq(typed, 1, k + 1) = Append(SubSeq(typed, 1, k), c)
      /\ Head(y.ttyR) = c /\ Tail(y.ttyR) = SubSeq(typed, k + 2, m)
  BY <1>1, <1>2, PartMoves
<1>4. SubSeq(typed, 1, k) \in Seq(Plain)
  <2>1. k \in 0..Len(typed)
    BY <1>1, <1>2
  <2>. QED BY <1>1, <2>1, Cut
<1>5. modeOf(y) \in Modes
  BY DEF modeOf, Modes
<1>6. a \in Drafts /\ Sent(modeOf(y), SubSeq(typed, 1, k + 1)) = typeByte(modeOf(y), a, c)
  BY <1>3, <1>4, <1>5, SentAppend
<1>. HIDE DEF a
<1>. DEFINE t == ttyByte(y, c)
<1>7. t \in Good /\ SameBut(y, t) /\ Says(t, g, typeByte(modeOf(y), a, c))
  <2>1. c \in Byte
    BY <1>3 DEF Plain
  <2>. QED BY <2>1, <1>2, <1>3, <1>6, TtyByteGood, TtyByteSays
<1>. HIDE DEF c
<1>8. z = [t EXCEPT !.ttyR = SubSeq(typed, k + 2, m)]
  BY <1>3 DEF ttyTurn
<1>. HIDE DEF t, z
<1>9. /\ z.sockW = t.sockW /\ z.line = t.line /\ z.sga = t.sga /\ t.sga = y.sga
      /\ z.ttyR = SubSeq(typed, k + 2, m)
  BY <1>7, <1>8 DEF Good, Path, SameBut
<1>10. modeOf(z) = modeOf(y)
  BY <1>9 DEF modeOf
<1>11. Says(z, g, Sent(modeOf(z), SubSeq(typed, 1, k + 1)))
  BY <1>6, <1>7, <1>9, <1>10 DEF Says
<1>12. Len(z.ttyR) = m - (k + 1)
  <2>1. k + 1 \in Nat /\ k + 1 <= m /\ (k + 1) + 1 = k + 2
    BY <1>2
  <2>2. Len(SubSeq(typed, (k + 1) + 1, m)) = m - (k + 1)
    BY <2>1, <1>1, <1>2, PartIs
  <2>. QED BY <2>1, <2>2, <1>9
<1>13. /\ m - Len(z.ttyR) = k + 1 /\ m - Len(z.ttyR) + 1 = k + 2 /\ Len(z.ttyR) <= m
  BY <1>2, <1>12
<1>14. Conveys(z, m, g, b)
  BY <1>2, <1>9, <1>11, <1>13 DEF Conveys, Holds
<1>. QED BY <1>14 DEF z

LEMMA TtyConveys ==
  ASSUME NEW x \in Good, NEW g \in Seq(Byte), NEW m, NEW b,
         Conveys(x, m, g, b), typed \in Seq(Typeable), raw \in BOOLEAN
  PROVE  ttyReadLoop(x) \in Good /\ Conveys(ttyReadLoop(x), m, g, b)
<1>. DEFINE K == {y \in Good : Conveys(y, m, g, b)}
<1>1. ASSUME NEW y \in K, ~y.sockW.stop, y.ttyR # <<>> PROVE ttyTurn(y) \in K
  BY <1>1, TtyTurnGood, TtyTurnConveys
<1>2. x \in K /\ K \subseteq Good
  OBVIOUS
<1>. HIDE DEF K
<1>3. ttyReadLoop(x) \in K
  BY <1>1, <1>2, TtyLoop
<1>. QED BY <1>3 DEF K

\* What the peer sends as long as nobody negotiates SGA.
Calm == Plain \ {"SGA"}

LEMMA CalmBytes ==
  /\ \A c \in Calm : c \in Plain /\ c \in Byte /\ c # "SGA"
  /\ \A s \in Seq(Calm) : s \in Seq(Byte)
<1>1. Calm \subseteq Byte
  BY DEF Calm, Plain
<1>. QED BY <1>1, SeqMonotonic DEF Calm, Plain

\* A byte of the peer that negotiates nothing changes nothing on this way.
SaysSame(y, z) ==
    /\ z.ttyR = y.ttyR /\ z.line = y.line /\ z.sga = y.sga
    /\ \A g \in Seq(Byte) : Payload(g \o z.sockW.q) = Payload(g \o y.sockW.q)

LEMMA SaysSamePut ==
  ASSUME NEW y, NEW a \in Good, SaysSame(y, a)
  PROVE  /\ \A s \in Srl : [a EXCEPT !.srl = s] \in Good /\ SaysSame(y, [a EXCEPT !.srl = s])
         /\ \A s \in Seq(Byte) : putTty(a, s) \in Good /\ SaysSame(y, putTty(a, s))
         /\ \A s \in Seq({"opt"}) : putSock(a, s) \in Good /\ SaysSame(y, putSock(a, s))
         /\ [a EXCEPT !.alive = FALSE] \in Good /\ SaysSame(y, [a EXCEPT !.alive = FALSE])
<1>1. ASSUME NEW s \in Srl PROVE [a EXCEPT !.srl = s] \in Good /\ SaysSame(y, [a EXCEPT !.srl = s])
  BY SrlGood DEF Good, Path, SaysSame
<1>2. ASSUME NEW s \in Seq(Byte) PROVE putTty(a, s) \in Good /\ SaysSame(y, putTty(a, s))
  <2>1. putTty(a, s) \in Good /\ putTty(a, s) = [a EXCEPT !.ttyW = put(a.ttyW, s)]
    BY PutGood
  <2>. QED BY <2>1 DEF Good, Path, SaysSame
<1>3. ASSUME NEW s \in Seq({"opt"}) PROVE putSock(a, s) \in Good /\ SaysSame(y, putSock(a, s))
  <2>1. s \in Seq(Byte) /\ s \in Seq({"opt", "echo"})
    <3>1. {"opt"} \subseteq {"opt", "echo"}
      OBVIOUS
    <3>. QED BY <3>1, ReplyBytes, SeqMonotonic
  <2>2. putSock(a, s) \in Good /\ putSock(a, s) = [a EXCEPT !.sockW = put(a.sockW, s)]
    BY <2>1, PutGood
  <2>3. \A g \in Seq(Byte) : Payload(g \o put(a.sockW, s).q) = Payload(g \o a.sockW.q)
    BY <2>1, GoodIs, PutReply
  <2>. DEFINE v == put(a.sockW, s)
              w == putSock(a, s)
  <2>4. w \in Good /\ w = [a EXCEPT !.sockW = v]
    BY <2>2
  <2>. HIDE DEF v, w
  <2>5. w.sockW = v /\ w.ttyR = a.ttyR /\ w.line = a.line /\ w.sga = a.sga
    BY <2>4 DEF Good, Path
  <2>6. \A g \in Seq(Byte) : Payload(g \o w.sockW.q) = Payload(g \o a.sockW.q)
    BY <2>3, <2>5 DEF v
  <2>7. SaysSame(y, w)
    BY <2>5, <2>6 DEF SaysSame
  <2>. QED BY <2>4, <2>7 DEF w
<1>4. [a EXCEPT !.alive = FALSE] \in Good /\ SaysSame(y, [a EXCEPT !.alive = FALSE])
  BY DEF Good, Path, SaysSame
<1>. QED BY <1>1, <1>2, <1>3, <1>4

LEMMA SockByteSaysSame ==
  ASSUME NEW y \in Good, NEW c \in Byte, c # "SGA", raw \in BOOLEAN, NEW z \in sockByte(y, c)
  PROVE  z \in Good /\ SaysSame(y, z)
<1>. DEFINE to(s) == [y EXCEPT !.srl = s]
            G(a) == a \in Good /\ SaysSame(y, a)
<1>1. G(y) /\ <<c>> \in Seq(Byte)
  BY Bytes DEF SaysSame
<1>2. ASSUME NEW s \in Srl PROVE G(to(s))
  BY <1>1, SaysSamePut
<1>3. ASSUME NEW a, G(a)
      PROVE  /\ \A s \in Seq(Byte) : G(putTty(a, s))
             /\ \A s \in Seq({"opt"}) : G(putSock(a, s))
             /\ G([a EXCEPT !.alive = FALSE])
  BY <1>3, SaysSamePut
<1>4. y.srl \in Srl /\ \A s \in {"NORM", "IAC", "CMD", "SB", "SBC", "SBS", "SBI"} : s \in Srl
  BY GoodIs DEF Srl
<1>5. G(to("NORM"))
  BY <1>2, <1>4
<1>6. SUFFICES G(z)
  OBVIOUS
<1>. HIDE DEF G
<1>7. CASE raw
  <2>1. z = putTty(y, <<c>>)
    BY <1>7 DEF sockByte
  <2>. QED BY <2>1, <1>1, <1>3
<1>8. CASE ~raw
  <2>1. CASE y.srl = "NORM"
    <3>1. z = to("IAC") \/ z = putTty(y, <<c>>)
      BY <1>8, <2>1 DEF sockByte
    <3>. QED BY <3>1, <1>1, <1>2, <1>3, <1>4, ZenonT(60)
  <2>2. CASE y.srl = "IAC"
    <3>1. z \in {to("CMD"), to("SB"), putTty(to("NORM"), <<c>>), to("NORM")}
      BY <1>8, <2>2 DEF sockByte
    <3>2. G(to("CMD")) /\ G(to("SB")) /\ G(to("NORM"))
      BY <1>2, <1>4
    <3>3. G(putTty(to("NORM"), <<c>>))
      BY <3>2, <1>1, <1>3
    <3>. QED BY <3>1, <3>2, <3>3
  <2>3. CASE y.srl = "CMD"
    <3>. DEFINE n == to("NORM")
                r == putSock(n, <<"opt", "opt", "opt">>)
    <3>1. z \in telOptHandle(n, c)
      BY <1>8, <2>3 DEF sockByte
    <3>2. G(n) /\ G(r) /\ G([n EXCEPT !.alive = FALSE])
      BY <1>3, <1>5, ReplyBytes
    <3>. HIDE DEF r
    <3>3. z = [n EXCEPT !.alive = FALSE]
          \/ \E a \in {n, r} : z = [a EXCEPT !.sga = n.sga]
      BY <3>1 DEF telOptHandle, r
    <3>4. n.sga = y.sga
      BY DEF Good, Path
    <3>. HIDE DEF n
    <3>5. ASSUME NEW a, G(a) PROVE [a EXCEPT !.sga = n.sga] = a
      BY <3>4, <3>5 DEF G, Good, Path, SaysSame
    <3>. QED BY <3>2, <3>3, <3>5
  <2>4. CASE y.srl = "SB"
    <3>1. z = [to("SBC") EXCEPT !.opt = c]
      BY <1>8, <2>4 DEF sockByte
    <3>2. G(to("SBC"))
      BY <1>2, <1>4
    <3>. QED BY <3>1, <3>2 DEF G, Good, Path, SaysSame
  <2>5. CASE y.srl = "SBC"
    <3>1. z \in {to("SBS"), to("NORM")}
      BY <1>8, <2>5 DEF sockByte
    <3>. QED BY <3>1, <1>2, <1>4
  <2>6. CASE y.srl = "SBS"
    <3>1. z \in {to("SBI"), to("NORM")}
      BY <1>8, <2>6 DEF sockByte
    <3>. QED BY <3>1, <1>2, <1>4
  <2>7. CASE y.srl = "SBI"
    <3>1. z = telOptSBHandle(to("NORM"))
      BY <1>8, <2>7 DEF sockByte
    <3>2. z = to("NORM") \/ z = putSock(to("NORM"), [i \in 1..(6 + TermLen) |-> "opt"])
      BY <3>1 DEF telOptSBHandle
    <3>. QED BY <3>2, <1>3, <1>5, ReplyBytes
  <2>. QED BY <1>4, <2>1, <2>2, <2>3, <2>4, <2>5, <2>6, <2>7 DEF Srl
<1>. QED BY <1>7, <1>8

LEMMA SockConveys ==
  ASSUME NEW x \in Good, NEW g \in Seq(Byte), NEW m, NEW b, Conveys(x, m, g, b),
         raw \in BOOLEAN, NEW s \in Seq(Calm), NEW z \in sockReadLoop(x, s)
  PROVE  z \in Good /\ z.ttyR = x.ttyR /\ Conveys(z, m, g, b)
<1>. DEFINE Q == {y \in Good : y.ttyR = x.ttyR /\ Conveys(y, m, g, b)}
            K == [n \in 0..Len(s) |-> Q]
<1>1. ASSUME NEW y \in Q, NEW c \in Calm PROVE sockByte(y, c) \subseteq Q
  <2>1. ASSUME NEW w \in sockByte(y, c) PROVE w \in Q
    <3>1. w \in Good /\ SaysSame(y, w)
      BY SockByteSaysSame, CalmBytes
    <3>2. modeOf(w) = modeOf(y)
      BY <3>1 DEF modeOf, SaysSame
    <3>. QED BY <3>1, <3>2 DEF SaysSame, Conveys, Holds, Says
  <2>. QED BY <2>1
<1>2. Len(s) \in Nat /\ \A n \in 1..Len(s) : s[n] \in Calm
  BY EmptyLen, ElementOfSeq
<1>3. Q \subseteq Good /\ x \in Q /\ s \in Seq(Byte)
  BY CalmBytes
<1>. HIDE DEF Q
<1>4. K[0] = Q /\ K[Len(s)] = Q /\ \A n \in 0..Len(s) : K[n] \subseteq Good
  BY <1>2, <1>3
<1>5. \A n \in 1..Len(s) : \A y \in K[n - 1] : sockByte(y, s[n]) \subseteq K[n]
  BY <1>1, <1>2
<1>. HIDE DEF K
<1>6. sockReadLoop(x, s) \subseteq Q
  BY <1>3, <1>4, <1>5, SockLoop
<1>. QED BY <1>6 DEF Q

-----------------------------------------------------------------------------
(* What has been typed goes out, as long as nobody negotiates SGA. *)

SendInv ==
    /\ sockIn \in Seq(Calm)
    /\ Len(ttyIn) <= Len(typed)
    /\ ttyIn = SubSeq(typed, Len(typed) - Len(ttyIn) + 1, Len(typed))
    /\ Conveys(Now, Len(typed) - Len(ttyIn), got, sga)

LEMMA CalmUnits ==
  ASSUME "SGA" \notin Opts, NEW u \in Units
  PROVE  u.bytes \in Seq(Calm)
<1>1. /\ Data \subseteq Calm /\ Opts \subseteq Calm
      /\ \A c \in {"IAC", "WILL", "SB", "TTYPE", "SEND", "SE"} : c \in Calm
  BY ModeAssumption, DataAssumption DEF Calm, Plain, Byte, Special
<1>2. \/ \E c \in Data \cup {"IAC"} : u.bytes = <<c>>
      \/ u.bytes = <<"IAC", "IAC">>
      \/ \E o \in Opts : u.bytes = <<"IAC", "WILL", o>>
      \/ u.bytes = <<"IAC", "SB", "TTYPE", "SEND", "IAC", "SE">>
  BY DEF Units
<1>3. \A c \in Calm : <<c>> \in Seq(Calm)
  OBVIOUS
<1>4. <<"IAC", "IAC">> \in Seq(Calm)
  BY <1>1
<1>5. \A o \in Calm : <<"IAC", "WILL", o>> \in Seq(Calm)
  BY <1>1
<1>6. <<"IAC", "SB", "TTYPE", "SEND", "IAC", "SE">> \in Seq(Calm)
  BY <1>1
<1>. QED BY <1>1, <1>2, <1>3, <1>4, <1>5, <1>6

\* What send() has taken is behind what went before.
LEMMA DrainedConveys ==
  ASSUME NEW x \in Good, NEW g \in Seq(Byte), NEW m, NEW b, Conveys(x, m, g, b),
         NEW n \in 0..Len(x.sockW.q)
  PROVE  LET y == [x EXCEPT !.sockW = drained(@, n)]
         IN  /\ y \in Good /\ y.ttyR = x.ttyR
             /\ g \o SubSeq(x.sockW.q, 1, n) \in Seq(Byte)
             /\ Conveys(y, m, g \o SubSeq(x.sockW.q, 1, n), b)
<1>. DEFINE y == [x EXCEPT !.sockW = drained(@, n)]
            d == drained(x.sockW, n)
            q == x.sockW.q
            p == SubSeq(q, 1, n)
            r == d.q
<1>1. x.sockW \in Buf /\ q \in Seq(Byte) /\ Len(q) \in Nat /\ n \in Nat /\ n <= Len(q)
  <2>1. q \in Seq(Byte)
    BY GoodIs DEF Buf, Buffer
  <2>. QED BY <2>1, GoodIs, EmptyLen
<1>2. d \in Buf /\ q = p \o r
  BY <1>1, DrainedIs
<1>3. r \in Seq(Byte) /\ p \in Seq(Byte)
  <2>1. r \in Seq(Byte)
    BY <1>2 DEF Buf, Buffer
  <2>. HIDE DEF r, q
  <2>. QED BY <2>1, <1>1, Cut
<1>4. y = [x EXCEPT !.sockW = d]
  BY DEF Good, Path
<1>5. y \in Good /\ y.ttyR = x.ttyR /\ y.line = x.line /\ y.sga = x.sga /\ y.sockW = d
  <2>. HIDE DEF d, y
  <2>. QED BY <1>2, <1>4 DEF Good, Path, Buf
<1>6. g \o p \in Seq(Byte) /\ (g \o p) \o r = g \o q
  <2>. HIDE DEF p, q, r
  <2>1. g \o p \in Seq(Byte)
    BY <1>3, ConcatProperties
  <2>2. (g \o p) \o r = g \o (p \o r)
    BY <1>3, ConcatAssociative
  <2>. QED BY <2>1, <2>2, <1>2
<1>7. modeOf(y) = modeOf(x)
  BY <1>5 DEF modeOf
<1>8. Conveys(y, m, g \o p, b)
  <2>1. (g \o p) \o y.sockW.q = g \o x.sockW.q
    BY <1>5, <1>6
  <2>. HIDE DEF y, d, p, q, r
  <2>. QED BY <2>1, <1>5, <1>7 DEF Conveys, Holds, Says
<1>. QED BY <1>5, <1>6, <1>8

LEMMA IterConveys ==
  ASSUME IInv, SendInv, NEW wr \in 0..Len(sockW.q), NEW tw \in Nat,
         NEW rd \in 0..Len(sockIn), NEW tr \in 0..Len(ttyIn), tr > 0 => mayReadTty,
         NEW y \in onlineIter(wr, tw, rd, tr)
  PROVE  Conveys(y, Len(typed) - Len(ttyIn) + tr, got \o SubSeq(sockW.q, 1, wr), sga)
<1>. DEFINE m == Len(typed) - Len(ttyIn)
            g == got \o SubSeq(sockW.q, 1, wr)
            v == [Now EXCEPT !.sockW = drained(@, wr)]
            w == IF wr > 0 THEN sockBufWrite(Now, wr) ELSE Now
            a == IF appIO THEN ttyReadLoop(w)
                 ELSE IF tw > 0 THEN [w EXCEPT !.ttyW = drained(@, tw)] ELSE w
            r == IF rd > 0 THEN sockReadLoop(a, SubSeq(sockIn, 1, rd)) ELSE {a}
            C(z) == z \in Good /\ Conveys(z, m, g, sga)
            D(z) == C(z) /\ (tr > 0 => z.ttyR = <<>>)
<1>1. PICK z \in r : y = IF tr > 0 THEN ttyReadLoop([z EXCEPT !.ttyR = SubSeq(ttyIn, 1, tr)])
                         ELSE z
  BY DEF onlineIter
<1>2. /\ Now \in Good /\ Now.ttyR = ttyR /\ Now.sockW = sockW /\ raw \in BOOLEAN
      /\ got \in Seq(Byte) /\ typed \in Seq(Typeable) /\ Conveys(Now, m, got, sga)
  BY DEF IInv, SendInv, Now
<1>3. v \in Good /\ v.ttyR = ttyR /\ g \in Seq(Byte) /\ Conveys(v, m, g, sga)
  <2>. HIDE DEF m
  <2>1. wr \in 0..Len(Now.sockW.q)
    BY <1>2
  <2>. QED BY <1>2, <2>1, DrainedConveys
<1>. HIDE DEF m, v
<1>4. wr = 0 => C(Now)
  <2>1. CASE wr = 0
    <3>. DEFINE q == sockW.q
    <3>1. q \in Seq(Byte)
      BY <1>2, GoodIs DEF Buf, Buffer
    <3>. HIDE DEF q
    <3>2. SubSeq(q, 1, 0) = <<>> /\ got \o <<>> = got
      BY <1>2, <3>1, SubSeqEmpty, ConcatEmptySeq
    <3>3. g = got
      BY <2>1, <3>2 DEF q
    <3>. QED BY <1>2, <3>3
  <2>. QED BY <2>1
<1>. HIDE DEF g
<1>5. sockBufWrite(Now, wr) = IF v.ttyR # <<>> /\ ~v.sockW.stop THEN ttyReadLoop(v) ELSE v
  BY DEF sockBufWrite, v
<1>6. ASSUME NEW x, C(x) PROVE C(ttyReadLoop(x))
  BY <1>2, <1>3, <1>6, TtyConveys
<1>7. tr > 0 => ttyR = <<>> /\ ~appIO
  BY DEF mayReadTty
<1>8. D(w)
  <2>1. CASE wr = 0
    BY <2>1, <1>2, <1>4, <1>7
  <2>2. CASE wr > 0
    <3>1. D(v)
      BY <1>3, <1>7
    <3>2. CASE v.ttyR # <<>> /\ ~v.sockW.stop
      <4>1. tr = 0
        BY <3>1, <3>2
      <4>. QED BY <2>2, <3>1, <3>2, <4>1, <1>5, <1>6
    <3>3. CASE ~(v.ttyR # <<>> /\ ~v.sockW.stop)
      BY <2>2, <3>1, <3>3, <1>5
    <3>. QED BY <3>2, <3>3
  <2>. QED BY <2>1, <2>2
<1>. HIDE DEF w
<1>9. D(a)
  <2>1. CASE appIO
    <3>1. tr = 0
      BY <2>1, <1>7
    <3>. QED BY <2>1, <3>1, <1>6, <1>8
  <2>2. D([w EXCEPT !.ttyW = drained(@, tw)])
    <3>1. drained(w.ttyW, tw) \in Buf /\ w \in Path
      BY <1>8, GoodIs, DrainedIs
    <3>2. [w EXCEPT !.ttyW = drained(w.ttyW, tw)] \in Good
      BY <1>8, <3>1 DEF Good, Path, Buf
    <3>. DEFINE u == [w EXCEPT !.ttyW = drained(w.ttyW, tw)]
    <3>3. [w EXCEPT !.ttyW = drained(@, tw)] = u
      BY <3>1 DEF Path
    <3>4. u.ttyR = w.ttyR /\ u.line = w.line /\ u.sga = w.sga /\ u.sockW = w.sockW
      BY <3>1 DEF Path
    <3>5. modeOf(u) = modeOf(w)
      BY <3>4 DEF modeOf
    <3>. HIDE DEF u
    <3>. QED BY <1>8, <3>2, <3>3, <3>4, <3>5 DEF Conveys, Holds, Says, u
  <2>. QED BY <1>8, <2>1, <2>2
<1>. HIDE DEF a
<1>10. D(z)
  <2>1. CASE rd > 0
    <3>1. SubSeq(sockIn, 1, rd) \in Seq(Calm)
      BY Cut DEF SendInv
    <3>2. z \in sockReadLoop(a, SubSeq(sockIn, 1, rd))
      BY <2>1, <1>1
    <3>3. z \in Good /\ z.ttyR = a.ttyR /\ Conveys(z, m, g, sga)
      BY <3>1, <3>2, <1>2, <1>3, <1>9, SockConveys
    <3>. QED BY <3>3, <1>9
  <2>2. CASE ~(rd > 0)
    BY <2>2, <1>1, <1>9
  <2>. QED BY <2>1, <2>2
<1>. HIDE DEF r
<1>11. /\ ttyIn \in Seq(Typeable) /\ typed \in Seq(Plain) /\ typed \in Seq(Byte)
       /\ Len(ttyIn) \in Nat /\ Len(typed) \in Nat /\ tr \in Nat /\ tr <= Len(ttyIn)
       /\ m = Len(typed) - Len(ttyIn) /\ m \in Nat /\ m + tr <= Len(typed)
       /\ ttyIn = SubSeq(typed, m + 1, Len(typed))
  <2>1. ttyIn \in Seq(Typeable) /\ Len(ttyIn) <= Len(typed)
    BY DEF IInv, SendInv
  <2>2. Len(ttyIn) \in Nat /\ Len(typed) \in Nat
    BY <2>1, <1>2, EmptyLen
  <2>3. typed \in Seq(Plain) /\ typed \in Seq(Byte)
    BY <1>2, PlainBytes, TypeableBytes, SeqMonotonic
  <2>4. m = Len(typed) - Len(ttyIn) /\ ttyIn = SubSeq(typed, m + 1, Len(typed))
    BY DEF m, SendInv
  <2>5. tr \in Nat /\ tr <= Len(ttyIn)
    BY <2>2
  <2>6. m \in Nat /\ m + tr <= Len(typed)
    BY <2>1, <2>2, <2>4, <2>5
  <2>. QED BY <2>1, <2>2, <2>3, <2>4, <2>5, <2>6
<1>12. CASE tr > 0
  <2>. DEFINE t == SubSeq(ttyIn, 1, tr)
              u == [z EXCEPT !.ttyR = t]
  <2>1. t = SubSeq(typed, m + 1, m + tr)
    <3>1. tr \in 0..(Len(typed) - m) /\ m <= Len(typed)
      BY <1>11
    <3>2. SubSeq(SubSeq(typed, m + 1, Len(typed)), 1, tr) = SubSeq(typed, m + 1, m + tr)
      <4>. DEFINE l == Len(typed)
      <4>1. /\ typed \in Seq(Plain) /\ m \in Nat /\ l \in Nat /\ m <= l /\ l <= l
            /\ tr \in 0..(l - m) /\ l = Len(typed)
        BY <1>11
      <4>. HIDE DEF l
      <4>2. l <= Len(typed)
        BY <4>1
      <4>3. SubSeq(SubSeq(typed, m + 1, l), 1, tr) = SubSeq(typed, m + 1, m + tr)
        BY <4>1, <4>2, PartOfPart
      <4>. QED BY <4>3 DEF l
    <3>. QED BY <1>11, <3>2
  <2>2. t \in Seq(Byte) /\ Len(t) = tr
    <3>1. t \in Seq(Typeable) /\ Len(t) = tr
      BY <1>11, Cut
    <3>. QED BY <3>1, TypeableBytes, SeqMonotonic
  <2>3. y = ttyReadLoop(u)
    BY <1>1, <1>12
  <2>. HIDE DEF t
  <2>4. /\ u \in Good /\ u.ttyR = t /\ u.line = z.line /\ u.sga = z.sga /\ u.sockW = z.sockW
        /\ modeOf(u) = modeOf(z)
    BY <1>10, <2>2 DEF Good, Path, modeOf
  <2>. HIDE DEF u
  <2>5. z.ttyR = <<>> /\ Len(z.ttyR) = 0
    BY <1>10, <1>12, EmptySeq
  <2>6. /\ (m + tr) - Len(u.ttyR) = m /\ m - Len(z.ttyR) = m /\ Len(u.ttyR) <= m + tr
        /\ m + tr \in Nat
    BY <1>11, <2>2, <2>4, <2>5
  <2>7. Conveys(u, m + tr, g, sga)
    BY <1>10, <1>11, <2>1, <2>4, <2>6 DEF Conveys, Holds, Says
  <2>8. Conveys(y, m + tr, g, sga)
    BY <2>3, <2>4, <2>7, <1>2, <1>3, TtyConveys
  <2>. QED BY <2>8 DEF m, g
<1>13. CASE tr = 0
  <2>1. Conveys(z, m, g, sga) /\ y = z /\ m + tr = m
    BY <1>1, <1>10, <1>11, <1>13
  <2>2. Conveys(y, m + tr, g, sga)
    BY <2>1
  <2>. QED BY <2>2 DEF m, g
<1>14. tr > 0 \/ tr = 0
  BY <1>11
<1>. QED BY <1>12, <1>13, <1>14


(* The same of the variables. *)
Gone == Sent(Mode, SubSeq(typed, 1, Len(typed) - Len(ttyIn) - Len(ttyR)))

Flat ==
    /\ sockIn \in Seq(Calm)
    /\ Len(ttyIn) <= Len(typed)
    /\ ttyIn = SubSeq(typed, Len(typed) - Len(ttyIn) + 1, Len(typed))
    /\ Len(typed) - Len(ttyIn) \in Nat
    /\ Len(typed) - Len(ttyIn) <= Len(typed)
    /\ Len(ttyR) <= Len(typed) - Len(ttyIn)
    /\ ttyR = SubSeq(typed, Len(typed) - Len(ttyIn) - Len(ttyR) + 1, Len(typed) - Len(ttyIn))
    /\ Payload(got \o sockW.q) = Gone.out
    /\ line = Gone.line

LEMMA FlatIs == Flat <=> SendInv
BY DEF Flat, Gone, SendInv, Conveys, Holds, Says, Now, modeOf, Mode

LEMMA SendRelays ==
  ASSUME IInv, SendInv, OnlineRelays
  PROVE  SendInv'
<1>1. PICK wr \in 0..Len(sockW.q),
           tw \in (IF appIO THEN {0} ELSE 0..Len(ttyW.q)),
           rd \in (IF ttyW.stop /\ ~hup THEN {0} ELSE 0..Least(BufR, Len(sockIn))),
           tr \in (IF mayReadTty THEN 0..Least(BufR, Len(ttyIn)) ELSE {0}) :
        /\ got' = got \o SubSeq(sockW.q, 1, wr)
        /\ sockIn' = SubSeq(sockIn, rd + 1, Len(sockIn))
        /\ ttyIn' = SubSeq(ttyIn, tr + 1, Len(ttyIn))
        /\ \E y \in onlineIter(wr, tw, rd, tr) : Becomes(y)
  BY Zenon DEF OnlineRelays
<1>2. PICK y \in onlineIter(wr, tw, rd, tr) : Becomes(y)
  BY <1>1
<1>3. sockW.q \in Seq(Byte) /\ ttyW.q \in Seq(Byte)
  BY DEF IInv, Now, Good, Path, Buf, Buffer
<1>4. /\ Len(ttyW.q) \in Nat /\ Len(sockIn) \in Nat /\ Len(ttyIn) \in Nat
      /\ Len(typed) \in Nat
  BY <1>3, EmptyLen DEF IInv
<1>5. /\ tw \in Nat /\ rd \in 0..Len(sockIn) /\ tr \in 0..Len(ttyIn)
      /\ tr > 0 => mayReadTty
  BY <1>4, Sizes DEF Least
<1>. DEFINE m == Len(typed) - Len(ttyIn)
            l == Len(typed)
<1>6. Conveys(y, m + tr, got', sga)
  BY <1>1, <1>2, <1>5, IterConveys
<1>7. /\ typed' = typed /\ raw' = raw /\ sga' = y.sga /\ ttyR' = y.ttyR /\ line' = y.line
      /\ sockW' = y.sockW
  BY <1>2 DEF OnlineRelays, Becomes
<1>8. Len(ttyIn') = Len(ttyIn) - tr /\ ttyIn' = SubSeq(typed, m + tr + 1, l)
  <2>1. Len(ttyIn') = Len(ttyIn) - tr
    BY <1>1, <1>5, Cut DEF IInv
  <2>2. /\ typed \in Seq(Typeable) /\ m \in Nat /\ l \in Nat /\ m <= l /\ l <= l
        /\ l = Len(typed) /\ tr \in 0..(l - m) /\ Len(ttyIn) = l - m
        /\ ttyIn = SubSeq(typed, m + 1, l)
    BY <1>4, <1>5 DEF IInv, SendInv
  <2>. HIDE DEF m, l
  <2>3. l <= Len(typed)
    BY <2>2
  <2>4. SubSeq(SubSeq(typed, m + 1, l), tr + 1, l - m) = SubSeq(typed, m + tr + 1, l)
    BY <2>2, <2>3, PartOfPart
  <2>. QED BY <2>1, <2>2, <2>4, <1>1
<1>9. /\ Len(typed') - Len(ttyIn') = m + tr /\ Len(ttyIn') <= Len(typed')
      /\ ttyIn' = SubSeq(typed', Len(typed') - Len(ttyIn') + 1, Len(typed'))
  <2>1. Len(typed') - Len(ttyIn') = m + tr /\ Len(ttyIn') <= Len(typed')
    BY <1>4, <1>5, <1>7, <1>8 DEF SendInv
  <2>. QED BY <2>1, <1>7, <1>8
<1>10. sockIn' \in Seq(Calm)
  BY <1>1, <1>5, Cut DEF SendInv
<1>11. Mode' = modeOf(y)
  BY <1>7 DEF Mode, modeOf
<1>. HIDE DEF m, l
<1>12. Flat'
  <2>. DEFINE n == m + tr
  <2>1. /\ n \in Nat /\ n <= Len(typed) /\ Len(ttyR') <= n
        /\ ttyR' = SubSeq(typed', n - Len(ttyR') + 1, n)
        /\ Payload(got' \o sockW'.q) = Sent(Mode', SubSeq(typed', 1, n - Len(ttyR'))).out
        /\ line' = Sent(Mode', SubSeq(typed', 1, n - Len(ttyR'))).line
    BY <1>6, <1>7, <1>11 DEF Conveys, Holds, Says
  <2>2. Len(typed') - Len(ttyIn') = n /\ Len(typed') = Len(typed)
    BY <1>7, <1>9
  <2>. HIDE DEF n
  <2>. QED BY <2>1, <2>2, <1>9, <1>10 DEF Flat, Gone
<1>. QED BY <1>12, FlatIs, PTL

LEMMA SendTypes ==
  ASSUME IInv, SendInv, NEW c \in Typeable, DteTypes(c)
  PROVE  SendInv'
<1>. DEFINE m == Len(typed) - Len(ttyIn)
            k == m - Len(ttyR)
            l == Len(typed)
<1>1. /\ typed' = Append(typed, c) /\ ttyIn' = Append(ttyIn, c)
      /\ ttyR' = ttyR /\ line' = line /\ sockW' = sockW /\ got' = got /\ sockIn' = sockIn
      /\ Mode' = Mode
  BY DEF DteTypes, Mode
<1>2. Flat /\ typed \in Seq(Typeable) /\ ttyIn \in Seq(Typeable) /\ ttyR \in Seq(Typeable)
  BY FlatIs DEF IInv
<1>3. Len(ttyIn) \in Nat /\ l \in Nat /\ Len(ttyR) \in Nat /\ k \in Nat /\ m \in Nat /\ k <= m
      /\ m <= l
  <2>1. Len(ttyIn) \in Nat /\ l \in Nat /\ Len(ttyR) \in Nat
    BY <1>2, EmptyLen
  <2>2. m \in Nat /\ m <= l /\ Len(ttyR) <= m
    BY <1>2 DEF Flat
  <2>3. k \in Nat /\ k <= m
    BY <2>1, <2>2
  <2>. QED BY <2>1, <2>2, <2>3
<1>4. Len(typed') = l + 1 /\ Len(ttyIn') = Len(ttyIn) + 1
  BY <1>1, <1>2, AppendProperties
<1>5. Len(typed') - Len(ttyIn') = m
  BY <1>3, <1>4
<1>6. /\ ttyIn = SubSeq(typed, m + 1, l) /\ ttyR = SubSeq(typed, k + 1, m)
      /\ Payload(got \o sockW.q) = Sent(Mode, SubSeq(typed, 1, k)).out
      /\ line = Sent(Mode, SubSeq(typed, 1, k)).line
  BY <1>2 DEF Flat, Gone
<1>. HIDE DEF m, k
<1>7. SubSeq(typed', m + 1, l + 1) = Append(SubSeq(typed, m + 1, l), c)
  <2>1. m <= Len(typed) /\ m <= m
    BY <1>3
  <2>2. SubSeq(Append(typed, c), m + 1, Len(typed) + 1) = Append(SubSeq(typed, m + 1, Len(typed)), c)
    BY <1>2, <1>3, <2>1, PartGrows
  <2>. QED BY <1>1, <2>2
<1>8. SubSeq(typed', k + 1, m) = SubSeq(typed, k + 1, m)
  <2>1. m <= Len(typed)
    BY <1>3
  <2>. HIDE DEF l
  <2>2. SubSeq(Append(typed, c), k + 1, m) = SubSeq(typed, k + 1, m)
    BY <1>2, <1>3, <2>1, PartGrows
  <2>. QED BY <1>1, <2>2
<1>9. SubSeq(typed', 1, k) = SubSeq(typed, 1, k)
  <2>1. 0 \in Nat /\ 0 <= k /\ k <= Len(typed) /\ 0 + 1 = 1
    BY <1>3
  <2>2. SubSeq(typed', 0 + 1, k) = SubSeq(typed, 0 + 1, k)
    BY <2>1, <1>1, <1>2, <1>3, PartGrows
  <2>. QED BY <2>1, <2>2
<1>10. m - Len(ttyR') = k /\ Len(ttyR') <= m
  BY <1>1, <1>3 DEF k
<1>11. Flat'
  <2>1. Len(typed') - Len(ttyIn') = m /\ Len(typed') = l + 1 /\ m <= l + 1
        /\ Len(ttyIn') <= l + 1
    BY <1>3, <1>4, <1>5 DEF m
  <2>. HIDE DEF l
  <2>2. ttyIn' = SubSeq(typed', m + 1, l + 1)
    BY <1>1, <1>6, <1>7
  <2>3. ttyR' = SubSeq(typed', k + 1, m)
    BY <1>1, <1>6, <1>8
  <2>4. Gone' = Sent(Mode, SubSeq(typed, 1, k))
    BY <1>1, <1>9, <1>10, <2>1 DEF Gone
  <2>5. sockIn' \in Seq(Calm)
    BY <1>1, <1>2 DEF Flat
  <2>. QED BY <1>1, <1>3, <1>6, <1>10, <2>1, <2>2, <2>3, <2>4, <2>5 DEF Flat
<1>. QED BY <1>11, FlatIs, PTL

LEMMA SendWrites ==
  ASSUME IInv, SendInv, m2k_write_from_app
  PROVE  SendInv'
<1>. DEFINE m == Len(typed) - Len(ttyIn)
            k == m - Len(ttyR)
            l == Len(typed)
            n == Least(Len(ttyIn), BufR - Len(ttyR))
            t == SubSeq(ttyIn, 1, n)
<1>1. /\ ttyR' = ttyR \o t /\ ttyIn' = SubSeq(ttyIn, n + 1, Len(ttyIn))
      /\ typed' = typed /\ line' = line /\ sockW' = sockW /\ got' = got /\ sockIn' = sockIn
      /\ Mode' = Mode
  BY DEF m2k_write_from_app, Mode
<1>2. Flat /\ typed \in Seq(Typeable) /\ ttyIn \in Seq(Typeable) /\ ttyR \in Seq(Typeable)
  BY FlatIs DEF IInv
<1>3. Len(ttyIn) \in Nat /\ l \in Nat /\ Len(ttyR) \in Nat /\ k \in Nat /\ m \in Nat /\ k <= m
      /\ m <= l /\ l - m = Len(ttyIn) /\ Len(ttyR) = m - k
  <2>1. Len(ttyIn) \in Nat /\ l \in Nat /\ Len(ttyR) \in Nat
    BY <1>2, EmptyLen
  <2>2. m \in Nat /\ m <= l /\ Len(ttyR) <= m
    BY <1>2 DEF Flat
  <2>3. k \in Nat /\ k <= m /\ l - m = Len(ttyIn) /\ Len(ttyR) = m - k
    BY <2>1, <2>2
  <2>. QED BY <2>1, <2>2, <2>3
<1>4. n \in Nat /\ n \in 0..Len(ttyIn)
  BY <1>3, Sizes DEF m2k_write_from_app, Least
<1>5. /\ ttyIn = SubSeq(typed, m + 1, l) /\ ttyR = SubSeq(typed, k + 1, m)
      /\ Payload(got \o sockW.q) = Sent(Mode, SubSeq(typed, 1, k)).out
      /\ line = Sent(Mode, SubSeq(typed, 1, k)).line
  BY <1>2 DEF Flat, Gone
<1>6. l = Len(typed)
  OBVIOUS
<1>. HIDE DEF m, k, l, n
<1>7. /\ t = SubSeq(typed, m + 1, m + n) /\ ttyIn' = SubSeq(typed, m + n + 1, l)
      /\ Len(t) = n /\ Len(ttyIn') = Len(ttyIn) - n
  <2>1. l <= Len(typed) /\ n \in 0..(l - m)
    BY <1>3, <1>4, <1>6
  <2>2. /\ SubSeq(SubSeq(typed, m + 1, l), 1, n) = SubSeq(typed, m + 1, m + n)
        /\ SubSeq(SubSeq(typed, m + 1, l), n + 1, l - m) = SubSeq(typed, m + n + 1, l)
    BY <1>2, <1>3, <2>1, PartOfPart
  <2>3. Len(t) = n /\ Len(ttyIn') = Len(ttyIn) - n
    BY <1>1, <1>2, <1>4, Cut
  <2>. QED BY <1>1, <1>3, <1>5, <2>2, <2>3
<1>8. t \in Seq(Typeable)
  BY <1>2, <1>4, Cut
<1>. HIDE DEF t
<1>9. ttyR' = SubSeq(typed, k + 1, m + n)
  <2>1. m + n \in Nat /\ m <= m + n /\ m + n <= Len(typed)
    BY <1>3, <1>4, <1>6
  <2>2. SubSeq(typed, k + 1, m) \o SubSeq(typed, m + 1, m + n) = SubSeq(typed, k + 1, m + n)
    <3>. DEFINE b == m + n
    <3>1. b \in Nat /\ m <= b /\ b <= Len(typed)
      BY <2>1
    <3>. HIDE DEF b
    <3>2. SubSeq(typed, k + 1, m) \o SubSeq(typed, m + 1, b) = SubSeq(typed, k + 1, b)
      BY <1>2, <1>3, <3>1, PartJoin
    <3>. QED BY <3>2 DEF b
  <2>. QED BY <1>1, <1>5, <1>7, <2>2
<1>10. Len(ttyR') = Len(ttyR) + n
  BY <1>1, <1>2, <1>7, <1>8, ConcatProperties
<1>11. /\ Len(typed') - Len(ttyIn') = m + n /\ m + n - Len(ttyR') = k
       /\ m + n <= Len(typed') /\ m + n \in Nat /\ Len(ttyR') <= m + n
       /\ Len(ttyIn') <= Len(typed') /\ Len(typed') = l
  <2>1. Len(typed') = l /\ Len(ttyIn') = l - m - n /\ Len(ttyR') = m - k + n
    BY <1>1, <1>3, <1>6, <1>7, <1>10
  <2>2. n <= l - m
    BY <1>3, <1>4
  <2>. QED BY <2>1, <2>2, <1>3, <1>4
<1>12. Flat'
  <2>. DEFINE b == m + n
  <2>1. /\ Len(typed') - Len(ttyIn') = b /\ b - Len(ttyR') = k
        /\ b <= Len(typed') /\ b \in Nat /\ Len(ttyR') <= b
        /\ Len(ttyIn') <= Len(typed') /\ Len(typed') = l
        /\ ttyIn' = SubSeq(typed', b + 1, l) /\ ttyR' = SubSeq(typed', k + 1, b)
    <3>1. /\ Len(typed') - Len(ttyIn') = b /\ b - Len(ttyR') = k
          /\ b <= Len(typed') /\ b \in Nat /\ Len(ttyR') <= b
          /\ Len(ttyIn') <= Len(typed') /\ Len(typed') = l
      <4>1. b = m + n
        OBVIOUS
      <4>. HIDE DEF b
      <4>2. b - Len(ttyR') = k
        BY <4>1, <1>11, <1>3, <1>4, <1>10
      <4>3. b \in Nat /\ b <= Len(typed') /\ Len(ttyR') <= b
        BY <4>1, <1>11
      <4>. QED BY <4>1, <4>2, <4>3, <1>11
    <3>2. ttyIn' = SubSeq(typed, b + 1, l) /\ ttyR' = SubSeq(typed, k + 1, b)
      BY <1>7, <1>9
    <3>. HIDE DEF b
    <3>. QED BY <3>1, <3>2, <1>1
  <2>. HIDE DEF b
  <2>2. Gone' = Sent(Mode, SubSeq(typed, 1, k))
    BY <1>1, <2>1 DEF Gone
  <2>3. sockIn' \in Seq(Calm)
    BY <1>1, <1>2 DEF Flat
  <2>. QED BY <1>1, <1>5, <2>1, <2>2, <2>3 DEF Flat
<1>. QED BY <1>12, FlatIs, PTL

LEMMA SendStep ==
  ASSUME "SGA" \notin Opts, IInv, SendInv, [Next]_vars
  PROVE  SendInv'
<1>1. Flat
  BY FlatIs
<1>2. ASSUME UNCHANGED <<typed, ttyIn, ttyR, line, sockW, got, sga, raw>>, sockIn' \in Seq(Calm)
      PROVE  SendInv'
  <2>1. Flat'
    BY <1>1, <1>2 DEF Flat, Gone, Mode
  <2>. QED BY <2>1, FlatIs, PTL
<1>3. ASSUME sockIn' = sockIn PROVE sockIn' \in Seq(Calm)
  BY <1>1, <1>3 DEF Flat
<1>4. CASE OnlineRelays
  BY <1>4, SendRelays
<1>5. CASE OnlineIdles
  <2>1. PICK y \in onlineIter(0, 0, 0, 0) : Becomes(y)
    BY <1>5 DEF OnlineIdles
  <2>2. sockW.q \in Seq(Byte) /\ got \in Seq(Byte) /\ Len(typed) \in Nat /\ Len(ttyIn) \in Nat
    <3>1. typed \in Seq(Typeable) /\ ttyIn \in Seq(Typeable) /\ got \in Seq(Byte)
      BY DEF IInv
    <3>2. sockW.q \in Seq(Byte)
      BY DEF IInv, Now, Good, Path, Buf, Buffer
    <3>. QED BY <3>1, <3>2, EmptyLen
  <2>3. 0 \in 0..Len(sockW.q) /\ 0 \in 0..Len(sockIn) /\ 0 \in 0..Len(ttyIn) /\ 0 \in Nat
    BY <2>2, EmptyLen DEF IInv
  <2>. DEFINE m == Len(typed) - Len(ttyIn)
  <2>4. Conveys(y, m + 0, got \o SubSeq(sockW.q, 1, 0), sga)
    <3>1. ~ (0 > 0)
      OBVIOUS
    <3>. QED BY <2>1, <2>3, <3>1, IterConveys
  <2>5. got \o SubSeq(sockW.q, 1, 0) = got /\ m + 0 = m
    <3>1. SubSeq(sockW.q, 1, 0) = <<>>
      BY <2>2, <2>3, Cut
    <3>. QED BY <2>2, <3>1, ConcatEmptySeq
  <2>6. Conveys(y, m, got, sga)
    BY <2>4, <2>5
  <2>7. /\ UNCHANGED <<typed, ttyIn, got, raw, sockIn>>
        /\ sga' = y.sga /\ ttyR' = y.ttyR /\ line' = y.line /\ sockW' = y.sockW
    BY <1>5, <2>1 DEF OnlineIdles, Becomes
  <2>8. Mode' = modeOf(y)
    BY <2>7 DEF Mode, modeOf
  <2>9. Flat'
    BY <1>1, <2>6, <2>7, <2>8 DEF Flat, Gone, Conveys, Holds, Says
  <2>. QED BY <2>9, FlatIs, PTL
<1>6. CASE CallEnds
  BY <1>2, <1>3, <1>6 DEF CallEnds
<1>7. CASE UNCHANGED vars
  BY <1>2, <1>3, <1>7 DEF vars
<1>8. ASSUME NEW c \in Typeable, DteTypes(c) PROVE SendInv'
  BY <1>8, SendTypes
<1>9. CASE m2k_write_from_app
  BY <1>9, SendWrites
<1>10. ASSUME NEW max \in 1..Hard, m2k_read_to_app(max) PROVE SendInv'
  BY <1>2, <1>3, <1>10 DEF m2k_read_to_app
<1>11. CASE PeerSends
  <2>1. PICK u \in Units : sockIn' = sockIn \o u.bytes
    BY <1>11 DEF PeerSends
  <2>2. sockIn' \in Seq(Calm)
    BY <1>1, <2>1, CalmUnits, ConcatProperties DEF Flat
  <2>. QED BY <1>2, <1>11, <2>2 DEF PeerSends
<1>12. CASE PeerResets
  BY <1>2, <1>3, <1>12 DEF PeerResets
<1>. QED
  BY <1>4, <1>5, <1>6, <1>7, <1>8, <1>9, <1>10, <1>11, <1>12 DEF Next, Ended

LEMMA SendInit == Init => SendInv
<1>. SUFFICES ASSUME Init PROVE SendInv
  OBVIOUS
<1>. DEFINE z == <<>>
<1>1. /\ typed = z /\ ttyIn = z /\ ttyR = z /\ line = z /\ got = z /\ sockIn = z
  BY Zenon DEF Init
<1>2. /\ z \in Seq(Calm) /\ z \in Seq(Byte) /\ Len(z) = 0 /\ z \o z = z
      /\ SubSeq(z, 1, 0) = z
  BY EmptySeq, ConcatEmptySeq, SubSeqEmpty
<1>3. Mode \in Modes
  BY DEF Mode, Modes
<1>4. Payload(z) = z /\ Sent(Mode, z) = NoDraft
  BY <1>3, PayloadAppend, SentAppend
<1>5. NoDraft.out = z /\ NoDraft.line = z
  BY DEF NoDraft
<1>. HIDE DEF z
<1>6. Gone = NoDraft
  <2>1. Len(typed) - Len(ttyIn) - Len(ttyR) = 0
    BY <1>1, <1>2
  <2>. QED BY <2>1, <1>1, <1>2, <1>4 DEF Gone
<1>7. Payload(got \o sockW.q) = z
  <2>1. PICK n \in Nat : sockW = put(Empty, own("opt", n))
    BY Opening
  <2>2. Payload(z \o sockW.q) = Payload(z \o Empty.q)
    BY <2>1, <1>2, OwnIs, EmptyIs, PutReply
  <2>. QED BY <2>2, <1>1, <1>2, <1>4, EmptyIs DEF z
<1>8. Flat
  BY <1>1, <1>2, <1>5, <1>6, <1>7 DEF Flat
<1>. QED BY <1>8, FlatIs

\* Nothing that the DTE types in a call is lost, doubled, or out of order on its
\* way to the peer, whatever the sizes of the buffers, the length of the stream,
\* the pace of the peer and the replies in between, as long as the peer does not
\* negotiate SGA: flow control (putSock1() and the loops of onlineIter()) is enough.
THEOREM TypedGoesOutHolds ==
  ASSUME "SGA" \notin Opts
  PROVE  Spec => []TypedGoesOut
<1>1. IInv /\ SendInv /\ [Next]_vars => SendInv'
  BY SendStep
<1>2. SendInv => TypedGoesOut
  BY FlatIs DEF Flat, Gone, TypedGoesOut, Taken
<1>. QED BY <1>1, <1>2, SendInit, Invariance, PTL DEF Spec

-----------------------------------------------------------------------------
(* What the peer says is shown, in character mode. *)

(* What sockReadLoop() makes of a byte: `raw' is r, srl.state is s. *)
isData(r, s, c) == r \/ (s = "NORM" /\ c # "IAC") \/ (s = "IAC" /\ c = "IAC")

nextSrl(r, s, c) ==
    IF r THEN s ELSE
    CASE s = "NORM" -> IF c = "IAC" THEN "IAC" ELSE "NORM"
      [] s = "IAC"  -> IF c = "WILL" THEN "CMD" ELSE IF c = "SB" THEN "SB" ELSE "NORM"
      [] s = "CMD"  -> "NORM"
      [] s = "SB"   -> "SBC"
      [] s = "SBC"  -> IF c = "SEND" THEN "SBS" ELSE "NORM"
      [] s = "SBS"  -> IF c = "IAC" THEN "SBI" ELSE "NORM"
      [] s = "SBI"  -> "NORM"

Views == [srl : Srl, out : Seq(Byte)]

view(s, o) == [srl |-> s, out |-> o]

parse(r) ==
    [p \in Views \X Byte |->
        view(nextSrl(r, p[1].srl, p[2]),
             IF isData(r, p[1].srl, p[2]) THEN Append(p[1].out, p[2]) ELSE p[1].out)]

\* What is known when the bytes s have been read as well.
Read(r, p, s) == FoldOf(s, Views, p, parse(r))

LEMMA ViewIs ==
  ASSUME NEW s \in Srl, NEW o \in Seq(Byte)
  PROVE  view(s, o) \in Views /\ view(s, o).srl = s /\ view(s, o).out = o
BY DEF view, Views

LEMMA NextSrlType ==
  ASSUME NEW r \in BOOLEAN, NEW s \in Srl, NEW c
  PROVE  nextSrl(r, s, c) \in Srl
BY DEF nextSrl, Srl

LEMMA ParseIs ==
  ASSUME NEW r \in BOOLEAN, NEW s \in Srl, NEW o \in Seq(Byte), NEW c \in Byte
  PROVE  parse(r)[<<view(s, o), c>>] =
           view(nextSrl(r, s, c), IF isData(r, s, c) THEN Append(o, c) ELSE o)
<1>. DEFINE p == view(s, o)
<1>1. p \in Views /\ p.srl = s /\ p.out = o
  BY ViewIs
<1>. HIDE DEF p
<1>. DEFINE f(a, b) == view(nextSrl(r, a.srl, b),
                            IF isData(r, a.srl, b) THEN Append(a.out, b) ELSE a.out)
<1>2. parse(r) = [q \in Views \X Byte |-> f(q[1], q[2])]
  BY DEF parse
<1>3. f(p, c) = view(nextSrl(r, s, c), IF isData(r, s, c) THEN Append(o, c) ELSE o)
  BY <1>1
<1>. HIDE DEF f
<1>4. parse(r)[<<p, c>>] = f(p, c)
  BY <1>1, <1>2
<1>. QED BY <1>3, <1>4 DEF p

LEMMA ParseType ==
  ASSUME NEW r \in BOOLEAN
  PROVE  parse(r) \in Steps(Views, Byte)
<1>1. ASSUME NEW p \in Views, NEW c \in Byte
      PROVE  view(nextSrl(r, p.srl, c), IF isData(r, p.srl, c) THEN Append(p.out, c) ELSE p.out)
               \in Views
  <2>1. p.srl \in Srl /\ p.out \in Seq(Byte)
    BY DEF Views
  <2>2. nextSrl(r, p.srl, c) \in Srl
    BY <2>1, NextSrlType
  <2>3. (IF isData(r, p.srl, c) THEN Append(p.out, c) ELSE p.out) \in Seq(Byte)
    BY <2>1, AppendProperties
  <2>. QED BY <2>2, <2>3, ViewIs
<1>. QED BY <1>1 DEF parse, Steps

LEMMA ReadNone ==
  ASSUME NEW r \in BOOLEAN, NEW v \in Views
  PROVE  Read(r, v, <<>>) = v
<1>. DEFINE z == <<>>
<1>1. parse(r) \in Steps(Views, Byte) /\ Len(z) \in {0} /\ z \in Seq(Byte)
  BY ParseType, EmptySeq
<1>. HIDE DEF z
<1>. QED BY <1>1, FoldNone DEF Read, z

LEMMA ReadType ==
  ASSUME NEW r \in BOOLEAN, NEW v \in Views, NEW t \in Seq(Byte)
  PROVE  Read(r, v, t) \in Views
BY ParseType, FoldType DEF Read

LEMMA ReadNext ==
  ASSUME NEW r \in BOOLEAN, NEW v \in Views, NEW t \in Seq(Byte), NEW c \in Byte
  PROVE  Read(r, v, Append(t, c)) = parse(r)[<<Read(r, v, t), c>>]
BY ParseType, FoldAppend DEF Read

LEMMA ReadFirst ==
  ASSUME NEW r \in BOOLEAN, NEW s \in Srl, NEW o \in Seq(Byte), NEW t \in Seq(Byte),
         NEW c \in Byte
  PROVE  Read(r, view(s, o), <<c>> \o t)
           = Read(r, view(nextSrl(r, s, c), IF isData(r, s, c) THEN Append(o, c) ELSE o), t)
<1>. DEFINE v == view(s, o)
            h == parse(r)
            w == view(nextSrl(r, s, c), IF isData(r, s, c) THEN Append(o, c) ELSE o)
<1>1. v \in Views /\ h \in Steps(Views, Byte) /\ h[<<v, c>>] = w
  BY ViewIs, ParseType, ParseIs
<1>. HIDE DEF v, h, w
<1>2. FoldOf(<<c>> \o t, Views, v, h) = FoldOf(t, Views, h[<<v, c>>], h)
  BY <1>1, FoldFirst
<1>3. FoldOf(<<c>> \o t, Views, v, h) = FoldOf(t, Views, w, h)
  BY <1>1, <1>2
<1>. QED BY <1>3 DEF Read, v, h, w

LEMMA ReadJoin ==
  ASSUME NEW r \in BOOLEAN, NEW v \in Views, NEW s \in Seq(Byte), NEW t \in Seq(Byte)
  PROVE  Read(r, v, s \o t) = Read(r, Read(r, v, s), t)
<1>1. parse(r) \in Steps(Views, Byte)
  BY ParseType
<1>. QED BY <1>1, FoldJoin DEF Read

\* What is shown is never taken back.
LEMMA ReadAdds ==
  ASSUME NEW r \in BOOLEAN, NEW s \in Srl, NEW o \in Seq(Byte), NEW t \in Seq(Byte)
  PROVE  \E e \in Seq(Byte) : Read(r, view(s, o), t).out = o \o e
<1>. DEFINE v == view(s, o)
            P == {u \in Seq(Byte) : \E e \in Seq(Byte) : Read(r, v, u).out = o \o e}
            z == <<>>
<1>1. z \in P
  <2>1. z \in Seq(Byte) /\ o \o z = o /\ Read(r, v, z).out = o
    BY ReadNone, ViewIs, EmptySeq, ConcatEmptySeq
  <2>. HIDE DEF z, v
  <2>. QED BY <2>1
<1>2. ASSUME NEW u \in Seq(Byte), NEW c \in Byte, u \in P PROVE Append(u, c) \in P
  <2>. DEFINE w == Read(r, v, u)
  <2>1. PICK e \in Seq(Byte) : w.out = o \o e
    BY <1>2
  <2>0. v \in Views
    BY ViewIs
  <2>2. /\ w \in Views /\ Read(r, v, Append(u, c)) = parse(r)[<<w, c>>]
        /\ Append(u, c) \in Seq(Byte)
    <3>. HIDE DEF v
    <3>. QED BY <2>0, ReadType, ReadNext, AppendProperties
  <2>. HIDE DEF v, w
  <2>3. w.srl \in Srl /\ w.out \in Seq(Byte) /\ w = view(w.srl, w.out)
    BY <2>2 DEF Views, view
  <2>4. parse(r)[<<w, c>>] =
          view(nextSrl(r, w.srl, c), IF isData(r, w.srl, c) THEN Append(w.out, c) ELSE w.out)
    BY <2>3, ParseIs
  <2>5. /\ Append(e, c) \in Seq(Byte) /\ Append(w.out, c) \in Seq(Byte)
        /\ Append(w.out, c) = o \o Append(e, c)
    <3>1. Append(e, c) = e \o <<c>> /\ <<c>> \in Seq(Byte) /\ Append(e, c) \in Seq(Byte)
      BY AppendIsConcat, AppendProperties, Bytes
    <3>. DEFINE x == w.out
    <3>2. x \in Seq(Byte) /\ x = o \o e
      BY <2>1, <2>3
    <3>. HIDE DEF x
    <3>3. Append(x, c) = x \o <<c>> /\ Append(x, c) \in Seq(Byte)
      BY <3>2, AppendIsConcat, AppendProperties
    <3>4. (o \o e) \o <<c>> = o \o (e \o <<c>>)
      BY <3>1, ConcatAssociative
    <3>. QED BY <3>1, <3>2, <3>3, <3>4 DEF x
  <2>6. nextSrl(r, w.srl, c) \in Srl
    BY <2>3, NextSrlType
  <2>7. Read(r, v, Append(u, c)).out = IF isData(r, w.srl, c) THEN Append(w.out, c) ELSE w.out
    <3>. DEFINE e1 == IF isData(r, w.srl, c) THEN Append(w.out, c) ELSE w.out
                s1 == nextSrl(r, w.srl, c)
    <3>1. e1 \in Seq(Byte) /\ s1 \in Srl
      BY <2>3, <2>5, <2>6
    <3>2. Read(r, v, Append(u, c)) = view(s1, e1)
      BY <2>2, <2>4
    <3>. HIDE DEF e1, s1
    <3>3. view(s1, e1).out = e1
      BY <3>1, ViewIs
    <3>. QED BY <3>2, <3>3 DEF e1
  <2>8. \E d \in Seq(Byte) : Read(r, v, Append(u, c)).out = o \o d
    BY <2>1, <2>5, <2>7
  <2>. QED BY <2>2, <2>8
<1>. HIDE DEF P
<1>3. Seq(Byte) \subseteq P
  BY <1>1, <1>2, SeqInduct DEF z
<1>. QED BY <1>3 DEF P

\* The peer sends whole commands, and its data between them.
LEMMA ReadUnit ==
  ASSUME "SGA" \notin Opts, NEW u \in Units, NEW o \in Seq(Byte), raw \in BOOLEAN
  PROVE  /\ u.data \in Seq(Byte)
         /\ Read(raw, view("NORM", o), u.bytes) = view("NORM", o \o u.data)
<1>. DEFINE z == <<>>
<1>1. z \in Seq(Byte) /\ o \o z = o
  BY EmptySeq, ConcatEmptySeq
<1>2. /\ \A s \in {"NORM", "IAC", "CMD", "SB", "SBC", "SBS", "SBI"} : s \in Srl
      /\ \A c \in {"IAC", "WILL", "SB", "TTYPE", "SEND", "SE"} : c \in Byte
      /\ Data \subseteq Byte /\ Opts \subseteq Byte /\ "IAC" \notin Data
  BY ModeAssumption, DataAssumption DEF Srl, Byte, Special
<1>. DEFINE R(s, t) == Read(raw, view(s, o), t)
<1>3. ASSUME NEW s \in Srl, NEW c \in Byte, NEW t \in Seq(Byte), NEW n \in Srl,
             ~isData(raw, s, c), nextSrl(raw, s, c) = n
      PROVE  R(s, <<c>> \o t) = R(n, t)
  <2>1. R(s, <<c>> \o t)
          = Read(raw, view(nextSrl(raw, s, c), IF isData(raw, s, c) THEN Append(o, c) ELSE o), t)
    BY ReadFirst
  <2>. QED BY <1>3, <2>1
<1>4. ASSUME NEW s \in Srl, NEW c \in Byte, isData(raw, s, c), nextSrl(raw, s, c) = "NORM"
      PROVE  R(s, <<c>>) = view("NORM", o \o <<c>>)
  <2>1. <<c>> \o z = <<c>> /\ <<c>> \in Seq(Byte)
    BY Bytes, ConcatEmptySeq
  <2>2. Append(o, c) \in Seq(Byte) /\ Append(o, c) = o \o <<c>>
    BY AppendProperties, AppendIsConcat
  <2>. HIDE DEF z
  <2>3. Read(raw, view(s, o), <<c>> \o z) = Read(raw, view("NORM", Append(o, c)), z)
    <3>1. Read(raw, view(s, o), <<c>> \o z)
            = Read(raw, view(nextSrl(raw, s, c), IF isData(raw, s, c) THEN Append(o, c) ELSE o), z)
      BY <1>1, ReadFirst
    <3>. QED BY <1>4, <3>1
  <2>4. Read(raw, view("NORM", Append(o, c)), z) = view("NORM", Append(o, c))
    <3>. DEFINE n == Append(o, c)
    <3>1. n \in Seq(Byte) /\ "NORM" \in Srl
      BY <1>2, <2>2
    <3>. HIDE DEF n
    <3>2. Read(raw, view("NORM", n), z) = view("NORM", n)
      BY <3>1, ReadNone, ViewIs DEF z
    <3>. QED BY <3>2 DEF n
  <2>. QED BY <2>1, <2>2, <2>3, <2>4
<1>5. \A s \in Srl : R(s, z) = view(s, o)
  BY ReadNone, ViewIs
<1>6. ASSUME NEW c \in Data \cup {"IAC"}, u.bytes = <<c>>, u.data = <<c>>, raw \/ c # "IAC"
      PROVE  u.data \in Seq(Byte) /\ R("NORM", u.bytes) = view("NORM", o \o u.data)
  <2>1. isData(raw, "NORM", c) /\ nextSrl(raw, "NORM", c) = "NORM" /\ c \in Byte
    BY <1>2, <1>6 DEF isData, nextSrl
  <2>. HIDE DEF R
  <2>. QED BY <1>2, <1>4, <1>6, <2>1, Bytes
<1>7. CASE ~raw /\ u.bytes = <<"IAC", "IAC">> /\ u.data = <<"IAC">>
  <2>1. /\ ~isData(raw, "NORM", "IAC") /\ nextSrl(raw, "NORM", "IAC") = "IAC"
        /\ isData(raw, "IAC", "IAC") /\ nextSrl(raw, "IAC", "IAC") = "NORM"
    BY <1>7 DEF isData, nextSrl
  <2>2. <<"IAC", "IAC">> = <<"IAC">> \o <<"IAC">> /\ <<"IAC">> \in Seq(Byte)
    BY <1>2
  <2>. HIDE DEF R
  <2>3. R("NORM", <<"IAC">> \o <<"IAC">>) = R("IAC", <<"IAC">>)
    <3>. DEFINE t == <<"IAC">>
    <3>1. t \in Seq(Byte)
      BY <2>2
    <3>. HIDE DEF t
    <3>2. R("NORM", <<"IAC">> \o t) = R("IAC", t)
      BY <1>2, <1>3, <2>1, <3>1
    <3>. QED BY <3>2 DEF t
  <2>4. R("IAC", <<"IAC">>) = view("NORM", o \o <<"IAC">>)
    BY <1>2, <1>4, <2>1
  <2>. QED BY <1>7, <2>2, <2>3, <2>4 DEF R
<1>8. ASSUME NEW d \in Opts, ~raw, u.bytes = <<"IAC", "WILL", d>>, u.data = z
      PROVE  u.data \in Seq(Byte) /\ R("NORM", u.bytes) = view("NORM", o \o u.data)
  <2>1. /\ ~isData(raw, "NORM", "IAC") /\ nextSrl(raw, "NORM", "IAC") = "IAC"
        /\ ~isData(raw, "IAC", "WILL") /\ nextSrl(raw, "IAC", "WILL") = "CMD"
        /\ ~isData(raw, "CMD", d) /\ nextSrl(raw, "CMD", d) = "NORM"
    BY <1>8 DEF isData, nextSrl
  <2>2. d \in Byte
    BY <1>2
  <2>. DEFINE t1 == <<d>>
              t2 == <<"WILL", d>>
  <2>7. t1 \in Seq(Byte) /\ t2 \in Seq(Byte)
    BY <1>2, <2>2
  <2>3. u.bytes = <<"IAC">> \o t2 /\ t2 = <<"WILL">> \o t1 /\ t1 = <<d>> \o z
    BY <1>2, <1>8, <2>2
  <2>. HIDE DEF t1, t2, z, R
  <2>4. R("NORM", <<"IAC">> \o t2) = R("IAC", t2)
    BY <1>2, <1>3, <2>1, <2>7
  <2>5. R("IAC", <<"WILL">> \o t1) = R("CMD", t1)
    BY <1>2, <1>3, <2>1, <2>7
  <2>6. R("CMD", <<d>> \o z) = R("NORM", z)
    BY <1>1, <1>2, <1>3, <2>1, <2>2
  <2>. QED BY <1>1, <1>2, <1>5, <1>8, <2>3, <2>4, <2>5, <2>6
<1>9. CASE ~raw /\ u.bytes = <<"IAC", "SB", "TTYPE", "SEND", "IAC", "SE">> /\ u.data = z
  <2>1. /\ ~isData(raw, "NORM", "IAC") /\ nextSrl(raw, "NORM", "IAC") = "IAC"
        /\ ~isData(raw, "IAC", "SB") /\ nextSrl(raw, "IAC", "SB") = "SB"
        /\ ~isData(raw, "SB", "TTYPE") /\ nextSrl(raw, "SB", "TTYPE") = "SBC"
        /\ ~isData(raw, "SBC", "SEND") /\ nextSrl(raw, "SBC", "SEND") = "SBS"
        /\ ~isData(raw, "SBS", "IAC") /\ nextSrl(raw, "SBS", "IAC") = "SBI"
        /\ ~isData(raw, "SBI", "SE") /\ nextSrl(raw, "SBI", "SE") = "NORM"
    BY <1>9 DEF isData, nextSrl
  <2>. DEFINE t1 == <<"SE">>
              t2 == <<"IAC", "SE">>
              t3 == <<"SEND", "IAC", "SE">>
              t4 == <<"TTYPE", "SEND", "IAC", "SE">>
              t5 == <<"SB", "TTYPE", "SEND", "IAC", "SE">>
  <2>2. /\ t1 \in Seq(Byte) /\ t2 \in Seq(Byte) /\ t3 \in Seq(Byte) /\ t4 \in Seq(Byte)
        /\ t5 \in Seq(Byte)
    BY <1>2
  <2>3. t1 = <<"SE">> \o z /\ t2 = <<"IAC">> \o t1 /\ t3 = <<"SEND">> \o t2
    OBVIOUS
  <2>4. t4 = <<"TTYPE">> \o t3 /\ t5 = <<"SB">> \o t4
    OBVIOUS
  <2>5. u.bytes = <<"IAC">> \o t5
    BY <1>9
  <2>. HIDE DEF t1, t2, t3, t4, t5, z, R
  <2>6. R("NORM", <<"IAC">> \o t5) = R("IAC", t5)
    BY <1>2, <1>3, <2>1, <2>2
  <2>7. R("IAC", <<"SB">> \o t4) = R("SB", t4)
    BY <1>2, <1>3, <2>1, <2>2
  <2>8. R("SB", <<"TTYPE">> \o t3) = R("SBC", t3)
    BY <1>2, <1>3, <2>1, <2>2
  <2>9. R("SBC", <<"SEND">> \o t2) = R("SBS", t2)
    BY <1>2, <1>3, <2>1, <2>2
  <2>10. R("SBS", <<"IAC">> \o t1) = R("SBI", t1)
    BY <1>2, <1>3, <2>1, <2>2
  <2>11. R("SBI", <<"SE">> \o z) = R("NORM", z)
    BY <1>1, <1>2, <1>3, <2>1
  <2>. QED BY <1>1, <1>2, <1>5, <1>9, <2>3, <2>4, <2>5, <2>6, <2>7, <2>8, <2>9, <2>10, <2>11
           DEF R
<1>10. CASE raw
  <2>1. PICK c \in Data \cup {"IAC"} : u.bytes = <<c>> /\ u.data = <<c>>
    BY <1>10 DEF Units
  <2>. QED BY <2>1, <1>6, <1>10
<1>11. CASE ~raw
  <2>1. \/ \E c \in Data : u.bytes = <<c>> /\ u.data = <<c>>
        \/ u.bytes = <<"IAC", "IAC">> /\ u.data = <<"IAC">>
        \/ \E d \in Opts : u.bytes = <<"IAC", "WILL", d>> /\ u.data = z
        \/ u.bytes = <<"IAC", "SB", "TTYPE", "SEND", "IAC", "SE">> /\ u.data = z
    BY <1>11 DEF Units
  <2>. HIDE DEF z
  <2>2. \A c \in Data : c # "IAC"
    BY <1>2
  <2>. QED BY <2>1, <2>2, <1>6, <1>7, <1>8, <1>9, <1>11
<1>. QED BY <1>10, <1>11

-----------------------------------------------------------------------------
(* What the loops make of it. *)

LEMMA SockByteIs ==
  ASSUME NEW y \in Good, NEW c \in Byte, c # "SGA", raw \in BOOLEAN, NEW z \in sockByte(y, c)
  PROVE  /\ z.srl = nextSrl(raw, y.srl, c)
         /\ z.ttyW = IF isData(raw, y.srl, c) THEN put(y.ttyW, <<c>>) ELSE y.ttyW
<1>. DEFINE to(s) == [y EXCEPT !.srl = s]
            G(a, s, w) == a \in Good /\ a.srl = s /\ a.ttyW = w
            p == put(y.ttyW, <<c>>)
            o == y.ttyW
<1>1. /\ y.srl \in Srl /\ <<c>> \in Seq(Byte)
      /\ \A s \in {"NORM", "IAC", "CMD", "SB", "SBC", "SBS", "SBI"} : s \in Srl
  BY GoodIs, Bytes DEF Srl
<1>2. ASSUME NEW s \in Srl PROVE G(to(s), s, o)
  BY SrlGood DEF Good, Path
<1>3. ASSUME NEW a, NEW s, G(a, s, o) PROVE G(putTty(a, <<c>>), s, p)
  <2>1. putTty(a, <<c>>) \in Good /\ putTty(a, <<c>>) = [a EXCEPT !.ttyW = put(a.ttyW, <<c>>)]
    BY <1>1, <1>3, PutGood
  <2>. QED BY <1>3, <2>1 DEF Good, Path
<1>4. ASSUME NEW a, NEW s, G(a, s, o), NEW t \in Seq({"opt"}) PROVE G(putSock(a, t), s, o)
  <2>1. putSock(a, t) \in Good /\ putSock(a, t) = [a EXCEPT !.sockW = put(a.sockW, t)]
    BY <1>4, PutGood, ReplyBytes
  <2>. QED BY <1>4, <2>1 DEF Good, Path
<1>5. G(y, y.srl, o)
  OBVIOUS
<1>6. SUFFICES G(z, nextSrl(raw, y.srl, c), IF isData(raw, y.srl, c) THEN p ELSE o)
  OBVIOUS
<1>. HIDE DEF G, p, o
<1>7. CASE raw
  <2>1. z = putTty(y, <<c>>) /\ nextSrl(raw, y.srl, c) = y.srl /\ isData(raw, y.srl, c)
    BY <1>7 DEF sockByte, nextSrl, isData
  <2>. QED BY <2>1, <1>3, <1>5
<1>8. CASE ~raw
  <2>1. CASE y.srl = "NORM" /\ c = "IAC"
    <3>1. z = to("IAC") /\ nextSrl(raw, y.srl, c) = "IAC" /\ ~isData(raw, y.srl, c)
      BY <1>8, <2>1 DEF sockByte, nextSrl, isData
    <3>. QED BY <3>1, <1>1, <1>2
  <2>2. CASE y.srl = "NORM" /\ c # "IAC"
    <3>1. z = putTty(y, <<c>>) /\ nextSrl(raw, y.srl, c) = y.srl /\ isData(raw, y.srl, c)
      BY <1>8, <2>2 DEF sockByte, nextSrl, isData
    <3>. QED BY <3>1, <1>3, <1>5
  <2>3. CASE y.srl = "IAC" /\ c = "IAC"
    <3>1. /\ z = putTty(to("NORM"), <<c>>) /\ nextSrl(raw, y.srl, c) = "NORM"
          /\ isData(raw, y.srl, c)
      BY <1>8, <2>3 DEF sockByte, nextSrl, isData
    <3>2. G(to("NORM"), "NORM", o)
      BY <1>1, <1>2
    <3>. QED BY <3>1, <3>2, <1>3
  <2>4. CASE y.srl = "IAC" /\ c # "IAC"
    <3>1. ~isData(raw, y.srl, c)
      BY <1>8, <2>4 DEF isData
    <3>2. z = to(nextSrl(raw, y.srl, c)) /\ nextSrl(raw, y.srl, c) \in Srl
      BY <1>1, <1>8, <2>4 DEF sockByte, nextSrl
    <3>. QED BY <3>1, <3>2, <1>2
  <2>5. CASE y.srl = "CMD"
    <3>. DEFINE n == to("NORM")
                r == putSock(n, <<"opt", "opt", "opt">>)
    <3>1. z \in telOptHandle(n, c) /\ nextSrl(raw, y.srl, c) = "NORM" /\ ~isData(raw, y.srl, c)
      BY <1>8, <2>5 DEF sockByte, nextSrl, isData
    <3>2. G(n, "NORM", o)
      BY <1>1, <1>2
    <3>3. G(r, "NORM", o)
      BY <1>4, <3>2, ReplyBytes
    <3>. HIDE DEF r
    <3>4. z = [n EXCEPT !.alive = FALSE]
          \/ \E a \in {n, r} : z = [a EXCEPT !.sga = n.sga]
      BY <3>1 DEF telOptHandle, r
    <3>. HIDE DEF n
    <3>5. ASSUME NEW a, G(a, "NORM", o)
          PROVE  G([a EXCEPT !.alive = FALSE], "NORM", o)
      BY <3>5 DEF G, Good, Path
    <3>6. ASSUME NEW a, G(a, "NORM", o), NEW b \in BOOLEAN
          PROVE  G([a EXCEPT !.sga = b], "NORM", o)
      BY <3>6 DEF G, Good, Path
    <3>7. n.sga \in BOOLEAN
      BY <3>2, GoodIs DEF G
    <3>8. G(z, "NORM", o)
      BY <3>2, <3>3, <3>4, <3>5, <3>6, <3>7
    <3>. QED BY <3>1, <3>8
  <2>6. CASE y.srl = "SB"
    <3>1. /\ z = [to("SBC") EXCEPT !.opt = c] /\ nextSrl(raw, y.srl, c) = "SBC"
          /\ ~isData(raw, y.srl, c)
      BY <1>8, <2>6 DEF sockByte, nextSrl, isData
    <3>2. G(to("SBC"), "SBC", o)
      BY <1>1, <1>2
    <3>3. G([to("SBC") EXCEPT !.opt = c], "SBC", o)
      BY <3>2 DEF G, Good, Path
    <3>. QED BY <3>1, <3>3
  <2>7. CASE y.srl = "SBC" \/ y.srl = "SBS"
    <3>1. ~isData(raw, y.srl, c)
      BY <1>8, <2>7 DEF isData
    <3>2. z = to(nextSrl(raw, y.srl, c)) /\ nextSrl(raw, y.srl, c) \in Srl
      BY <1>1, <1>8, <2>7 DEF sockByte, nextSrl
    <3>. QED BY <3>1, <3>2, <1>2
  <2>8. CASE y.srl = "SBI"
    <3>1. /\ z = telOptSBHandle(to("NORM")) /\ nextSrl(raw, y.srl, c) = "NORM"
          /\ ~isData(raw, y.srl, c)
      BY <1>8, <2>8 DEF sockByte, nextSrl, isData
    <3>2. z = to("NORM") \/ z = putSock(to("NORM"), [i \in 1..(6 + TermLen) |-> "opt"])
      BY <3>1 DEF telOptSBHandle
    <3>3. G(to("NORM"), "NORM", o)
      BY <1>1, <1>2
    <3>4. G(z, "NORM", o)
      BY <3>2, <3>3, <1>4, ReplyBytes
    <3>. QED BY <3>1, <3>4
  <2>. QED BY <1>1, <2>1, <2>2, <2>3, <2>4, <2>5, <2>6, <2>7, <2>8 DEF Srl
<1>. QED BY <1>7, <1>8

\* What is known of z when g has been shown and the bytes t are still to come.
Shown(z, g, t) == Read(raw, view(z.srl, Payload(g \o z.ttyW.q)), t)

LEMMA ShownType ==
  ASSUME NEW z \in Good, NEW g \in Seq(Byte)
  PROVE  /\ z.ttyW \in Buf /\ z.ttyW.q \in Seq(Byte) /\ z.srl \in Srl
         /\ Payload(g \o z.ttyW.q) \in Seq(Byte)
<1>. DEFINE q == z.ttyW.q
<1>1. q \in Seq(Byte) /\ z.ttyW \in Buf /\ z.srl \in Srl
  BY GoodIs DEF Buf, Buffer
<1>. HIDE DEF q
<1>2. g \o q \in Seq(Byte) /\ "opt" \in Byte
  BY <1>1, ConcatProperties DEF Byte
<1>3. Payload(g \o q) \in Seq(Byte)
  BY <1>2, PayloadAppend
<1>. QED BY <1>1, <1>3 DEF q

LEMMA ByteShown ==
  ASSUME NEW y \in Good, NEW c \in Calm, y.ttyW.fill + 1 <= Hard, raw \in BOOLEAN,
         NEW g \in Seq(Byte), NEW t \in Seq(Byte), NEW z \in sockByte(y, c)
  PROVE  /\ z \in Good /\ z.sga = y.sga /\ z.ttyW.fill <= y.ttyW.fill + 1
         /\ Shown(z, g, t) = Shown(y, g, <<c>> \o t)
<1>. DEFINE o == Payload(g \o y.ttyW.q)
            s == y.srl
            w == y.ttyW
<1>1. w \in Buf /\ o \in Seq(Byte) /\ s \in Srl /\ c \in Plain /\ c \in Byte
  BY ShownType, CalmBytes
<1>2. z \in Good /\ z.sga = y.sga
  BY SockByteSaysSame, CalmBytes DEF SaysSame
<1>3. z.srl = nextSrl(raw, s, c) /\ z.ttyW = IF isData(raw, s, c) THEN put(w, <<c>>) ELSE w
  BY SockByteIs, CalmBytes
<1>4. <<c>> \in Seq(Plain) /\ <<c>> \in Seq(Byte) /\ Len(<<c>>) = 1
  BY <1>1
<1>5. w.fill + Len(<<c>>) <= Hard
  BY <1>4
<1>6. Payload(g \o put(w, <<c>>).q) = Append(o, c)
  <2>1. Payload(g \o put(w, <<c>>).q) = o \o <<c>>
    BY <1>1, <1>4, <1>5, PutRoom
  <2>. HIDE DEF o
  <2>. QED BY <2>1, <1>1, AppendIsConcat
<1>7. w.fill \in Int /\ put(w, <<c>>).fill <= w.fill + 1
  <2>1. w.fill \in Int
    BY <1>1, Sizes DEF Buf, Buffer
  <2>. QED BY <2>1, <1>1, <1>4, PutIs
<1>8. z.ttyW.fill <= w.fill + 1
  BY <1>3, <1>7
<1>9. Payload(g \o z.ttyW.q) = IF isData(raw, s, c) THEN Append(o, c) ELSE o
  BY <1>3, <1>6
<1>. HIDE DEF o, s
<1>10. Read(raw, view(s, o), <<c>> \o t)
         = Read(raw, view(nextSrl(raw, s, c), IF isData(raw, s, c) THEN Append(o, c) ELSE o), t)
  BY <1>1, ReadFirst
<1>11. Shown(z, g, t) = Read(raw, view(s, o), <<c>> \o t)
  BY <1>3, <1>9, <1>10 DEF Shown
<1>. QED BY <1>2, <1>8, <1>11 DEF Shown, o, s

\* All that recv() may return has room when flow control lets it be called.
LEMMA SockShown ==
  ASSUME NEW x \in Good, ~x.ttyW.stop, raw \in BOOLEAN, NEW s \in Seq(Calm), Len(s) <= BufR,
         NEW g \in Seq(Byte), NEW t \in Seq(Byte), NEW z \in sockReadLoop(x, s)
  PROVE  z \in Good /\ z.sga = x.sga /\ Shown(z, g, t) = Shown(x, g, s \o t)
<1>. DEFINE L == Len(s)
            rest(n) == SubSeq(s, n + 1, L) \o t
            p == Shown(x, g, s \o t)
            K == [n \in 0..L |-> {y \in Good : /\ y.sga = x.sga /\ y.ttyW.fill <= Soft + n
                                               /\ Shown(y, g, rest(n)) = p}]
<1>1. L \in Nat /\ s \in Seq(Byte) /\ \A n \in 1..L : s[n] \in Calm
  BY EmptyLen, CalmBytes, ElementOfSeq
<1>2. \A n \in 1..L : /\ n - 1 \in 0..L /\ n \in 0..L
                      /\ rest(n - 1) = <<s[n]>> \o rest(n) /\ rest(n) \in Seq(Byte)
  <2>. SUFFICES ASSUME NEW n \in 1..L
                PROVE  /\ n - 1 \in 0..L /\ n \in 0..L
                       /\ rest(n - 1) = <<s[n]>> \o rest(n) /\ rest(n) \in Seq(Byte)
    OBVIOUS
  <2>1. n - 1 \in 0..L /\ n \in 0..L /\ L \in n..L /\ (n - 1) + 1 = n
    BY <1>1
  <2>2. SubSeq(s, n, L) = <<s[n]>> \o SubSeq(s, n + 1, L)
    BY <1>1, <2>1, SubSeqRecursiveFirst
  <2>. DEFINE u == SubSeq(s, n + 1, L)
  <2>3. u \in Seq(Byte)
    BY <1>1, <2>1, Cut
  <2>4. <<s[n]>> \in Seq(Byte)
    BY <1>1, CalmBytes, Bytes
  <2>. HIDE DEF u, L
  <2>5. u \o t \in Seq(Byte)
    BY <2>3, ConcatProperties
  <2>6. (<<s[n]>> \o u) \o t = <<s[n]>> \o (u \o t)
    BY <2>3, <2>4, ConcatAssociative
  <2>. QED BY <2>1, <2>2, <2>5, <2>6 DEF u
<1>3. rest(0) = s \o t /\ rest(L) = t
  <2>1. SubSeq(s, 0 + 1, L) = s /\ SubSeq(s, L + 1, L) = <<>>
    BY <1>1, Cut
  <2>2. <<>> \o t = t
    BY ConcatEmptySeq
  <2>. QED BY <2>1, <2>2
<1>. HIDE DEF L, rest, p
<1>4. x \in K[0]
  <2>1. x.ttyW.fill <= Soft + 0
    BY GoodIs, Sizes DEF Buf, Buffer
  <2>2. rest(0) = s \o t
    BY <1>3
  <2>3. Shown(x, g, rest(0)) = p
    BY <2>2 DEF p
  <2>4. 0 \in 0..L
    BY <1>1
  <2>. QED BY <2>1, <2>3, <2>4
<1>5. \A n \in 0..L : K[n] \subseteq Good
  OBVIOUS
<1>6. ASSUME NEW n \in 1..L, NEW y \in K[n - 1] PROVE sockByte(y, s[n]) \subseteq K[n]
  <2>1. n - 1 \in 0..L /\ n \in 0..L /\ rest(n - 1) = <<s[n]>> \o rest(n) /\ rest(n) \in Seq(Byte)
    BY <1>2
  <2>2. y \in Good /\ y.sga = x.sga /\ y.ttyW.fill <= Soft + (n - 1)
        /\ Shown(y, g, rest(n - 1)) = p
    BY <2>1
  <2>3. y.ttyW.fill \in Int
    BY <2>2, GoodIs, Sizes DEF Buf, Buffer
  <2>4. n \in Int /\ n <= BufR
    <3>1. L \in Nat /\ L <= BufR
      BY <1>1 DEF L
    <3>. QED BY <3>1, Sizes
  <2>5. y.ttyW.fill + 1 <= Soft + n /\ y.ttyW.fill + 1 <= Hard
    BY <2>2, <2>3, <2>4, Sizes
  <2>6. ASSUME NEW v \in sockByte(y, s[n])
        PROVE  v \in Good /\ v.sga = x.sga /\ v.ttyW.fill <= Soft + n /\ Shown(v, g, rest(n)) = p
    <3>1. s[n] \in Calm
      BY <1>1
    <3>2. /\ v \in Good /\ v.sga = y.sga /\ v.ttyW.fill <= y.ttyW.fill + 1
          /\ Shown(v, g, rest(n)) = Shown(y, g, <<s[n]>> \o rest(n))
      BY <2>1, <2>2, <2>5, <3>1, ByteShown
    <3>3. v.ttyW.fill \in Int
      BY <3>2, GoodIs, Sizes DEF Buf, Buffer
    <3>4. v.ttyW.fill <= Soft + n
      BY <2>3, <2>4, <2>5, <3>2, <3>3, Sizes, SMTT(30)
    <3>. QED BY <2>1, <2>2, <3>2, <3>4
  <2>. QED BY <2>1, <2>6
<1>. HIDE DEF K
<1>7. sockReadLoop(x, s) \subseteq K[L]
  BY <1>1, <1>4, <1>5, <1>6, SockLoop DEF L
<1>8. L \in 0..L
  BY <1>1
<1>9. z \in Good /\ z.sga = x.sga /\ Shown(z, g, rest(L)) = p
  BY <1>7, <1>8 DEF K
<1>. QED BY <1>3, <1>9 DEF p

\* In character mode nothing is echoed.
LEMMA TtyQuiet ==
  ASSUME NEW x \in Good, raw \in BOOLEAN, raw \/ x.sga
  PROVE  LET z == ttyReadLoop(x)
         IN  z \in Good /\ z.ttyW = x.ttyW /\ z.srl = x.srl /\ z.sga = x.sga
<1>. DEFINE K == {y \in Good : y.ttyW = x.ttyW /\ y.srl = x.srl /\ y.sga = x.sga}
<1>1. ASSUME NEW y \in K, y.ttyR # <<>> PROVE ttyTurn(y) \in K
  <2>. DEFINE c == Head(y.ttyR)
              b == ttyByte(y, c)
  <2>1. ttyTurn(y) \in Good /\ SameBut(y, ttyTurn(y)) /\ c \in Byte /\ Tail(y.ttyR) \in Seq(Byte)
    BY <1>1, TtyTurnGood, GoodIs, HeadTailProperties
  <2>. HIDE DEF c
  <2>2. \E s \in Seq(Byte) : b = putSock(y, s)
    BY <2>1, Bytes DEF ttyByte, lineKeeps
  <2>3. b \in Good /\ b.ttyW = y.ttyW
    <3>1. PICK s \in Seq(Byte) : b = putSock(y, s)
      BY <2>2
    <3>2. b \in Good /\ b = [y EXCEPT !.sockW = put(y.sockW, s)]
      BY <3>1, PutGood
    <3>. HIDE DEF b
    <3>. QED BY <3>2 DEF Good, Path
  <2>. HIDE DEF b
  <2>4. ttyTurn(y) = [b EXCEPT !.ttyR = Tail(y.ttyR)]
    BY DEF ttyTurn, b, c
  <2>5. ttyTurn(y).ttyW = b.ttyW
    BY <2>3, <2>4 DEF Good, Path
  <2>. QED BY <2>1, <2>3, <2>5 DEF SameBut
<1>2. x \in K /\ K \subseteq Good
  OBVIOUS
<1>. HIDE DEF K
<1>3. ttyReadLoop(x) \in K
  BY <1>1, <1>2, TtyLoop
<1>. QED BY <1>3 DEF K

\* What the DTE has been given is in front of what waits for it.
LEMMA DrainedShown ==
  ASSUME NEW w \in Buf, NEW g \in Seq(Byte), NEW n \in 0..Len(w.q)
  PROVE  /\ g \o SubSeq(w.q, 1, n) \in Seq(Byte) /\ drained(w, n) \in Buf
         /\ (g \o SubSeq(w.q, 1, n)) \o drained(w, n).q = g \o w.q
         /\ ~w.stop => ~drained(w, n).stop
<1>. DEFINE d == drained(w, n)
            q == w.q
            p == SubSeq(q, 1, n)
            r == d.q
<1>1. q \in Seq(Byte) /\ Len(q) \in Nat /\ n \in Nat /\ n <= Len(q)
  <2>1. q \in Seq(Byte)
    BY DEF Buf, Buffer
  <2>. QED BY <2>1, EmptyLen
<1>2. d \in Buf /\ q = p \o r
  BY <1>1, DrainedIs
<1>3. ~w.stop => ~d.stop
  BY DEF drained, Empty, Buf, Buffer
<1>4. r \in Seq(Byte)
  BY <1>2 DEF Buf, Buffer
<1>. HIDE DEF d, q, r
<1>5. p \in Seq(Byte)
  BY <1>1, Cut
<1>. HIDE DEF p
<1>6. g \o p \in Seq(Byte) /\ (g \o p) \o r = g \o (p \o r)
  BY <1>4, <1>5, ConcatProperties, ConcatAssociative
<1>. QED BY <1>2, <1>3, <1>6 DEF d, q, p, r

\* An iteration hands over what the peer has sent.
LEMMA IterShown ==
  ASSUME IInv, SendInv, raw \/ sga, NEW wr \in Nat, NEW tw \in 0..Len(ttyW.q),
         appIO => tw = 0, NEW rd \in 0..Len(sockIn), rd <= BufR, rd > 0 => ~ttyW.stop,
         NEW tr \in 0..Len(ttyIn), NEW y \in onlineIter(wr, tw, rd, tr)
  PROVE  /\ y.sga = sga
         /\ Shown(y, shown \o SubSeq(ttyW.q, 1, tw), SubSeq(sockIn, rd + 1, Len(sockIn)))
              = Read(raw, view(srl, Payload(shown \o ttyW.q)), sockIn)
<1>. DEFINE v == [Now EXCEPT !.sockW = drained(@, wr)]
            w == IF wr > 0 THEN sockBufWrite(Now, wr) ELSE Now
            a == IF appIO THEN ttyReadLoop(w)
                 ELSE IF tw > 0 THEN [w EXCEPT !.ttyW = drained(@, tw)] ELSE w
            r == IF rd > 0 THEN sockReadLoop(a, SubSeq(sockIn, 1, rd)) ELSE {a}
            g == shown \o SubSeq(ttyW.q, 1, tw)
            s == SubSeq(sockIn, 1, rd)
            t == SubSeq(sockIn, rd + 1, Len(sockIn))
            A(z) == z \in Good /\ z.sga = sga /\ z.srl = srl /\ z.ttyW = ttyW
<1>1. PICK z \in r : y = IF tr > 0 THEN ttyReadLoop([z EXCEPT !.ttyR = SubSeq(ttyIn, 1, tr)])
                         ELSE z
  BY DEF onlineIter
<1>2. /\ Now \in Good /\ A(Now) /\ raw \in BOOLEAN /\ shown \in Seq(Byte) /\ ttyW \in Buf
      /\ sockIn \in Seq(Calm) /\ sockIn \in Seq(Byte) /\ ttyIn \in Seq(Typeable)
  BY GoodIs DEF IInv, SendInv, Now
<1>3. A(v)
  <2>1. drained(sockW, wr) \in Buf /\ v = [Now EXCEPT !.sockW = drained(sockW, wr)]
    <3>1. Now.sockW = sockW
      BY DEF Now
    <3>. QED BY <1>2, <3>1, GoodIs, DrainedIs DEF Good, Path
  <2>. QED BY <1>2, <2>1 DEF Good, Path, Buf
<1>4. sockBufWrite(Now, wr) = IF v.ttyR # <<>> /\ ~v.sockW.stop THEN ttyReadLoop(v) ELSE v
  BY DEF sockBufWrite
<1>. HIDE DEF v
<1>5. ASSUME NEW x, A(x) PROVE A(ttyReadLoop(x))
  BY <1>2, <1>5, TtyQuiet
<1>6. A(w)
  BY <1>2, <1>3, <1>4, <1>5
<1>. HIDE DEF w
<1>7. /\ a \in Good /\ a.sga = sga /\ a.srl = srl /\ (~ttyW.stop => ~a.ttyW.stop)
      /\ g \in Seq(Byte) /\ g \o a.ttyW.q = shown \o ttyW.q
  <2>1. CASE tw = 0
    <3>1. a \in {ttyReadLoop(w), w}
      BY <2>1
    <3>2. A(a)
      BY <3>1, <1>5, <1>6
    <3>. HIDE DEF a
    <3>. DEFINE q == ttyW.q
    <3>3. q \in Seq(Byte)
      BY <1>2 DEF Buf, Buffer
    <3>. HIDE DEF q
    <3>4. SubSeq(q, 1, 0) = <<>> /\ shown \o <<>> = shown
      BY <1>2, SubSeqEmpty, ConcatEmptySeq
    <3>5. g = shown
      BY <2>1, <3>4 DEF q
    <3>. QED BY <1>2, <3>2, <3>5
  <2>2. CASE tw > 0
    <3>. DEFINE d == drained(ttyW, tw)
    <3>1. /\ g \in Seq(Byte) /\ d \in Buf /\ g \o d.q = shown \o ttyW.q
          /\ (~ttyW.stop => ~d.stop)
      BY <1>2, DrainedShown
    <3>2. a = [w EXCEPT !.ttyW = drained(w.ttyW, tw)]
      BY <2>2, <1>6 DEF Good, Path
    <3>3. a = [w EXCEPT !.ttyW = d]
      BY <3>2, <1>6
    <3>. HIDE DEF a, d, g
    <3>4. a \in Good /\ a.sga = sga /\ a.srl = srl /\ a.ttyW = d
      BY <1>6, <3>1, <3>3 DEF Good, Path, Buf
    <3>. QED BY <3>1, <3>4
  <2>3. tw = 0 \/ tw > 0
    <3>1. ttyW.q \in Seq(Byte)
      BY <1>2 DEF Buf, Buffer
    <3>2. Len(ttyW.q) \in Nat
      BY <3>1, EmptyLen
    <3>. QED BY <3>2
  <2>. QED BY <2>1, <2>2, <2>3
<1>. HIDE DEF a
<1>8. /\ s \in Seq(Calm) /\ Len(s) = rd /\ t \in Seq(Byte) /\ s \o t = sockIn
      /\ (rd = 0 => t = sockIn)
  <2>1. s \in Seq(Calm) /\ Len(s) = rd /\ t \in Seq(Calm) /\ sockIn = s \o t
        /\ (rd = 0 => t = sockIn)
    <3>1. sockIn \in Seq(Calm)
      BY <1>2
    <3>2. s \in Seq(Calm) /\ Len(s) = rd /\ t \in Seq(Calm)
      BY <3>1, Cut
    <3>3. sockIn = s \o t
      BY <3>1, Cut
    <3>4. rd = 0 => t = sockIn
      BY <3>1, Cut
    <3>. QED BY <3>2, <3>3, <3>4
  <2>. HIDE DEF t
  <2>. QED BY <2>1, CalmBytes
<1>. HIDE DEF g, t
<1>9. Shown(a, g, sockIn) = Read(raw, view(srl, Payload(shown \o ttyW.q)), sockIn)
  BY <1>7 DEF Shown
<1>10. z \in Good /\ z.sga = sga /\ Shown(z, g, t) = Shown(a, g, sockIn)
  <2>1. CASE rd > 0
    <3>1. z \in sockReadLoop(a, s)
      BY <2>1, <1>1
    <3>. HIDE DEF s
    <3>2. /\ a \in Good /\ ~a.ttyW.stop /\ raw \in BOOLEAN /\ s \in Seq(Calm)
          /\ Len(s) <= BufR /\ g \in Seq(Byte) /\ t \in Seq(Byte)
      BY <2>1, <1>2, <1>7, <1>8
    <3>3. z \in Good /\ z.sga = a.sga /\ Shown(z, g, t) = Shown(a, g, s \o t)
      BY <3>1, <3>2, SockShown
    <3>. QED BY <3>3, <1>7, <1>8
  <2>2. CASE ~(rd > 0)
    <3>1. z = a
      BY <2>2, <1>1
    <3>2. rd = 0
      BY <2>2, <1>2, EmptyLen
    <3>. QED BY <3>1, <3>2, <1>7, <1>8
  <2>. QED BY <2>1, <2>2
<1>. HIDE DEF r
<1>11. y.sga = z.sga /\ y.srl = z.srl /\ y.ttyW = z.ttyW
  <2>1. CASE tr > 0
    <3>. DEFINE b == SubSeq(ttyIn, 1, tr)
                u == [z EXCEPT !.ttyR = b]
    <3>1. b \in Seq(Byte)
      <4>1. b \in Seq(Typeable)
        BY <1>2, Cut
      <4>. QED BY <4>1, TypeableBytes, SeqMonotonic
    <3>2. y = ttyReadLoop(u)
      BY <2>1, <1>1
    <3>. HIDE DEF b
    <3>3. u \in Good /\ u.sga = z.sga /\ u.srl = z.srl /\ u.ttyW = z.ttyW
      BY <3>1, <1>10 DEF Good, Path
    <3>. HIDE DEF u
    <3>. QED BY <3>2, <3>3, <1>2, <1>10, TtyQuiet
  <2>2. CASE ~(tr > 0)
    BY <2>2, <1>1
  <2>. QED BY <2>1, <2>2
<1>12. Shown(y, g, t) = Shown(z, g, t)
  BY <1>11 DEF Shown
<1>. QED BY <1>9, <1>10, <1>11, <1>12 DEF g, t

-----------------------------------------------------------------------------
(* What the peer says is shown. *)

Known == Read(raw, view(srl, Payload(shown \o ttyW.q)), sockIn)

SaidInv ==
    /\ said \in Seq(Byte)
    /\ (raw \/ sga) /\ ~hup => Known = view("NORM", said)

LEMMA SaidRelays ==
  ASSUME IInv, SendInv, SaidInv, OnlineRelays
  PROVE  SaidInv'
<1>1. PICK wr \in 0..Len(sockW.q),
           tw \in (IF appIO THEN {0} ELSE 0..Len(ttyW.q)),
           rd \in (IF ttyW.stop /\ ~hup THEN {0} ELSE 0..Least(BufR, Len(sockIn))),
           tr \in (IF mayReadTty THEN 0..Least(BufR, Len(ttyIn)) ELSE {0}) :
        /\ shown' = shown \o SubSeq(ttyW.q, 1, tw)
        /\ sockIn' = SubSeq(sockIn, rd + 1, Len(sockIn))
        /\ \E y \in onlineIter(wr, tw, rd, tr) : Becomes(y)
  BY Zenon DEF OnlineRelays
<1>2. PICK y \in onlineIter(wr, tw, rd, tr) : Becomes(y)
  BY <1>1
<1>3. sockW.q \in Seq(Byte) /\ ttyW.q \in Seq(Byte)
  BY DEF IInv, Now, Good, Path, Buf, Buffer
<1>4. /\ Len(sockW.q) \in Nat /\ Len(ttyW.q) \in Nat /\ Len(sockIn) \in Nat
      /\ Len(ttyIn) \in Nat
  BY <1>3, EmptyLen DEF IInv
<1>5. /\ wr \in Nat /\ tw \in 0..Len(ttyW.q) /\ (appIO => tw = 0)
      /\ rd \in 0..Len(sockIn) /\ rd <= BufR /\ (rd > 0 => ~ttyW.stop \/ hup)
      /\ tr \in 0..Len(ttyIn)
  BY <1>4, Sizes DEF Least
<1>6. /\ said' = said /\ raw' = raw /\ hup' = hup /\ sga' = y.sga /\ srl' = y.srl
      /\ ttyW' = y.ttyW
  BY <1>2 DEF OnlineRelays, Becomes
<1>7. y.sga = sga
  <2>1. tr > 0 => mayReadTty
    BY <1>4
  <2>2. wr \in 0..Len(sockW.q) /\ tw \in Nat
    BY <1>4, <1>5
  <2>. DEFINE m == Len(typed) - Len(ttyIn) + tr
              g == got \o SubSeq(sockW.q, 1, wr)
  <2>3. Conveys(y, m, g, sga)
    BY <2>1, <2>2, <1>2, <1>5, IterConveys
  <2>. HIDE DEF m, g
  <2>. QED BY <2>3 DEF Conveys
<1>8. CASE (raw \/ sga) /\ ~hup
  <2>1. Shown(y, shown', sockIn') = Known
    BY <1>1, <1>2, <1>5, <1>8, IterShown DEF Known
  <2>2. Known' = Known
    BY <2>1, <1>6 DEF Known, Shown
  <2>. QED BY <2>2, <1>6, <1>8 DEF SaidInv
<1>9. CASE ~((raw \/ sga) /\ ~hup)
  BY <1>6, <1>7, <1>9 DEF SaidInv
<1>. QED BY <1>8, <1>9

LEMMA SaidIdles ==
  ASSUME IInv, SendInv, SaidInv, OnlineIdles
  PROVE  SaidInv'
<1>1. PICK y \in onlineIter(0, 0, 0, 0) : Becomes(y)
  BY DEF OnlineIdles
<1>2. /\ said' = said /\ raw' = raw /\ hup' = hup /\ sga' = y.sga /\ srl' = y.srl
      /\ ttyW' = y.ttyW /\ sockIn' = sockIn /\ shown' = shown
  BY <1>1 DEF OnlineIdles, Becomes
<1>3. /\ sockW.q \in Seq(Byte) /\ ttyW.q \in Seq(Byte) /\ shown \in Seq(Byte)
      /\ got \in Seq(Byte) /\ sockIn \in Seq(Byte) /\ ttyIn \in Seq(Typeable)
  BY DEF IInv, Now, Good, Path, Buf, Buffer
<1>4. /\ 0 \in 0..Len(sockW.q) /\ 0 \in 0..Len(ttyW.q) /\ 0 \in 0..Len(sockIn)
      /\ 0 \in 0..Len(ttyIn) /\ 0 \in Nat /\ 0 <= BufR /\ ~(0 > 0)
  BY <1>3, EmptyLen, Sizes
<1>5. y.sga = sga
  <2>. DEFINE m == Len(typed) - Len(ttyIn) + 0
              g == got \o SubSeq(sockW.q, 1, 0)
  <2>1. Conveys(y, m, g, sga)
    BY <1>1, <1>4, IterConveys
  <2>. HIDE DEF m, g
  <2>. QED BY <2>1 DEF Conveys
<1>6. CASE (raw \/ sga) /\ ~hup
  <2>1. Shown(y, shown \o SubSeq(ttyW.q, 1, 0), SubSeq(sockIn, 0 + 1, Len(sockIn))) = Known
    BY <1>1, <1>4, <1>6, IterShown DEF Known
  <2>2. shown \o SubSeq(ttyW.q, 1, 0) = shown
    <3>1. SubSeq(ttyW.q, 1, 0) = <<>>
      BY <1>3, <1>4, Cut
    <3>. QED BY <3>1, <1>3, ConcatEmptySeq
  <2>3. SubSeq(sockIn, 0 + 1, Len(sockIn)) = sockIn
    BY <1>3, <1>4, Cut
  <2>4. Shown(y, shown, sockIn) = Known
    BY <2>1, <2>2, <2>3
  <2>5. Known' = Known
    BY <2>4, <1>2 DEF Known, Shown
  <2>. QED BY <2>5, <1>2, <1>6 DEF SaidInv
<1>7. CASE ~((raw \/ sga) /\ ~hup)
  BY <1>2, <1>5, <1>7 DEF SaidInv
<1>. QED BY <1>6, <1>7

LEMMA SaidRead ==
  ASSUME IInv, SaidInv, NEW max \in 1..Hard, m2k_read_to_app(max)
  PROVE  SaidInv'
<1>. DEFINE n == Least(max, Len(ttyW.q))
<1>1. ttyW \in Buf /\ ttyW.q \in Seq(Byte) /\ shown \in Seq(Byte)
  BY DEF IInv, Now, Good, Path, Buf, Buffer
<1>2. Len(ttyW.q) \in Nat /\ max \in Nat
  BY <1>1, EmptyLen, Sizes
<1>3. n \in 0..Len(ttyW.q) /\ (max < Len(ttyW.q) <=> n < Len(ttyW.q)) /\ (max < Len(ttyW.q) => n = max)
  BY <1>2 DEF Least
<1>4. drained(ttyW, max) = drained(ttyW, n)
  BY <1>3 DEF drained
<1>5. /\ shown' = shown \o SubSeq(ttyW.q, 1, n) /\ ttyW' = drained(ttyW, n)
      /\ UNCHANGED <<said, raw, hup, sga, srl, sockIn>>
  BY <1>4 DEF m2k_read_to_app
<1>. HIDE DEF n
<1>6. shown' \o ttyW'.q = shown \o ttyW.q
  BY <1>1, <1>3, <1>5, DrainedShown
<1>7. Known' = Known
  BY <1>5, <1>6 DEF Known
<1>. QED BY <1>5, <1>7 DEF SaidInv

LEMMA SaidSends ==
  ASSUME "SGA" \notin Opts, IInv, SaidInv, PeerSends
  PROVE  SaidInv'
<1>1. PICK u \in Units : sockIn' = sockIn \o u.bytes /\ said' = said \o u.data
  BY DEF PeerSends
<1>2. UNCHANGED <<srl, ttyW, shown, sga, raw>> /\ hup' = hup
  BY DEF PeerSends
<1>3. raw \in BOOLEAN /\ said \in Seq(Byte) /\ sockIn \in Seq(Byte) /\ Now \in Good
      /\ shown \in Seq(Byte)
  BY DEF IInv, SaidInv
<1>4. u.data \in Seq(Byte) /\ Read(raw, view("NORM", said), u.bytes) = view("NORM", said \o u.data)
  BY <1>3, ReadUnit
<1>5. said' \in Seq(Byte)
  BY <1>1, <1>3, <1>4, ConcatProperties
<1>6. CASE (raw \/ sga) /\ ~hup
  <2>. DEFINE v == view(srl, Payload(shown \o ttyW.q))
  <2>1. v \in Views
    <3>1. Now.srl = srl /\ Now.ttyW = ttyW
      BY DEF Now
    <3>2. srl \in Srl /\ Payload(shown \o ttyW.q) \in Seq(Byte)
      BY <1>3, <3>1, ShownType
    <3>. QED BY <3>2, ViewIs
  <2>2. Read(raw, v, sockIn) = view("NORM", said)
    BY <1>6 DEF SaidInv, Known
  <2>3. u.bytes \in Seq(Byte)
    BY PeerUnits
  <2>. HIDE DEF v
  <2>4. Read(raw, v, sockIn \o u.bytes) = Read(raw, Read(raw, v, sockIn), u.bytes)
    BY <2>1, <2>3, <1>3, ReadJoin
  <2>5. Read(raw, v, sockIn') = view("NORM", said')
    BY <2>2, <2>4, <1>1, <1>4
  <2>6. Known' = view("NORM", said')
    BY <2>5, <1>2 DEF Known, v
  <2>. QED BY <2>6, <1>5 DEF SaidInv
<1>7. CASE ~((raw \/ sga) /\ ~hup)
  BY <1>2, <1>5, <1>7 DEF SaidInv
<1>. QED BY <1>6, <1>7

LEMMA SaidStep ==
  ASSUME "SGA" \notin Opts, IInv, SendInv, SaidInv, [Next]_vars
  PROVE  SaidInv'
<1>1. ASSUME UNCHANGED <<said, srl, ttyW, shown, sockIn, sga, raw>>, hup' \in {hup, TRUE}
      PROVE  SaidInv'
  BY <1>1 DEF SaidInv, Known
<1>2. CASE OnlineRelays
  BY <1>2, SaidRelays
<1>3. CASE OnlineIdles
  BY <1>3, SaidIdles
<1>4. CASE CallEnds
  BY <1>1, <1>4 DEF CallEnds
<1>5. CASE UNCHANGED vars
  BY <1>1, <1>5 DEF vars
<1>6. ASSUME NEW c \in Typeable, DteTypes(c) PROVE SaidInv'
  BY <1>1, <1>6 DEF DteTypes
<1>7. CASE m2k_write_from_app
  BY <1>1, <1>7 DEF m2k_write_from_app
<1>8. ASSUME NEW max \in 1..Hard, m2k_read_to_app(max) PROVE SaidInv'
  BY <1>8, SaidRead
<1>9. CASE PeerSends
  BY <1>9, SaidSends
<1>10. CASE PeerResets
  BY <1>1, <1>10 DEF PeerResets
<1>. QED
  BY <1>2, <1>3, <1>4, <1>5, <1>6, <1>7, <1>8, <1>9, <1>10 DEF Next, Ended

LEMMA SaidInit == Init => SaidInv
<1>. SUFFICES ASSUME Init PROVE SaidInv
  OBVIOUS
<1>. DEFINE z == <<>>
<1>1. said = z /\ sockIn = z /\ shown = z /\ srl = "NORM" /\ raw \in BOOLEAN
  <2>1. raw \in Raws /\ said = z /\ sockIn = z /\ shown = z /\ srl = "NORM"
    BY Zenon DEF Init
  <2>. QED BY <2>1, ModeAssumption
<1>2. z \in Seq(Byte) /\ z \o z = z /\ Payload(z) = z
  BY EmptySeq, ConcatEmptySeq, PayloadAppend
<1>3. view("NORM", z) \in Views
  BY <1>2, ViewIs DEF Srl
<1>4. Read(raw, view("NORM", z), z) = view("NORM", z)
  BY <1>1, <1>3, ReadNone
<1>6. Payload(shown \o ttyW.q) = z
  <2>1. PICK n \in Nat : ttyW = put(Empty, own("echo", n))
    BY Opening
  <2>2. Payload(z \o ttyW.q) = Payload(z \o Empty.q)
    BY <2>1, <1>2, OwnIs, EmptyIs, PutReply
  <2>. QED BY <2>2, <1>1, <1>2, EmptyIs DEF z
<1>. HIDE DEF z
<1>5. Known = view("NORM", said)
  BY <1>1, <1>2, <1>4, <1>6 DEF Known
<1>. QED BY <1>1, <1>2, <1>5 DEF SaidInv

LEMMA SaidImplies ==
  ASSUME IInv, SaidInv
  PROVE  SaidIsShown
<1>. SUFFICES ASSUME (raw \/ sga) /\ ~hup
              PROVE  /\ IsPrefix(Payload(shown \o ttyW.q), said)
                     /\ sockIn = <<>> => Payload(shown \o ttyW.q) = said
  BY DEF SaidIsShown
<1>. DEFINE o == Payload(shown \o ttyW.q)
<1>1. /\ raw \in BOOLEAN /\ said \in Seq(Byte) /\ sockIn \in Seq(Byte) /\ Now \in Good
      /\ shown \in Seq(Byte) /\ Read(raw, view(srl, o), sockIn) = view("NORM", said)
  BY DEF IInv, SaidInv, Known
<1>2. srl \in Srl /\ o \in Seq(Byte)
  <2>1. Now.srl = srl /\ Now.ttyW = ttyW
    BY DEF Now
  <2>. QED BY <1>1, <2>1, ShownType
<1>. HIDE DEF o
<1>3. view("NORM", said).out = said
  BY <1>1, ViewIs DEF Srl
<1>4. PICK e \in Seq(Byte) : said = o \o e
  <2>1. PICK e \in Seq(Byte) : Read(raw, view(srl, o), sockIn).out = o \o e
    BY <1>1, <1>2, ReadAdds
  <2>. QED BY <2>1, <1>1, <1>3
<1>5. IsPrefix(o, said)
  <2>1. Len(o) \in Nat /\ Len(e) \in Nat /\ Len(said) = Len(o) + Len(e)
    BY <1>2, <1>4, ConcatProperties, EmptyLen
  <2>2. Len(o) <= Len(said) /\ Len(o) \in 0..Len(said) /\ Len(o) \in 0..Len(o)
    BY <2>1
  <2>3. SubSeq(said, 1, Len(o)) = o
    <3>1. SubSeq(o \o e, 1, Len(o)) = SubSeq(o, 1, Len(o))
      BY <1>2, <2>1, <2>2, SubSeqOfConcat1
    <3>. QED BY <3>1, <1>2, <1>4, <2>2, Cut
  <2>4. SubSeq(o, 1, Len(o)) = o
    BY <1>2, <2>2, Cut
  <2>. QED BY <2>2, <2>3, <2>4 DEF IsPrefix
<1>6. sockIn = <<>> => o = said
  <2>1. CASE sockIn = <<>>
    <3>1. view(srl, o) \in Views /\ view(srl, o).out = o
      BY <1>2, ViewIs
    <3>2. Read(raw, view(srl, o), <<>>) = view(srl, o)
      BY <1>1, <3>1, ReadNone
    <3>. QED BY <2>1, <3>1, <3>2, <1>1, <1>3
  <2>. QED BY <2>1
<1>. QED BY <1>5, <1>6 DEF o

\* In character mode and under AT%R all that the peer says reaches the DTE, in
\* its order and without the telnet commands in it, however the stream is cut up
\* by recv() and whatever the sizes of the buffers, until the peer resets the
\* call: sockReadLoop() is only entered with room for all that recv() may return.
THEOREM SaidIsShownHolds ==
  ASSUME "SGA" \notin Opts
  PROVE  Spec => []SaidIsShown
<1>1. IInv /\ SendInv /\ SaidInv /\ [Next]_vars => SendInv' /\ SaidInv'
  BY SendStep, SaidStep
<1>2. Init => SendInv /\ SaidInv
  BY SendInit, SaidInit
<1>3. IInv /\ SaidInv => SaidIsShown
  BY SaidImplies
<1>. QED BY <1>1, <1>2, <1>3, Invariance, PTL DEF Spec

=============================================================================
