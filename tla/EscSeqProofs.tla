---------------------------- MODULE EscSeqProofs ----------------------------
(***************************************************************************)
(* The +++ escape, for every choice of the units, the clock, the guard     *)
(* time and the sizes of the reads.  First what the deadlines rest on: the *)
(* operations of timeval.c compute with the microseconds a timeval stands  *)
(* for, and their results are normalised again.                            *)
(***************************************************************************)
EXTENDS EscSeq, Induction

-----------------------------------------------------------------------------
(* Arithmetic. *)

LEMMA UnitsPositive ==
    /\ UsecPerTen \in Nat \ {0} /\ UsecPerSec \in Nat \ {0} /\ MsPerSec \in Nat \ {0}
    /\ UsecPerSec = MsPerSec * UsecPerMs
<1>1. \A a, b \in Nat \ {0} : a * b \in Nat \ {0}
  BY SMT
<1>2. \A a, b, c \in Nat : a * (b * c) = (a * b) * c
  BY SMT
<1>. QED
  BY <1>1, <1>2, TimeAssumption DEF UsecPerTen, UsecPerSec, MsPerSec

LEMMA Distributes ==
    ASSUME NEW a \in Int, NEW b \in Int, NEW u \in Nat
    PROVE  /\ (a + b) * u = a * u + b * u
           /\ (a - b) * u = a * u - b * u
           /\ (a + b + 1) * u = a * u + b * u + u
           /\ (a - b - 1) * u = a * u - b * u - u
           /\ a * u \in Int
  BY SMT

LEMMA ProductOfSum ==
    ASSUME NEW t \in Nat, NEW k \in Nat, NEW s \in Nat, NEW u \in Nat
    PROVE  (t * k + s) * u = k * (t * u) + s * u
  BY SMT

\* More seconds are at least a second more.
LEMMA SecondsDecide ==
    ASSUME NEW a \in Int, NEW b \in Int, a < b, NEW u \in Nat
    PROVE  a * u + u <= b * u
<1>1. b * u = a * u + u + (b - a - 1) * u
  BY SMT
<1>2. \A n, m \in Nat : n * m \in Nat
  BY SMT
<1>3. (b - a - 1) * u \in Nat
  BY <1>2
<1>. QED
  BY <1>1, <1>3, Distributes

LEMMA MicrosType == ASSUME NEW t \in Timeval PROVE Micros(t) \in Int
  BY UnitsPositive, Distributes DEF Timeval, Micros

-----------------------------------------------------------------------------
(* The operations. *)

\* timevalSet10ms() is exact, and splits off every whole second.
THEOREM Set10msIsExact ==
    ASSUME NEW b \in Nat
    PROVE  /\ timevalSet10ms(b) \in Timeval
           /\ Micros(timevalSet10ms(b)) = b * UsecPerTen
<1>. DEFINE q == b \div TensPerSec
            r == b % TensPerSec
<1>1. /\ q \in Nat /\ r \in 0..(TensPerSec - 1)
      /\ b = TensPerSec * q + r
  BY TimeAssumption, SMT
<1>2. r * UsecPerTen \in Int /\ r * UsecPerTen >= 0
  BY <1>1, UnitsPositive, SMT
<1>3. r * UsecPerTen + UsecPerTen <= UsecPerSec
  BY <1>1, SecondsDecide, UnitsPositive, TimeAssumption DEF UsecPerSec
<1>4. r * UsecPerTen \in 0..(UsecPerSec - 1)
  BY <1>2, <1>3, UnitsPositive
<1>5. b * UsecPerTen = q * UsecPerSec + r * UsecPerTen
  <2>1. UsecPerTen \in Nat /\ TensPerSec \in Nat /\ q \in Nat /\ r \in Nat
    BY <1>1, UnitsPositive, TimeAssumption
  <2>2. (TensPerSec * q + r) * UsecPerTen = q * (TensPerSec * UsecPerTen) + r * UsecPerTen
    <3>. HIDE DEF q, r
    <3>. QED
      BY <2>1, ProductOfSum
  <2>. QED
    BY <2>2, <1>1, Zenon DEF UsecPerSec
<1>. QED
  BY <1>1, <1>4, <1>5 DEF timevalSet10ms, Timeval, Micros

\* The one carry of timevalAdd() is enough: the sum is exact and normalised.
THEOREM AddIsSum ==
    ASSUME NEW a \in Timeval, NEW b \in Timeval
    PROVE  /\ timevalAdd(a, b) \in Timeval
           /\ Micros(timevalAdd(a, b)) = Micros(a) + Micros(b)
<1>1. /\ a.sec \in Int /\ b.sec \in Int
      /\ a.usec \in 0..(UsecPerSec - 1) /\ b.usec \in 0..(UsecPerSec - 1)
  BY DEF Timeval
<1>2. timevalAdd(a, b) \in Timeval
  BY <1>1, UnitsPositive DEF timevalAdd, Timeval
<1>3. CASE a.usec + b.usec >= UsecPerSec
  BY <1>1, <1>2, <1>3, UnitsPositive, Distributes DEF timevalAdd, Micros
<1>4. CASE ~(a.usec + b.usec >= UsecPerSec)
  BY <1>1, <1>2, <1>4, UnitsPositive, Distributes DEF timevalAdd, Micros
<1>. QED
  BY <1>3, <1>4

\* The one borrow of timevalSub() is enough.
THEOREM SubIsDifference ==
    ASSUME NEW a \in Timeval, NEW b \in Timeval
    PROVE  /\ timevalSub(a, b) \in Timeval
           /\ Micros(timevalSub(a, b)) = Micros(a) - Micros(b)
<1>1. /\ a.sec \in Int /\ b.sec \in Int
      /\ a.usec \in 0..(UsecPerSec - 1) /\ b.usec \in 0..(UsecPerSec - 1)
  BY DEF Timeval
<1>2. timevalSub(a, b) \in Timeval
  BY <1>1, UnitsPositive DEF timevalSub, Timeval
<1>3. CASE a.usec - b.usec < 0
  BY <1>1, <1>2, <1>3, UnitsPositive, Distributes DEF timevalSub, Micros
<1>4. CASE ~(a.usec - b.usec < 0)
  BY <1>1, <1>2, <1>4, UnitsPositive, Distributes DEF timevalSub, Micros
<1>. QED
  BY <1>3, <1>4

\* timevalCmp() is the order of the times, on normalised ones.
THEOREM CmpIsOrder ==
    ASSUME NEW a \in Timeval, NEW b \in Timeval
    PROVE  /\ timevalCmp(a, b) \in {-1, 0, 1}
           /\ timevalCmp(a, b) < 0 <=> Micros(a) < Micros(b)
           /\ timevalCmp(a, b) > 0 <=> Micros(a) > Micros(b)
<1>1. /\ a.sec \in Int /\ b.sec \in Int
      /\ a.usec \in 0..(UsecPerSec - 1) /\ b.usec \in 0..(UsecPerSec - 1)
      /\ a.sec * UsecPerSec \in Int /\ b.sec * UsecPerSec \in Int
  BY UnitsPositive, Distributes DEF Timeval
<1>2. CASE a.sec < b.sec
  <2>1. a.sec * UsecPerSec + UsecPerSec <= b.sec * UsecPerSec
    BY <1>1, <1>2, SecondsDecide, UnitsPositive
  <2>. QED
    BY <1>1, <1>2, <2>1, UnitsPositive DEF timevalCmp, Micros
<1>3. CASE b.sec < a.sec
  <2>1. b.sec * UsecPerSec + UsecPerSec <= a.sec * UsecPerSec
    BY <1>1, <1>3, SecondsDecide, UnitsPositive
  <2>. QED
    BY <1>1, <1>3, <2>1, UnitsPositive DEF timevalCmp, Micros
<1>4. CASE a.sec = b.sec
  BY <1>1, <1>4, UnitsPositive DEF timevalCmp, Micros
<1>. QED
  BY <1>1, <1>2, <1>3, <1>4

\* The timeout of poll(): zero exactly when the deadline has passed, never a
\* busy wait of 0 before it, and never a whole millisecond too long.
THEOREM RemainingIsWakeup ==
    ASSUME NEW deadline \in Timeval, NEW at \in Timeval
    PROVE  LET ms == timevalRemainingMs(deadline, at)
               left == Micros(deadline) - Micros(at)
           IN  /\ ms \in Nat
               /\ ms = 0 <=> left <= 0
               /\ left > 0 => (ms - 1) * UsecPerMs < left
               /\ ms > 1 => ms * UsecPerMs <= left
<1>. DEFINE left == Micros(deadline) - Micros(at)
            d == timevalSub(deadline, at)
            q == d.usec \div UsecPerMs
            n == d.sec * MsPerSec + q
<1>1. /\ d \in Timeval /\ Micros(d) = left /\ left \in Int
      /\ d.sec \in Int /\ d.usec \in 0..(UsecPerSec - 1)
  BY SubIsDifference, MicrosType DEF Timeval
<1>2. /\ timevalCmp(at, deadline) \in {-1, 0, 1}
      /\ timevalCmp(at, deadline) < 0 <=> left > 0
  BY CmpIsOrder, MicrosType
<1>3. /\ q \in Nat
      /\ q * UsecPerMs <= d.usec /\ d.usec < q * UsecPerMs + UsecPerMs
      /\ q * UsecPerMs \in Int
  BY <1>1, UnitsPositive, TimeAssumption, SMT
<1>4. /\ n \in Int /\ n * UsecPerMs \in Int
      /\ n * UsecPerMs = d.sec * UsecPerSec + q * UsecPerMs
      /\ (n - 1) * UsecPerMs = n * UsecPerMs - UsecPerMs
  <2>1. \A s, m \in Int, k, u \in Nat : (s * m + k) * u = s * (m * u) + k * u
    BY SMT
  <2>2. n \in Int
    BY <1>1, <1>3, UnitsPositive, Distributes
  <2>3. n * UsecPerMs = d.sec * UsecPerSec + q * UsecPerMs
    BY <2>1, <1>1, <1>3, UnitsPositive, TimeAssumption
  <2>. QED
    BY <2>2, <2>3, Distributes, TimeAssumption
<1>5. left = d.sec * UsecPerSec + d.usec /\ d.sec * UsecPerSec \in Int
  BY <1>1, UnitsPositive, Distributes DEF Micros
<1>6. n * UsecPerMs <= left /\ left < n * UsecPerMs + UsecPerMs
  BY <1>1, <1>3, <1>4, <1>5, TimeAssumption
<1>7. CASE left <= 0
  <2>1. timevalRemainingMs(deadline, at) = 0
    BY <1>1, <1>2, <1>7, MicrosType DEF timevalRemainingMs
  <2>. QED
    BY <2>1, <1>1, <1>7
<1>8. CASE left > 0 /\ n <= 0
  <2>1. timevalRemainingMs(deadline, at) = 1
    BY <1>2, <1>8 DEF timevalRemainingMs
  <2>. QED
    BY <2>1, <1>1, <1>8, TimeAssumption
<1>9. CASE left > 0 /\ n > 0
  <2>1. timevalRemainingMs(deadline, at) = n
    BY <1>2, <1>4, <1>9 DEF timevalRemainingMs
  <2>. QED
    BY <2>1, <1>1, <1>4, <1>6, <1>9, TimeAssumption
<1>. QED
  BY <1>1, <1>4, <1>7, <1>8, <1>9

-----------------------------------------------------------------------------
(* The guard time and the timeout. *)

LEMMA Typed ==
    /\ S12s \subseteq Nat /\ BufR \in Nat \ {0} /\ Worlds \subseteq BOOLEAN \X BOOLEAN
    /\ Start \in Timeval /\ UsecPerMs \in Nat \ {0} /\ ZeroT \in Timeval /\ Micros(ZeroT) = 0
    /\ Micros(Start) \in Int
<1>1. UsecPerSec \in Nat \ {0} /\ 0 * UsecPerSec = 0
  BY UnitsPositive
<1>2. ZeroT \in Timeval /\ Micros(ZeroT) = 0
  BY <1>1 DEF ZeroT, Timeval, Micros
<1>. QED BY <1>2, EscAssumption, TimeAssumption, MicrosType

\* A sum of at most a second more.
LEMMA AddSmall ==
    ASSUME NEW a \in Timeval, NEW d \in 0..UsecPerSec
    PROVE  /\ timevalAdd(a, [sec |-> 0, usec |-> d]) \in Timeval
           /\ Micros(timevalAdd(a, [sec |-> 0, usec |-> d])) = Micros(a) + d
<1>1. /\ a.sec \in Int /\ a.usec \in 0..(UsecPerSec - 1) /\ a.sec + 0 = a.sec
      /\ UsecPerSec \in Nat \ {0}
  BY UnitsPositive DEF Timeval
<1>2. /\ (a.sec + 1) * UsecPerSec = a.sec * UsecPerSec + UsecPerSec
      /\ a.sec * UsecPerSec \in Int
  <2>1. (a.sec + 0 + 1) * UsecPerSec = a.sec * UsecPerSec + 0 * UsecPerSec + UsecPerSec
    BY <1>1, Distributes
  <2>2. 0 * UsecPerSec = 0 /\ a.sec * UsecPerSec \in Int
    BY <1>1, Distributes
  <2>. QED BY <1>1, <2>1, <2>2
<1>3. CASE a.usec + d >= UsecPerSec
  <2>1. timevalAdd(a, [sec |-> 0, usec |-> d])
          = [sec |-> a.sec + 1, usec |-> a.usec + d - UsecPerSec]
    BY <1>1, <1>3 DEF timevalAdd
  <2>. QED BY <1>1, <1>2, <1>3, <2>1 DEF Timeval, Micros
<1>4. CASE ~(a.usec + d >= UsecPerSec)
  <2>1. timevalAdd(a, [sec |-> 0, usec |-> d]) = [sec |-> a.sec, usec |-> a.usec + d]
    BY <1>1, <1>4 DEF timevalAdd
  <2>. QED BY <1>1, <1>2, <1>4, <2>1 DEF Timeval, Micros
<1>. QED BY <1>3, <1>4

LEMMA Smalls == 1 \in 0..UsecPerSec /\ UsecPerMs \in 0..UsecPerSec
<1>1. MsPerSec \in Nat \ {0} /\ UsecPerSec = MsPerSec * UsecPerMs /\ UsecPerMs \in Nat \ {0}
      /\ UsecPerSec \in Nat \ {0}
  BY UnitsPositive, TimeAssumption
<1>2. 0 * UsecPerMs + UsecPerMs <= MsPerSec * UsecPerMs
  BY <1>1, SecondsDecide
<1>. QED BY <1>1, <1>2

Guard == s12 * 2 * UsecPerTen

LEMMA GuardIs ==
    ASSUME s12 \in S12s
    PROVE  /\ guardTime \in Timeval /\ Micros(guardTime) = Guard /\ Guard \in Nat
           /\ Micros(Start) > Guard
<1>1. s12 \in Nat /\ s12 * 2 \in Nat /\ UsecPerTen \in Nat
  BY Typed, UnitsPositive
<1>2. \A a, b \in Nat : a * b \in Nat
  BY SMT
<1>3. guardTime \in Timeval /\ Micros(guardTime) = s12 * 2 * UsecPerTen
  BY <1>1, Set10msIsExact DEF guardTime
<1>. QED BY <1>1, <1>2, <1>3, EscAssumption DEF Guard

LEMMA Passed ==
    ASSUME s12 \in S12s, NEW a \in Timeval, NEW b \in Timeval
    PROVE  /\ timevalAdd(guardTime, b) \in Timeval
           /\ Micros(timevalAdd(guardTime, b)) = Micros(b) + Guard
           /\ Micros(timevalAdd(b, guardTime)) = Micros(b) + Guard
           /\ timevalAdd(b, guardTime) \in Timeval
           /\ s12timePassed(a, b) <=> Micros(a) > Micros(b) + Guard
           /\ s12timePassed(a, b) \in BOOLEAN
<1>1. guardTime \in Timeval /\ Micros(guardTime) = Guard /\ Guard \in Nat
      /\ Micros(a) \in Int /\ Micros(b) \in Int
  BY GuardIs, MicrosType
<1>2. /\ timevalAdd(guardTime, b) \in Timeval
      /\ Micros(timevalAdd(guardTime, b)) = Micros(guardTime) + Micros(b)
      /\ timevalAdd(b, guardTime) \in Timeval
      /\ Micros(timevalAdd(b, guardTime)) = Micros(b) + Micros(guardTime)
  BY <1>1, AddIsSum
<1>3. s12timePassed(a, b) <=> Micros(a) > Micros(timevalAdd(guardTime, b))
  BY <1>2, CmpIsOrder DEF s12timePassed, timePassed
<1>4. s12timePassed(a, b) \in BOOLEAN
  BY DEF s12timePassed, timePassed
<1>. QED BY <1>1, <1>2, <1>3, <1>4

LEMMA NotBefore ==
    ASSUME NEW a \in Timeval, NEW b \in Timeval
    PROVE  timevalCmp(a, b) >= 0 <=> Micros(a) >= Micros(b)
BY CmpIsOrder, MicrosType

\* The end of a sleep of ms milliseconds.
LEMMA LaterIs ==
    ASSUME now \in Timeval, NEW ms \in Nat
    PROVE  msLater(ms) \in Timeval /\ Micros(msLater(ms)) = Micros(now) + ms * UsecPerMs
<1>. DEFINE q == ms \div MsPerSec
            r == ms % MsPerSec
            t == [sec |-> q, usec |-> r * UsecPerMs]
<1>1. MsPerSec \in Nat \ {0} /\ UsecPerMs \in Nat \ {0} /\ UsecPerSec \in Nat \ {0}
      /\ UsecPerSec = MsPerSec * UsecPerMs
  BY UnitsPositive, TimeAssumption
<1>2. q \in Nat /\ r \in 0..(MsPerSec - 1) /\ ms = MsPerSec * q + r
  BY <1>1, SMT
<1>3. r * UsecPerMs \in Nat
  <2>1. \A a, b \in Nat : a * b \in Nat
    BY SMT
  <2>. QED BY <1>1, <1>2, <2>1
<1>4. r * UsecPerMs + UsecPerMs <= UsecPerSec
  BY <1>1, <1>2, SecondsDecide
<1>5. ms * UsecPerMs = q * UsecPerSec + r * UsecPerMs
  <2>1. MsPerSec \in Nat /\ q \in Nat /\ r \in Nat /\ UsecPerMs \in Nat
    BY <1>1, <1>2
  <2>2. (MsPerSec * q + r) * UsecPerMs = q * (MsPerSec * UsecPerMs) + r * UsecPerMs
    <3>. HIDE DEF q, r
    <3>. QED BY <2>1, ProductOfSum
  <2>. QED BY <1>1, <1>2, <2>2
<1>6. t \in Timeval /\ Micros(t) = ms * UsecPerMs
  <2>. HIDE DEF q, r
  <2>. QED BY <1>1, <1>2, <1>3, <1>4, <1>5 DEF Timeval, Micros
<1>7. msLater(ms) = timevalAdd(now, t)
  BY DEF msLater
<1>. HIDE DEF t
<1>. QED BY <1>6, <1>7, AddIsSum

-----------------------------------------------------------------------------
(* What the detector knows of the bytes it has handled. *)

\* The byte b comes a guard time after the byte a, or in the same read.
Waited(a, b) == a.t = b.t \/ timePassed(b.guard, b.t, a.t)

\* The bytes h lead to the state of e: the first + of the sequence came after a
\* silence, and the others within the guard time of it.
Knows(e, h) ==
    LET n == Len(h)
        opens(b) == b.c = "+" /\ timePassed(b.guard, b.t, b.before)
        follows(a, b) == b.c = "+" /\ ~timePassed(b.guard, b.t, a.t)
    IN  /\ e.state = "P1" => /\ n >= 1 /\ opens(h[n]) /\ e.plus1T = h[n].t
                             /\ n >= 2 => Waited(h[n - 1], h[n])
        /\ e.state = "P2" => /\ n >= 2 /\ opens(h[n - 1]) /\ e.plus1T = h[n - 1].t
                             /\ follows(h[n - 1], h[n])
                             /\ n >= 3 => Waited(h[n - 2], h[n - 1])
        /\ e.state = "P3" => /\ n >= 3 /\ opens(h[n - 2])
                             /\ follows(h[n - 2], h[n - 1]) /\ follows(h[n - 2], h[n])
                             /\ n >= 4 => Waited(h[n - 3], h[n - 2])
                             /\ e.checkSilence /\ e.expireT = timevalAdd(h[n].guard, h[n].t)

\* The last byte of h was in the read at time new, or in none after that at time prev.
Recent(h, new, prev) ==
    Len(h) >= 1 => h[Len(h)].t = new \/ Micros(h[Len(h)].t) <= Micros(prev)

\* The guard is armed, and not for what was just handled.
Inherited(e) == e.checkSilence /\ e.state # "P3"

LEMMA ByteHandled ==
    ASSUME s12 \in S12s, NEW e \in Escseq, NEW h \in Seq(Heard), Knows(e, h),
           NEW b \in Heard, b.guard = guardTime, Recent(h, b.t, b.before),
           NEW f, f = escSeqHandle(e, b.c, b.t, b.before)
    PROVE  f \in Escseq /\ Knows(f, Append(h, b)) /\ (Inherited(f) => Inherited(e))
<1>. DEFINE n == Len(h)
            g == Append(h, b)
            again == b.c = "+" /\ ~s12timePassed(b.t, e.plus1T)
            drop == [e EXCEPT !.state = "NORM"]
            over == [drop EXCEPT !.checkSilence = FALSE]
            opens(x) == x.c = "+" /\ timePassed(x.guard, x.t, x.before)
            follows(x) == b.c = "+" /\ ~timePassed(b.guard, b.t, x.t)
            first(x) == IF opens(b) THEN [x EXCEPT !.state = "P1", !.plus1T = b.t] ELSE x
<1>1. n \in Nat /\ Len(g) = n + 1 /\ g[n + 1] = b /\ \A i \in 1..n : g[i] = h[i]
  BY AppendProperties, EmptyLen
<1>2. b.c \in Char /\ b.t \in Timeval /\ b.before \in Timeval /\ b.guard \in Timeval
  BY DEF Heard
<1>3. /\ e.state \in {"NORM", "P1", "P2", "P3"} /\ e.plus1T \in Timeval
      /\ e.checkSilence \in BOOLEAN /\ e.expireT \in Timeval
      /\ drop \in Escseq /\ drop.state = "NORM" /\ drop.checkSilence = e.checkSilence
      /\ over \in Escseq /\ over.state = "NORM" /\ ~over.checkSilence
  BY DEF Escseq
<1>0. /\ s12timePassed(b.t, b.before) <=> timePassed(b.guard, b.t, b.before)
      /\ s12timePassed(b.t, e.plus1T) <=> timePassed(b.guard, b.t, e.plus1T)
  BY DEF s12timePassed
<1>. HIDE DEF g, drop, over
<1>w. opens(b) /\ n >= 1 => Waited(h[n], b)
  <2>. SUFFICES ASSUME opens(b), n >= 1, h[n].t # b.t
                PROVE  timePassed(b.guard, b.t, h[n].t)
    BY DEF Waited
  <2>1. h[n] \in Heard
    BY <1>1, ElementOfSeq
  <2>2. h[n].t \in Timeval
    BY <2>1 DEF Heard
  <2>3. Micros(h[n].t) <= Micros(b.before)
    BY DEF Recent
  <2>4. s12timePassed(b.t, b.before)
    BY <1>0
  <2>5. /\ Micros(b.t) > Micros(b.before) + Guard
        /\ Micros(b.t) \in Int /\ Micros(b.before) \in Int /\ Micros(h[n].t) \in Int
        /\ Guard \in Int
    BY <1>2, <2>2, <2>4, Passed, GuardIs, MicrosType
  <2>6. Micros(b.t) > Micros(h[n].t) + Guard
    BY <2>3, <2>5
  <2>7. s12timePassed(b.t, h[n].t)
    BY <1>2, <2>2, <2>6, Passed
  <2>. QED BY <2>7 DEF s12timePassed
<1>4. ASSUME NEW x \in Escseq, x.state = "NORM", f = first(x), x.checkSilence => Inherited(e)
      PROVE  f \in Escseq /\ Knows(f, g) /\ (Inherited(f) => Inherited(e))
  <2>1. CASE opens(b)
    <3>1. f = [x EXCEPT !.state = "P1", !.plus1T = b.t]
      BY <1>4, <2>1
    <3>2. f \in Escseq /\ f.state = "P1" /\ f.plus1T = b.t /\ f.checkSilence = x.checkSilence
      BY <1>2, <3>1 DEF Escseq
    <3>3. Len(g) >= 1 /\ g[Len(g)] = b
      BY <1>1
    <3>4. Len(g) >= 2 => n >= 1 /\ Len(g) - 1 = n /\ g[n] = h[n]
      BY <1>1
    <3>5. Len(g) >= 2 => Waited(g[Len(g) - 1], g[Len(g)])
      BY <1>w, <2>1, <3>3, <3>4
    <3>. QED BY <1>4, <2>1, <3>2, <3>3, <3>5 DEF Knows, Inherited
  <2>2. CASE ~opens(b)
    <3>1. f = x
      BY <1>4, <2>2
    <3>. QED BY <1>4, <3>1 DEF Knows, Inherited
  <2>. QED BY <2>1, <2>2
<1>5. CASE e.state = "NORM"
  <2>1. f = first(e)
    BY <1>0, <1>5 DEF escSeqHandle
  <2>. QED BY <1>4, <1>5, <2>1 DEF g, Inherited
<1>6. ASSUME f = drop, e.state # "P3"
      PROVE  f \in Escseq /\ Knows(f, g) /\ (Inherited(f) => Inherited(e))
  BY <1>3, <1>6 DEF Knows, Inherited
<1>7. CASE e.state = "P1"
  <2>1. f = IF again THEN [e EXCEPT !.state = "P2"] ELSE drop
    BY <1>7 DEF escSeqHandle, drop
  <2>2. CASE again
    <3>1. f = [e EXCEPT !.state = "P2"]
      BY <2>1, <2>2
    <3>2. f \in Escseq /\ f.state = "P2" /\ f.plus1T = e.plus1T
          /\ f.checkSilence = e.checkSilence
      BY <3>1 DEF Escseq
    <3>3. n >= 1 /\ opens(h[n]) /\ e.plus1T = h[n].t /\ (n >= 2 => Waited(h[n - 1], h[n]))
      BY <1>7 DEF Knows
    <3>4. n + 1 >= 2 /\ (n + 1) - 1 = n /\ (n + 1) - 2 = n - 1 /\ g[n] = h[n]
      BY <1>1, <3>3
    <3>5. n + 1 >= 3 => n >= 2 /\ g[n - 1] = h[n - 1]
      BY <1>1
    <3>6. follows(h[n])
      BY <1>0, <2>2, <3>3
    <3>7. Knows(f, g)
      BY <1>1, <3>2, <3>3, <3>4, <3>5, <3>6 DEF Knows
    <3>. QED BY <1>7, <3>2, <3>7 DEF Inherited, g
  <2>. QED BY <1>6, <1>7, <2>1, <2>2 DEF g
<1>8. CASE e.state = "P2"
  <2>1. f = IF again THEN [e EXCEPT !.state = "P3", !.checkSilence = TRUE,
                                    !.expireT = timevalAdd(guardTime, b.t)] ELSE drop
    BY <1>8 DEF escSeqHandle, drop
  <2>2. CASE again
    <3>1. timevalAdd(guardTime, b.t) \in Timeval
      BY <1>2, Passed
    <3>2. f = [e EXCEPT !.state = "P3", !.checkSilence = TRUE,
                        !.expireT = timevalAdd(guardTime, b.t)]
      BY <2>1, <2>2
    <3>3. f \in Escseq /\ f.state = "P3" /\ f.checkSilence
          /\ f.expireT = timevalAdd(guardTime, b.t)
      BY <3>1, <3>2 DEF Escseq
    <3>4. /\ n >= 2 /\ opens(h[n - 1]) /\ e.plus1T = h[n - 1].t
          /\ h[n].c = "+" /\ ~timePassed(h[n].guard, h[n].t, h[n - 1].t)
          /\ n >= 3 => Waited(h[n - 2], h[n - 1])
      BY <1>8 DEF Knows
    <3>5. n + 1 >= 3 /\ (n + 1) - 2 = n - 1 /\ (n + 1) - 1 = n /\ (n + 1) - 3 = n - 2
          /\ g[n - 1] = h[n - 1] /\ g[n] = h[n]
      BY <1>1, <3>4
    <3>6. n + 1 >= 4 => n >= 3 /\ g[n - 2] = h[n - 2]
      BY <1>1
    <3>7. follows(h[n - 1])
      BY <1>0, <2>2, <3>4
    <3>8. f.expireT = timevalAdd(b.guard, b.t)
      BY <3>3
    <3>9. Knows(f, g)
      BY <1>1, <3>3, <3>4, <3>5, <3>6, <3>7, <3>8 DEF Knows
    <3>. QED BY <3>3, <3>9 DEF Inherited, g
  <2>. QED BY <1>6, <1>8, <2>1, <2>2 DEF g
<1>9. CASE e.state = "P3"
  <2>1. f = first(over)
    BY <1>0, <1>9 DEF escSeqHandle, drop, over
  <2>. QED BY <1>3, <1>4, <2>1 DEF g
<1>. QED BY <1>3, <1>5, <1>7, <1>8, <1>9

LEMMA LastOfIs ==
    ASSUME NEW S, NEW s \in Seq(S), NEW m \in Nat
    PROVE  LET g == LastOf(s, m)
           IN  /\ g \in Seq(S) /\ Len(g) = Least(Len(s), m) /\ Len(g) \in Nat
               /\ Len(g) <= m /\ Len(g) <= Len(s)
               /\ \A i \in 0..(Len(g) - 1) : g[Len(g) - i] = s[Len(s) - i]
               /\ Len(s) <= m => g = s
<1>1. Len(s) \in Nat
  BY EmptyLen
<1>2. CASE Len(s) <= m
  BY <1>1, <1>2 DEF LastOf, Least
<1>3. CASE ~(Len(s) <= m)
  <2>. DEFINE a == Len(s) - m
              g == SubSeq(s, a + 1, Len(s))
  <2>1. a \in Nat /\ a <= Len(s) /\ Len(s) <= Len(s) /\ Len(s) - a = m /\ Len(s) \in Nat
    BY <1>1, <1>3
  <2>. HIDE DEF a
  <2>2. g \in Seq(S) /\ Len(g) = m /\ \A i \in 1..m : g[i] = s[a + i]
    BY <2>1, PartIs
  <2>3. LastOf(s, m) = g
    BY <1>3, <2>1 DEF LastOf, a
  <2>4. ASSUME NEW i \in 0..(m - 1) PROVE g[m - i] = s[Len(s) - i]
    <3>1. m - i \in 1..m /\ a + (m - i) = Len(s) - i
      BY <2>1 DEF a
    <3>. QED BY <2>2, <3>1
  <2>. HIDE DEF g
  <2>. QED BY <1>1, <1>3, <2>2, <2>3, <2>4 DEF Least
<1>. QED BY <1>2, <1>3

LEMMA LastKnown ==
    ASSUME NEW e, NEW h \in Seq(Heard), Knows(e, h),
           NEW new, NEW prev, Recent(h, new, prev)
    PROVE  /\ Recent(LastOf(h, 4), new, prev)
           /\ Knows(e, LastOf(h, 4)) /\ LastOf(h, 4) \in Seq(Heard) /\ Len(LastOf(h, 4)) <= 4
<1>. DEFINE g == LastOf(h, 4)
<1>1. /\ g \in Seq(Heard) /\ Len(g) \in Nat /\ Len(g) = Least(Len(h), 4) /\ Len(g) <= 4
      /\ \A i \in 0..(Len(g) - 1) : g[Len(g) - i] = h[Len(h) - i]
  BY LastOfIs
<1>. HIDE DEF g
<1>2. Len(h) \in Nat
  BY EmptyLen
<1>3. /\ Len(h) >= 1 => Len(g) >= 1 /\ g[Len(g)] = h[Len(h)]
      /\ Len(h) >= 2 => Len(g) >= 2 /\ g[Len(g) - 1] = h[Len(h) - 1]
      /\ Len(h) >= 3 => Len(g) >= 3 /\ g[Len(g) - 2] = h[Len(h) - 2]
      /\ Len(h) >= 4 => Len(g) >= 4 /\ g[Len(g) - 3] = h[Len(h) - 3]
      /\ Len(g) <= Len(h)
  <2>1. \A k \in 1..4 : Len(h) >= k => Len(g) >= k
    BY <1>1, <1>2 DEF Least
  <2>2. ASSUME NEW k \in 0..3, Len(h) >= k + 1 PROVE g[Len(g) - k] = h[Len(h) - k]
    <3>1. Len(g) >= k + 1
      BY <1>1, <1>2, <2>1, <2>2
    <3>2. k \in 0..(Len(g) - 1)
      BY <1>1, <3>1
    <3>. QED BY <1>1, <3>2
  <2>3. Len(g) <= Len(h)
    BY <1>1, <1>2 DEF Least
  <2>4. Len(h) >= 1 => g[Len(g) - 0] = h[Len(h) - 0]
    BY <2>2
  <2>5. Len(g) - 0 = Len(g) /\ Len(h) - 0 = Len(h)
    BY <1>1, <1>2
  <2>6. /\ Len(h) >= 2 => g[Len(g) - 1] = h[Len(h) - 1]
        /\ Len(h) >= 3 => g[Len(g) - 2] = h[Len(h) - 2]
        /\ Len(h) >= 4 => g[Len(g) - 3] = h[Len(h) - 3]
    BY <2>2
  <2>. QED BY <2>1, <2>3, <2>4, <2>5, <2>6
<1>4. Knows(e, g)
  BY <1>2, <1>3 DEF Knows
<1>5. Recent(g, new, prev)
  <2>1. Len(g) >= 1 => Len(h) >= 1
    BY <1>1, <1>2, <1>3
  <2>. QED BY <1>3, <2>1 DEF Recent
<1>. QED BY <1>1, <1>4, <1>5 DEF g

-----------------------------------------------------------------------------
(* A read. *)

\* In a session: the guard that is armed is that of the +++ just handled, or one
\* of the session before.
Sound(x) ==
    /\ Knows(x.esc, x.heard) /\ (Inherited(x.esc) => x.stale)
    /\ Recent(x.heard, x.newT, x.prevT)

\* The times of the reads are in order.
Paced(x, t) == /\ 0 <= Micros(x.prevT) /\ Micros(x.prevT) <= Micros(x.newT)
               /\ Micros(x.newT) <= Micros(t)

LEMMA ReaderIs ==
    ASSUME NEW x \in Reader
    PROVE  /\ x.online \in BOOLEAN /\ x.bufR \in Seq(Char) /\ x.prevT \in Timeval
           /\ x.newT \in Timeval /\ x.esc \in Escseq /\ x.stop \in BOOLEAN
           /\ x.heard \in Seq(Heard) /\ x.stale \in BOOLEAN
           /\ x = [online |-> x.online, bufR |-> x.bufR, prevT |-> x.prevT, newT |-> x.newT,
                   esc |-> x.esc, stop |-> x.stop, heard |-> x.heard, stale |-> x.stale]
BY DEF Reader

\* The detector after k bytes of a read.
detects(x, k) ==
    LET turn[i \in 0..k] ==
            IF i = 0 THEN x.esc ELSE escSeqHandle(turn[i - 1], x.bufR[i], x.newT, x.prevT)
    IN  turn[k]

bytesOf(x, k) == [i \in 1..k |-> [c |-> x.bufR[i], t |-> x.newT, before |-> x.prevT,
                                  guard |-> guardTime]]

LEMMA OneMore ==
    ASSUME NEW S, NEW a \in Seq(S), NEW s \in Seq(S), NEW n \in 1..Len(s)
    PROVE  a \o SubSeq(s, 1, n) = Append(a \o SubSeq(s, 1, n - 1), s[n])
<1>. DEFINE p == SubSeq(s, 1, n - 1)
<1>1. Len(s) \in Nat /\ n - 1 \in Nat /\ n - 1 < Len(s) /\ (n - 1) + 1 = n /\ n - 1 \in 0..Len(s)
      /\ Len(s) <= Len(s)
  BY EmptyLen
<1>2. /\ s[(n - 1) + 1] \in S
      /\ SubSeq(s, 1, (n - 1) + 1) = Append(SubSeq(s, 1, n - 1), s[(n - 1) + 1])
  BY <1>1, PartMoves
<1>3. s[n] \in S /\ SubSeq(s, 1, n) = Append(p, s[n])
  BY <1>1, <1>2
<1>4. p \in Seq(S)
  BY <1>1, Cut
<1>. HIDE DEF p
<1>5. a \o Append(p, s[n]) = Append(a \o p, s[n])
  BY <1>3, <1>4, JoinAppend
<1>. QED BY <1>3, <1>5 DEF p

LEMMA Detects ==
    ASSUME s12 \in S12s, NEW x \in Reader, Sound(x), NEW k \in 0..Len(x.bufR)
    PROVE  /\ detects(x, k) \in Escseq
           /\ Knows(detects(x, k), x.heard \o bytesOf(x, k))
           /\ x.heard \o bytesOf(x, k) \in Seq(Heard)
           /\ Recent(x.heard \o bytesOf(x, k), x.newT, x.prevT)
           /\ Inherited(detects(x, k)) => Inherited(x.esc)
           /\ k = 1 => detects(x, k) = escSeqHandle(x.esc, x.bufR[1], x.newT, x.prevT)
<1>. DEFINE b == bytesOf(x, k)
            past(n) == x.heard \o SubSeq(b, 1, n)
            J == [n \in 0..k |-> {e \in Escseq : Knows(e, past(n))
                                               /\ (Inherited(e) => Inherited(x.esc))}]
            step(e, n) == escSeqHandle(e, x.bufR[n], x.newT, x.prevT)
            h == [n \in 1..k |-> [e \in Escseq |-> step(e, n)]]
            turn[i \in 0..k] ==
              IF i = 0 THEN x.esc ELSE escSeqHandle(turn[i - 1], x.bufR[i], x.newT, x.prevT)
<1>1. k \in Nat /\ \A i \in 1..k : x.bufR[i] \in Char
  <2>1. Len(x.bufR) \in Nat
    BY ReaderIs, EmptyLen
  <2>2. \A i \in 1..Len(x.bufR) : x.bufR[i] \in Char
    BY ReaderIs, ElementOfSeq
  <2>. QED BY <2>1, <2>2
<1>2. \A i \in 1..k : [c |-> x.bufR[i], t |-> x.newT, before |-> x.prevT,
                       guard |-> guardTime] \in Heard
  BY <1>1, ReaderIs, GuardIs DEF Heard
<1>3. /\ b \in Seq(Heard) /\ Len(b) = k
      /\ \A i \in 1..k : b[i] = [c |-> x.bufR[i], t |-> x.newT, before |-> x.prevT,
                                 guard |-> guardTime]
  BY <1>1, <1>2 DEF bytesOf
<1>. HIDE DEF b
<1>4. /\ past(0) = x.heard /\ past(k) = x.heard \o b /\ past(k) \in Seq(Heard)
      /\ \A n \in 0..k : past(n) \in Seq(Heard)
      /\ \A n \in 1..k : past(n) = Append(past(n - 1), b[n])
  <2>1. x.heard \in Seq(Heard)
    BY ReaderIs
  <2>2. SubSeq(b, 1, 0) = <<>> /\ SubSeq(b, 1, k) = b
    BY <1>1, <1>3, Cut
  <2>3. \A n \in 0..k : SubSeq(b, 1, n) \in Seq(Heard)
    BY <1>1, <1>3, Cut
  <2>4. \A n \in 0..k : past(n) \in Seq(Heard)
    BY <2>1, <2>3, ConcatProperties
  <2>5. \A n \in 1..k : past(n) = Append(past(n - 1), b[n])
    BY <1>1, <1>3, <2>1, OneMore
  <2>6. x.heard \o <<>> = x.heard
    BY <2>1, ConcatEmptySeq
  <2>7. k \in 0..k
    BY <1>1
  <2>. QED BY <2>2, <2>4, <2>5, <2>6, <2>7
<1>. HIDE DEF past
<1>r. \A n \in 0..k : Recent(past(n), x.newT, x.prevT)
  <2>1. Recent(past(0), x.newT, x.prevT)
    BY <1>4 DEF Sound
  <2>2. ASSUME NEW n \in 1..k PROVE Recent(past(n), x.newT, x.prevT)
    <3>1. n - 1 \in 0..k
      BY <1>1
    <3>2. past(n - 1) \in Seq(Heard) /\ past(n) = Append(past(n - 1), b[n])
      BY <1>4, <3>1
    <3>3. past(n)[Len(past(n))] = b[n]
      BY <3>2
    <3>4. b[n].t = x.newT
      BY <1>3
    <3>. QED BY <3>3, <3>4 DEF Recent
  <2>3. \A n \in 0..k : n = 0 \/ n \in 1..k
    BY <1>1
  <2>. QED BY <2>1, <2>2, <2>3
<1>5. ASSUME NEW n \in 1..k, NEW e \in J[n - 1] PROVE step(e, n) \in J[n] /\ e \in Escseq
  <2>1. n - 1 \in 0..k /\ n \in 0..k
    BY <1>1
  <2>2. e \in Escseq /\ Knows(e, past(n - 1)) /\ (Inherited(e) => Inherited(x.esc))
    BY <2>1
  <2>3. b[n] \in Heard /\ b[n].c = x.bufR[n] /\ b[n].t = x.newT /\ b[n].before = x.prevT
        /\ b[n].guard = guardTime /\ Recent(past(n - 1), b[n].t, b[n].before)
    BY <1>2, <1>3, <1>r, <2>1
  <2>4. step(e, n) = escSeqHandle(e, b[n].c, b[n].t, b[n].before)
    BY <2>3
  <2>5. past(n - 1) \in Seq(Heard) /\ past(n) = Append(past(n - 1), b[n])
    BY <1>4, <2>1
  <2>. HIDE DEF step
  <2>6. /\ step(e, n) \in Escseq /\ Knows(step(e, n), past(n))
        /\ Inherited(step(e, n)) => Inherited(e)
    BY <2>2, <2>3, <2>4, <2>5, ByteHandled
  <2>. QED BY <2>1, <2>2, <2>6
<1>6. x.esc \in J[0]
  BY <1>1, <1>4, ReaderIs DEF Sound
<1>7. \A n \in 1..k : \A e \in J[n - 1] : h[n][e] = step(e, n) /\ h[n][e] \in J[n]
  <2>. HIDE DEF J, step
  <2>. QED BY <1>5
<1>8. \A n \in 0..k : J[n] \subseteq Escseq
  OBVIOUS
<1>. HIDE DEF J, h, turn
<1>9. PICK f : Loop(f, k, Escseq, J, x.esc, h)
  <2>1. Turns(k, Escseq, J, h)
    BY <1>7, <1>8 DEF Turns
  <2>. QED BY <1>1, <1>6, <2>1, LoopExists
<1>10. /\ f \in [0..k -> Escseq] /\ f[0] = x.esc /\ \A n \in 0..k : f[n] \in J[n]
       /\ \A n \in 1..k : f[n] = h[n][f[n - 1]]
  BY <1>9 DEF Loop
<1>11. \A n \in 1..k : f[n] = escSeqHandle(f[n - 1], x.bufR[n], x.newT, x.prevT)
  <2>1. \A n \in 1..k : n - 1 \in 0..k
    BY <1>1
  <2>. QED BY <1>7, <1>10, <2>1
<1>12. f = [i \in 0..k |->
             IF i = 0 THEN x.esc ELSE escSeqHandle(f[i - 1], x.bufR[i], x.newT, x.prevT)]
  <2>1. \A i \in 0..k : f[i] = IF i = 0 THEN x.esc
                               ELSE escSeqHandle(f[i - 1], x.bufR[i], x.newT, x.prevT)
    <3>1. \A i \in 0..k : i = 0 \/ i \in 1..k
      BY <1>1
    <3>. QED BY <1>10, <1>11, <3>1
  <2>2. f = [i \in 0..k |-> f[i]]
    BY <1>10
  <2>. QED BY <2>1, <2>2
<1>13. turn = [i \in 0..k |->
             IF i = 0 THEN x.esc ELSE escSeqHandle(turn[i - 1], x.bufR[i], x.newT, x.prevT)]
  BY <1>12 DEF turn
<1>14. detects(x, k) = turn[k]
  BY DEF detects, turn
<1>15. \A n \in 0..k : turn[n] \in J[n]
  <2>1. turn[0] = x.esc
    BY <1>1, <1>13
  <2>2. ASSUME NEW n \in 1..k, turn[n - 1] \in J[n - 1] PROVE turn[n] \in J[n]
    <3>1. turn[n] = step(turn[n - 1], n)
      <4>1. n \in 0..k /\ n # 0
        BY <1>1
      <4>. QED BY <1>13, <4>1
    <3>. HIDE DEF step
    <3>. QED BY <1>5, <2>2, <3>1
  <2>. QED BY <1>1, <1>6, <2>1, <2>2, LoopStays
<1>16. detects(x, k) \in J[k]
  BY <1>1, <1>14, <1>15
<1>17. k = 1 => detects(x, k) = escSeqHandle(x.esc, x.bufR[1], x.newT, x.prevT)
  <2>1. ASSUME k = 1 PROVE turn[1] = escSeqHandle(x.esc, x.bufR[1], x.newT, x.prevT)
    <3>1. 1 \in 0..k /\ 0 \in 0..k /\ 1 # 0 /\ 1 - 1 = 0
      BY <2>1
    <3>2. turn[0] = x.esc /\ turn[1] = escSeqHandle(turn[0], x.bufR[1], x.newT, x.prevT)
      BY <1>13, <3>1
    <3>. QED BY <3>2
  <2>. QED BY <1>14, <2>1
<1>18. detects(x, k) \in Escseq /\ Knows(detects(x, k), past(k))
       /\ (Inherited(detects(x, k)) => Inherited(x.esc))
  BY <1>1, <1>16 DEF J
<1>19. Recent(past(k), x.newT, x.prevT)
  BY <1>1, <1>r
<1>. QED BY <1>4, <1>17, <1>18, <1>19 DEF b

LEMMA ReadLoop ==
    ASSUME s12 \in S12s, NEW x \in Reader, Sound(x), NEW k \in 0..Len(x.bufR),
           NEW z, z = ttyReadLoop(x, k)
    PROVE  /\ z \in Reader /\ Sound(z) /\ Len(z.heard) <= 4
           /\ z.online = x.online /\ z.prevT = x.prevT /\ z.newT = x.newT /\ z.stop = x.stop
           /\ z.bufR = SubSeq(x.bufR, k + 1, Len(x.bufR)) /\ Len(z.bufR) = Len(x.bufR) - k
           /\ k = 1 => z.esc = escSeqHandle(x.esc, x.bufR[1], x.newT, x.prevT)
<1>. DEFINE e == detects(x, k)
            b == bytesOf(x, k)
            g == LastOf(x.heard \o b, 4)
            r == SubSeq(x.bufR, k + 1, Len(x.bufR))
            s == x.stale /\ e.checkSilence /\ e.state # "P3"
<1>1. z = [x EXCEPT !.esc = e, !.bufR = r, !.heard = g, !.stale = s]
  BY DEF ttyReadLoop, detects, bytesOf
<1>2. /\ e \in Escseq /\ Knows(e, x.heard \o b) /\ x.heard \o b \in Seq(Heard)
      /\ Recent(x.heard \o b, x.newT, x.prevT)
      /\ Inherited(e) => Inherited(x.esc)
      /\ k = 1 => e = escSeqHandle(x.esc, x.bufR[1], x.newT, x.prevT)
  BY Detects
<1>. HIDE DEF e, b
<1>3. Knows(e, g) /\ g \in Seq(Heard) /\ Len(g) <= 4 /\ Recent(g, x.newT, x.prevT)
  BY <1>2, LastKnown
<1>4. r \in Seq(Char) /\ Len(r) = Len(x.bufR) - k
  BY ReaderIs, Cut
<1>5. s \in BOOLEAN /\ (Inherited(e) => s)
  BY <1>2, ReaderIs DEF Sound, Inherited, Escseq
<1>. HIDE DEF g, r, s
<1>6. /\ z.esc = e /\ z.bufR = r /\ z.heard = g /\ z.stale = s
      /\ z.online = x.online /\ z.prevT = x.prevT /\ z.newT = x.newT /\ z.stop = x.stop
      /\ z = [online |-> x.online, bufR |-> r, prevT |-> x.prevT, newT |-> x.newT,
              esc |-> e, stop |-> x.stop, heard |-> g, stale |-> s]
  BY <1>1, ReaderIs, ZenonT(60)
<1>7. z \in Reader
  BY <1>2, <1>3, <1>4, <1>5, <1>6, ReaderIs DEF Reader
<1>. QED BY <1>2, <1>3, <1>4, <1>5, <1>6, <1>7 DEF Sound, r

-----------------------------------------------------------------------------
(* The invariant. *)

IInv ==
    /\ TypeOK /\ s12 \in S12s /\ prompt \in BOOLEAN /\ appIO \in BOOLEAN
    /\ Len(heard) <= 4
    /\ online => Sound(Now)
    /\ Paced(Now, now)

LEMMA BecomesIs ==
    ASSUME NEW x \in Reader, Becomes(x)
    PROVE  Now' = x
<1>1. x = [online |-> x.online, bufR |-> x.bufR, prevT |-> x.prevT, newT |-> x.newT,
           esc |-> x.esc, stop |-> x.stop, heard |-> x.heard, stale |-> x.stale]
  BY ReaderIs
<1>. QED BY <1>1 DEF Now, Becomes

\* What poll() is told is the end of a sleep.
LEMMA WakeIs ==
    ASSUME now \in Timeval, NEW x \in Reader
    PROVE  /\ \A t \in onlinePollfds(x) : t \in Timeval
           /\ x.online /\ x.esc.checkSilence =>
                \E t \in onlinePollfds(x) :
                    /\ t \in Timeval
                    /\ Micros(t) <= Micros(now) \/ Micros(t) < Micros(x.esc.expireT) + UsecPerMs
<1>1. CASE x.online /\ x.esc.checkSilence
  <2>. DEFINE d == x.esc.expireT
              ms == timevalRemainingMs(d, now)
              t == msLater(ms)
              left == Micros(d) - Micros(now)
  <2>1. d \in Timeval /\ Micros(d) \in Int /\ Micros(now) \in Int /\ UsecPerMs \in Nat \ {0}
        /\ left \in Int
    BY ReaderIs, MicrosType, Typed DEF Escseq
  <2>2. /\ ms \in Nat /\ (ms = 0 <=> left <= 0)
        /\ ms > 1 => ms * UsecPerMs <= left
    BY <2>1, RemainingIsWakeup
  <2>. HIDE DEF ms
  <2>3. t \in Timeval /\ Micros(t) = Micros(now) + ms * UsecPerMs
    BY <2>2, LaterIs
  <2>4. onlinePollfds(x) = {t}
    BY <1>1 DEF onlinePollfds, ms
  <2>. HIDE DEF t, d
  <2>5. Micros(t) <= Micros(now) \/ Micros(t) < Micros(d) + UsecPerMs
    <3>1. CASE ms = 0
      BY <2>1, <2>3, <3>1
    <3>2. CASE ms = 1
      <4>1. left > 0 /\ Micros(t) = Micros(now) + UsecPerMs
        BY <2>1, <2>2, <2>3, <3>2
      <4>. QED BY <2>1, <4>1
    <3>3. CASE ms > 1
      <4>1. ms * UsecPerMs \in Int
        BY <2>1, <2>2, Distributes
      <4>2. ms * UsecPerMs <= left
        BY <2>2, <3>3
      <4>. HIDE DEF left
      <4>3. Micros(t) <= Micros(now) + left
        BY <2>1, <2>3, <4>1, <4>2
      <4>4. Micros(t) \in Int
        BY <2>3, MicrosType
      <4>. QED BY <2>1, <4>3, <4>4 DEF left
    <3>. QED BY <2>2, <3>1, <3>2, <3>3
  <2>. QED BY <2>3, <2>4, <2>5 DEF d
<1>2. CASE ~(x.online /\ x.esc.checkSilence)
  BY <1>2 DEF onlinePollfds
<1>. QED BY <1>1, <1>2

\* A step of the modem that ends with the reader x.
LEMMA StepKeeps ==
    ASSUME IInv, NEW x \in Reader, Becomes(x), Len(x.bufR) <= BufR, Len(x.heard) <= 4,
           x.online => Sound(x), Paced(x, now),
           s12' \in S12s, ttyIn' \in Seq(Char)
    PROVE  IInv'
<1>1. Now' = x
  BY BecomesIs
<1>2. now' = now /\ prompt' = prompt /\ appIO' = appIO /\ wake' = onlinePollfds(x)
      /\ bufR' = x.bufR /\ heard' = x.heard /\ online' = x.online
  BY DEF Becomes
<1>3. \A t \in onlinePollfds(x) : t \in Timeval
  BY WakeIs DEF IInv, TypeOK
<1>4. TypeOK'
  <2>1. (Now \in Reader)'
    <3>1. Reader' = Reader
      BY DEF Reader, Escseq
    <3>. QED BY <1>1, <3>1
  <2>2. now' \in Timeval
    BY <1>2 DEF IInv, TypeOK
  <2>. QED BY <1>2, <1>3, <2>1, <2>2 DEF TypeOK
<1>5. online' => Sound(Now)'
  <2>. SUFFICES ASSUME x.online PROVE Sound(Now)'
    BY <1>2
  <2>1. Sound(x)
    OBVIOUS
  <2>. QED BY <1>1, <2>1 DEF Sound, Knows, Inherited, Recent
<1>6. Paced(Now, now)'
  BY <1>1, <1>2 DEF Paced
<1>. QED BY <1>2, <1>4, <1>5, <1>6 DEF IInv

LEMMA InitIInv == Init => IInv
<1>. SUFFICES ASSUME Init PROVE IInv
  OBVIOUS
<1>1. PICK w \in Worlds : prompt = w[1] /\ appIO = w[2]
  BY DEF Init
<1>2. w \in BOOLEAN \X BOOLEAN
  BY Typed
<1>3. prompt \in BOOLEAN /\ appIO \in BOOLEAN
  BY <1>1, <1>2
<1>4. ZeroT \in Timeval /\ now \in Timeval /\ BufR \in Nat
  BY Typed DEF Init
<1>5. bufR \in Seq(Char) /\ ttyIn \in Seq(Char) /\ heard \in Seq(Heard)
      /\ Len(bufR) = 0 /\ Len(heard) = 0
  <2>1. bufR = <<>> /\ ttyIn = <<>> /\ heard = <<>>
    BY DEF Init
  <2>. QED BY <2>1
<1>6. esc \in Escseq
  BY <1>4 DEF Init, Escseq
<1>7. Now \in Reader
  BY <1>4, <1>5, <1>6 DEF Init, Now, Reader
<1>8. Paced(Now, now)
  <2>1. s12 \in S12s /\ now = Start /\ prevT = ZeroT /\ newT = ZeroT
    BY DEF Init
  <2>2. Guard \in Nat /\ Micros(Start) > Guard /\ Micros(Start) \in Int /\ Micros(ZeroT) = 0
    BY <2>1, GuardIs, Typed
  <2>. QED BY <2>1, <2>2 DEF Paced, Now
<1>. QED BY <1>3, <1>4, <1>5, <1>7, <1>8 DEF Init, IInv, TypeOK

-----------------------------------------------------------------------------
(* The steps. *)

LEMMA ResetFields ==
    ASSUME NEW x \in Reader
    PROVE  ttyBufRReset(x)
             = [online |-> x.online, bufR |-> <<>>, prevT |-> ZeroT, newT |-> x.newT,
                esc |-> x.esc, stop |-> x.stop, heard |-> x.heard, stale |-> x.stale]
<1>. DEFINE o == x.online
            n == x.newT
            e == x.esc
            s == x.stop
            h == x.heard
            l == x.stale
            b == x.bufR
            p == x.prevT
<1>1. x = [online |-> o, bufR |-> b, prevT |-> p, newT |-> n, esc |-> e, stop |-> s,
           heard |-> h, stale |-> l]
  BY ReaderIs
<1>2. ttyBufRReset(x) = [x EXCEPT !.bufR = <<>>, !.prevT = ZeroT]
  BY DEF ttyBufRReset
<1>. HIDE DEF o, n, e, s, h, l, b, p
<1>3. ttyBufRReset(x) = [online |-> o, bufR |-> <<>>, prevT |-> ZeroT, newT |-> n, esc |-> e,
                         stop |-> s, heard |-> h, stale |-> l]
  BY <1>1, <1>2
<1>. QED BY <1>3 DEF o, n, e, s, h, l

LEMMA CmdFields ==
    ASSUME NEW x \in Reader
    PROVE  stepEnterCmd(x)
             = [online |-> FALSE, bufR |-> <<>>, prevT |-> ZeroT, newT |-> x.newT,
                esc |-> x.esc, stop |-> FALSE, heard |-> <<>>, stale |-> FALSE]
<1>. DEFINE w == ttyBufRReset(x)
<1>1. w = [online |-> x.online, bufR |-> <<>>, prevT |-> ZeroT, newT |-> x.newT,
           esc |-> x.esc, stop |-> x.stop, heard |-> x.heard, stale |-> x.stale]
  BY ResetFields
<1>2. stepEnterCmd(x) = [w EXCEPT !.online = FALSE, !.stop = FALSE, !.heard = <<>>,
                                  !.stale = FALSE]
  BY DEF stepEnterCmd
<1>. HIDE DEF w
<1>. QED BY <1>1, <1>2

LEMMA EntersCmd ==
    ASSUME NEW x \in Reader, NEW b \in BOOLEAN
    PROVE  LET z == stepEnterCmd([x EXCEPT !.esc.checkSilence = b])
               y == stepEnterCmd(x)
           IN  /\ z \in Reader /\ ~z.online /\ z.bufR = <<>> /\ z.heard = <<>> /\ ~z.stop
               /\ z.newT = x.newT /\ z.prevT = ZeroT
               /\ y \in Reader /\ ~y.online /\ y.bufR = <<>> /\ y.heard = <<>> /\ ~y.stop
               /\ y.newT = x.newT /\ y.prevT = ZeroT
<1>. DEFINE z == stepEnterCmd([x EXCEPT !.esc.checkSilence = b])
            y == stepEnterCmd(x)
            e == [x.esc EXCEPT !.checkSilence = b]
<1>1. e \in Escseq /\ x.esc \in Escseq /\ x.newT \in Timeval /\ ZeroT \in Timeval
  BY ReaderIs, Typed DEF Escseq
<1>2. z = [online |-> FALSE, bufR |-> <<>>, prevT |-> ZeroT, newT |-> x.newT,
           esc |-> e, stop |-> FALSE, heard |-> <<>>, stale |-> FALSE]
  <2>. DEFINE w == [x EXCEPT !.esc.checkSilence = b]
  <2>1. w = [x EXCEPT !.esc = e]
    BY ReaderIs
  <2>2. w \in Reader /\ w.esc = e /\ w.newT = x.newT
    BY <1>1, <2>1 DEF Reader
  <2>. HIDE DEF w, e
  <2>3. stepEnterCmd(w) = [online |-> FALSE, bufR |-> <<>>, prevT |-> ZeroT, newT |-> w.newT,
                           esc |-> w.esc, stop |-> FALSE, heard |-> <<>>, stale |-> FALSE]
    BY <2>2, CmdFields
  <2>. QED BY <2>2, <2>3 DEF w
<1>3. y = [online |-> FALSE, bufR |-> <<>>, prevT |-> ZeroT, newT |-> x.newT,
           esc |-> x.esc, stop |-> FALSE, heard |-> <<>>, stale |-> FALSE]
  BY CmdFields
<1>4. <<>> \in Seq(Char) /\ <<>> \in Seq(Heard)
  OBVIOUS
<1>. HIDE DEF z, y, e
<1>5. z \in Reader /\ y \in Reader
  BY <1>1, <1>2, <1>3, <1>4 DEF Reader
<1>. QED BY <1>2, <1>3, <1>5 DEF z, y

LEMMA EntersOnline ==
    ASSUME NEW x \in Reader
    PROVE  LET z == stepEnterOnline(x)
           IN  /\ z \in Reader /\ z.online /\ z.bufR = <<>> /\ z.heard = <<>> /\ ~z.stop
               /\ z.newT = x.newT /\ z.prevT = ZeroT /\ z.esc.state = "NORM" /\ Sound(z)
<1>. DEFINE z == stepEnterOnline(x)
            e == [x.esc EXCEPT !.state = "NORM"]
<1>1. /\ e \in Escseq /\ e.state = "NORM" /\ e.checkSilence = x.esc.checkSilence
      /\ x.esc.checkSilence \in BOOLEAN /\ x.newT \in Timeval /\ ZeroT \in Timeval
  BY ReaderIs, Typed DEF Escseq
<1>2. z = [online |-> TRUE, bufR |-> <<>>, prevT |-> ZeroT, newT |-> x.newT,
           esc |-> e, stop |-> FALSE, heard |-> <<>>, stale |-> x.esc.checkSilence]
  <2>. DEFINE w == ttyBufRReset(x)
  <2>1. w = [online |-> x.online, bufR |-> <<>>, prevT |-> ZeroT, newT |-> x.newT,
             esc |-> x.esc, stop |-> x.stop, heard |-> x.heard, stale |-> x.stale]
    BY ResetFields
  <2>2. z = [w EXCEPT !.online = TRUE, !.stop = FALSE, !.esc = e, !.heard = <<>>,
                      !.stale = x.esc.checkSilence]
    BY DEF stepEnterOnline, escSeqReset
  <2>. HIDE DEF w, e, z
  <2>. QED BY <2>1, <2>2
<1>3. <<>> \in Seq(Char) /\ <<>> \in Seq(Heard)
  OBVIOUS
<1>. HIDE DEF z, e
<1>4. z \in Reader
  BY <1>1, <1>2, <1>3 DEF Reader
<1>5. Sound(z)
  <2>1. ~(Len(z.heard) >= 1)
    BY <1>2
  <2>. QED BY <1>1, <1>2, <2>1 DEF Sound, Knows, Inherited, Recent
<1>. QED BY <1>1, <1>2, <1>4, <1>5 DEF z

\* read(), of the first n bytes that wait, and what reading changes.
LEMMA Reads ==
    ASSUME now \in Timeval, NEW x \in Reader, NEW s \in Seq(Char)
    PROVE  LET z == ttyBufRead(x, s)
           IN  /\ z \in Reader /\ z.online = x.online /\ z.bufR = x.bufR \o s
               /\ z.prevT = x.newT /\ z.newT = now /\ z.esc = x.esc /\ z.stop = x.stop
               /\ z.heard = x.heard /\ z.stale = x.stale
               /\ Len(z.bufR) = Len(x.bufR) + Len(s)
<1>. DEFINE b == x.bufR \o s
            z == [x EXCEPT !.bufR = b, !.prevT = x.newT, !.newT = now]
<1>1. b \in Seq(Char) /\ Len(b) = Len(x.bufR) + Len(s)
  BY ReaderIs, ConcatProperties
<1>2. ttyBufRead(x, s) = z
  BY DEF ttyBufRead
<1>. HIDE DEF b
<1>3. /\ z \in Reader /\ z.online = x.online /\ z.bufR = b
      /\ z.prevT = x.newT /\ z.newT = now /\ z.esc = x.esc /\ z.stop = x.stop
      /\ z.heard = x.heard /\ z.stale = x.stale
  BY <1>1 DEF Reader
<1>. HIDE DEF z
<1>. QED BY <1>1, <1>2, <1>3 DEF b

\* The times stay in order when a session begins or ends, and when more is read.
LEMMA PacedOn ==
    ASSUME IInv, NEW z \in Reader, z.prevT = ZeroT, z.newT = newT
    PROVE  Paced(z, now)
<1>1. Paced(Now, now) /\ Now.prevT = prevT /\ Now.newT = newT /\ Now \in Reader
  BY DEF IInv, TypeOK, Now
<1>2. Micros(prevT) \in Int /\ Micros(newT) \in Int /\ Micros(now) \in Int
  BY <1>1, ReaderIs, MicrosType DEF IInv, TypeOK
<1>3. 0 <= Micros(newT) /\ Micros(newT) <= Micros(now)
  BY <1>1, <1>2 DEF Paced
<1>. QED BY <1>3, Typed DEF Paced

LEMMA PacedRead ==
    ASSUME IInv, NEW z \in Reader, z.prevT = newT, z.newT = now
    PROVE  Paced(z, now)
<1>1. Paced(Now, now) /\ Now.prevT = prevT /\ Now.newT = newT /\ Now \in Reader
  BY DEF IInv, TypeOK, Now
<1>2. Micros(prevT) \in Int /\ Micros(newT) \in Int /\ Micros(now) \in Int
  BY <1>1, ReaderIs, MicrosType DEF IInv, TypeOK
<1>3. 0 <= Micros(newT) /\ Micros(newT) <= Micros(now) /\ Micros(now) <= Micros(now)
  BY <1>1, <1>2 DEF Paced
<1>. QED BY <1>3 DEF Paced

LEMMA RecentRead ==
    ASSUME IInv, Sound(Now), NEW z \in Reader, z.heard = heard, z.prevT = newT
    PROVE  Recent(z.heard, z.newT, z.prevT)
<1>. SUFFICES ASSUME Len(heard) >= 1
              PROVE  Micros(heard[Len(heard)].t) <= Micros(newT)
  BY DEF Recent
<1>1. Paced(Now, now) /\ Now.prevT = prevT /\ Now.newT = newT /\ Now \in Reader
      /\ Now.heard = heard
  BY DEF IInv, TypeOK, Now
<1>2. heard[Len(heard)].t \in Timeval
  <2>1. heard \in Seq(Heard)
    BY <1>1, ReaderIs
  <2>2. Len(heard) \in 1..Len(heard)
    BY <2>1
  <2>3. heard[Len(heard)] \in Heard
    BY <2>1, <2>2, ElementOfSeq
  <2>. QED BY <2>3 DEF Heard
<1>3. Micros(prevT) \in Int /\ Micros(newT) \in Int /\ Micros(heard[Len(heard)].t) \in Int
  BY <1>1, <1>2, ReaderIs, MicrosType
<1>4. heard[Len(heard)].t = newT \/ Micros(heard[Len(heard)].t) <= Micros(prevT)
  BY <1>1 DEF Sound, Recent
<1>5. Micros(prevT) <= Micros(newT)
  BY <1>1 DEF Paced
<1>. QED BY <1>3, <1>4, <1>5

LEMMA StopSet ==
    ASSUME NEW y \in Reader, NEW s \in BOOLEAN
    PROVE  LET z == [y EXCEPT !.stop = s]
           IN  /\ z \in Reader /\ z.online = y.online /\ z.bufR = y.bufR /\ z.prevT = y.prevT
               /\ z.newT = y.newT /\ z.esc = y.esc /\ z.stop = s /\ z.heard = y.heard
               /\ z.stale = y.stale
BY DEF Reader

LEMMA StalledLoop ==
    ASSUME s12 \in S12s, NEW x \in Reader, Sound(x), NEW k \in 0..Len(x.bufR),
           NEW s \in BOOLEAN
    PROVE  LET z == [ttyReadLoop(x, k) EXCEPT !.stop = s]
           IN  /\ z \in Reader /\ Sound(z) /\ Len(z.heard) <= 4
               /\ z.online = x.online /\ z.prevT = x.prevT /\ z.newT = x.newT /\ z.stop = s
               /\ z.bufR = SubSeq(x.bufR, k + 1, Len(x.bufR)) /\ Len(z.bufR) = Len(x.bufR) - k
               /\ k = 1 => z.esc = escSeqHandle(x.esc, x.bufR[1], x.newT, x.prevT)
<1>. DEFINE y == ttyReadLoop(x, k)
            z == [y EXCEPT !.stop = s]
<1>1. /\ y \in Reader /\ Sound(y) /\ Len(y.heard) <= 4
      /\ y.online = x.online /\ y.prevT = x.prevT /\ y.newT = x.newT
      /\ y.bufR = SubSeq(x.bufR, k + 1, Len(x.bufR)) /\ Len(y.bufR) = Len(x.bufR) - k
      /\ k = 1 => y.esc = escSeqHandle(x.esc, x.bufR[1], x.newT, x.prevT)
  BY ReadLoop
<1>. HIDE DEF y
<1>2. /\ z \in Reader /\ z.online = y.online /\ z.bufR = y.bufR /\ z.prevT = y.prevT
      /\ z.newT = y.newT /\ z.esc = y.esc /\ z.stop = s /\ z.heard = y.heard
      /\ z.stale = y.stale
  BY <1>1, StopSet
<1>. HIDE DEF z
<1>3. Sound(z)
  BY <1>1, <1>2 DEF Sound
<1>4. /\ z \in Reader /\ Sound(z) /\ Len(z.heard) <= 4
      /\ z.online = x.online /\ z.prevT = x.prevT /\ z.newT = x.newT /\ z.stop = s
      /\ z.bufR = SubSeq(x.bufR, k + 1, Len(x.bufR)) /\ Len(z.bufR) = Len(x.bufR) - k
      /\ k = 1 => z.esc = escSeqHandle(x.esc, x.bufR[1], x.newT, x.prevT)
  BY <1>1, <1>2, <1>3
<1>. QED BY <1>4 DEF y, z

LEMMA NowIs ==
    ASSUME IInv
    PROVE  /\ Now \in Reader /\ Now.online = online /\ Now.bufR = bufR /\ Now.prevT = prevT
           /\ Now.newT = newT /\ Now.esc = esc /\ Now.stop = stop /\ Now.heard = heard
           /\ Now.stale = stale
           /\ now \in Timeval /\ ttyIn \in Seq(Char) /\ Len(bufR) <= BufR /\ Len(heard) <= 4
           /\ s12 \in S12s /\ Len(bufR) \in Nat /\ Len(ttyIn) \in Nat /\ BufR \in Nat \ {0}
           /\ esc \in Escseq /\ newT \in Timeval /\ prevT \in Timeval /\ bufR \in Seq(Char)
<1>1. Now \in Reader
  BY DEF IInv, TypeOK
<1>2. /\ Now.online = online /\ Now.bufR = bufR /\ Now.prevT = prevT
      /\ Now.newT = newT /\ Now.esc = esc /\ Now.stop = stop /\ Now.heard = heard
      /\ Now.stale = stale
  BY DEF Now
<1>3. bufR \in Seq(Char) /\ esc \in Escseq /\ newT \in Timeval /\ prevT \in Timeval
  BY <1>1, <1>2, ReaderIs
<1>. QED BY <1>1, <1>2, <1>3, EmptyLen, Typed DEF IInv, TypeOK

LEMMA SilenceKeeps == ASSUME IInv, EscapesBySilence \/ EscapesByRequest PROVE IInv'
<1>. DEFINE z == stepEnterCmd([Now EXCEPT !.esc.checkSilence = FALSE])
<1>1. Becomes(z) /\ ttyIn' = ttyIn /\ s12' = s12
  BY DEF EscapesBySilence, EscapesByRequest
<1>2. z \in Reader /\ ~z.online /\ z.bufR = <<>> /\ z.heard = <<>>
      /\ z.prevT = ZeroT /\ z.newT = newT
  BY NowIs, EntersCmd
<1>. HIDE DEF z
<1>3. Len(z.bufR) = 0 /\ Len(z.heard) = 0 /\ Paced(z, now)
  BY <1>2, PacedOn
<1>. QED BY <1>1, <1>2, <1>3, NowIs, StepKeeps

LEMMA LosesKeeps == ASSUME IInv, Loses PROVE IInv'
<1>. DEFINE z == stepEnterCmd(Now)
<1>1. Becomes(z) /\ ttyIn' = ttyIn /\ s12' = s12
  BY DEF Loses
<1>2. z \in Reader /\ ~z.online /\ z.bufR = <<>> /\ z.heard = <<>>
      /\ z.prevT = ZeroT /\ z.newT = newT
  BY NowIs, EntersCmd
<1>. HIDE DEF z
<1>3. Len(z.bufR) = 0 /\ Len(z.heard) = 0 /\ Paced(z, now)
  BY <1>2, PacedOn
<1>. QED BY <1>1, <1>2, <1>3, NowIs, StepKeeps

LEMMA ReturnsKeeps == ASSUME IInv, Returns PROVE IInv'
<1>. DEFINE z == stepEnterOnline(Now)
<1>1. Becomes(z) /\ ttyIn' = ttyIn /\ s12' = s12
  BY DEF Returns
<1>2. z \in Reader /\ z.bufR = <<>> /\ z.heard = <<>> /\ Sound(z)
      /\ z.prevT = ZeroT /\ z.newT = newT
  BY NowIs, EntersOnline
<1>. HIDE DEF z
<1>3. Len(z.bufR) = 0 /\ Len(z.heard) = 0 /\ Paced(z, now)
  BY <1>2, PacedOn
<1>. QED BY <1>1, <1>2, <1>3, NowIs, StepKeeps

LEMMA IdlesKeeps == ASSUME IInv, OnlineIdles \/ AtSets PROVE IInv'
<1>1. Becomes(Now) /\ ttyIn' = ttyIn /\ s12' \in S12s
  BY NowIs DEF OnlineIdles, AtSets
<1>2. (online => Sound(Now)) /\ Paced(Now, now)
  BY DEF IInv
<1>. QED BY <1>1, <1>2, NowIs, StepKeeps

\* What waits is read from its first byte on.
LEMMA Taking ==
    ASSUME ttyIn \in Seq(Char), NEW n \in 0..Len(ttyIn)
    PROVE  /\ SubSeq(ttyIn, 1, n) \in Seq(Char) /\ Len(SubSeq(ttyIn, 1, n)) = n
           /\ SubSeq(ttyIn, n + 1, Len(ttyIn)) \in Seq(Char)
           /\ n = Len(ttyIn) => SubSeq(ttyIn, 1, n) = ttyIn
                                /\ SubSeq(ttyIn, n + 1, Len(ttyIn)) = <<>>
BY Cut

LEMMA ReadsKeeps == ASSUME IInv, OnlineReads PROVE IInv'
<1>. DEFINE n == Least(BufR, Len(ttyIn))
            x == ttyBufRead(Now, SubSeq(ttyIn, 1, n))
<1>1. PICK k \in 1..n : Stalls(x, k)
  BY DEF OnlineReads
<1>2. PICK s \in BOOLEAN : Becomes([ttyReadLoop(x, k) EXCEPT !.stop = s])
  BY <1>1 DEF Stalls
<1>. DEFINE z == [ttyReadLoop(x, k) EXCEPT !.stop = s]
<1>3. /\ n \in 0..Len(ttyIn) /\ n <= BufR /\ n \in Nat
      /\ online /\ bufR = <<>> /\ ttyIn' = SubSeq(ttyIn, n + 1, Len(ttyIn)) /\ s12' = s12
  BY NowIs DEF OnlineReads, TtyPolled, Least
<1>. HIDE DEF n
<1>4. /\ SubSeq(ttyIn, 1, n) \in Seq(Char) /\ Len(SubSeq(ttyIn, 1, n)) = n
      /\ ttyIn' \in Seq(Char)
  BY <1>3, NowIs, Taking
<1>5. /\ x \in Reader /\ x.online /\ x.esc = esc /\ x.heard = heard /\ x.stale = stale
      /\ Len(x.bufR) = n /\ x.prevT = newT /\ x.newT = now
  <2>1. Len(bufR) = 0
    BY <1>3
  <2>. DEFINE p == SubSeq(ttyIn, 1, n)
  <2>2. p \in Seq(Char) /\ Len(p) = n /\ x = ttyBufRead(Now, p)
    BY <1>4
  <2>. HIDE DEF p, x
  <2>3. now \in Timeval /\ Now \in Reader
    BY NowIs
  <2>4. /\ x \in Reader /\ x.online = Now.online /\ x.esc = Now.esc /\ x.heard = Now.heard
        /\ x.stale = Now.stale /\ Len(x.bufR) = Len(Now.bufR) + Len(p)
        /\ x.prevT = Now.newT /\ x.newT = now
    BY <2>2, <2>3, Reads
  <2>5. /\ Now.online = online /\ Now.esc = esc /\ Now.heard = heard /\ Now.stale = stale
        /\ Len(Now.bufR) = 0 /\ Now.newT = newT
    BY <2>1, NowIs
  <2>6. online /\ n \in Nat
    BY <1>3
  <2>. QED BY <2>2, <2>4, <2>5, <2>6
<1>6. Sound(x)
  <2>1. Sound(Now)
    BY <1>3 DEF IInv
  <2>. HIDE DEF x
  <2>2. Recent(x.heard, x.newT, x.prevT)
    BY <1>5, <2>1, RecentRead
  <2>. QED BY <1>5, <2>1, <2>2, NowIs DEF Sound
<1>. HIDE DEF x
<1>7. k \in 0..Len(x.bufR)
  BY <1>3, <1>5
<1>8. /\ z \in Reader /\ Sound(z) /\ Len(z.heard) <= 4 /\ Len(z.bufR) = n - k
      /\ z.prevT = newT /\ z.newT = now
  <2>1. s12 \in S12s
    BY NowIs
  <2>. QED BY <1>5, <1>6, <1>7, <2>1, StalledLoop
<1>9. Becomes(z)
  BY <1>2
<1>. HIDE DEF z
<1>10. Len(z.bufR) <= BufR /\ Paced(z, now)
  BY <1>1, <1>3, <1>8, NowIs, PacedRead
<1>. QED BY <1>3, <1>4, <1>8, <1>9, <1>10, NowIs, StepKeeps

LEMMA HandlesKeeps == ASSUME IInv, OnlineHandles PROVE IInv'
<1>1. PICK k \in 0..Len(bufR) : Stalls(Now, k)
  BY DEF OnlineHandles
<1>2. PICK s \in BOOLEAN : Becomes([ttyReadLoop(Now, k) EXCEPT !.stop = s])
  BY <1>1 DEF Stalls
<1>. DEFINE z == [ttyReadLoop(Now, k) EXCEPT !.stop = s]
<1>3. online /\ ttyIn' = ttyIn /\ s12' = s12
  BY DEF OnlineHandles
<1>4. Sound(Now)
  BY <1>3 DEF IInv
<1>5. /\ z \in Reader /\ Sound(z) /\ Len(z.heard) <= 4 /\ Len(z.bufR) = Len(bufR) - k
      /\ z.prevT = Now.prevT /\ z.newT = Now.newT
  <2>1. k \in 0..Len(Now.bufR)
    BY NowIs
  <2>2. s12 \in S12s /\ Now \in Reader /\ Now.bufR = bufR
    BY NowIs
  <2>. QED BY <1>4, <2>1, <2>2, StalledLoop
<1>6. Becomes(z)
  BY <1>2
<1>. HIDE DEF z
<1>7. Len(z.bufR) <= BufR /\ Paced(z, now)
  <2>1. Paced(Now, now)
    BY DEF IInv
  <2>. QED BY <1>5, <2>1, NowIs DEF Paced
<1>. QED BY <1>3, <1>5, <1>6, <1>7, NowIs, StepKeeps

\* What command mode reads is not left in the buffer.
LEMMA Emptied ==
    ASSUME NEW x \in Reader
    PROVE  LET z == [x EXCEPT !.bufR = <<>>]
           IN  /\ z \in Reader /\ z.online = x.online /\ z.bufR = <<>> /\ Len(z.bufR) = 0
               /\ z.newT = x.newT /\ z.heard = x.heard /\ z.stop = x.stop /\ z.esc = x.esc
               /\ z.prevT = x.prevT
<1>. DEFINE e == <<>>
            z == [x EXCEPT !.bufR = e]
<1>1. e \in Seq(Char) /\ Len(e) = 0
  OBVIOUS
<1>. HIDE DEF e
<1>2. /\ z \in Reader /\ z.online = x.online /\ z.bufR = e
      /\ z.newT = x.newT /\ z.heard = x.heard /\ z.stop = x.stop /\ z.esc = x.esc
      /\ z.prevT = x.prevT
  BY <1>1 DEF Reader
<1>. HIDE DEF z
<1>3. Len(z.bufR) = 0
  BY <1>1, <1>2
<1>. QED BY <1>2, <1>3 DEF e, z

LEMMA CmdReadsKeeps == ASSUME IInv, CmdReads PROVE IInv'
<1>1. ~online /\ s12' = s12
  BY DEF CmdReads
<1>2. ASSUME NEW x \in Reader, x.online = online, x.heard = heard, ttyIn' \in Seq(Char),
             Paced(x, now), Becomes([x EXCEPT !.bufR = <<>>])
      PROVE  IInv'
  <2>. DEFINE z == [x EXCEPT !.bufR = <<>>]
  <2>1. z \in Reader /\ ~z.online /\ Len(z.bufR) = 0 /\ z.heard = heard
        /\ z.prevT = x.prevT /\ z.newT = x.newT
    BY <1>1, <1>2, Emptied
  <2>2. Becomes(z)
    BY <1>2
  <2>. HIDE DEF z
  <2>3. Paced(z, now)
    BY <1>2, <2>1 DEF Paced
  <2>. QED BY <1>1, <1>2, <2>1, <2>2, <2>3, NowIs, StepKeeps
<1>3. CASE Becomes([Now EXCEPT !.bufR = <<>>]) /\ UNCHANGED ttyIn
  <2>1. Paced(Now, now)
    BY DEF IInv
  <2>. QED BY <1>2, <1>3, <2>1, NowIs
<1>4. CASE /\ ttyIn' = SubSeq(ttyIn, Least(BufR, Len(ttyIn)) + 1, Len(ttyIn))
           /\ Becomes([ttyBufRead(Now, <<>>) EXCEPT !.bufR = <<>>])
  <2>1. Least(BufR, Len(ttyIn)) \in 0..Len(ttyIn)
    BY NowIs DEF Least
  <2>2. ttyIn' \in Seq(Char)
    BY <1>4, <2>1, NowIs, Taking
  <2>3. <<>> \in Seq(Char)
    OBVIOUS
  <2>4. LET x == ttyBufRead(Now, <<>>)
        IN  x \in Reader /\ x.online = online /\ x.heard = heard /\ Paced(x, now)
    <3>. DEFINE x == ttyBufRead(Now, <<>>)
    <3>1. now \in Timeval /\ Now \in Reader /\ Now.online = online /\ Now.heard = heard
          /\ Now.newT = newT
      BY NowIs
    <3>2. /\ x \in Reader /\ x.online = online /\ x.heard = heard
          /\ x.prevT = newT /\ x.newT = now
      BY <2>3, <3>1, Reads
    <3>. HIDE DEF x
    <3>3. Paced(x, now)
      BY <3>2, PacedRead
    <3>. QED BY <3>2, <3>3 DEF x
  <2>. QED BY <1>2, <1>4, <2>2, <2>4
<1>. QED BY <1>3, <1>4 DEF CmdReads

LEMMA WriteKeeps == ASSUME IInv, NEW n \in 1..BufR, m2k_write_from_app(n) PROVE IInv'
<1>. DEFINE take == Least(Least(n, Len(ttyIn)), BufR - Len(bufR))
            x == ttyBufRead(Now, SubSeq(ttyIn, 1, take))
<1>1. /\ take \in 0..Len(ttyIn) /\ Len(bufR) + take <= BufR
      /\ ttyIn' = SubSeq(ttyIn, take + 1, Len(ttyIn))
      /\ bufR' = x.bufR /\ prevT' = x.prevT /\ newT' = x.newT
      /\ UNCHANGED <<prompt, appIO, now, online, s12, esc, stop, wake, heard, stale>>
  BY NowIs DEF m2k_write_from_app, Least
<1>. HIDE DEF take
<1>2. SubSeq(ttyIn, 1, take) \in Seq(Char) /\ Len(SubSeq(ttyIn, 1, take)) = take
      /\ ttyIn' \in Seq(Char)
  BY <1>1, NowIs, Taking
<1>3. /\ x \in Reader /\ x.online = online /\ x.esc = esc /\ x.heard = heard
      /\ x.stale = stale /\ x.stop = stop /\ Len(x.bufR) <= BufR
      /\ x.prevT = newT /\ x.newT = now
  <2>. DEFINE p == SubSeq(ttyIn, 1, take)
  <2>1. p \in Seq(Char) /\ Len(p) = take /\ x = ttyBufRead(Now, p)
    BY <1>2
  <2>. HIDE DEF p, x
  <2>2. now \in Timeval /\ Now \in Reader
    BY NowIs
  <2>3. /\ x \in Reader /\ x.online = Now.online /\ x.esc = Now.esc /\ x.heard = Now.heard
        /\ x.stale = Now.stale /\ x.stop = Now.stop /\ Len(x.bufR) = Len(Now.bufR) + Len(p)
        /\ x.prevT = Now.newT /\ x.newT = now
    BY <2>1, <2>2, Reads
  <2>. QED BY <1>1, <2>1, <2>3, NowIs
<1>. HIDE DEF x
<1>4. Now' = x
  <2>1. x = [online |-> x.online, bufR |-> x.bufR, prevT |-> x.prevT, newT |-> x.newT,
             esc |-> x.esc, stop |-> x.stop, heard |-> x.heard, stale |-> x.stale]
    BY <1>3, ReaderIs
  <2>. QED BY <1>1, <1>3, <2>1 DEF Now
<1>5. Reader' = Reader
  BY DEF Reader, Escseq
<1>6. TypeOK'
  BY <1>1, <1>2, <1>3, <1>4, <1>5 DEF IInv, TypeOK
<1>7. online' => Sound(Now)'
  <2>. SUFFICES ASSUME online PROVE Sound(x)
    BY <1>1, <1>4 DEF Sound, Knows, Inherited, Recent
  <2>1. Sound(Now)
    BY DEF IInv
  <2>2. Recent(x.heard, x.newT, x.prevT)
    BY <1>3, <2>1, RecentRead
  <2>. QED BY <1>3, <2>1, <2>2, NowIs DEF Sound
<1>8. Paced(Now, now)'
  <2>1. Paced(x, now)
    BY <1>3, PacedRead
  <2>. QED BY <1>1, <1>4, <2>1 DEF Paced
<1>. QED BY <1>1, <1>3, <1>6, <1>7, <1>8 DEF IInv

\* The modem stands still.
LEMMA WorldKeeps ==
    ASSUME IInv, UNCHANGED <<prompt, appIO, online, bufR, prevT, newT, esc, stop, wake,
                             heard, stale>>,
           ttyIn' \in Seq(Char), now' \in Timeval, Micros(now) <= Micros(now'), s12' \in S12s
    PROVE  IInv'
<1>1. Now' = Now /\ Reader' = Reader
  BY DEF Now, Reader, Escseq
<1>2. TypeOK'
  BY <1>1 DEF IInv, TypeOK
<1>3. online' => Sound(Now)'
  <2>1. online => Sound(Now)
    BY DEF IInv
  <2>. QED BY <1>1, <2>1 DEF Sound, Knows, Inherited, Recent
<1>4. Paced(Now, now)'
  <2>1. Paced(Now, now) /\ Micros(Now.newT) \in Int
    BY ReaderIs, MicrosType DEF IInv, TypeOK
  <2>2. Micros(now) \in Int /\ Micros(now') \in Int
    BY MicrosType DEF IInv, TypeOK
  <2>3. Micros(Now.newT) <= Micros(now')
    BY <2>1, <2>2 DEF Paced
  <2>. QED BY <1>1, <2>1, <2>3 DEF Paced
<1>. QED BY <1>2, <1>3, <1>4 DEF IInv

LEMMA TypesKeeps == ASSUME IInv, NEW c \in Char, DteTypes(c) PROVE IInv'
<1>1. Append(ttyIn, c) \in Seq(Char) /\ ttyIn' = Append(ttyIn, c) /\ now' = now
  BY NowIs DEF DteTypes
<1>2. Micros(now) <= Micros(now)
  BY NowIs, MicrosType
<1>. QED BY <1>1, <1>2, NowIs, WorldKeeps DEF DteTypes

LEMMA AtcmdKeeps == ASSUME IInv, m2k_atcmd PROVE IInv'
<1>1. Micros(now) <= Micros(now)
  BY NowIs, MicrosType
<1>. QED BY <1>1, NowIs, WorldKeeps DEF m2k_atcmd

LEMMA TickKeeps == ASSUME IInv, Tick PROVE IInv'
<1>1. now' \in Timeval /\ Micros(now') = Micros(now) + 1
  BY NowIs, AddSmall, Smalls DEF Tick
<1>2. Micros(now) <= Micros(now')
  BY <1>1, NowIs, MicrosType
<1>. QED BY <1>1, <1>2, NowIs, WorldKeeps DEF Tick

LEMMA NextIInv == IInv /\ [Next]_vars => IInv'
<1>. SUFFICES ASSUME IInv, [Next]_vars PROVE IInv'
  OBVIOUS
<1>1. CASE UNCHANGED vars
  <2>1. Micros(now) <= Micros(now)
    BY NowIs, MicrosType
  <2>. QED BY <1>1, <2>1, NowIs, WorldKeeps DEF vars
<1>2. CASE Next
  BY <1>2, SilenceKeeps, LosesKeeps, ReturnsKeeps, IdlesKeeps, ReadsKeeps, HandlesKeeps,
     CmdReadsKeeps, WriteKeeps, TypesKeeps, AtcmdKeeps, TickKeeps DEF Next
<1>. QED BY <1>1, <1>2

\* The detector, the times and the buffers keep to what the bytes that were
\* handled in the session make of them.
THEOREM Invariance == Spec => []IInv
BY InitIInv, NextIInv, PTL DEF Spec

\* The single carry of timevalAdd() keeps every time that the modem stores
\* normalised, and no read passes the end of tty.bufR.
THEOREM Types == Spec => []TypeOK
<1>1. IInv => TypeOK
  BY DEF IInv
<1>. QED BY <1>1, Invariance, PTL

\* The guard of onlineIter() only ever runs out behind three + of this session that
\* were read as an escape sequence, and with nothing handled behind them, however
\* reads are cut, delayed and stalled and whenever S12 changes, unless the guard was
\* armed in the session before.  The byte in front of them, if there was one, came a
\* guard time earlier or in the same read as the first +.
THEOREM EscapeIsEarnedHolds == Spec => EscapeIsEarned
<1>. DEFINE n    == Len(heard)
            last == heard[n]
            Earned == /\ ReadAsEscape(heard)
                      /\ timevalCmp(now, timevalAdd(last.guard, last.t)) >= 0
<1>1. IInv => (EscapesBySilence /\ ~stale => Earned)
  <2>. SUFFICES ASSUME IInv, EscapesBySilence, ~stale PROVE Earned
    OBVIOUS
  <2>1. online /\ esc.checkSilence /\ timevalCmp(now, esc.expireT) >= 0
    BY DEF EscapesBySilence, guardOver
  <2>2. Knows(esc, heard) /\ ~Inherited(esc)
    BY <2>1, NowIs DEF IInv, Sound
  <2>3. esc.state = "P3"
    BY <2>1, <2>2 DEF Inherited
  <2>4. n \in Nat
    BY NowIs, ReaderIs, EmptyLen
  <2>5. /\ n >= 3 /\ heard[n - 2].c = "+" /\ heard[n - 1].c = "+" /\ last.c = "+"
        /\ timePassed(heard[n - 2].guard, heard[n - 2].t, heard[n - 2].before)
        /\ ~timePassed(heard[n - 1].guard, heard[n - 1].t, heard[n - 2].t)
        /\ ~timePassed(last.guard, last.t, heard[n - 2].t)
        /\ n >= 4 => Waited(heard[n - 3], heard[n - 2])
        /\ esc.expireT = timevalAdd(last.guard, last.t)
    BY <2>2, <2>3, Zenon DEF Knows
  <2>6. /\ n - 3 + 0 = n - 3 /\ n - 3 + 1 = n - 2 /\ n - 3 + 2 = n - 1 /\ n - 3 + 3 = n
        /\ n > 3 => n >= 4
    BY <2>4
  <2>. HIDE DEF n
  <2>7. ReadAsEscape(heard)
    <3>. DEFINE b(i) == heard[n - 3 + i]
    <3>1. b(0) = heard[n - 3] /\ b(1) = heard[n - 2] /\ b(2) = heard[n - 1] /\ b(3) = last
      BY <2>6
    <3>. HIDE DEF b
    <3>2. /\ \A i \in 1..3 : b(i).c = "+"
          /\ \A i \in 2..3 : ~timePassed(b(i).guard, b(i).t, b(1).t)
      <4>1. \A i \in 1..3 : i = 1 \/ i = 2 \/ i = 3
        OBVIOUS
      <4>2. \A i \in 2..3 : i = 2 \/ i = 3
        OBVIOUS
      <4>. QED BY <2>5, <3>1, <4>1, <4>2, Zenon
    <3>3. n > 3 => b(0).t = b(1).t \/ timePassed(b(1).guard, b(1).t, b(0).t)
      BY <2>5, <2>6, <3>1 DEF Waited
    <3>4. timePassed(b(1).guard, b(1).t, b(1).before)
      BY <2>5, <3>1
    <3>. QED BY <2>5, <3>2, <3>3, <3>4 DEF ReadAsEscape, b, n
  <2>. QED BY <2>1, <2>5, <2>7
<1>2. IInv /\ [Next]_vars => [EscapesBySilence /\ ~stale => Earned]_vars
  BY <1>1
<1>. QED BY <1>2, Invariance, PTL DEF Spec, EscapeIsEarned

-----------------------------------------------------------------------------
(* Over a tty that is read as it is typed on. *)

Key == [c : Char, t : Timeval]

\* Of the keys K, the last four or all there were, key i has silence before it
\* and is not the second + of anything.
Fresh(K, i) ==
    \/ i = 1 /\ Len(K) < 4
    \/ i > 1 /\ K[i - 1].c # "+" /\ s12timePassed(K[i].t, K[i - 1].t)

Plus(K, i) == K[i].c = "+"

\* The detector e has handled the first m keys of K.
Follows(e, K, m) ==
    /\ m = 0 \/ ~Plus(K, m) => e.state = "NORM"
    /\ m >= 1 /\ Plus(K, m) /\ Fresh(K, m) => e.state = "P1" /\ e.plus1T = K[m].t
    /\ m >= 2 /\ Plus(K, m - 1) /\ Plus(K, m) /\ Fresh(K, m - 1)
         /\ ~s12timePassed(K[m].t, K[m - 1].t)
           => e.state = "P2" /\ e.plus1T = K[m - 1].t
    /\ m >= 3 /\ Plus(K, m - 2) /\ Plus(K, m - 1) /\ Plus(K, m) /\ Fresh(K, m - 2)
         /\ ~s12timePassed(K[m].t, K[m - 2].t)
           => /\ e.state = "P3" /\ e.checkSilence
              /\ e.expireT = timevalAdd(guardTime, K[m].t)

\* How many of the keys have been read.
Seen == Len(keys) - Len(ttyIn)

\* Every key is read at the time it is typed, one by one, so that the times of
\* the reads are those of the keys.
InTime ==
    /\ ~stop /\ bufR = <<>> /\ Len(ttyIn) <= 1
    /\ Micros(Start) <= Micros(now)
    /\ keys \in Seq(Key) /\ Len(keys) <= 4
    /\ \A i \in 1..Len(keys) : Micros(keys[i].t) <= Micros(now)
    /\ ttyIn # <<>> => /\ keys # <<>> /\ keys[Len(keys)].t = now
                       /\ online => keys[Len(keys)].c = ttyIn[1]
    /\ ~online => Len(keys) <= 1 /\ \A i \in 1..Len(keys) : keys[i].c = "x"
    /\ online \/ ttyIn = <<>> => newT = IF Seen = 0 THEN ZeroT ELSE keys[Seen].t

\* poll() gives up when the guard time is over, but for its granularity.
WakesUp ==
    \E t \in wake : /\ t \in Timeval
                    /\ \/ Micros(t) <= Micros(now)
                       \/ Micros(t) < Micros(esc.expireT) + UsecPerMs

PInv ==
    prompt /\ ~appIO =>
        /\ InTime
        /\ online => Follows(esc, keys, Seen)
        /\ online /\ esc.checkSilence => WakesUp

LEMMA KeyIs ==
    ASSUME NEW K \in Seq(Key)
    PROVE  /\ Len(K) \in Nat
           /\ \A i \in 1..Len(K) : K[i] \in Key /\ K[i].c \in Char /\ K[i].t \in Timeval
                                   /\ Micros(K[i].t) \in Int
<1>1. \A i \in 1..Len(K) : K[i] \in Key
  BY ElementOfSeq
<1>2. \A k \in Key : k.c \in Char /\ k.t \in Timeval /\ Micros(k.t) \in Int
  BY MicrosType DEF Key
<1>. QED BY <1>1, <1>2, EmptyLen

\* What the detector does with one byte, by the times it goes by.
LEMMA HandleCases ==
    ASSUME NEW e \in Escseq, NEW c \in Char, NEW new, NEW prev,
           NEW f, f = escSeqHandle(e, c, new, prev)
    PROVE  /\ c # "+" => f.state = "NORM"
           /\ e.state = "NORM" /\ c = "+" /\ s12timePassed(new, prev)
                => f.state = "P1" /\ f.plus1T = new
           /\ e.state = "P1" /\ c = "+" /\ ~s12timePassed(new, e.plus1T)
                => f.state = "P2" /\ f.plus1T = e.plus1T
           /\ e.state = "P2" /\ c = "+" /\ ~s12timePassed(new, e.plus1T)
                => f.state = "P3" /\ f.checkSilence /\ f.expireT = timevalAdd(guardTime, new)
<1>1. e.state \in {"NORM", "P1", "P2", "P3"}
  BY DEF Escseq
<1>. DEFINE drop == [e EXCEPT !.state = "NORM"]
            over == [drop EXCEPT !.checkSilence = FALSE]
<1>2. drop.state = "NORM" /\ over.state = "NORM"
  BY DEF Escseq
<1>3. CASE e.state = "NORM"
  BY <1>3 DEF escSeqHandle, Escseq
<1>4. CASE e.state = "P1"
  BY <1>2, <1>4 DEF escSeqHandle, Escseq
<1>5. CASE e.state = "P2"
  BY <1>2, <1>5 DEF escSeqHandle, Escseq
<1>6. CASE e.state = "P3"
  <2>1. c # "+" => f = over
    BY <1>6 DEF escSeqHandle
  <2>. QED BY <1>2, <1>6, <2>1
<1>. QED BY <1>1, <1>3, <1>4, <1>5, <1>6

LEMMA FollowsNext ==
    ASSUME s12 \in S12s, NEW e \in Escseq, NEW K \in Seq(Key), NEW m \in Nat, m + 1 <= Len(K),
           Follows(e, K, m), NEW prev, prev = IF m = 0 THEN ZeroT ELSE K[m].t,
           \A i \in 1..m : Micros(K[i].t) <= Micros(K[m + 1].t),
           Micros(Start) <= Micros(K[m + 1].t),
           NEW f, f = escSeqHandle(e, K[m + 1].c, K[m + 1].t, prev)
    PROVE  Follows(f, K, m + 1)
<1>. DEFINE j == m + 1
            c == K[j].c
            new == K[j].t
<1>1. /\ j \in 1..Len(K) /\ Len(K) \in Nat /\ c \in Char /\ new \in Timeval
      /\ Micros(new) \in Int
      /\ \A i \in 1..m : K[i].t \in Timeval /\ Micros(K[i].t) \in Int /\ i \in 1..Len(K)
  BY KeyIs
<1>2. /\ c # "+" => f.state = "NORM"
      /\ e.state = "NORM" /\ c = "+" /\ s12timePassed(new, prev)
           => f.state = "P1" /\ f.plus1T = new
      /\ e.state = "P1" /\ c = "+" /\ ~s12timePassed(new, e.plus1T)
           => f.state = "P2" /\ f.plus1T = e.plus1T
      /\ e.state = "P2" /\ c = "+" /\ ~s12timePassed(new, e.plus1T)
           => f.state = "P3" /\ f.checkSilence /\ f.expireT = timevalAdd(guardTime, new)
  <2>. HIDE DEF c, new
  <2>. QED BY <1>1, HandleCases DEF c, new
<1>3. ASSUME m = 0 PROVE s12timePassed(new, prev)
  <2>1. prev = ZeroT /\ Micros(prev) = 0 /\ prev \in Timeval
    BY <1>3, Typed
  <2>2. Micros(new) > Guard /\ Guard \in Nat
    BY <1>1, GuardIs, Typed
  <2>3. s12timePassed(new, prev) <=> Micros(new) > Micros(prev) + Guard
    <3>. HIDE DEF new
    <3>. QED BY <1>1, <2>1, Passed
  <2>. HIDE DEF new
  <2>. QED BY <1>1, <2>1, <2>2, <2>3
<1>4. j >= 1 /\ Plus(K, j) /\ Fresh(K, j) => f.state = "P1" /\ f.plus1T = new
  <2>. SUFFICES ASSUME Plus(K, j), Fresh(K, j) PROVE f.state = "P1" /\ f.plus1T = new
    OBVIOUS
  <2>1. CASE m = 0
    <3>1. e.state = "NORM"
      BY <2>1 DEF Follows
    <3>. QED BY <1>2, <1>3, <2>1, <3>1 DEF Plus
  <2>2. CASE m # 0
    <3>1. j - 1 = m /\ j # 1 /\ m >= 1
      BY <2>2
    <3>2. K[m].c # "+" /\ s12timePassed(new, K[m].t)
      BY <3>1 DEF Fresh
    <3>3. e.state = "NORM" /\ prev = K[m].t
      BY <2>2, <3>2 DEF Follows, Plus
    <3>. QED BY <1>2, <3>2, <3>3 DEF Plus
  <2>. QED BY <2>1, <2>2
<1>5. ASSUME j >= 2, Plus(K, j - 1), Plus(K, j), Fresh(K, j - 1),
             ~s12timePassed(K[j].t, K[j - 1].t)
      PROVE  f.state = "P2" /\ f.plus1T = K[j - 1].t
  <2>1. j - 1 = m /\ m >= 1
    BY <1>5
  <2>2. e.state = "P1" /\ e.plus1T = K[m].t
    BY <1>5, <2>1 DEF Follows
  <2>. QED BY <1>2, <1>5, <2>1, <2>2 DEF Plus
<1>6. ASSUME j >= 3, Plus(K, j - 2), Plus(K, j - 1), Plus(K, j), Fresh(K, j - 2),
             ~s12timePassed(K[j].t, K[j - 2].t)
      PROVE  /\ f.state = "P3" /\ f.checkSilence
             /\ f.expireT = timevalAdd(guardTime, K[j].t)
  <2>1. j - 2 = m - 1 /\ j - 1 = m /\ m >= 2 /\ m \in 1..m /\ m - 1 \in 1..m
    BY <1>6
  <2>2. ~s12timePassed(K[m].t, K[m - 1].t)
    <3>1. /\ s12timePassed(K[m].t, K[m - 1].t)
               <=> Micros(K[m].t) > Micros(K[m - 1].t) + Guard
          /\ s12timePassed(K[j].t, K[m - 1].t)
               <=> Micros(K[j].t) > Micros(K[m - 1].t) + Guard
      BY <1>1, <2>1, Passed
    <3>2. Micros(K[m].t) <= Micros(K[j].t) /\ Guard \in Nat
      BY <2>1, GuardIs
    <3>3. ~(Micros(K[j].t) > Micros(K[m - 1].t) + Guard)
      BY <1>6, <2>1, <3>1
    <3>. QED BY <1>1, <2>1, <3>1, <3>2, <3>3
  <2>3. e.state = "P2" /\ e.plus1T = K[m - 1].t
    BY <1>6, <2>1, <2>2 DEF Follows
  <2>. QED BY <1>2, <1>6, <2>1, <2>3 DEF Plus
<1>7. ~Plus(K, j) => f.state = "NORM"
  BY <1>2 DEF Plus
<1>8. j # 0
  OBVIOUS
<1>. HIDE DEF j
<1>9. Follows(f, K, j)
  BY <1>4, <1>5, <1>6, <1>7, <1>8 DEF Follows
<1>. QED BY <1>9 DEF j

\* The oldest of four keys is forgotten when another one is typed.
LEMMA FollowsOn ==
    ASSUME NEW e, NEW K \in Seq(Key), Len(K) <= 4, Follows(e, K, Len(K)), NEW k \in Key
    PROVE  LET L == LastOf(Append(K, k), 4)
           IN  /\ L \in Seq(Key) /\ Len(L) <= 4 /\ Len(L) >= 1 /\ L[Len(L)] = k
               /\ Follows(e, L, Len(L) - 1)
               /\ (Len(L) - 1 = 0 <=> Len(K) = 0)
               /\ Len(K) # 0 => L[Len(L) - 1] = K[Len(K)]
               /\ \A i \in 1..Len(L) : L[i] = k \/ \E j \in 1..Len(K) : L[i] = K[j]
<1>. DEFINE n == Len(K)
            A == Append(K, k)
            L == LastOf(A, 4)
            p == Len(L)
<1>1. n \in Nat /\ n <= 4 /\ A \in Seq(Key) /\ Len(A) = n + 1 /\ A[n + 1] = k
      /\ \A i \in 1..n : A[i] = K[i]
  BY EmptyLen, AppendProperties
<1>. HIDE DEF A
<1>2. /\ L \in Seq(Key) /\ p = Least(n + 1, 4) /\ p \in Nat
      /\ \A i \in 0..(p - 1) : L[p - i] = A[n + 1 - i]
  <2>. QED BY <1>1, LastOfIs
<1>. HIDE DEF p, L
<1>3. p <= 4 /\ p >= 1 /\ (n < 4 => p = n + 1) /\ (n = 4 => p = 4) /\ p <= n + 1
  BY <1>1, <1>2 DEF Least
<1>. HIDE DEF n
<1>4. L[p] = k
  <2>1. 0 \in 0..(p - 1) /\ p - 0 = p /\ n + 1 - 0 = n + 1
    BY <1>1, <1>2, <1>3
  <2>2. L[p - 0] = A[n + 1 - 0]
    BY <1>2, <2>1
  <2>. QED BY <1>1, <2>1, <2>2
<1>5. \A i \in 1..(p - 1) : i + (n + 1 - p) \in 1..n /\ L[i] = K[i + (n + 1 - p)]
  <2>1. ASSUME NEW i \in 1..(p - 1) PROVE i + (n + 1 - p) \in 1..n /\ L[i] = K[i + (n + 1 - p)]
    <3>1. /\ p - i \in 0..(p - 1) /\ p - (p - i) = i /\ n + 1 - (p - i) = i + (n + 1 - p)
          /\ i + (n + 1 - p) \in 1..n
      <4>1. n \in Nat /\ p \in Nat /\ p <= n + 1
        BY <1>1, <1>2, <1>3
      <4>. QED BY <4>1
    <3>2. L[p - (p - i)] = A[n + 1 - (p - i)]
      BY <1>2, <3>1
    <3>. QED BY <1>1, <3>1, <3>2
  <2>. QED BY <2>1
<1>8. \A i \in 1..p : L[i] = k \/ \E j \in 1..n : L[i] = K[j]
  <2>1. \A i \in 1..p : i = p \/ i \in 1..(p - 1)
    BY <1>2
  <2>. QED BY <1>4, <1>5, <2>1
<1>6. ASSUME n < 4
      PROVE  Follows(e, L, p - 1) /\ (p - 1 = 0 <=> n = 0) /\ (n # 0 => L[p - 1] = K[n])
  <2>0. p = n + 1 /\ p - 1 = n /\ n + 1 - p = 0
    BY <1>1, <1>3, <1>6
  <2>1. p - 1 = n /\ \A i \in 1..n : L[i] = K[i]
    <3>1. \A i \in 1..n : i + 0 = i
      BY <1>1
    <3>. QED BY <1>5, <2>0, <3>1
  <2>2. \A i \in 1..n : Fresh(L, i) => Fresh(K, i)
    <3>1. ASSUME NEW i \in 1..n, Fresh(L, i) PROVE Fresh(K, i)
      <4>1. CASE i = 1
        BY <1>6, <4>1 DEF Fresh, n
      <4>2. CASE i # 1
        <5>1. i - 1 \in 1..n /\ i > 1
          BY <1>1, <4>2
        <5>2. L[i - 1] = K[i - 1] /\ L[i] = K[i]
          BY <2>1, <5>1
        <5>. QED BY <3>1, <4>2, <5>1, <5>2 DEF Fresh
      <4>. QED BY <4>1, <4>2
    <3>. QED BY <3>1
  <2>3. \A i \in 1..n : Plus(L, i) <=> Plus(K, i)
    BY <2>1 DEF Plus
  <2>4. Follows(e, L, n)
    <3>1. /\ n >= 1 => n \in 1..n
          /\ n >= 2 => n - 1 \in 1..n
          /\ n >= 3 => n - 2 \in 1..n
          /\ n # 0 => n >= 1
      BY <1>1
    <3>2. Follows(e, K, n)
      BY DEF n
    <3>. QED BY <2>1, <2>2, <2>3, <3>1, <3>2 DEF Follows
  <2>5. n # 0 => L[p - 1] = K[n]
    BY <1>1, <2>1
  <2>6. Follows(e, L, p - 1) /\ (p - 1 = 0 <=> n = 0)
    BY <1>1, <2>1, <2>4
  <2>. QED BY <2>5, <2>6
<1>7. ASSUME n = 4
      PROVE  Follows(e, L, p - 1) /\ (p - 1 = 0 <=> n = 0) /\ (n # 0 => L[p - 1] = K[n])
  <2>1. p = 4 /\ p - 1 = 3 /\ \A i \in 1..3 : L[i] = K[i + 1]
    BY <1>3, <1>5, <1>7
  <2>2. \A i \in 1..3 : Plus(L, i) <=> Plus(K, i + 1)
    BY <2>1 DEF Plus
  <2>3. \A i \in 1..3 : Fresh(L, i) => Fresh(K, i + 1)
    <3>1. ASSUME NEW i \in 1..3, Fresh(L, i) PROVE Fresh(K, i + 1)
      <4>1. i > 1 /\ L[i - 1].c # "+" /\ s12timePassed(L[i].t, L[i - 1].t)
        <5>1. ~(Len(L) < 4)
          <6>1. p = 4
            BY <2>1
          <6>2. ~(p < 4)
            BY <6>1
          <6>. QED BY <6>2 DEF p
        <5>. QED BY <3>1, <5>1 DEF Fresh
      <4>2. i - 1 \in 1..3 /\ (i - 1) + 1 = i /\ (i + 1) - 1 = i /\ i + 1 > 1
        BY <4>1
      <4>3. L[i - 1] = K[i] /\ L[i] = K[i + 1]
        BY <2>1, <4>2
      <4>. QED BY <4>1, <4>2, <4>3 DEF Fresh
    <3>. QED BY <3>1
  <2>4. Follows(e, L, 3)
    <3>1. /\ Plus(L, 1) <=> Plus(K, 2)
          /\ Plus(L, 2) <=> Plus(K, 3)
          /\ Plus(L, 3) <=> Plus(K, 4)
          /\ Fresh(L, 1) => Fresh(K, 2)
          /\ Fresh(L, 2) => Fresh(K, 3)
          /\ Fresh(L, 3) => Fresh(K, 4)
          /\ L[1] = K[2] /\ L[2] = K[3] /\ L[3] = K[4]
      BY <2>1, <2>2, <2>3
    <3>2. 3 - 1 = 2 /\ 3 - 2 = 1 /\ 4 - 1 = 3 /\ 4 - 2 = 2
      OBVIOUS
    <3>3. Follows(e, K, 4)
      BY <1>7 DEF n
    <3>. QED BY <3>1, <3>2, <3>3 DEF Follows
  <2>5. L[p - 1] = K[n] /\ n # 0 /\ p - 1 # 0
    BY <1>7, <2>1
  <2>6. Follows(e, L, p - 1)
    BY <2>1, <2>4
  <2>. QED BY <2>5, <2>6
<1>9. n < 4 \/ n = 4
  BY <1>1
<1>10. Follows(e, L, p - 1) /\ (p - 1 = 0 <=> n = 0) /\ (n # 0 => L[p - 1] = K[n])
  BY <1>6, <1>7, <1>9
<1>11. /\ L \in Seq(Key) /\ Len(L) <= 4 /\ Len(L) >= 1 /\ L[Len(L)] = k
       /\ Follows(e, L, Len(L) - 1)
       /\ (Len(L) - 1 = 0 <=> Len(K) = 0)
       /\ Len(K) # 0 => L[Len(L) - 1] = K[Len(K)]
       /\ \A i \in 1..Len(L) : L[i] = k \/ \E j \in 1..Len(K) : L[i] = K[j]
  BY <1>2, <1>3, <1>4, <1>8, <1>10 DEF p, n
<1>. QED BY <1>11 DEF L, A

LEMMA PrimedBy ==
    ASSUME NEW x \in Reader, Becomes(x)
    PROVE  /\ online' = x.online /\ bufR' = x.bufR /\ newT' = x.newT /\ esc' = x.esc
           /\ stop' = x.stop /\ now' = now /\ prompt' = prompt /\ appIO' = appIO
           /\ wake' = onlinePollfds(x)
           /\ x.online => keys' = keys
           /\ ~x.online => keys' = [i \in 1..Len(LastOf(keys, 1)) |->
                                      [c |-> "x", t |-> keys[Len(keys)].t]]
BY DEF Becomes

\* Of the keys before a session the time of the last one is all that counts.
LEMMA LastKey ==
    ASSUME NEW K \in Seq(Key),
           NEW L, L = [i \in 1..Len(LastOf(K, 1)) |-> [c |-> "x", t |-> K[Len(K)].t]]
    PROVE  /\ L \in Seq(Key) /\ Len(L) <= 1 /\ Len(L) \in Nat
           /\ \A i \in 1..Len(L) : L[i].c = "x"
           /\ K = <<>> => Len(L) = 0
           /\ K # <<>> => Len(L) = 1 /\ L[1].t = K[Len(K)].t
           /\ L = <<>> <=> Len(L) = 0
<1>1. Len(LastOf(K, 1)) = Least(Len(K), 1) /\ Len(K) \in Nat /\ (K = <<>> <=> Len(K) = 0)
  BY LastOfIs, EmptyLen
<1>. DEFINE m == Len(LastOf(K, 1))
            k == [c |-> "x", t |-> K[Len(K)].t]
<1>2. m \in {0, 1} /\ (K = <<>> <=> m = 0)
  BY <1>1 DEF Least
<1>3. ASSUME m = 1 PROVE k \in Key
  <2>1. K # <<>> /\ Len(K) \in 1..Len(K)
    <3>1. K # <<>>
      BY <1>2, <1>3
    <3>2. \A n \in Nat : n # 0 => n \in 1..n
      OBVIOUS
    <3>. QED BY <1>1, <3>1, <3>2, Zenon
  <2>2. K[Len(K)].t \in Timeval
    BY <2>1, KeyIs
  <2>. QED BY <2>2 DEF Key, Char
<1>4. L = [i \in 1..m |-> k] /\ k.c = "x" /\ k.t = K[Len(K)].t
  OBVIOUS
<1>. HIDE DEF m, k
<1>5. L \in Seq(Key) /\ Len(L) = m /\ \A i \in 1..m : L[i] = k
  BY <1>2, <1>3, <1>4
<1>6. Len(L) \in Nat /\ (L = <<>> <=> Len(L) = 0)
  BY <1>5, EmptyLen
<1>7. K # <<>> => m = 1 /\ 1 \in 1..m
  BY <1>2
<1>8. Len(L) <= 1
  BY <1>2, <1>5
<1>9. \A i \in 1..Len(L) : L[i].c = "x"
  BY <1>4, <1>5
<1>10. K = <<>> => Len(L) = 0
  BY <1>2, <1>5
<1>11. K # <<>> => Len(L) = 1 /\ L[1].t = K[Len(K)].t
  BY <1>4, <1>5, <1>7
<1>. QED BY <1>5, <1>6, <1>8, <1>9, <1>10, <1>11

LEMMA GoesOffline ==
    ASSUME prompt, ~appIO, InTime, NEW x \in Reader, Becomes(x), ~x.online, ~x.stop,
           x.bufR = <<>>, now \in Timeval, ttyIn \in Seq(Char),
           \/ ttyIn' = ttyIn /\ (ttyIn = <<>> => x.newT = newT)
           \/ ttyIn' = <<>> /\ ttyIn # <<>> /\ x.newT = now
    PROVE  PInv'
<1>1. /\ ~online' /\ bufR' = <<>> /\ newT' = x.newT /\ ~stop' /\ now' = now
      /\ keys' = [i \in 1..Len(LastOf(keys, 1)) |-> [c |-> "x", t |-> keys[Len(keys)].t]]
  BY PrimedBy
<1>2. /\ keys \in Seq(Key) /\ Len(keys) \in Nat /\ Micros(Start) <= Micros(now)
      /\ \A i \in 1..Len(keys) : Micros(keys[i].t) <= Micros(now)
      /\ ttyIn # <<>> => keys # <<>> /\ keys[Len(keys)].t = now
      /\ Len(ttyIn) <= 1 /\ Len(ttyIn) \in Nat /\ (ttyIn = <<>> <=> Len(ttyIn) = 0)
      /\ keys = <<>> <=> Len(keys) = 0
  BY EmptyLen DEF InTime
<1>3. ttyIn = <<>> => newT = IF keys = <<>> THEN ZeroT ELSE keys[Len(keys)].t
  <2>1. ASSUME ttyIn = <<>> PROVE Seen = Len(keys)
    BY <1>2, <2>1 DEF Seen
  <2>. QED BY <1>2, <2>1 DEF InTime
<1>4. /\ keys' \in Seq(Key) /\ Len(keys') <= 1 /\ Len(keys') \in Nat
      /\ \A i \in 1..Len(keys') : keys'[i].c = "x"
      /\ keys = <<>> => Len(keys') = 0
      /\ keys # <<>> => Len(keys') = 1 /\ keys'[1].t = keys[Len(keys)].t
      /\ keys' = <<>> <=> Len(keys') = 0
  BY <1>1, <1>2, LastKey
<1>5. \A i \in 1..Len(keys') : Micros(keys'[i].t) <= Micros(now)
  <2>1. ASSUME NEW i \in 1..Len(keys') PROVE Micros(keys'[i].t) <= Micros(now)
    <3>1. i = 1 /\ keys # <<>> /\ Len(keys) \in 1..Len(keys)
      BY <1>2, <1>4, <2>1
    <3>. QED BY <1>2, <1>4, <3>1
  <2>. QED BY <2>1
<1>6. ttyIn' # <<>> => keys' # <<>> /\ keys'[Len(keys')].t = now'
  <2>1. ASSUME ttyIn' # <<>> PROVE keys' # <<>> /\ keys'[Len(keys')].t = now'
    <3>1. ttyIn # <<>>
      BY <2>1
    <3>. QED BY <1>1, <1>2, <1>4, <3>1
  <2>. QED BY <2>1
<1>7. Len(ttyIn') <= 1 /\ (ttyIn' = <<>> => Len(ttyIn') = 0)
  <2>1. ttyIn' = <<>> => Len(ttyIn') = 0
    OBVIOUS
  <2>. QED BY <1>2, <2>1
<1>8. ttyIn' = <<>> => newT' = IF Seen' = 0 THEN ZeroT ELSE keys'[Seen'].t
  <2>. SUFFICES ASSUME ttyIn' = <<>>
                PROVE  newT' = IF Seen' = 0 THEN ZeroT ELSE keys'[Seen'].t
    OBVIOUS
  <2>1. Seen' = Len(keys')
    BY <1>4, <1>7 DEF Seen
  <2>2. x.newT = IF keys = <<>> THEN ZeroT ELSE keys[Len(keys)].t
    <3>1. CASE ttyIn = <<>>
      BY <1>3, <3>1
    <3>2. CASE ttyIn # <<>>
      BY <1>2, <3>2
    <3>. QED BY <3>1, <3>2
  <2>3. CASE keys = <<>>
    <3>1. Seen' = 0 /\ newT' = ZeroT
      BY <1>1, <1>4, <2>1, <2>2, <2>3
    <3>. QED BY <3>1
  <2>4. CASE keys # <<>>
    <3>1. Seen' = 1 /\ newT' = keys'[1].t
      BY <1>1, <1>4, <2>1, <2>2, <2>4
    <3>. QED BY <3>1
  <2>. QED BY <2>3, <2>4
<1>9. InTime'
  <2>1. (Micros(Start) <= Micros(now))'
    BY <1>1, <1>2
  <2>2. (\A i \in 1..Len(keys) : Micros(keys[i].t) <= Micros(now))'
    BY <1>1, <1>5
  <2>3. Len(keys') <= 4
    BY <1>4
  <2>4. (keys \in Seq(Key))'
    <3>1. Key' = Key
      BY DEF Key
    <3>. QED BY <1>4, <3>1
  <2>. QED BY <1>1, <1>4, <1>6, <1>7, <1>8, <2>1, <2>2, <2>3, <2>4 DEF InTime
<1>. QED BY <1>1, <1>9 DEF PInv

\* A step of the modem that leaves it in a session tells poll() of the guard.
LEMMA WakesAgain ==
    ASSUME now \in Timeval, NEW x \in Reader, Becomes(x), x.online
    PROVE  online' /\ esc'.checkSilence => WakesUp'
<1>1. /\ wake' = onlinePollfds(x) /\ esc' = x.esc /\ now' = now /\ online' = x.online
  BY PrimedBy
<1>2. x.esc.checkSilence =>
        \E t \in onlinePollfds(x) :
            /\ t \in Timeval
            /\ Micros(t) <= Micros(now) \/ Micros(t) < Micros(x.esc.expireT) + UsecPerMs
  BY WakeIs
<1>. QED BY <1>1, <1>2 DEF WakesUp

LEMMA SilenceInTime == ASSUME IInv, PInv, EscapesBySilence \/ Loses, prompt, ~appIO PROVE PInv'
<1>1. InTime
  BY DEF PInv
<1>2. ASSUME NEW x \in Reader, Becomes(x), ~x.online, ~x.stop, x.bufR = <<>>,
             x.newT = newT, ttyIn' = ttyIn
      PROVE  PInv'
  BY <1>1, <1>2, NowIs, GoesOffline
<1>3. CASE EscapesBySilence
  <2>. DEFINE z == stepEnterCmd([Now EXCEPT !.esc.checkSilence = FALSE])
  <2>1. z \in Reader /\ ~z.online /\ z.bufR = <<>> /\ ~z.stop /\ z.newT = newT
    BY NowIs, EntersCmd
  <2>2. Becomes(z) /\ ttyIn' = ttyIn
    BY <1>3 DEF EscapesBySilence
  <2>. HIDE DEF z
  <2>. QED BY <1>2, <2>1, <2>2
<1>4. CASE Loses
  <2>. DEFINE z == stepEnterCmd(Now)
  <2>1. z \in Reader /\ ~z.online /\ z.bufR = <<>> /\ ~z.stop /\ z.newT = newT
    BY NowIs, EntersCmd
  <2>2. Becomes(z) /\ ttyIn' = ttyIn
    BY <1>4 DEF Loses
  <2>. HIDE DEF z
  <2>. QED BY <1>2, <2>1, <2>2
<1>. QED BY <1>3, <1>4

LEMMA SetsInTime == ASSUME IInv, PInv, AtSets, prompt, ~appIO PROVE PInv'
<1>1. InTime /\ ~online /\ Becomes(Now) /\ ttyIn' = ttyIn
  BY DEF PInv, AtSets
<1>2. ~stop /\ bufR = <<>>
  BY <1>1 DEF InTime
<1>. QED BY <1>1, <1>2, NowIs, GoesOffline

LEMMA CmdReadsInTime == ASSUME IInv, PInv, CmdReads, prompt, ~appIO PROVE PInv'
<1>1. /\ InTime /\ ~online /\ ttyIn # <<>>
      /\ ttyIn' = SubSeq(ttyIn, Least(BufR, Len(ttyIn)) + 1, Len(ttyIn))
      /\ Becomes([ttyBufRead(Now, <<>>) EXCEPT !.bufR = <<>>])
  BY DEF PInv, CmdReads
<1>. DEFINE x == ttyBufRead(Now, <<>>)
            z == [x EXCEPT !.bufR = <<>>]
<1>2. x \in Reader /\ x.online = online /\ x.newT = now /\ x.stop = stop
  <2>1. <<>> \in Seq(Char)
    OBVIOUS
  <2>2. now \in Timeval /\ Now \in Reader /\ Now.online = online /\ Now.stop = stop
    BY NowIs
  <2>. QED BY <2>1, <2>2, Reads
<1>3. Becomes(z)
  BY <1>1
<1>. HIDE DEF x
<1>4. z \in Reader /\ z.online = x.online /\ z.bufR = <<>> /\ z.newT = x.newT /\ z.stop = x.stop
  BY <1>2, Emptied
<1>. HIDE DEF z
<1>5. ttyIn' = <<>>
  <2>1. Len(ttyIn) = 1 /\ ttyIn \in Seq(Char)
    <3>1. Len(ttyIn) <= 1 /\ Len(ttyIn) \in Nat /\ Len(ttyIn) # 0 /\ ttyIn \in Seq(Char)
      BY <1>1, NowIs, EmptyLen DEF InTime
    <3>2. \A n \in Nat : n <= 1 /\ n # 0 => n = 1
      OBVIOUS
    <3>. QED BY <3>1, <3>2, Zenon
  <2>2. Least(BufR, Len(ttyIn)) = 1
    BY <2>1, NowIs DEF Least
  <2>3. 1 \in 0..Len(ttyIn)
    BY <2>1
  <2>4. SubSeq(ttyIn, 1 + 1, Len(ttyIn)) = <<>>
    BY <2>1, <2>3, Taking
  <2>. QED BY <1>1, <2>2, <2>4
<1>6. ~stop /\ now \in Timeval /\ ttyIn \in Seq(Char)
  BY <1>1, NowIs DEF InTime
<1>. QED BY <1>1, <1>2, <1>3, <1>4, <1>5, <1>6, GoesOffline

\* The keys and their times are as before, and none waits: what is left to say
\* of a step that stays in or enters a session.
LEMMA SameKeys ==
    ASSUME InTime, keys' = keys, now' = now, ttyIn = <<>>, ttyIn' = ttyIn, online',
           ~stop', bufR' = <<>>, newT' = newT
    PROVE  InTime' /\ Seen' = Seen
<1>1. Seen' = Seen
  BY DEF Seen
<1>2. newT' = IF Seen' = 0 THEN ZeroT ELSE keys'[Seen'].t
  BY <1>1 DEF InTime
<1>3. Key' = Key
  BY DEF Key
<1>. QED BY <1>1, <1>2, <1>3 DEF InTime

LEMMA ReturnsInTime == ASSUME IInv, PInv, Returns, prompt, ~appIO PROVE PInv'
<1>1. InTime /\ ~online /\ ttyIn = <<>> /\ ttyIn' = ttyIn /\ Becomes(stepEnterOnline(Now))
  BY DEF PInv, Returns
<1>. DEFINE z == stepEnterOnline(Now)
<1>2. /\ z \in Reader /\ z.online /\ z.bufR = <<>> /\ ~z.stop /\ z.newT = newT
      /\ z.esc.state = "NORM"
  BY NowIs, EntersOnline
<1>3. Becomes(z)
  BY <1>1
<1>. HIDE DEF z
<1>4. /\ online' /\ bufR' = <<>> /\ ~stop' /\ newT' = newT /\ esc' = z.esc /\ now' = now
      /\ keys' = keys
  BY <1>2, <1>3, PrimedBy
<1>5. InTime' /\ Seen' = Seen
  BY <1>1, <1>4, SameKeys
<1>6. Follows(esc, keys, Seen)'
  <2>1. Seen \in {0, 1} /\ Len(keys) <= 1 /\ (Seen = 1 => ~Plus(keys, 1))
    <3>1. Len(keys) \in Nat /\ Len(keys) <= 1 /\ Len(ttyIn) = 0
          /\ \A i \in 1..Len(keys) : keys[i].c = "x"
      BY <1>1, EmptyLen DEF InTime
    <3>2. \A n \in Nat : n <= 1 => n - 0 \in {0, 1} /\ n - 0 = n
      OBVIOUS
    <3>3. Seen = Len(keys) - 0
      BY <3>1 DEF Seen
    <3>. DEFINE n == Len(keys)
    <3>. HIDE DEF n
    <3>4. n \in Nat /\ n <= 1 /\ Seen = n - 0 /\ \A i \in 1..n : keys[i].c = "x"
      BY <3>1, <3>3 DEF n
    <3>5. Seen = n /\ Seen \in {0, 1}
      BY <3>2, <3>4
    <3>6. Seen = 1 => ~Plus(keys, 1)
      BY <3>4, <3>5 DEF Plus
    <3>. QED BY <3>1, <3>5, <3>6
  <2>2. esc'.state = "NORM"
    BY <1>2, <1>4
  <2>3. Seen' \in {0, 1} /\ (Seen' = 1 => keys'[1].c # "+")
    BY <1>4, <1>5, <2>1 DEF Plus
  <2>. QED BY <2>2, <2>3 DEF Follows, Plus
<1>7. online' /\ esc'.checkSilence => WakesUp'
  BY <1>2, <1>3, NowIs, WakesAgain
<1>. QED BY <1>5, <1>6, <1>7 DEF PInv

LEMMA IdlesInTime == ASSUME IInv, PInv, OnlineIdles, prompt, ~appIO PROVE PInv'
<1>1. InTime /\ online /\ ttyIn' = ttyIn /\ Becomes(Now) /\ s12' = s12
      /\ Follows(esc, keys, Seen)
  BY DEF PInv, OnlineIdles
<1>2. ~stop /\ bufR = <<>>
  BY <1>1 DEF InTime
<1>3. ttyIn = <<>>
  BY <1>1, <1>2 DEF OnlineIdles, TtyPolled
<1>4. /\ online' /\ bufR' = <<>> /\ ~stop' /\ newT' = newT /\ esc' = esc /\ now' = now
      /\ keys' = keys
  BY <1>1, <1>2, NowIs, PrimedBy
<1>5. InTime' /\ Seen' = Seen
  BY <1>1, <1>3, <1>4, SameKeys
<1>6. Follows(esc, keys, Seen)'
  BY <1>1, <1>4, <1>5 DEF Follows, Fresh, Plus, s12timePassed, guardTime
<1>7. online' /\ esc'.checkSilence => WakesUp'
  BY <1>1, NowIs, WakesAgain
<1>. QED BY <1>5, <1>6, <1>7 DEF PInv

LEMMA TickInTime == ASSUME IInv, PInv, Tick, prompt, ~appIO PROVE PInv'
<1>1. /\ InTime /\ ~Ready /\ now' = timevalAdd(now, [sec |-> 0, usec |-> 1])
      /\ UNCHANGED <<prompt, appIO, ttyIn, online, s12, bufR, prevT, newT, esc, stop, wake,
                     keys>>
      /\ online => Follows(esc, keys, Seen)
      /\ online /\ esc.checkSilence => WakesUp
  BY DEF PInv, Tick
<1>2. Micros(now') = Micros(now) + 1 /\ Micros(now) \in Int
  BY <1>1, NowIs, AddSmall, Smalls, MicrosType
<1>3. ttyIn = <<>>
  <2>1. ~stop /\ bufR = <<>>
    BY <1>1 DEF InTime
  <2>. QED BY <1>1, <2>1 DEF Ready, TtyPolled
<1>4. Seen' = Seen
  BY <1>1 DEF Seen
<1>5. InTime'
  <2>1. (Micros(Start) <= Micros(now))'
    BY <1>1, <1>2, Typed DEF InTime
  <2>2. (\A i \in 1..Len(keys) : Micros(keys[i].t) <= Micros(now))'
    <3>1. ASSUME NEW i \in 1..Len(keys) PROVE Micros(keys[i].t) <= Micros(now')
      <4>1. Micros(keys[i].t) \in Int /\ Micros(keys[i].t) <= Micros(now)
        BY <1>1, KeyIs DEF InTime
      <4>. QED BY <1>2, <4>1
    <3>. QED BY <1>1, <3>1
  <2>3. Key' = Key
    BY DEF Key
  <2>4. newT' = IF Seen' = 0 THEN ZeroT ELSE keys'[Seen'].t
    BY <1>1, <1>3, <1>4 DEF InTime
  <2>. QED BY <1>1, <1>3, <2>1, <2>2, <2>3, <2>4 DEF InTime
<1>6. online' => Follows(esc, keys, Seen)'
  BY <1>1, <1>4 DEF Follows, Fresh, Plus, s12timePassed, guardTime
<1>7. online' /\ esc'.checkSilence => WakesUp'
  <2>. SUFFICES ASSUME online, esc.checkSilence PROVE WakesUp'
    BY <1>1
  <2>1. PICK t \in wake : /\ t \in Timeval
                          /\ \/ Micros(t) <= Micros(now)
                             \/ Micros(t) < Micros(esc.expireT) + UsecPerMs
    BY <1>1 DEF WakesUp
  <2>2. Micros(t) <= Micros(now') \/ Micros(t) < Micros(esc.expireT) + UsecPerMs
    BY <1>2, <2>1, MicrosType
  <2>. QED BY <1>1, <2>1, <2>2 DEF WakesUp
<1>. QED BY <1>5, <1>6, <1>7 DEF PInv

LEMMA TypesInTime == ASSUME IInv, PInv, NEW c \in Char, DteTypes(c), prompt, ~appIO PROVE PInv'
<1>1. /\ InTime /\ ttyIn = <<>> /\ ttyIn' = Append(ttyIn, c)
      /\ online => keys' = LastOf(Append(keys, [c |-> c, t |-> now]), 4)
      /\ ~online => keys' = <<[c |-> "x", t |-> now]>>
      /\ UNCHANGED <<prompt, appIO, now, online, s12, bufR, prevT, newT, esc, stop, wake>>
      /\ online => Follows(esc, keys, Seen)
      /\ online /\ esc.checkSilence => WakesUp
  BY DEF PInv, DteTypes
<1>2. ttyIn' = <<c>> /\ ttyIn' # <<>> /\ Len(ttyIn') = 1 /\ ttyIn'[1] = c
  BY <1>1
<1>3. /\ keys \in Seq(Key) /\ Len(keys) \in Nat /\ Len(keys) <= 4 /\ Seen = Len(keys)
      /\ newT = IF Len(keys) = 0 THEN ZeroT ELSE keys[Len(keys)].t
      /\ \A i \in 1..Len(keys) : Micros(keys[i].t) <= Micros(now)
      /\ Micros(now) \in Int /\ now \in Timeval /\ Micros(Start) <= Micros(now)
      /\ ~stop /\ bufR = <<>>
  <2>1. keys \in Seq(Key) /\ Len(keys) \in Nat /\ Len(ttyIn) = 0
    BY <1>1, EmptyLen DEF InTime
  <2>2. Seen = Len(keys)
    BY <2>1 DEF Seen
  <2>. QED BY <1>1, <2>1, <2>2, NowIs, MicrosType DEF InTime
<1>4. Key' = Key
  BY DEF Key
<1>5. esc'.checkSilence /\ online' => WakesUp'
  BY <1>1 DEF WakesUp
<1>6. CASE online
  <2>. DEFINE k == [c |-> c, t |-> now]
              L == LastOf(Append(keys, k), 4)
  <2>1. k \in Key /\ k.c = c /\ k.t = now
    BY <1>3 DEF Key
  <2>3. keys' = L
    BY <1>1, <1>6
  <2>. HIDE DEF k
  <2>. HIDE DEF L
  <2>2. /\ L \in Seq(Key) /\ Len(L) <= 4 /\ Len(L) >= 1 /\ L[Len(L)] = k
        /\ Follows(esc, L, Len(L) - 1)
        /\ (Len(L) - 1 = 0 <=> Len(keys) = 0)
        /\ Len(keys) # 0 => L[Len(L) - 1] = keys[Len(keys)]
        /\ \A i \in 1..Len(L) : L[i] = k \/ \E j \in 1..Len(keys) : L[i] = keys[j]
    <3>1. Follows(esc, keys, Len(keys))
      BY <1>1, <1>3, <1>6
    <3>2. keys \in Seq(Key) /\ Len(keys) <= 4
      BY <1>3
    <3>. QED BY <2>1, <3>1, <3>2, FollowsOn DEF L
  <2>4. Len(L) \in Nat /\ L # <<>>
    <3>1. Len(L) \in Nat
      BY <2>2, EmptyLen
    <3>. QED BY <2>2, <3>1
  <2>5. Seen' = Len(L) - 1
    BY <1>2, <2>3 DEF Seen
  <2>6. \A i \in 1..Len(L) : Micros(L[i].t) <= Micros(now)
    <3>1. Micros(k.t) <= Micros(now)
      BY <1>3, <2>1
    <3>. QED BY <1>3, <2>2, <3>1
  <2>7. newT' = IF Seen' = 0 THEN ZeroT ELSE keys'[Seen'].t
    <3>1. CASE Len(keys) = 0
      BY <1>1, <1>3, <2>2, <2>5, <3>1
    <3>2. CASE Len(keys) # 0
      <4>1. Seen' # 0 /\ keys'[Seen'] = keys[Len(keys)]
        BY <2>2, <2>3, <2>5, <3>2
      <4>. QED BY <1>1, <1>3, <3>2, <4>1
    <3>. QED BY <3>1, <3>2
  <2>8. InTime'
    <3>1. (Micros(Start) <= Micros(now))'
      BY <1>1, <1>3
    <3>2. (\A i \in 1..Len(keys) : Micros(keys[i].t) <= Micros(now))'
      BY <1>1, <2>3, <2>6
    <3>3. keys' # <<>> /\ keys'[Len(keys')].t = now' /\ keys'[Len(keys')].c = ttyIn'[1]
      BY <1>1, <1>2, <2>1, <2>2, <2>3, <2>4
    <3>4. ~stop' /\ bufR' = <<>> /\ Len(ttyIn') <= 1 /\ online'
      BY <1>1, <1>2, <1>3, <1>6
    <3>5. (keys \in Seq(Key))' /\ Len(keys') <= 4
      BY <1>4, <2>2, <2>3
    <3>. QED BY <2>7, <3>1, <3>2, <3>3, <3>4, <3>5 DEF InTime
  <2>9. Follows(esc, keys, Seen)'
    BY <1>1, <2>2, <2>3, <2>5 DEF Follows, Fresh, Plus, s12timePassed, guardTime
  <2>. QED BY <1>5, <2>8, <2>9 DEF PInv
<1>7. CASE ~online
  <2>. DEFINE k == [c |-> "x", t |-> now]
  <2>1. k \in Key /\ k.c = "x" /\ k.t = now
    BY <1>3 DEF Key, Char
  <2>2. keys' = <<k>>
    BY <1>1, <1>7
  <2>. HIDE DEF k
  <2>3. /\ keys' \in Seq(Key) /\ Len(keys') = 1 /\ keys' # <<>> /\ keys'[1] = k
        /\ \A i \in 1..Len(keys') : keys'[i] = k
    BY <2>1, <2>2
  <2>4. InTime'
    <3>1. (Micros(Start) <= Micros(now))'
      BY <1>1, <1>3
    <3>2. (\A i \in 1..Len(keys) : Micros(keys[i].t) <= Micros(now))'
      BY <1>1, <1>3, <2>1, <2>3
    <3>3. keys' # <<>> /\ keys'[Len(keys')].t = now'
      BY <1>1, <2>1, <2>3
    <3>4. ~stop' /\ bufR' = <<>> /\ Len(ttyIn') <= 1 /\ ~online' /\ ttyIn' # <<>>
      BY <1>1, <1>2, <1>3, <1>7
    <3>5. (keys \in Seq(Key))' /\ Len(keys') <= 4 /\ Len(keys') <= 1
          /\ \A i \in 1..Len(keys') : keys'[i].c = "x"
      BY <1>4, <2>1, <2>3
    <3>. QED BY <3>1, <3>2, <3>3, <3>4, <3>5 DEF InTime
  <2>. QED BY <1>1, <1>7, <2>4 DEF PInv
<1>. QED BY <1>6, <1>7

\* The one key that waits is read, and handled, at the time it was typed.
LEMMA ReadsInTime == ASSUME IInv, PInv, OnlineReads, prompt, ~appIO PROVE PInv'
<1>. DEFINE n == Least(BufR, Len(ttyIn))
            x == ttyBufRead(Now, SubSeq(ttyIn, 1, n))
<1>1. /\ InTime /\ online /\ ttyIn # <<>> /\ s12' = s12
      /\ ttyIn' = SubSeq(ttyIn, n + 1, Len(ttyIn))
      /\ Follows(esc, keys, Seen)
  BY DEF PInv, OnlineReads
<1>2. PICK k \in 1..n, s \in BOOLEAN :
        /\ k < Len(x.bufR) => s
        /\ prompt => ~s
        /\ Becomes([ttyReadLoop(x, k) EXCEPT !.stop = s])
  BY DEF OnlineReads, Stalls
<1>. DEFINE z == [ttyReadLoop(x, k) EXCEPT !.stop = s]
            c == ttyIn[1]
<1>3. Len(ttyIn) = 1 /\ c \in Char /\ ttyIn \in Seq(Char) /\ ttyIn = <<c>>
  <2>1. Len(ttyIn) <= 1 /\ Len(ttyIn) \in Nat /\ Len(ttyIn) # 0 /\ ttyIn \in Seq(Char)
    BY <1>1, NowIs, EmptyLen DEF InTime
  <2>2. \A i \in Nat : i <= 1 /\ i # 0 => i = 1
    OBVIOUS
  <2>3. Len(ttyIn) = 1
    BY <2>1, <2>2, Zenon
  <2>. QED BY <2>1, <2>3
<1>4. n = 1 /\ SubSeq(ttyIn, 1, n) = ttyIn /\ ttyIn' = <<>>
  <2>1. n = 1
    BY <1>3, NowIs DEF Least
  <2>2. 1 \in 0..Len(ttyIn)
    BY <1>3
  <2>3. SubSeq(ttyIn, 1, 1) = ttyIn /\ SubSeq(ttyIn, 1 + 1, Len(ttyIn)) = <<>>
    BY <1>3, <2>2, Taking
  <2>. QED BY <1>1, <2>1, <2>3
<1>. HIDE DEF n
<1>5. /\ x \in Reader /\ x.online /\ x.esc = esc /\ x.heard = heard /\ x.stale = stale
      /\ x.bufR = ttyIn /\ x.prevT = newT /\ x.newT = now
  <2>1. x = ttyBufRead(Now, ttyIn)
    BY <1>4
  <2>2. now \in Timeval /\ Now \in Reader /\ Now.online = online /\ Now.esc = esc
        /\ Now.heard = heard /\ Now.stale = stale /\ Now.newT = newT /\ Now.bufR = bufR
    BY NowIs
  <2>3. <<>> \o ttyIn = ttyIn /\ bufR = <<>>
    BY <1>1, <1>3, ConcatEmptySeq DEF InTime
  <2>. HIDE DEF x
  <2>4. /\ x \in Reader /\ x.online = Now.online /\ x.bufR = Now.bufR \o ttyIn
        /\ x.prevT = Now.newT /\ x.newT = now /\ x.esc = Now.esc
        /\ x.heard = Now.heard /\ x.stale = Now.stale
    BY <1>3, <2>1, <2>2, Reads
  <2>. QED BY <1>1, <2>2, <2>3, <2>4
<1>. HIDE DEF x
<1>6. k = 1 /\ s = FALSE /\ k \in 0..Len(x.bufR) /\ Len(x.bufR) = 1
  <2>1. k \in 1..1
    BY <1>4
  <2>2. k = 1
    BY <2>1
  <2>3. Len(x.bufR) = 1
    BY <1>3, <1>5
  <2>4. s = FALSE
    BY <1>2
  <2>. QED BY <2>2, <2>3, <2>4
<1>7. Sound(x)
  <2>1. Sound(Now)
    BY <1>1 DEF IInv
  <2>2. Recent(x.heard, x.newT, x.prevT)
    BY <1>5, <2>1, RecentRead
  <2>. QED BY <1>5, <2>1, <2>2, NowIs DEF Sound
<1>8. /\ z \in Reader /\ z.online /\ z.newT = now /\ z.stop = FALSE /\ z.bufR = <<>>
      /\ z.esc = escSeqHandle(esc, c, now, newT)
  <2>1. s12 \in S12s
    BY NowIs
  <2>2. /\ z \in Reader /\ z.online = x.online /\ z.newT = x.newT /\ z.stop = s
        /\ z.bufR = SubSeq(x.bufR, k + 1, Len(x.bufR))
        /\ k = 1 => z.esc = escSeqHandle(x.esc, x.bufR[1], x.newT, x.prevT)
    <3>1. x \in Reader /\ k \in 0..Len(x.bufR) /\ s \in BOOLEAN /\ Sound(x)
      BY <1>5, <1>6, <1>7
    <3>. QED BY <2>1, <3>1, StalledLoop
  <2>3. SubSeq(x.bufR, 1 + 1, Len(x.bufR)) = <<>>
    <3>1. 1 \in 0..Len(ttyIn) /\ 1 = Len(ttyIn) /\ ttyIn \in Seq(Char)
      BY <1>3
    <3>2. SubSeq(ttyIn, 1 + 1, Len(ttyIn)) = <<>>
      BY <3>1, Taking
    <3>. QED BY <1>5, <3>2
  <2>. HIDE DEF z
  <2>. QED BY <1>5, <1>6, <2>2, <2>3
<1>9. Becomes(z)
  BY <1>2
<1>. HIDE DEF z, c
<1>10. /\ online' /\ bufR' = <<>> /\ ~stop' /\ newT' = now /\ esc' = z.esc /\ now' = now
       /\ keys' = keys
  BY <1>8, <1>9, PrimedBy
<1>. DEFINE m == Seen
<1>11. /\ keys \in Seq(Key) /\ Len(keys) \in Nat /\ m \in Nat /\ m + 1 = Len(keys)
       /\ Len(keys) <= 4 /\ keys[m + 1].t = now /\ keys[m + 1].c = c
       /\ \A i \in 1..Len(keys) : Micros(keys[i].t) <= Micros(now)
       /\ Micros(Start) <= Micros(now)
       /\ newT = IF m = 0 THEN ZeroT ELSE keys[m].t
  <2>1. keys \in Seq(Key) /\ keys # <<>> /\ Len(keys) \in Nat /\ Len(keys) # 0
    BY <1>1, EmptyLen DEF InTime
  <2>2. m = Len(keys) - 1
    BY <1>3 DEF Seen
  <2>3. m \in Nat /\ m + 1 = Len(keys)
    BY <2>1, <2>2
  <2>. HIDE DEF m
  <2>4. newT = IF m = 0 THEN ZeroT ELSE keys[m].t
    BY <1>1 DEF InTime, m
  <2>. QED BY <1>1, <2>1, <2>3, <2>4 DEF InTime, c
<1>12. Seen' = Len(keys)
  <2>1. Len(ttyIn') = 0
    BY <1>4
  <2>. QED BY <1>10, <1>11, <2>1 DEF Seen
<1>13. InTime'
  <2>1. Key' = Key
    BY DEF Key
  <2>2. newT' = IF Seen' = 0 THEN ZeroT ELSE keys'[Seen'].t
    <3>1. Seen' # 0 /\ keys'[Seen'].t = now
      BY <1>10, <1>11, <1>12
    <3>. QED BY <1>10, <3>1
  <2>3. Len(ttyIn') <= 1
    BY <1>4
  <2>. QED BY <1>4, <1>10, <1>11, <2>1, <2>2, <2>3 DEF InTime
<1>14. Follows(z.esc, keys, m + 1)
  <2>1. esc \in Escseq /\ s12 \in S12s
    BY NowIs
  <2>2. Follows(esc, keys, m)
    BY <1>1
  <2>. HIDE DEF m
  <2>3. \A i \in 1..m : Micros(keys[i].t) <= Micros(keys[m + 1].t)
    BY <1>11
  <2>4. z.esc = escSeqHandle(esc, keys[m + 1].c, keys[m + 1].t, newT)
    BY <1>8, <1>11
  <2>. DEFINE f == z.esc
  <2>5. f = escSeqHandle(esc, keys[m + 1].c, keys[m + 1].t, newT)
    BY <2>4
  <2>. HIDE DEF f
  <2>6. Follows(f, keys, m + 1)
    BY <1>11, <2>1, <2>2, <2>3, <2>5, FollowsNext
  <2>. QED BY <2>6 DEF f
<1>15. Follows(esc, keys, Seen)'
  <2>1. Seen' = m + 1
    BY <1>11, <1>12
  <2>. HIDE DEF m
  <2>. QED BY <1>1, <1>10, <1>14, <2>1 DEF Follows, Fresh, Plus, s12timePassed, guardTime
<1>16. online' /\ esc'.checkSilence => WakesUp'
  BY <1>8, <1>9, NowIs, WakesAgain
<1>. QED BY <1>13, <1>15, <1>16 DEF PInv

LEMMA InitPInv == Init => PInv
<1>. SUFFICES ASSUME Init, prompt, ~appIO PROVE PInv
  BY DEF PInv
<1>1. /\ ttyIn = <<>> /\ keys = <<>> /\ bufR = <<>> /\ ~stop /\ ~online /\ newT = ZeroT
      /\ now = Start
  BY DEF Init
<1>2. Len(ttyIn) = 0 /\ Len(keys) = 0 /\ keys \in Seq(Key) /\ Micros(now) \in Int
  BY <1>1, Typed
<1>3. Seen = 0
  BY <1>2 DEF Seen
<1>4. InTime
  <2>1. 1..Len(keys) = {} /\ Len(keys) <= 4 /\ Len(keys) <= 1 /\ Len(ttyIn) <= 1
    BY <1>2
  <2>. QED BY <1>1, <1>2, <1>3, <2>1, Typed DEF InTime
<1>. QED BY <1>1, <1>4 DEF PInv

LEMMA NextPInv == IInv /\ PInv /\ [Next]_vars => PInv'
<1>. SUFFICES ASSUME IInv, PInv, [Next]_vars PROVE PInv'
  OBVIOUS
<1>1. CASE UNCHANGED vars
  BY <1>1 DEF vars, PInv, InTime, Seen, Key, Follows, Fresh, Plus, s12timePassed, guardTime,
              WakesUp
<1>2. CASE Next
  <2>1. prompt' = prompt /\ appIO' = appIO
    BY <1>2 DEF Next, EscapesBySilence, EscapesByRequest, OnlineReads, OnlineHandles,
                OnlineIdles, CmdReads, AtSets, m2k_atcmd, Returns, Loses,
                m2k_write_from_app, DteTypes, Tick, Stalls, Becomes
  <2>. SUFFICES ASSUME prompt, ~appIO PROVE PInv'
    BY <2>1 DEF PInv
  <2>2. InTime
    BY DEF PInv
  <2>3. ~EscapesByRequest
    BY DEF EscapesByRequest
  <2>4. ~OnlineHandles
    BY <2>2 DEF OnlineHandles, InTime
  <2>5. ASSUME NEW n \in 1..BufR PROVE ~m2k_write_from_app(n)
    BY DEF m2k_write_from_app
  <2>6. CASE EscapesBySilence \/ Loses
    BY <2>6, SilenceInTime
  <2>7. CASE OnlineReads
    BY <2>7, ReadsInTime
  <2>8. CASE OnlineIdles
    BY <2>8, IdlesInTime
  <2>9. CASE CmdReads
    BY <2>9, CmdReadsInTime
  <2>10. CASE AtSets
    BY <2>10, SetsInTime
  <2>11. CASE Returns
    BY <2>11, ReturnsInTime
  <2>12. CASE \E c \in Char : DteTypes(c)
    BY <2>12, TypesInTime
  <2>13. CASE Tick
    BY <2>13, TickInTime
  <2>14. ~m2k_atcmd
    BY DEF m2k_atcmd
  <2>. QED BY <1>2, <2>3, <2>4, <2>5, <2>6, <2>7, <2>8, <2>9, <2>10, <2>11, <2>12, <2>13,
              <2>14 DEF Next
<1>. QED BY <1>1, <1>2

\* Three + after a silence have taken the detector to the guard, which poll()
\* does not sleep through: when it is over by a millisecond there is work.
LEMMA NoneMissed == IInv /\ PInv => NoEscapeMissed
<1>. SUFFICES ASSUME IInv, PInv, prompt, ~appIO, online, ~Ready, TypedEscape,
                     ~(Len(keys) > 3 /\ keys[1].c = "+")
              PROVE  FALSE
  BY DEF NoEscapeMissed
<1>. DEFINE n == Len(keys)
            a == keys[n - 2]
            b == keys[n - 1]
            d == keys[n]
            end == timevalAdd(d.t, guardTime)
            late == timevalAdd(end, [sec |-> 0, usec |-> UsecPerMs])
<1>1. InTime /\ Follows(esc, keys, Seen) /\ (esc.checkSilence => WakesUp)
  BY DEF PInv
<1>2. ttyIn = <<>>
  <2>1. ~stop /\ bufR = <<>>
    BY <1>1 DEF InTime
  <2>. QED BY <2>1 DEF Ready, TtyPolled
<1>3. keys \in Seq(Key) /\ n \in Nat /\ n <= 4 /\ Seen = n
  <2>1. keys \in Seq(Key) /\ n <= 4
    BY <1>1 DEF InTime
  <2>2. n \in Nat /\ Len(ttyIn) = 0
    BY <1>2, <2>1, EmptyLen
  <2>. QED BY <2>1, <2>2 DEF Seen
<1>4. n >= 3
  BY DEF TypedEscape
<1>5. n - 3 + 1 = n - 2 /\ n - 3 + 2 = n - 1 /\ n - 3 + 3 = n /\ n - 3 + 0 = n - 3
  BY <1>3
<1>6. /\ a.c = "+" /\ b.c = "+" /\ d.c = "+"
      /\ n > 3 => s12timePassed(a.t, keys[n - 3].t)
      /\ ~s12timePassed(d.t, a.t)
      /\ timevalCmp(now, late) > 0
  <2>1. \A i \in 1..3 : keys[n - 3 + i].c = "+"
    BY DEF TypedEscape
  <2>2. a.c = "+" /\ b.c = "+" /\ d.c = "+"
    <3>1. keys[n - 3 + 1].c = "+" /\ keys[n - 3 + 2].c = "+" /\ keys[n - 3 + 3].c = "+"
      BY <2>1
    <3>. QED BY <1>5, <3>1
  <2>3. /\ n > 3 => s12timePassed(keys[n - 3 + 1].t, keys[n - 3 + 0].t)
        /\ ~s12timePassed(keys[n - 3 + 3].t, keys[n - 3 + 1].t)
        /\ timevalCmp(now, timevalAdd(timevalAdd(keys[n - 3 + 3].t, guardTime),
                                      [sec |-> 0, usec |-> UsecPerMs])) > 0
    BY DEF TypedEscape
  <2>. QED BY <1>5, <2>2, <2>3
<1>. HIDE DEF n
<1>7. Fresh(keys, n - 2)
  <2>1. CASE n = 3
    <3>1. n - 2 = 1 /\ n < 4
      BY <2>1
    <3>. QED BY <3>1 DEF Fresh, n
  <2>2. CASE n # 3
    <3>1. n = 4 /\ n > 3 /\ n - 2 = 2 /\ n - 3 = 1 /\ 2 - 1 = 1 /\ 2 > 1
      BY <1>3, <1>4, <2>2
    <3>2. keys[1].c # "+"
      BY <3>1 DEF n
    <3>. QED BY <1>6, <3>1, <3>2 DEF Fresh
  <2>. QED BY <2>1, <2>2
<1>8. esc.checkSilence /\ esc.expireT = timevalAdd(guardTime, d.t)
  <2>1. Plus(keys, n - 2) /\ Plus(keys, n - 1) /\ Plus(keys, n)
    BY <1>6 DEF Plus
  <2>. QED BY <1>1, <1>3, <1>4, <1>6, <1>7, <2>1 DEF Follows
<1>9. d.t \in Timeval /\ Micros(d.t) \in Int
  <2>1. n \in 1..n
    BY <1>3, <1>4
  <2>. QED BY <1>3, <2>1, KeyIs DEF n
<1>10. /\ end \in Timeval /\ Micros(end) = Micros(d.t) + Guard
       /\ Micros(esc.expireT) = Micros(d.t) + Guard
  <2>1. s12 \in S12s
    BY NowIs
  <2>. HIDE DEF d
  <2>. QED BY <1>8, <1>9, <2>1, Passed
<1>. HIDE DEF end, d
<1>11. late \in Timeval /\ Micros(late) = Micros(end) + UsecPerMs
  BY <1>10, AddSmall, Smalls
<1>12. now \in Timeval /\ Micros(now) \in Int /\ Micros(end) \in Int /\ UsecPerMs \in Nat
  BY <1>10, NowIs, MicrosType, Typed
<1>13. Micros(now) > Micros(late)
  <2>. HIDE DEF late
  <2>. QED BY <1>6, <1>11, <1>12, CmpIsOrder
<1>14. PICK t \in wake : /\ t \in Timeval
                         /\ \/ Micros(t) <= Micros(now)
                            \/ Micros(t) < Micros(esc.expireT) + UsecPerMs
  BY <1>1, <1>8 DEF WakesUp
<1>. HIDE DEF late
<1>15. Micros(now) >= Micros(t)
  <2>1. Micros(t) \in Int
    BY <1>14, MicrosType
  <2>2. Micros(esc.expireT) = Micros(end)
    BY <1>10
  <2>. QED BY <1>11, <1>12, <1>13, <1>14, <2>1, <2>2
<1>16. timevalCmp(now, t) >= 0
  BY <1>12, <1>14, <1>15, NotBefore
<1>. QED BY <1>14, <1>16 DEF Ready

THEOREM PromptInvariance == Spec => []PInv
<1>1. IInv /\ PInv /\ [Next]_vars => PInv'
  BY NextPInv
<1>. QED BY <1>1, InitPInv, Invariance, PTL DEF Spec

\* No escape sequence typed as the manual says is lost on a prompt modem with a
\* tty: whatever was typed, read and dialed before it, poll() wakes the modem
\* when the second silence is over, and what it then does is to leave the call.
THEOREM NoEscapeMissedHolds == Spec => []NoEscapeMissed
BY NoneMissed, Invariance, PromptInvariance, PTL
=============================================================================
