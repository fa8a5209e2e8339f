------------------------------ MODULE Induction ------------------------------
(***************************************************************************)
(* Induction with a set in the place of a predicate, and what follows from *)
(* it about loops: a function f on 0..N whose value at n is a step from    *)
(* its value at n - 1, as the loops of the models are written.  And facts  *)
(* about sequences that are cut in two, which the loops consume.           *)
(***************************************************************************)
EXTENDS Integers, Sequences, SequenceTheorems, FiniteSetTheorems, WellFoundedInduction, TLAPS

\* The intervals 0..x, which are finite, are ordered like their ends.
LEMMA NatMin ==
  ASSUME NEW T, T \subseteq Nat, T # {}
  PROVE  \E x \in T : \A y \in T : x <= y
<1>. DEFINE R == StrictSubsetOrdering(Nat)
            F == FiniteSubsetsOf(Nat)
            U == {0..x : x \in T}
<1>1. IsWellFoundedOn(R, F)
  BY FS_StrictSubsetOrderingWellFounded
<1>2. U \subseteq F /\ U # {}
  <2>1. ASSUME NEW x \in T PROVE 0..x \in F
    <3>1. x \in Int /\ x \in Nat /\ 0 \in Int
      OBVIOUS
    <3>2. IsFiniteSet(0..x)
      BY <3>1, FS_Interval
    <3>. QED BY <3>1, <3>2 DEF FiniteSubsetsOf
  <2>. HIDE DEF F
  <2>. QED BY <2>1
<1>3. \E X \in U : \A Y \in U : ~ (<<Y, X>> \in R)
  <2>. HIDE DEF R, F, U
  <2>. QED BY <1>1, <1>2, WFMin
<1>4. PICK x \in T : \A y \in T : ~ (<<0..y, 0..x>> \in R)
  BY <1>3
<1>5. ASSUME NEW y \in T, y < x PROVE FALSE
  <2>1. (0..y) \subseteq (0..x) /\ (0..y) # (0..x)
    <3>1. x \in 0..x /\ x \notin 0..y /\ y \in Nat /\ x \in Nat
      BY <1>5
    <3>. QED BY <3>1
  <2>2. (0..y) \in SUBSET Nat /\ (0..x) \in SUBSET Nat
    OBVIOUS
  <2>. QED BY <2>1, <2>2, <1>4 DEF StrictSubsetOrdering
<1>. QED BY <1>5

LEMMA Induct ==
  ASSUME NEW P, 0 \in P, \A n \in Nat : n \in P => n + 1 \in P
  PROVE  Nat \subseteq P
<1>. SUFFICES ASSUME Nat \ P # {} PROVE FALSE
  OBVIOUS
<1>1. PICK x \in Nat \ P : \A y \in Nat \ P : x <= y
  BY NatMin
<1>2. x # 0 /\ x - 1 \in Nat /\ x - 1 \in P
  BY <1>1
<1>3. x - 1 + 1 \in P
  BY <1>2
<1>. QED BY <1>3

\* What holds before a loop and is kept by each turn holds after every turn.
LEMMA InductTo ==
  ASSUME NEW N \in Nat, NEW P, 0 \in P, \A n \in 1..N : n - 1 \in P => n \in P
  PROVE  0..N \subseteq P
<1>. DEFINE Q == {n \in Nat : n <= N => n \in P}
<1>1. 0 \in Q
  OBVIOUS
<1>2. ASSUME NEW n \in Nat, n \in Q PROVE n + 1 \in Q
  <2>1. CASE n + 1 <= N
    <3>1. n + 1 \in 1..N /\ (n + 1) - 1 \in P
      BY <1>2, <2>1
    <3>2. n + 1 \in P
      BY <3>1
    <3>. QED BY <3>2
  <2>2. CASE ~(n + 1 <= N)
    BY <2>2
  <2>. QED BY <2>1, <2>2
<1>3. Nat \subseteq Q
  <2>. HIDE DEF Q
  <2>. QED BY <1>1, <1>2, Induct
<1>. QED BY <1>3

\* Turn n of a loop of N turns over the set S is the function h[n]: it takes a
\* state of J[n - 1] to one of J[n].
Turns(N, S, J, h) ==
    /\ \A n \in 0..N : J[n] \subseteq S
    /\ \A n \in 1..N : \A y \in J[n - 1] : h[n][y] \in J[n]

Loop(f, N, S, J, x, h) ==
    /\ f \in [0..N -> S] /\ f[0] = x /\ \A n \in 0..N : f[n] \in J[n]
    /\ \A n \in 1..N : f[n] = h[n][f[n - 1]]

LEMMA LoopExists ==
  ASSUME NEW N \in Nat, NEW S, NEW J, NEW x \in J[0], NEW h, Turns(N, S, J, h)
  PROVE  \E f : Loop(f, N, S, J, x, h)
<1>. DEFINE L(k) == \E f \in [0..k -> S] :
                      /\ f[0] = x /\ \A n \in 0..k : f[n] \in J[n]
                      /\ \A n \in 1..k : f[n] = h[n][f[n - 1]]
            P == {k \in 0..N : L(k)}
<1>0. /\ \A n \in 0..N : J[n] \subseteq S
      /\ \A n \in 1..N : \A y \in J[n - 1] : h[n][y] \in J[n]
  BY DEF Turns
<1>1. L(0)
  <2>. DEFINE g == [i \in 0..0 |-> x]
  <2>1. x \in S
    BY <1>0
  <2>2. g \in [0..0 -> S] /\ g[0] = x /\ \A n \in 0..0 : g[n] \in J[n]
    BY <2>1
  <2>. HIDE DEF g
  <2>. QED BY <2>2
<1>2. ASSUME NEW k \in 1..N, L(k - 1) PROVE L(k)
  <2>1. PICK f : /\ f[0] = x
                 /\ \A n \in 0..(k - 1) : f[n] \in J[n]
                 /\ \A n \in 1..(k - 1) : f[n] = h[n][f[n - 1]]
    BY <1>2
  <2>. DEFINE g == [i \in 0..k |-> IF i = k THEN h[k][f[k - 1]] ELSE f[i]]
  <2>2. DOMAIN g = 0..k /\ g = [i \in DOMAIN g |-> g[i]]
    OBVIOUS
  <2>3. g[0] = x /\ g[k] = h[k][f[k - 1]] /\ \A i \in 0..(k - 1) : g[i] = f[i]
    BY <2>1
  <2>. HIDE DEF g
  <2>4. k - 1 \in 0..(k - 1)
    OBVIOUS
  <2>5. ASSUME NEW n \in 0..k PROVE g[n] \in J[n]
    <3>1. CASE n = k
      <4>1. f[k - 1] \in J[k - 1]
        BY <2>1, <2>4
      <4>. QED BY <1>0, <4>1, <3>1, <2>3
    <3>2. CASE n # k
      <4>1. n \in 0..(k - 1)
        BY <3>2
      <4>. QED BY <4>1, <2>1, <2>3
    <3>. QED BY <3>1, <3>2
  <2>6. ASSUME NEW n \in 1..k PROVE g[n] = h[n][g[n - 1]]
    <3>1. CASE n = k
      BY <3>1, <2>3, <2>4
    <3>2. CASE n # k
      <4>1. n \in 1..(k - 1) /\ n \in 0..(k - 1) /\ n - 1 \in 0..(k - 1)
        BY <3>2
      <4>. QED BY <4>1, <2>1, <2>3
    <3>. QED BY <3>1, <3>2
  <2>7. g \in [0..k -> S]
    <3>1. \A n \in 0..k : g[n] \in S
      BY <1>0, <2>5
    <3>. QED BY <2>2, <3>1
  <2>. QED BY <2>3, <2>5, <2>6, <2>7
<1>. HIDE DEF L
<1>3. 0..N \subseteq P
  <2>1. 0 \in P
    BY <1>1
  <2>2. \A n \in 1..N : n - 1 \in P => n \in P
    BY <1>2
  <2>. HIDE DEF P
  <2>. QED BY <2>1, <2>2, InductTo
<1>4. L(N)
  BY <1>3
<1>. QED BY <1>4 DEF L, Loop

\* The states that a loop f goes through.
LEMMA LoopStays ==
  ASSUME NEW N \in Nat, NEW J, NEW f, f[0] \in J[0],
         \A n \in 1..N : f[n - 1] \in J[n - 1] => f[n] \in J[n]
  PROVE  \A n \in 0..N : f[n] \in J[n]
<1>. DEFINE P == {n \in 0..N : f[n] \in J[n]}
<1>1. 0 \in P
  OBVIOUS
<1>2. \A n \in 1..N : n - 1 \in P => n \in P
  OBVIOUS
<1>3. 0..N \subseteq P
  <2>. HIDE DEF P
  <2>. QED BY <1>1, <1>2, InductTo
<1>. QED BY <1>3

\* Induction over the sequences over S, the last element taken off.
LEMMA SeqInduct ==
  ASSUME NEW S, NEW P, <<>> \in P,
         \A s \in Seq(S), e \in S : s \in P => Append(s, e) \in P
  PROVE  Seq(S) \subseteq P
<1>. DEFINE Q == {n \in Nat : \A s \in Seq(S) : Len(s) = n => s \in P}
<1>1. 0 \in Q
  BY EmptySeq
<1>2. ASSUME NEW n \in Nat, n \in Q PROVE n + 1 \in Q
  <2>1. ASSUME NEW s \in Seq(S), Len(s) = n + 1 PROVE s \in P
    <3>. DEFINE t == SubSeq(s, 1, n)
    <3>1. t \in Seq(S) /\ Len(t) = n /\ s[n + 1] \in S /\ s = Append(t, s[n + 1])
      BY <2>1
    <3>. HIDE DEF t
    <3>2. t \in P
      BY <1>2, <3>1
    <3>. QED BY <3>1, <3>2
  <2>. QED BY <2>1
<1>3. Nat \subseteq Q
  <2>. HIDE DEF Q
  <2>. QED BY <1>1, <1>2, Induct
<1>. QED BY <1>3, LenProperties
-----------------------------------------------------------------------------
(* Sequences. *)

\* The first n elements of a sequence, and the others.
LEMMA Cut ==
  ASSUME NEW S, NEW s \in Seq(S), NEW n \in 0..Len(s)
  PROVE  /\ SubSeq(s, 1, n) \in Seq(S) /\ Len(SubSeq(s, 1, n)) = n
         /\ SubSeq(s, n + 1, Len(s)) \in Seq(S) /\ Len(SubSeq(s, n + 1, Len(s))) = Len(s) - n
         /\ s = SubSeq(s, 1, n) \o SubSeq(s, n + 1, Len(s))
         /\ n = Len(s) => SubSeq(s, 1, n) = s /\ SubSeq(s, n + 1, Len(s)) = <<>>
         /\ n = 0 => SubSeq(s, 1, n) = <<>> /\ SubSeq(s, n + 1, Len(s)) = s
<1>. DEFINE a == SubSeq(s, 1, n)
            b == SubSeq(s, n + 1, Len(s))
<1>1. Len(s) \in Nat /\ n \in Int /\ \A i \in 1..Len(s) : s[i] \in S
  BY LenProperties, ElementOfSeq
<1>2. a \in Seq(S) /\ Len(a) = n /\ \A i \in 1..n : a[i] = s[i]
  BY <1>1
<1>3. b \in Seq(S) /\ Len(b) = Len(s) - n /\ \A i \in 1..(Len(s) - n) : b[i] = s[n + i]
  BY <1>1
<1>. HIDE DEF a, b
<1>4. s = a \o b
  <2>. DEFINE c == a \o b
  <2>1. c \in Seq(S) /\ Len(c) = Len(s)
    BY <1>1, <1>2, <1>3, ConcatProperties
  <2>2. ASSUME NEW i \in 1..Len(s) PROVE s[i] = c[i]
    <3>1. c[i] = IF i <= Len(a) THEN a[i] ELSE b[i - Len(a)]
      BY <1>1, <1>2, <1>3, ConcatProperties
    <3>2. CASE i <= n
      BY <3>1, <3>2, <1>2
    <3>3. CASE ~(i <= n)
      <4>1. i - n \in 1..(Len(s) - n) /\ n + (i - n) = i
        BY <3>3, <1>1
      <4>. QED BY <3>1, <3>3, <4>1, <1>2, <1>3
    <3>. QED BY <3>2, <3>3
  <2>. HIDE DEF c
  <2>3. s = c
    BY <2>1, <2>2, SeqEqual
  <2>. QED BY <2>3 DEF c
<1>5. n = Len(s) => a = s /\ b = <<>>
  BY <1>1, <1>3, EmptySeq, SubSeqFull DEF a
<1>6. n = 0 => a = <<>> /\ b = s
  BY <1>1, <1>2, EmptySeq, SubSeqFull DEF b
<1>. QED BY <1>2, <1>3, <1>4, <1>5, <1>6 DEF a, b

\* An element is put behind two sequences that are joined.
LEMMA JoinAppend ==
  ASSUME NEW S, NEW a \in Seq(S), NEW b \in Seq(S), NEW c \in S
  PROVE  a \o Append(b, c) = Append(a \o b, c)
<1>. DEFINE o == <<c>>
<1>1. o \in Seq(S)
  OBVIOUS
<1>2. a \o b \in Seq(S)
  BY ConcatProperties
<1>3. Append(b, c) = b \o o /\ Append(a \o b, c) = (a \o b) \o o
  BY <1>2, AppendIsConcat
<1>. HIDE DEF o
<1>4. (a \o b) \o o = a \o (b \o o)
  BY <1>1, ConcatAssociative
<1>. QED BY <1>3, <1>4

\* A sequence is empty when its length is 0.
LEMMA EmptyLen ==
  ASSUME NEW S, NEW s \in Seq(S)
  PROVE  Len(s) \in Nat /\ (s = <<>> <=> Len(s) = 0)
BY LenProperties, EmptySeq

\* The elements of a part of a sequence.
LEMMA PartIs ==
  ASSUME NEW S, NEW s \in Seq(S), NEW a \in Nat, NEW b \in Nat, a <= b, b <= Len(s)
  PROVE  /\ SubSeq(s, a + 1, b) \in Seq(S) /\ Len(SubSeq(s, a + 1, b)) = b - a
         /\ \A i \in 1..(b - a) : SubSeq(s, a + 1, b)[i] = s[a + i]
BY LenProperties, ElementOfSeq

\* Two parts that meet, and a part of a part.
LEMMA PartJoin ==
  ASSUME NEW S, NEW s \in Seq(S), NEW a \in Nat, NEW b \in Nat, NEW c \in Nat,
         a <= b, b <= c, c <= Len(s)
  PROVE  SubSeq(s, a + 1, b) \o SubSeq(s, b + 1, c) = SubSeq(s, a + 1, c)
<1>1. a + 1 \in 1..(Len(s) + 1) /\ b \in (a + 1 - 1)..Len(s) /\ c \in b..Len(s)
  BY EmptyLen
<1>. QED BY <1>1, ConcatAdjacentSubSeq

LEMMA PartOfPart ==
  ASSUME NEW S, NEW s \in Seq(S), NEW a \in Nat, NEW b \in Nat, a <= b, b <= Len(s),
         NEW n \in 0..(b - a)
  PROVE  /\ SubSeq(SubSeq(s, a + 1, b), 1, n) = SubSeq(s, a + 1, a + n)
         /\ SubSeq(SubSeq(s, a + 1, b), n + 1, b - a) = SubSeq(s, a + n + 1, b)
<1>. DEFINE t == SubSeq(s, a + 1, b)
            p == SubSeq(t, 1, n)
            q == SubSeq(t, n + 1, b - a)
            u == SubSeq(s, a + 1, a + n)
            v == SubSeq(s, a + n + 1, b)
<1>1. /\ Len(s) \in Nat /\ n \in Nat /\ a + n \in Nat /\ a <= a + n /\ a + n <= b
      /\ b - a \in Nat /\ n <= b - a /\ a + n <= Len(s)
  BY EmptyLen
<1>2. t \in Seq(S) /\ Len(t) = b - a /\ \A i \in 1..(b - a) : t[i] = s[a + i]
  BY PartIs
<1>3. u \in Seq(S) /\ Len(u) = n /\ \A i \in 1..n : u[i] = s[a + i]
  <2>1. (a + n) - a = n
    BY <1>1
  <2>. QED BY <1>1, <2>1, PartIs
<1>4. v \in Seq(S) /\ Len(v) = b - (a + n) /\ \A i \in 1..(b - (a + n)) : v[i] = s[a + n + i]
  BY <1>1, PartIs
<1>. HIDE DEF t, u, v
<1>5. p \in Seq(S) /\ Len(p) = n /\ \A i \in 1..n : p[i] = t[i]
  <2>1. /\ SubSeq(t, 0 + 1, n) \in Seq(S) /\ Len(SubSeq(t, 0 + 1, n)) = n - 0
        /\ \A i \in 1..(n - 0) : SubSeq(t, 0 + 1, n)[i] = t[0 + i]
    BY <1>1, <1>2, PartIs
  <2>. QED BY <1>1, <2>1
<1>6. q \in Seq(S) /\ Len(q) = b - a - n /\ \A i \in 1..(b - a - n) : q[i] = t[n + i]
  BY <1>1, <1>2, PartIs
<1>. HIDE DEF p, q
<1>7. p = u
  <2>1. ASSUME NEW i \in 1..n PROVE p[i] = u[i]
    <3>1. i \in 1..(b - a)
      BY <1>1
    <3>. QED BY <3>1, <1>2, <1>3, <1>5
  <2>. QED BY <2>1, <1>3, <1>5, SeqEqual
<1>8. q = v
  <2>1. \A i \in 1..(b - a - n) : q[i] = v[i]
    <3>1. ASSUME NEW i \in 1..(b - a - n) PROVE q[i] = v[i]
      <4>1. n + i \in 1..(b - a) /\ a + (n + i) = a + n + i /\ i \in 1..(b - (a + n))
        BY <1>1
      <4>. QED BY <4>1, <1>2, <1>4, <1>6
    <3>. QED BY <3>1
  <2>2. Len(q) = Len(v)
    BY <1>1, <1>4, <1>6
  <2>. QED BY <2>1, <2>2, <1>4, <1>6, SeqEqual
<1>. QED BY <1>7, <1>8 DEF p, q, t, u, v

\* A part loses its first element, and the part before it gains it.
LEMMA PartMoves ==
  ASSUME NEW S, NEW s \in Seq(S), NEW a \in Nat, NEW b \in Nat, a < b, b <= Len(s)
  PROVE  /\ s[a + 1] \in S
         /\ SubSeq(s, 1, a + 1) = Append(SubSeq(s, 1, a), s[a + 1])
         /\ Head(SubSeq(s, a + 1, b)) = s[a + 1]
         /\ Tail(SubSeq(s, a + 1, b)) = SubSeq(s, a + 2, b)
<1>1. /\ a + 1 \in 1..Len(s) /\ b \in (a + 1)..Len(s) /\ a \in 0..Len(s)
      /\ a + 1 + 1 = a + 2 /\ a + 1 - 1 = a
  BY EmptyLen
<1>2. s[a + 1] \in S
  BY <1>1, ElementOfSeq
<1>3. SubSeq(s, 1, a + 1) = Append(SubSeq(s, 1, a), s[a + 1])
  <2>1. 1 \in 1..Len(s) /\ a + 1 \in 1..Len(s)
    BY <1>1, EmptyLen
  <2>2. SubSeq(s, 1, a + 1) = SubSeq(s, 1, a + 1 - 1) \o <<s[a + 1]>>
    BY <2>1, SubSeqRecursiveSecond
  <2>3. SubSeq(s, 1, a) \in Seq(S)
    BY <1>1, Cut
  <2>. QED BY <1>1, <1>2, <2>2, <2>3, AppendIsConcat
<1>4. /\ Head(SubSeq(s, a + 1, b)) = s[a + 1]
      /\ Tail(SubSeq(s, a + 1, b)) = SubSeq(s, a + 1 + 1, b)
  BY <1>1, HeadTailOfSubSeq
<1>. QED BY <1>1, <1>2, <1>3, <1>4

\* A sequence that grows keeps its parts, and its last part grows.
LEMMA PartGrows ==
  ASSUME NEW S, NEW s \in Seq(S), NEW c \in S, NEW a \in Nat, NEW b \in Nat, a <= b, b <= Len(s)
  PROVE  /\ SubSeq(Append(s, c), a + 1, b) = SubSeq(s, a + 1, b)
         /\ SubSeq(Append(s, c), a + 1, Len(s) + 1) = Append(SubSeq(s, a + 1, Len(s)), c)
<1>. DEFINE t == Append(s, c)
            p == SubSeq(s, a + 1, b)
            q == SubSeq(t, a + 1, b)
            u == SubSeq(s, a + 1, Len(s))
            v == SubSeq(t, a + 1, Len(s) + 1)
            n == Len(s)
<1>1. n \in Nat /\ n + 1 \in Nat /\ b <= n + 1 /\ a <= n /\ a <= n + 1
  BY EmptyLen
<1>2. t \in Seq(S) /\ Len(t) = n + 1 /\ (\A i \in 1..n : t[i] = s[i]) /\ t[n + 1] = c
  BY AppendProperties
<1>3. p \in Seq(S) /\ Len(p) = b - a /\ \A i \in 1..(b - a) : p[i] = s[a + i]
  BY <1>1, PartIs
<1>4. u \in Seq(S) /\ Len(u) = n - a /\ \A i \in 1..(n - a) : u[i] = s[a + i]
  BY <1>1, PartIs
<1>. HIDE DEF t, p, u
<1>5. q \in Seq(S) /\ Len(q) = b - a /\ \A i \in 1..(b - a) : q[i] = t[a + i]
  BY <1>1, <1>2, PartIs
<1>6. v \in Seq(S) /\ Len(v) = n + 1 - a /\ \A i \in 1..(n + 1 - a) : v[i] = t[a + i]
  BY <1>1, <1>2, PartIs
<1>. HIDE DEF q, v
<1>7. q = p
  <2>1. \A i \in 1..(b - a) : q[i] = p[i]
    <3>1. ASSUME NEW i \in 1..(b - a) PROVE q[i] = p[i]
      <4>1. a + i \in 1..n
        BY <1>1
      <4>. QED BY <4>1, <1>2, <1>3, <1>5
    <3>. QED BY <3>1
  <2>. QED BY <2>1, <1>3, <1>5, SeqEqual
<1>8. v = Append(u, c)
  <2>1. /\ Append(u, c) \in Seq(S) /\ Len(Append(u, c)) = n - a + 1
        /\ \A i \in 1..(n - a) : Append(u, c)[i] = u[i]
        /\ Append(u, c)[n - a + 1] = c
    BY <1>4, AppendProperties
  <2>2. \A i \in 1..(n + 1 - a) : v[i] = Append(u, c)[i]
    <3>1. ASSUME NEW i \in 1..(n + 1 - a) PROVE v[i] = Append(u, c)[i]
      <4>1. CASE i \in 1..(n - a)
        <5>1. a + i \in 1..n
          BY <4>1, <1>1
        <5>. QED BY <4>1, <5>1, <2>1, <1>2, <1>4, <1>6
      <4>2. CASE i = n - a + 1
        <5>1. a + i = n + 1
          BY <4>2, <1>1
        <5>. QED BY <4>2, <5>1, <2>1, <1>2, <1>6
      <4>3. i \in 1..(n - a) \/ i = n - a + 1
        BY <1>1
      <4>. QED BY <4>1, <4>2, <4>3
    <3>. QED BY <3>1
  <2>3. Len(v) = Len(Append(u, c))
    BY <2>1, <1>1, <1>6
  <2>4. \A i \in 1..Len(v) : v[i] = Append(u, c)[i]
    BY <2>2, <1>6
  <2>. QED BY <2>1, <2>3, <2>4, <1>6, SeqEqual
<1>. QED BY <1>7, <1>8 DEF t, p, q, u, v
-----------------------------------------------------------------------------
(* Folds: a loop over the elements of s, which starts with a and goes on by *)
(* h, a function on A \X E.                                                *)

Steps(A, E) == [A \X E -> A]

FoldRun(f, s, A, a, h) ==
    /\ f \in [0..Len(s) -> A] /\ f[0] = a
    /\ \A n \in 1..Len(s) : f[n] = h[<<f[n - 1], s[n]>>]

FoldOf(s, A, a, h) == CHOOSE r : \E f : FoldRun(f, s, A, a, h) /\ r = f[Len(s)]

LEMMA FoldExists ==
  ASSUME NEW A, NEW E, NEW a \in A, NEW h \in Steps(A, E), NEW s \in Seq(E)
  PROVE  \E f : FoldRun(f, s, A, a, h)
<1>. DEFINE N == Len(s)
            J == [n \in 0..N |-> A]
            k == [n \in 1..N |-> [y \in A |-> h[<<y, s[n]>>]]]
<1>1. N \in Nat /\ \A n \in 1..N : s[n] \in E
  BY EmptyLen, ElementOfSeq
<1>. HIDE DEF N
<1>2. a \in J[0] /\ \A n \in 0..N : J[n] = A
  BY <1>1
<1>3. \A n \in 1..N : n - 1 \in 0..N
  BY <1>1
<1>4. \A n \in 1..N : \A y \in A : k[n][y] = h[<<y, s[n]>>] /\ k[n][y] \in A
  BY <1>1 DEF Steps
<1>. HIDE DEF J, k
<1>5. Turns(N, A, J, k)
  <2>1. \A n \in 0..N : J[n] \subseteq A
    BY <1>2
  <2>2. ASSUME NEW n \in 1..N, NEW y \in J[n - 1] PROVE k[n][y] \in J[n]
    <3>1. J[n - 1] = A /\ J[n] = A
      BY <1>1, <1>2, <1>3
    <3>. QED BY <3>1, <1>4
  <2>. QED BY <2>1, <2>2 DEF Turns
<1>6. PICK f : Loop(f, N, A, J, a, k)
  BY <1>1, <1>2, <1>5, LoopExists
<1>7. f \in [0..N -> A] /\ f[0] = a
  BY <1>6 DEF Loop
<1>8. ASSUME NEW n \in 1..N PROVE f[n] = h[<<f[n - 1], s[n]>>]
  <2>1. f[n] = k[n][f[n - 1]] /\ f[n - 1] \in A
    BY <1>3, <1>6 DEF Loop
  <2>. QED BY <2>1, <1>4
<1>9. FoldRun(f, s, A, a, h)
  BY <1>7, <1>8 DEF FoldRun, N
<1>. QED BY <1>9

Agree(s, t, N) ==
    /\ Len(s) \in Nat /\ Len(t) \in Nat /\ N <= Len(s) /\ N <= Len(t)
    /\ \A n \in 1..N : s[n] = t[n]

\* Two runs agree as far as their sequences do.
LEMMA FoldAgree ==
  ASSUME NEW A, NEW a, NEW h, NEW s, NEW t, NEW f, NEW g, NEW N \in Nat,
         FoldRun(f, s, A, a, h), FoldRun(g, t, A, a, h), Agree(s, t, N)
  PROVE  f[N] = g[N]
<1>. DEFINE P == {n \in 0..N : f[n] = g[n]}
<1>1. 0 \in P
  BY DEF FoldRun
<1>2. ASSUME NEW n \in 1..N, n - 1 \in P PROVE n \in P
  <2>1. n \in 1..Len(s) /\ n \in 1..Len(t) /\ s[n] = t[n]
    BY DEF Agree
  <2>2. f[n] = h[<<f[n - 1], s[n]>>] /\ g[n] = h[<<g[n - 1], t[n]>>]
    BY <2>1 DEF FoldRun
  <2>. QED BY <1>2, <2>1, <2>2
<1>3. 0..N \subseteq P
  <2>. HIDE DEF P
  <2>. QED BY <1>1, <1>2, InductTo
<1>. QED BY <1>3

LEMMA FoldIs ==
  ASSUME NEW A, NEW a, NEW h, NEW s, NEW f, Len(s) \in Nat, FoldRun(f, s, A, a, h)
  PROVE  FoldOf(s, A, a, h) = f[Len(s)]
<1>. DEFINE R(r) == \E g : FoldRun(g, s, A, a, h) /\ r = g[Len(s)]
<1>1. Len(s) \in Nat
  OBVIOUS
<1>2. \A r : R(r) => r = f[Len(s)]
  <2>1. Agree(s, s, Len(s))
    BY <1>1 DEF Agree
  <2>. QED BY <1>1, <2>1, FoldAgree
<1>3. R(f[Len(s)])
  OBVIOUS
<1>4. FoldOf(s, A, a, h) = CHOOSE r : R(r)
  BY DEF FoldOf
<1>. HIDE DEF R
<1>. QED BY <1>2, <1>3, <1>4

\* g goes on by h as long as it is in A.
FoldSteps(g, s, A, a, h) ==
    /\ DOMAIN g = 0..Len(s) /\ g = [n \in DOMAIN g |-> g[n]] /\ g[0] = a
    /\ \A n \in 1..Len(s) : g[n - 1] \in A => g[n] = h[<<g[n - 1], s[n]>>]

\* A loop g that goes on by h is the fold.
LEMMA FoldLoop ==
  ASSUME NEW A, NEW E, NEW a \in A, NEW h \in Steps(A, E), NEW s \in Seq(E), NEW g,
         FoldSteps(g, s, A, a, h)
  PROVE  FoldOf(s, A, a, h) = g[Len(s)]
<1>. DEFINE J == [n \in 0..Len(s) |-> A]
<1>1. Len(s) \in Nat /\ \A n \in 1..Len(s) : s[n] \in E
  BY EmptyLen, ElementOfSeq
<1>. USE DEF FoldSteps
<1>2. \A n \in 1..Len(s) : n - 1 \in 0..Len(s)
  BY <1>1
<1>3. \A n \in 0..Len(s) : J[n] = A
  OBVIOUS
<1>. HIDE DEF J
<1>4. ASSUME NEW n \in 1..Len(s), g[n - 1] \in J[n - 1] PROVE g[n] \in J[n]
  <2>1. J[n - 1] = A /\ J[n] = A
    BY <1>1, <1>2, <1>3
  <2>2. <<g[n - 1], s[n]>> \in A \X E
    BY <1>1, <1>4, <2>1
  <2>3. g[n] = h[<<g[n - 1], s[n]>>]
    BY <1>4, <2>1
  <2>. QED BY <2>1, <2>2, <2>3 DEF Steps
<1>5. g[0] \in J[0]
  BY <1>1, <1>3
<1>6. \A n \in 0..Len(s) : g[n] \in J[n]
  BY <1>1, <1>4, <1>5, LoopStays
<1>7. g \in [0..Len(s) -> A]
  BY <1>3, <1>6
<1>8. FoldRun(g, s, A, a, h)
  BY <1>2, <1>3, <1>6, <1>7 DEF FoldRun
<1>. QED BY <1>1, <1>8, FoldIs

LEMMA FoldNone ==
  ASSUME NEW A, NEW E, NEW a \in A, NEW h \in Steps(A, E), NEW z \in Seq(E), Len(z) \in {0}
  PROVE  FoldOf(z, A, a, h) = a
<1>1. z \in Seq(E) /\ Len(z) = 0 /\ Len(z) \in Nat
  OBVIOUS
<1>2. PICK e : FoldRun(e, z, A, a, h)
  BY <1>1, FoldExists
<1>3. FoldOf(z, A, a, h) = e[Len(z)]
  BY <1>1, <1>2, FoldIs
<1>4. e[0] = a
  BY <1>2 DEF FoldRun
<1>5. e[Len(z)] = a
  BY <1>1, <1>4
<1>. QED BY <1>3, <1>5

\* What the elements of s make of a.
LEMMA FoldType ==
  ASSUME NEW A, NEW E, NEW a \in A, NEW h \in Steps(A, E), NEW s \in Seq(E)
  PROVE  FoldOf(s, A, a, h) \in A
<1>1. PICK f : FoldRun(f, s, A, a, h)
  BY FoldExists
<1>2. Len(s) \in Nat
  BY EmptyLen
<1>3. FoldOf(s, A, a, h) = f[Len(s)]
  BY <1>1, <1>2, FoldIs
<1>. QED BY <1>1, <1>2, <1>3 DEF FoldRun

LEMMA FoldAppend ==
  ASSUME NEW A, NEW E, NEW a \in A, NEW h \in Steps(A, E), NEW s \in Seq(E), NEW c \in E
  PROVE  FoldOf(Append(s, c), A, a, h) = h[<<FoldOf(s, A, a, h), c>>]
<1>. DEFINE t == Append(s, c)
            n == Len(s)
<1>1. /\ t \in Seq(E) /\ Len(t) = n + 1 /\ n \in Nat
      /\ \A i \in 1..n : t[i] = s[i]
      /\ t[n + 1] = c
  BY AppendProperties, EmptyLen
<1>. HIDE DEF t
<1>2. PICK f : FoldRun(f, s, A, a, h)
  BY FoldExists
<1>3. PICK g : FoldRun(g, t, A, a, h)
  BY <1>1, FoldExists
<1>4. FoldOf(s, A, a, h) = f[n] /\ FoldOf(t, A, a, h) = g[n + 1]
  BY <1>1, <1>2, <1>3, FoldIs
<1>. HIDE DEF n
<1>5. Len(s) = n
  BY DEF n
<1>6. f[n] = g[n]
  <2>1. Agree(s, t, n)
    BY <1>1, <1>5 DEF Agree
  <2>. QED BY <1>1, <1>2, <1>3, <2>1, FoldAgree
<1>7. f[n] \in A
  BY <1>1, <1>2, <1>5 DEF FoldRun
<1>8. g[n + 1] = h[<<g[n], c>>]
  <2>1. n + 1 \in 1..Len(t) /\ (n + 1) - 1 = n
    BY <1>1, <1>5
  <2>2. g[n + 1] = h[<<g[(n + 1) - 1], t[n + 1]>>]
    BY <1>3, <2>1 DEF FoldRun
  <2>. QED BY <2>1, <2>2, <1>1
<1>. QED BY <1>4, <1>6, <1>7, <1>8 DEF t

\* A fold over a sequence in two parts, and over one that begins with c.
LEMMA FoldJoin ==
  ASSUME NEW A, NEW E, NEW a \in A, NEW h \in Steps(A, E), NEW s \in Seq(E), NEW t \in Seq(E)
  PROVE  FoldOf(s \o t, A, a, h) = FoldOf(t, A, FoldOf(s, A, a, h), h)
<1>. DEFINE b == FoldOf(s, A, a, h)
            F(u) == FoldOf(u, A, b, h)
            G(u) == FoldOf(s \o u, A, a, h)
            P == {u \in Seq(E) : G(u) = F(u)}
            z == <<>>
<1>1. b \in A
  BY FoldType
<1>2. z \in P
  <2>1. z \in Seq(E) /\ Len(z) \in {0} /\ s \o z = s
    BY EmptySeq, ConcatEmptySeq
  <2>. HIDE DEF b, z
  <2>2. FoldOf(z, A, b, h) = b
    BY <1>1, <2>1, FoldNone
  <2>. QED BY <2>1, <2>2 DEF b
<1>3. ASSUME NEW u \in Seq(E), NEW c \in E, u \in P PROVE Append(u, c) \in P
  <2>. DEFINE v == s \o u
  <2>1. v \in Seq(E) /\ Append(u, c) \in Seq(E)
    BY ConcatProperties, AppendProperties
  <2>. HIDE DEF b, v
  <2>2. F(Append(u, c)) = h[<<F(u), c>>]
    BY <1>1, FoldAppend
  <2>3. s \o Append(u, c) = Append(v, c)
    <3>1. <<c>> \in Seq(E)
      OBVIOUS
    <3>2. Append(u, c) = u \o <<c>> /\ Append(v, c) = v \o <<c>>
      BY <2>1, AppendIsConcat
    <3>3. (s \o u) \o <<c>> = s \o (u \o <<c>>)
      BY <3>1, ConcatAssociative
    <3>. QED BY <3>2, <3>3 DEF v
  <2>4. FoldOf(Append(v, c), A, a, h) = h[<<FoldOf(v, A, a, h), c>>]
    BY <2>1, FoldAppend
  <2>5. G(Append(u, c)) = h[<<G(u), c>>]
    BY <2>3, <2>4 DEF v
  <2>. HIDE DEF F, G
  <2>. QED BY <1>3, <2>1, <2>2, <2>5
<1>. HIDE DEF P
<1>4. Seq(E) \subseteq P
  BY <1>2, <1>3, SeqInduct DEF z
<1>. QED BY <1>4 DEF P

LEMMA FoldFirst ==
  ASSUME NEW A, NEW E, NEW a \in A, NEW h \in Steps(A, E), NEW c \in E, NEW s \in Seq(E)
  PROVE  h[<<a, c>>] \in A /\ FoldOf(<<c>> \o s, A, a, h) = FoldOf(s, A, h[<<a, c>>], h)
<1>. DEFINE z == <<>>
            o == Append(z, c)
<1>1. z \in Seq(E) /\ Len(z) \in {0}
  BY EmptySeq
<1>2. o \in Seq(E) /\ <<c>> = o
  OBVIOUS
<1>3. h[<<a, c>>] \in A
  BY DEF Steps
<1>. HIDE DEF z
<1>4. FoldOf(z, A, a, h) = a
  BY <1>1, FoldNone
<1>5. FoldOf(o, A, a, h) = h[<<FoldOf(z, A, a, h), c>>]
  <2>1. z \in Seq(E)
    BY <1>1
  <2>2. FoldOf(Append(z, c), A, a, h) = h[<<FoldOf(z, A, a, h), c>>]
    BY ONLY <2>1, FoldAppend, a \in A, h \in Steps(A, E), c \in E
  <2>. QED BY <2>2
<1>. HIDE DEF o
<1>6. FoldOf(o \o s, A, a, h) = FoldOf(s, A, FoldOf(o, A, a, h), h)
  BY <1>2, FoldJoin
<1>. QED BY <1>2, <1>3, <1>4, <1>5, <1>6

=============================================================================
