-------------------------- MODULE TelnetOptionProofs --------------------------
(***************************************************************************)
(* Modem and peer agree on an option whenever nothing is in flight.  The   *)
(* invariant IInv says, for each state of the two, what must still be on   *)
(* its way: it speaks of the last words of either queue and of what a      *)
(* queue holds, so queues may be of any length.                            *)
(***************************************************************************)
EXTENDS TelnetOption, SequenceTheorems, TLAPS

(* The queue of commands to the peer, in its order. *)
Out == wire \o sockW

Has(s, c)     == \E i \in 1..Len(s) : s[i] = c
Ends(s, c)    == s # <<>> /\ s[Len(s)] = c
EndsIn(s, c, d) == Len(s) >= 2 /\ s[Len(s) - 1] = c /\ s[Len(s)] = d
Single(s)     == Len(s) = 1

\* What the peer has said last is what it stands by: it has the option on, or
\* offers it, after ON; it gives up, after an ON of its own, with OFF.
PeersWord ==
    back # <<>> =>
        /\ peer \in {"YES", "WANTYES"} => Ends(back, "ON")
        /\ peer = "WANTNO" => Ends(back, "OFF") /\ (Single(back) \/ EndsIn(back, "ON", "OFF"))

\* A pending request is the last command on its way to the peer ...
RequestIsLast ==
    pending /\ Out # <<>> => Ends(Out, IF state THEN "OFF" ELSE "ON")

\* ... or the peer has answered it, and the answer is on its way, in front of
\* whatever the peer has said of its own accord since.
AnswerIsComing ==
    pending /\ Out = <<>> =>
        IF state THEN peer \in {"NO", "WANTYES"} /\ Has(back, "OFF")
        ELSE /\ back # <<>>
             /\ peer = "NO" => Ends(back, "OFF")
             /\ peer = "WANTYES" => EndsIn(back, "OFF", "ON")
             /\ peer = "WANTNO" => ~Single(back)

\* Where the two differ, one will hear of it.
DifferenceIsTold ==
    IF state
    THEN /\ peer \in {"NO", "WANTYES"} => Has(Out, "ON") \/ Has(back, "OFF")
         /\ peer = "WANTNO" => back # <<>>
    ELSE /\ peer \in {"YES", "WANTYES"} /\ back = <<>> =>
               Has(Out, "OFF") /\ (pending \/ Ends(Out, "OFF"))
         /\ peer = "WANTNO" => Has(Out, "OFF") \/ Has(back, "ON")

\* A requirement that was put to the peer and is no longer pending is met.
RequirementIsMet ==
    asked /\ ~pending => (req = "MUST" => state) /\ (req = "MUSTNOT" => ~state)

Settling == PeersWord /\ RequestIsLast /\ AnswerIsComing /\ DifferenceIsTold

IInv ==
    /\ TypeOK
    /\ ~online => sockW = <<>>
    /\ alive /\ ~lost /\ ~kept => Settling
    /\ alive /\ ~kept => RequirementIsMet

-----------------------------------------------------------------------------
(* Queues. *)

LEMMA AppendTells ==
  ASSUME NEW s \in Seq(Command), NEW c \in Command
  PROVE  LET t == Append(s, c) IN
         /\ t \in Seq(Command) /\ t # <<>>
         /\ \A d : Ends(t, d) <=> d = c
         /\ \A d : Has(t, d) <=> Has(s, d) \/ d = c
         /\ \A d, e : EndsIn(t, d, e) <=> Ends(s, d) /\ e = c
         /\ Single(t) <=> s = <<>>
<1>. DEFINE t == Append(s, c)
<1>1. /\ t \in Seq(Command) /\ t # <<>> /\ Len(t) = Len(s) + 1 /\ Len(s) \in Nat
      /\ \A i \in 1..Len(s) : t[i] = s[i]
      /\ t[Len(s) + 1] = c
  BY AppendProperties, LenProperties
<1>2. s # <<>> <=> Len(s) # 0
  BY EmptySeq
<1>. HIDE DEF t
<1>3. \A d : Ends(t, d) <=> d = c
  BY <1>1 DEF Ends
<1>4. \A d : Has(t, d) <=> Has(s, d) \/ d = c
  BY <1>1 DEF Has
<1>5. \A d, e : EndsIn(t, d, e) <=> Ends(s, d) /\ e = c
  BY <1>1, <1>2 DEF EndsIn, Ends
<1>6. Single(t) <=> s = <<>>
  BY <1>1, <1>2 DEF Single
<1>. QED BY <1>1, <1>3, <1>4, <1>5, <1>6 DEF t

LEMMA TailTells ==
  ASSUME NEW s \in Seq(Command), s # <<>>
  PROVE  LET t == Tail(s) IN
         /\ t \in Seq(Command) /\ Head(s) \in Command
         /\ \A d : Has(s, d) <=> Has(t, d) \/ d = Head(s)
         /\ t # <<>> => \A d : Ends(s, d) <=> Ends(t, d)
         /\ t = <<>> => \A d : Ends(s, d) <=> d = Head(s)
         /\ Single(s) <=> t = <<>>
         /\ \A d, e : EndsIn(s, d, e) <=>
                        \/ EndsIn(t, d, e)
                        \/ Single(t) /\ d = Head(s) /\ Ends(t, e)
<1>. DEFINE t == Tail(s)
            n == Len(t)
<1>1. /\ t \in Seq(Command) /\ Head(s) \in Command /\ Len(s) = n + 1 /\ n \in Nat
      /\ \A i \in 1..n : t[i] = s[i + 1]
      /\ s[1] = Head(s)
  BY HeadTailProperties, LenProperties
<1>2. t # <<>> <=> n # 0
  BY <1>1, EmptySeq
<1>. HIDE DEF t
<1>3. ASSUME NEW d PROVE Has(s, d) <=> Has(t, d) \/ d = Head(s)
  <2>1. ASSUME NEW i \in 1..Len(s), s[i] = d PROVE Has(t, d) \/ d = Head(s)
    <3>1. CASE i = 1
      BY <3>1, <2>1, <1>1
    <3>2. CASE i # 1
      <4>1. i - 1 \in 1..n /\ t[i - 1] = s[i]
        BY <3>2, <1>1
      <4>. QED BY <4>1, <2>1 DEF Has
    <3>. QED BY <3>1, <3>2
  <2>2. ASSUME NEW i \in 1..n, t[i] = d PROVE Has(s, d)
    <3>1. i + 1 \in 1..Len(s) /\ s[i + 1] = d
      BY <2>2, <1>1
    <3>. QED BY <3>1 DEF Has
  <2>3. ASSUME d = Head(s) PROVE Has(s, d)
    <3>1. 1 \in 1..Len(s) /\ s[1] = d
      BY <2>3, <1>1
    <3>. QED BY <3>1 DEF Has
  <2>. QED BY <2>1, <2>2, <2>3 DEF Has
<1>4. n # 0 => t[n] = s[Len(s)]
  BY <1>1
<1>5. n >= 2 => t[n - 1] = s[Len(s) - 1]
  BY <1>1
<1>. QED
  BY <1>1, <1>2, <1>3, <1>4, <1>5 DEF Single, Ends, EndsIn, t

LEMMA QueueTells ==
  ASSUME NEW s \in Seq(Command)
  PROVE  /\ s = <<>> => \A d : ~Has(s, d) /\ ~Ends(s, d)
         /\ ~Single(<<>>)
         /\ \A d, e : EndsIn(s, d, e) => Ends(s, e) /\ Has(s, d) /\ ~Single(s)
         /\ \A d : Ends(s, d) => Has(s, d) /\ \A e : Ends(s, e) => d = e
<1>1. Len(s) \in Nat /\ (s = <<>> <=> Len(s) = 0) /\ Len(<<>>) = 0
  BY LenProperties, EmptySeq
<1>. QED BY <1>1 DEF Has, Ends, EndsIn, Single

LEMMA OutMoves ==
  ASSUME wire \in Seq(Command), sockW \in Seq(Command)
  PROVE  /\ Out \in Seq(Command)
         /\ Out = <<>> <=> wire = <<>> /\ sockW = <<>>
         /\ sockW # <<>> => Append(wire, Head(sockW)) \o Tail(sockW) = Out
         /\ wire # <<>> => Head(Out) = Head(wire) /\ Tail(Out) = Tail(wire) \o sockW
         /\ \A c \in Command : wire \o Append(sockW, c) = Append(Out, c)
         /\ sockW = <<>> => Out = wire
<1>1. Out \in Seq(Command) /\ Len(Out) = Len(wire) + Len(sockW)
  BY ConcatProperties DEF Out
<1>2. Out = <<>> <=> wire = <<>> /\ sockW = <<>>
  BY ConcatEqualIffEmpty DEF Out
<1>3. ASSUME sockW # <<>> PROVE Append(wire, Head(sockW)) \o Tail(sockW) = Out
  <2>. DEFINE h == Head(sockW)
              t == Tail(sockW)
  <2>1. h \in Command /\ t \in Seq(Command) /\ <<h>> \in Seq(Command)
    BY <1>3, HeadTailProperties
  <2>2. Append(wire, h) = wire \o <<h>>
    BY <2>1, AppendIsConcat
  <2>3. (wire \o <<h>>) \o t = wire \o (<<h>> \o t)
    BY <2>1, ConcatAssociative
  <2>4. <<h>> \o t = sockW
    BY <1>3
  <2>. QED BY <2>2, <2>3, <2>4 DEF Out
<1>4. ASSUME wire # <<>> PROVE Head(Out) = Head(wire) /\ Tail(Out) = Tail(wire) \o sockW
  <2>. DEFINE h == Head(wire)
              t == Tail(wire)
  <2>1. h \in Command /\ t \in Seq(Command) /\ <<h>> \in Seq(Command)
    BY <1>4, HeadTailProperties
  <2>2. <<h>> \o t = wire
    BY <1>4
  <2>3. Out = <<h>> \o (t \o sockW) /\ t \o sockW \in Seq(Command)
    BY <2>1, <2>2, ConcatAssociative, ConcatProperties DEF Out
  <2>. QED BY <2>1, <2>3
<1>5. ASSUME NEW c \in Command PROVE wire \o Append(sockW, c) = Append(Out, c)
  <2>1. Append(sockW, c) = sockW \o <<c>> /\ <<c>> \in Seq(Command) /\ Append(Out, c) = Out \o <<c>>
    BY <1>1, AppendIsConcat
  <2>. QED BY <2>1, ConcatAssociative DEF Out
<1>6. sockW = <<>> => Out = wire
  BY ConcatEmptySeq DEF Out
<1>. QED BY <1>1, <1>2, <1>3, <1>4, <1>5, <1>6

-----------------------------------------------------------------------------
(* Types. *)

\* What telOptSendReqs() asks for, if anything: the other state.
LEMMA RequestIs ==
  ASSUME NEW r, NEW b
  PROVE  \/ request(r, b) = <<>>
         \/ request(r, b) = <<IF b THEN "OFF" ELSE "ON">>
<1>1. CASE r \in {"MUSTNOT", "BETTERNOT"} /\ b
  BY <1>1 DEF request
<1>2. CASE r \in {"MUST", "BETTER"} /\ ~b
  BY <1>2 DEF request
<1>3. CASE ~(r \in {"MUSTNOT", "BETTERNOT"} /\ b) /\ ~(r \in {"MUST", "BETTER"} /\ ~b)
  BY <1>3 DEF request
<1>. QED BY <1>1, <1>2, <1>3

LEMMA RequestType ==
  ASSUME NEW r, NEW b
  PROVE  request(r, b) \in Seq(Command)
<1>. DEFINE c == IF b THEN "OFF" ELSE "ON"
<1>1. c \in Command
  BY DEF Command
<1>. HIDE DEF c
<1>2. <<c>> \in Seq(Command) /\ <<>> \in Seq(Command)
  BY <1>1
<1>. QED BY <1>2, RequestIs DEF c

LEMMA TypeStep ==
  ASSUME TypeOK, [Next]_vars
  PROVE  TypeOK'
<1>. USE DEF TypeOK
<1>1. CASE Returns
  <2>1. sockW' \in Seq(Command)
    BY <1>1, RequestType, EmptySeq DEF Returns, stepEnterOnline, telOptSendReqs
  <2>2. /\ req' \in Req /\ pending' \in BOOLEAN /\ sentReqs' \in BOOLEAN
        /\ online' \in BOOLEAN /\ asked' \in BOOLEAN /\ hasty' \in BOOLEAN
    BY <1>1, ParameterAssumption
    DEF Returns, stepEnterOnline, telOptSendReqs, Requested
  <2>. QED BY <1>1, <2>1, <2>2 DEF Returns
<1>2. CASE Receives
  <2>. DEFINE c == Head(back)
  <2>1. c \in Command /\ Not(c) \in Command /\ back' \in Seq(Command)
    BY <1>2, HeadTailProperties DEF Receives, Command, Not
  <2>2. PICK a \in {<<>>, <<c>>, <<Not(c)>>} : sockW' = sockW \o a
    BY <1>2 DEF Receives, telOptHandle
  <2>3. a \in Seq(Command)
    <3>. DEFINE n == Not(c)
    <3>1. c \in Command /\ n \in Command
      BY <2>1
    <3>. HIDE DEF c, n
    <3>2. <<c>> \in Seq(Command) /\ <<n>> \in Seq(Command) /\ <<>> \in Seq(Command)
      BY <3>1
    <3>. QED BY <3>2, <2>2 DEF n
  <2>4. sockW' \in Seq(Command)
    BY <2>2, <2>3, ConcatProperties
  <2>5. pending' \in BOOLEAN /\ alive' \in BOOLEAN /\ state' \in BOOLEAN /\ kept' \in BOOLEAN
    BY <1>2 DEF Receives, telOptHandle, KeepsOn
  <2>. QED BY <1>2, <2>1, <2>4, <2>5 DEF Receives, telOptHandle
<1>3. CASE Sends
  BY <1>3, HeadTailProperties, AppendProperties DEF Sends, opt
<1>4. CASE Escapes
  <2>1. sockW' \in Seq(Command)
    BY <1>4, EmptySeq DEF Escapes
  <2>2. commands' \in 0..MaxCommands
    BY <1>4, ParameterAssumption DEF Escapes
  <2>3. lost' \in BOOLEAN /\ online' \in BOOLEAN
    BY <1>4 DEF Escapes
  <2>. QED BY <1>4, <2>1, <2>2, <2>3 DEF Escapes, opt
<1>5. ASSUME NEW w \in Wishes, NEW again \in BOOLEAN, AtSets(w, again) PROVE TypeOK'
  BY <1>5, ParameterAssumption DEF AtSets, opt
<1>6. CASE PeerAnswers
  <2>1. wire' \in Seq(Command)
    BY <1>6, HeadTailProperties DEF PeerAnswers
  <2>2. back' \in Seq(Command)
    <3>1. "ON" \in Command /\ "OFF" \in Command
      BY DEF Command
    <3>2. back' \in {back, Append(back, "ON"), Append(back, "OFF")}
      BY <1>6 DEF PeerAnswers
    <3>3. Append(back, "ON") \in Seq(Command) /\ Append(back, "OFF") \in Seq(Command)
      BY <3>1
    <3>. QED BY <3>2, <3>3
  <2>3. peer' \in {"NO", "YES", "WANTNO", "WANTYES"}
    BY <1>6 DEF PeerAnswers
  <2>. QED BY <1>6, <2>1, <2>2, <2>3 DEF PeerAnswers, opt
<1>7. CASE PeerOffers
  <2>1. offers' \in 0..MaxOffers
    BY <1>7, ParameterAssumption DEF PeerOffers
  <2>2. back' \in Seq(Command)
    <3>1. "ON" \in Command /\ "OFF" \in Command
      BY DEF Command
    <3>2. back' \in {Append(back, "ON"), Append(back, "OFF")}
      BY <1>7 DEF PeerOffers
    <3>3. Append(back, "ON") \in Seq(Command) /\ Append(back, "OFF") \in Seq(Command)
      BY <3>1
    <3>. QED BY <3>2, <3>3
  <2>. QED BY <1>7, <2>1, <2>2 DEF PeerOffers, opt
<1>8. CASE UNCHANGED vars
  BY <1>8 DEF vars, opt
<1>. QED BY <1>1, <1>2, <1>3, <1>4, <1>5, <1>6, <1>7, <1>8 DEF Next

-----------------------------------------------------------------------------
(* The steps. *)

Before == IInv /\ alive /\ ~lost /\ ~kept

LEMMA SendsSettling ==
  ASSUME Before, Sends
  PROVE  Settling'
<1>1. Out' = Out
  BY OutMoves DEF Before, IInv, TypeOK, Sends, Out
<1>2. UNCHANGED <<back, peer, state, pending>>
  BY DEF Sends, opt
<1>. QED
  BY <1>1, <1>2
  DEF Before, IInv, Settling, PeersWord, RequestIsLast, AnswerIsComing, DifferenceIsTold

LEMMA EscapesSettling ==
  ASSUME Before, Escapes, ~lost'
  PROVE  Settling'
<1>1. Out' = Out
  BY DEF Escapes, Out
<1>2. UNCHANGED <<back, peer, state, pending>>
  BY DEF Escapes, opt
<1>. QED
  BY <1>1, <1>2
  DEF Before, IInv, Settling, PeersWord, RequestIsLast, AnswerIsComing, DifferenceIsTold

LEMMA AtSetsSettling ==
  ASSUME Before, NEW w, NEW again, AtSets(w, again)
  PROVE  Settling'
<1>1. Out' = Out
  BY DEF AtSets, Out
<1>2. UNCHANGED <<back, peer, state, pending>>
  BY DEF AtSets, opt
<1>. QED
  BY <1>1, <1>2
  DEF Before, IInv, Settling, PeersWord, RequestIsLast, AnswerIsComing, DifferenceIsTold

\* A request goes behind all the others.
LEMMA ReturnsSettling ==
  ASSUME Before, Returns
  PROVE  Settling'
<1>1. wire \in Seq(Command) /\ sockW = <<>> /\ Out \in Seq(Command) /\ Out = wire
      /\ back \in Seq(Command) /\ state \in BOOLEAN /\ pending \in BOOLEAN
  BY OutMoves DEF Before, IInv, TypeOK, Returns
<1>2. UNCHANGED <<back, peer, state, wire>>
  BY DEF Returns
<1>3. CASE sockW' = <<>> /\ pending' = pending
  <2>1. Out' = Out
    BY <1>1, <1>2, <1>3 DEF Out
  <2>. QED
    BY <2>1, <1>2, <1>3
    DEF Before, IInv, Settling, PeersWord, RequestIsLast, AnswerIsComing, DifferenceIsTold
<1>4. ASSUME NEW c \in Command, sockW' = <<c>>, pending', c = IF state THEN "OFF" ELSE "ON"
      PROVE  Settling'
  <2>1. Out' = Append(Out, c)
    <3>1. Out' = wire \o <<c>>
      BY <1>2, <1>4 DEF Out
    <3>. QED BY <3>1, <1>1, AppendIsConcat
  <2>. DEFINE o == Append(Out, c)
  <2>2. /\ o # <<>>
        /\ \A d : Ends(o, d) <=> d = c
        /\ \A d : Has(o, d) <=> Has(Out, d) \/ d = c
    BY <1>1, AppendTells
  <2>. HIDE DEF o
  <2>3. Out' = o
    BY <2>1 DEF o
  <2>. QED
    BY <2>2, <2>3, <1>2, <1>4, <1>1
    DEF Before, IInv, Settling, PeersWord, RequestIsLast, AnswerIsComing, DifferenceIsTold
<1>5. CASE ~sentReqs
  <2>1. sockW' = request(wish, state) /\ pending' = (pending \/ request(wish, state) # <<>>)
    BY <1>5 DEF Returns, stepEnterOnline, telOptSendReqs
  <2>2. CASE request(wish, state) = <<>>
    BY <2>1, <2>2, <1>1, <1>3
  <2>3. CASE request(wish, state) # <<>>
    <3>. DEFINE c == IF state THEN "OFF" ELSE "ON"
    <3>1. c \in Command
      BY DEF Command
    <3>2. sockW' = <<c>> /\ pending'
      BY <2>1, <2>3, RequestIs
    <3>. QED BY <3>1, <3>2, <1>4
  <2>. QED BY <2>2, <2>3
<1>6. CASE sentReqs
  BY <1>3, <1>6 DEF Returns, stepEnterOnline
<1>. QED BY <1>5, <1>6

LEMMA PeerOffersSettling ==
  ASSUME Before, PeerOffers
  PROVE  Settling'
<1>1. Out' = Out /\ UNCHANGED <<state, pending>>
  BY DEF PeerOffers, opt, Out
<1>2. PICK c \in Command :
        /\ back' = Append(back, c)
        /\ c = "ON" => peer = "NO" /\ peer' = "WANTYES"
        /\ c = "OFF" => peer = "YES" /\ peer' = "WANTNO"
  BY DEF PeerOffers, Command
<1>3. back \in Seq(Command) /\ Out \in Seq(Command) /\ c \in {"ON", "OFF"}
      /\ state \in BOOLEAN /\ pending \in BOOLEAN
  BY OutMoves DEF Before, IInv, TypeOK, Command
<1>4. /\ back' # <<>>
      /\ \A d : Ends(back', d) <=> d = c
      /\ \A d : Has(back', d) <=> Has(back, d) \/ d = c
      /\ \A d, e : EndsIn(back', d, e) <=> Ends(back, d) /\ e = c
      /\ Single(back') <=> back = <<>>
  BY <1>2, <1>3, AppendTells
<1>5. /\ back = <<>> => \A d : ~Has(back, d) /\ ~Ends(back, d)
      /\ Out = <<>> => \A d : ~Has(Out, d) /\ ~Ends(Out, d)
      /\ \A d : Ends(back, d) => Has(back, d)
  BY <1>3, QueueTells
<1>6. Settling
  BY DEF Before, IInv
<1>. QED
  BY <1>1, <1>2, <1>3, <1>4, <1>5, <1>6
  DEF Settling, PeersWord, RequestIsLast, AnswerIsComing, DifferenceIsTold

\* The peer answers the oldest command, or takes it for an answer.
LEMMA PeerAnswersSettling ==
  ASSUME Before, PeerAnswers
  PROVE  Settling'
<1>1. /\ wire # <<>> /\ wire \in Seq(Command) /\ sockW \in Seq(Command)
      /\ back \in Seq(Command) /\ state \in BOOLEAN /\ pending \in BOOLEAN
  BY DEF Before, IInv, TypeOK, PeerAnswers
<1>2. Settling
  BY DEF Before, IInv
<1>3. UNCHANGED <<state, pending>>
  BY DEF PeerAnswers, opt
<1>. DEFINE h == Head(Out)
<1>4. Out \in Seq(Command) /\ Out # <<>> /\ Out' = Tail(Out) /\ Head(wire) = h
  BY <1>1, OutMoves DEF PeerAnswers, Out
<1>5. /\ h \in Command
      /\ \A d : Has(Out, d) <=> Has(Out', d) \/ d = h
      /\ Out' # <<>> => \A d : Ends(Out, d) <=> Ends(Out', d)
      /\ Out' = <<>> => \A d : Ends(Out, d) <=> d = h
      /\ Out' = <<>> => \A d : ~Has(Out', d)
  BY <1>4, TailTells, QueueTells
<1>6. /\ \A d : Ends(back, d) => Has(back, d) /\ \A e : Ends(back, e) => d = e
      /\ back = <<>> => \A d : ~Has(back, d) /\ ~Ends(back, d)
      /\ \A d : Ends(Out, d) => \A e : Ends(Out, e) => d = e
      /\ ~Single(<<>>)
  BY <1>1, <1>4, QueueTells
<1>7. h \in {"ON", "OFF"}
  BY <1>5 DEF Command
<1>. HIDE DEF h
<1>8. CASE back' = back
  <2>1. \/ h = "ON" /\ peer \in {"YES", "WANTYES"} /\ peer' = "YES"
        \/ h = "ON" /\ peer = "WANTNO" /\ peer' = "NO"
        \/ h = "OFF" /\ peer \in {"NO", "WANTNO", "WANTYES"} /\ peer' = "NO"
    <3>1. Append(back, "ON") # back /\ Append(back, "OFF") # back
      BY <1>1, AppendProperties DEF Command
    <3>. QED BY <3>1, <1>4, <1>8 DEF PeerAnswers, Before, IInv, TypeOK
  <2>. QED
    BY <1>2, <1>3, <1>4, <1>5, <1>6, <1>7, <1>8, <2>1
    DEF Settling, PeersWord, RequestIsLast, AnswerIsComing, DifferenceIsTold
<1>9. ASSUME NEW c \in Command, back' = Append(back, c),
             \/ h = "ON" /\ peer = "NO" /\ peer' = "YES" /\ c = "ON"
             \/ h = "ON" /\ peer = "NO" /\ peer' = "NO" /\ c = "OFF"
             \/ h = "OFF" /\ peer = "YES" /\ peer' = "NO" /\ c = "OFF"
      PROVE  Settling'
  <2>1. /\ back' # <<>>
        /\ \A d : Ends(back', d) <=> d = c
        /\ \A d : Has(back', d) <=> Has(back, d) \/ d = c
    BY <1>1, <1>9, AppendTells
  <2>. QED
    BY <1>2, <1>3, <1>4, <1>5, <1>6, <1>7, <1>9, <2>1
    DEF Settling, PeersWord, RequestIsLast, AnswerIsComing, DifferenceIsTold
<1>10. "ON" \in Command /\ "OFF" \in Command
  BY DEF Command
<1>. QED BY <1>4, <1>8, <1>9, <1>10 DEF PeerAnswers

\* What telOptHandle() makes of command c.
LEMMA HandleIs ==
  ASSUME NEW c \in Command, telOptHandle(c), state \in BOOLEAN, pending \in BOOLEAN,
         sockW \in Seq(Command), ~KeepsOn(c), alive'
  PROVE  /\ ~pending'
         /\ \/ sockW' = sockW /\ (pending \/ state = (c = "ON")) /\ state' = (c = "ON")
            \/ /\ sockW' = sockW \o <<c>> /\ state' = (c = "ON")
               /\ state # (c = "ON")
            \/ /\ sockW' = sockW \o <<Not(c)>> /\ state' = state /\ ~pending
               /\ state => c = "ON"
<1>. DEFINE on == c = "ON"
            must == req = mustNegate(c)
            negate == must \/ req = betterNegate(c)
            answer == CASE negate /\ ~pending         -> <<Not(c)>>
                        [] AnswersAgain(c)            -> <<c>>
                        [] ~negate /\ ~pending /\ state # on -> <<c>>
                        [] OTHER                      -> <<>>
<1>1. /\ ~pending' /\ ~(pending /\ must)
      /\ state' = IF negate /\ (~pending \/ must) THEN state ELSE on
      /\ sockW' = sockW \o answer
  BY DEF telOptHandle
<1>2. CASE negate /\ ~pending
  <2>1. answer = <<Not(c)>>
    BY <1>2 DEF AnswersAgain
  <2>2. state => on
    BY <1>2 DEF KeepsOn, mustNegate, betterNegate, Command
  <2>. HIDE DEF answer
  <2>. QED BY <1>1, <1>2, <2>1, <2>2
<1>3. CASE AnswersAgain(c)
  <2>1. answer = <<c>>
    BY <1>3 DEF AnswersAgain
  <2>2. pending /\ state # on
    BY <1>3 DEF AnswersAgain
  <2>. HIDE DEF answer
  <2>. QED BY <1>1, <2>1, <2>2
<1>4. CASE ~negate /\ ~pending /\ state # on
  <2>1. answer = <<c>>
    BY <1>4 DEF AnswersAgain
  <2>. HIDE DEF answer
  <2>. QED BY <1>1, <1>4, <2>1
<1>5. CASE /\ ~(negate /\ ~pending) /\ ~AnswersAgain(c)
           /\ ~(~negate /\ ~pending /\ state # on)
  <2>1. answer = <<>>
    BY <1>5
  <2>2. sockW' = sockW
    <3>. HIDE DEF answer
    <3>. QED BY <1>1, <2>1, ConcatEmptySeq
  <2>3. pending \/ state = on
    BY <1>5
  <2>4. state' = on
    BY <1>1, <1>5
  <2>. QED BY <1>1, <2>2, <2>3, <2>4
<1>. QED BY <1>2, <1>3, <1>4, <1>5

\* The modem handles the oldest command of the peer.
LEMMA ReceivesSettling ==
  ASSUME Before, Receives, alive', ~kept'
  PROVE  Settling'
<1>. DEFINE c == Head(back)
<1>1. /\ back # <<>> /\ wire \in Seq(Command) /\ sockW \in Seq(Command)
      /\ back \in Seq(Command) /\ state \in BOOLEAN /\ pending \in BOOLEAN
      /\ back' = Tail(back) /\ UNCHANGED <<peer, wire>>
  BY DEF Before, IInv, TypeOK, Receives
<1>2. Settling
  BY DEF Before, IInv
<1>3. /\ c \in Command
      /\ \A d : Has(back, d) <=> Has(back', d) \/ d = c
      /\ back' # <<>> => \A d : Ends(back, d) <=> Ends(back', d)
      /\ back' = <<>> => \A d : Ends(back, d) <=> d = c
      /\ Single(back) <=> back' = <<>>
      /\ \A d, e : EndsIn(back, d, e) <=>
                     \/ EndsIn(back', d, e)
                     \/ Single(back') /\ d = c /\ Ends(back', e)
      /\ back' = <<>> => \A d : ~Has(back', d) /\ ~Ends(back', d)
      /\ \A d : Ends(back', d) => Has(back', d) /\ \A e : Ends(back', e) => d = e
      /\ \A d : Ends(back, d) => \A e : Ends(back, e) => d = e
      /\ \A d, e : EndsIn(back', d, e) => Ends(back', e) /\ Has(back', d) /\ ~Single(back')
  BY <1>1, TailTells, QueueTells
<1>4. /\ Out \in Seq(Command)
      /\ \A d : Ends(Out, d) => Has(Out, d) /\ \A e : Ends(Out, e) => d = e
      /\ Out = <<>> => \A d : ~Has(Out, d) /\ ~Ends(Out, d)
      /\ \A d \in Command : wire \o (sockW \o <<d>>) = Append(Out, d)
  <2>1. Out \in Seq(Command)
    BY <1>1, OutMoves
  <2>2. ASSUME NEW d \in Command PROVE wire \o (sockW \o <<d>>) = Append(Out, d)
    BY <1>1, <2>1, OutMoves, AppendIsConcat
  <2>. QED BY <2>1, <2>2, QueueTells
<1>5. c \in {"ON", "OFF"} /\ Not(c) \in Command /\ (c = "ON" => Not(c) = "OFF")
      /\ (c = "OFF" => Not(c) = "ON")
  BY <1>3 DEF Command, Not
<1>6. /\ ~pending'
      /\ \/ sockW' = sockW /\ (pending \/ state = (c = "ON")) /\ state' = (c = "ON")
         \/ /\ sockW' = sockW \o <<c>> /\ state' = (c = "ON")
            /\ state # (c = "ON")
         \/ /\ sockW' = sockW \o <<Not(c)>> /\ state' = state /\ ~pending
            /\ state => c = "ON"
  BY <1>1, <1>3, HandleIs DEF Receives
<1>. HIDE DEF c
<1>7. CASE sockW' = sockW /\ (pending \/ state = (c = "ON")) /\ state' = (c = "ON")
  <2>1. Out' = Out
    BY <1>1, <1>7 DEF Out
  <2>. QED
    BY <1>1, <1>2, <1>3, <1>4, <1>5, <1>6, <1>7, <2>1
    DEF Settling, PeersWord, RequestIsLast, AnswerIsComing, DifferenceIsTold
<1>8. ASSUME NEW a \in Command, sockW' = sockW \o <<a>>,
             \/ a = c /\ state' = (c = "ON") /\ state # (c = "ON")
             \/ a = Not(c) /\ state' = state /\ ~pending /\ (state => c = "ON")
      PROVE  Settling'
  <2>. DEFINE o == Append(Out, a)
  <2>1. /\ o # <<>>
        /\ \A d : Ends(o, d) <=> d = a
        /\ \A d : Has(o, d) <=> Has(Out, d) \/ d = a
    BY <1>4, AppendTells
  <2>2. Out' = o
    BY <1>1, <1>4, <1>8 DEF Out
  <2>. HIDE DEF o
  <2>3. PeersWord'
    BY <1>1, <1>2, <1>3 DEF Settling, PeersWord
  <2>4. RequestIsLast' /\ AnswerIsComing'
    BY <1>6 DEF RequestIsLast, AnswerIsComing
  <2>5. /\ Has(Out', a) /\ Ends(Out', a)
        /\ Has(Out, "ON") => Has(Out', "ON")
        /\ Has(Out, "OFF") => Has(Out', "OFF")
    BY <2>1, <2>2
  <2>6. /\ Has(back, "ON") => Has(back', "ON") \/ c = "ON"
        /\ Has(back, "OFF") => Has(back', "OFF") \/ c = "OFF"
        /\ back' = <<>> /\ peer = "WANTNO" => c = "OFF"
        /\ back' = <<>> /\ peer \in {"YES", "WANTYES"} => c = "ON"
    BY <1>1, <1>2, <1>3 DEF Settling, PeersWord
  <2>7. DifferenceIsTold
    BY <1>2 DEF Settling
  <2>8. DifferenceIsTold'
    <3>1. CASE a = c /\ c = "ON"
      BY <1>1, <1>5, <1>8, <2>5, <2>6, <3>1 DEF DifferenceIsTold
    <3>2. CASE a = c /\ c = "OFF"
      BY <1>1, <1>5, <1>8, <2>5, <2>6, <3>2 DEF DifferenceIsTold
    <3>3. CASE c = "ON" /\ a = "OFF" /\ state' = state
      BY <1>1, <2>5, <2>6, <2>7, <3>3 DEF DifferenceIsTold
    <3>4. CASE c = "OFF" /\ a = "ON" /\ state' = state /\ ~state
      BY <1>1, <2>5, <2>6, <2>7, <3>4 DEF DifferenceIsTold
    <3>. QED BY <1>1, <1>5, <1>8, <3>1, <3>2, <3>3, <3>4
  <2>. QED BY <2>3, <2>4, <2>8 DEF Settling
<1>. QED BY <1>3, <1>5, <1>6, <1>7, <1>8

\* No step, but the handling of a command or a request, has a say in what has
\* been required.
LEMMA MetStep ==
  ASSUME TypeOK, Next, alive', ~kept', alive /\ ~kept => RequirementIsMet
  PROVE  RequirementIsMet'
<1>1. CASE Returns
  <2>1. alive /\ ~kept
    BY <1>1 DEF Returns
  <2>2. CASE sentReqs
    BY <1>1, <2>1, <2>2 DEF Returns, stepEnterOnline, RequirementIsMet
  <2>3. CASE ~sentReqs
    <3>1. req' = wish /\ state' = state /\ pending' = (pending \/ request(wish, state) # <<>>)
      BY <1>1, <2>3 DEF Returns, stepEnterOnline, telOptSendReqs
    <3>2. request(wish, state) = <<>> => (wish = "MUST" => state) /\ (wish = "MUSTNOT" => ~state)
      BY DEF request
    <3>. QED BY <3>1, <3>2 DEF RequirementIsMet
  <2>. QED BY <2>2, <2>3
<1>2. CASE Receives
  <2>. DEFINE c == Head(back)
              must == req = mustNegate(c)
              negate == must \/ req = betterNegate(c)
  <2>1. c \in {"ON", "OFF"} /\ state \in BOOLEAN /\ pending \in BOOLEAN
    BY <1>2, HeadTailProperties DEF Receives, TypeOK, Command
  <2>2. /\ alive /\ ~kept /\ UNCHANGED <<asked, req>> /\ ~(pending /\ must)
        /\ state' = IF negate /\ (~pending \/ must) THEN state ELSE c = "ON"
    BY <1>2 DEF Receives, telOptHandle
  <2>3. RequirementIsMet
    BY <2>2
  <2>. HIDE DEF c
  <2>4. (req = "MUST" => (negate <=> c = "OFF") /\ (must <=> c = "OFF"))
        /\ (req = "MUSTNOT" => (negate <=> c = "ON") /\ (must <=> c = "ON"))
    BY <2>1 DEF mustNegate, betterNegate
  <2>. HIDE DEF must, negate
  <2>. QED BY <2>1, <2>2, <2>3, <2>4 DEF RequirementIsMet
<1>3. ASSUME UNCHANGED <<asked, pending, req, state, alive, kept>>
      PROVE  RequirementIsMet'
  BY <1>3 DEF RequirementIsMet
<1>. QED
  BY <1>1, <1>2, <1>3 DEF Next, Sends, Escapes, AtSets, PeerAnswers, PeerOffers, opt

\* Off line the write buffer is empty: an escape discards it, and only ONLINE
\* fills it.
LEMMA BufferStep ==
  ASSUME Next, ~online => sockW = <<>>
  PROVE  (~online => sockW = <<>>)'
<1>1. CASE Returns
  BY <1>1 DEF Returns, stepEnterOnline
<1>2. CASE Receives
  BY <1>2 DEF Receives
<1>3. CASE Sends
  BY <1>3 DEF Sends
<1>4. CASE Escapes
  BY <1>4 DEF Escapes
<1>5. ASSUME UNCHANGED <<online, sockW>> PROVE (~online => sockW = <<>>)'
  BY <1>5
<1>. QED BY <1>1, <1>2, <1>3, <1>4, <1>5 DEF Next, AtSets, PeerAnswers, PeerOffers

\* A call starts with at most the first request under way.
LEMMA InitIInv == Init => IInv
<1>. SUFFICES ASSUME Init PROVE IInv
  OBVIOUS
<1>1. TypeOK
  <2>1. sockW \in Seq(Command) /\ wire \in Seq(Command) /\ back \in Seq(Command)
    BY RequestType, EmptySeq DEF Init
  <2>2. wish \in Req /\ req \in Req /\ wish \in Wishes
    BY ParameterAssumption DEF Init
  <2>3. commands \in 0..MaxCommands /\ offers \in 0..MaxOffers
    BY ParameterAssumption DEF Init
  <2>4. /\ state \in BOOLEAN /\ pending \in BOOLEAN /\ sentReqs \in BOOLEAN
        /\ online \in BOOLEAN /\ alive \in BOOLEAN /\ asked \in BOOLEAN
        /\ hasty \in BOOLEAN /\ lost \in BOOLEAN /\ kept \in BOOLEAN /\ peer = "NO"
    BY DEF Init
  <2>. QED BY <2>1, <2>2, <2>3, <2>4 DEF TypeOK
<1>2. /\ ~state /\ online /\ wire = <<>> /\ back = <<>> /\ peer = "NO"
  BY DEF Init
<1>3. Out = sockW
  BY <1>1, <1>2, ConcatEmptySeq DEF Out, TypeOK
<1>4. pending => Out # <<>> /\ Ends(Out, "ON")
  <2>. SUFFICES ASSUME pending PROVE Out # <<>> /\ Ends(Out, "ON")
    OBVIOUS
  <2>1. sockW = request(wish, FALSE) /\ sockW # <<>>
    BY DEF Init
  <2>2. sockW = <<"ON">>
    BY <2>1, RequestIs
  <2>. QED BY <1>3, <2>2 DEF Ends
<1>5. Settling
  BY <1>2, <1>4 DEF Settling, PeersWord, RequestIsLast, AnswerIsComing, DifferenceIsTold
<1>6. RequirementIsMet
  <2>1. asked /\ ~pending => req = wish /\ request(wish, FALSE) = <<>>
    BY DEF Init
  <2>2. request(wish, FALSE) = <<>> => wish # "MUST"
    BY DEF request
  <2>. QED BY <1>2, <2>1, <2>2 DEF RequirementIsMet
<1>. QED BY <1>1, <1>2, <1>5, <1>6 DEF IInv

\* Whether the modem has hung up, lost commands or kept an option on is for good.
LEMMA StaysSo ==
  ASSUME Next
  PROVE  (alive' => alive) /\ (lost => lost') /\ (kept => kept')
<1>1. CASE Returns
  BY <1>1 DEF Returns
<1>2. CASE Receives
  BY <1>2, Zenon DEF Receives
<1>3. CASE Escapes
  BY <1>3, Zenon DEF Escapes
<1>4. CASE UNCHANGED <<alive, lost, kept>>
  BY <1>4
<1>. QED BY <1>1, <1>2, <1>3, <1>4 DEF Next, Sends, AtSets, PeerAnswers, PeerOffers

LEMMA SettlingStep ==
  ASSUME IInv, Next, alive', ~lost', ~kept'
  PROVE  Settling'
<1>1. Before
  BY StaysSo DEF Before
<1>. QED
  BY <1>1, SendsSettling, EscapesSettling, AtSetsSettling, ReturnsSettling,
     PeerOffersSettling, PeerAnswersSettling, ReceivesSettling
  DEF Next

\* Every step keeps what must still be on its way.
LEMMA IInvStep == IInv /\ [Next]_vars => IInv'
<1>1. ASSUME IInv, Next PROVE IInv'
  <2>1. TypeOK'
    BY <1>1, TypeStep DEF IInv
  <2>2. (~online => sockW = <<>>)'
    BY <1>1, BufferStep DEF IInv
  <2>3. (alive /\ ~lost /\ ~kept => Settling)'
    BY <1>1, SettlingStep
  <2>4. (alive /\ ~kept => RequirementIsMet)'
    BY <1>1, MetStep DEF IInv
  <2>. QED BY <2>1, <2>2, <2>3, <2>4 DEF IInv
<1>2. ASSUME IInv, UNCHANGED vars PROVE IInv'
  <2>1. Out' = Out
    BY <1>2 DEF vars, Out
  <2>2. UNCHANGED <<online, sockW, alive, lost, kept, back, peer, state, pending, asked, req>>
    BY <1>2 DEF vars, opt
  <2>3. TypeOK'
    BY <1>2, TypeStep DEF IInv
  <2>. QED
    BY <1>2, <2>1, <2>2, <2>3
    DEF IInv, Settling, PeersWord, RequestIsLast, AnswerIsComing, DifferenceIsTold,
        RequirementIsMet
<1>. QED BY <1>1, <1>2

\* What must still be on its way is, in every state that is reached.
THEOREM Invariance == Spec => []IInv
<1>1. IInv /\ [Next]_vars => IInv'
  BY IInvStep
<1>. QED BY <1>1, InitIInv, PTL DEF Spec

-----------------------------------------------------------------------------
(* The theorems. *)

LEMMA NothingInFlight ==
  ASSUME TypeOK
  PROVE  InFlight = <<>> <=> Out = <<>> /\ back = <<>>
<1>1. sockW \in Seq(Command) /\ wire \in Seq(Command) /\ back \in Seq(Command)
  BY DEF TypeOK
<1>2. sockW \o wire \in Seq(Command)
  BY <1>1, ConcatProperties
<1>3. InFlight = <<>> <=> sockW \o wire = <<>> /\ back = <<>>
  BY <1>1, <1>2, ConcatEqualIffEmpty DEF InFlight
<1>4. sockW \o wire = <<>> <=> sockW = <<>> /\ wire = <<>>
  BY <1>1, ConcatEqualIffEmpty
<1>5. Out = <<>> <=> wire = <<>> /\ sockW = <<>>
  BY <1>1, OutMoves
<1>. QED BY <1>3, <1>4, <1>5

\* The record of an option and the queues of commands keep to their types,
\* whatever the settings and the bounds.
THEOREM Types == Spec => []TypeOK
<1>1. IInv => TypeOK
  BY DEF IInv
<1>. QED BY <1>1, Invariance, PTL

\* When nothing is in flight, modem and peer agree on the option, for every set
\* of requirements and however many commands cross each other.
THEOREM AgreementHolds == Spec => []Agreement
<1>1. IInv => Agreement
  <2>. SUFFICES ASSUME IInv, Quiet PROVE state <=> peer = "YES"
    BY DEF Agreement
  <2>1. Out = <<>> /\ back = <<>> /\ Settling /\ Out \in Seq(Command) /\ back \in Seq(Command)
    BY NothingInFlight, OutMoves DEF IInv, Quiet, TypeOK
  <2>2. \A d : ~Has(Out, d) /\ ~Has(back, d)
    BY <2>1, QueueTells
  <2>3. peer \in {"NO", "YES", "WANTNO", "WANTYES"} /\ state \in BOOLEAN
    BY DEF IInv, TypeOK
  <2>. QED BY <2>1, <2>2, <2>3 DEF Settling, DifferenceIsTold
<1>. QED BY <1>1, Invariance, PTL

\* A request that is pending has the command or its answer in flight, so no
\* later offer of the peer can pass for the answer.
THEOREM PendingHasAnswerHolds == Spec => []PendingHasAnswer
<1>1. IInv => PendingHasAnswer
  <2>. SUFFICES ASSUME IInv, alive, ~lost, ~kept, pending, InFlight = <<>> PROVE FALSE
    BY DEF PendingHasAnswer
  <2>1. Out = <<>> /\ back = <<>> /\ Settling /\ back \in Seq(Command)
    BY NothingInFlight DEF IInv, TypeOK
  <2>2. \A d : ~Has(back, d)
    BY <2>1, QueueTells
  <2>3. state \in BOOLEAN
    BY DEF IInv, TypeOK
  <2>. QED BY <2>1, <2>2, <2>3 DEF Settling, AnswerIsComing
<1>. QED BY <1>1, Invariance, PTL

\* A requirement that was put to the peer is met once nothing is in flight, or
\* the modem has hung up.
THEOREM MustOrHangUpHolds == Spec => []MustOrHangUp
<1>1. IInv => MustOrHangUp
  <2>. SUFFICES ASSUME IInv, Quiet, asked
                PROVE  (req = "MUST" => state) /\ (req = "MUSTNOT" => ~state)
    BY DEF MustOrHangUp
  <2>1. Out = <<>> /\ back = <<>> /\ Settling /\ RequirementIsMet /\ back \in Seq(Command)
    BY NothingInFlight DEF IInv, Quiet, TypeOK
  <2>2. ~pending
    <3>1. \A d : ~Has(back, d)
      BY <2>1, QueueTells
    <3>2. state \in BOOLEAN
      BY DEF IInv, TypeOK
    <3>. QED BY <2>1, <3>1, <3>2 DEF Settling, AnswerIsComing
  <2>. QED BY <2>1, <2>2 DEF RequirementIsMet
<1>. QED BY <1>1, Invariance, PTL

=============================================================================
