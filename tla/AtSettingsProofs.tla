--------------------------- MODULE AtSettingsProofs ---------------------------
(* Proofs about AtSettings, for lines of any length and all arguments. *)
EXTENDS AtSettings, TLAPS

\* Before a dial is up, nothing has been negotiated.
DialPending == state = "DIAL" => (sent => ported)

\* While a line is read nothing has been dialled for it, and a line that is to
\* dial has left its number in atcmd.d, unless a Z has restored another.
NumberKept ==
    /\ asked # NoNumber
    /\ asked # Voided =>
          /\ atcmd.d.addr = asked.addr /\ atcmd.d.type = asked.type
          /\ asked.type # "NUL" => atcmd.d.str = asked.str

LinePending ==
    by # "none" => dialled = NoNumber /\ (stat = "ATD" => NumberKept)

IInv == TypeOK /\ NegotiatedAsSet /\ DialPending /\ LinePending /\ DialsWhatIsAsked

-----------------------------------------------------------------------------
(* Types. *)

LEMMA NumberTypes ==
    /\ NoNumber \notin Number /\ Voided \notin Number /\ NoNumber # Voided
    /\ \A num \in Number :
          /\ num.addr \in Addrs /\ num.type \in PTypes
          /\ num.str \in Ports \cup Services \cup {"none"}
          /\ num.type = "NUM" => num.str \in Ports
    /\ NoNumber \in Kept
<1>1. NoNumber.addr = "none" /\ Voided.addr = "none"
  BY DEF NoNumber, Voided
<1>2. \A num \in Number : num.addr \in Addrs
  BY DEF Number
<1>3. NoNumber # Voided
  BY DEF NoNumber, Voided
<1>4. NoNumber \in Kept
  BY DEF NoNumber, Kept, PTypes
<1>5. \A num \in Number :
          /\ num.type \in PTypes /\ num.str \in Ports \cup Services \cup {"none"}
          /\ num.type = "NUM" => num.str \in Ports
  BY DEF Number, PTypes
<1>. QED
  BY <1>1, <1>2, <1>3, <1>4, <1>5, AddrAssumption

LEMMA TableType ==
    ASSUME NEW a \in Atcmd
    PROVE  setReqs(a) \in Table
<1>1. /\ a.pb[0] \in 0..3 /\ a.pb[1] \in 0..3 /\ a.pl \in 0..3
  BY DEF Atcmd
<1>2. \A v \in 0..3 : tabP[v] \in Reqs /\ tabN[v] \in Reqs
  BY DEF tabP, tabN, Reqs
<1>. QED
  BY <1>1, <1>2 DEF setReqs, Table, Reqs

LEMMA FactoryType == Factory \in Atcmd
<1>1. Factory.s \in [Regs -> 0..255]
  BY DEF Factory
<1>2. Factory.pb \in [0..1 -> 0..3]
  BY DEF Factory
<1>3. NoNumber \in Kept
  BY NumberTypes
<1>. QED
  BY <1>1, <1>2, <1>3, TermAssumption DEF Factory, Atcmd

LEMMA UsableType ==
    ASSUME NEW a \in Atcmd
    PROVE  /\ Usable(a) \in Atcmd /\ Usable(a).d = a.d
           /\ setReqs(Usable(a)) = setReqs(a)
<1>. DEFINE r == [[a.s EXCEPT ![3] = 13] EXCEPT ![4] = 10]
<1>1. r \in [Regs -> 0..255]
  <2>1. a.s \in [Regs -> 0..255] /\ 13 \in 0..255 /\ 10 \in 0..255
    BY DEF Atcmd
  <2>. QED
    BY <2>1
<1>2. Usable(a) = [a EXCEPT !.s = r]
  BY DEF Usable
<1>. HIDE DEF r
<1>. QED
  BY <1>1, <1>2 DEF Atcmd, setReqs

LEMMA InitOk == Init => IInv
<1>. SUFFICES ASSUME Init PROVE IInv
  OBVIOUS
<1>1. stTabTemplate \in Table
  BY DEF stTabTemplate, Table, Reqs
<1>2. TypeOK
  BY <1>1, FactoryType DEF Init, TypeOK, NoNumber, PTypes
<1>. QED
  BY <1>2 DEF Init, IInv, NegotiatedAsSet, DialPending, LinePending, DialsWhatIsAsked

-----------------------------------------------------------------------------
(* Commands. *)

LEMMA Stutters == ASSUME IInv, UNCHANGED vars PROVE IInv'
BY DEF IInv, TypeOK, NegotiatedAsSet, DialPending, LinePending, NumberKept,
       DialsWhatIsAsked, vars

\* The end of a line that places no call.
LEMMA EndsQuietly ==
    ASSUME IInv, NEW st \in {"OK", "ERROR", "ATD", "ATO", "ATA"}, Done(st),
           atcmd' \in {atcmd, Usable(atcmd)},
           UNCHANGED <<state, alive, atcmdNV, quit, sent, req, ported>>,
           \/ UNCHANGED <<asked, dialled>> /\ by # "none"
           \/ asked' = NoNumber /\ dialled' = NoNumber
    PROVE  IInv'
<1>1. /\ atcmd' \in Atcmd /\ atcmd'.d = atcmd.d /\ setReqs(atcmd') = setReqs(atcmd)
  BY UsableType DEF IInv, TypeOK
<1>2. TypeOK'
  BY <1>1 DEF IInv, TypeOK, Done, NoNumber, PTypes
<1>3. NegotiatedAsSet'
  BY <1>1 DEF IInv, NegotiatedAsSet
<1>4. DialsWhatIsAsked' /\ LinePending' /\ DialPending'
  BY DEF IInv, DialsWhatIsAsked, LinePending, DialPending, Done
<1>. QED
  BY <1>2, <1>3, <1>4 DEF IInv

LEMMA FailsOk == ASSUME IInv, by # "none", Fails PROVE IInv'
<1>1. atcmd' \in {atcmd, Usable(atcmd)}
  BY DEF Fails
<1>. QED
  BY <1>1, EndsQuietly DEF Fails, option

\* A command that assigns settings, and asks for a negotiation where the
\* requirements of %B and %L are among them.
LEMMA SetsOk ==
    ASSUME IInv, by # "none", NEW a \in Atcmd, a.d = atcmd.d, Sets(a),
           \/ Renegotiate
           \/ UNCHANGED option /\ a.pb = atcmd.pb /\ a.pl = atcmd.pl
    PROVE  IInv'
<1>1. TypeOK'
  <2>1. /\ state' = state /\ atcmd' = a /\ atcmdNV' = atcmdNV /\ req' = req
        /\ asked' = asked /\ dialled' = dialled /\ alive' = alive /\ ported' = ported
        /\ by' = by /\ scan' = scan /\ stat' = stat /\ quit' = quit
    BY DEF Sets, Renegotiate, lexer, option
  <2>2. sent' = FALSE \/ sent' = sent
    BY DEF Renegotiate, option
  <2>3. sent' \in BOOLEAN
    BY <2>2, Zenon DEF IInv, TypeOK
  <2>. QED
    BY <2>1, <2>3 DEF IInv, TypeOK
<1>2. CASE Renegotiate
  BY <1>1, <1>2 DEF IInv, NegotiatedAsSet, DialsWhatIsAsked, LinePending, NumberKept,
                    DialPending, Sets, Renegotiate, lexer
<1>3. CASE UNCHANGED option /\ a.pb = atcmd.pb /\ a.pl = atcmd.pl
  <2>1. NegotiatedAsSet'
    BY <1>3 DEF IInv, NegotiatedAsSet, Sets, option, setReqs
  <2>. QED
    BY <1>1, <1>3, <2>1 DEF IInv, DialsWhatIsAsked, LinePending, NumberKept,
                            DialPending, Sets, option, lexer
<1>. QED
  BY <1>2, <1>3

\* A command that changes the scanner, or closes the socket.
LEMMA ScansOk ==
    ASSUME IInv, by # "none", by' = by, scan' \in {"AT", "ATD"},
           stat' \in {"OK", "ERROR", "ATO", "ATA"} \/ stat' = stat,
           alive' = FALSE \/ alive' = alive,
           quit' \in BOOLEAN,
           UNCHANGED <<state, settings, option, asked, dialled>>
    PROVE  IInv'
<1>1. TypeOK'
  <2>1. /\ state' = state /\ atcmd' = atcmd /\ atcmdNV' = atcmdNV /\ req' = req
        /\ asked' = asked /\ dialled' = dialled /\ sent' = sent /\ ported' = ported
    BY DEF settings, option
  <2>2. alive' \in BOOLEAN
    BY Zenon DEF IInv, TypeOK
  <2>. QED
    BY <2>1, <2>2 DEF IInv, TypeOK
<1>2. LinePending'
  BY DEF IInv, LinePending, NumberKept, settings
<1>. QED
  BY <1>1, <1>2 DEF IInv, NegotiatedAsSet, DialsWhatIsAsked, DialPending, settings, option

\* a is b but for settings that the option requirements do not depend on.
Alike(a, b) == a \in Atcmd /\ a.d = b.d /\ a.pb = b.pb /\ a.pl = b.pl

LEMMA AtcmdFields ==
    ASSUME NEW b \in Atcmd
    PROVE  /\ \A v \in 0..1 : Alike([b EXCEPT !.pd = v], b)
           /\ \A v \in 0..1 : Alike([b EXCEPT !.pr = v], b)
           /\ \A v \in 0..255 : Alike([b EXCEPT !.pv = v], b)
           /\ \A w \in BOOLEAN, t \in Terms : Alike([b EXCEPT !.wont = w, !.term = t], b)
           /\ \A f \in [Regs -> 0..255] : Alike([b EXCEPT !.s = f], b)
           /\ \A v \in 0..3 : /\ [b EXCEPT !.pl = v] \in Atcmd
                              /\ [b EXCEPT !.pl = v].d = b.d
           /\ \A f \in [0..1 -> 0..3] : /\ [b EXCEPT !.pb = f] \in Atcmd
                                        /\ [b EXCEPT !.pb = f].d = b.d
           /\ \A d \in Kept : /\ [b EXCEPT !.d = d] \in Atcmd
                             /\ [b EXCEPT !.d = d].d = d
<1>1. \A v \in 0..1 : Alike([b EXCEPT !.pd = v], b)
  BY DEF Atcmd, Alike
<1>2. \A v \in 0..1 : Alike([b EXCEPT !.pr = v], b)
  BY DEF Atcmd, Alike
<1>3. \A v \in 0..255 : Alike([b EXCEPT !.pv = v], b)
  BY DEF Atcmd, Alike
<1>4. \A w \in BOOLEAN, t \in Terms : Alike([b EXCEPT !.wont = w, !.term = t], b)
  BY ZenonT(60) DEF Atcmd, Alike
<1>5. \A f \in [Regs -> 0..255] : Alike([b EXCEPT !.s = f], b)
  BY DEF Atcmd, Alike
<1>6. \A v \in 0..3 : [b EXCEPT !.pl = v] \in Atcmd /\ [b EXCEPT !.pl = v].d = b.d
  BY DEF Atcmd
<1>7. \A f \in [0..1 -> 0..3] : [b EXCEPT !.pb = f] \in Atcmd /\ [b EXCEPT !.pb = f].d = b.d
  BY DEF Atcmd
<1>8. \A d \in Kept : [b EXCEPT !.d = d] \in Atcmd /\ [b EXCEPT !.d = d].d = d
  BY DEF Atcmd
<1>. QED
  BY <1>1, <1>2, <1>3, <1>4, <1>5, <1>6, <1>7, <1>8

LEMMA NumberOk ==
    ASSUME IInv, NEW num \in Number, m2k_atcmdD(num)
    PROVE  IInv'
<1>2. atcmd \in Atcmd
  BY DEF IInv, TypeOK
<1>1. Keeps(num) \in Kept
  <2>1. atcmd.d \in Kept
    BY <1>2 DEF Atcmd
  <2>2. atcmd.d.str \in Ports \cup Services \cup {"none"}
    BY <2>1 DEF Kept
  <2>3. /\ num.addr \in Addrs /\ num.type \in PTypes
        /\ num.str \in Ports \cup Services \cup {"none"}
    BY NumberTypes
  <2>. QED
    BY <2>2, <2>3 DEF Keeps, Kept
<1>3. /\ atcmd' \in Atcmd /\ atcmd'.d = Keeps(num)
      /\ atcmd'.pb = atcmd.pb /\ atcmd'.pl = atcmd.pl
  <2>1. atcmd' = [atcmd EXCEPT !.d = Keeps(num)]
    BY DEF m2k_atcmdD
  <2>2. atcmd'.pb = atcmd.pb /\ atcmd'.pl = atcmd.pl
    BY <1>2, <2>1 DEF Atcmd
  <2>. QED
    BY <1>1, <1>2, <2>1, <2>2, AtcmdFields
<1>4. TypeOK'
  BY <1>3 DEF IInv, TypeOK, m2k_atcmdD, Reads, option
<1>5. NegotiatedAsSet'
  BY <1>3 DEF IInv, NegotiatedAsSet, m2k_atcmdD, option, setReqs
<1>6. LinePending' /\ DialsWhatIsAsked'
  BY <1>3, NumberTypes DEF IInv, LinePending, NumberKept, DialsWhatIsAsked, m2k_atcmdD,
                           Keeps, Reads
<1>7. DialPending'
  BY DEF IInv, DialPending, m2k_atcmdD, option
<1>. QED
  BY <1>4, <1>5, <1>6, <1>7 DEF IInv

LEMMA RestoresOk == ASSUME IInv, atcmdZ PROVE IInv'
<1>1. TypeOK'
  <2>1. /\ state' = state /\ atcmd' = atcmdNV /\ atcmdNV' = atcmdNV /\ req' = req
        /\ dialled' = dialled /\ sent' = sent /\ ported' = ported /\ quit' = quit
        /\ by' = by /\ scan' = scan /\ stat' = stat
    BY DEF atcmdZ, lexer, option
  <2>2. alive' \in BOOLEAN
    BY Zenon DEF atcmdZ, sockClose
  <2>3. asked' = Voided
    BY DEF atcmdZ
  <2>. QED
    BY <2>1, <2>2, <2>3 DEF IInv, TypeOK
<1>2. LinePending' /\ DialsWhatIsAsked'
  BY NumberTypes DEF IInv, LinePending, NumberKept, DialsWhatIsAsked, atcmdZ, Reads, lexer
<1>. QED
  BY <1>1, <1>2 DEF IInv, NegotiatedAsSet, DialPending, atcmdZ, sockClose, option

LEMMA SavesOk == ASSUME IInv, atcmdAW PROVE IInv'
BY DEF IInv, TypeOK, NegotiatedAsSet, DialPending, LinePending, NumberKept,
       DialsWhatIsAsked, atcmdAW, lexer, option

LEMMA RegisterOk ==
    ASSUME IInv, NEW n \in Args["S"], NEW m \in Args["m"], atcmdSSet(n, m)
    PROVE  IInv'
<1>1. atcmd \in Atcmd /\ n \in Nat /\ m \in Nat
  BY ArgAssumption DEF IInv, TypeOK
<1>2. CASE n > 12 \/ m > 255
  BY <1>2, FailsOk DEF atcmdSSet, Reads
<1>3. CASE ~(n > 12 \/ m > 255)
  <2>. DEFINE f == [atcmd.s EXCEPT ![n] = m]
              a == [atcmd EXCEPT !.s = f]
  <2>1. n \in Regs /\ m \in 0..255
    BY <1>1, <1>3 DEF atcmdSSet
  <2>2. f \in [Regs -> 0..255]
    BY <1>1, <2>1 DEF Atcmd
  <2>3. Sets(a) /\ UNCHANGED option /\ by # "none"
    BY <1>3 DEF atcmdSSet, Reads
  <2>. HIDE DEF f
  <2>4. Alike(a, atcmd)
    BY <1>1, <2>2, AtcmdFields
  <2>. HIDE DEF a
  <2>. QED
    BY <2>3, <2>4, SetsOk DEF Alike
<1>. QED
  BY <1>2, <1>3

LEMMA BinaryOk ==
    ASSUME IInv, NEW n \in Args["B"], NEW m \in Args["Bm"], atcmdPB(n, m)
    PROVE  IInv'
<1>1. atcmd \in Atcmd /\ n \in Nat /\ m \in Nat
  BY ArgAssumption DEF IInv, TypeOK
<1>2. CASE n > 1 \/ m > 3
  BY <1>2, FailsOk DEF atcmdPB, Reads
<1>3. CASE ~(n > 1 \/ m > 3)
  <2>. DEFINE f == [atcmd.pb EXCEPT ![n] = m]
              a == [atcmd EXCEPT !.pb = f]
  <2>1. n \in 0..1 /\ m \in 0..3
    BY <1>1, <1>3
  <2>2. f \in [0..1 -> 0..3]
    BY <1>1, <2>1 DEF Atcmd
  <2>3. Sets(a) /\ Renegotiate /\ by # "none"
    BY <1>3 DEF atcmdPB, Reads
  <2>. HIDE DEF f
  <2>4. a \in Atcmd /\ a.d = atcmd.d
    BY <1>1, <2>2, AtcmdFields
  <2>. HIDE DEF a
  <2>. QED
    BY <2>3, <2>4, SetsOk
<1>. QED
  BY <1>2, <1>3

\* The other settings are one field each.
LEMMA FieldOk ==
    ASSUME IInv, NEW n \in Nat, NEW t \in Terms,
           atcmdPD(n) \/ atcmdPL(n) \/ atcmdPR(n) \/ atcmdPT(n) \/ atcmdPV(n) \/ atcmdPTSet(t)
    PROVE  IInv'
<1>1. atcmd \in Atcmd
  BY DEF IInv, TypeOK
<1>2. CASE Fails /\ by # "none"
  BY <1>2, FailsOk
<1>3. CASE atcmdPD(n) /\ n \in 0..1
  <2>. DEFINE a == [atcmd EXCEPT !.pd = n]
  <2>1. Alike(a, atcmd)
    BY <1>1, <1>3, AtcmdFields
  <2>2. Sets(a) /\ UNCHANGED option /\ by # "none"
    BY <1>3 DEF atcmdPD, Reads
  <2>. HIDE DEF a
  <2>. QED
    BY <2>1, <2>2, SetsOk DEF Alike
<1>4. CASE atcmdPL(n) /\ n \in 0..3
  <2>. DEFINE a == [atcmd EXCEPT !.pl = n]
  <2>1. a \in Atcmd /\ a.d = atcmd.d
    BY <1>1, <1>4, AtcmdFields
  <2>2. Sets(a) /\ Renegotiate /\ by # "none"
    BY <1>4 DEF atcmdPL, Reads
  <2>. HIDE DEF a
  <2>. QED
    BY <2>1, <2>2, SetsOk
<1>5. CASE atcmdPR(n) /\ n \in 0..1
  <2>. DEFINE a == [atcmd EXCEPT !.pr = n]
  <2>1. Alike(a, atcmd)
    BY <1>1, <1>5, AtcmdFields
  <2>2. Sets(a) /\ UNCHANGED option /\ by # "none"
    BY <1>5 DEF atcmdPR, Reads
  <2>. HIDE DEF a
  <2>. QED
    BY <2>1, <2>2, SetsOk DEF Alike
<1>6. CASE atcmdPT(n) /\ n \in 0..1
  <2>. DEFINE w == (n = 0)
              u == IF n = 1 THEN TERM ELSE atcmd.term
              a == [atcmd EXCEPT !.wont = w, !.term = u]
  <2>1. Sets(a) /\ UNCHANGED option /\ by # "none"
    <3>1. a = [atcmd EXCEPT !.wont = (n = 0), !.term = IF n = 1 THEN TERM ELSE @]
      BY <1>1 DEF Atcmd
    <3>. HIDE DEF a
    <3>. QED
      BY <1>6, <3>1 DEF atcmdPT, Reads
  <2>2. w \in BOOLEAN /\ u \in Terms
    BY <1>1, TermAssumption DEF Atcmd
  <2>. HIDE DEF w, u
  <2>3. Alike(a, atcmd)
    BY <1>1, <2>2, AtcmdFields
  <2>. HIDE DEF a
  <2>. QED
    BY <2>1, <2>3, SetsOk DEF Alike
<1>7. CASE atcmdPV(n) /\ n \in 0..255
  <2>. DEFINE a == [atcmd EXCEPT !.pv = n]
  <2>1. Alike(a, atcmd)
    BY <1>1, <1>7, AtcmdFields
  <2>2. Sets(a) /\ UNCHANGED option /\ by # "none"
    BY <1>7 DEF atcmdPV, Reads
  <2>. HIDE DEF a
  <2>. QED
    BY <2>1, <2>2, SetsOk DEF Alike
<1>8. CASE atcmdPTSet(t)
  <2>. DEFINE a == [atcmd EXCEPT !.wont = FALSE, !.term = t]
  <2>1. Alike(a, atcmd)
    BY <1>1, <1>8, AtcmdFields
  <2>2. Sets(a) /\ UNCHANGED option /\ by # "none"
    BY <1>8 DEF atcmdPTSet, Reads
  <2>. HIDE DEF a
  <2>. QED
    BY <2>1, <2>2, SetsOk DEF Alike
<1>. QED
  BY <1>2, <1>3, <1>4, <1>5, <1>6, <1>7, <1>8
     DEF atcmdPD, atcmdPL, atcmdPR, atcmdPT, atcmdPV, Reads

LEMMA CommandOk == ASSUME IInv, Command PROVE IInv'
<1>. USE DEF Reads
<1>1. CASE \E n \in Args["fake"] : atcmdFake(n, 0) \/ atcmdFake(n, 1)
  BY <1>1, FailsOk, Stutters DEF atcmdFake
<1>2. CASE \E n \in Args["O"] : atcmdO(n)
  BY <1>2, FailsOk, ScansOk DEF atcmdO, settings, option, IInv, TypeOK
<1>3. CASE atcmdA
  BY <1>3, ScansOk DEF atcmdA, IInv, TypeOK
<1>4. CASE Dial
  BY <1>4, ScansOk DEF Dial, IInv, TypeOK
<1>5. CASE atcmdPQ
  BY <1>5, ScansOk DEF atcmdPQ, sockClose, lexer, IInv, TypeOK
<1>6. CASE \E n \in Args["H"] : atcmdH(n)
  BY <1>6, FailsOk, ScansOk DEF atcmdH, sockClose, lexer, IInv, TypeOK
<1>7. CASE \E n \in Args["I"] : atcmdI(n)
  BY <1>7, FailsOk, Stutters DEF atcmdI
<1>8. CASE \E n \in Args["S"] : atcmdSQuery(n)
  BY <1>8, FailsOk, Stutters DEF atcmdSQuery
<1>9. CASE Unknown
  BY <1>9, FailsOk DEF Unknown
<1>10. CASE \/ \E n \in Args["D"] : atcmdPD(n)
            \/ \E n \in Args["L"] : atcmdPL(n)
            \/ \E n \in Args["R"] : atcmdPR(n)
            \/ \E n \in Args["T"] : atcmdPT(n)
            \/ \E n \in Args["V"] : atcmdPV(n)
            \/ \E t \in Terms : atcmdPTSet(t)
  <2>1. \A c \in {"D", "L", "R", "T", "V"} : Args[c] \subseteq Nat
    BY ArgAssumption
  <2>. QED
    BY <1>10, <2>1, FieldOk, TermAssumption
<1>. QED
  BY <1>1, <1>2, <1>3, <1>4, <1>5, <1>6, <1>7, <1>8, <1>9, <1>10, RegisterOk, BinaryOk,
     NumberOk, RestoresOk, SavesOk DEF Command

-----------------------------------------------------------------------------
(* Lines and calls. *)

LEMMA Quiets == NoNumber \in [addr : Addrs \cup {"none"}, type : PTypes,
                             str : Ports \cup {Telnet, PortZero, "none"}]
BY DEF NoNumber, PTypes

\* Nothing but the option requirements change on the way online, and they
\* become the ones of the settings, unless they already were.
LEMMA EntersOk ==
    ASSUME IInv, NEW s \in {"ONLINE", "SYNC"}, alive \/ state = "DIAL", Enters(s),
           atcmd' = atcmd
    PROVE  /\ NegotiatedAsSet' /\ DialPending' /\ state' = s
           /\ sent' \in BOOLEAN /\ ported' \in BOOLEAN /\ req' \in Table
<1>1. atcmd \in Atcmd /\ sent \in BOOLEAN /\ ported \in BOOLEAN /\ req \in Table
  BY DEF IInv, TypeOK
<1>2. CASE telOptSendReqs
  BY <1>1, <1>2, TableType DEF Enters, telOptSendReqs, NegotiatedAsSet, DialPending
<1>3. CASE UNCHANGED option /\ (~sent \/ alive \/ (sent => ported))
  BY <1>1, <1>3 DEF Enters, option, IInv, NegotiatedAsSet, DialPending
<1>. QED
  BY <1>2, <1>3 DEF Enters, IInv, DialPending

LEMMA EntersFreshOk ==
    ASSUME IInv, NEW p \in BOOLEAN, EntersFresh("ONLINE", p), atcmd' = atcmd
    PROVE  /\ NegotiatedAsSet' /\ DialPending' /\ state' = "ONLINE"
           /\ sent' \in BOOLEAN /\ ported' \in BOOLEAN /\ req' \in Table
<1>1. atcmd \in Atcmd /\ req \in Table
  BY DEF IInv, TypeOK
<1>2. CASE telOptSendReqs
  BY <1>1, <1>2, TableType DEF EntersFresh, telOptSendReqs, NegotiatedAsSet, DialPending
<1>3. CASE telOptReset(p)
  BY <1>1, <1>3 DEF EntersFresh, telOptReset, NegotiatedAsSet, DialPending
<1>. QED
  BY <1>2, <1>3 DEF EntersFresh

LEMMA NewLineOk == ASSUME IInv, NEW w \in {"dte", "host"}, cmdLex(w) PROVE IInv'
BY Quiets DEF IInv, TypeOK, NegotiatedAsSet, DialPending, LinePending, DialsWhatIsAsked,
              cmdLex, settings, option

LEMMA LineEndsOk == ASSUME IInv, LineEnds PROVE IInv'
<1>1. stat \in {"OK", "ERROR", "ATD", "ATO", "ATA"}
  BY DEF IInv, TypeOK
<1>2. atcmd' \in {atcmd, Usable(atcmd)}
  BY DEF LineEnds
<1>. QED
  BY <1>1, <1>2, EndsQuietly DEF LineEnds, option

LEMMA RefusedOk == ASSUME IInv, by # "none", Refused PROVE IInv'
<1>1. stat \in {"OK", "ERROR", "ATD", "ATO", "ATA"}
  BY DEF IInv, TypeOK
<1>. QED
  BY <1>1, EndsQuietly DEF Refused, settings, option

LEMMA LineDialsOk == ASSUME IInv, LineDials PROVE IInv'
<1>1. CASE Refused
  BY <1>1, RefusedOk DEF LineDials
<1>2. CASE ~Refused
  <2>. DEFINE p == atcmd.d.type # "NUL"
  <2>1. /\ by = "dte" /\ Done(stat) /\ stat = "ATD" /\ Lookup(atcmd.d) /\ asked' = asked
        /\ atcmd' = atcmd /\ atcmdNV' = atcmdNV /\ quit' = quit
    BY <1>2 DEF LineDials, EndOfLine, settings
  <2>2. /\ NegotiatedAsSet' /\ DialPending' /\ alive' \in BOOLEAN
        /\ state' \in {"CMD", "DIAL", "ONLINE"}
        /\ sent' \in BOOLEAN /\ ported' \in BOOLEAN /\ req' \in Table
    <3>1. CASE alive' = FALSE /\ state' \in {"CMD", "DIAL"} /\ telOptReset(p)
      <4>1. req \in Table
        BY DEF IInv, TypeOK
      <4>. QED
        BY <3>1, <4>1 DEF telOptReset, NegotiatedAsSet, DialPending
    <3>2. CASE alive' = TRUE /\ EntersFresh("ONLINE", p)
      BY <2>1, <3>2, EntersFreshOk
    <3>. QED
      BY <1>2, <3>1, <3>2 DEF LineDials
  <2>3. /\ atcmd.d.addr \in Addrs \cup {"none"} /\ atcmd.d.type \in PTypes
        /\ port(atcmd.d) \in Ports \cup {Telnet, PortZero, "none"}
    <3>1. atcmd.d \in Kept
      BY DEF IInv, TypeOK, Atcmd
    <3>. QED
      BY <3>1 DEF Kept, port
  <2>4. TypeOK'
    BY <2>1, <2>2, <2>3 DEF IInv, TypeOK, Lookup, Done
  <2>5. LinePending'
    BY <2>1 DEF LinePending, Done
  <2>6. DialsWhatIsAsked'
    <3>1. NumberKept
      BY <2>1 DEF IInv, LinePending
    <3>2. asked \in Number \cup {NoNumber, Voided}
      BY DEF IInv, TypeOK
    <3>3. /\ dialled'.addr = atcmd.d.addr /\ dialled'.type = atcmd.d.type
          /\ dialled'.str = port(atcmd.d)
      BY <2>1 DEF Lookup
    <3>. QED
      BY <2>1, <3>1, <3>2, <3>3, NumberTypes DEF NumberKept, DialsWhatIsAsked, port
  <2>. QED
    BY <2>2, <2>4, <2>5, <2>6 DEF IInv
<1>. QED
  BY <1>1, <1>2

LEMMA LineReturnsOk == ASSUME IInv, LineReturns PROVE IInv'
<1>1. CASE Refused
  BY <1>1, RefusedOk DEF LineReturns
<1>2. CASE ~Refused
  <2>1. /\ Done(stat) /\ atcmd' = atcmd /\ atcmdNV' = atcmdNV /\ quit' = quit /\ alive
        /\ alive' = alive /\ asked' = asked /\ dialled' = dialled /\ Enters("ONLINE")
        /\ by # "none"
    BY <1>2 DEF LineReturns, settings
  <2>2. /\ NegotiatedAsSet' /\ DialPending' /\ state' = "ONLINE"
        /\ sent' \in BOOLEAN /\ ported' \in BOOLEAN /\ req' \in Table
    BY <2>1, EntersOk
  <2>3. TypeOK'
    BY <2>1, <2>2 DEF IInv, TypeOK, Done
  <2>4. LinePending' /\ DialsWhatIsAsked'
    BY <2>1 DEF IInv, LinePending, DialsWhatIsAsked, Done
  <2>. QED
    BY <2>2, <2>3, <2>4 DEF IInv
<1>. QED
  BY <1>1, <1>2

LEMMA LineAnswersOk == ASSUME IInv, LineAnswers PROVE IInv'
<1>1. CASE Refused
  BY <1>1, RefusedOk DEF LineAnswers
<1>2. CASE ~Refused
  <2>1. /\ Done(stat) /\ atcmd' = atcmd /\ atcmdNV' = atcmdNV /\ quit' = quit /\ ~alive
        /\ asked' = asked /\ dialled' = dialled /\ by # "none"
    BY <1>2 DEF LineAnswers, settings
  <2>2. /\ NegotiatedAsSet' /\ DialPending' /\ state' \in {"ANSWER", "ONLINE"}
        /\ alive' \in BOOLEAN
        /\ sent' \in BOOLEAN /\ ported' \in BOOLEAN /\ req' \in Table
    <3>1. CASE state' = "ANSWER" /\ UNCHANGED <<alive, option>>
      <4>1. alive' = FALSE /\ sent' = sent /\ ported' = ported /\ req' = req
        BY <2>1, <3>1 DEF option, IInv, TypeOK
      <4>. QED
        BY <3>1, <4>1 DEF IInv, TypeOK, NegotiatedAsSet, DialPending
    <3>2. CASE alive' = TRUE /\ EntersFresh("ONLINE", FALSE)
      BY <2>1, <3>2, EntersFreshOk
    <3>. QED
      BY <1>2, <3>1, <3>2 DEF LineAnswers
  <2>3. TypeOK'
    BY <2>1, <2>2 DEF IInv, TypeOK, Done
  <2>4. LinePending' /\ DialsWhatIsAsked'
    BY <2>1 DEF IInv, LinePending, DialsWhatIsAsked, Done
  <2>. QED
    BY <2>2, <2>3, <2>4 DEF IInv
<1>. QED
  BY <1>1, <1>2

\* A step outside a line that keeps the settings, by what it does to the rest.
LEMMA NoLineOk ==
    ASSUME IInv, NoLine, UNCHANGED settings, NegotiatedAsSet', DialPending',
           state' \in {"CMD", "DIAL", "ANSWER", "ONLINE", "SYNC"}, alive' \in BOOLEAN,
           sent' \in BOOLEAN, ported' \in BOOLEAN, req' \in Table
    PROVE  IInv'
<1>1. /\ by' = "none" /\ scan' = scan /\ stat' = stat /\ quit' = quit
      /\ atcmd' = atcmd /\ atcmdNV' = atcmdNV /\ asked' = NoNumber /\ dialled' = NoNumber
  BY DEF NoLine, lexer, settings
<1>2. TypeOK'
  BY <1>1, Quiets DEF IInv, TypeOK
<1>3. LinePending' /\ DialsWhatIsAsked'
  BY <1>1 DEF LinePending, DialsWhatIsAsked
<1>. QED
  BY <1>2, <1>3 DEF IInv

LEMMA HostDialsOk ==
    ASSUME IInv, NEW num \in Number, m2k_dial(num)
    PROVE  IInv'
<1>. DEFINE d == [num EXCEPT !.type = IF num.type = "NUL" THEN "NUL" ELSE "STR"]
<1>1. /\ num.addr \in Addrs /\ num.type \in PTypes
      /\ num.str \in Ports \cup Services \cup {"none"}
      /\ num.type = "NUM" => num.str \in Ports
  BY NumberTypes
<1>2. /\ d.addr = num.addr /\ d.str = num.str
      /\ d.type = IF num.type = "NUL" THEN "NUL" ELSE "STR"
      /\ d \in Kept
  BY <1>1 DEF Number, Kept, PTypes
<1>3. /\ atcmd' = [atcmd EXCEPT !.d = d] /\ Lookup(d) /\ asked' = num
      /\ telOptReset(num.type # "NUL") /\ alive' \in BOOLEAN
      /\ state' = state /\ by' = by /\ scan' = scan /\ stat' = stat /\ by = "none"
      /\ atcmdNV' = atcmdNV /\ quit' = quit
  BY DEF m2k_dial, lexer
<1>. HIDE DEF d
<1>4. atcmd' \in Atcmd
  <2>1. atcmd \in Atcmd
    BY DEF IInv, TypeOK
  <2>. QED
    BY <1>2, <1>3, <2>1, AtcmdFields
<1>5. port(d) \in Ports \cup {Telnet, PortZero, "none"}
  BY DEF port
<1>6. TypeOK'
  <2>1. dialled' \in [addr : Addrs \cup {"none"}, type : PTypes,
                     str : Ports \cup {Telnet, PortZero, "none"}]
    BY <1>1, <1>2, <1>3, <1>5 DEF Lookup, PTypes
  <2>2. sent' \in BOOLEAN /\ ported' \in BOOLEAN /\ req' = req
    BY <1>3 DEF telOptReset
  <2>. QED
    BY <1>3, <1>4, <2>1, <2>2 DEF IInv, TypeOK
<1>7. NegotiatedAsSet' /\ DialPending' /\ LinePending'
  BY <1>3 DEF NegotiatedAsSet, DialPending, LinePending, telOptReset
<1>8. DialsWhatIsAsked'
  BY <1>1, <1>2, <1>3, NumberTypes DEF DialsWhatIsAsked, Lookup, port, PTypes
<1>. QED
  BY <1>6, <1>7, <1>8 DEF IInv

LEMMA CallOk == ASSUME IInv, Call PROVE IInv'
<1>1. /\ sent \in BOOLEAN /\ ported \in BOOLEAN /\ req \in Table /\ alive \in BOOLEAN
      /\ NegotiatedAsSet /\ DialPending
  BY DEF IInv, TypeOK
<1>2. CASE DialEnds
  <2>1. CASE alive' = TRUE /\ Enters("ONLINE")
    BY <1>2, <2>1, NoLineOk, EntersOk DEF DialEnds, settings
  <2>2. CASE state' = "CMD" /\ alive' = FALSE /\ UNCHANGED option
    BY <1>1, <1>2, <2>2, NoLineOk DEF DialEnds, settings, option, NegotiatedAsSet,
                                      DialPending
  <2>. QED
    BY <1>2, <2>1, <2>2 DEF DialEnds
<1>3. CASE answerAccept
  <2>1. CASE alive' = TRUE /\ EntersFresh("ONLINE", FALSE)
    BY <1>3, <2>1, NoLineOk, EntersFreshOk DEF answerAccept, settings
  <2>2. CASE state' = "CMD" /\ UNCHANGED <<alive, option>>
    BY <1>1, <1>3, <2>2, NoLineOk DEF answerAccept, settings, option, NegotiatedAsSet,
                                      DialPending
  <2>. QED
    BY <1>3, <2>1, <2>2 DEF answerAccept
<1>4. CASE Escapes
  BY <1>1, <1>4, NoLineOk DEF Escapes, option, settings, NegotiatedAsSet, DialPending
<1>5. CASE Loses
  BY <1>1, <1>5, NoLineOk DEF Loses, option, settings, NegotiatedAsSet, DialPending
<1>6. CASE m2k_online
  <2>1. /\ NegotiatedAsSet' /\ DialPending' /\ state' = "SYNC"
        /\ sent' \in BOOLEAN /\ ported' \in BOOLEAN /\ req' \in Table
    BY <1>6, EntersOk DEF m2k_online, settings
  <2>. QED
    BY <1>1, <1>6, <2>1, NoLineOk DEF m2k_online
<1>. QED
  BY <1>2, <1>3, <1>4, <1>5, <1>6, HostDialsOk DEF Call

LEMMA NextOk == ASSUME IInv, [Next]_vars PROVE IInv'
BY Stutters, NewLineOk, CommandOk, LineEndsOk, LineDialsOk, LineReturnsOk, LineAnswersOk,
   CallOk DEF Next

-----------------------------------------------------------------------------
(* Theorems. *)

LEMMA Invariance == Spec => []IInv
BY InitOk, NextOk, PTL DEF Spec

\* No setting leaves the range the code indexes its tables with, in the saved
\* copy neither, for every sequence of lines, calls and host requests.
THEOREM SettingsInRange == Spec => []TypeOK
<1>1. IInv => TypeOK
  BY DEF IInv
<1>. QED
  BY <1>1, Invariance, PTL

\* A connection on which options were requested was negotiated with the %B and
\* %L that are in force (telOptSendReqs, sentReqs of telopt.c).
THEOREM NegotiatesTheSettings == Spec => []NegotiatedAsSet
<1>1. IInv => NegotiatedAsSet
  BY DEF IInv
<1>. QED
  BY <1>1, Invariance, PTL

\* ATD and m2k_dial() call the number they were given, with its port or the
\* telnet port, and ATD without a number calls nobody (atcmd.d).
THEOREM DialsTheNumber == Spec => []DialsWhatIsAsked
<1>1. IInv => DialsWhatIsAsked
  BY DEF IInv
<1>. QED
  BY <1>1, Invariance, PTL
=============================================================================
