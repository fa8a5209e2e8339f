------------------------------ MODULE AtSettings ------------------------------
(***************************************************************************
 The AT interpreter: the scanner of cmdLex(), the handlers of atcmd.c with the
 settings they keep (current and `&W'ed), the start from atcmdInit(), and
 where the settings go: the number that is dialled, and the requirements the
 telnet options are negotiated with.

 The scanner works through a line one command at a time and a handler takes
 effect at once, so a step here is a command; nothing else happens while a
 line is being read (by # "none").  A line is read for the DTE, for the host
 (m2k_atcmd) or at the start (the environment's MODEMU2k).  Lines without AT
 and commands that only print or are ignored change nothing.
 ***************************************************************************)
EXTENDS Integers

CONSTANTS
    Regs,      \* registers 0..SREG_MAX
    Addrs,     \* host names and addresses
    Ports,     \* port numbers, as typed
    Services,  \* service names, as typed
    Telnet,    \* DEFAULT_PORT
    PortZero,  \* what atoi() makes of a name
    Terms,     \* terminal types
    TERM,      \* getenv("TERM")
    Args,      \* the arguments that are typed, by command
    BinDefault \* BINMODE_AS_DEFAULT

VARIABLES
    state,    \* step.state, or "SYNC" while m2k_online() runs
    alive,    \* sock.conn.alive
    by,       \* whose line is being read: "none", "init", "dte", "host"
    scan,     \* start condition of the scanner
    stat,     \* cmdstat
    atcmd,    \* the settings
    atcmdNV,  \* the settings saved by &W
    quit,     \* step.quit_req
    sent,     \* telOpt.sentReqs
    req,      \* telOpt.stTab[..].req, for the options the settings decide on
    ported,   \* history: sentReqs was set because a port was given
    asked,    \* history: the number in this line (or of m2k_dial), not voided by a Z
    dialled   \* history: what getaddrinfo() was asked for in its behalf

lexer == <<by, scan, stat>>
settings == <<atcmd, atcmdNV>>
option == <<sent, req, ported>>
vars == <<state, alive, by, scan, stat, atcmd, atcmdNV, quit, sent, req, ported,
          asked, dialled>>

Reqs == {"MUSTNOT", "BETTERNOT", "NEUTRAL", "BETTER", "MUST"}
PTypes == {"NUL", "NUM", "STR"}
NoNumber == [addr |-> "none", type |-> "NUL", str |-> "none"]

Voided == [addr |-> "none", type |-> "NUL", str |-> "Z"]

\* A number as the scanner sees it: the port is left out, a number or a name.
Number ==
    [addr : Addrs, type : {"NUL"}, str : {"none"}]
        \cup [addr : Addrs, type : {"NUM"}, str : Ports]
        \cup [addr : Addrs, type : {"STR"}, str : Services]

\* atcmd.d: the type says whether str counts.
Kept == [addr : Addrs \cup {"none"}, type : PTypes,
         str : Ports \cup Services \cup {"none"}]

Atcmd == [s : [Regs -> 0..255], pb : [0..1 -> 0..3], pd : 0..1, pl : 0..3, pr : 0..1,
          wont : BOOLEAN, term : Terms, pv : 0..255, d : Kept]

Table == [binL : Reqs, binR : Reqs, sgaR : Reqs, echoR : Reqs, ttL : Reqs]

ASSUME RegAssumption == {2, 3, 4, 5, 7, 12} \subseteq Regs /\ Regs \subseteq 0..12
ASSUME AddrAssumption == "none" \notin Addrs
ASSUME TermAssumption == TERM \in Terms
ASSUME ArgAssumption ==
    /\ \A c \in {"fake", "O", "H", "I", "S", "D", "L", "R", "T", "V", "B", "Bm", "m"} :
          Args[c] \subseteq Nat
    /\ BinDefault \in BOOLEAN

-----------------------------------------------------------------------------
(* The socket and the option requirements. *)

sockClose == alive' = FALSE

tabP == [v \in 0..3 |-> CASE v = 0 -> "BETTERNOT" [] v = 1 -> "BETTER"
                          [] v = 2 -> "MUSTNOT" [] v = 3 -> "MUST"]
tabN == [v \in 0..3 |-> CASE v = 0 -> "BETTER" [] v = 1 -> "BETTERNOT"
                          [] v = 2 -> "MUST" [] v = 3 -> "MUSTNOT"]

setReqs(a) == [binL |-> tabP[a.pb[1]], binR |-> tabP[a.pb[0]],
               sgaR |-> tabN[a.pl], echoR |-> tabN[a.pl],
               ttL |-> IF a.wont THEN "MUSTNOT" ELSE "NEUTRAL"]

stTabTemplate == [binL |-> "BETTER", binR |-> "BETTER", sgaR |-> "MUST",
                  echoR |-> "BETTER", ttL |-> "NEUTRAL"]

telOptSendReqs == req' = setReqs(atcmd) /\ sent' = TRUE /\ ported' = FALSE

\* telOptReset() before a call, and whether a port makes it skip the requests.
telOptReset(port) == sent' = port /\ ported' = port /\ UNCHANGED req

\* stepEnterOnline() or onlineMode(), behind a telOptReset() where there is one.
Enters(s) ==
    /\ state' = s
    /\ IF ~sent /\ atcmd.pr = 0 THEN telOptSendReqs ELSE UNCHANGED option

EntersFresh(s, port) ==
    /\ state' = s
    /\ IF ~port /\ atcmd.pr = 0 THEN telOptSendReqs ELSE telOptReset(port)

-----------------------------------------------------------------------------
(* Commands.  Each is read in the start condition it is allowed in; the other
   text fails, and ends the line with the effects it has had. *)

Reads(condition) == by # "none" /\ scan = condition

Done(st) ==
    /\ by' = "none" /\ scan' = "INITIAL" /\ stat' = st

\* atcmdInit() forces CR and LF to be usable when its lines fail.
Usable(a) == [a EXCEPT !.s = [@ EXCEPT ![3] = 13, ![4] = 10]]

Fails ==
    /\ Done("ERROR")
    /\ atcmd' = IF by = "init" THEN Usable(atcmd) ELSE atcmd
    /\ UNCHANGED <<state, alive, atcmdNV, quit, option, asked, dialled>>

Sets(a) ==
    /\ atcmd' = a
    /\ UNCHANGED <<state, alive, lexer, atcmdNV, quit, asked, dialled>>

\* E, F, Q, V, X and O: one value is allowed, and does nothing (O: see atcmdO).
atcmdFake(n, val) ==
    /\ Reads("AT")
    /\ IF n = val THEN UNCHANGED vars ELSE Fails

atcmdO(n) ==
    /\ Reads("AT")
    /\ IF n = 0 THEN stat' = "ATO" /\ UNCHANGED <<state, alive, by, scan, settings, quit,
                                                  option, asked, dialled>>
                ELSE Fails

atcmdA ==
    /\ Reads("AT") /\ stat' = "ATA"
    /\ UNCHANGED <<state, alive, by, scan, settings, quit, option, asked, dialled>>

atcmdH(n) ==
    /\ Reads("AT")
    /\ IF n # 0 THEN Fails
       ELSE sockClose /\ UNCHANGED <<state, lexer, settings, quit, option, asked, dialled>>

\* In and Sn?: they print, or fail.
atcmdI(n) ==
    /\ Reads("AT")
    /\ IF n \in 4..7 THEN UNCHANGED vars ELSE Fails

atcmdSQuery(n) ==
    /\ Reads("AT")
    /\ IF n <= 12 THEN UNCHANGED vars ELSE Fails

atcmdSSet(n, val) ==
    /\ Reads("AT") /\ (n <= 12 => n \in Regs)
    /\ IF n > 12 \/ val > 255 THEN Fails
       ELSE Sets([atcmd EXCEPT !.s = [@ EXCEPT ![n] = val]]) /\ UNCHANGED option

\* Mutant: the connection survives the change of the settings.
atcmdZ_KeepsCall ==
    /\ Reads("AT") /\ atcmd' = atcmdNV /\ asked' = Voided
    /\ UNCHANGED <<state, alive, lexer, atcmdNV, quit, option, dialled>>

\* The number of atcmd.d is restored with the settings.
atcmdZ ==
    /\ Reads("AT") /\ atcmd' = atcmdNV /\ sockClose /\ asked' = Voided
    /\ UNCHANGED <<state, lexer, atcmdNV, quit, option, dialled>>

atcmdAW ==
    /\ Reads("AT") /\ atcmdNV' = atcmd
    /\ UNCHANGED <<state, alive, lexer, atcmd, quit, option, asked, dialled>>

Renegotiate == sent' = FALSE /\ UNCHANGED <<req, ported>>

atcmdPB(n, val) ==
    /\ Reads("AT")
    /\ IF n > 1 \/ val > 3 THEN Fails
       ELSE Sets([atcmd EXCEPT !.pb = [@ EXCEPT ![n] = val]]) /\ Renegotiate

atcmdPD(n) ==
    /\ Reads("AT")
    /\ IF n > 1 THEN Fails ELSE Sets([atcmd EXCEPT !.pd = n]) /\ UNCHANGED option

\* Mutant: one value too many, of those the tables of setReqs() have no entry for.
atcmdPL_OneMore(n) ==
    /\ Reads("AT")
    /\ IF n > 4 THEN Fails ELSE Sets([atcmd EXCEPT !.pl = n]) /\ Renegotiate

atcmdPL(n) ==
    /\ Reads("AT")
    /\ IF n > 3 THEN Fails ELSE Sets([atcmd EXCEPT !.pl = n]) /\ Renegotiate

atcmdPQ ==
    /\ Reads("AT") /\ sockClose /\ quit' = TRUE
    /\ UNCHANGED <<state, lexer, settings, option, asked, dialled>>

atcmdPR(n) ==
    /\ Reads("AT")
    /\ IF n > 1 THEN Fails ELSE Sets([atcmd EXCEPT !.pr = n]) /\ UNCHANGED option

atcmdPT(n) ==
    /\ Reads("AT")
    /\ IF n > 1 THEN Fails
       ELSE /\ Sets([atcmd EXCEPT !.wont = (n = 0), !.term = IF n = 1 THEN TERM ELSE @])
            /\ UNCHANGED option

atcmdPTSet(t) ==
    /\ Reads("AT")
    /\ Sets([atcmd EXCEPT !.wont = FALSE, !.term = t]) /\ UNCHANGED option

atcmdPV(n) ==
    /\ Reads("AT")
    /\ IF n > 255 THEN Fails ELSE Sets([atcmd EXCEPT !.pv = n]) /\ UNCHANGED option

\* D: an error until a number has been read; then the line goes on.
\* Mutant: without a number it dials the last one again.
Dial_Again ==
    /\ Reads("AT") /\ scan' = "ATD" /\ stat' = "ATD"
    /\ UNCHANGED <<state, alive, by, settings, quit, option, asked, dialled>>

Dial ==
    /\ Reads("AT") /\ scan' = "ATD" /\ stat' = "ERROR"
    /\ UNCHANGED <<state, alive, by, settings, quit, option, asked, dialled>>

\* sscanf() leaves the port of the last number behind when there is none.
Keeps(num) == [addr |-> num.addr, type |-> num.type,
               str |-> IF num.type = "NUL" THEN atcmd.d.str ELSE num.str]

m2k_atcmdD(num) ==
    /\ Reads("ATD") /\ scan' = "AT" /\ stat' = "ATD"
    /\ atcmd' = [atcmd EXCEPT !.d = Keeps(num)]
    /\ asked' = num
    /\ UNCHANGED <<state, alive, by, atcmdNV, quit, option, dialled>>

\* Any other text.
Unknown == (Reads("AT") \/ Reads("ATD")) /\ Fails

Command ==
    \/ \E n \in Args["fake"] : atcmdFake(n, 0) \/ atcmdFake(n, 1)
    \/ \E n \in Args["O"] : atcmdO(n)
    \/ atcmdA \/ Dial \/ atcmdZ \/ atcmdAW \/ atcmdPQ \/ Unknown
    \/ \E n \in Args["H"] : atcmdH(n)
    \/ \E n \in Args["I"] : atcmdI(n)
    \/ \E n \in Args["S"] : atcmdSQuery(n) \/ \E m \in Args["m"] : atcmdSSet(n, m)
    \/ \E n \in Args["B"], m \in Args["Bm"] : atcmdPB(n, m)
    \/ \E n \in Args["D"] : atcmdPD(n)
    \/ \E n \in Args["L"] : atcmdPL(n)
    \/ \E n \in Args["R"] : atcmdPR(n)
    \/ \E n \in Args["T"] : atcmdPT(n)
    \/ \E t \in Terms : atcmdPTSet(t)
    \/ \E n \in Args["V"] : atcmdPV(n)
    \/ \E num \in Number : m2k_atcmdD(num)

-----------------------------------------------------------------------------
(* Lines. *)

\* A DTE line in command mode, or one that the host runs in any state.
cmdLex(w) ==
    /\ by = "none" /\ (w = "dte" => state = "CMD") /\ state # "SYNC"
    /\ by' = w /\ scan' = "AT" /\ stat' = "OK"
    /\ asked' = NoNumber /\ dialled' = NoNumber
    /\ UNCHANGED <<state, alive, settings, quit, option>>

EndOfLine(st) == (Reads("AT") \/ Reads("ATD")) /\ stat \in st

\* The end of a line that asks for no call, and of any line of the host or of
\* the environment, where a call is an error.
LineEnds ==
    /\ EndOfLine({"OK", "ERROR"}) \/ (EndOfLine({"ATD", "ATO", "ATA"}) /\ by # "dte")
    /\ Done(stat)
    /\ atcmd' = IF by = "init" /\ stat # "OK" THEN Usable(atcmd) ELSE atcmd
    /\ asked' = NoNumber /\ dialled' = NoNumber
    /\ UNCHANGED <<state, alive, atcmdNV, quit, option>>

Refused ==
    /\ Done(stat)
    /\ UNCHANGED <<state, alive, settings, quit, option, asked, dialled>>

port(d) == IF d.type = "NUL" THEN Telnet ELSE IF d.str \in Ports THEN d.str ELSE PortZero

Lookup(d) == dialled' = [addr |-> d.addr, type |-> d.type, str |-> port(d)]

\* ATD: the call fails at once, is in progress, or is up.
LineDials ==
    /\ EndOfLine({"ATD"}) /\ by = "dte"
    /\ \/ alive /\ Refused
       \/ /\ ~alive /\ Done(stat) /\ Lookup(atcmd.d)
          /\ LET p == atcmd.d.type # "NUL"
             IN  \/ alive' = FALSE /\ state' \in {"CMD", "DIAL"} /\ telOptReset(p)
                 \/ alive' = TRUE /\ EntersFresh("ONLINE", p)
          /\ UNCHANGED <<settings, quit, asked>>

LineReturns ==
    /\ EndOfLine({"ATO"}) /\ by = "dte"
    /\ \/ ~alive /\ Refused
       \/ /\ alive /\ Done(stat) /\ Enters("ONLINE")
          /\ UNCHANGED <<alive, settings, quit, asked, dialled>>

\* ATA: there may be a caller, and may be no time to wait for one.
LineAnswers ==
    /\ EndOfLine({"ATA"}) /\ by = "dte"
    /\ \/ Refused
       \/ /\ ~alive /\ Done(stat)
          /\ \/ state' = "ANSWER" /\ atcmd.s[7] # 0 /\ UNCHANGED <<alive, option>>
             \/ alive' = TRUE /\ EntersFresh("ONLINE", FALSE)
          /\ UNCHANGED <<settings, quit, asked, dialled>>

-----------------------------------------------------------------------------
(* Calls. *)

NoLine ==
    /\ by = "none" /\ asked' = NoNumber /\ dialled' = NoNumber
    /\ UNCHANGED <<lexer, quit>>

\* The dial in progress connects, or ends (also by a key, S7 or the host).
DialEnds ==
    /\ state = "DIAL"
    /\ \/ alive' = TRUE /\ Enters("ONLINE")
       \/ state' = "CMD" /\ alive' = FALSE /\ UNCHANGED option
    /\ NoLine /\ UNCHANGED settings

\* A caller is accepted: by ATA, or while it rings (S0).  S1 rests.
answerAccept ==
    /\ state \in {"ANSWER", "CMD"}
    /\ \/ (state = "ANSWER" \/ ~alive) /\ alive' = TRUE /\ EntersFresh("ONLINE", FALSE)
       \/ state = "ANSWER" /\ state' = "CMD" /\ UNCHANGED <<alive, option>>
    /\ NoLine /\ UNCHANGED settings

Escapes ==
    /\ state \in {"ONLINE", "SYNC"} /\ state' = "CMD"
    /\ NoLine /\ UNCHANGED <<alive, option, settings>>

Loses ==
    /\ state \in {"ONLINE", "SYNC", "CMD"}
    /\ state' = "CMD" /\ alive' = FALSE
    /\ NoLine /\ UNCHANGED <<option, settings>>

\* The synchronous API: the host dials, in any state and whatever call there is (when
\* the look-up fails, that call stays), and then goes online.
m2k_dial(num) ==
    /\ state # "SYNC" /\ by = "none"
    /\ LET d == [num EXCEPT !.type = IF num.type = "NUL" THEN "NUL" ELSE "STR"]
       IN  atcmd' = [atcmd EXCEPT !.d = d] /\ Lookup(d)
    /\ asked' = num
    /\ telOptReset(num.type # "NUL")
    /\ alive' \in BOOLEAN
    /\ UNCHANGED <<state, lexer, atcmdNV, quit>>

m2k_online ==
    /\ state = "CMD" /\ alive
    /\ Enters("SYNC")
    /\ NoLine /\ UNCHANGED <<alive, settings>>

Call == DialEnds \/ answerAccept \/ Escapes \/ Loses \/ m2k_online
        \/ \E num \in Number : m2k_dial(num)

-----------------------------------------------------------------------------
\* INITSTR.
Factory ==
    [s |-> [r \in Regs |-> CASE r = 2 -> 43 [] r = 3 -> 13 [] r = 4 -> 10 [] r = 5 -> 8
                             [] r = 7 -> 20 [] r = 12 -> 50 [] OTHER -> 0],
     pb |-> [n \in 0..1 |-> IF BinDefault THEN 1 ELSE 0],
     pd |-> 0, pl |-> 0, pr |-> 0, wont |-> FALSE, term |-> TERM, pv |-> 0,
     d |-> NoNumber]

\* m2k_new(), up to the line from the environment (or none: an empty one).
Init ==
    /\ state = "CMD" /\ alive = FALSE /\ quit = FALSE
    /\ by = "init" /\ scan = "AT" /\ stat = "OK"
    /\ atcmd = Factory /\ atcmdNV = Factory
    /\ sent = FALSE /\ req = stTabTemplate /\ ported = FALSE
    /\ asked = NoNumber /\ dialled = NoNumber

Next ==
    \/ \E w \in {"dte", "host"} : cmdLex(w)
    \/ Command
    \/ LineEnds \/ LineDials \/ LineReturns \/ LineAnswers
    \/ Call

Spec == Init /\ [][Next]_vars

-----------------------------------------------------------------------------
(* Properties. *)

\* Every value stays in the range that its users index tables with.
TypeOK ==
    /\ state \in {"CMD", "DIAL", "ANSWER", "ONLINE", "SYNC"} /\ alive \in BOOLEAN
    /\ by \in {"none", "init", "dte", "host"} /\ scan \in {"INITIAL", "AT", "ATD"}
    /\ stat \in {"OK", "ERROR", "ATD", "ATO", "ATA"}
    /\ atcmd \in Atcmd /\ atcmdNV \in Atcmd /\ quit \in BOOLEAN
    /\ sent \in BOOLEAN /\ req \in Table /\ ported \in BOOLEAN
    /\ asked \in Number \cup {NoNumber, Voided}
    /\ dialled \in [addr : Addrs \cup {"none"}, type : PTypes,
                    str : Ports \cup {Telnet, PortZero, "none"}]

\* Once the modem has asked the peer for its options on a connection, what it
\* insists on is what %B and %L are set to now, whoever has changed them and
\* when: with &W, Z, raw mode, escapes and host lines in any order, a change
\* makes the next return online ask again or ends the connection.  (Which side
\* %B0 and %B1 name is BinarySides' question.)
NegotiatedAsSet ==
    alive /\ sent /\ ~ported =>
        LET want == setReqs(atcmd)
        IN  /\ req.binL = want.binL /\ req.binR = want.binR
            /\ req.sgaR = want.sgaR /\ req.echoR = want.echoR

\* Once the modem has asked, it insists on its own side of the binary option as %B0
\* says and on the peer's as %B1 says (modemu2k.1 on the n of %Bn=m: 0 is "Control
\* the local (modemu2k) option", 1 "Control the remote (TELNET server) option").
BinarySides ==
    alive /\ sent /\ ~ported => /\ req.binL = tabP[atcmd.pb[0]]
                               /\ req.binR = tabP[atcmd.pb[1]]

\* The call that is placed goes to the last number of the line that asked for
\* it, on the port given with that number or the telnet port, whatever was
\* dialled, saved and restored before, and a line without a number calls nobody.
\* (A Z behind the number also restores a number: nothing is said of that.)
DialsWhatIsAsked ==
    dialled # NoNumber /\ asked # Voided =>
        /\ asked # NoNumber /\ dialled.addr = asked.addr
        /\ asked.type = "NUL" => dialled.str = Telnet
        /\ asked.type = "NUM" => dialled.str = asked.str

\* %T0 refuses the terminal-type option (modemu2k.1: "Refuse terminal-type
\* option"): who goes online with it does not agree to a DO TERMINAL-TYPE.
RefusesTType ==
    [][state' # state /\ state' \in {"ONLINE", "SYNC"} /\ atcmd'.pr = 0 /\ atcmd'.wont
         => req'.ttL = "MUSTNOT"]_vars
=============================================================================
