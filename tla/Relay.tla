-------------------------------- MODULE Relay --------------------------------
(***************************************************************************)
(* The data path of an online call: the four byte buffers, their flow      *)
(* control, and the loops that move bytes between the DTE and the peer     *)
(* (onlineIter() with ttyReadLoop() and sockReadLoop()), over a tty or     *)
(* embedded in a host.                                                     *)
(*                                                                         *)
(* A byte is a member of Byte: only the bytes the loops tell apart are     *)
(* named.  `typed' and `said' remember what the DTE and the peer have put  *)
(* in, `got' and `shown' what has come out for the peer and for the DTE;   *)
(* the code has no such variables, the properties compare them.            *)
(***************************************************************************)
EXTENDS Integers, Sequences, SequencesExt

CONSTANTS
    Data,       \* bytes that mean nothing to either loop
    BufR,       \* TTYBUFR_SIZE = SOCKBUFR_SIZE (1024)
    Soft,       \* SOCKBUFW_SIZE = TTYBUFW_SIZE (2048), the flow control limit
    LineMax,    \* LINEBUF_SIZE (256)
    TermLen,    \* length of the terminal type that is reported to the peer
    Raws,       \* AT%R, in a call: TRUE is no telnet and no line mode
    Hosts,      \* the values of step.app_io: TRUE where the bytes of the DTE
                \* come from m2k_write_from_app()
    Greeting,   \* length of the result code that ends the dial or the ring
    Requests,   \* length of the options that are asked for at the start
    Opts,       \* the options the peer negotiates in the middle of the call
    MaxTyped,   \* bound: bytes the DTE types
    MaxSaid,    \* bound: what the peer sends, in units (see PeerSends)
    MaxBoth     \* bound: the two together

Hard == Soft + BufR   \* SOCKBUFW_SIZE_A, TTYBUFW_SIZE_A

ASSUME SizeAssumption ==
    /\ BufR \in Nat \ {0} /\ Soft \in Nat /\ LineMax \in Nat /\ TermLen \in Nat
    /\ Greeting \in Nat /\ Requests \in Nat
    /\ LineMax + 2 <= BufR   \* a whole line and its CRLF fit behind Soft
ASSUME ModeAssumption ==
    /\ Raws \subseteq BOOLEAN /\ Hosts \subseteq BOOLEAN /\ Opts \subseteq {"SGA", "OTHER"}
    /\ MaxTyped \in Nat /\ MaxSaid \in Nat /\ MaxBoth \in Nat

Special == {"IAC", "CR", "LF", "BS", "WILL", "SGA", "OTHER", "SB", "TTYPE",
            "SEND", "SE"}
ASSUME DataAssumption == Data \cap (Special \cup {"opt", "echo"}) = {}

VARIABLES
    typed,    \* all bytes the DTE has typed
    ttyIn,    \* of these, the bytes that have not been read yet
    ttyR,     \* tty.bufR, from ptr to end
    line,     \* lineBuf: the line the DTE is typing, in line mode
    sockW,    \* sock.bufW
    got,      \* all bytes the peer has received
    said,     \* the data the peer has sent, without the telnet commands in it
    units,    \* how many units these were
    sockIn,   \* the bytes of the peer that have not been received yet
    srl,      \* srl.state
    opt,      \* srl.opt
    ttyW,     \* tty.bufW
    shown,    \* all bytes the DTE has been given
    sga,      \* telOpt.sgasend: character mode
    alive,    \* sock.conn.alive
    raw,      \* atcmd.pr
    appIO,    \* step.app_io
    hup       \* poll() reports POLLHUP on the socket: the peer has reset the call

vars == <<typed, ttyIn, ttyR, line, sockW, got, said, units, sockIn, srl, opt,
          ttyW, shown, sga, alive, hup, raw, appIO>>

-----------------------------------------------------------------------------
\* "opt" stands for a byte of a telnet request or reply, "echo" for one the
\* modem itself writes to the DTE.
Byte    == Data \cup Special \cup {"opt", "echo"}
Srl     == {"NORM", "IAC", "CMD", "SB", "SBC", "SBS", "SBI"}

(* A write buffer: `fill' is ptr - buf and q the bytes from top to ptr. *)
Buffer == [fill : 0..Hard, q : Seq(Byte), stop : BOOLEAN]
Empty  == [fill |-> 0, q |-> <<>>, stop |-> FALSE]

(* What the loops change. *)
Path == [ttyR : Seq(Byte), line : Seq(Byte), sockW : Buffer, ttyW : Buffer,
         srl : Srl, opt : Byte, sga : BOOLEAN, alive : BOOLEAN]
Now  == [ttyR |-> ttyR, line |-> line, sockW |-> sockW, ttyW |-> ttyW,
         srl |-> srl, opt |-> opt, sga |-> sga, alive |-> alive]
Becomes(x) ==
    /\ ttyR' = x.ttyR /\ line' = x.line /\ sockW' = x.sockW /\ ttyW' = x.ttyW
    /\ srl' = x.srl /\ opt' = x.opt /\ sga' = x.sga /\ alive' = x.alive

Least(a, b) == IF a < b THEN a ELSE b

\* Mutant: no hard limit.
put_NoLimit(w, s) ==
    [fill |-> w.fill + Len(s), q |-> w.q \o s,
     stop |-> w.stop \/ (s # <<>> /\ w.fill + Len(s) > Soft)]

\* putSock1() / putTty1() on each byte of s: flow control sets in behind the
\* soft limit, and what does not fit below the hard limit is dropped.
put(w, s) ==
    LET t == SubSeq(s, 1, Least(Len(s), Hard - w.fill))
    IN  [fill |-> w.fill + Len(t), q |-> w.q \o t,
         stop |-> w.stop \/ (s # <<>> /\ w.fill + Len(s) > Soft)]

putSock(x, s) == [x EXCEPT !.sockW = put(@, s)]
putTty(x, s)  == [x EXCEPT !.ttyW = put(@, s)]

\* Mutant: flow control, once on, stays on.
drained_KeepsStop(w, n) ==
    IF n < Len(w.q) THEN [w EXCEPT !.q = SubSeq(@, n + 1, Len(@))]
                    ELSE [Empty EXCEPT !.stop = w.stop]

\* n bytes of w have been sent or written: the buffer starts over, and flow
\* control ends, only when it is empty.
drained(w, n) ==
    IF n < Len(w.q) THEN [w EXCEPT !.q = SubSeq(@, n + 1, Len(@))] ELSE Empty

-----------------------------------------------------------------------------
(* From the DTE to the peer. *)

\* Line mode: BS rubs out, LF is ignored, CR sends the line.
lineByte(x, c) ==
    LET echoed == putTty(x, IF c = "CR" THEN <<"echo", "echo">> ELSE <<"echo">>)
        kept   == IF c = "IAC" THEN <<"IAC", "IAC">> ELSE <<c>>
    IN  CASE c = "CR" -> [putSock(echoed, x.line \o <<"CR", "LF">>) EXCEPT !.line = <<>>]
          [] c = "LF" -> echoed
          [] c = "BS" -> [echoed EXCEPT !.line = IF @ = <<>> THEN @ ELSE Front(@)]
          [] OTHER    -> [echoed EXCEPT !.line = SubSeq(@ \o kept, 1,
                                                   Least(LineMax, Len(@ \o kept)))]

ttyByte(x, c) ==
    CASE raw   -> putSock(x, <<c>>)
      [] ~raw /\ x.sga  -> putSock(x, IF c = "IAC" THEN <<"IAC", "IAC">> ELSE <<c>>)
      [] ~raw /\ ~x.sga -> lineByte(x, c)

\* Mutant: flow control does not stop the loop in line mode.
ttyReadLoop_NoGate(x) ==
    LET after[n \in 0..Len(x.ttyR)] ==
          IF n = 0 THEN x
          ELSE LET y == after[n - 1] IN
               IF y.sockW.stop /\ (raw \/ y.sga) THEN y
               ELSE [ttyByte(y, Head(y.ttyR)) EXCEPT !.ttyR = Tail(y.ttyR)]
    IN  after[Len(x.ttyR)]

\* Byte by byte, until flow control stops it or nothing is left.
ttyReadLoop(x) ==
    LET after[n \in 0..Len(x.ttyR)] ==
          IF n = 0 THEN x
          ELSE LET y == after[n - 1] IN
               IF y.sockW.stop THEN y
               ELSE [ttyByte(y, Head(y.ttyR)) EXCEPT !.ttyR = Tail(y.ttyR)]
    IN  after[Len(x.ttyR)]

-----------------------------------------------------------------------------
(* From the peer to the DTE. *)

\* An option is agreed to or answered, with or without a reply, or refused
\* where the modem insists; SGA decides between character and line mode.
telOptHandle(x, o) ==
    LET answered == {x, putSock(x, <<"opt", "opt", "opt">>)}
    IN  {[y EXCEPT !.sga = b] : y \in answered,
                                b \in (IF o = "SGA" THEN BOOLEAN ELSE {x.sga})}
        \cup {[x EXCEPT !.alive = FALSE]}

\* Only the terminal type is reported: IAC SB TTYPE IS name IAC SE.
telOptSBHandle(x) ==
    IF x.opt = "TTYPE" THEN putSock(x, [i \in 1..(6 + TermLen) |-> "opt"]) ELSE x

sockByte(x, c) ==
    LET to(s) == [x EXCEPT !.srl = s] IN
    IF raw THEN {putTty(x, <<c>>)} ELSE
    CASE x.srl = "NORM" -> IF c = "IAC" THEN {to("IAC")} ELSE {putTty(x, <<c>>)}
      [] x.srl = "IAC"  -> CASE c = "WILL" -> {to("CMD")}
                             [] c = "SB"   -> {to("SB")}
                             [] c = "IAC"  -> {putTty(to("NORM"), <<c>>)}
                             [] OTHER      -> {to("NORM")}
      [] x.srl = "CMD"  -> telOptHandle(to("NORM"), c)
      [] x.srl = "SB"   -> {[to("SBC") EXCEPT !.opt = c]}
      [] x.srl = "SBC"  -> {to(IF c = "SEND" THEN "SBS" ELSE "NORM")}
      [] x.srl = "SBS"  -> {to(IF c = "IAC" THEN "SBI" ELSE "NORM")}
      [] x.srl = "SBI"  -> {telOptSBHandle(to("NORM"))}

\* Mutant: the parser starts over with every recv().
sockReadLoop_Afresh(x, s) ==
    LET after[n \in 0..Len(s)] ==
          IF n = 0 THEN {[x EXCEPT !.srl = "NORM"]}
          ELSE UNION {sockByte(y, s[n]) : y \in after[n - 1]}
    IN  after[Len(s)]

\* The bytes s that recv() has returned.
sockReadLoop(x, s) ==
    LET after[n \in 0..Len(s)] ==
          IF n = 0 THEN {x} ELSE UNION {sockByte(y, s[n]) : y \in after[n - 1]}
    IN  after[Len(s)]

-----------------------------------------------------------------------------
(* onlineIter(): what poll() has found ready, in the order of the code.  It
   asks for what onlinePollfds() lists: POLLIN on the socket while the tty
   write buffer is ready (POLLHUP comes unasked), POLLIN on the tty while the socket write buffer is
   and the last read has been used up, POLLOUT where there is data. *)

\* Mutant: what is left in the tty read buffer waits for the next byte.
sockBufWrite_Only(x, n) == [x EXCEPT !.sockW = drained(@, n)]

\* send() takes n bytes of the socket write buffer, and what flow control has
\* left in the tty read buffer goes on.
sockBufWrite(x, n) ==
    LET y == [x EXCEPT !.sockW = drained(@, n)]
    IN  IF y.ttyR # <<>> /\ ~y.sockW.stop THEN ttyReadLoop(y) ELSE y

\* wr, tw: bytes that send() and write() take; rd, tr: bytes that recv() and
\* read() return; 0 where poll() has not found the descriptor ready.
onlineIter(wr, tw, rd, tr) ==
    LET w == IF wr > 0 THEN sockBufWrite(Now, wr) ELSE Now
        a == IF appIO THEN ttyReadLoop(w)
             ELSE IF tw > 0 THEN [w EXCEPT !.ttyW = drained(@, tw)] ELSE w
        r == IF rd > 0 THEN sockReadLoop(a, SubSeq(sockIn, 1, rd)) ELSE {a}
    IN  {IF tr > 0 THEN ttyReadLoop([y EXCEPT !.ttyR = SubSeq(ttyIn, 1, tr)]) ELSE y :
            y \in r}

mayReadTty == ~appIO /\ ~sockW.stop /\ ttyR = <<>>

OnlineRelays ==
    /\ alive
    /\ \E wr \in 0..Len(sockW.q),
          tw \in (IF appIO THEN {0} ELSE 0..Len(ttyW.q)),
          rd \in (IF ttyW.stop /\ ~hup THEN {0} ELSE 0..Least(BufR, Len(sockIn))),
          tr \in (IF mayReadTty THEN 0..Least(BufR, Len(ttyIn)) ELSE {0}) :
       /\ wr + tw + rd + tr > 0
       /\ got' = got \o SubSeq(sockW.q, 1, wr)
       /\ shown' = shown \o SubSeq(ttyW.q, 1, tw)
       /\ sockIn' = SubSeq(sockIn, rd + 1, Len(sockIn))
       /\ ttyIn' = SubSeq(ttyIn, tr + 1, Len(ttyIn))
       /\ \E y \in onlineIter(wr, tw, rd, tr) : Becomes(y)
    /\ UNCHANGED <<typed, said, units, hup, raw, appIO>>

\* A step the host takes although poll() has nothing to report.
OnlineIdles ==
    /\ alive
    /\ \E y \in onlineIter(0, 0, 0, 0) : Becomes(y)
    /\ UNCHANGED <<typed, ttyIn, got, said, units, sockIn, shown, hup, raw, appIO>>

\* send() or recv() fails, the tty closes, the host hangs up or the DTE escapes.
CallEnds ==
    /\ alive /\ alive' = FALSE
    /\ UNCHANGED <<typed, ttyIn, ttyR, line, sockW, got, said, units, sockIn, srl,
                   opt, ttyW, shown, sga, hup, raw, appIO>>

\* The model ends with the call: what the code does then is Modem's.
Ended == ~alive /\ UNCHANGED vars

-----------------------------------------------------------------------------
(* The DTE, the host and the peer. *)

DteTypes(c) ==
    /\ alive /\ Len(typed) < MaxTyped /\ Len(typed) + units < MaxBoth
    /\ typed' = Append(typed, c) /\ ttyIn' = Append(ttyIn, c)
    /\ UNCHANGED <<ttyR, line, sockW, got, said, units, sockIn, srl, opt, ttyW,
                   shown, sga, alive, hup, raw, appIO>>

\* m2k_write_from_app() takes what fits behind what is left.
m2k_write_from_app ==
    /\ alive /\ appIO /\ ttyIn # <<>> /\ Len(ttyR) < BufR
    /\ LET take == Least(Len(ttyIn), BufR - Len(ttyR))
       IN  /\ ttyR' = ttyR \o SubSeq(ttyIn, 1, take)
           /\ ttyIn' = SubSeq(ttyIn, take + 1, Len(ttyIn))
    /\ UNCHANGED <<typed, line, sockW, got, said, units, sockIn, srl, opt, ttyW,
                   shown, sga, alive, hup, raw, appIO>>

\* m2k_read_to_app() of at most max bytes.
m2k_read_to_app(max) ==
    /\ alive /\ appIO /\ ttyW.q # <<>>
    /\ shown' = shown \o SubSeq(ttyW.q, 1, Least(max, Len(ttyW.q)))
    /\ ttyW' = drained(ttyW, max)
    /\ UNCHANGED <<typed, ttyIn, ttyR, line, sockW, got, said, units, sockIn, srl,
                   opt, sga, alive, hup, raw, appIO>>

\* The peer sends data, with IAC doubled, or a telnet command.
Units ==
    IF raw THEN {[bytes |-> <<c>>, data |-> <<c>>] : c \in Data \cup {"IAC"}}
    ELSE {[bytes |-> <<c>>, data |-> <<c>>] : c \in Data}
         \cup {[bytes |-> <<"IAC", "IAC">>, data |-> <<"IAC">>]}
         \cup {[bytes |-> <<"IAC", "WILL", o>>, data |-> <<>>] : o \in Opts}
         \cup (IF Opts = {} THEN {}
               ELSE {[bytes |-> <<"IAC", "SB", "TTYPE", "SEND", "IAC", "SE">>,
                      data |-> <<>>]})

PeerSends ==
    /\ alive /\ ~hup /\ units < MaxSaid /\ Len(typed) + units < MaxBoth
    /\ units' = units + 1
    /\ \E u \in Units : /\ sockIn' = sockIn \o u.bytes
                        /\ said' = said \o u.data
    /\ UNCHANGED <<typed, ttyIn, ttyR, line, sockW, got, srl, opt, ttyW, shown,
                   sga, alive, hup, raw, appIO>>

\* A reset: what has arrived can still be received, then recv() fails.
PeerResets ==
    /\ alive /\ ~hup /\ hup' = TRUE
    /\ UNCHANGED <<typed, ttyIn, ttyR, line, sockW, got, said, units, sockIn, srl,
                   opt, ttyW, shown, sga, alive, raw, appIO>>

-----------------------------------------------------------------------------
\* The modem's own bytes: n times c.
own(c, n) == [i \in 1..n |-> c]

\* stepEnterOnline() resets everything but the tty write buffer, where it puts
\* the result code, and the options, which survive an escape.  Those it asks
\* for, if it does, are the first thing that is sent.
Init ==
    /\ raw \in Raws /\ typed = <<>> /\ ttyIn = <<>> /\ ttyR = <<>> /\ line = <<>>
    /\ \E n \in IF raw THEN {0} ELSE {0, Requests} : sockW = put(Empty, own("opt", n))
    /\ ttyW = put(Empty, own("echo", Greeting)) /\ shown = <<>> /\ got = <<>>
    /\ said = <<>> /\ units = 0 /\ sockIn = <<>> /\ srl = "NORM" /\ opt = "OTHER"
    /\ sga \in BOOLEAN /\ alive = TRUE /\ hup = FALSE /\ appIO \in Hosts

\* In raw mode one byte is like another.
Typeable == Data \cup {"IAC"} \cup (IF raw THEN {} ELSE {"CR", "LF", "BS"})

Next ==
    \/ OnlineRelays \/ OnlineIdles \/ CallEnds \/ Ended
    \/ \E c \in Typeable : DteTypes(c)
    \/ m2k_write_from_app
    \/ \E max \in 1..Hard : m2k_read_to_app(max)
    \/ PeerSends \/ PeerResets

Spec == Init /\ [][Next]_vars

(* The host's loop: poll() returns when a descriptor it watches is ready, and
   onlinePollfds() gives it no timeout to go by.  The peer takes what is sent
   and the host writes what the DTE has typed; nothing is assumed of the DTE. *)
Fairness ==
    /\ WF_vars(OnlineRelays /\ got' # got)
    /\ WF_vars(OnlineRelays /\ ttyIn' # ttyIn)
    /\ WF_vars(m2k_write_from_app)

FairSpec == Spec /\ Fairness

-----------------------------------------------------------------------------
(* Properties. *)

TypeOK ==
    /\ Now \in Path
    /\ Len(ttyR) <= BufR /\ Len(line) <= LineMax
    /\ typed \in Seq(Typeable) /\ got \in Seq(Byte) /\ shown \in Seq(Byte)

\* The bytes of s that are not the modem's own.
Payload(s) ==
    LET from[n \in 0..Len(s)] ==
          IF n = 0 THEN <<>>
          ELSE IF s[n] \in {"opt", "echo"} THEN from[n - 1] ELSE Append(from[n - 1], s[n])
    IN  from[Len(s)]

\* What the DTE has typed as far as c: `out' for the peer, and the unfinished line.
typeLine(a, c) ==
    CASE c = "CR"  -> [out |-> a.out \o a.line \o <<"CR", "LF">>, line |-> <<>>]
      [] c = "LF"  -> a
      [] c = "BS"  -> [a EXCEPT !.line = IF @ = <<>> THEN @ ELSE SubSeq(@, 1, Len(@) - 1)]
      [] c = "IAC" -> [a EXCEPT !.line = SubSeq(@ \o <<c, c>>, 1, Least(LineMax, Len(@) + 2))]
      [] OTHER     -> [a EXCEPT !.line = SubSeq(Append(@, c), 1, Least(LineMax, Len(@) + 1))]

typeByte(m, a, c) ==
    CASE m = "raw"  -> [a EXCEPT !.out = Append(@, c)]
      [] m = "char" -> [a EXCEPT !.out = @ \o (IF c = "IAC" THEN <<c, c>> ELSE <<c>>)]
      [] m = "line" -> typeLine(a, c)

\* The same of the bytes s, in mode m.
Sent(m, s) ==
    LET from[n \in 0..Len(s)] ==
          IF n = 0 THEN [out |-> <<>>, line |-> <<>>] ELSE typeByte(m, from[n - 1], s[n])
    IN  from[Len(s)]

Mode == IF raw THEN "raw" ELSE IF sga THEN "char" ELSE "line"

\* The bytes of the DTE that the modem has taken.
Taken == SubSeq(typed, 1, Len(typed) - Len(ttyIn) - Len(ttyR))

\* Flow control loses nothing on the way to the peer: what has been sent and
\* what waits to be sent are what the DTE typed, in its order, whatever the
\* pace of the peer, the size of the reads and the replies in between (the
\* mode does not change: Opts without SGA).
TypedGoesOut == Payload(got \o sockW.q) = Sent(Mode, Taken).out

\* In character mode nothing is lost on the way to the DTE either: recv() is
\* only called with room for all it may return, however the stream is cut up
\* and whatever telnet commands are in it.  (Not in line mode, whose echo is
\* not held back, and not after a reset, when poll() reports POLLHUP although
\* the buffer is full.)
SaidIsShown ==
    (raw \/ sga) /\ ~hup =>
        /\ IsPrefix(Payload(shown \o ttyW.q), said)
        /\ sockIn = <<>> => Payload(shown \o ttyW.q) = said

\* Bytes left over from the last read wait for the peer, never for nothing:
\* there is something to send, so poll() is asked for POLLOUT.
LeftoverHasWakeup == ~appIO /\ alive /\ ttyR # <<>> => sockW.q # <<>>

\* While the call is up every typed byte leaves the tty and its read buffer in
\* the end, whether or not the DTE reads what it is sent.
TypedIsTaken == (ttyIn # <<>> \/ ttyR # <<>>) ~> (~alive \/ ttyIn \o ttyR = <<>>)
=============================================================================
