------------------------------- MODULE CmdLine -------------------------------
(***************************************************************************)
(* The command line reader: how the bytes the DTE types become the lines   *)
(* that cmdLex() runs (cmdReadLoop() and cmdIter()), over a tty, where     *)
(* poll() decides what a step does, and embedded in a host, where a step   *)
(* goes on until nothing typed is left.                                    *)
(*                                                                         *)
(* A line starts a call, or a call is answered: what happens until the     *)
(* modem is back in command mode is Modem's and is one state here, "AWAY". *)
(* `typed', `taken' and `ran' remember what the DTE has typed, what the    *)
(* reader has taken of it and what was run; `overtaken' is explained with  *)
(* the property that uses it.                                              *)
(***************************************************************************)
EXTENDS Integers, Sequences, SequencesExt

CONSTANTS
    Letters,    \* printable bytes; a line with "q" in it is AT%Q
    CmdMax,     \* CMDBUF_MAX (255)
    BufR,       \* TTYBUFR_SIZE (1024)
    Hosts,      \* the values of step.app_io
    MaxTyped,   \* bound: bytes the DTE types
    MaxCalls    \* bound: how often the modem leaves command mode

ASSUME CmdAssumption ==
    /\ "q" \in Letters /\ Letters \cap {"CR", "BS", "^C", "CTL", "NUL", "data", "BACK"} = {}
    /\ CmdMax \in Nat \ {0} /\ BufR \in Nat \ {0} /\ Hosts \subseteq BOOLEAN
    /\ MaxTyped \in Nat /\ MaxCalls \in Nat

VARIABLES
    state,      \* step.state: "CMD", "AWAY" for a call, "DONE"
    appIO,      \* step.app_io
    typed,      \* all bytes the DTE has typed
    ttyIn,      \* of these, the bytes that have not been read yet
    ttyR,       \* tty.bufR, from ptr to end
    buf,        \* cmdbuf.buf
    ptr,        \* cmdbuf.ptr - cmdbuf.buf
    eol,        \* cmdbuf.eol
    armed,      \* step.intr_armed
    quitReq,    \* step.quit_req
    ttyW,       \* tty.bufW has data.  That it is too full to read on is not
                \* told apart: it delays a read like a DTE that does not type.
    taken,      \* the bytes the reader has taken, "data" for each byte the
                \* call has, and "BACK" for a return to command mode
    ran,        \* the lines cmdLex() has run
    overtaken,  \* something came between the end of a line and its dispatch
    calls       \* how often the modem has left command mode

vars == <<state, appIO, typed, ttyIn, ttyR, buf, ptr, eol, armed, quitReq, ttyW,
          taken, ran, overtaken, calls>>

-----------------------------------------------------------------------------
Byte == Letters \cup {"CR", "BS", "^C", "CTL"}   \* "CTL": any other control byte

Reader == [state : {"CMD", "AWAY", "DONE"}, ttyR : Seq(Byte),
           buf : [0..CmdMax -> Letters \cup {"NUL"}], ptr : 0..CmdMax,
           eol : BOOLEAN, armed : BOOLEAN, quitReq : BOOLEAN, ttyW : BOOLEAN,
           taken : Seq(Byte \cup {"data", "BACK"}), ran : Seq(Seq(Letters))]
Now == [state |-> state, ttyR |-> ttyR, buf |-> buf, ptr |-> ptr, eol |-> eol,
        armed |-> armed, quitReq |-> quitReq, ttyW |-> ttyW, taken |-> taken,
        ran |-> ran]
Becomes(x) ==
    /\ state' = x.state /\ ttyR' = x.ttyR /\ buf' = x.buf /\ ptr' = x.ptr
    /\ eol' = x.eol /\ armed' = x.armed /\ quitReq' = x.quitReq
    /\ ttyW' = x.ttyW /\ taken' = x.taken /\ ran' = x.ran

Least(a, b) == IF a < b THEN a ELSE b

\* The bytes stay where they are.
cmdBufReset(x) == [x EXCEPT !.ptr = 0, !.eol = FALSE]

\* Mutant: one byte too many.
putCmd1_OffByOne(x, c) ==
    IF x.ptr <= CmdMax THEN [x EXCEPT !.buf[x.ptr] = c, !.ptr = @ + 1] ELSE x

\* A line that is too long loses its end.
putCmd1(x, c) ==
    IF x.ptr < CmdMax THEN [x EXCEPT !.buf[x.ptr] = c, !.ptr = @ + 1] ELSE x

cmdBufBS(x) == [x EXCEPT !.ptr = IF @ > 0 THEN @ - 1 ELSE 0]

\* Mutant: a byte in between does not disarm Ctrl-C.
readByte_StaysArmed(x, c) ==
    CASE c = "^C" /\ x.armed  -> [x EXCEPT !.quitReq = TRUE, !.armed = FALSE]
      [] c = "^C" /\ ~x.armed -> [cmdBufReset(x) EXCEPT !.armed = TRUE]
      [] c = "CR"  -> [x EXCEPT !.ttyW = TRUE, !.eol = TRUE, !.buf[x.ptr] = "NUL"]
      [] c = "BS"  -> [cmdBufBS(x) EXCEPT !.ttyW = TRUE]
      [] c = "CTL" -> [x EXCEPT !.ttyW = TRUE]
      [] OTHER     -> [putCmd1(x, c) EXCEPT !.ttyW = TRUE]

\* One byte, echoed unless it is a Ctrl-C.
readByte(x, c) ==
    LET echoed == [x EXCEPT !.armed = FALSE, !.ttyW = TRUE]
    IN  CASE c = "^C" /\ x.armed  -> [x EXCEPT !.quitReq = TRUE, !.armed = FALSE]
          [] c = "^C" /\ ~x.armed -> [cmdBufReset(x) EXCEPT !.armed = TRUE]
          [] c = "CR"  -> [echoed EXCEPT !.eol = TRUE, !.buf[x.ptr] = "NUL"]
          [] c = "BS"  -> cmdBufBS(echoed)
          [] c = "CTL" -> echoed
          [] OTHER     -> putCmd1(echoed, c)

take(x) == [readByte(x, Head(x.ttyR)) EXCEPT !.ttyR = Tail(@),
                                               !.taken = Append(@, Head(x.ttyR))]

\* Returns with the end of a line and with the second Ctrl-C; the rest stays.
cmdReadLoop(x) ==
    LET returns(y) == \/ Head(y.ttyR) = "CR"
                      \/ Head(y.ttyR) = "^C" /\ y.armed
        after[n \in 0..Len(x.ttyR)] ==
          IF n = 0 THEN [x |-> x, on |-> TRUE]
          ELSE LET a == after[n - 1]
               IN  IF a.on THEN [x |-> take(a.x), on |-> ~returns(a.x)] ELSE a
    IN  after[Len(x.ttyR)].x

-----------------------------------------------------------------------------
(* Running a line. *)

\* The string in cmdbuf.buf.
cString(b) ==
    LET n == CHOOSE i \in 0..CmdMax : b[i] = "NUL" /\ \A j \in 0..(i - 1) : b[j] # "NUL"
    IN  [i \in 1..n |-> b[i - 1]]

\* A call begins or is taken up again: what has been typed and not read is dropped.
leave(x) == [x EXCEPT !.state = "AWAY", !.ttyR = <<>>, !.ttyW = TRUE]

\* Mutant: the buffer is not reset behind the line.
cmdDispatchIfReady_KeepsLine(x) ==
    IF ~x.eol THEN {x}
    ELSE LET y == [x EXCEPT !.eol = FALSE, !.ran = Append(@, cString(x.buf))]
         IN  {y, [y EXCEPT !.ttyW = TRUE]}

\* The line is run, and may have a result code or none, ask for the end of the
\* session, or begin a call.
cmdDispatchIfReady(x) ==
    IF ~x.eol THEN {x}
    ELSE LET line == cString(x.buf)
             y == [cmdBufReset(x) EXCEPT !.ran = Append(@, line)]
         IN  {y, [y EXCEPT !.ttyW = TRUE], leave(y)}
             \cup (IF "q" \in Range(line)
                   THEN {[y EXCEPT !.quitReq = TRUE, !.ttyW = TRUE]} ELSE {})

quitIfDone(x) ==
    IF x.quitReq /\ ~x.ttyW THEN [x EXCEPT !.state = "DONE"] ELSE x

\* Mutant: one line in a step, and what is behind it is dropped.
appIter_OneLine(x) ==
    UNION {{[quitIfDone(z) EXCEPT !.ttyR = <<>>] : z \in cmdDispatchIfReady(y)} :
                y \in {cmdReadLoop(x)}}

\* cmdIter() embedded: lines are run and read until nothing is left, a line
\* begins a call, or the second Ctrl-C is read.
appIter(x) ==
    LET one(y) == UNION {
            LET w == quitIfDone(z) IN
            IF w.state # "CMD" \/ w.ttyR = <<>> THEN {w} ELSE {cmdReadLoop(w)} :
                z \in cmdDispatchIfReady(y)}
        after[n \in 0..(Len(x.ttyR) + 1)] ==
            IF n = 0 THEN {x}
            ELSE UNION {IF n > 1 /\ ~y.eol THEN {y} ELSE one(y) : y \in after[n - 1]}
    IN  after[Len(x.ttyR) + 1]

\* cmdIter() over a tty: wr tells whether poll() has found it writable and
\* what write() takes, rd is the number of bytes read().  What was left of the
\* last read is gone with the next one.
ttyIter(x, wr, rd) ==
    LET written  == IF wr = "all" THEN [x EXCEPT !.ttyW = FALSE] ELSE x
        ready    == IF wr = "no" THEN {written} ELSE cmdDispatchIfReady(written)
        read(y)  == IF rd = 0 THEN y
                    ELSE cmdReadLoop([y EXCEPT !.ttyR = SubSeq(ttyIn, 1, rd)])
    IN  {IF y.state = "AWAY" THEN y ELSE quitIfDone(read(y)) : y \in ready}

-----------------------------------------------------------------------------
(* The steps. *)

\* A call is counted so that the model has a bound.
counted == calls' = calls + (IF state = "CMD" /\ state' = "AWAY" THEN 1 ELSE 0)

CmdStepsApp ==
    /\ state = "CMD" /\ appIO
    /\ \E y \in appIter(Now) : Becomes(y)
    /\ counted /\ calls' <= MaxCalls
    /\ UNCHANGED <<appIO, typed, ttyIn, overtaken>>

CmdStepsTty ==
    /\ state = "CMD" /\ ~appIO
    /\ \E wr \in (IF ttyW THEN {"no", "part", "all"} ELSE {"no"}),
          rd \in 0..Least(BufR, Len(ttyIn)) :
       /\ wr # "no" \/ rd > 0
       /\ \E y \in ttyIter(Now, wr, rd) :
            /\ Becomes(y)
            /\ ttyIn' = IF y.state = "AWAY" THEN ttyIn
                        ELSE SubSeq(ttyIn, rd + 1, Len(ttyIn))
    /\ counted /\ calls' <= MaxCalls
    /\ UNCHANGED <<appIO, typed, overtaken>>

\* S0: cmdRingCheck() answers before cmdIter() looks at anything.
RingAnswered ==
    /\ state = "CMD" /\ calls < MaxCalls
    /\ Becomes(leave(Now)) /\ counted
    /\ overtaken' = (overtaken \/ eol)
    /\ UNCHANGED <<appIO, typed, ttyIn>>

\* During the call the DTE's bytes are the peer's.
AwayReads ==
    /\ state = "AWAY"
    /\ IF appIO THEN ttyR # <<>> ELSE ttyIn # <<>>
    /\ taken' = taken \o [i \in 1..Len(IF appIO THEN ttyR ELSE ttyIn) |-> "data"]
    /\ ttyIn' = IF appIO THEN ttyIn ELSE <<>>
    /\ ttyR' = <<>>
    /\ UNCHANGED <<state, appIO, typed, buf, ptr, eol, armed, quitReq, ttyW, ran,
                   overtaken, calls>>

\* The output is written during a call, or m2k_read_to_app() takes it.
Drains ==
    /\ state = "AWAY" \/ (appIO /\ state = "CMD")
    /\ ttyW /\ ttyW' = FALSE
    /\ UNCHANGED <<state, appIO, typed, ttyIn, ttyR, buf, ptr, eol, armed, quitReq,
                   taken, ran, overtaken, calls>>

\* stepEnterCmd(), with the result code of the end of the call.
BackToCmd ==
    /\ state = "AWAY"
    /\ Becomes([cmdBufReset(Now) EXCEPT !.state = "CMD", !.ttyR = <<>>,
                    !.ttyW = TRUE, !.taken = Append(@, "BACK")])
    /\ UNCHANGED <<appIO, typed, ttyIn, overtaken, calls>>

\* read() or write() fails: the DTE has closed the tty.
TtyCloses ==
    /\ ~appIO /\ state # "DONE" /\ state' = "DONE"
    /\ UNCHANGED <<appIO, typed, ttyIn, ttyR, buf, ptr, eol, armed, quitReq, ttyW,
                   taken, ran, overtaken, calls>>

Done == state = "DONE" /\ UNCHANGED vars

\* m2k_write_from_app() takes what fits behind what is left.
m2k_write_from_app ==
    /\ appIO /\ state # "DONE" /\ ttyIn # <<>> /\ Len(ttyR) < BufR
    /\ LET n == Least(Len(ttyIn), BufR - Len(ttyR))
       IN  /\ ttyR' = ttyR \o SubSeq(ttyIn, 1, n)
           /\ ttyIn' = SubSeq(ttyIn, n + 1, Len(ttyIn))
    /\ UNCHANGED <<state, appIO, typed, buf, ptr, eol, armed, quitReq, ttyW, taken,
                   ran, overtaken, calls>>

DteTypes(c) ==
    /\ state # "DONE" /\ Len(typed) < MaxTyped
    /\ typed' = Append(typed, c) /\ ttyIn' = Append(ttyIn, c)
    /\ overtaken' = (overtaken \/ eol \/ "CR" \in Range(ttyR \o ttyIn))
    /\ UNCHANGED <<state, appIO, ttyR, buf, ptr, eol, armed, quitReq, ttyW, taken,
                   ran, calls>>

-----------------------------------------------------------------------------
Init ==
    /\ state = "CMD" /\ appIO \in Hosts /\ typed = <<>> /\ ttyIn = <<>>
    /\ ttyR = <<>> /\ buf = [i \in 0..CmdMax |-> "NUL"] /\ ptr = 0 /\ eol = FALSE
    /\ armed = FALSE /\ quitReq = FALSE /\ ttyW = FALSE /\ taken = <<>>
    /\ ran = <<>> /\ overtaken = FALSE /\ calls = 0

Next ==
    \/ CmdStepsApp \/ CmdStepsTty \/ RingAnswered
    \/ AwayReads \/ Drains \/ BackToCmd \/ TtyCloses \/ Done
    \/ m2k_write_from_app
    \/ \E c \in Byte : DteTypes(c)

Spec == Init /\ [][Next]_vars

-----------------------------------------------------------------------------
(* Properties. *)

\* The reader keeps to its types, and the buffer always holds the terminator that
\* cmdLex() looks for: putCmd1() at the limit, cmdBufBS() at the start and the
\* bytes of older lines leave it where it is or put it back.
TypeOK ==
    /\ Now \in Reader /\ appIO \in Hosts
    /\ typed \in Seq(Byte) /\ Len(ttyR) <= BufR
    /\ \E i \in 0..CmdMax : buf[i] = "NUL"

\* What a byte that the reader takes does to the line: BS rubs out, a Ctrl-C and
\* a call throw it away, and what is too long is cut off.
edit(a, c) ==
    CASE c = "CR" -> [done |-> Append(a.done, a.line), line |-> <<>>]
      [] c = "BS" -> [a EXCEPT !.line = SubSeq(@, 1, Len(@) - 1)]
      [] c \in {"^C", "BACK"}  -> [a EXCEPT !.line = <<>>]
      [] c \in {"CTL", "data"} -> a
      [] OTHER -> [a EXCEPT !.line = SubSeq(Append(@, c), 1, Least(CmdMax, Len(@) + 1))]

\* The lines in the bytes t, and the unfinished one.
Edited(t) ==
    LET from[n \in 0..Len(t)] ==
          IF n = 0 THEN [done |-> <<>>, line |-> <<>>] ELSE edit(from[n - 1], t[n])
    IN  from[Len(t)]

Lines(t) == Edited(t).done

AllRun == ran \o (IF eol THEN <<cString(buf)>> ELSE <<>>) = Lines(taken)

\* Every line is run once, in its order, as it was typed and edited, and with
\* nothing of an earlier, longer one behind it.  Embedded this is so however
\* the host feeds the bytes; over a tty, if nothing comes between the end of a
\* line and its dispatch: the DTE waits, and no call is answered.
LinesAreRun == appIO \/ ~overtaken => AllRun

\* What modemu2k.1 says of a command line, that its end "is a carriage return
\* character": the line that is run is what was typed up to it.
CrEndsLine == calls = 0 => IsPrefix(ran, Lines(taken))

\* Bytes typed behind the end of a line are not lost: they are the next line,
\* until a call begins.  (Over a tty they are, see LinesAreRun.)
TypeAheadKept ==
    (appIO \/ ~overtaken) /\ calls = 0 /\ ~quitReq => typed = taken \o ttyR \o ttyIn

\* The last two input bytes of t are Ctrl-C, those that went to a call included.
EndsInPair(t) == \E i, j \in 1..Len(t) :
    /\ i < j /\ t[i] = "^C" /\ t[j] = "^C"
    /\ \A k \in (i + 1)..Len(t) : t[k] # "BACK" => k = j

\* The exception: the first of the two was typed before a call, the second after
\* it, and between them there is only what the call had.
ArmedBeforeCall(t) == \E i, j \in 1..Len(t) :
    /\ i < j /\ t[i] = "^C" /\ t[j] = "^C"
    /\ \E k \in (i + 1)..Len(t) : t[k] = "data"
    /\ \A k \in (i + 1)..Len(t) : t[k] \in {"data", "BACK"} \/ k = j

QuitLine == \E i \in (Len(ran) + 1)..Len(ran') : "q" \in Range(ran'[i])

\* What modemu2k.1 says of Ctrl-C: the second one only asks for the end of the
\* session "with no intervening keystroke. Any other input byte disarms the trigger."
QuitNeedsPair ==
    [][~quitReq /\ quitReq' => QuitLine \/ EndsInPair(taken')]_vars

\* What cmdReadLoop() makes of it: nothing else but AT%Q asks for the end of the
\* session, however the bytes are spread over reads, steps and host calls, except that
\* the bytes of a call do not disarm.
QuitIsAsked ==
    [][~quitReq /\ quitReq' =>
         QuitLine \/ EndsInPair(taken') \/ ArmedBeforeCall(taken')]_vars
=============================================================================
