-------------------------------- MODULE EscSeq --------------------------------
(***************************************************************************
 The +++ escape in real time: escSeqHandle() with the read times it goes by,
 the silence guard that onlinePollfds() and onlineIter() wait for, and what
 the end and the begin of a session reset.  Modem abstracts all of this to a
 detector that may see a +++ and to a guard that may run out.

 The DTE types in its own time; the modem reads in its own time, up to BufR
 bytes at once, and gives every byte of a read the time of the read.  In an
 ideal world (prompt) the loop runs as soon as poll() returns and the peer
 takes what is sent, so keys are read when they are typed; otherwise any
 delay and any stall of the peer is possible.  Embedded in a host (appIO) the
 bytes come through m2k_write_from_app(), which may be called several times
 between two steps.
 ***************************************************************************)
EXTENDS TimeVal, Sequences

CONSTANTS
    S12s,      \* the values the DTE gives register S12 (50ths of a second)
    BufR,      \* sizeof tty.bufR.buf
    Worlds,    \* the values of <<prompt, appIO>> that are looked at
    Start,     \* the time the clock starts with
    Horizon,   \* ... and the microseconds it may run for
    MaxTyped,  \* keys the DTE types
    MaxCalls   \* sessions

\* The clock counts from 1970, and S12 is at most 5.1 seconds.
ASSUME EscAssumption ==
    /\ S12s \subseteq Nat /\ BufR \in Nat \ {0} /\ Worlds \subseteq BOOLEAN \X BOOLEAN
    /\ Start \in Timeval /\ \A n \in S12s : Micros(Start) > n * 2 * UsecPerTen
    /\ Horizon \in Nat /\ MaxTyped \in Nat /\ MaxCalls \in Nat

VARIABLES
    prompt, appIO,
    now,      \* gettimeofday()
    ttyIn,    \* typed and not yet read or handed over
    online,   \* step.state = ONLINE, else CMD
    s12,      \* S12
    bufR,     \* tty.bufR: bytes read and not yet handled
    prevT,    \* tty.bufR.prevT: time of the read before the last
    newT,     \* tty.bufR.newT: time of the last read
    esc,      \* escSeq
    stop,     \* sockW.stop: the peer does not take what is sent
    wake,     \* when poll() gives up waiting: {} for no timeout, or {time}
    calls,    \* sessions begun
    count,    \* keys typed
    keys,     \* history: the last keys typed in this session, behind the last
              \* one before it (which is no + of this session), and when
    heard,    \* history: the last bytes handled in this session, with newT,
              \* prevT and the guard time as they were
    stale     \* history: the guard was armed before this session began

vars == <<prompt, appIO, now, ttyIn, online, s12, bufR, prevT, newT, esc, stop,
          wake, calls, count, keys, heard, stale>>

Char == {"+", "x"}     \* CHAR_ESC (S2) and any other byte

Escseq == [state : {"NORM", "P1", "P2", "P3"}, plus1T : Timeval,
           checkSilence : BOOLEAN, expireT : Timeval]

Heard == [c : Char, t : Timeval, before : Timeval, guard : Timeval]

Reader == [online : BOOLEAN, bufR : Seq(Char), prevT : Timeval, newT : Timeval,
           esc : Escseq, stop : BOOLEAN, heard : Seq(Heard), stale : BOOLEAN]

Now == [online |-> online, bufR |-> bufR, prevT |-> prevT, newT |-> newT, esc |-> esc,
        stop |-> stop, heard |-> heard, stale |-> stale]

LastOf(s, n) == IF Len(s) <= n THEN s ELSE SubSeq(s, Len(s) - n + 1, Len(s))
Least(a, b) == IF a < b THEN a ELSE b

-----------------------------------------------------------------------------
(* The detector. *)

guardTime == timevalSet10ms(s12 * 2)

timePassed(guard, t1, t2) == timevalCmp(t1, timevalAdd(guard, t2)) > 0

s12timePassed(t1, t2) == timePassed(guardTime, t1, t2)

\* Mutant: a byte after the +++ does not disarm the guard.
escSeqHandle_StaysArmed(e, c, new, prev) ==
    LET again == c = "+" /\ ~s12timePassed(new, e.plus1T)
        first(f) == IF c = "+" /\ s12timePassed(new, prev)
                    THEN [f EXCEPT !.state = "P1", !.plus1T = new] ELSE f
        drop == [e EXCEPT !.state = "NORM"]
    IN  CASE e.state = "NORM" -> first(e)
          [] e.state = "P1" -> IF again THEN [e EXCEPT !.state = "P2"] ELSE drop
          [] e.state = "P2" ->
                IF again THEN [e EXCEPT !.state = "P3", !.checkSilence = TRUE,
                                        !.expireT = timevalAdd(guardTime, new)]
                         ELSE drop
          [] e.state = "P3" -> first(drop)

\* One byte of a read at time new, the read before at time prev.
escSeqHandle(e, c, new, prev) ==
    LET again == c = "+" /\ ~s12timePassed(new, e.plus1T)
        first(f) == IF c = "+" /\ s12timePassed(new, prev)
                    THEN [f EXCEPT !.state = "P1", !.plus1T = new] ELSE f
        drop == [e EXCEPT !.state = "NORM"]
    IN  CASE e.state = "NORM" -> first(e)
          [] e.state = "P1" -> IF again THEN [e EXCEPT !.state = "P2"] ELSE drop
          [] e.state = "P2" ->
                IF again THEN [e EXCEPT !.state = "P3", !.checkSilence = TRUE,
                                        !.expireT = timevalAdd(guardTime, new)]
                         ELSE drop
          [] e.state = "P3" -> first([drop EXCEPT !.checkSilence = FALSE])

escSeqReset(e) == [e EXCEPT !.state = "NORM"]

ttyBufRReset(x) == [x EXCEPT !.bufR = <<>>, !.prevT = ZeroT]

\* ttyReadLoop() as far as the detector goes: k bytes are handled, the others
\* wait until the peer takes data again.
ttyReadLoop(x, k) ==
    LET turn[i \in 0..k] ==
            IF i = 0 THEN x.esc ELSE escSeqHandle(turn[i - 1], x.bufR[i], x.newT, x.prevT)
        e == turn[k]
        bytes == [i \in 1..k |-> [c |-> x.bufR[i], t |-> x.newT, before |-> x.prevT,
                                  guard |-> guardTime]]
    IN  [x EXCEPT !.esc = e,
                  !.bufR = SubSeq(x.bufR, k + 1, Len(x.bufR)),
                  !.heard = LastOf(x.heard \o bytes, 4),
                  !.stale = x.stale /\ e.checkSilence /\ e.state # "P3"]

\* read() or m2k_write_from_app(): s is behind what is left of the last one.
ttyBufRead(x, s) == [x EXCEPT !.bufR = @ \o s, !.prevT = x.newT, !.newT = now]

stepEnterCmd(x) ==
    [ttyBufRReset(x) EXCEPT !.online = FALSE, !.stop = FALSE, !.heard = <<>>,
                            !.stale = FALSE]

stepEnterOnline(x) ==
    [ttyBufRReset(x) EXCEPT !.online = TRUE, !.stop = FALSE, !.esc = escSeqReset(x.esc),
                            !.heard = <<>>, !.stale = x.esc.checkSilence]

\* The end of a step, and what onlinePollfds() then asks poll() for.
msLater(ms) ==
    timevalAdd(now, [sec |-> ms \div MsPerSec, usec |-> (ms % MsPerSec) * UsecPerMs])

\* Mutant: poll() is not told when the guard time runs out.
onlinePollfds_NoTimer(x) == {}

onlinePollfds(x) ==
    IF x.online /\ x.esc.checkSilence
    THEN {msLater(timevalRemainingMs(x.esc.expireT, now))} ELSE {}

Becomes(x) ==
    /\ online' = x.online /\ bufR' = x.bufR /\ prevT' = x.prevT /\ newT' = x.newT
    /\ esc' = x.esc /\ stop' = x.stop /\ heard' = x.heard /\ stale' = x.stale
    /\ wake' = onlinePollfds(x)
    /\ keys' = IF x.online THEN keys ELSE [i \in 1..Len(LastOf(keys, 1)) |->
                                            [c |-> "x", t |-> keys[Len(keys)].t]]
    /\ UNCHANGED <<prompt, appIO, now, count>>

-----------------------------------------------------------------------------
(* The steps of the modem. *)

TtyPolled == ~appIO /\ (online => ~stop /\ bufR = <<>>)

\* poll() has something to return for.
Ready ==
    \/ TtyPolled /\ ttyIn # <<>>
    \/ appIO /\ bufR # <<>> /\ ~stop
    \/ \E t \in wake : timevalCmp(now, t) >= 0

MayStep == prompt => Ready

guardOver == esc.checkSilence /\ timevalCmp(now, esc.expireT) >= 0

\* The bytes are handled as long as the peer takes what is sent for them.
Stalls(x, k) == \E s \in BOOLEAN :
    /\ k < Len(x.bufR) => s
    /\ prompt => ~s
    /\ Becomes([ttyReadLoop(x, k) EXCEPT !.stop = s])

EscapesBySilence ==
    /\ online /\ MayStep /\ guardOver
    /\ Becomes(stepEnterCmd([Now EXCEPT !.esc.checkSilence = FALSE]))
    /\ UNCHANGED <<ttyIn, s12, calls>>

\* m2k_escape() was called: served before the guard is looked at.
EscapesByRequest ==
    /\ online /\ ~prompt
    /\ Becomes(stepEnterCmd([Now EXCEPT !.esc.checkSilence = FALSE]))
    /\ UNCHANGED <<ttyIn, s12, calls>>

OnlineReads ==
    LET n == Least(BufR, Len(ttyIn))
        x == ttyBufRead(Now, SubSeq(ttyIn, 1, n))
    IN  /\ online /\ ~guardOver /\ TtyPolled /\ ttyIn # <<>>
        /\ ttyIn' = SubSeq(ttyIn, n + 1, Len(ttyIn))
        /\ \E k \in 1..n : Stalls(x, k)
        /\ UNCHANGED <<s12, calls>>

\* The peer takes data again, or the host has handed over more.
OnlineHandles ==
    /\ online /\ ~guardOver /\ bufR # <<>>
    /\ \E k \in 0..Len(bufR) : Stalls(Now, k)
    /\ UNCHANGED <<ttyIn, s12, calls>>

\* A step for another reason: the timeout was rounded down, the peer sent data.
OnlineIdles ==
    /\ online /\ ~guardOver /\ MayStep /\ (TtyPolled => ttyIn = <<>>)
    /\ Becomes(Now)
    /\ UNCHANGED <<ttyIn, s12, calls>>

m2k_write_from_app(n) ==
    LET take == Least(Least(n, Len(ttyIn)), BufR - Len(bufR))
        x == ttyBufRead(Now, SubSeq(ttyIn, 1, take))
    IN  /\ appIO /\ ttyIn # <<>> /\ Len(bufR) < BufR
        /\ ttyIn' = SubSeq(ttyIn, take + 1, Len(ttyIn))
        /\ bufR' = x.bufR /\ prevT' = x.prevT /\ newT' = x.newT
        /\ UNCHANGED <<prompt, appIO, now, online, s12, esc, stop, wake, calls, count,
                       keys, heard, stale>>

\* cmdIter(): what is read in command mode is not for the detector, but counts
\* as the read before the next one.
CmdReads ==
    /\ ~online
    /\ \/ /\ ~appIO /\ ttyIn # <<>>
          /\ ttyIn' = SubSeq(ttyIn, Least(BufR, Len(ttyIn)) + 1, Len(ttyIn))
          /\ Becomes([ttyBufRead(Now, <<>>) EXCEPT !.bufR = <<>>])
       \/ /\ appIO /\ bufR # <<>>
          /\ Becomes([Now EXCEPT !.bufR = <<>>])
          /\ UNCHANGED ttyIn
    /\ UNCHANGED <<s12, calls>>

\* ATS12=n, or Z, typed in command mode
AtSets ==
    /\ ~online /\ s12' \in S12s
    /\ Becomes(Now)
    /\ UNCHANGED <<ttyIn, calls>>

\* The same from the host, between two steps of any mode.
m2k_atcmd ==
    /\ ~prompt /\ s12' \in S12s
    /\ UNCHANGED <<prompt, appIO, now, ttyIn, online, bufR, prevT, newT, esc, stop, wake,
                   calls, count, keys, heard, stale>>

\* ATD, ATA or ATO
Returns ==
    /\ ~online /\ calls < MaxCalls /\ (prompt => ttyIn = <<>>)
    /\ calls' = calls + 1
    /\ Becomes(stepEnterOnline(Now))
    /\ UNCHANGED <<ttyIn, s12>>

\* The carrier is lost.
Loses ==
    /\ online
    /\ Becomes(stepEnterCmd(Now))
    /\ UNCHANGED <<ttyIn, s12, calls>>

-----------------------------------------------------------------------------
(* The world. *)

DteTypes(c) ==
    /\ count < MaxTyped /\ count' = count + 1
    /\ prompt => ttyIn = <<>>
    /\ ttyIn' = Append(ttyIn, c)
    /\ keys' = CASE ~prompt -> <<>>
                 [] prompt /\ online -> LastOf(Append(keys, [c |-> c, t |-> now]), 4)
                 [] prompt /\ ~online -> <<[c |-> "x", t |-> now]>>
    /\ UNCHANGED <<prompt, appIO, now, online, s12, bufR, prevT, newT, esc, stop, wake,
                   calls, heard, stale>>

\* One microsecond, once the modem has nothing to do where it is prompt.
Tick ==
    /\ prompt => ~Ready
    /\ Micros(now) < Micros(Start) + Horizon
    /\ now' = timevalAdd(now, [sec |-> 0, usec |-> 1])
    /\ UNCHANGED <<prompt, appIO, ttyIn, online, s12, bufR, prevT, newT, esc, stop, wake,
                   calls, count, keys, heard, stale>>

Init ==
    /\ \E w \in Worlds : prompt = w[1] /\ appIO = w[2]
    /\ now = Start /\ ttyIn = <<>> /\ online = FALSE /\ s12 \in S12s /\ bufR = <<>>
    /\ prevT = ZeroT /\ newT = ZeroT /\ stop = FALSE /\ wake = {}
    /\ esc = [state |-> "NORM", plus1T |-> ZeroT, checkSilence |-> FALSE, expireT |-> ZeroT]
    /\ calls = 0 /\ count = 0 /\ keys = <<>> /\ heard = <<>> /\ stale = FALSE

Next ==
    \/ EscapesBySilence \/ EscapesByRequest \/ OnlineReads \/ OnlineHandles \/ OnlineIdles
    \/ CmdReads \/ AtSets \/ m2k_atcmd \/ Returns \/ Loses
    \/ \E n \in 1..BufR : m2k_write_from_app(n)
    \/ \E c \in Char : DteTypes(c)
    \/ Tick

Spec == Init /\ [][Next]_vars

-----------------------------------------------------------------------------
(* Properties. *)

\* Every time the module keeps is a normalised timeval: the single carry of
\* timevalAdd() is always enough.
TypeOK ==
    /\ Now \in Reader /\ now \in Timeval
    /\ ttyIn \in Seq(Char) /\ Len(bufR) <= BufR
    /\ \A t \in wake : t \in Timeval

\* The bytes of h end in an escape sequence as the detector sees one: a silence
\* between the reads before it, the three within the guard time, by the S12 of the
\* moment.  The byte in front of the three came as long before them, or else in the
\* same read as the first of them, which the detector cannot tell from silence.
ReadAsEscape(h) ==
    LET b(i) == h[Len(h) - 3 + i]
    IN  /\ Len(h) >= 3 /\ \A i \in 1..3 : b(i).c = "+"
        /\ timePassed(b(1).guard, b(1).t, b(1).before)
        /\ Len(h) > 3 => b(0).t = b(1).t \/ timePassed(b(1).guard, b(1).t, b(0).t)
        /\ \A i \in 2..3 : ~timePassed(b(i).guard, b(i).t, b(1).t)

\* The guard only ends a session in which the last three bytes the modem has handled
\* are read as an escape sequence, and in which it has handled nothing for the guard
\* time after them, whatever the reads, the stalls, the delays and the changes of
\* S12 (unless the guard is one of the session before, which Modem!EscapeWasAsked
\* is about).
EscapeIsEarned ==
    [][EscapesBySilence /\ ~stale =>
         LET last == heard[Len(heard)]
         IN  /\ ReadAsEscape(heard)
             /\ timevalCmp(now, timevalAdd(last.guard, last.t)) >= 0]_vars

\* What modemu2k.1 says of the same step: "wait +++ wait", where wait is "a period of
\* time longer than the guard time without hitting any key".  The byte in front of
\* the three, if the session had one, was read longer than that before them.
EscapeHasWait ==
    [][EscapesBySilence /\ ~stale /\ Len(heard) > 3 =>
         timePassed(heard[2].guard, heard[2].t, heard[1].t)]_vars

\* The last keys are what modemu2k.1 asks for: "wait +++ wait" in one session,
\* and the second wait is over for at least the granularity of poll().
TypedEscape ==
    LET n == Len(keys)
        k(i) == keys[n - 3 + i]
        end == timevalAdd(k(3).t, guardTime)
    IN  /\ n >= 3
        /\ \A i \in 1..3 : k(i).c = "+"
        /\ n > 3 => s12timePassed(k(1).t, k(0).t)
        /\ ~s12timePassed(k(3).t, k(1).t)
        /\ timevalCmp(now, timevalAdd(end, [sec |-> 0, usec |-> UsecPerMs])) > 0

\* Over a tty, with a prompt loop, an escape sequence that is typed as the
\* manual says is never missed: when the modem has nothing left to do it is in
\* command mode.  (Unless the key before it was another +.)
NoEscapeMissed ==
    prompt /\ ~appIO /\ online /\ ~Ready /\ TypedEscape =>
        Len(keys) > 3 /\ keys[1].c = "+"
=============================================================================
