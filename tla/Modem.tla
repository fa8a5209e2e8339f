-------------------------------- MODULE Modem --------------------------------
(***************************************************************************)
(* Call control of the modem: m2k_step() with the command, dial, answer    *)
(* and online handlers it runs, and the host calls that may come between   *)
(* two steps (m2k_hangup, m2k_escape, m2k_set_dtr, m2k_atcmd).             *)
(*                                                                         *)
(* A context is used by one thread, so a step and a host call are atomic.  *)
(* What moves between them is the rest of the world: the peer that answers *)
(* or closes, callers that arrive and give up, the clock, and the DTE.     *)
(*                                                                         *)
(* The handlers call one another in sequence, so they are written as       *)
(* operators on a record x that holds a value for every variable below;    *)
(* `Now' is the current one and `Becomes(x)' makes x the next one.  A      *)
(* handler whose outcome the world decides returns the set of outcomes.    *)
(***************************************************************************)
EXTENDS Integers, FiniteSets

CONSTANTS
    FD,          \* descriptors the kernel can hand to this context
    NoFd,        \* "no socket": the values <= 0 of sock.conn.fd
    MaxAddr,     \* longest list getaddrinfo() returns
    RingMax,     \* where S1 and the ring count saturate (255 in the code)
    MaxCallers,  \* longest accept queue of the answer listener
    Lines,       \* the command lines the DTE and the host may send
    HostCalls,   \* the host calls that are made
    AppIO,       \* m2k_setup_app_io() was called: there is no tty descriptor
    Listening    \* m2k_setup_answer() was called: answer.fd # -1

VARIABLES
    state,    \* step.state
    fd,       \* sock.conn.fd
    alive,    \* sock.conn.alive
    dial,     \* dial.result # NULL: the address list is held
    rp,       \* addresses from sock.conn.rp to the end of the list
    late,     \* now >= the deadline of the dial attempt or of the answer wait
              \* (dial.deadline, answer.deadline), where one is running
    eol,      \* step.cmdbuf.eol: a complete line waits for dispatch
    s0,       \* S0, rings before auto-answer; 0 is off
    s1,       \* S1, the ring counter
    s7,       \* S7: 0, or 1 for any positive number of seconds
    rings,    \* answer.rings
    ringDue,  \* now >= answer.ring_next
    escReq,   \* step.escape_req
    quitReq,  \* step.quit_req
    dtr,      \* ctrl.dtr
    esc,      \* escSeq.state: "P3" after a full +++, "NORM" stands for the others
    guard,    \* escSeq.checkSilence and expireT: "off", "armed" or "past"
    sockW,    \* the socket write buffer has data
    ttyW,     \* the tty write buffer has data
    stat,     \* the last result code written to the DTE
    open,     \* kernel: descriptors of this context that are open
    link,     \* network: what has become of the connection on fd
    callers,  \* kernel: callers in the accept queue of the listener
    ttyOpen   \* the DTE still holds its side of the tty

lineVars == <<s0, s1, s7, rings, ringDue>>
vars == <<state, fd, alive, dial, rp, late, eol, lineVars, escReq, quitReq, dtr,
          esc, guard, sockW, ttyW, stat, open, link, callers, ttyOpen>>

-----------------------------------------------------------------------------
States   == {"CMD", "DIAL", "ANSWER", "ONLINE", "DONE"}
SRegs    == 0..RingMax
Keep     == -1
Cmdstats == {"OK", "ERROR", "NOAT", "ATD", "ATO", "ATA"}
Results  == {"none", "OK", "ERROR", "CONNECT", "NO CARRIER", "RING"}
Links    == {"none", "pending", "up", "refused", "closed"}
Calls    == {"hangup", "escape", "dtr", "atcmd"}

(* What one command line does to the state of this module: the status the
   lexer returns, whether an H or a Z was in it, whether a %Q was, and the
   registers it leaves behind (by S assignments, or by Z, which restores the
   saved ones).  Keep is "not written". *)
Line == [stat : Cmdstats, hang : BOOLEAN, quit : BOOLEAN,
         s0 : SRegs \cup {Keep}, s1 : SRegs \cup {Keep}, s7 : {0, 1, Keep}]

ASSUME FdAssumption == NoFd \notin FD
ASSUME BoundAssumption ==
    /\ MaxAddr \in Nat \ {0}
    /\ RingMax \in Nat \ {0}
    /\ MaxCallers \in Nat \ {0}
ASSUME UseAssumption ==
    /\ Lines \subseteq Line
    /\ HostCalls \subseteq Calls
    /\ AppIO \in BOOLEAN
    /\ Listening \in BOOLEAN

Context ==
    [state : States, fd : FD \cup {NoFd}, alive : BOOLEAN, dial : BOOLEAN,
     rp : 0..MaxAddr, late : BOOLEAN, eol : BOOLEAN, s0 : SRegs, s1 : SRegs,
     s7 : {0, 1}, rings : SRegs, ringDue : BOOLEAN, escReq : BOOLEAN,
     quitReq : BOOLEAN, dtr : BOOLEAN, esc : {"NORM", "P3"},
     guard : {"off", "armed", "past"}, sockW : BOOLEAN, ttyW : BOOLEAN,
     stat : Results, open : SUBSET FD, link : Links, callers : 0..MaxCallers,
     ttyOpen : BOOLEAN]

Now ==
    [state |-> state, fd |-> fd, alive |-> alive, dial |-> dial, rp |-> rp,
     late |-> late, eol |-> eol, s0 |-> s0, s1 |-> s1, s7 |-> s7,
     rings |-> rings, ringDue |-> ringDue, escReq |-> escReq,
     quitReq |-> quitReq, dtr |-> dtr, esc |-> esc, guard |-> guard,
     sockW |-> sockW, ttyW |-> ttyW, stat |-> stat, open |-> open,
     link |-> link, callers |-> callers, ttyOpen |-> ttyOpen]

Becomes(x) ==
    /\ state' = x.state /\ fd' = x.fd /\ alive' = x.alive /\ dial' = x.dial
    /\ rp' = x.rp /\ late' = x.late /\ eol' = x.eol
    /\ s0' = x.s0 /\ s1' = x.s1 /\ s7' = x.s7
    /\ rings' = x.rings /\ ringDue' = x.ringDue
    /\ escReq' = x.escReq /\ quitReq' = x.quitReq /\ dtr' = x.dtr
    /\ esc' = x.esc /\ guard' = x.guard
    /\ sockW' = x.sockW /\ ttyW' = x.ttyW /\ stat' = x.stat
    /\ open' = x.open /\ link' = x.link /\ callers' = x.callers
    /\ ttyOpen' = x.ttyOpen

TypeOK == Now \in Context

-----------------------------------------------------------------------------
(* The socket of the call. *)

\* Forgets the socket: the descriptor is not closed.
sockInit(x) == [x EXCEPT !.fd = NoFd, !.alive = FALSE, !.rp = 0, !.link = "none"]

\* Mutant: alive is not cleared.
sockClose_KeepsCarrier(x) ==
    IF x.fd = NoFd THEN x
    ELSE [x EXCEPT !.open = @ \ {x.fd}, !.fd = NoFd, !.link = "none"]

sockClose(x) ==
    IF x.fd = NoFd THEN x
    ELSE [x EXCEPT !.open = @ \ {x.fd}, !.fd = NoFd, !.alive = FALSE,
                   !.link = "none"]

sockShutdown(x) == sockClose(x)

putTtyCmdstat(x, r) == [x EXCEPT !.stat = r, !.ttyW = TRUE]

-----------------------------------------------------------------------------
(* Entering a state. *)

\* Mutant: the socket write buffer is not reset.
stepEnterCmd_KeepsSockW(x) ==
    [x EXCEPT !.eol = FALSE, !.late = FALSE, !.state = "CMD"]

\* No deadline runs in CMD and ONLINE, so `late' starts afresh.
stepEnterCmd(x) == [x EXCEPT !.eol = FALSE, !.sockW = FALSE, !.late = FALSE,
                             !.state = "CMD"]

\* Mutant: the ring count is not reset.
stepEnterOnline_KeepsRings(x, reqs) ==
    [putTtyCmdstat(x, "CONNECT") EXCEPT
        !.sockW = reqs, !.esc = "NORM", !.late = FALSE, !.state = "ONLINE"]

\* reqs: the option requests are due, and go into the socket write buffer.
stepEnterOnline(x, reqs) ==
    [putTtyCmdstat(x, "CONNECT") EXCEPT
        !.sockW = reqs, !.esc = "NORM", !.rings = 0, !.late = FALSE,
        !.state = "ONLINE"]

stepEnterDial(x) == [x EXCEPT !.rings = 0, !.eol = FALSE, !.state = "DIAL"]

stepEnterAnswer(x) == [x EXCEPT !.eol = FALSE, !.late = FALSE, !.state = "ANSWER"]

\* Mutant: the result code is not written.
noCarrier_Silent(x) == stepEnterCmd(x)

noCarrier(x) == stepEnterCmd(putTtyCmdstat(x, "NO CARRIER"))

-----------------------------------------------------------------------------
(* Dialing.  The addresses of the list are tried in order; those that fail
   outright (no descriptor, connection refused at once) are passed over until
   one connects or is in progress. *)

\* The attempt on the address with n - 1 others behind it got this far.
dialTryCurrent(x, n, f, how) ==
    [x EXCEPT !.fd = f, !.open = @ \cup {f}, !.rp = n, !.link = how,
              !.alive = (how = "up"),
              !.late = IF how = "pending" THEN x.s7 = 0 ELSE @]

\* Trying the last n addresses of the list, with no socket at hand.
dialRest(x, n) ==
    {dialTryCurrent(x, k, f, how) :
        k \in 1..n, f \in FD \ x.open, how \in {"up", "pending"}}
    \cup {[x EXCEPT !.rp = 0, !.dial = FALSE]}

\* The name does not resolve, or the list is tried from its head.
m2k_sockDialStart(x) ==
    {[x EXCEPT !.dial = FALSE]}
    \cup dialRest(sockInit([x EXCEPT !.dial = TRUE]), MaxAddr)

\* There is an address to go on from.
Dialing(x) == x.dial /\ x.rp > 0

\* Mutant: the socket of the failed attempt is not closed.
m2k_sockDialProgress_NoClose(x) ==
    CASE ~Dialing(x)                  -> {x}
      [] ~x.late /\ x.link = "up"      -> {[x EXCEPT !.alive = TRUE, !.dial = FALSE]}
      [] ~x.late /\ x.link = "pending" -> {x}
      [] OTHER                         -> dialRest(x, x.rp - 1)

\* Mutant: the same address is tried again.
m2k_sockDialProgress_Retries(x) ==
    CASE ~Dialing(x)                  -> {x}
      [] ~x.late /\ x.link = "up"      -> {[x EXCEPT !.alive = TRUE, !.dial = FALSE]}
      [] ~x.late /\ x.link = "pending" -> {x}
      [] OTHER                         -> dialRest(sockClose(x), x.rp)

\* connect() again: done, still in progress, or an error; EISCONN is "done"
\* too when the peer has closed meanwhile, a reset is an error.
m2k_sockDialProgress(x) ==
    LET connected == [x EXCEPT !.alive = TRUE, !.dial = FALSE]
        given_up  == dialRest(sockClose(x), x.rp - 1)
    IN  CASE ~Dialing(x)          -> {x}
          [] x.late               -> given_up
          [] x.link = "up"        -> {connected}
          [] x.link = "closed"    -> {connected} \cup given_up
          [] x.link = "pending"   -> {x}
          [] OTHER                -> given_up

m2k_sockDialAbort(x) == sockShutdown([x EXCEPT !.dial = FALSE])

-----------------------------------------------------------------------------
(* Answering. *)

answerPending(x) == Listening /\ ~x.alive /\ x.callers > 0

\* accept() may fail (a caller that was reset, no descriptor left).
answerAccept(x) ==
    {[sockInit(x) EXCEPT !.fd = f, !.alive = TRUE, !.link = "up", !.s1 = 0,
                         !.open = @ \cup {f}, !.callers = @ - 1] :
        f \in FD \ x.open}
    \cup {x}

\* Mutant: the counters do not saturate.
Ring_Unbounded(x) ==
    [putTtyCmdstat(x, "RING") EXCEPT !.s1 = @ + 1, !.rings = @ + 1, !.ringDue = FALSE]

Ring(x) ==
    [putTtyCmdstat(x, "RING") EXCEPT
        !.s1 = IF @ < RingMax THEN @ + 1 ELSE @,
        !.rings = IF @ < RingMax THEN @ + 1 ELSE @,
        !.ringDue = FALSE]

cmdRingCheck(x) ==
    CASE ~Listening \/ x.alive      -> {x}
      [] ~answerPending(x)          -> {[x EXCEPT !.s1 = 0, !.rings = 0]}
      [] x.s1 # 0 /\ ~x.ringDue     -> {x}
      [] OTHER -> LET r == Ring(x) IN
                  IF r.s0 > 0 /\ r.s1 >= r.s0 THEN answerAccept(r) ELSE {r}

-----------------------------------------------------------------------------
(* Command lines. *)

written(old, v) == IF v = Keep THEN old ELSE v

cmdLex(x, ln) ==
    LET y == IF (ln.hang /\ x.alive) \/ ln.quit THEN sockClose(x) ELSE x
    IN  [y EXCEPT !.quitReq = @ \/ ln.quit, !.s0 = written(@, ln.s0),
                  !.s1 = written(@, ln.s1), !.s7 = written(@, ln.s7)]

\* Mutant: ATA does not look at the carrier.
answerCommand_Blind(x, reqs) ==
    IF ~Listening THEN {putTtyCmdstat(x, "ERROR")}
    ELSE IF x.callers > 0
    THEN {IF y.alive THEN stepEnterOnline(y, reqs)
          ELSE putTtyCmdstat(y, "NO CARRIER") : y \in answerAccept(x)}
    ELSE {stepEnterAnswer(x)}

\* The three commands that change the state of the modem, run by m2k_step()
\* once the line that holds them has been dispatched.
dialCommand(x, reqs) ==
    IF x.alive THEN {putTtyCmdstat(x, "ERROR")}
    ELSE {IF y.alive THEN stepEnterOnline(y, reqs)
          ELSE IF y.dial THEN stepEnterDial(y)
          ELSE putTtyCmdstat(y, "NO CARRIER") : y \in m2k_sockDialStart(x)}

\* Mutant: ATO returns without a word.
onlineCommand_Silent(x, reqs) ==
    IF x.alive THEN {[stepEnterOnline(x, reqs) EXCEPT !.stat = x.stat]}
    ELSE {putTtyCmdstat(x, "NO CARRIER")}

onlineCommand(x, reqs) ==
    IF x.alive THEN {stepEnterOnline(x, reqs)} ELSE {putTtyCmdstat(x, "NO CARRIER")}

answerCommand(x, reqs) ==
    CASE x.alive \/ ~Listening -> {putTtyCmdstat(x, "ERROR")}
      [] answerPending(x) ->
            {IF y.alive THEN stepEnterOnline(y, reqs)
             ELSE putTtyCmdstat(y, "NO CARRIER") : y \in answerAccept(x)}
      [] OTHER -> IF x.s7 = 0 THEN {putTtyCmdstat(x, "NO CARRIER")}
                  ELSE {stepEnterAnswer(x)}

\* cmdDispatchIfReady() and what m2k_step() does with the status it returns.
dispatch(x, ln, reqs) ==
    LET z == cmdLex([x EXCEPT !.eol = FALSE], ln) IN
    CASE ln.stat = "ATD"  -> dialCommand(z, reqs)
      [] ln.stat = "ATO"  -> onlineCommand(z, reqs)
      [] ln.stat = "ATA"  -> answerCommand(z, reqs)
      [] ln.stat = "NOAT" -> {z}
      [] OTHER            -> {putTtyCmdstat(z, ln.stat)}

\* The test for quit_req: it waits until everything written has been drained.
quitCheck(x) == IF x.quitReq /\ ~x.ttyW THEN [x EXCEPT !.state = "DONE"] ELSE x

\* Mutant: the dial in progress is not given up, only its socket.
m2k_hangup_NoAbort(x) ==
    IF x.state = "ANSWER" THEN noCarrier(x) ELSE sockShutdown(x)

m2k_hangup(x) ==
    CASE x.state = "DIAL"   -> noCarrier(m2k_sockDialAbort(x))
      [] x.state = "ANSWER" -> noCarrier(x)
      [] OTHER              -> sockShutdown(x)

-----------------------------------------------------------------------------
(* m2k_step() in CMD.  Every call starts with the ring check; when that has
   answered, the rest of the step is skipped.  A step of the code that
   dispatches a line and goes on reading is two steps here. *)

CmdAnswers ==
    /\ state = "CMD" /\ ~alive
    /\ \E y \in cmdRingCheck(Now), reqs \in BOOLEAN :
          y.alive /\ Becomes(stepEnterOnline(y, reqs))

RungNoCall == {y \in cmdRingCheck(Now) : y.alive = alive}

\* Nothing to read; what is buffered for the tty may or may not go out.
CmdIdle ==
    /\ state = "CMD"
    /\ \E y \in RungNoCall :
          \/ Becomes(quitCheck(y))
          \/ ~AppIO /\ ~eol /\ Becomes(quitCheck([y EXCEPT !.ttyW = FALSE]))

\* cmdReadLoop() over a tty: part of a line, or the end of one, which are echoed
\* into the tty write buffer.  The first Ctrl-C, which is not, drops what there is of
\* a line, even one that is complete; the second one asks to quit.
CmdReads ==
    /\ state = "CMD" /\ ~AppIO /\ ttyOpen
    /\ \E y \in RungNoCall :
          \/ \E e \in {eol, TRUE} : Becomes([y EXCEPT !.eol = e, !.ttyW = TRUE])
          \/ \E w \in {y.ttyW, TRUE}, q \in {y.quitReq, TRUE} :
                Becomes(quitCheck([y EXCEPT !.eol = FALSE, !.ttyW = w, !.quitReq = q]))

\* A complete line is dispatched once the tty has taken some of the echo.
CmdDispatches(ln) ==
    /\ state = "CMD" /\ ~AppIO /\ eol
    /\ \E y \in RungNoCall, w \in BOOLEAN, reqs \in BOOLEAN :
       y.ttyW /\ \E z \in dispatch([y EXCEPT !.ttyW = w], ln, reqs) : Becomes(z)

\* Mutant: the end of the tty closes the call but not the session.
CmdHangsUp_Stays ==
    /\ state = "CMD" /\ ~AppIO /\ ~ttyOpen
    /\ \E y \in RungNoCall : Becomes(sockClose(y))

\* The other side of the tty is gone: read() says so and the session is over.
CmdHangsUp ==
    /\ state = "CMD" /\ ~AppIO /\ ~ttyOpen
    /\ \E y \in RungNoCall : Becomes([sockClose(y) EXCEPT !.state = "DONE"])

\* Embedded: the quit test comes before the bytes the host has written are
\* read, and a line they complete is dispatched at once.
appReads == state = "CMD" /\ AppIO /\ ~(quitReq /\ ~ttyW)

CmdAppReads ==
    /\ appReads
    /\ \E y \in RungNoCall :
          \/ Becomes([y EXCEPT !.ttyW = TRUE])
          \/ Becomes([y EXCEPT !.quitReq = TRUE])

CmdAppLine(ln) ==
    /\ appReads
    /\ \E y \in RungNoCall, reqs \in BOOLEAN :
          \E z \in dispatch([y EXCEPT !.ttyW = TRUE], ln, reqs) : Becomes(z)

-----------------------------------------------------------------------------
(* m2k_step() in DIAL and in ANSWER. *)

\* What a step does is decided by what poll() saw before it, so a step may
\* still go by a tty that has closed since, or by a clock that has moved on.

\* A byte other than CR, LF and NUL, or the end of the tty, cancels the dial.
DialCancels ==
    /\ state = "DIAL" /\ ~AppIO
    /\ Becomes(noCarrier(m2k_sockDialAbort(Now)))

\* Mutant: a dial that connected is only noticed, not entered.
DialSteps_StaysInDial ==
    /\ state = "DIAL"
    /\ \E y \in m2k_sockDialProgress(Now) :
          Becomes(IF y.alive \/ Dialing(y) THEN y ELSE noCarrier(y))

DialSteps ==
    /\ state = "DIAL"
    /\ \E y \in m2k_sockDialProgress(Now), reqs \in BOOLEAN :
          Becomes(IF y.alive THEN stepEnterOnline(y, reqs)
                  ELSE IF Dialing(y) THEN y
                  ELSE noCarrier(y))

AnswerCancels ==
    /\ state = "ANSWER" /\ ~AppIO
    /\ Becomes(noCarrier(Now))

\* Mutant: a failed accept() is not told from a good one.
AnswerAccepts_Blind ==
    /\ state = "ANSWER" /\ callers > 0
    /\ \E y \in answerAccept(Now), reqs \in BOOLEAN : Becomes(stepEnterOnline(y, reqs))

AnswerAccepts ==
    /\ state = "ANSWER" /\ callers > 0
    /\ \E y \in answerAccept(Now), reqs \in BOOLEAN :
          Becomes(IF y.alive THEN stepEnterOnline(y, reqs) ELSE noCarrier(y))

\* A caller that arrives after poll() returned does not stop the timeout.
AnswerTimesOut ==
    /\ state = "ANSWER" /\ late
    /\ Becomes(noCarrier(Now))

-----------------------------------------------------------------------------
(* m2k_step() in ONLINE. *)

OnlineEscapes ==
    /\ state = "ONLINE" /\ (escReq \/ guard = "past")
    /\ Becomes(stepEnterCmd(putTtyCmdstat(
          [Now EXCEPT !.escReq = FALSE, !.guard = "off"], "OK")))

\* What the detector makes of one read from the DTE: nothing read or nothing
\* of a +++; a whole +++ at its end; a whole +++ and more behind it.
escSeqHandle(x) ==
    {x, [x EXCEPT !.esc = "P3", !.guard = "armed"],
     [x EXCEPT !.esc = "NORM", !.guard = "off"]}
    \cup IF x.esc = "P3" THEN {} ELSE {[x EXCEPT !.esc = "NORM"]}

onlineIO == state = "ONLINE" /\ ~escReq /\ guard # "past"

OnlineRelays ==
    /\ onlineIO /\ alive
    /\ \E y \in escSeqHandle(Now), sw \in BOOLEAN, tw \in BOOLEAN :
          Becomes([y EXCEPT !.sockW = sw, !.ttyW = tw])

\* Mutant: the loss is not reported.
OnlineLoses_Silent ==
    /\ onlineIO
    /\ \E y \in escSeqHandle(Now) : Becomes(stepEnterCmd(sockShutdown(y)))

\* The peer closed, a send failed, an option the modem must have was refused,
\* or the socket is gone since the last step.
OnlineLoses ==
    /\ onlineIO
    /\ \E y \in escSeqHandle(Now) : Becomes(noCarrier(sockShutdown(y)))

OnlineHangsUp ==
    /\ onlineIO /\ ~AppIO /\ ~ttyOpen
    /\ Becomes(noCarrier(sockShutdown(sockClose(Now))))

\* A host that does not look at m2k_run_done() may go on stepping.
DoneStep == state = "DONE" /\ UNCHANGED vars

-----------------------------------------------------------------------------
(* Host calls, between two steps. *)

Hangup == "hangup" \in HostCalls /\ Becomes(m2k_hangup(Now))

\* Mutant: the request is taken in any state.
Escape_Anywhere ==
    /\ "escape" \in HostCalls
    /\ Becomes([Now EXCEPT !.escReq = TRUE])

Escape ==
    /\ "escape" \in HostCalls
    /\ Becomes([Now EXCEPT !.escReq = @ \/ state = "ONLINE"])

SetDtr(on) ==
    /\ "dtr" \in HostCalls
    /\ LET x == [Now EXCEPT !.dtr = on]
       IN  Becomes(IF dtr /\ ~on /\ alive THEN m2k_hangup(x) ELSE x)

\* ATD, ATO and ATA are refused here, after the rest of the line has acted.
Atcmd(ln) == "atcmd" \in HostCalls /\ Becomes(cmdLex(Now, ln))

ReadToApp == AppIO /\ ttyW /\ Becomes([Now EXCEPT !.ttyW = FALSE])

-----------------------------------------------------------------------------
(* The rest of the world. *)

ctxVars == <<state, fd, alive, dial, rp, eol, s0, s1, s7, rings, escReq, quitReq,
             dtr, esc, sockW, ttyW, stat, open>>

PeerResponds ==
    /\ link = "pending" /\ link' \in {"up", "refused"}
    /\ UNCHANGED <<ctxVars, late, ringDue, guard, callers, ttyOpen>>

PeerCloses ==
    /\ link = "up" /\ link' = "closed"
    /\ UNCHANGED <<ctxVars, late, ringDue, guard, callers, ttyOpen>>

CallerArrives ==
    /\ Listening /\ callers < MaxCallers /\ callers' = callers + 1
    /\ UNCHANGED <<ctxVars, late, ringDue, guard, link, ttyOpen>>

CallerLeaves ==
    /\ callers > 0 /\ callers' = callers - 1
    /\ UNCHANGED <<ctxVars, late, ringDue, guard, link, ttyOpen>>

DeadlinePasses ==
    /\ state \in {"DIAL", "ANSWER"} /\ ~late /\ late' = TRUE
    /\ UNCHANGED <<ctxVars, ringDue, guard, link, callers, ttyOpen>>

RingDelayPasses ==
    /\ ~ringDue /\ ringDue' = TRUE
    /\ UNCHANGED <<ctxVars, late, guard, link, callers, ttyOpen>>

GuardTimePasses ==
    /\ guard = "armed" /\ guard' = "past"
    /\ UNCHANGED <<ctxVars, late, ringDue, link, callers, ttyOpen>>

TtyCloses ==
    /\ ~AppIO /\ ttyOpen /\ ttyOpen' = FALSE
    /\ UNCHANGED <<ctxVars, late, ringDue, guard, link, callers>>

-----------------------------------------------------------------------------
Init ==
    /\ state = "CMD" /\ fd = NoFd /\ alive = FALSE /\ dial = FALSE /\ rp = 0
    /\ late = FALSE /\ eol = FALSE
    /\ s0 \in SRegs /\ s1 = 0 /\ s7 = 1 /\ rings = 0 /\ ringDue = TRUE
    /\ escReq = FALSE /\ quitReq = FALSE /\ dtr = TRUE
    /\ esc = "NORM" /\ guard = "off" /\ sockW = FALSE /\ ttyW = FALSE
    /\ stat = "none" /\ open = {} /\ link = "none" /\ callers = 0
    /\ ttyOpen = ~AppIO

CmdStep    == CmdAnswers \/ CmdIdle \/ CmdReads \/ CmdHangsUp \/ CmdAppReads
              \/ \E ln \in Lines : CmdDispatches(ln) \/ CmdAppLine(ln)
DialStep   == DialCancels \/ DialSteps
AnswerStep == AnswerCancels \/ AnswerAccepts \/ AnswerTimesOut
OnlineStep == OnlineEscapes \/ OnlineRelays \/ OnlineLoses \/ OnlineHangsUp

m2k_step == CmdStep \/ DialStep \/ AnswerStep \/ OnlineStep \/ DoneStep

HostCall == Hangup \/ Escape \/ (\E on \in BOOLEAN : SetDtr(on))
            \/ (\E ln \in Lines : Atcmd(ln)) \/ ReadToApp

World == PeerResponds \/ PeerCloses \/ CallerArrives \/ CallerLeaves
         \/ DeadlinePasses \/ RingDelayPasses \/ GuardTimePasses \/ TtyCloses

Next == m2k_step \/ HostCall \/ World

Spec == Init /\ [][Next]_vars

(* The host's loop steps again whenever poll() returns, and poll() returns
   when a descriptor it watches is ready or when the timeout m2k_get_pollfds()
   asked for is over.  So a step that has something to do is taken, and time
   goes on; nothing is assumed of the peer, the callers, the DTE or the host. *)
Fairness ==
    /\ WF_vars(DeadlinePasses)
    /\ WF_vars(DialSteps) /\ WF_vars(DialCancels /\ ~ttyOpen)
    /\ WF_vars(AnswerAccepts \/ AnswerTimesOut) /\ WF_vars(AnswerCancels /\ ~ttyOpen)
    /\ WF_vars(CmdHangsUp) /\ WF_vars(OnlineHangsUp)
    /\ WF_vars(OnlineEscapes /\ guard = "past")

FairSpec == Spec /\ Fairness

-----------------------------------------------------------------------------
(* Properties. *)

\* Every descriptor the kernel holds for the modem is the one sock.conn.fd
\* names: no call, failed dial, cancelled dial or failed answer leaves one
\* behind, though sockInit() forgets a descriptor without closing it.
NoFdLeak == open = IF fd = NoFd THEN {} ELSE {fd}

\* m2k_has_carrier() never reports a carrier without a socket behind it, and
\* outside DIAL the modem holds a socket only for a call that is up, so the
\* next dial or answer finds nothing to overwrite.
SocketIsCall == /\ alive => fd # NoFd
                /\ state # "DIAL" /\ fd # NoFd => alive

\* While a dial is in progress the address list is held and the current
\* address is in it: m2k_sockDialProgress() can always go on to the next one.
\* Its socket is there too unless a %Q has closed it under the dial.
DialHasAddress == state = "DIAL" => /\ dial /\ rp >= 1 /\ ~alive
                                    /\ fd = NoFd => quitReq

\* m2k_pending_to_line() can reach zero: outside ONLINE, where nothing drains
\* it, the socket write buffer is empty.
NothingStuckToLine == state # "ONLINE" => ~sockW

\* The ring count is zero once the call is answered or the modem has gone
\* off-hook to dial, whichever way it got there.
OffHookNotRinging == state \in {"DIAL", "ONLINE"} => rings = 0

\* An escape request never outlives the online session it was made in.
EscapeIsForThisCall == escReq => state = "ONLINE"

\* A call that is up is never displaced: its socket stays the call's socket
\* until it goes down, whoever dials, calls in or rings meanwhile.  The one
\* step that has another socket behind it is a line that hung up itself.
LiveCallKept ==
    [][(alive /\ alive' /\ fd' # fd)
         => \E ln \in Lines : /\ ln.hang \/ ln.quit
                              /\ CmdDispatches(ln) \/ CmdAppLine(ln)]_vars

\* CONNECT is reported exactly when the modem enters ONLINE, and then there
\* is a carrier; ATO on a lost carrier or a failed answer does not enter.
ConnectMeansCarrier ==
    [][(state # "ONLINE" /\ state' = "ONLINE") => (alive' /\ stat' = "CONNECT")]_vars

\* Going back to command mode with OK (an escape) never costs the carrier.
EscapeKeepsCarrier ==
    [][(state = "ONLINE" /\ state' = "CMD" /\ stat' = "OK")
         => (alive' = alive /\ fd' = fd)]_vars

\* A dial or an answer that ends without a call says NO CARRIER, whoever
\* ended it: the DTE, the host, the deadline, the last address.
FailureReported ==
    [][(state \in {"DIAL", "ANSWER"} /\ state' = "CMD")
         => /\ stat' = "NO CARRIER" /\ ~alive'
            /\ state = "DIAL" => ~dial']_vars

\* A call whose carrier is lost in ONLINE, or that the host hangs up there, is
\* reported with NO CARRIER on the way back to command mode (modemu2k.h on
\* m2k_hangup: "or tears down a live TCP connection. In each case the modem emits
\* NO CARRIER and returns to command mode").
LossReported ==
    [][(state = "ONLINE" /\ state' = "CMD" /\ ~alive') => stat' = "NO CARRIER"]_vars

\* What onlineIter() makes of it: a loss is not reported when an escape, asked for
\* or typed, is served first, and in no other case.
OnlyEscapeHidesLoss ==
    [][(state = "ONLINE" /\ state' = "CMD" /\ ~alive')
         => stat' = "NO CARRIER" \/ escReq \/ guard = "past"]_vars

\* The DTE knows the mode from the last result code: it is CONNECT as long as its
\* bytes go to the line, and NO CARRIER only while there is none, whatever the host
\* does between two steps.
LastWordIsTrue ==
    /\ state = "ONLINE" <=> stat = "CONNECT"
    /\ stat = "NO CARRIER" => ~alive

\* The modem leaves ONLINE with OK only when the host asked for it or a +++
\* was typed in this session (modemu2k.1: "wait +++ wait").
EscapeWasAsked ==
    [][(state = "ONLINE" /\ state' = "CMD" /\ stat' = "OK")
         => (escReq \/ esc = "P3")]_vars

\* The modem implements the call cycle its host relies on.
Cycle == INSTANCE CallCycle WITH phase <- state, carrier <- alive
CycleSafe == Cycle!Safe
CycleSpec == Cycle!Spec

\* When the DTE has closed its side of the tty the session ends, from whatever
\* state it was in (auto-answer off).
SessionEnds == (~AppIO /\ ~ttyOpen /\ s0 = 0) ~> state = "DONE"
=============================================================================
