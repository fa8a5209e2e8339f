----------------------------- MODULE ModemProofs -----------------------------
(***************************************************************************)
(* Proofs about Modem.  The handlers are operators on a record, so each of *)
(* them gets a lemma, and the proof that a step keeps the invariant        *)
(* follows the calls the step makes.  Then, with the invariant, what one   *)
(* step may do to the call, and from it the action properties and the      *)
(* refinement of CallCycle.                                                *)
(***************************************************************************)
EXTENDS Modem, TLAPS

(* What holds of the context in the middle of a handler: the kernel and
   sock.conn agree about the socket. *)
Owned(x) ==
    /\ x \in Context
    /\ x.open = IF x.fd = NoFd THEN {} ELSE {x.fd}
    /\ x.alive => x.fd # NoFd
    /\ x.fd = NoFd => x.link = "none"

(* ... and in the command handlers, which have a socket only for a call. *)
AtCommand(x) ==
    /\ Owned(x)
    /\ x.fd # NoFd => x.alive
    /\ ~x.sockW /\ ~x.escReq

(* The inductive invariant, of a record and of the state. *)
Good(x) ==
    /\ Owned(x)
    /\ x.state # "DIAL" => (x.fd # NoFd => x.alive)
    /\ x.state = "DIAL" => /\ x.dial /\ x.rp >= 1 /\ ~x.alive
                           /\ x.fd = NoFd => x.quitReq
    /\ x.state = "ANSWER" => ~x.alive
    /\ x.state # "ONLINE" => ~x.sockW
    /\ x.state \in {"DIAL", "ONLINE"} => x.rings = 0
    /\ x.escReq => x.state = "ONLINE"

IInv == Good(Now)

-----------------------------------------------------------------------------
(* Types: every helper returns a context. *)

LEMMA PutType ==
  ASSUME NEW x \in Context, NEW r \in Results
  PROVE  putTtyCmdstat(x, r) \in Context
BY DEF putTtyCmdstat, Context

LEMMA InitType ==
  ASSUME NEW x \in Context
  PROVE  sockInit(x) \in Context
<1>1. 0 \in 0..MaxAddr
  BY BoundAssumption
<1>. QED BY <1>1 DEF sockInit, Context, Links

LEMMA CloseType ==
  ASSUME NEW x \in Context
  PROVE  sockClose(x) \in Context
<1>1. CASE x.fd = NoFd
  BY <1>1 DEF sockClose
<1>2. CASE x.fd # NoFd
  <2>. DEFINE o == x.open \ {x.fd}
  <2>1. o \in SUBSET FD
    BY DEF Context
  <2>2. sockClose(x) = [x EXCEPT !.open = o, !.fd = NoFd, !.alive = FALSE,
                                 !.link = "none"]
    BY <1>2 DEF sockClose
  <2>. HIDE DEF o
  <2>. QED BY <2>1, <2>2, ZenonT(60) DEF Context, Links
<1>. QED BY <1>1, <1>2

LEMMA EnterCmdType ==
  ASSUME NEW x \in Context
  PROVE  stepEnterCmd(x) \in Context
BY DEF stepEnterCmd, Context, States

LEMMA EnterOnlineType ==
  ASSUME NEW x \in Context, NEW reqs \in BOOLEAN
  PROVE  stepEnterOnline(x, reqs) \in Context
<1>. DEFINE y == putTtyCmdstat(x, "CONNECT")
<1>1. y \in Context
  BY PutType DEF Results
<1>2. 0 \in SRegs
  BY BoundAssumption DEF SRegs
<1>3. stepEnterOnline(x, reqs) =
        [y EXCEPT !.sockW = reqs, !.esc = "NORM", !.rings = 0, !.late = FALSE,
                  !.state = "ONLINE"]
  BY DEF stepEnterOnline
<1>. HIDE DEF y
<1>4. [y EXCEPT !.sockW = reqs, !.esc = "NORM", !.rings = 0, !.late = FALSE,
                !.state = "ONLINE"] \in Context
  BY <1>1, <1>2, ZenonT(60) DEF Context, States
<1>. QED BY <1>3, <1>4

LEMMA EnterDialType ==
  ASSUME NEW x \in Context
  PROVE  stepEnterDial(x) \in Context
<1>1. 0 \in SRegs
  BY BoundAssumption DEF SRegs
<1>. QED BY <1>1 DEF stepEnterDial, Context, States

LEMMA EnterAnswerType ==
  ASSUME NEW x \in Context
  PROVE  stepEnterAnswer(x) \in Context
BY DEF stepEnterAnswer, Context, States

LEMMA TryType ==
  ASSUME NEW x \in Context, NEW n \in 0..MaxAddr, NEW f \in FD,
         NEW how \in {"up", "pending"}
  PROVE  dialTryCurrent(x, n, f, how) \in Context
<1>. DEFINE o == x.open \cup {f}
            l == IF how = "pending" THEN x.s7 = 0 ELSE x.late
            a == (how = "up")
<1>1. o \in SUBSET FD /\ l \in BOOLEAN /\ a \in BOOLEAN
  BY DEF Context
<1>2. dialTryCurrent(x, n, f, how) =
        [x EXCEPT !.fd = f, !.open = o, !.rp = n, !.link = how, !.alive = a,
                  !.late = l]
  BY DEF dialTryCurrent
<1>. HIDE DEF o, l, a
<1>3. [x EXCEPT !.fd = f, !.open = o, !.rp = n, !.link = how, !.alive = a,
                !.late = l] \in Context
  BY <1>1 DEF Context, Links
<1>. QED BY <1>2, <1>3

LEMMA RingType ==
  ASSUME NEW x \in Context
  PROVE  Ring(x) \in Context
<1>. DEFINE a == IF x.s1 < RingMax THEN x.s1 + 1 ELSE x.s1
            b == IF x.rings < RingMax THEN x.rings + 1 ELSE x.rings
<1>1. a \in SRegs /\ b \in SRegs
  BY BoundAssumption DEF Context, SRegs
<1>2. Ring(x) = [x EXCEPT !.stat = "RING", !.ttyW = TRUE, !.s1 = a,
                          !.rings = b, !.ringDue = FALSE]
  BY DEF Ring, putTtyCmdstat, Context
<1>. HIDE DEF a, b
<1>3. [x EXCEPT !.stat = "RING", !.ttyW = TRUE, !.s1 = a, !.rings = b,
                !.ringDue = FALSE] \in Context
  BY <1>1, ZenonT(60) DEF Context, Results
<1>. QED BY <1>2, <1>3

LEMMA WrittenType ==
  ASSUME NEW ln \in Lines, NEW x \in Context
  PROVE  /\ written(x.s0, ln.s0) \in SRegs
         /\ written(x.s1, ln.s1) \in SRegs
         /\ written(x.s7, ln.s7) \in {0, 1}
         /\ ln.hang \in BOOLEAN /\ ln.quit \in BOOLEAN /\ ln.stat \in Cmdstats
BY UseAssumption DEF written, Line, Context

LEMMA LexType ==
  ASSUME NEW x \in Context, NEW ln \in Lines
  PROVE  cmdLex(x, ln) \in Context
<1>. DEFINE y == IF (ln.hang /\ x.alive) \/ ln.quit THEN sockClose(x) ELSE x
            q == y.quitReq \/ ln.quit
            a == written(y.s0, ln.s0)
            b == written(y.s1, ln.s1)
            c == written(y.s7, ln.s7)
<1>1. y \in Context
  BY CloseType
<1>2. q \in BOOLEAN /\ a \in SRegs /\ b \in SRegs /\ c \in {0, 1}
  <2>. HIDE DEF y
  <2>. QED BY <1>1, WrittenType DEF Context
<1>3. cmdLex(x, ln) = [y EXCEPT !.quitReq = q, !.s0 = a, !.s1 = b, !.s7 = c]
  BY DEF cmdLex
<1>. HIDE DEF y, q, a, b, c
<1>4. [y EXCEPT !.quitReq = q, !.s0 = a, !.s1 = b, !.s7 = c] \in Context
  BY <1>1, <1>2, ZenonT(60) DEF Context
<1>. QED BY <1>3, <1>4

-----------------------------------------------------------------------------
(* What the helpers do to the socket. *)

LEMMA CloseFacts ==
  ASSUME NEW x, Owned(x)
  PROVE  LET y == sockClose(x) IN
         /\ Owned(y) /\ y.fd = NoFd /\ ~y.alive
         /\ y.state = x.state /\ y.dial = x.dial /\ y.rp = x.rp
         /\ y.sockW = x.sockW /\ y.escReq = x.escReq
         /\ y.rings = x.rings /\ y.quitReq = x.quitReq /\ y.stat = x.stat
<1>1. x \in Context
  BY DEF Owned
<1>2. sockClose(x) \in Context
  BY <1>1, CloseType
<1>3. CASE x.fd = NoFd
  BY <1>1, <1>3 DEF sockClose, Owned, Context
<1>4. CASE x.fd # NoFd
  BY <1>1, <1>2, <1>4 DEF sockClose, Owned, Context
<1>. QED BY <1>3, <1>4

LEMMA EnterOnlineGood ==
  ASSUME NEW x, Owned(x), x.alive, NEW reqs \in BOOLEAN
  PROVE  Good(stepEnterOnline(x, reqs))
<1>. DEFINE y == stepEnterOnline(x, reqs)
<1>1. x \in Context
  BY DEF Owned
<1>2. y \in Context
  BY <1>1, EnterOnlineType
<1>3. /\ y.open = x.open /\ y.fd = x.fd /\ y.alive = x.alive
      /\ y.state = "ONLINE" /\ y.rings = 0 /\ y.link = x.link
  BY <1>1 DEF stepEnterOnline, putTtyCmdstat, Context
<1>. HIDE DEF y
<1>4. Good(y)
  BY <1>2, <1>3 DEF Good, Owned
<1>. QED
  BY <1>4 DEF y

LEMMA NoCarrierGood ==
  ASSUME NEW x, Owned(x), x.fd # NoFd => x.alive, ~x.escReq
  PROVE  Good(noCarrier(x))
<1>. DEFINE p == putTtyCmdstat(x, "NO CARRIER")
            y == stepEnterCmd(p)
<1>1. x \in Context
  BY DEF Owned
<1>2. p \in Context
  BY <1>1, PutType DEF Results
<1>3. y \in Context
  BY <1>2, EnterCmdType
<1>4. /\ p.open = x.open /\ p.fd = x.fd /\ p.alive = x.alive
      /\ p.escReq = x.escReq /\ p.link = x.link
  BY <1>1 DEF putTtyCmdstat, Context
<1>. HIDE DEF p
<1>5. /\ y.open = p.open /\ y.fd = p.fd /\ y.alive = p.alive
      /\ y.escReq = p.escReq /\ y.state = "CMD" /\ ~y.sockW
      /\ y.link = p.link
  BY <1>2 DEF stepEnterCmd, Context
<1>6. noCarrier(x) = y
  BY DEF noCarrier, p
<1>. HIDE DEF y
<1>7. Good(y)
  BY <1>3, <1>4, <1>5 DEF Good, Owned
<1>. QED BY <1>6, <1>7

LEMMA AtCommandGood ==
  ASSUME NEW x, AtCommand(x), x.state \in {"CMD", "DONE"}
  PROVE  Good(x)
BY DEF AtCommand, Good, Owned

LEMMA GoodAtCommand ==
  ASSUME NEW x, Good(x), x.state \in {"CMD", "ANSWER", "DONE"}
  PROVE  AtCommand(x)
BY DEF AtCommand, Good

LEMMA PutAtCommand ==
  ASSUME NEW x, AtCommand(x), NEW r \in Results
  PROVE  AtCommand(putTtyCmdstat(x, r)) /\ putTtyCmdstat(x, r).state = x.state
<1>1. x \in Context
  BY DEF AtCommand, Owned
<1>2. putTtyCmdstat(x, r) \in Context
  BY <1>1, PutType
<1>. QED BY <1>1, <1>2 DEF AtCommand, Owned, putTtyCmdstat, Context

\* The outcomes of answerAccept(): the call is adopted, or nothing changed.
LEMMA AcceptFacts ==
  ASSUME NEW x, AtCommand(x), ~x.alive, x.callers > 0, NEW y \in answerAccept(x)
  PROVE  AtCommand(y) /\ y.state = x.state /\ y.stat = x.stat
<1>. USE DEF AtCommand
<1>1. x \in Context /\ x.fd = NoFd /\ x.open = {}
  BY DEF Owned
<1>2. CASE y = x
  BY <1>2
<1>3. ASSUME NEW f \in FD,
             y = [sockInit(x) EXCEPT !.fd = f, !.alive = TRUE, !.link = "up",
                      !.s1 = 0, !.open = @ \cup {f}, !.callers = @ - 1]
      PROVE  AtCommand(y) /\ y.state = x.state /\ y.stat = x.stat
  <2>. DEFINE z == sockInit(x)
  <2>1. z \in Context
    BY <1>1, InitType
  <2>2. /\ z.open = {} /\ z.callers = x.callers /\ z.state = x.state
        /\ z.sockW = x.sockW /\ z.escReq = x.escReq /\ z.stat = x.stat
    BY <1>1 DEF sockInit, Context
  <2>. HIDE DEF z
  <2>. DEFINE o == z.open \cup {f}
              c == z.callers - 1
  <2>3. o = {f} /\ o \in SUBSET FD /\ c \in 0..MaxCallers /\ 0 \in SRegs
    BY <1>1, <2>1, <2>2, BoundAssumption DEF Context, SRegs
  <2>4. y = [z EXCEPT !.fd = f, !.alive = TRUE, !.link = "up", !.s1 = 0,
                      !.open = o, !.callers = c]
    BY <1>3 DEF z
  <2>. HIDE DEF o, c
  <2>5. [z EXCEPT !.fd = f, !.alive = TRUE, !.link = "up", !.s1 = 0,
                  !.open = o, !.callers = c] \in Context
    BY <2>1, <2>3 DEF Context, Links
  <2>6. y \in Context
    BY <2>4, <2>5
  <2>7. /\ y.fd = f /\ y.alive /\ y.open = o /\ y.state = z.state
        /\ y.sockW = z.sockW /\ y.escReq = z.escReq /\ y.stat = z.stat
    BY <2>1, <2>4 DEF Context
  <2>. QED BY <2>2, <2>3, <2>6, <2>7, FdAssumption DEF Owned
<1>. QED BY <1>2, <1>3 DEF answerAccept

LEMMA RingFacts ==
  ASSUME NEW x, AtCommand(x), x.state = "CMD", NEW y \in cmdRingCheck(x)
  PROVE  AtCommand(y) /\ y.state = "CMD" /\ y.stat \in {x.stat, "RING"}
<1>1. x \in Context
  BY DEF AtCommand, Owned
<1>2. CASE y = x
  BY <1>2
<1>3. CASE y = [x EXCEPT !.s1 = 0, !.rings = 0]
  <2>1. 0 \in SRegs
    BY BoundAssumption DEF SRegs
  <2>2. [x EXCEPT !.s1 = 0, !.rings = 0] \in Context
    BY <1>1, <2>1 DEF Context
  <2>. QED BY <1>1, <1>3, <2>2 DEF AtCommand, Owned, Context
<1>4. CASE answerPending(x) /\ (y = Ring(x) \/ y \in answerAccept(Ring(x)))
  <2>. DEFINE r == Ring(x)
  <2>1. r \in Context
    BY <1>1, RingType
  <2>2. /\ r.open = x.open /\ r.fd = x.fd /\ r.alive = x.alive
        /\ r.sockW = x.sockW /\ r.escReq = x.escReq
        /\ r.state = x.state /\ r.callers = x.callers /\ r.link = x.link
        /\ r.stat = "RING"
    BY <1>1 DEF Ring, putTtyCmdstat, Context
  <2>. HIDE DEF r
  <2>3. AtCommand(r) /\ r.state = "CMD"
    BY <2>1, <2>2 DEF AtCommand, Owned
  <2>4. ~r.alive /\ r.callers > 0
    BY <1>4, <2>2 DEF answerPending
  <2>5. y = r \/ y \in answerAccept(r)
    BY <1>4 DEF r
  <2>6. CASE y = r
    BY <2>2, <2>3, <2>6
  <2>7. CASE y \in answerAccept(r)
    <3>1. AtCommand(y) /\ y.state = r.state /\ y.stat = r.stat
      BY <2>3, <2>4, <2>7, AcceptFacts
    <3>. QED BY <2>2, <2>3, <3>1
  <2>. QED BY <2>5, <2>6, <2>7
<1>5. y = x \/ y = [x EXCEPT !.s1 = 0, !.rings = 0]
      \/ (answerPending(x) /\ (y = Ring(x) \/ y \in answerAccept(Ring(x))))
  BY DEF cmdRingCheck
<1>. QED BY <1>2, <1>3, <1>4, <1>5

-----------------------------------------------------------------------------
(* Dialing. *)

(* What a dial leaves behind: a call, an attempt in progress, or nothing. *)
Dialed(x, y) ==
    /\ Owned(y)
    /\ y.state = x.state /\ y.sockW = x.sockW /\ y.escReq = x.escReq
    /\ y.rings = x.rings /\ y.stat = x.stat
    /\ \/ y.alive
       \/ y.dial /\ y.rp >= 1 /\ y.fd # NoFd /\ ~y.alive
       \/ ~y.dial /\ y.fd = NoFd /\ ~y.alive

LEMMA RestFacts ==
  ASSUME NEW x, Owned(x), x.fd = NoFd, x.dial, ~x.alive,
         NEW n \in 0..MaxAddr, NEW y \in dialRest(x, n)
  PROVE  Dialed(x, y)
<1>1. x \in Context /\ x.open = {}
  BY DEF Owned
<1>2. CASE y = [x EXCEPT !.rp = 0, !.dial = FALSE]
  <2>1. 0 \in 0..MaxAddr
    BY BoundAssumption
  <2>2. [x EXCEPT !.rp = 0, !.dial = FALSE] \in Context
    BY <1>1, <2>1, ZenonT(60) DEF Context
  <2>. QED BY <1>1, <1>2, <2>2 DEF Dialed, Owned, Context
<1>3. ASSUME NEW k \in 1..n, NEW f \in FD, NEW how \in {"up", "pending"},
             y = dialTryCurrent(x, k, f, how)
      PROVE  Dialed(x, y)
  <2>1. k \in 0..MaxAddr /\ k >= 1
    BY BoundAssumption
  <2>2. y \in Context
    BY <1>1, <1>3, <2>1, TryType
  <2>. DEFINE o == x.open \cup {f}
              l == IF how = "pending" THEN x.s7 = 0 ELSE x.late
              a == (how = "up")
  <2>3. o = {f}
    BY <1>1
  <2>4. y = [x EXCEPT !.fd = f, !.open = o, !.rp = k, !.link = how, !.alive = a,
                      !.late = l]
    BY <1>3 DEF dialTryCurrent
  <2>. HIDE DEF o, l, a
  <2>5. /\ y.fd = f /\ y.open = o /\ y.rp = k /\ y.alive = a
        /\ y.state = x.state /\ y.sockW = x.sockW /\ y.escReq = x.escReq
        /\ y.dial = x.dial /\ y.rings = x.rings /\ y.stat = x.stat
    BY <1>1, <2>4 DEF Context
  <2>6. y.alive \in BOOLEAN /\ f # NoFd
    BY <2>2, FdAssumption DEF Context
  <2>7. Owned(y)
    BY <2>2, <2>3, <2>5, <2>6 DEF Owned
  <2>. QED BY <2>1, <2>5, <2>6, <2>7 DEF Dialed
<1>. QED BY <1>2, <1>3 DEF dialRest

LEMMA StartFacts ==
  ASSUME NEW x, AtCommand(x), ~x.alive, NEW y \in m2k_sockDialStart(x)
  PROVE  Dialed(x, y)
<1>1. x \in Context /\ x.fd = NoFd /\ x.open = {} /\ Owned(x)
  BY DEF AtCommand, Owned
<1>2. CASE y = [x EXCEPT !.dial = FALSE]
  <2>1. y \in Context
    BY <1>1, <1>2, ZenonT(60) DEF Context
  <2>. QED BY <1>1, <1>2, <2>1, ZenonT(60) DEF Dialed, Owned, Context
<1>3. CASE y \in dialRest(sockInit([x EXCEPT !.dial = TRUE]), MaxAddr)
  <2>. DEFINE d == [x EXCEPT !.dial = TRUE]
              z == sockInit(d)
  <2>1. d \in Context
    BY <1>1, ZenonT(60) DEF Context
  <2>2. /\ d.dial /\ d.open = x.open /\ d.state = x.state
        /\ d.sockW = x.sockW /\ d.escReq = x.escReq /\ d.rings = x.rings
        /\ d.stat = x.stat
    BY <1>1 DEF Context
  <2>. HIDE DEF d
  <2>3. z \in Context
    BY <2>1, InitType
  <2>4. /\ z.fd = NoFd /\ ~z.alive /\ z.link = "none"
        /\ z.dial = d.dial /\ z.open = d.open /\ z.state = d.state
        /\ z.sockW = d.sockW /\ z.escReq = d.escReq /\ z.rings = d.rings
        /\ z.stat = d.stat
    BY <2>1 DEF sockInit, Context
  <2>5. y \in dialRest(z, MaxAddr)
    BY <1>3 DEF d
  <2>. HIDE DEF z
  <2>6. Owned(z)
    BY <1>1, <2>2, <2>3, <2>4 DEF Owned
  <2>7. MaxAddr \in 0..MaxAddr
    BY BoundAssumption
  <2>8. Dialed(z, y)
    BY <2>2, <2>4, <2>5, <2>6, <2>7, RestFacts
  <2>. QED BY <2>2, <2>4, <2>8 DEF Dialed
<1>. QED BY <1>2, <1>3 DEF m2k_sockDialStart

LEMMA ProgressFacts ==
  ASSUME NEW x, Good(x), x.state = "DIAL", NEW y \in m2k_sockDialProgress(x)
  PROVE  Dialed(x, y)
<1>1. /\ x \in Context /\ Owned(x) /\ x.dial /\ x.rp >= 1 /\ ~x.alive
  BY DEF Good, Owned
<1>2. CASE y = x /\ x.link = "pending"
  BY <1>1, <1>2 DEF Dialed, Owned
<1>3. CASE y = [x EXCEPT !.alive = TRUE, !.dial = FALSE] /\ x.link \in {"up", "closed"}
  <2>1. [x EXCEPT !.alive = TRUE, !.dial = FALSE] \in Context
    BY <1>1 DEF Context
  <2>2. /\ y.alive /\ y.fd = x.fd /\ y.open = x.open /\ y.link = x.link
        /\ y.state = x.state /\ y.sockW = x.sockW /\ y.escReq = x.escReq
        /\ y.rings = x.rings /\ y.stat = x.stat
    BY <1>1, <1>3 DEF Context
  <2>3. Owned(y)
    BY <1>1, <1>3, <2>1, <2>2 DEF Owned
  <2>. QED BY <2>2, <2>3 DEF Dialed
<1>4. CASE y \in dialRest(sockClose(x), x.rp - 1)
  <2>. DEFINE z == sockClose(x)
              n == x.rp - 1
  <2>1. n \in 0..MaxAddr
    BY <1>1, BoundAssumption DEF Context
  <2>2. /\ Owned(z) /\ z.fd = NoFd /\ ~z.alive
        /\ z.state = x.state /\ z.dial = x.dial
        /\ z.sockW = x.sockW /\ z.escReq = x.escReq /\ z.rings = x.rings /\ z.stat = x.stat
    BY <1>1, CloseFacts
  <2>3. y \in dialRest(z, n)
    BY <1>4
  <2>. HIDE DEF z, n
  <2>4. Dialed(z, y)
    BY <1>1, <2>1, <2>2, <2>3, RestFacts
  <2>. QED BY <2>2, <2>4 DEF Dialed
<1>5. \/ y = x /\ x.link = "pending"
      \/ y = [x EXCEPT !.alive = TRUE, !.dial = FALSE] /\ x.link \in {"up", "closed"}
      \/ y \in dialRest(sockClose(x), x.rp - 1)
  <2>. DEFINE r == dialRest(sockClose(x), x.rp - 1)
              c == [x EXCEPT !.alive = TRUE, !.dial = FALSE]
  <2>1. m2k_sockDialProgress(x) =
           CASE ~Dialing(x)       -> {x}
             [] x.late             -> r
             [] x.link = "up"      -> {c}
             [] x.link = "closed"  -> {c} \cup r
             [] x.link = "pending" -> {x}
             [] OTHER              -> r
    BY DEF m2k_sockDialProgress
  <2>. HIDE DEF r, c
  <2>0. Dialing(x)
    BY <1>1 DEF Dialing, Context
  <2>2. y \in r \/ (y = c /\ x.link \in {"up", "closed"}) \/ (y = x /\ x.link = "pending")
    BY <2>0, <2>1, Zenon
  <2>. QED BY <2>2 DEF r, c
<1>. QED BY <1>2, <1>3, <1>4, <1>5

-----------------------------------------------------------------------------
(* Command lines and host calls. *)

\* A line that hangs up in the middle of a dial is refused there (there is no
\* carrier yet); one that quits takes the socket and leaves quitReq behind.
LEMMA LexGood ==
  ASSUME NEW x, Good(x), NEW ln \in Lines
  PROVE  Good(cmdLex(x, ln)) /\ cmdLex(x, ln).state = x.state
<1>. DEFINE y == IF (ln.hang /\ x.alive) \/ ln.quit THEN sockClose(x) ELSE x
            q == y.quitReq \/ ln.quit
            a == written(y.s0, ln.s0)
            b == written(y.s1, ln.s1)
            c == written(y.s7, ln.s7)
            z == cmdLex(x, ln)
<1>1. x \in Context /\ Owned(x)
  BY DEF Good, Owned
<1>2. z \in Context
  BY <1>1, LexType
<1>3. /\ Owned(y) /\ y.state = x.state /\ y.dial = x.dial /\ y.rp = x.rp
      /\ y.sockW = x.sockW /\ y.escReq = x.escReq
      /\ y.rings = x.rings /\ y.quitReq = x.quitReq
      /\ \/ y.fd = x.fd /\ y.alive = x.alive
         \/ y.fd = NoFd /\ ~y.alive /\ (x.alive \/ ln.quit)
  BY <1>1, CloseFacts
<1>4. y \in Context
  BY <1>3 DEF Owned
<1>5. z = [y EXCEPT !.quitReq = q, !.s0 = a, !.s1 = b, !.s7 = c]
  BY DEF cmdLex
<1>. HIDE DEF y, z
<1>6. /\ z.open = y.open /\ z.fd = y.fd /\ z.alive = y.alive /\ z.link = y.link
      /\ z.state = y.state /\ z.dial = y.dial /\ z.rp = y.rp
      /\ z.sockW = y.sockW /\ z.escReq = y.escReq /\ z.rings = y.rings
      /\ z.quitReq = q
  BY <1>4, <1>5 DEF Context
<1>7. Owned(z)
  BY <1>2, <1>3, <1>6 DEF Owned
<1>8. Good(z)
  BY <1>3, <1>6, <1>7 DEF Good
<1>. QED BY <1>3, <1>6, <1>8 DEF z

LEMMA HangupGood ==
  ASSUME NEW x, Good(x)
  PROVE  Good(m2k_hangup(x))
<1>1. x \in Context /\ Owned(x)
  BY DEF Good, Owned
<1>2. CASE x.state = "DIAL"
  <2>. DEFINE d == [x EXCEPT !.dial = FALSE]
              z == sockClose(d)
  <2>1. d \in Context
    BY <1>1 DEF Context
  <2>2. /\ d.fd = x.fd /\ d.open = x.open /\ d.alive = x.alive /\ d.link = x.link
        /\ d.escReq = x.escReq
    BY <1>1 DEF Context
  <2>. HIDE DEF d
  <2>3. Owned(d)
    BY <1>1, <2>1, <2>2 DEF Owned
  <2>4. Owned(z) /\ z.fd = NoFd /\ ~z.escReq
    BY <1>2, <2>2, <2>3, CloseFacts DEF Good
  <2>. HIDE DEF z
  <2>5. Good(noCarrier(z))
    BY <2>4, NoCarrierGood
  <2>6. m2k_hangup(x) = noCarrier(z)
    BY <1>2 DEF m2k_hangup, m2k_sockDialAbort, sockShutdown, z, d
  <2>. QED BY <2>5, <2>6
<1>3. CASE x.state = "ANSWER"
  <2>1. Good(noCarrier(x))
    BY <1>1, <1>3, NoCarrierGood DEF Good
  <2>. QED BY <1>3, <2>1 DEF m2k_hangup
<1>4. CASE x.state # "DIAL" /\ x.state # "ANSWER"
  <2>. DEFINE z == sockClose(x)
  <2>1. /\ Owned(z) /\ z.fd = NoFd /\ ~z.alive /\ z.state = x.state
        /\ z.sockW = x.sockW /\ z.escReq = x.escReq /\ z.rings = x.rings
    BY <1>1, CloseFacts
  <2>. HIDE DEF z
  <2>2. Good(z)
    BY <1>4, <2>1 DEF Good
  <2>3. m2k_hangup(x) = z
    BY <1>4 DEF m2k_hangup, sockShutdown, z
  <2>. QED BY <2>2, <2>3
<1>. QED BY <1>2, <1>3, <1>4

(* What the invariant does not look at may change freely. *)
Alike(x, y) ==
    /\ y \in Context
    /\ y.fd = x.fd /\ y.open = x.open /\ y.alive = x.alive
    /\ y.state = x.state /\ y.dial = x.dial /\ y.rp = x.rp
    /\ y.sockW = x.sockW /\ y.escReq = x.escReq /\ y.rings = x.rings
    /\ y.fd = NoFd => y.link = x.link
    /\ x.quitReq => y.quitReq

LEMMA AlikeGood ==
  ASSUME NEW x, NEW y, Good(x), Alike(x, y)
  PROVE  Good(y)
BY DEF Alike, Good, Owned

LEMMA AlikeAtCommand ==
  ASSUME NEW x, NEW y, AtCommand(x), Alike(x, y)
  PROVE  AtCommand(y) /\ y.state = x.state
BY DEF Alike, AtCommand, Owned

LEMMA PutGood ==
  ASSUME NEW x, AtCommand(x), x.state = "CMD", NEW r \in Results
  PROVE  Good(putTtyCmdstat(x, r))
BY PutAtCommand, AtCommandGood

LEMMA DialCommandGood ==
  ASSUME NEW x, AtCommand(x), x.state = "CMD", NEW reqs \in BOOLEAN,
         NEW y \in dialCommand(x, reqs)
  PROVE  Good(y)
<1>1. CASE x.alive
  <2>1. y = putTtyCmdstat(x, "ERROR")
    BY <1>1 DEF dialCommand
  <2>. QED BY <2>1, PutGood DEF Results
<1>2. CASE ~x.alive
  <2>1. PICK z \in m2k_sockDialStart(x) :
           y = IF z.alive THEN stepEnterOnline(z, reqs)
               ELSE IF z.dial THEN stepEnterDial(z)
               ELSE putTtyCmdstat(z, "NO CARRIER")
    BY <1>2 DEF dialCommand
  <2>2. Dialed(x, z)
    BY <1>2, StartFacts
  <2>3. CASE z.alive
    BY <2>1, <2>2, <2>3, EnterOnlineGood DEF Dialed
  <2>4. CASE ~z.alive /\ z.dial
    <3>. DEFINE d == stepEnterDial(z)
    <3>1. z \in Context /\ Owned(z) /\ z.rp >= 1 /\ z.fd # NoFd /\ ~z.sockW /\ ~z.escReq
      BY <2>2, <2>4 DEF Dialed, AtCommand, Owned
    <3>2. d \in Context
      BY <3>1, EnterDialType
    <3>3. /\ d.fd = z.fd /\ d.open = z.open /\ d.alive = z.alive /\ d.link = z.link
          /\ d.dial = z.dial /\ d.rp = z.rp /\ d.sockW = z.sockW
          /\ d.escReq = z.escReq /\ d.rings = 0 /\ d.state = "DIAL"
      BY <3>1 DEF stepEnterDial, Context
    <3>4. y = d
      BY <2>1, <2>4
    <3>. HIDE DEF d
    <3>. QED BY <2>4, <3>1, <3>2, <3>3, <3>4 DEF Good, Owned
  <2>5. CASE ~z.alive /\ ~z.dial
    <3>1. AtCommand(z) /\ z.state = "CMD"
      BY <2>2, <2>5 DEF Dialed, AtCommand
    <3>. QED BY <2>1, <2>5, <3>1, PutGood DEF Results
  <2>. QED BY <2>3, <2>4, <2>5
<1>. QED BY <1>1, <1>2

LEMMA OnlineCommandGood ==
  ASSUME NEW x, AtCommand(x), x.state = "CMD", NEW reqs \in BOOLEAN,
         NEW y \in onlineCommand(x, reqs)
  PROVE  Good(y)
<1>1. CASE x.alive
  BY <1>1, EnterOnlineGood DEF onlineCommand, AtCommand
<1>2. CASE ~x.alive
  BY <1>2, PutGood DEF onlineCommand, Results
<1>. QED BY <1>1, <1>2

LEMMA AnswerCommandGood ==
  ASSUME NEW x, AtCommand(x), x.state = "CMD", NEW reqs \in BOOLEAN,
         NEW y \in answerCommand(x, reqs)
  PROVE  Good(y)
<1>1. CASE y \in {putTtyCmdstat(x, "ERROR"), putTtyCmdstat(x, "NO CARRIER")}
  BY <1>1, PutGood DEF Results
<1>2. CASE answerPending(x) /\
           \E z \in answerAccept(x) :
              y = IF z.alive THEN stepEnterOnline(z, reqs)
                  ELSE putTtyCmdstat(z, "NO CARRIER")
  <2>1. PICK z \in answerAccept(x) :
           y = IF z.alive THEN stepEnterOnline(z, reqs)
               ELSE putTtyCmdstat(z, "NO CARRIER")
    BY <1>2
  <2>2. AtCommand(z) /\ z.state = "CMD"
    BY <1>2, AcceptFacts DEF answerPending
  <2>3. CASE z.alive
    BY <2>1, <2>2, <2>3, EnterOnlineGood DEF AtCommand
  <2>4. CASE ~z.alive
    BY <2>1, <2>2, <2>4, PutGood DEF Results
  <2>. QED BY <2>3, <2>4
<1>3. CASE y = stepEnterAnswer(x) /\ ~x.alive
  <2>1. x \in Context
    BY DEF AtCommand, Owned
  <2>2. y \in Context
    BY <1>3, <2>1, EnterAnswerType
  <2>3. /\ y.fd = x.fd /\ y.open = x.open /\ y.alive = x.alive /\ y.link = x.link
        /\ y.sockW = x.sockW /\ y.escReq = x.escReq /\ y.state = "ANSWER"
    BY <1>3, <2>1 DEF stepEnterAnswer, Context
  <2>4. ~x.alive /\ ~y.alive /\ Owned(y) /\ ~y.sockW /\ ~y.escReq
    BY <1>3, <2>2, <2>3 DEF Owned, AtCommand
  <2>5. y.fd = NoFd
    BY <2>3, <2>4 DEF AtCommand
  <2>. QED BY <2>3, <2>4, <2>5 DEF Good
<1>4. \/ y \in {putTtyCmdstat(x, "ERROR"), putTtyCmdstat(x, "NO CARRIER")}
      \/ answerPending(x) /\
         \E z \in answerAccept(x) :
            y = IF z.alive THEN stepEnterOnline(z, reqs)
                ELSE putTtyCmdstat(z, "NO CARRIER")
      \/ y = stepEnterAnswer(x) /\ ~x.alive
  BY DEF answerCommand
<1>. QED BY <1>1, <1>2, <1>3, <1>4

LEMMA DispatchGood ==
  ASSUME NEW x, AtCommand(x), x.state = "CMD", NEW ln \in Lines,
         NEW reqs \in BOOLEAN, NEW y \in dispatch(x, ln, reqs)
  PROVE  Good(y)
<1>. DEFINE e == [x EXCEPT !.eol = FALSE]
            z == cmdLex(e, ln)
<1>1. x \in Context
  BY DEF AtCommand, Owned
<1>2. Alike(x, e)
  BY <1>1 DEF Alike, Context
<1>. HIDE DEF e
<1>3. Good(e) /\ e.state = "CMD"
  BY <1>2, AlikeAtCommand, AtCommandGood
<1>4. Good(z) /\ z.state = "CMD"
  BY <1>3, LexGood
<1>5. \/ y \in dialCommand(z, reqs)
      \/ y \in onlineCommand(z, reqs)
      \/ y \in answerCommand(z, reqs)
      \/ y = z
      \/ y = putTtyCmdstat(z, ln.stat) /\ ln.stat \in {"OK", "ERROR"}
  BY WrittenType, <1>1 DEF dispatch, e, Cmdstats
<1>. HIDE DEF z
<1>6. AtCommand(z)
  BY <1>4, GoodAtCommand
<1>. QED
  BY <1>4, <1>5, <1>6, DialCommandGood, OnlineCommandGood, AnswerCommandGood, PutGood
  DEF Results

LEMMA QuitGood ==
  ASSUME NEW x, AtCommand(x), x.state = "CMD"
  PROVE  Good(quitCheck(x))
<1>1. x \in Context
  BY DEF AtCommand, Owned
<1>2. CASE quitCheck(x) = x
  BY <1>2, AtCommandGood
<1>3. CASE quitCheck(x) = [x EXCEPT !.state = "DONE"]
  <2>. DEFINE y == [x EXCEPT !.state = "DONE"]
  <2>1. y \in Context
    BY <1>1 DEF Context, States
  <2>2. /\ y.fd = x.fd /\ y.open = x.open /\ y.alive = x.alive /\ y.link = x.link
        /\ y.sockW = x.sockW /\ y.escReq = x.escReq /\ y.state = "DONE"
    BY <1>1 DEF Context
  <2>. HIDE DEF y
  <2>3. Good(y)
    BY <2>1, <2>2 DEF Good, Owned, AtCommand
  <2>. QED BY <1>3, <2>3 DEF y
<1>. QED BY <1>2, <1>3 DEF quitCheck

-----------------------------------------------------------------------------
(* The invariant. *)

LEMMA InitIInv == Init => IInv
<1>. SUFFICES ASSUME Init
              PROVE  IInv
  OBVIOUS
<1>1. 0 \in 0..MaxAddr /\ 0 \in SRegs /\ 0 \in 0..MaxCallers
  BY BoundAssumption DEF SRegs
<1>2. Now \in Context
  BY <1>1, UseAssumption DEF Init, Now, Context, States, Results, Links
<1>3. Owned(Now)
  BY <1>2 DEF Owned, Init, Now
<1>. QED BY <1>3 DEF IInv, Good, Init, Now

\* A handler that returns a good record takes the modem to a good state.
LEMMA BecomesGood ==
  ASSUME NEW y, Good(y), Becomes(y)
  PROVE  IInv'
<1>1. y \in Context
  BY DEF Good, Owned
<1>2. Now' = y
  BY <1>1 DEF Now, Becomes, Context
<1>3. Good(Now')
  BY <1>2
<1>. QED BY <1>3 DEF IInv

LEMMA NowFields ==
  /\ Now.state = state /\ Now.fd = fd /\ Now.alive = alive /\ Now.dial = dial
  /\ Now.rp = rp /\ Now.late = late /\ Now.eol = eol
  /\ Now.escReq = escReq /\ Now.quitReq = quitReq /\ Now.sockW = sockW
  /\ Now.open = open /\ Now.link = link /\ Now.callers = callers
  /\ Now.rings = rings /\ Now.ttyW = ttyW /\ Now.dtr = dtr /\ Now.guard = guard
  /\ Now.esc = esc /\ Now.stat = stat
BY DEF Now

\* In CMD the step starts with the ring check.
LEMMA AtCommandNow ==
  ASSUME IInv, state = "CMD", NEW y \in RungNoCall
  PROVE  AtCommand(y) /\ y.state = "CMD" /\ y.stat \in {Now.stat, "RING"}
<1>1. AtCommand(Now) /\ Now.state = "CMD"
  BY NowFields, GoodAtCommand DEF IInv
<1>. QED BY <1>1, RingFacts DEF RungNoCall

LEMMA CmdStepIInv ==
  ASSUME IInv, CmdStep
  PROVE  IInv'
<1>1. CASE CmdAnswers
  <2>1. PICK y \in cmdRingCheck(Now), reqs \in BOOLEAN :
           y.alive /\ Becomes(stepEnterOnline(y, reqs))
    BY <1>1 DEF CmdAnswers
  <2>2. AtCommand(Now) /\ Now.state = "CMD"
    BY <1>1, NowFields, GoodAtCommand DEF IInv, CmdAnswers
  <2>3. Owned(y)
    BY <2>2, RingFacts DEF AtCommand
  <2>. QED BY <2>1, <2>3, EnterOnlineGood, BecomesGood
<1>2. CASE CmdIdle
  <2>1. PICK y \in RungNoCall :
           \/ Becomes(quitCheck(y))
           \/ Becomes(quitCheck([y EXCEPT !.ttyW = FALSE]))
    BY <1>2 DEF CmdIdle
  <2>2. AtCommand(y) /\ y.state = "CMD"
    BY <1>2, AtCommandNow DEF CmdIdle
  <2>3. Alike(y, [y EXCEPT !.ttyW = FALSE])
    BY <2>2 DEF Alike, AtCommand, Owned, Context
  <2>. QED BY <2>1, <2>2, <2>3, AlikeAtCommand, QuitGood, BecomesGood
<1>3. CASE CmdReads
  <2>1. PICK y \in RungNoCall :
           \/ \E e \in {eol, TRUE} : Becomes([y EXCEPT !.eol = e, !.ttyW = TRUE])
           \/ \E w \in {y.ttyW, TRUE}, q \in {y.quitReq, TRUE} :
                 Becomes(quitCheck([y EXCEPT !.eol = FALSE, !.ttyW = w, !.quitReq = q]))
    BY <1>3 DEF CmdReads
  <2>2. AtCommand(y) /\ y.state = "CMD"
    BY <1>3, AtCommandNow DEF CmdReads
  <2>3. eol \in BOOLEAN
    BY NowFields DEF IInv, Good, Owned, Context
  <2>4. ASSUME NEW e \in BOOLEAN
        PROVE  Alike(y, [y EXCEPT !.eol = e, !.ttyW = TRUE])
    BY <2>2, ZenonT(60) DEF Alike, AtCommand, Owned, Context
  <2>5. ASSUME NEW w \in {y.ttyW, TRUE}, NEW q \in {y.quitReq, TRUE}
        PROVE  Alike(y, [y EXCEPT !.eol = FALSE, !.ttyW = w, !.quitReq = q])
    <3>1. y \in Context
      BY <2>2 DEF AtCommand, Owned
    <3>2. w \in BOOLEAN /\ q \in BOOLEAN /\ (y.quitReq => q)
      BY <3>1 DEF Context
    <3>. QED BY <3>1, <3>2, ZenonT(60) DEF Alike, Context
  <2>6. CASE \E e \in {eol, TRUE} : Becomes([y EXCEPT !.eol = e, !.ttyW = TRUE])
    <3>1. PICK e \in BOOLEAN : Becomes([y EXCEPT !.eol = e, !.ttyW = TRUE])
      BY <2>3, <2>6
    <3>2. Alike(y, [y EXCEPT !.eol = e, !.ttyW = TRUE])
      BY <2>4
    <3>. QED BY <2>2, <3>1, <3>2, AlikeAtCommand, AtCommandGood, BecomesGood
  <2>7. CASE \E w \in {y.ttyW, TRUE}, q \in {y.quitReq, TRUE} :
                Becomes(quitCheck([y EXCEPT !.eol = FALSE, !.ttyW = w, !.quitReq = q]))
    <3>1. PICK w \in {y.ttyW, TRUE}, q \in {y.quitReq, TRUE} :
             Becomes(quitCheck([y EXCEPT !.eol = FALSE, !.ttyW = w, !.quitReq = q]))
      BY <2>7
    <3>. DEFINE z == [y EXCEPT !.eol = FALSE, !.ttyW = w, !.quitReq = q]
    <3>2. Alike(y, z)
      BY <2>5
    <3>. HIDE DEF z
    <3>. QED BY <2>2, <3>1, <3>2, AlikeAtCommand, QuitGood, BecomesGood DEF z
  <2>. QED BY <2>1, <2>6, <2>7
<1>4. CASE CmdHangsUp
  <2>1. PICK y \in RungNoCall : Becomes([sockClose(y) EXCEPT !.state = "DONE"])
    BY <1>4 DEF CmdHangsUp
  <2>2. AtCommand(y) /\ y.state = "CMD"
    BY <1>4, AtCommandNow DEF CmdHangsUp
  <2>. DEFINE c == sockClose(y)
              d == [c EXCEPT !.state = "DONE"]
  <2>3. Owned(c) /\ c.fd = NoFd /\ ~c.sockW /\ ~c.escReq
    BY <2>2, CloseFacts DEF AtCommand
  <2>. HIDE DEF c
  <2>4. d \in Context
    BY <2>3 DEF Owned, Context, States
  <2>5. /\ d.fd = c.fd /\ d.open = c.open /\ d.alive = c.alive /\ d.link = c.link
        /\ d.sockW = c.sockW /\ d.escReq = c.escReq /\ d.state = "DONE"
    BY <2>3 DEF Owned, Context
  <2>6. Becomes(d)
    BY <2>1 DEF c
  <2>. HIDE DEF d
  <2>7. Good(d)
    BY <2>3, <2>4, <2>5 DEF Good, Owned
  <2>. QED BY <2>6, <2>7, BecomesGood
<1>5. CASE CmdAppReads
  <2>1. PICK y \in RungNoCall :
           Becomes([y EXCEPT !.ttyW = TRUE]) \/ Becomes([y EXCEPT !.quitReq = TRUE])
    BY <1>5 DEF CmdAppReads
  <2>2. AtCommand(y) /\ y.state = "CMD"
    BY <1>5, AtCommandNow DEF CmdAppReads, appReads
  <2>3. Alike(y, [y EXCEPT !.ttyW = TRUE]) /\ Alike(y, [y EXCEPT !.quitReq = TRUE])
    BY <2>2 DEF Alike, AtCommand, Owned, Context
  <2>. QED BY <2>1, <2>2, <2>3, AlikeAtCommand, AtCommandGood, BecomesGood
<1>6. ASSUME NEW ln \in Lines, CmdDispatches(ln) \/ CmdAppLine(ln)
      PROVE  IInv'
  <2>1. PICK y \in RungNoCall, w \in BOOLEAN, reqs \in BOOLEAN :
           \E z \in dispatch([y EXCEPT !.ttyW = w], ln, reqs) : Becomes(z)
    BY <1>6 DEF CmdDispatches, CmdAppLine
  <2>2. AtCommand(y) /\ y.state = "CMD"
    BY <1>6, AtCommandNow DEF CmdDispatches, CmdAppLine, appReads
  <2>3. Alike(y, [y EXCEPT !.ttyW = w])
    BY <2>2 DEF Alike, AtCommand, Owned, Context
  <2>. QED BY <2>1, <2>2, <2>3, AlikeAtCommand, DispatchGood, BecomesGood
<1>. QED BY <1>1, <1>2, <1>3, <1>4, <1>5, <1>6 DEF CmdStep

LEMMA DialStepIInv ==
  ASSUME IInv, DialStep
  PROVE  IInv'
<1>1. CASE DialCancels
  <2>1. Good(m2k_hangup(Now))
    BY HangupGood DEF IInv
  <2>2. m2k_hangup(Now) = noCarrier(m2k_sockDialAbort(Now))
    BY <1>1, NowFields DEF m2k_hangup, DialCancels
  <2>. QED BY <1>1, <2>1, <2>2, BecomesGood DEF DialCancels
<1>2. CASE DialSteps
  <2>1. PICK y \in m2k_sockDialProgress(Now), reqs \in BOOLEAN :
           Becomes(IF y.alive THEN stepEnterOnline(y, reqs)
                   ELSE IF Dialing(y) THEN y
                   ELSE noCarrier(y))
    BY <1>2 DEF DialSteps
  <2>2. Good(Now) /\ Now.state = "DIAL"
    BY <1>2, NowFields DEF IInv, DialSteps
  <2>3. Dialed(Now, y)
    BY <2>2, ProgressFacts
  <2>4. y.state = "DIAL" /\ Owned(y) /\ ~y.sockW /\ ~y.escReq /\ y.rings = 0
    BY <2>2, <2>3 DEF Dialed, Good
  <2>5. CASE y.alive
    BY <2>1, <2>4, <2>5, EnterOnlineGood, BecomesGood
  <2>6. CASE ~y.alive /\ Dialing(y)
    <3>1. Good(y)
      BY <2>3, <2>4, <2>6 DEF Dialed, Dialing, Good
    <3>. QED BY <2>1, <2>6, <3>1, BecomesGood
  <2>7. CASE ~y.alive /\ ~Dialing(y)
    <3>1. y.fd = NoFd
      BY <2>3, <2>4, <2>7 DEF Dialed, Dialing, Owned, Context
    <3>. QED BY <2>1, <2>4, <2>7, <3>1, NoCarrierGood, BecomesGood
  <2>. QED BY <2>5, <2>6, <2>7
<1>. QED BY <1>1, <1>2 DEF DialStep

LEMMA AnswerStepIInv ==
  ASSUME IInv, AnswerStep
  PROVE  IInv'
<1>1. AtCommand(Now) /\ Now.state = "ANSWER"
  BY NowFields, GoodAtCommand
  DEF IInv, AnswerStep, AnswerCancels, AnswerAccepts, AnswerTimesOut
<1>2. Good(noCarrier(Now)) /\ ~Now.alive
  BY <1>1, NoCarrierGood DEF AtCommand, IInv, Good
<1>3. CASE AnswerCancels
  BY <1>2, <1>3, BecomesGood DEF AnswerCancels
<1>4. CASE AnswerTimesOut
  BY <1>2, <1>4, BecomesGood DEF AnswerTimesOut
<1>5. CASE AnswerAccepts
  <2>1. PICK y \in answerAccept(Now), reqs \in BOOLEAN :
           Becomes(IF y.alive THEN stepEnterOnline(y, reqs) ELSE noCarrier(y))
    BY <1>5 DEF AnswerAccepts
  <2>2. AtCommand(y)
    BY <1>1, <1>2, <1>5, NowFields, AcceptFacts DEF AnswerAccepts
  <2>. QED BY <2>1, <2>2, EnterOnlineGood, NoCarrierGood, BecomesGood DEF AtCommand
<1>. QED BY <1>3, <1>4, <1>5 DEF AnswerStep

LEMMA OnlineStepIInv ==
  ASSUME IInv, OnlineStep
  PROVE  IInv'
<1>1. Good(Now) /\ Now.state = "ONLINE" /\ Now \in Context
  BY NowFields
  DEF IInv, Good, Owned, OnlineStep, OnlineEscapes, OnlineRelays, OnlineLoses,
      OnlineHangsUp, onlineIO
<1>2. CASE OnlineEscapes
  <2>. DEFINE y == [Now EXCEPT !.escReq = FALSE, !.guard = "off"]
              p == putTtyCmdstat(y, "OK")
              c == stepEnterCmd(p)
  <2>1. y \in Context
    BY <1>1 DEF Context
  <2>2. /\ y.fd = Now.fd /\ y.open = Now.open /\ y.alive = Now.alive
        /\ y.link = Now.link /\ ~y.escReq
    BY <1>1 DEF Context
  <2>. HIDE DEF y
  <2>3. p \in Context
    BY <2>1, PutType DEF Results
  <2>4. /\ p.fd = y.fd /\ p.open = y.open /\ p.alive = y.alive
        /\ p.link = y.link /\ p.escReq = y.escReq
    BY <2>1 DEF putTtyCmdstat, Context
  <2>. HIDE DEF p
  <2>5. c \in Context
    BY <2>3, EnterCmdType
  <2>6. /\ c.fd = p.fd /\ c.open = p.open /\ c.alive = p.alive
        /\ c.link = p.link /\ c.escReq = p.escReq /\ ~c.sockW /\ c.state = "CMD"
    BY <2>3 DEF stepEnterCmd, Context
  <2>7. Becomes(c)
    BY <1>2 DEF OnlineEscapes, p, y
  <2>. HIDE DEF c
  <2>8. Good(c)
    BY <1>1, <2>2, <2>4, <2>5, <2>6 DEF Good, Owned
  <2>. QED BY <2>7, <2>8, BecomesGood
<1>3. ASSUME NEW y \in escSeqHandle(Now)
      PROVE  Alike(Now, y)
  <2>1. CASE y = Now
    BY <1>1, <2>1 DEF Alike
  <2>2. CASE y = [Now EXCEPT !.esc = "P3", !.guard = "armed"]
    BY <1>1, <2>2 DEF Alike, Context
  <2>3. CASE y = [Now EXCEPT !.esc = "NORM", !.guard = "off"]
    BY <1>1, <2>3 DEF Alike, Context
  <2>4. CASE y = [Now EXCEPT !.esc = "NORM"]
    BY <1>1, <2>4 DEF Alike, Context
  <2>. QED BY <2>1, <2>2, <2>3, <2>4 DEF escSeqHandle
<1>4. CASE OnlineRelays
  <2>1. PICK y \in escSeqHandle(Now), sw \in BOOLEAN, tw \in BOOLEAN :
           Becomes([y EXCEPT !.sockW = sw, !.ttyW = tw])
    BY <1>4 DEF OnlineRelays
  <2>2. Good(y) /\ y.state = "ONLINE" /\ y \in Context
    BY <1>1, <1>3, AlikeGood DEF Alike
  <2>. DEFINE z == [y EXCEPT !.sockW = sw, !.ttyW = tw]
  <2>3. z \in Context
    BY <2>2 DEF Context
  <2>4. /\ z.fd = y.fd /\ z.open = y.open /\ z.alive = y.alive /\ z.link = y.link
        /\ z.rings = y.rings /\ z.state = y.state
    BY <2>2 DEF Context
  <2>5. Becomes(z)
    BY <2>1
  <2>. HIDE DEF z
  <2>6. Good(z)
    BY <2>2, <2>3, <2>4 DEF Good, Owned
  <2>. QED BY <2>5, <2>6, BecomesGood
<1>5. CASE OnlineLoses \/ OnlineHangsUp
  <2>1. ~Now.escReq
    BY <1>5, NowFields DEF OnlineLoses, OnlineHangsUp, onlineIO
  <2>2. CASE OnlineLoses
    <3>1. PICK y \in escSeqHandle(Now) : Becomes(noCarrier(sockClose(y)))
      BY <2>2 DEF OnlineLoses, sockShutdown
    <3>2. Owned(y) /\ ~y.escReq
      BY <1>1, <1>3, <2>1, AlikeGood DEF Alike, Good
    <3>3. Owned(sockClose(y)) /\ sockClose(y).fd = NoFd /\ ~sockClose(y).escReq
      BY <3>2, CloseFacts
    <3>. QED BY <3>1, <3>3, NoCarrierGood, BecomesGood
  <2>3. CASE OnlineHangsUp
    <3>. DEFINE y == sockClose(Now)
    <3>1. Owned(y) /\ y.fd = NoFd /\ ~y.escReq
      BY <1>1, <2>1, CloseFacts DEF Good
    <3>2. sockClose(y) = y
      BY <3>1 DEF sockClose
    <3>3. Becomes(noCarrier(y))
      BY <2>3, <3>2 DEF OnlineHangsUp, sockShutdown
    <3>. QED BY <3>1, <3>3, NoCarrierGood, BecomesGood
  <2>. QED BY <1>5, <2>2, <2>3
<1>. QED BY <1>2, <1>4, <1>5 DEF OnlineStep

LEMMA HostCallIInv ==
  ASSUME IInv, HostCall
  PROVE  IInv'
<1>1. Good(Now) /\ Now \in Context
  BY DEF IInv, Good, Owned
<1>2. CASE Hangup
  BY <1>1, <1>2, HangupGood, BecomesGood DEF Hangup
<1>3. CASE Escape
  <2>. DEFINE q == Now.escReq \/ state = "ONLINE"
              y == [Now EXCEPT !.escReq = q]
  <2>1. q \in BOOLEAN
    OBVIOUS
  <2>2. q => Now.state = "ONLINE"
    BY <1>1, NowFields DEF Good
  <2>3. Becomes(y)
    BY <1>3 DEF Escape
  <2>. HIDE DEF q
  <2>4. y \in Context
    BY <1>1, <2>1 DEF Context
  <2>5. /\ y.fd = Now.fd /\ y.open = Now.open /\ y.alive = Now.alive
        /\ y.link = Now.link /\ y.state = Now.state /\ y.dial = Now.dial
        /\ y.rp = Now.rp /\ y.sockW = Now.sockW /\ y.rings = Now.rings
        /\ y.quitReq = Now.quitReq /\ y.escReq = q
    BY <1>1 DEF Context
  <2>. HIDE DEF y
  <2>6. Good(y)
    BY <1>1, <2>2, <2>4, <2>5 DEF Good, Owned
  <2>. QED BY <2>3, <2>6, BecomesGood
<1>4. ASSUME NEW on \in BOOLEAN, SetDtr(on)
      PROVE  IInv'
  <2>. DEFINE x == [Now EXCEPT !.dtr = on]
  <2>1. Alike(Now, x)
    BY <1>1 DEF Alike, Context
  <2>2. Becomes(m2k_hangup(x)) \/ Becomes(x)
    BY <1>4 DEF SetDtr
  <2>. HIDE DEF x
  <2>. QED BY <1>1, <2>1, <2>2, AlikeGood, HangupGood, BecomesGood
<1>5. ASSUME NEW ln \in Lines, Atcmd(ln)
      PROVE  IInv'
  BY <1>1, <1>5, LexGood, BecomesGood DEF Atcmd
<1>6. CASE ReadToApp
  <2>1. Alike(Now, [Now EXCEPT !.ttyW = FALSE])
    BY <1>1 DEF Alike, Context
  <2>. QED BY <1>1, <1>6, <2>1, AlikeGood, BecomesGood DEF ReadToApp
<1>. QED BY <1>2, <1>3, <1>4, <1>5, <1>6 DEF HostCall

LEMMA WorldIInv ==
  ASSUME IInv, World
  PROVE  IInv'
<1>1. Good(Now) /\ Now \in Context
  BY DEF IInv, Good, Owned
<1>2. UNCHANGED ctxVars
  BY DEF World, PeerResponds, PeerCloses, CallerArrives, CallerLeaves,
         DeadlinePasses, RingDelayPasses, GuardTimePasses, TtyCloses
<1>3. callers \in 0..MaxCallers /\ link \in Links /\ late \in BOOLEAN
      /\ ringDue \in BOOLEAN /\ guard \in {"off", "armed", "past"} /\ ttyOpen \in BOOLEAN
  BY <1>1 DEF Now, Context
<1>4. /\ callers' \in 0..MaxCallers /\ link' \in Links /\ late' \in BOOLEAN
      /\ ringDue' \in BOOLEAN /\ guard' \in {"off", "armed", "past"} /\ ttyOpen' \in BOOLEAN
  <2>1. CASE PeerResponds
    BY <1>3, <2>1 DEF PeerResponds, Links
  <2>2. CASE PeerCloses
    BY <1>3, <2>2 DEF PeerCloses, Links
  <2>3. CASE CallerArrives
    BY <1>3, <2>3, BoundAssumption DEF CallerArrives
  <2>4. CASE CallerLeaves
    BY <1>3, <2>4, BoundAssumption DEF CallerLeaves
  <2>5. CASE DeadlinePasses \/ RingDelayPasses \/ GuardTimePasses \/ TtyCloses
    BY <1>3, <2>5 DEF DeadlinePasses, RingDelayPasses, GuardTimePasses, TtyCloses
  <2>. QED BY <2>1, <2>2, <2>3, <2>4, <2>5 DEF World
<1>5. link = "none" => link' = "none"
  BY DEF World, PeerResponds, PeerCloses, CallerArrives, CallerLeaves,
         DeadlinePasses, RingDelayPasses, GuardTimePasses, TtyCloses
<1>. DEFINE y == Now'
<1>6. y \in Context
  BY <1>1, <1>2, <1>4 DEF Now, Context, ctxVars
<1>7. /\ y.fd = fd /\ y.open = open /\ y.alive = alive /\ y.state = state
      /\ y.dial = dial /\ y.rp = rp /\ y.sockW = sockW /\ y.escReq = escReq
      /\ y.rings = rings /\ y.quitReq = quitReq /\ y.link = link'
  BY <1>2 DEF Now, ctxVars
<1>. HIDE DEF y
<1>8. Good(y)
  BY <1>1, <1>5, <1>6, <1>7, NowFields DEF Good, Owned
<1>. QED BY <1>8 DEF IInv, y

\* Every step keeps the invariant.
LEMMA InvarianceStep ==
  ASSUME IInv, [Next]_vars
  PROVE  IInv'
<1>1. CASE UNCHANGED vars
  <2>1. Now' = Now
    BY <1>1 DEF vars, lineVars, Now
  <2>. QED BY <2>1 DEF IInv
<1>2. CASE DoneStep
  <2>1. Now' = Now
    BY <1>2 DEF DoneStep, vars, lineVars, Now
  <2>. QED BY <2>1 DEF IInv
<1>. QED
  BY <1>1, <1>2, CmdStepIInv, DialStepIInv, AnswerStepIInv, OnlineStepIInv,
     HostCallIInv, WorldIInv
  DEF Next, m2k_step

\* The inductive invariant.
THEOREM Invariance == Spec => []IInv
<1>1. IInv /\ [Next]_vars => IInv'
  BY InvarianceStep
<1>. QED BY <1>1, InitIInv, PTL DEF Spec

\* Every variable keeps its type: no handler leaves the modem in a state the
\* next one does not know, and no counter leaves its range.
THEOREM TypeCorrect == Spec => []TypeOK
<1>1. IInv => TypeOK
  BY DEF IInv, Good, Owned, TypeOK
<1>. QED BY <1>1, Invariance, PTL

\* The kernel holds no descriptor for the modem but the one of sock.conn.fd:
\* neither a dial that fails, is cancelled or times out, nor a line that hangs
\* up, nor a failed answer leaks one.
THEOREM NoDescriptorLeaks == Spec => []NoFdLeak
<1>1. IInv => NoFdLeak
  BY NowFields DEF IInv, Good, Owned, NoFdLeak
<1>. QED BY <1>1, Invariance, PTL

\* A carrier has a socket, and outside DIAL a socket is a call that is up.
THEOREM SocketsAreCalls == Spec => []SocketIsCall
<1>1. IInv => SocketIsCall
  BY NowFields DEF IInv, Good, Owned, SocketIsCall
<1>. QED BY <1>1, Invariance, PTL

\* A dial in progress always has its list and an address to go on with.
THEOREM DialsHaveAddresses == Spec => []DialHasAddress
<1>1. IInv => DialHasAddress
  BY NowFields DEF IInv, Good, DialHasAddress
<1>. QED BY <1>1, Invariance, PTL

\* Outside ONLINE, where nothing drains it, nothing waits for the line: neither
\* an escape nor a lost call leaves bytes that m2k_pending_to_line() would count.
THEOREM NothingIsStale == Spec => []NothingStuckToLine
<1>1. IInv => NothingStuckToLine
  BY NowFields DEF IInv, Good, NothingStuckToLine
<1>. QED BY <1>1, Invariance, PTL

\* An escape request is served in the session it was made in, or forgotten with it.
THEOREM EscapesAreForThisCall == Spec => []EscapeIsForThisCall
<1>1. IInv => EscapeIsForThisCall
  BY NowFields DEF IInv, Good, EscapeIsForThisCall
<1>. QED BY <1>1, Invariance, PTL

\* A modem that dials or talks counts no rings: the next caller starts at zero.
THEOREM RingsEndOffHook == Spec => []OffHookNotRinging
<1>1. IInv => OffHookNotRinging
  BY NowFields DEF IInv, Good, OffHookNotRinging
<1>. QED BY <1>1, Invariance, PTL

-----------------------------------------------------------------------------
(* What one step does to the call: how it may take the modem from a to b. *)

Quiet(a, b)     == b.stat = a.stat
Answers(b)      == b.stat \in {"OK", "ERROR", "RING"} \/ (b.stat = "NO CARRIER" /\ ~b.alive)
Stays(a, b)     == /\ b.state = a.state /\ (b.alive => a.alive)
                   /\ Quiet(a, b) \/ (a.state = "CMD" /\ Answers(b))
GoesOffHook(a, b) == /\ a.state = "CMD" /\ b.state \in {"DIAL", "ANSWER"} /\ ~b.alive
                     /\ Quiet(a, b) \/ Answers(b)
Connects(a, b)  == /\ a.state \in {"CMD", "DIAL", "ANSWER"} /\ b.state = "ONLINE"
                   /\ b.alive /\ b.stat = "CONNECT"
GivesUp(a, b)   == /\ a.state \in {"DIAL", "ANSWER"} /\ b.state = "CMD"
                   /\ ~b.alive /\ b.stat = "NO CARRIER"
                   /\ a.state = "DIAL" => ~b.dial
Escaped(a, b)   == /\ b.alive = a.alive /\ b.fd = a.fd /\ b.stat = "OK"
                   /\ a.escReq \/ a.guard = "past"
Returns(a, b)   == /\ a.state = "ONLINE" /\ b.state = "CMD"
                   /\ Escaped(a, b) \/ (~b.alive /\ b.stat = "NO CARRIER")
Ends(a, b)      == /\ a.state = "CMD" /\ b.state = "DONE" /\ (b.alive => a.alive)
                   /\ Quiet(a, b) \/ Answers(b)

Moves(a, b) == \/ Stays(a, b) \/ GoesOffHook(a, b) \/ Connects(a, b)
               \/ GivesUp(a, b) \/ Returns(a, b) \/ Ends(a, b)

MoveOfCall(a, b) == Moves(a, b) /\ (a.alive /\ b.alive => b.fd = a.fd)

-----------------------------------------------------------------------------
(* The helpers. *)

LEMMA PutFields ==
  ASSUME NEW x \in Context, NEW r \in Results
  PROVE  LET y == putTtyCmdstat(x, r) IN
         /\ y \in Context /\ y.state = x.state /\ y.alive = x.alive
         /\ y.fd = x.fd /\ y.dial = x.dial /\ y.stat = r
BY PutType DEF putTtyCmdstat, Context

LEMMA NoCarrierFields ==
  ASSUME NEW x \in Context
  PROVE  LET y == noCarrier(x) IN
         /\ y.state = "CMD" /\ y.alive = x.alive /\ y.fd = x.fd
         /\ y.dial = x.dial /\ y.stat = "NO CARRIER"
<1>. DEFINE p == putTtyCmdstat(x, "NO CARRIER")
<1>1. /\ p \in Context /\ p.alive = x.alive /\ p.fd = x.fd /\ p.dial = x.dial
      /\ p.stat = "NO CARRIER"
  BY PutFields DEF Results
<1>. DEFINE y == stepEnterCmd(p)
<1>2. noCarrier(x) = y
  BY DEF noCarrier
<1>. HIDE DEF p
<1>3. /\ y.state = "CMD" /\ y.alive = p.alive /\ y.fd = p.fd
      /\ y.dial = p.dial /\ y.stat = p.stat
  BY <1>1 DEF stepEnterCmd, Context
<1>. HIDE DEF y
<1>. QED BY <1>1, <1>2, <1>3

LEMMA EnterOnlineFields ==
  ASSUME NEW x \in Context, NEW reqs
  PROVE  LET y == stepEnterOnline(x, reqs) IN
         /\ y.state = "ONLINE" /\ y.alive = x.alive /\ y.fd = x.fd
         /\ y.stat = "CONNECT"
<1>. DEFINE p == putTtyCmdstat(x, "CONNECT")
<1>1. p \in Context /\ p.alive = x.alive /\ p.fd = x.fd /\ p.stat = "CONNECT"
  BY PutFields DEF Results
<1>2. stepEnterOnline(x, reqs) =
        [p EXCEPT !.sockW = reqs, !.esc = "NORM", !.rings = 0, !.late = FALSE,
                  !.state = "ONLINE"]
  BY DEF stepEnterOnline
<1>. HIDE DEF p
<1>. QED BY <1>1, <1>2 DEF Context

LEMMA LexFields ==
  ASSUME NEW x, Owned(x), NEW ln \in Lines
  PROVE  LET z == cmdLex(x, ln) IN
         /\ z.state = x.state /\ (z.alive => x.alive)
         /\ z.dial = x.dial /\ z.stat = x.stat
         /\ ~ln.hang /\ ~ln.quit => z.alive = x.alive /\ z.fd = x.fd
         /\ z.alive => z.fd = x.fd
<1>. DEFINE y == IF (ln.hang /\ x.alive) \/ ln.quit THEN sockClose(x) ELSE x
            q == y.quitReq \/ ln.quit
            a == written(y.s0, ln.s0)
            b == written(y.s1, ln.s1)
            c == written(y.s7, ln.s7)
<1>1. /\ y \in Context /\ y.state = x.state /\ y.dial = x.dial /\ y.stat = x.stat
      /\ ~y.alive \/ (y.alive = x.alive /\ y.fd = x.fd)
      /\ ~ln.hang /\ ~ln.quit => y = x
  BY CloseFacts DEF Owned
<1>2. cmdLex(x, ln) = [y EXCEPT !.quitReq = q, !.s0 = a, !.s1 = b, !.s7 = c]
  BY DEF cmdLex
<1>. HIDE DEF y
<1>3. LET z == cmdLex(x, ln) IN
      /\ z.state = y.state /\ z.alive = y.alive /\ z.fd = y.fd /\ z.dial = y.dial
      /\ z.stat = y.stat
  BY <1>1, <1>2 DEF Context
<1>. QED BY <1>1, <1>3

\* What m2k_hangup() does, in whatever state it is called.
LEMMA HangupMoves ==
  ASSUME NEW x, Good(x)
  PROVE  MoveOfCall(x, m2k_hangup(x))
<1>1. x \in Context /\ Owned(x)
  BY DEF Good, Owned
<1>2. CASE x.state = "DIAL"
  <2>. DEFINE d == [x EXCEPT !.dial = FALSE]
              z == sockClose(d)
  <2>1. d \in Context /\ ~d.dial
    BY <1>1 DEF Context
  <2>2. d.fd = x.fd /\ d.open = x.open /\ d.alive = x.alive /\ d.link = x.link
    BY <1>1 DEF Context
  <2>. HIDE DEF d
  <2>3. Owned(d)
    BY <1>1, <2>1, <2>2 DEF Owned
  <2>4. z \in Context /\ ~z.alive /\ ~z.dial
    BY <2>1, <2>3, CloseFacts DEF Owned
  <2>. HIDE DEF z
  <2>5. m2k_hangup(x) = noCarrier(z)
    BY <1>2 DEF m2k_hangup, m2k_sockDialAbort, sockShutdown, z, d
  <2>. QED BY <1>2, <2>4, <2>5, NoCarrierFields DEF MoveOfCall, Moves, GivesUp
<1>3. CASE x.state = "ANSWER"
  <2>1. m2k_hangup(x) = noCarrier(x) /\ ~x.alive
    BY <1>3 DEF m2k_hangup, Good
  <2>. QED BY <1>1, <1>3, <2>1, NoCarrierFields DEF MoveOfCall, Moves, GivesUp
<1>4. CASE x.state # "DIAL" /\ x.state # "ANSWER"
  <2>1. m2k_hangup(x) = sockClose(x)
    BY <1>4 DEF m2k_hangup, sockShutdown
  <2>2. ~sockClose(x).alive /\ sockClose(x).state = x.state /\ sockClose(x).stat = x.stat
    BY <1>1, CloseFacts
  <2>. QED BY <2>1, <2>2 DEF MoveOfCall, Moves, Stays, Quiet
<1>. QED BY <1>2, <1>3, <1>4

\* Whatever the tests of a ring check decide, without an answer the call is the same.
LEMMA RungFields ==
  ASSUME IInv, state = "CMD", NEW y \in RungNoCall
  PROVE  /\ Owned(y) /\ y \in Context /\ y.state = "CMD" /\ AtCommand(y)
         /\ y.alive = alive /\ y.fd = fd /\ y.stat \in {stat, "RING"}
<1>1. AtCommand(y) /\ y.state = "CMD" /\ y.alive = alive /\ y.stat \in {stat, "RING"}
  BY AtCommandNow, NowFields DEF RungNoCall
<1>2. AtCommand(Now)
  BY NowFields, GoodAtCommand DEF IInv
<1>3. CASE alive
  <2>1. ~answerPending(Now)
    BY <1>3, NowFields DEF answerPending
  <2>2. y \in {Now, [Now EXCEPT !.s1 = 0, !.rings = 0]}
    BY <1>3, <2>1, NowFields, Zenon DEF RungNoCall, cmdRingCheck
  <2>3. y.fd = Now.fd
    BY <1>1, <1>2, <2>2 DEF AtCommand, Owned, Context
  <2>. QED BY <1>1, <2>3, NowFields DEF AtCommand, Owned
<1>4. CASE ~alive
  BY <1>1, <1>2, <1>4, NowFields DEF AtCommand, Owned
<1>. QED BY <1>1, <1>3, <1>4, NowFields DEF AtCommand, Owned

-----------------------------------------------------------------------------
(* Command lines. *)

(* What a verb makes of the call it finds: refused or ended at once, begun or
   waited for, connected, resumed. *)
Outcome(z, y) ==
    \/ y.state = "CMD" /\ y.alive = z.alive /\ y.fd = z.fd /\ (Quiet(z, y) \/ Answers(y))
    \/ /\ ~z.alive /\ y.state \in {"CMD", "DIAL", "ANSWER"} /\ ~y.alive
       /\ Quiet(z, y) \/ Answers(y)
    \/ ~z.alive /\ y.state = "ONLINE" /\ y.alive /\ y.stat = "CONNECT"
    \/ z.alive /\ y.state = "ONLINE" /\ y.alive /\ y.fd = z.fd /\ y.stat = "CONNECT"

LEMMA PutOutcome ==
  ASSUME NEW z, AtCommand(z), z.state = "CMD", NEW r \in {"OK", "ERROR", "NO CARRIER"},
         r = "NO CARRIER" => ~z.alive
  PROVE  Outcome(z, putTtyCmdstat(z, r))
<1>. DEFINE y == putTtyCmdstat(z, r)
<1>1. z \in Context /\ r \in Results
  BY DEF AtCommand, Owned, Results
<1>2. y.state = "CMD" /\ y.alive = z.alive /\ y.fd = z.fd /\ y.stat = r
  BY <1>1, PutFields
<1>. HIDE DEF y
<1>3. Answers(y)
  BY <1>2 DEF Answers
<1>4. Outcome(z, y)
  BY <1>2, <1>3, Zenon DEF Outcome
<1>. QED BY <1>4 DEF y

LEMMA DialOutcome ==
  ASSUME NEW z, AtCommand(z), z.state = "CMD", NEW reqs, NEW y \in dialCommand(z, reqs)
  PROVE  Outcome(z, y)
<1>1. CASE z.alive
  BY <1>1, PutOutcome DEF dialCommand, Results
<1>2. CASE ~z.alive
  <2>1. PICK d \in m2k_sockDialStart(z) :
           y = IF d.alive THEN stepEnterOnline(d, reqs)
               ELSE IF d.dial THEN stepEnterDial(d)
               ELSE putTtyCmdstat(d, "NO CARRIER")
    BY <1>2 DEF dialCommand
  <2>2. d \in Context /\ d.state = "CMD" /\ d.stat = z.stat
    BY <1>2, StartFacts DEF Dialed, Owned
  <2>3. CASE d.alive
    BY <1>2, <2>1, <2>2, <2>3, EnterOnlineFields DEF Outcome
  <2>4. CASE ~d.alive /\ d.dial
    <3>1. y = stepEnterDial(d)
      BY <2>1, <2>4
    <3>2. y.state = "DIAL" /\ y.alive = d.alive /\ y.stat = d.stat
      BY <2>2, <3>1 DEF stepEnterDial, Context
    <3>. QED BY <1>2, <2>2, <2>4, <3>2 DEF Outcome, Quiet
  <2>5. CASE ~d.alive /\ ~d.dial
    <3>1. y = putTtyCmdstat(d, "NO CARRIER")
      BY <2>1, <2>5
    <3>2. y.state = "CMD" /\ y.alive = d.alive /\ y.stat = "NO CARRIER"
      BY <2>2, <3>1, PutFields DEF Results
    <3>. QED BY <1>2, <2>5, <3>2 DEF Outcome, Answers
  <2>. QED BY <2>3, <2>4, <2>5
<1>. QED BY <1>1, <1>2

LEMMA OnlineOutcome ==
  ASSUME NEW z, AtCommand(z), z.state = "CMD", NEW reqs, NEW y \in onlineCommand(z, reqs)
  PROVE  Outcome(z, y)
<1>1. CASE z.alive
  <2>1. y = stepEnterOnline(z, reqs)
    BY <1>1 DEF onlineCommand
  <2>2. z \in Context
    BY DEF AtCommand, Owned
  <2>. QED BY <1>1, <2>1, <2>2, EnterOnlineFields DEF Outcome
<1>2. CASE ~z.alive
  BY <1>2, PutOutcome DEF onlineCommand, Results
<1>. QED BY <1>1, <1>2

LEMMA AnswerOutcome ==
  ASSUME NEW z, AtCommand(z), z.state = "CMD", NEW reqs, NEW y \in answerCommand(z, reqs)
  PROVE  Outcome(z, y)
<1>1. z \in Context
  BY DEF AtCommand, Owned
<1>. DEFINE Refused  == \/ y = putTtyCmdstat(z, "ERROR")
                        \/ y = putTtyCmdstat(z, "NO CARRIER") /\ ~z.alive
            Accepted == answerPending(z) /\
                        \E w \in answerAccept(z) :
                           y = IF w.alive THEN stepEnterOnline(w, reqs)
                               ELSE putTtyCmdstat(w, "NO CARRIER")
            Waits    == y = stepEnterAnswer(z) /\ ~z.alive
<1>2. CASE Refused
  BY <1>2, PutOutcome
<1>3. CASE Accepted
  <2>1. PICK w \in answerAccept(z) :
           y = IF w.alive THEN stepEnterOnline(w, reqs)
               ELSE putTtyCmdstat(w, "NO CARRIER")
    BY <1>3
  <2>2. ~z.alive /\ w \in Context /\ w.state = "CMD"
    BY <1>3, AcceptFacts DEF answerPending, AtCommand, Owned
  <2>3. CASE w.alive
    BY <2>1, <2>2, <2>3, EnterOnlineFields DEF Outcome
  <2>4. CASE ~w.alive
    <3>1. y = putTtyCmdstat(w, "NO CARRIER")
      BY <2>1, <2>4
    <3>2. y.state = "CMD" /\ y.alive = w.alive /\ y.stat = "NO CARRIER"
      BY <2>2, <3>1, PutFields DEF Results
    <3>. QED BY <2>2, <2>4, <3>2 DEF Outcome, Answers
  <2>. QED BY <2>3, <2>4
<1>4. CASE Waits
  <2>1. y.state = "ANSWER" /\ y.alive = z.alive /\ y.stat = z.stat
    BY <1>1, <1>4 DEF stepEnterAnswer, Context
  <2>. QED BY <1>4, <2>1 DEF Outcome, Quiet
<1>5. Refused \/ Accepted \/ Waits
  BY DEF answerCommand
<1>. HIDE DEF Refused, Accepted, Waits
<1>. QED BY <1>2, <1>3, <1>4, <1>5

\* A line that does not hang up leaves a call what it is.
LEMMA DispatchMoves ==
  ASSUME NEW x, AtCommand(x), x.state = "CMD", NEW ln \in Lines,
         NEW reqs \in BOOLEAN, NEW y \in dispatch(x, ln, reqs)
  PROVE  /\ Moves(x, y)
         /\ ~ln.hang /\ ~ln.quit => (x.alive /\ y.alive => y.fd = x.fd)
<1>. DEFINE e == [x EXCEPT !.eol = FALSE]
            z == cmdLex(e, ln)
<1>1. x \in Context
  BY DEF AtCommand, Owned
<1>2. Alike(x, e) /\ e.stat = x.stat
  BY <1>1 DEF Alike, Context
<1>3. \/ y \in dialCommand(z, reqs)
      \/ y \in onlineCommand(z, reqs)
      \/ y \in answerCommand(z, reqs)
      \/ y = z
      \/ y = putTtyCmdstat(z, ln.stat) /\ ln.stat \in {"OK", "ERROR"}
  BY WrittenType, <1>1 DEF dispatch, Cmdstats
<1>. HIDE DEF e
<1>4. AtCommand(e) /\ Owned(e) /\ e.state = "CMD" /\ e.alive = x.alive /\ e.fd = x.fd
      /\ e.stat = x.stat
  BY <1>2, AlikeAtCommand DEF Alike, AtCommand
<1>5. Good(z) /\ z.state = "CMD"
  BY <1>4, AtCommandGood, LexGood
<1>6. /\ z.alive => x.alive
      /\ z.stat = x.stat
      /\ ~ln.hang /\ ~ln.quit => z.alive = x.alive /\ z.fd = x.fd
  BY <1>4, LexFields
<1>. HIDE DEF z
<1>7. AtCommand(z)
  BY <1>5, GoodAtCommand
<1>8. Outcome(z, y)
  <2>1. y = z => Outcome(z, y)
    BY <1>5 DEF Outcome, Quiet
  <2>. QED
    BY <1>3, <1>5, <1>7, <2>1, PutOutcome, DialOutcome, OnlineOutcome, AnswerOutcome
    DEF Results
<1>9. Moves(x, y)
  BY <1>6, <1>8 DEF Outcome, Moves, Stays, GoesOffHook, Connects, Quiet
<1>10. ASSUME ~ln.hang, ~ln.quit, x.alive, y.alive
       PROVE  y.fd = x.fd
  BY <1>6, <1>8, <1>10 DEF Outcome
<1>. QED BY <1>9, <1>10

-----------------------------------------------------------------------------
(* The steps.  Becomes(y) makes y the next Now, if it is a context. *)

LEMMA BecomesNow ==
  ASSUME NEW y \in Context, Becomes(y)
  PROVE  Now' = y
BY DEF Now, Becomes, Context

LEMMA DialStepMoves ==
  ASSUME IInv, DialStep
  PROVE  MoveOfCall(Now, Now')
<1>1. Good(Now) /\ Now \in Context
  BY DEF IInv, Good, Owned
<1>2. Now.state = "DIAL" /\ ~Now.alive
  BY <1>1, NowFields DEF DialStep, DialCancels, DialSteps, Good
<1>3. CASE DialCancels
  <2>1. Becomes(m2k_hangup(Now))
    BY <1>2, <1>3 DEF m2k_hangup, DialCancels
  <2>2. m2k_hangup(Now) \in Context
    BY <1>1, HangupGood DEF Good, Owned
  <2>. QED BY <1>1, <2>1, <2>2, BecomesNow, HangupMoves
<1>4. CASE DialSteps
  <2>1. PICK y \in m2k_sockDialProgress(Now), reqs \in BOOLEAN :
           Becomes(IF y.alive THEN stepEnterOnline(y, reqs)
                   ELSE IF Dialing(y) THEN y
                   ELSE noCarrier(y))
    BY <1>4 DEF DialSteps
  <2>0. Dialed(Now, y)
    BY <1>1, <1>2, <2>1, ProgressFacts
  <2>2. y \in Context /\ y.state = "DIAL" /\ y.stat = Now.stat
        /\ (y.dial /\ ~y.alive => Dialing(y))
    <3>1. y \in Context
      BY <2>0 DEF Dialed, Owned
    <3>2. y.rp \in Int
      BY <3>1, BoundAssumption DEF Context
    <3>3. y.rp >= 1 => y.rp > 0
      BY <3>2
    <3>4. y.dial /\ ~y.alive => y.rp >= 1
      BY <2>0 DEF Dialed
    <3>5. y.dial /\ ~y.alive => Dialing(y)
      BY <3>3, <3>4 DEF Dialing
    <3>. QED BY <1>2, <2>0, <3>1, <3>5 DEF Dialed
  <2>3. CASE y.alive
    <3>1. stepEnterOnline(y, reqs) \in Context
      BY <2>2, EnterOnlineType
    <3>2. Now' = stepEnterOnline(y, reqs)
      BY <2>1, <2>3, <3>1, BecomesNow
    <3>. QED BY <1>2, <2>2, <2>3, <3>2, EnterOnlineFields DEF MoveOfCall, Moves, Connects
  <2>4. CASE ~y.alive /\ y.dial
    <3>1. Now' = y
      BY <2>1, <2>2, <2>4, BecomesNow
    <3>. QED BY <1>2, <2>2, <2>4, <3>1 DEF MoveOfCall, Moves, Stays, Quiet
  <2>5. CASE ~y.alive /\ ~y.dial
    <3>0. ~Dialing(y)
      BY <2>5 DEF Dialing
    <3>1. noCarrier(y) \in Context
      BY <2>2, PutType, EnterCmdType DEF noCarrier, Results
    <3>2. Now' = noCarrier(y)
      BY <2>1, <2>5, <3>0, <3>1, BecomesNow
    <3>. QED BY <1>2, <2>2, <2>5, <3>2, NoCarrierFields DEF MoveOfCall, Moves, GivesUp
  <2>. QED BY <2>3, <2>4, <2>5
<1>. QED BY <1>3, <1>4 DEF DialStep

LEMMA AnswerStepMoves ==
  ASSUME IInv, AnswerStep
  PROVE  MoveOfCall(Now, Now')
<1>1. Good(Now) /\ Now.state = "ANSWER" /\ ~Now.alive /\ AtCommand(Now)
  BY NowFields, GoodAtCommand
  DEF IInv, Good, AnswerStep, AnswerCancels, AnswerAccepts, AnswerTimesOut
<1>2. ASSUME NEW y \in Context, ~y.alive, Now' = noCarrier(y)
      PROVE  MoveOfCall(Now, Now')
  BY <1>1, <1>2, NoCarrierFields DEF MoveOfCall, Moves, GivesUp
<1>3. ASSUME NEW y \in Context
      PROVE  noCarrier(y) \in Context
  BY PutType, EnterCmdType DEF noCarrier, Results
<1>4. CASE AnswerCancels \/ AnswerTimesOut
  <2>1. Now \in Context /\ Becomes(noCarrier(Now))
    BY <1>1, <1>4 DEF Good, Owned, AnswerCancels, AnswerTimesOut
  <2>2. Now' = noCarrier(Now)
    BY <1>3, <2>1, BecomesNow
  <2>. QED BY <1>1, <1>2, <2>1, <2>2
<1>5. CASE AnswerAccepts
  <2>1. PICK y \in answerAccept(Now), reqs \in BOOLEAN :
           Becomes(IF y.alive THEN stepEnterOnline(y, reqs) ELSE noCarrier(y))
    BY <1>5 DEF AnswerAccepts
  <2>2. y \in Context
    BY <1>1, <1>5, NowFields, AcceptFacts DEF AnswerAccepts, AtCommand, Owned
  <2>3. CASE y.alive
    <3>1. stepEnterOnline(y, reqs) \in Context
      BY <2>2, EnterOnlineType
    <3>2. Now' = stepEnterOnline(y, reqs)
      BY <2>1, <2>3, <3>1, BecomesNow
    <3>. QED BY <1>1, <2>2, <2>3, <3>2, EnterOnlineFields DEF MoveOfCall, Moves, Connects
  <2>4. CASE ~y.alive
    <3>1. Now' = noCarrier(y)
      BY <1>3, <2>1, <2>2, <2>4, BecomesNow
    <3>. QED BY <1>2, <2>2, <2>4, <3>1
  <2>. QED BY <2>3, <2>4
<1>. QED BY <1>4, <1>5 DEF AnswerStep

\* A step that stays in ONLINE leaves the carrier alone.
OnlineMove(a, b) == MoveOfCall(a, b) /\ (b.state = a.state => b.alive = a.alive)

LEMMA OnlineStepMoves ==
  ASSUME IInv, OnlineStep
  PROVE  OnlineMove(Now, Now')
<1>1. Good(Now) /\ Now.state = "ONLINE" /\ Now \in Context /\ Owned(Now)
  BY NowFields
  DEF IInv, Good, Owned, OnlineStep, OnlineEscapes, OnlineRelays, OnlineLoses,
      OnlineHangsUp, onlineIO
<1>2. CASE OnlineEscapes
  <2>. DEFINE y == [Now EXCEPT !.escReq = FALSE, !.guard = "off"]
              p == putTtyCmdstat(y, "OK")
              c == stepEnterCmd(p)
  <2>1. y \in Context /\ y.alive = Now.alive /\ y.fd = Now.fd
    BY <1>1 DEF Context
  <2>2. Becomes(c) /\ (Now.escReq \/ Now.guard = "past")
    BY <1>2, NowFields DEF OnlineEscapes
  <2>. HIDE DEF y
  <2>3. p \in Context /\ p.alive = y.alive /\ p.fd = y.fd /\ p.stat = "OK"
    BY <2>1, PutFields DEF Results
  <2>. HIDE DEF p
  <2>4. c \in Context
    BY <2>3, EnterCmdType
  <2>5. c.state = "CMD" /\ c.alive = p.alive /\ c.fd = p.fd /\ c.stat = p.stat
    BY <2>3 DEF stepEnterCmd, Context
  <2>. HIDE DEF c
  <2>6. Now' = c
    BY <2>2, <2>4, BecomesNow
  <2>. QED
    BY <1>1, <2>1, <2>2, <2>3, <2>5, <2>6 DEF OnlineMove, MoveOfCall, Moves, Returns, Escaped
<1>3. ASSUME NEW y \in escSeqHandle(Now)
      PROVE  Owned(y) /\ y \in Context /\ y.state = Now.state
             /\ y.alive = Now.alive /\ y.fd = Now.fd /\ y.stat = Now.stat
  <2>1. \/ y = Now
        \/ y = [Now EXCEPT !.esc = "P3", !.guard = "armed"]
        \/ y = [Now EXCEPT !.esc = "NORM", !.guard = "off"]
        \/ y = [Now EXCEPT !.esc = "NORM"]
    BY DEF escSeqHandle
  <2>2. Alike(Now, y)
    <3>1. y = Now => Alike(Now, y)
      BY <1>1 DEF Alike
    <3>2. y = [Now EXCEPT !.esc = "P3", !.guard = "armed"] => Alike(Now, y)
      BY <1>1, ZenonT(60) DEF Alike, Context
    <3>3. y = [Now EXCEPT !.esc = "NORM", !.guard = "off"] => Alike(Now, y)
      BY <1>1, ZenonT(60) DEF Alike, Context
    <3>4. y = [Now EXCEPT !.esc = "NORM"] => Alike(Now, y)
      BY <1>1 DEF Alike, Context
    <3>. QED BY <2>1, <3>1, <3>2, <3>3, <3>4
  <2>3. y.stat = Now.stat
    BY <1>1, <2>1 DEF Context
  <2>. QED BY <1>1, <2>2, <2>3, AlikeGood DEF Good, Alike
<1>4. CASE OnlineRelays
  <2>1. PICK y \in escSeqHandle(Now), sw \in BOOLEAN, tw \in BOOLEAN :
           Becomes([y EXCEPT !.sockW = sw, !.ttyW = tw])
    BY <1>4 DEF OnlineRelays
  <2>. DEFINE z == [y EXCEPT !.sockW = sw, !.ttyW = tw]
  <2>2. y \in Context /\ y.state = Now.state /\ y.alive = Now.alive /\ y.fd = Now.fd
        /\ y.stat = Now.stat
    BY <1>3
  <2>3. z \in Context /\ z.state = y.state /\ z.alive = y.alive /\ z.fd = y.fd
        /\ z.stat = y.stat
    BY <2>2 DEF Context
  <2>4. Now' = z
    BY <2>1, <2>3, BecomesNow
  <2>. HIDE DEF z
  <2>. QED BY <2>2, <2>3, <2>4 DEF OnlineMove, MoveOfCall, Moves, Stays, Quiet
<1>5. ASSUME NEW y, Owned(y), Becomes(noCarrier(sockClose(y)))
      PROVE  OnlineMove(Now, Now')
  <2>. DEFINE z == sockClose(y)
  <2>1. z \in Context /\ ~z.alive
    BY <1>5, CloseFacts DEF Owned
  <2>2. Becomes(noCarrier(z))
    BY <1>5
  <2>. HIDE DEF z
  <2>3. noCarrier(z) \in Context
    BY <2>1, PutType, EnterCmdType DEF noCarrier, Results
  <2>4. Now' = noCarrier(z)
    BY <2>2, <2>3, BecomesNow
  <2>. QED BY <1>1, <2>1, <2>4, NoCarrierFields DEF OnlineMove, MoveOfCall, Moves, Returns
<1>6. CASE OnlineLoses
  <2>1. PICK y \in escSeqHandle(Now) : Becomes(noCarrier(sockClose(y)))
    BY <1>6 DEF OnlineLoses, sockShutdown
  <2>. QED BY <1>3, <1>5, <2>1
<1>7. CASE OnlineHangsUp
  <2>1. Owned(sockClose(Now))
    BY <1>1, CloseFacts
  <2>. QED BY <1>5, <1>7, <2>1 DEF OnlineHangsUp, sockShutdown
<1>. QED BY <1>2, <1>4, <1>6, <1>7 DEF OnlineStep

\* The exception of LiveCallKept.
LineHangsUp == \E ln \in Lines : /\ ln.hang \/ ln.quit
                                 /\ CmdDispatches(ln) \/ CmdAppLine(ln)

LEMMA QuitFields ==
  ASSUME NEW x \in Context, x.state = "CMD"
  PROVE  LET y == quitCheck(x) IN
         /\ y \in Context /\ y.state \in {"CMD", "DONE"}
         /\ y.alive = x.alive /\ y.fd = x.fd /\ y.stat = x.stat
BY DEF quitCheck, Context, States

LEMMA CmdStepMoves ==
  ASSUME IInv, CmdStep
  PROVE  MoveOfCall(Now, Now') \/ (Moves(Now, Now') /\ LineHangsUp)
<1>1. Now \in Context /\ Now.state = "CMD" /\ state = "CMD" /\ AtCommand(Now)
  BY NowFields, GoodAtCommand
  DEF IInv, Good, Owned, CmdStep, CmdAnswers, CmdIdle, CmdReads, CmdHangsUp,
      CmdAppReads, CmdDispatches, CmdAppLine, appReads
<1>2. ASSUME NEW y \in RungNoCall
      PROVE  /\ y \in Context /\ y.state = "CMD" /\ AtCommand(y)
             /\ y.alive = Now.alive /\ y.fd = Now.fd /\ y.stat \in {Now.stat, "RING"}
  BY <1>1, RungFields, NowFields
\* Steps that change nothing of the call, but may end the session.
<1>3. ASSUME NEW z \in Context, z.state \in {"CMD", "DONE"}, z.alive = Now.alive,
             z.fd = Now.fd, z.stat \in {Now.stat, "RING"}, Becomes(z)
      PROVE  MoveOfCall(Now, Now')
  BY <1>1, <1>3, BecomesNow DEF MoveOfCall, Moves, Stays, Ends, Quiet, Answers
<1>q. ASSUME NEW z \in Context, z.state = "CMD", z.alive = Now.alive,
             z.fd = Now.fd, z.stat \in {Now.stat, "RING"}, Becomes(quitCheck(z))
      PROVE  MoveOfCall(Now, Now')
  <2>. DEFINE d == quitCheck(z)
  <2>1. /\ d \in Context /\ d.state \in {"CMD", "DONE"}
        /\ d.alive = z.alive /\ d.fd = z.fd /\ d.stat = z.stat
    BY <1>q, QuitFields
  <2>2. Becomes(d)
    BY <1>q
  <2>. HIDE DEF d
  <2>3. d.alive = Now.alive /\ d.fd = Now.fd /\ d.stat \in {Now.stat, "RING"}
    BY <1>q, <2>1
  <2>. QED BY <1>3, <2>1, <2>2, <2>3
<1>4. CASE CmdAnswers
  <2>1. PICK y \in cmdRingCheck(Now), reqs \in BOOLEAN :
           y.alive /\ Becomes(stepEnterOnline(y, reqs))
    BY <1>4 DEF CmdAnswers
  <2>2. ~Now.alive /\ y \in Context
    BY <1>1, <1>4, RingFacts, NowFields DEF CmdAnswers, AtCommand, Owned
  <2>3. Now' = stepEnterOnline(y, reqs)
    BY <2>1, <2>2, EnterOnlineType, BecomesNow
  <2>. QED
    BY <1>1, <2>1, <2>2, <2>3, EnterOnlineFields DEF MoveOfCall, Moves, Connects
<1>5. CASE CmdIdle
  <2>1. PICK y \in RungNoCall :
           Becomes(quitCheck(y)) \/ Becomes(quitCheck([y EXCEPT !.ttyW = FALSE]))
    BY <1>5 DEF CmdIdle
  <2>. DEFINE w == [y EXCEPT !.ttyW = FALSE]
  <2>0. y \in Context
    BY <1>2
  <2>2. w \in Context /\ w.state = y.state /\ w.alive = y.alive /\ w.fd = y.fd
        /\ w.stat = y.stat
    BY <2>0 DEF Context
  <2>. HIDE DEF w
  <2>3. y.state = "CMD" /\ y.alive = Now.alive /\ y.fd = Now.fd
        /\ y.stat \in {Now.stat, "RING"}
    BY <1>2
  <2>4. CASE Becomes(quitCheck(y))
    BY <1>q, <2>0, <2>3, <2>4
  <2>5. CASE Becomes(quitCheck(w))
    <3>1. /\ w.state = "CMD" /\ w.alive = Now.alive /\ w.fd = Now.fd
          /\ w.stat \in {Now.stat, "RING"}
      BY <2>2, <2>3
    <3>. QED BY <1>q, <2>2, <2>5, <3>1
  <2>. QED BY <2>1, <2>4, <2>5 DEF w
<1>6. CASE CmdReads
  <2>1. PICK y \in RungNoCall :
           \/ \E e \in {eol, TRUE} : Becomes([y EXCEPT !.eol = e, !.ttyW = TRUE])
           \/ \E w \in {y.ttyW, TRUE}, q \in {y.quitReq, TRUE} :
                 Becomes(quitCheck([y EXCEPT !.eol = FALSE, !.ttyW = w, !.quitReq = q]))
    BY <1>6 DEF CmdReads
  <2>2. eol \in BOOLEAN
    BY <1>1, NowFields DEF Context
  <2>3. CASE \E e \in {eol, TRUE} : Becomes([y EXCEPT !.eol = e, !.ttyW = TRUE])
    <3>1. PICK e \in BOOLEAN : Becomes([y EXCEPT !.eol = e, !.ttyW = TRUE])
      BY <2>2, <2>3
    <3>. DEFINE w == [y EXCEPT !.eol = e, !.ttyW = TRUE]
    <3>2. w \in Context /\ w.state = y.state /\ w.alive = y.alive /\ w.fd = y.fd
          /\ w.stat = y.stat
      BY <1>2, ZenonT(60) DEF Context
    <3>. HIDE DEF w
    <3>. QED BY <1>2, <1>3, <3>1, <3>2 DEF w
  <2>4. CASE \E w \in {y.ttyW, TRUE}, q \in {y.quitReq, TRUE} :
                Becomes(quitCheck([y EXCEPT !.eol = FALSE, !.ttyW = w, !.quitReq = q]))
    <3>1. PICK w \in {y.ttyW, TRUE}, q \in {y.quitReq, TRUE} :
             Becomes(quitCheck([y EXCEPT !.eol = FALSE, !.ttyW = w, !.quitReq = q]))
      BY <2>4
    <3>. DEFINE z == [y EXCEPT !.eol = FALSE, !.ttyW = w, !.quitReq = q]
    <3>2. y \in Context /\ w \in BOOLEAN /\ q \in BOOLEAN
      BY <1>2 DEF Context
    <3>3. z \in Context /\ z.state = y.state /\ z.alive = y.alive /\ z.fd = y.fd
          /\ z.stat = y.stat
      BY <3>2, ZenonT(60) DEF Context
    <3>4. Becomes(quitCheck(z))
      BY <3>1
    <3>. HIDE DEF z
    <3>5. /\ z.state = "CMD" /\ z.alive = Now.alive /\ z.fd = Now.fd
          /\ z.stat \in {Now.stat, "RING"}
      BY <1>2, <3>3
    <3>. QED BY <1>q, <3>3, <3>4, <3>5
  <2>. QED BY <2>1, <2>3, <2>4
<1>7. CASE CmdHangsUp
  <2>1. PICK y \in RungNoCall : Becomes([sockClose(y) EXCEPT !.state = "DONE"])
    BY <1>7 DEF CmdHangsUp
  <2>. DEFINE c == sockClose(y)
              d == [c EXCEPT !.state = "DONE"]
  <2>2. c \in Context /\ ~c.alive /\ c.stat \in {Now.stat, "RING"}
    BY <1>2, CloseFacts DEF AtCommand, Owned
  <2>3. Becomes(d)
    BY <2>1
  <2>. HIDE DEF c
  <2>4. d \in Context /\ d.state = "DONE" /\ d.alive = c.alive /\ d.stat = c.stat
    BY <2>2 DEF Context, States
  <2>5. Now' = d
    BY <2>3, <2>4, BecomesNow
  <2>. HIDE DEF d
  <2>. QED BY <1>1, <2>2, <2>4, <2>5 DEF MoveOfCall, Moves, Ends, Quiet, Answers
<1>8. CASE CmdAppReads
  <2>1. PICK y \in RungNoCall :
           Becomes([y EXCEPT !.ttyW = TRUE]) \/ Becomes([y EXCEPT !.quitReq = TRUE])
    BY <1>8 DEF CmdAppReads
  <2>. DEFINE v == [y EXCEPT !.ttyW = TRUE]
              w == [y EXCEPT !.quitReq = TRUE]
  <2>0. y \in Context
    BY <1>2
  <2>2. /\ v \in Context /\ v.state = y.state /\ v.alive = y.alive /\ v.fd = y.fd
        /\ w \in Context /\ w.state = y.state /\ w.alive = y.alive /\ w.fd = y.fd
        /\ v.stat = y.stat /\ w.stat = y.stat
    BY <2>0 DEF Context
  <2>. HIDE DEF v, w
  <2>. QED BY <1>2, <1>3, <2>1, <2>2 DEF v, w
<1>9. ASSUME NEW ln \in Lines, CmdDispatches(ln) \/ CmdAppLine(ln)
      PROVE  MoveOfCall(Now, Now') \/ (Moves(Now, Now') /\ LineHangsUp)
  <2>1. PICK y \in RungNoCall, w \in BOOLEAN, reqs \in BOOLEAN :
           \E z \in dispatch([y EXCEPT !.ttyW = w], ln, reqs) : Becomes(z)
    BY <1>9 DEF CmdDispatches, CmdAppLine
  <2>. DEFINE v == [y EXCEPT !.ttyW = w]
  <2>2. /\ Alike(y, v) /\ v.state = y.state /\ v.alive = y.alive /\ v.fd = y.fd
        /\ v.stat = y.stat
    BY <1>2 DEF Alike, Context
  <2>3. PICK z \in dispatch(v, ln, reqs) : Becomes(z)
    BY <2>1
  <2>. HIDE DEF v
  <2>4. AtCommand(v) /\ v.state = "CMD" /\ v.alive = Now.alive /\ v.fd = Now.fd
        /\ v.stat \in {Now.stat, "RING"}
    BY <1>2, <2>2, AlikeAtCommand
  <2>5. z \in Context
    BY <2>4, DispatchGood DEF Good, Owned
  <2>6. Now' = z
    BY <2>3, <2>5, BecomesNow
  <2>7. Moves(v, z) /\ (~ln.hang /\ ~ln.quit => (v.alive /\ z.alive => z.fd = v.fd))
    BY <2>4, DispatchMoves
  <2>8. Moves(Now, Now')
    BY <1>1, <2>4, <2>6, <2>7
    DEF Moves, Stays, GoesOffHook, Connects, GivesUp, Returns, Ends, Quiet, Answers
  <2>. QED BY <1>9, <2>4, <2>6, <2>7, <2>8 DEF MoveOfCall, LineHangsUp
<1>. QED BY <1>4, <1>5, <1>6, <1>7, <1>8, <1>9 DEF CmdStep

LEMMA HostCallMoves ==
  ASSUME IInv, HostCall
  PROVE  MoveOfCall(Now, Now')
<1>1. Good(Now) /\ Now \in Context /\ Owned(Now)
  BY DEF IInv, Good, Owned
\* Calls that change nothing of the call.
<1>2. ASSUME NEW z \in Context, z.state = Now.state, z.alive = Now.alive,
             z.fd = Now.fd, z.stat = Now.stat, Becomes(z)
      PROVE  MoveOfCall(Now, Now')
  BY <1>2, BecomesNow DEF MoveOfCall, Moves, Stays, Quiet
<1>3. CASE Hangup
  <2>1. m2k_hangup(Now) \in Context
    BY <1>1, HangupGood DEF Good, Owned
  <2>. QED BY <1>1, <1>3, <2>1, BecomesNow, HangupMoves DEF Hangup
<1>4. CASE Escape
  <2>. DEFINE q == Now.escReq \/ state = "ONLINE"
              y == [Now EXCEPT !.escReq = q]
  <2>1. Becomes(y) /\ q \in BOOLEAN
    BY <1>4 DEF Escape
  <2>. HIDE DEF q
  <2>2. y \in Context /\ y.state = Now.state /\ y.alive = Now.alive /\ y.fd = Now.fd
        /\ y.stat = Now.stat
    BY <1>1, <2>1 DEF Context
  <2>. HIDE DEF y
  <2>. QED BY <1>2, <2>1, <2>2
<1>5. ASSUME NEW on \in BOOLEAN, SetDtr(on)
      PROVE  MoveOfCall(Now, Now')
  <2>. DEFINE x == [Now EXCEPT !.dtr = on]
  <2>1. Alike(Now, x) /\ x \in Context /\ x.state = Now.state /\ x.alive = Now.alive
        /\ x.fd = Now.fd /\ x.stat = Now.stat /\ x.escReq = Now.escReq /\ x.guard = Now.guard
    BY <1>1 DEF Alike, Context
  <2>2. Becomes(m2k_hangup(x)) \/ Becomes(x)
    BY <1>5 DEF SetDtr
  <2>. HIDE DEF x
  <2>3. CASE Becomes(x)
    BY <1>2, <2>1, <2>3
  <2>4. CASE Becomes(m2k_hangup(x))
    <3>1. Good(x)
      BY <1>1, <2>1, AlikeGood
    <3>2. Good(m2k_hangup(x)) /\ MoveOfCall(x, m2k_hangup(x))
      BY <3>1, HangupGood, HangupMoves
    <3>3. Now' = m2k_hangup(x)
      BY <2>4, <3>2, BecomesNow DEF Good, Owned
    <3>. QED
      BY <2>1, <3>2, <3>3
      DEF MoveOfCall, Moves, Stays, GoesOffHook, Connects, GivesUp, Returns, Escaped, Ends,
          Quiet, Answers
  <2>. QED BY <2>2, <2>3, <2>4
<1>6. ASSUME NEW ln \in Lines, Atcmd(ln)
      PROVE  MoveOfCall(Now, Now')
  <2>. DEFINE z == cmdLex(Now, ln)
  <2>1. z \in Context /\ z.state = Now.state /\ (z.alive => Now.alive)
        /\ (z.alive => z.fd = Now.fd) /\ z.stat = Now.stat
    BY <1>1, LexType, LexFields
  <2>2. Becomes(z)
    BY <1>6 DEF Atcmd
  <2>. HIDE DEF z
  <2>3. Now' = z
    BY <2>1, <2>2, BecomesNow
  <2>. QED BY <2>1, <2>3 DEF MoveOfCall, Moves, Stays, Quiet
<1>7. CASE ReadToApp
  <2>. DEFINE y == [Now EXCEPT !.ttyW = FALSE]
  <2>1. y \in Context /\ y.state = Now.state /\ y.alive = Now.alive /\ y.fd = Now.fd
        /\ y.stat = Now.stat
    BY <1>1 DEF Context
  <2>2. Becomes(y)
    BY <1>7 DEF ReadToApp
  <2>. HIDE DEF y
  <2>. QED BY <1>2, <2>1, <2>2
<1>. QED BY <1>3, <1>4, <1>5, <1>6, <1>7 DEF HostCall

LEMMA IdleMoves ==
  ASSUME UNCHANGED vars \/ World \/ DoneStep
  PROVE  MoveOfCall(Now, Now')
<1>1. state' = state /\ alive' = alive /\ fd' = fd /\ stat' = stat
  BY DEF World, PeerResponds, PeerCloses, CallerArrives, CallerLeaves,
         DeadlinePasses, RingDelayPasses, GuardTimePasses, TtyCloses, ctxVars,
         DoneStep, vars
<1>. QED BY <1>1 DEF Now, MoveOfCall, Moves, Stays, Quiet

\* One step of the modem, in terms of its variables.
LEMMA StepMoves ==
  ASSUME IInv, [Next]_vars
  PROVE  MoveOfCall(Now, Now') \/ (Moves(Now, Now') /\ LineHangsUp)
BY CmdStepMoves, DialStepMoves, AnswerStepMoves, OnlineStepMoves, HostCallMoves,
   IdleMoves
DEF Next, m2k_step, OnlineMove

-----------------------------------------------------------------------------
(* The theorems. *)

\* A call that is up keeps its socket in every step that does not end it, but
\* one that runs a line with H, Z or %Q in it.
THEOREM CallsAreKept == Spec => LiveCallKept
<1>1. IInv /\ [Next]_vars
        => [(alive /\ alive' /\ fd' # fd)
              => \E ln \in Lines : /\ ln.hang \/ ln.quit
                                   /\ CmdDispatches(ln) \/ CmdAppLine(ln)]_vars
  BY StepMoves DEF MoveOfCall, LineHangsUp, Now
<1>. QED BY <1>1, Invariance, PTL DEF Spec, LiveCallKept

\* ONLINE is entered with a carrier and with CONNECT, from every state and
\* whatever becomes of the peer or the caller meanwhile.
THEOREM ConnectsWithCarrier == Spec => ConnectMeansCarrier
<1>1. IInv /\ [Next]_vars
        => [(state # "ONLINE" /\ state' = "ONLINE") => (alive' /\ stat' = "CONNECT")]_vars
  BY StepMoves
  DEF MoveOfCall, Moves, Stays, GoesOffHook, Connects, GivesUp, Returns, Escaped, Ends, Now
<1>. QED BY <1>1, Invariance, PTL DEF Spec, ConnectMeansCarrier

\* A dial or a wait that ends in command mode has said NO CARRIER and holds
\* neither a carrier nor its address list, whoever ended it.
THEOREM FailuresAreReported == Spec => FailureReported
<1>1. IInv /\ [Next]_vars
        => [(state \in {"DIAL", "ANSWER"} /\ state' = "CMD")
              => /\ stat' = "NO CARRIER" /\ ~alive'
                 /\ state = "DIAL" => ~dial']_vars
  BY StepMoves
  DEF MoveOfCall, Moves, Stays, GoesOffHook, Connects, GivesUp, Returns, Escaped, Ends, Now
<1>. QED BY <1>1, Invariance, PTL DEF Spec, FailureReported

\* A return to command mode with OK leaves the carrier and its socket alone.
THEOREM EscapesKeepCarrier == Spec => EscapeKeepsCarrier
<1>1. IInv /\ [Next]_vars
        => [(state = "ONLINE" /\ state' = "CMD" /\ stat' = "OK")
              => (alive' = alive /\ fd' = fd)]_vars
  BY StepMoves
  DEF MoveOfCall, Moves, Stays, GoesOffHook, Connects, GivesUp, Returns, Escaped, Ends, Now
<1>. QED BY <1>1, Invariance, PTL DEF Spec, EscapeKeepsCarrier

(* A modem whose host does not hang up, drop DTR or give it commands: then
   nothing but a step of ONLINE itself ends the carrier of ONLINE.  *)

OnlineCarries == state = "ONLINE" => alive

LEMMA CarrierStays ==
  ASSUME IInv, [Next]_vars, HostCalls \subseteq {"escape"}, state = "ONLINE",
         state' = "ONLINE"
  PROVE  alive' = alive
<1>1. ~CmdStep /\ ~DialStep /\ ~AnswerStep
  BY DEF CmdStep, CmdAnswers, CmdIdle, CmdReads, CmdHangsUp, CmdAppReads, CmdDispatches,
         CmdAppLine, appReads, DialStep, DialCancels, DialSteps, AnswerStep, AnswerCancels,
         AnswerAccepts, AnswerTimesOut
<1>2. Now \in Context /\ Now.alive = alive /\ Now.state = "ONLINE"
  BY DEF IInv, Good, Owned, Now
<1>3. CASE OnlineStep
  <2>1. OnlineMove(Now, Now')
    BY <1>3, OnlineStepMoves
  <2>. QED BY <2>1 DEF OnlineMove, Now
<1>5. CASE HostCall
  BY <1>2, <1>5 DEF HostCall, Hangup, Escape, SetDtr, Atcmd, ReadToApp, Becomes, Context
<1>6. CASE UNCHANGED vars \/ World \/ DoneStep
  BY <1>6 DEF World, PeerResponds, PeerCloses, CallerArrives, CallerLeaves, DeadlinePasses,
              RingDelayPasses, GuardTimePasses, TtyCloses, ctxVars, DoneStep, vars
<1>. QED BY <1>1, <1>3, <1>5, <1>6 DEF Next, m2k_step

LEMMA OnlineCarriesStep ==
  ASSUME IInv, [Next]_vars, HostCalls \subseteq {"escape"}, OnlineCarries
  PROVE  OnlineCarries'
<1>. SUFFICES ASSUME state' = "ONLINE" PROVE alive'
  BY DEF OnlineCarries
<1>1. CASE state = "ONLINE"
  BY <1>1, CarrierStays DEF OnlineCarries
<1>2. CASE state # "ONLINE"
  BY <1>2, StepMoves
  DEF MoveOfCall, Moves, Stays, GoesOffHook, Connects, GivesUp, Returns, Escaped, Ends, Now
<1>. QED BY <1>1, <1>2

\* A modem that runs by itself is online only as long as it has a carrier:
\* the step that loses it leaves ONLINE.
THEOREM OnlineIsCarrier ==
  ASSUME HostCalls \subseteq {"escape"}
  PROVE  Spec => []OnlineCarries
<1>1. Init => OnlineCarries
  BY DEF Init, OnlineCarries
<1>2. IInv /\ OnlineCarries /\ [Next]_vars => OnlineCarries'
  BY OnlineCarriesStep
<1>. QED BY <1>1, <1>2, Invariance, PTL DEF Spec

\* Whatever the host calls, a lost call is reported unless an escape goes first.
THEOREM OnlyEscapesHideLosses == Spec => OnlyEscapeHidesLoss
<1>1. IInv /\ [Next]_vars
        => [(state = "ONLINE" /\ state' = "CMD" /\ ~alive')
              => stat' = "NO CARRIER" \/ escReq \/ guard = "past"]_vars
  BY StepMoves
  DEF MoveOfCall, Moves, Stays, GoesOffHook, Connects, GivesUp, Returns, Escaped, Ends, Now
<1>. QED BY <1>1, Invariance, PTL DEF Spec, OnlyEscapeHidesLoss

\* Whatever the host calls, the last result code tells the DTE which mode it is in.
THEOREM LastWordsAreTrue == Spec => []LastWordIsTrue
<1>1. Init => LastWordIsTrue
  BY DEF Init, LastWordIsTrue
<1>2. IInv /\ LastWordIsTrue /\ [Next]_vars => LastWordIsTrue'
  <2>. SUFFICES ASSUME IInv, LastWordIsTrue, [Next]_vars
                PROVE  LastWordIsTrue'
    OBVIOUS
  <2>1. Moves(Now, Now')
    BY StepMoves DEF MoveOfCall
  <2>2. CASE Stays(Now, Now')
    BY <2>2 DEF Stays, Quiet, Answers, Now, LastWordIsTrue
  <2>3. CASE GoesOffHook(Now, Now')
    BY <2>3 DEF GoesOffHook, Quiet, Answers, Now, LastWordIsTrue
  <2>4. CASE Connects(Now, Now') \/ GivesUp(Now, Now') \/ Returns(Now, Now')
    BY <2>4 DEF Connects, GivesUp, Returns, Escaped, Now, LastWordIsTrue
  <2>5. CASE Ends(Now, Now')
    BY <2>5 DEF Ends, Quiet, Answers, Now, LastWordIsTrue
  <2>. QED BY <2>1, <2>2, <2>3, <2>4, <2>5 DEF Moves
<1>. QED BY <1>1, <1>2, Invariance, PTL DEF Spec

\* Of a modem that only an escape interrupts, no call is lost without NO CARRIER.
THEOREM LossesAreReported ==
  ASSUME HostCalls \subseteq {"escape"}
  PROVE  Spec => LossReported
<1>1. IInv /\ OnlineCarries /\ [Next]_vars
        => [(state = "ONLINE" /\ state' = "CMD" /\ ~alive') => stat' = "NO CARRIER"]_vars
  BY StepMoves
  DEF OnlineCarries, MoveOfCall, Moves, Stays, GoesOffHook, Connects, GivesUp, Returns,
      Escaped, Ends, Now
<1>. QED BY <1>1, OnlineIsCarrier, Invariance, PTL DEF Spec, LossReported

\* The modem implements the call cycle that its host relies on: every step is
\* one of CallCycle's or leaves phase and carrier as they are.
THEOREM ImplementsCallCycle == Spec => CycleSafe
<1>1. Init => Cycle!Init
  BY DEF Init, Cycle!Init
<1>2. IInv /\ [Next]_vars => [Cycle!Next]_(Cycle!cycle)
  <2>. SUFFICES ASSUME IInv, [Next]_vars
                PROVE  Cycle!Next \/ UNCHANGED Cycle!cycle
    OBVIOUS
  <2>1. Moves(Now, Now')
    BY StepMoves DEF MoveOfCall
  <2>2. alive \in BOOLEAN /\ alive' \in BOOLEAN
    <3>1. IInv'
      BY InvarianceStep
    <3>. QED BY <3>1 DEF IInv, Good, Owned, Now, Context
  <2>3. CASE Stays(Now, Now')
    BY <2>2, <2>3 DEF Stays, Now, Cycle!Next, Cycle!Drop, Cycle!cycle
  <2>4. CASE GoesOffHook(Now, Now')
    BY <2>2, <2>4 DEF GoesOffHook, Now, Cycle!Next, Cycle!OffHook
  <2>5. CASE Connects(Now, Now')
    BY <2>2, <2>5 DEF Connects, Now, Cycle!Next, Cycle!Connect
  <2>6. CASE GivesUp(Now, Now')
    BY <2>2, <2>6 DEF GivesUp, Now, Cycle!Next, Cycle!Fail
  <2>7. CASE Returns(Now, Now')
    BY <2>2, <2>7 DEF Returns, Escaped, Now, Cycle!Next, Cycle!Escape, Cycle!Lose
  <2>8. CASE Ends(Now, Now')
    BY <2>2, <2>8 DEF Ends, Now, Cycle!Next, Cycle!End
  <2>. QED BY <2>1, <2>3, <2>4, <2>5, <2>6, <2>7, <2>8 DEF Moves
<1>. QED BY <1>1, <1>2, Invariance, PTL DEF Spec, CycleSafe, Cycle!Safe
=============================================================================
