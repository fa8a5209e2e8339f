---------------------------- MODULE LifecycleProofs ----------------------------
(* Proofs about Lifecycle, for any number of descriptors, addresses and lists,
   and about Program: the program is one of the hosts that Lifecycle allows, so
   that what is proved of every host holds for it. *)
EXTENDS Program, TLAPS

\* Accounted, descriptor by descriptor: f is the table, c the context, t is tmp,
\* gone are the displaced sockets.
Holds(f, c, t, gone) ==
    \A n \in Fd :
        /\ f[n] = "std" <=> n \in Std
        /\ f[n] \in TtyKinds <=> c.owned /\ n = c.rfd
        /\ f[n] = "call" <=> (n = c.fd /\ n > 0) \/ n \in gone
        /\ f[n] = "listener" <=> n \in {c.listen, c.answer, t}

\* No descriptor has two names.
Distinct(c, t) ==
    /\ c.listen # NoFd => c.listen \notin {c.answer, t}
    /\ c.answer # NoFd => c.answer # t

Known(f, c, t, gone) ==
    /\ f \in [Fd -> Kinds] /\ c \in Context /\ t \in Fd \cup {NoFd}
    /\ gone \subseteq Fd /\ c.fd \notin gone
    /\ Holds(f, c, t, gone) /\ Distinct(c, t)
    /\ c.owned => c.rfd # NoFd
    /\ c.alive => c.fd > 0

Kernel ==
    /\ pc # "ended" => Known(file, ctx, tmp, lost)
    /\ pc \in {"none", "ended"} => ctx = Fresh

\* Whether there is a tty, a listener, an answer line already.
Chosen ==
    /\ ctx.owned => chosen \in {"pty", "comm", "failed", "dev", "client"}
    /\ ctx.listen # NoFd => chosen = "listen"
    /\ pc = "listen" => chosen = "none"
    /\ pc = "answer" => ctx.answer = NoFd

\* What is on the stack.
Frames ==
    /\ pc \notin {"listen", "answer", "dial"} => list = NoList
    /\ pc \notin {"listen", "answer"} => tmp = NoFd
    /\ pc = "dial" => (ctx.fd > 0 => at <= MaxAddr)
    /\ ctx.state = "DIAL" => list # ctx.result

\* Outside of a dial a socket is a live call, so that sockInit() forgets none in a
\* step.
NoneForgotten ==
    ctx.fd > 0 => ctx.alive \/ (ctx.state = "DIAL" /\ ctx.rp) \/ pc = "dial"

IInv == TypeOK /\ Kernel /\ Chosen /\ Frames /\ NoneForgotten /\ ListsAreFreed

-----------------------------------------------------------------------------
(* Tables and contexts. *)

LEMMA FdFacts == Fd \subseteq Int /\ Std \subseteq Fd /\ NoFd \notin Fd /\ 0 \in Fd /\ 1 \in Fd
                  /\ \A n \in Fd : n >= 0
BY FdAssumption DEF Fd, Std, NoFd

LEMMA Signs == \A x \in Fd \cup {NoFd} : (x <= 0) = ~(x > 0)
BY FdAssumption DEF Fd, NoFd

LEMMA FreshType == Fresh \in Context
BY FdFacts DEF Fresh, Context, NoList, States

LEMMA Displaced ==
    ASSUME NEW f, NEW c, NEW t, NEW gone, Known(f, c, t, gone)
    PROVE  0 \notin gone /\ NoFd \notin gone /\ \A n \in gone : n \in Fd /\ f[n] = "call"
<1>1. \A n \in gone : n \in Fd /\ f[n] = "call"
  BY DEF Known, Holds
<1>2. 0 \in Std => f[0] = "std"
  BY FdFacts DEF Known, Holds
<1>. QED
  BY <1>1, <1>2, FdFacts DEF Std

\* What is new has no name yet.
LEMMA Unnamed ==
    ASSUME NEW f, NEW c, NEW t, NEW gone, Known(f, c, t, gone), NEW n \in Fd, f[n] = "free"
    PROVE  /\ n > 2 /\ n # c.fd /\ n # c.listen /\ n # c.answer /\ n # t
           /\ (c.owned => n # c.rfd) /\ n \notin gone
<1>1. f[n] \notin {"std", "call", "listener"} \cup TtyKinds
  BY DEF TtyKinds
<1>2. n \notin Std /\ n # c.listen /\ n # c.answer /\ n # t /\ (c.owned => n # c.rfd)
      /\ (n > 0 => n # c.fd) /\ n \notin gone
  BY <1>1 DEF Known, Holds
<1>. QED
  BY <1>2, FdFacts DEF Std

LEMMA OpensTty ==
    ASSUME NEW f, NEW c, NEW t, Known(f, c, t, lost), NEW n \in Fd, f[n] = "free", ~c.owned,
           NEW kind \in TtyKinds
    PROVE  Known([f EXCEPT ![n] = kind],
                 [c EXCEPT !.rfd = n, !.wfd = n, !.owned = TRUE], t, lost)
<1>. DEFINE g == [f EXCEPT ![n] = kind]
            d == [c EXCEPT !.rfd = n, !.wfd = n, !.owned = TRUE]
<1>1. /\ d \in Context /\ d.rfd = n /\ d.owned = TRUE /\ d.fd = c.fd /\ d.listen = c.listen
      /\ d.answer = c.answer /\ d.alive = c.alive
  BY DEF Known, Context
<1>2. g \in [Fd -> Kinds] /\ g[n] = kind /\ \A m \in Fd \ {n} : g[m] = f[m]
  BY DEF Known, Kinds
<1>3. kind \notin {"std", "call", "listener", "free"}
  BY DEF TtyKinds
<1>. HIDE DEF g, d
<1>4. Holds(g, d, t, lost)
  BY <1>1, <1>2, <1>3, Unnamed, FdFacts DEF Known, Holds, Std
<1>. QED
  BY <1>1, <1>2, <1>4, FdFacts DEF Known, Distinct, g, d

LEMMA OpensCall ==
    ASSUME NEW f, NEW c, NEW t, NEW gone, Known(f, c, t, gone), NEW n \in Fd, f[n] = "free",
           c.fd <= 0, NEW d \in Context, d.fd = n,
           d.rfd = c.rfd, d.owned = c.owned, d.listen = c.listen, d.answer = c.answer
    PROVE  Known([f EXCEPT ![n] = "call"], d, t, gone)
<1>. DEFINE g == [f EXCEPT ![n] = "call"]
<1>1. g \in [Fd -> Kinds] /\ g[n] = "call" /\ \A m \in Fd \ {n} : g[m] = f[m]
  BY DEF Known, Kinds
<1>2. "call" \notin {"std", "listener", "free"} \cup TtyKinds
  BY DEF TtyKinds
<1>0. /\ n > 2 /\ n # c.fd /\ n # c.listen /\ n # c.answer /\ n # t
      /\ (c.owned => n # c.rfd) /\ n \notin gone
  BY Unnamed
<1>. HIDE DEF g
<1>3. Holds(g, d, t, gone)
  BY <1>0, <1>1, <1>2, FdFacts DEF Known, Holds, Std
<1>. QED
  BY <1>0, <1>1, <1>3, FdFacts DEF Known, Distinct, g

\* A descriptor that is opened for a listener or the like, to be named in d or u.
LEMMA OpensListener ==
    ASSUME NEW f, NEW c, NEW t, Known(f, c, t, lost), NEW n \in Fd, f[n] = "free", t = NoFd
    PROVE  Known([f EXCEPT ![n] = "listener"], c, n, lost)
<1>. DEFINE g == [f EXCEPT ![n] = "listener"]
<1>1. g \in [Fd -> Kinds] /\ g[n] = "listener" /\ \A m \in Fd \ {n} : g[m] = f[m]
  BY DEF Known, Kinds
<1>2. "listener" \notin {"std", "call", "free"} \cup TtyKinds
  BY DEF TtyKinds
<1>0. /\ n > 2 /\ n # c.fd /\ n # c.listen /\ n # c.answer /\ n # t
      /\ (c.owned => n # c.rfd) /\ n \notin lost
  BY Unnamed
<1>. HIDE DEF g
<1>3. Holds(g, c, n, lost)
  BY <1>0, <1>1, <1>2, FdFacts DEF Known, Holds, Std
<1>. QED
  BY <1>0, <1>1, <1>3, FdFacts DEF Known, Distinct, g

\* A descriptor that is opened and closed again.
LEMMA OpensInVain ==
    ASSUME NEW f \in [Fd -> Kinds], NEW n \in Fd, f[n] = "free", NEW kind
    PROVE  [[f EXCEPT ![n] = kind] EXCEPT ![n] = "free"] = f
OBVIOUS

\* sockClose(), and any end of a call that leaves a number below 1 behind.
LEMMA ClosesCall ==
    ASSUME NEW f, NEW c, NEW t, Known(f, c, t, lost),
           NEW d \in Context, d.fd \in {0, NoFd}, ~d.alive,
           d.rfd = c.rfd, d.owned = c.owned, d.listen = c.listen, d.answer = c.answer
    PROVE  Known(afterClose(f, c), d, t, lost)
<1>1. CASE c.fd <= 0
  <2>1. d.fd \notin lost
    BY Displaced
  <2>. QED
    BY <1>1, <2>1, FdFacts DEF Known, Holds, Distinct, afterClose, Context, NoFd
<1>2. CASE c.fd > 0
  <2>. DEFINE g == afterClose(f, c)
  <2>1. c.fd \in Fd
    BY <1>2 DEF Known, Context, NoFd
  <2>2. g \in [Fd -> Kinds] /\ g[c.fd] = "free" /\ \A m \in Fd \ {c.fd} : g[m] = f[m]
    <3>1. ~(c.fd <= 0)
      BY <1>2, <2>1, Signs
    <3>2. g = [f EXCEPT ![c.fd] = "free"]
      BY <3>1 DEF afterClose
    <3>. QED
      BY <2>1, <3>2 DEF Known, Kinds
  <2>3. f[c.fd] = "call" /\ "call" \notin {"std", "listener"} \cup TtyKinds
        /\ "free" \notin {"std", "listener", "call"} \cup TtyKinds
    BY <1>2, <2>1 DEF Known, Holds, TtyKinds
  <2>. HIDE DEF g
  <2>4. Holds(g, d, t, lost)
    BY <1>2, <2>1, <2>2, <2>3, FdFacts DEF Known, Holds, Std, NoFd
  <2>5. d.fd \notin lost
    BY Displaced
  <2>. QED
    BY <2>2, <2>4, <2>5 DEF Known, Distinct, g
<1>3. c.fd \in Fd \cup {NoFd}
  BY DEF Known, Context
<1>. QED
  BY <1>1, <1>2, <1>3, Signs

LEMMA SockClosed ==
    ASSUME NEW f, NEW c, NEW t, Known(f, c, t, lost)
    PROVE  /\ sockClosed(c) \in Context /\ sockClosed(c).fd \in {0, NoFd} /\ ~sockClosed(c).alive
           /\ sockClosed(c).rfd = c.rfd /\ sockClosed(c).owned = c.owned
           /\ sockClosed(c).listen = c.listen /\ sockClosed(c).answer = c.answer
           /\ sockClosed(c).result = c.result /\ sockClosed(c).state = c.state
           /\ Known(afterClose(f, c), sockClosed(c), t, lost)
<1>. DEFINE d == sockClosed(c)
<1>1. /\ d \in Context /\ d.rfd = c.rfd /\ d.owned = c.owned /\ d.listen = c.listen
      /\ d.answer = c.answer /\ d.result = c.result /\ d.state = c.state
  BY FdFacts DEF sockClosed, Known, Context
<1>2. d.fd \in {0, NoFd} /\ ~d.alive
  BY FdFacts DEF sockClosed, Known, Context, NoFd
<1>. HIDE DEF d
<1>3. Known(afterClose(f, c), d, t, lost)
  BY <1>1, <1>2, ClosesCall
<1>. QED
  BY <1>1, <1>2, <1>3 DEF d

-----------------------------------------------------------------------------
(* Steps that begin and end with the host's turn. *)

LEMMA Idle ==
    ASSUME IInv, pc = "idle"
    PROVE  /\ Known(file, ctx, tmp, lost) /\ tmp = NoFd /\ list = NoList /\ list \notin Lists
           /\ file \in [Fd -> Kinds] /\ ctx \in Context
           /\ heap \subseteq Lists /\ left \subseteq Lists
BY ListAssumption DEF IInv, Kernel, Frames, TypeOK

\* Calls, step by step.
LEMMA StepsOk ==
    ASSUME IInv, Steps, Known(file', ctx', tmp, lost'),
           ctx'.owned = ctx.owned, ctx'.listen = ctx.listen,
           heap' \subseteq Lists, left' \subseteq Lists,
           heap' \subseteq left' \cup {l \in Lists : ctx'.state = "DIAL" /\ l = ctx'.result},
           ctx'.state = "DIAL" => ctx'.result \in heap',
           ctx'.fd > 0 => ctx'.alive \/ (ctx'.state = "DIAL" /\ ctx'.rp)
    PROVE  IInv'
<1>1. /\ pc = "idle" /\ pc' = "idle" /\ at' = at /\ list' = list /\ tmp' = tmp
      /\ child' = child /\ chosen' = chosen /\ ret' = ret
  BY DEF Steps, work
<1>2. TypeOK'
  BY <1>1 DEF IInv, TypeOK, Known
<1>3. Kernel'
  BY <1>1 DEF Kernel
<1>4. Chosen'
  BY <1>1 DEF IInv, Chosen
<1>5. Frames'
  <2>1. ctx'.state = "DIAL" => ctx'.result \in Lists
    OBVIOUS
  <2>. QED
    BY <1>1, <2>1, Idle DEF IInv, Frames
<1>6. ListsAreFreed'
  BY <1>1 DEF ListsAreFreed
<1>. QED
  BY <1>2, <1>3, <1>4, <1>5, <1>6 DEF IInv, NoneForgotten

\* The loops over the addresses, from a context c without a socket.
LEMMA TriesConnectOk ==
    ASSUME IInv, Steps, NEW f, NEW c, Known(f, c, tmp, lost), c.fd <= 0, TriesConnect(f, c),
           c.owned = ctx.owned, c.listen = ctx.listen,
           heap' \subseteq Lists, heap' \subseteq left \cup {c.result}, c.result \in heap'
    PROVE  IInv'
<1>1. PICK n \in Fd, s \in {"DIAL", "ONLINE"} :
          /\ f[n] = "free"
          /\ file' = [f EXCEPT ![n] = "call"]
          /\ ctx' = [c EXCEPT !.fd = n, !.alive = (s = "ONLINE"), !.rp = TRUE, !.state = s]
          /\ left' = left \cup {l \in Lists : s = "ONLINE" /\ l = c.result}
          /\ lost' = lost
  BY DEF TriesConnect
<1>2. /\ ctx' \in Context /\ ctx'.fd = n /\ ctx'.rfd = c.rfd /\ ctx'.owned = c.owned
      /\ ctx'.listen = c.listen /\ ctx'.answer = c.answer /\ ctx'.result = c.result
      /\ ctx'.state = s
  BY <1>1 DEF Known, Context, States
<1>3. Known(file', ctx', tmp, lost)
  BY <1>1, <1>2, OpensCall
<1>4. ctx'.alive \/ (ctx'.state = "DIAL" /\ ctx'.rp)
  BY <1>1 DEF Known, Context
<1>. QED
  BY <1>1, <1>2, <1>3, <1>4, StepsOk, Idle DEF Steps

LEMMA TriesFailOk ==
    ASSUME IInv, Steps, NEW f, NEW c, Known(f, c, tmp, lost), c.fd <= 0, NEW h, TriesFail(f, c, h),
           c.owned = ctx.owned, c.listen = ctx.listen,
           h \subseteq Lists, h \subseteq left \cup {c.result}
    PROVE  IInv'
<1>1. PICK n \in {0, NoFd} :
          ctx' = [c EXCEPT !.fd = n, !.alive = FALSE, !.rp = FALSE,
                           !.result = NoList, !.state = "CMD"]
  BY DEF TriesFail
<1>2. /\ ctx' \in Context /\ ctx'.fd \in {0, NoFd} /\ ~ctx'.alive
      /\ ctx'.rfd = c.rfd /\ ctx'.owned = c.owned
      /\ ctx'.listen = c.listen /\ ctx'.answer = c.answer /\ ctx'.state = "CMD"
  BY <1>1, FdFacts DEF Known, Context, States
<1>3. Known(afterClose(f, c), ctx', tmp, lost)
  BY <1>2, ClosesCall
<1>4. afterClose(f, c) = f
  BY DEF afterClose
<1>5. ~(ctx'.fd > 0)
  BY <1>2 DEF NoFd
<1>. QED
  BY <1>2, <1>3, <1>4, <1>5, StepsOk, Idle DEF TriesFail, Steps, marks

\* The fields that Known looks at.
LEMMA SameKnown ==
    ASSUME NEW f, NEW c, NEW t, Known(f, c, t, lost), NEW d \in Context,
           d.fd = c.fd, d.alive => c.alive \/ c.fd > 0,
           d.rfd = c.rfd, d.owned = c.owned, d.listen = c.listen, d.answer = c.answer
    PROVE  Known(f, d, t, lost)
BY DEF Known, Holds, Distinct

LEMMA DialStartOk == ASSUME IInv, m2k_sockDialStart PROVE IInv'
<1>1. /\ Steps /\ Known(file, ctx, tmp, lost) /\ ctx \in Context /\ ctx.state = "CMD" /\ ~ctx.alive
      /\ heap \subseteq left /\ heap \subseteq Lists /\ left \subseteq Lists
  BY Idle DEF m2k_sockDialStart, Steps, IInv, ListsAreFreed
<1>2. ctx.fd <= 0
  <2>1. ~(ctx.fd > 0)
    BY <1>1 DEF IInv, NoneForgotten, Steps
  <2>. QED
    BY <1>1, <2>1, Signs DEF Context
<1>3. CASE /\ ctx' = [ctx EXCEPT !.result = NoList]
           /\ UNCHANGED <<file, heap, left, lost>>
  <2>1. /\ ctx' \in Context /\ ctx'.fd = ctx.fd /\ ctx'.alive = ctx.alive /\ ctx'.rfd = ctx.rfd
        /\ ctx'.owned = ctx.owned /\ ctx'.listen = ctx.listen /\ ctx'.answer = ctx.answer
        /\ ctx'.state = "CMD"
    BY <1>1, <1>3 DEF Context
  <2>2. Known(file', ctx', tmp, lost)
    BY <1>1, <1>3, <2>1, SameKnown
  <2>3. ~(ctx'.fd > 0)
    BY <1>2, <2>1, <1>1, Signs DEF Context
  <2>. QED
    BY <1>1, <1>3, <2>1, <2>2, <2>3, StepsOk DEF Steps
<1>4. ASSUME NEW l \in Lists \ heap,
             LET c == sockInit([ctx EXCEPT !.result = l])
             IN  \/ TriesConnect(file, c) /\ heap' = heap \cup {l}
                 \/ TriesFail(file, c, heap \cup {l})
      PROVE  IInv'
  <2>. DEFINE c == sockInit([ctx EXCEPT !.result = l])
  <2>1. /\ c \in Context /\ c.fd = 0 /\ ~c.alive /\ c.rfd = ctx.rfd /\ c.result = l
        /\ c.owned = ctx.owned /\ c.listen = ctx.listen /\ c.answer = ctx.answer
    BY <1>1, FdFacts DEF sockInit, Context
  <2>2. (TriesConnect(file, c) /\ heap' = heap \cup {l}) \/ TriesFail(file, c, heap \cup {l})
    BY <1>4
  <2>. HIDE DEF c
  <2>3. afterClose(file, ctx) = file
    BY <1>2 DEF afterClose
  <2>4. Known(file, c, tmp, lost) /\ c.fd <= 0
    BY <1>1, <2>1, <2>3, ClosesCall
  <2>. QED
    BY <1>1, <2>1, <2>2, <2>4, TriesConnectOk, TriesFailOk
<1>. QED
  BY <1>3, <1>4 DEF m2k_sockDialStart, marks

LEMMA DialProgressOk == ASSUME IInv, m2k_sockDialProgress PROVE IInv'
<1>1. /\ Steps /\ Known(file, ctx, tmp, lost) /\ ctx \in Context /\ ctx.state = "DIAL"
      /\ heap \subseteq left \cup {ctx.result} /\ heap \subseteq Lists /\ left \subseteq Lists
      /\ ctx.result \in heap
  BY Idle DEF m2k_sockDialProgress, Steps, IInv, ListsAreFreed
<1>2. CASE /\ ctx.fd > 0
           /\ ctx' = [ctx EXCEPT !.alive = TRUE, !.result = NoList, !.state = "ONLINE"]
           /\ heap' = heap \ {ctx.result}
           /\ UNCHANGED <<file, left, lost>>
  <2>1. /\ ctx' \in Context /\ ctx'.fd = ctx.fd /\ ctx'.alive /\ ctx'.rfd = ctx.rfd
        /\ ctx'.owned = ctx.owned /\ ctx'.listen = ctx.listen /\ ctx'.answer = ctx.answer
        /\ ctx'.state = "ONLINE"
    BY <1>1, <1>2 DEF Context, States
  <2>2. Known(file', ctx', tmp, lost)
    BY <1>1, <1>2, <2>1, SameKnown
  <2>. QED
    BY <1>1, <1>2, <2>1, <2>2, StepsOk DEF Steps
<1>. DEFINE c == sockClosed(ctx)
            f == afterClose(file, ctx)
<1>3. /\ c \in Context /\ c.fd \in {0, NoFd} /\ c.result = ctx.result
      /\ c.owned = ctx.owned /\ c.listen = ctx.listen
      /\ Known(f, c, tmp, lost)
  BY <1>1, SockClosed
<1>. HIDE DEF c, f
<1>4. c.fd <= 0
  BY <1>3 DEF NoFd
<1>5. CASE TriesConnect(f, c) /\ UNCHANGED heap
  BY <1>1, <1>3, <1>4, <1>5, TriesConnectOk
<1>6. CASE TriesFail(f, c, heap)
  BY <1>1, <1>3, <1>4, <1>6, TriesFailOk
<1>7. CASE /\ ~ctx.rp
           /\ ctx' = [ctx EXCEPT !.state = "CMD"]
           /\ left' = left \cup {l \in Lists : l = ctx.result}
           /\ UNCHANGED <<file, heap, lost>>
  <2>1. /\ ctx' \in Context /\ ctx'.fd = ctx.fd /\ ctx'.alive = ctx.alive /\ ctx'.rfd = ctx.rfd
        /\ ctx'.owned = ctx.owned /\ ctx'.listen = ctx.listen /\ ctx'.answer = ctx.answer
        /\ ctx'.state = "CMD"
    BY <1>1, <1>7 DEF Context, States
  <2>2. Known(file', ctx', tmp, lost)
    BY <1>1, <1>7, <2>1, SameKnown
  <2>3. ctx'.fd > 0 => ctx'.alive
    BY <1>1, <1>7, <2>1 DEF IInv, NoneForgotten, Steps
  <2>4. heap' \subseteq left' /\ heap' \subseteq Lists /\ left' \subseteq Lists
    BY <1>1, <1>7
  <2>. QED
    BY <1>1, <1>7, <2>1, <2>2, <2>3, <2>4, StepsOk DEF Steps
<1>8. ctx.result # NoList
  BY <1>1, ListAssumption
<1>. QED
  BY <1>2, <1>5, <1>6, <1>7, <1>8 DEF m2k_sockDialProgress, c, f, marks

\* The steps that close the socket.
LEMMA ClosingOk ==
    ASSUME IInv, m2k_sockDialAbort \/ sockShutdown \/ OnlineLoses
    PROVE  IInv'
<1>1. /\ Steps /\ Known(file, ctx, tmp, lost) /\ ctx \in Context
      /\ heap \subseteq left \cup {l \in Lists : ctx.state = "DIAL" /\ l = ctx.result}
      /\ heap \subseteq Lists /\ left \subseteq Lists
      /\ ctx.state = "DIAL" => ctx.result \in heap
  BY Idle DEF m2k_sockDialAbort, sockShutdown, OnlineLoses, Steps, IInv, ListsAreFreed
<1>. DEFINE c == sockClosed(ctx)
<1>2. /\ c \in Context /\ c.fd \in {0, NoFd} /\ c.result = ctx.result /\ c.state = ctx.state
      /\ c.owned = ctx.owned /\ c.listen = ctx.listen /\ ~c.alive
      /\ Known(afterClose(file, ctx), c, tmp, lost)
  BY <1>1, SockClosed
<1>. HIDE DEF c
<1>3. ctx' \in {c, [c EXCEPT !.state = "CMD"], [c EXCEPT !.result = NoList, !.state = "CMD"]}
  BY DEF m2k_sockDialAbort, sockShutdown, OnlineLoses, c
<1>4. /\ ctx' \in Context /\ ctx'.fd = c.fd /\ ~ctx'.alive /\ ctx'.rfd = c.rfd
      /\ ctx'.owned = c.owned /\ ctx'.listen = c.listen /\ ctx'.answer = c.answer
      /\ ctx'.state \in {c.state, "CMD"}
  BY <1>2, <1>3 DEF Context, States
<1>5. Known(file', ctx', tmp, lost)
  <2>1. file' = afterClose(file, ctx)
    BY DEF m2k_sockDialAbort, sockShutdown, OnlineLoses
  <2>. QED
    BY <1>2, <1>4, <2>1, SameKnown
<1>6. ~(ctx'.fd > 0)
  BY <1>2, <1>4 DEF NoFd
<1>7. CASE m2k_sockDialAbort
  <2>1. ctx'.state = "CMD"
    BY <1>2, <1>7 DEF m2k_sockDialAbort, Context, c
  <2>. QED
    BY <1>1, <1>2, <1>4, <1>5, <1>6, <1>7, <2>1, StepsOk DEF m2k_sockDialAbort, marks
<1>8. CASE sockShutdown
  <2>1. ctx' = c
    BY <1>8 DEF sockShutdown, c
  <2>. QED
    BY <1>1, <1>2, <1>4, <1>5, <1>6, <1>8, <2>1, StepsOk DEF sockShutdown, marks
<1>9. CASE OnlineLoses
  <2>1. ctx'.state = "CMD" /\ ctx.state = "ONLINE"
    BY <1>2, <1>9 DEF OnlineLoses, Context, c
  <2>. QED
    BY <1>1, <1>2, <1>4, <1>5, <1>6, <1>9, <2>1, StepsOk DEF OnlineLoses, marks
<1>. QED
  BY <1>7, <1>8, <1>9

LEMMA EscapesOk == ASSUME IInv, answerWaits \/ Escapes \/ SessionEnds PROVE IInv'
<1>1. /\ Steps /\ Known(file, ctx, tmp, lost) /\ ctx \in Context
      /\ ctx.state \in {"CMD", "ANSWER", "ONLINE"}
      /\ heap \subseteq left /\ heap \subseteq Lists /\ left \subseteq Lists /\ heap' = heap
      /\ left' = left /\ lost' = lost
  BY Idle DEF answerWaits, Escapes, SessionEnds, Steps, IInv, ListsAreFreed, marks
<1>2. ctx.fd > 0 => ctx.alive
  BY <1>1 DEF IInv, NoneForgotten, Steps
<1>3. ASSUME NEW s \in States \ {"DIAL"}, UNCHANGED file, ctx' = [ctx EXCEPT !.state = s]
      PROVE  IInv'
  <2>1. /\ ctx' \in Context /\ ctx'.fd = ctx.fd /\ ctx'.alive = ctx.alive
        /\ ctx'.rfd = ctx.rfd /\ ctx'.owned = ctx.owned /\ ctx'.listen = ctx.listen
        /\ ctx'.answer = ctx.answer /\ ctx'.state = s
    BY <1>1, <1>3 DEF Context
  <2>2. Known(file', ctx', tmp, lost)
    BY <1>1, <1>3, <2>1, SameKnown
  <2>3. tmp' = tmp
    BY <1>1 DEF Steps, work
  <2>. QED
    BY <1>1, <1>2, <2>1, <2>2, <2>3, StepsOk
<1>4. CASE answerWaits \/ Escapes
  BY <1>3, <1>4 DEF answerWaits, Escapes, States
<1>5. CASE SessionEnds /\ UNCHANGED file /\ ctx' = [ctx EXCEPT !.state = "DONE"]
  BY <1>3, <1>5 DEF States
<1>6. CASE /\ file' = afterClose(file, ctx)
           /\ ctx' = [sockClosed(ctx) EXCEPT !.state = "DONE"]
  <2>. DEFINE c == sockClosed(ctx)
  <2>1. /\ c \in Context /\ c.fd \in {0, NoFd} /\ ~c.alive
        /\ c.owned = ctx.owned /\ c.listen = ctx.listen
        /\ Known(afterClose(file, ctx), c, tmp, lost)
    BY <1>1, SockClosed
  <2>. HIDE DEF c
  <2>2. ctx' = [c EXCEPT !.state = "DONE"]
    BY <1>6 DEF c
  <2>3. /\ ctx' \in Context /\ ctx'.fd = c.fd /\ ~ctx'.alive
        /\ ctx'.rfd = c.rfd /\ ctx'.owned = c.owned /\ ctx'.listen = c.listen
        /\ ctx'.answer = c.answer /\ ctx'.state = "DONE"
    BY <2>1, <2>2 DEF Context, States
  <2>4. Known(file', ctx', tmp, lost)
    BY <1>6, <2>1, <2>3, SameKnown
  <2>5. ~(ctx'.fd > 0) /\ tmp' = tmp
    BY <1>1, <2>1, <2>3 DEF NoFd, Steps, work
  <2>. QED
    BY <1>1, <2>1, <2>3, <2>4, <2>5, StepsOk
<1>. QED
  BY <1>4, <1>5, <1>6 DEF SessionEnds

\* sockInit() forgets a socket, which is displaced then.
LEMMA Displaces ==
    ASSUME IInv, pc = "idle",
           NEW c \in Context, c.fd = 0, c.rfd = ctx.rfd, c.owned = ctx.owned,
           c.listen = ctx.listen, c.answer = ctx.answer, ~c.alive
    PROVE  /\ Known(file, c, tmp, lost \cup Socket(ctx))
           /\ lost \cup Socket(ctx) \subseteq Fd /\ 0 \notin lost \cup Socket(ctx)
<1>. DEFINE gone == lost \cup Socket(ctx)
<1>1. Known(file, ctx, tmp, lost)
  BY Idle
<1>2. gone \subseteq Fd /\ 0 \notin gone
  BY <1>1, Displaced DEF Known, Socket
<1>3. Holds(file, c, tmp, gone)
  BY <1>1 DEF Known, Holds, Socket
<1>. QED
  BY <1>1, <1>2, <1>3 DEF Known, Distinct

LEMMA AnswerOk == ASSUME IInv, answerAccept PROVE IInv'
<1>. DEFINE c == sockInit(ctx)
            gone == lost \cup Socket(ctx)
<1>1. /\ Steps /\ tmp = NoFd /\ ctx \in Context /\ ctx.state # "DIAL"
      /\ heap \subseteq left /\ heap \subseteq Lists /\ left \subseteq Lists
      /\ heap' = heap /\ left' = left /\ lost' = gone
  BY Idle DEF answerAccept, Steps, IInv, ListsAreFreed
<1>2. /\ c \in Context /\ c.fd = 0 /\ ~c.alive /\ c.rfd = ctx.rfd /\ c.owned = ctx.owned
      /\ c.listen = ctx.listen /\ c.answer = ctx.answer
  BY <1>1, FdFacts DEF sockInit, Context
<1>3. PICK n \in Fd :
          /\ file[n] = "free" /\ file' = [file EXCEPT ![n] = "call"]
          /\ ctx' = [c EXCEPT !.fd = n, !.alive = TRUE, !.state = "ONLINE"]
  BY DEF answerAccept, Lowest, Opened
<1>. HIDE DEF c, gone
<1>4. /\ ctx' \in Context /\ ctx'.fd = n /\ ctx'.alive
      /\ ctx'.rfd = c.rfd /\ ctx'.owned = c.owned /\ ctx'.listen = c.listen
      /\ ctx'.answer = c.answer /\ ctx'.state = "ONLINE"
  BY <1>2, <1>3 DEF Context, States
<1>5. Known(file, c, tmp, gone) /\ gone \subseteq Fd
  BY <1>1, <1>2, Displaces DEF Steps, gone
<1>6. Known(file', ctx', tmp, gone)
  <2>1. n \in Fd /\ file[n] = "free" /\ c.fd <= 0 /\ file' = [file EXCEPT ![n] = "call"]
    BY <1>2, <1>3
  <2>. QED
    BY <1>4, <1>5, <2>1, OpensCall
<1>7. tmp' = tmp
  BY <1>1 DEF Steps, work
<1>. QED
  BY <1>1, <1>2, <1>4, <1>6, <1>7, StepsOk

-----------------------------------------------------------------------------
(* Setup. *)

\* What leaves the call, its list and the stack alone.
LEMMA SetupOk ==
    ASSUME IInv, pc = "idle", NEW r \in {"ok", "error"}, Returned(r),
           UNCHANGED <<heap, left, lost>>, Known(file', ctx', tmp, lost),
           ctx'.state = ctx.state, ctx'.result = ctx.result, ctx'.fd = ctx.fd,
           ctx'.alive = ctx.alive, ctx'.rp = ctx.rp,
           child' \in {"none", "running"},
           chosen' \in {"none", "stdin", "app", "pty", "comm", "failed", "dev",
                        "listen", "client"},
           ctx'.owned => chosen' \in {"pty", "comm", "failed", "dev", "client"},
           ctx'.listen # NoFd => chosen' = "listen"
    PROVE  IInv'
<1>1. /\ pc' = pc /\ at' = at /\ list' = list /\ tmp' = tmp /\ ret' = r
      /\ heap' = heap /\ left' = left /\ lost' = lost
  BY DEF Returned, work
<1>2. TypeOK'
  BY <1>1 DEF IInv, TypeOK, Known
<1>3. Kernel' /\ Chosen' /\ Frames' /\ NoneForgotten' /\ ListsAreFreed'
  BY <1>1 DEF IInv, Kernel, Chosen, Frames, NoneForgotten, ListsAreFreed
<1>. QED
  BY <1>2, <1>3 DEF IInv

\* Before a mode is chosen there is neither a tty of one's own nor a listener.
LEMMA Unchosen ==
    ASSUME IInv, pc = "idle", chosen = "none"
    PROVE  ~ctx.owned /\ ctx.listen = NoFd
BY DEF IInv, Chosen

LEMMA BorrowsOk ==
    ASSUME IInv, m2k_setup_stdin \/ m2k_setup_app_io
    PROVE  IInv'
<1>1. /\ pc = "idle" /\ chosen = "none" /\ ~ctx.owned /\ ctx.listen = NoFd
      /\ Known(file, ctx, tmp, lost) /\ ctx \in Context /\ child \in {"none", "running"}
  BY Idle, Unchosen DEF m2k_setup_stdin, m2k_setup_app_io, Chooses, IInv, TypeOK
<1>2. PICK x, y \in Fd \cup {NoFd} : ctx' = [ctx EXCEPT !.rfd = x, !.wfd = y, !.owned = FALSE]
  BY FdFacts DEF m2k_setup_stdin, m2k_setup_app_io, UsesTty
<1>3. /\ ctx' \in Context /\ ctx'.fd = ctx.fd /\ ctx'.alive = ctx.alive /\ ~ctx'.owned
      /\ ctx'.listen = ctx.listen /\ ctx'.answer = ctx.answer /\ ctx'.state = ctx.state
      /\ ctx'.result = ctx.result /\ ctx'.rp = ctx.rp
  BY <1>1, <1>2 DEF Context
<1>4. /\ file' = file /\ heap' = heap /\ left' = left /\ lost' = lost /\ child' = child
      /\ chosen' \in {"stdin", "app"} /\ Returned("ok")
  BY DEF m2k_setup_stdin, m2k_setup_app_io, Chooses, marks
<1>5. Known(file', ctx', tmp, lost)
  BY <1>1, <1>3, <1>4 DEF Known, Holds, Distinct
<1>. QED
  BY <1>1, <1>3, <1>4, <1>5, SetupOk

\* Nothing has changed but the result.
LEMMA FailsOk ==
    ASSUME IInv, pc = "idle", Returned("error"),
           UNCHANGED <<file, heap, ctx, child, chosen, left, lost>>
    PROVE  IInv'
BY Idle, SetupOk DEF IInv, TypeOK, Chosen

LEMMA PtyFailsOk == ASSUME IInv, ptyFails PROVE IInv'
<1>1. /\ pc = "idle" /\ Returned("error") /\ UNCHANGED <<heap, ctx, child, chosen, left, lost>>
      /\ file \in [Fd -> Kinds]
  BY Idle DEF ptyFails, marks
<1>2. file' = file
  BY <1>1, OpensInVain DEF ptyFails, Lowest, Opened
<1>. QED
  BY <1>1, <1>2, FailsOk

\* A tty that is opened.
LEMMA TtyOk ==
    ASSUME IInv, pc = "idle", chosen = "none", NEW kind \in TtyKinds,
           \E n \in Fd : Lowest(n) /\ file' = Opened(n, kind) /\ ctx' = UsesTty(n, TRUE),
           NEW r \in {"ok", "error"}, Returned(r), UNCHANGED <<heap, left, lost>>,
           child' \in {"none", "running"}, chosen' \in {"pty", "comm", "failed", "dev"}
    PROVE  IInv'
<1>1. PICK n \in Fd : file[n] = "free" /\ file' = Opened(n, kind) /\ ctx' = UsesTty(n, TRUE)
  BY DEF Lowest
<1>2. ~ctx.owned /\ ctx.listen = NoFd /\ Known(file, ctx, tmp, lost) /\ ctx \in Context
  BY Idle, Unchosen
<1>3. Known(file', ctx', tmp, lost)
  BY <1>1, <1>2, OpensTty DEF Opened, UsesTty
<1>4. /\ ctx'.fd = ctx.fd /\ ctx'.alive = ctx.alive /\ ctx'.listen = ctx.listen
      /\ ctx'.state = ctx.state /\ ctx'.result = ctx.result /\ ctx'.rp = ctx.rp
  BY <1>1, <1>2 DEF UsesTty, Context
<1>. QED
  BY <1>2, <1>3, <1>4, SetupOk

LEMMA OwnTtyOk ==
    ASSUME IInv, m2k_setup_pty \/ m2k_setup_comm_program \/ m2k_setup_dev
    PROVE  IInv'
<1>1. child \in {"none", "running"}
  BY DEF IInv, TypeOK
<1>2. CASE m2k_setup_pty
  <2>1. CASE ptyFails
    BY <2>1, PtyFailsOk
  <2>2. CASE ~ptyFails
    <3>1. "pty" \in TtyKinds
      BY DEF TtyKinds
    <3>. QED
      BY <1>1, <1>2, <2>2, <3>1, TtyOk DEF m2k_setup_pty, Chooses, marks
  <2>. QED
    BY <2>1, <2>2
<1>3. CASE m2k_setup_comm_program
  <2>1. CASE ptyFails
    BY <2>1, PtyFailsOk
  <2>2. CASE ~ptyFails
    <3>1. "pty" \in TtyKinds
      BY DEF TtyKinds
    <3>. QED
      BY <1>1, <1>3, <2>2, <3>1, TtyOk DEF m2k_setup_comm_program, Chooses, marks
  <2>. QED
    BY <2>1, <2>2
<1>4. CASE m2k_setup_dev
  <2>1. CASE chosen' = "dev"
    <3>1. "dev" \in TtyKinds
      BY DEF TtyKinds
    <3>2. chosen # "dev" /\ chosen = "none"
      BY <1>4 DEF m2k_setup_dev, Chooses
    <3>. QED
      BY <1>1, <1>4, <2>1, <3>1, <3>2, TtyOk DEF m2k_setup_dev, Chooses, marks
  <2>2. CASE chosen' # "dev"
    BY <1>4, <2>2, FailsOk DEF m2k_setup_dev, Chooses, marks
  <2>. QED
    BY <2>1, <2>2
<1>. QED
  BY <1>2, <1>3, <1>4

-----------------------------------------------------------------------------
(* Listeners. *)

LEMMA SockListenOk ==
    ASSUME IInv, NEW who \in {"listen", "answer"}, m2k_sockListen(who)
    PROVE  IInv'
<1>1. /\ pc = "idle" /\ Known(file, ctx, tmp, lost) /\ tmp = NoFd /\ list = NoList
      /\ file' = file /\ ctx' = ctx /\ child' = child /\ chosen' = chosen
      /\ left' = left /\ lost' = lost
  BY Idle DEF m2k_sockListen, marks
<1>2. CASE Returned("error") /\ UNCHANGED heap
  BY <1>1, <1>2, FailsOk
<1>3. CASE pc' = who
  <2>1. PICK l \in Lists \ heap :
            /\ list' = l /\ heap' = heap \cup {l}
            /\ at' = 1 /\ tmp' = NoFd /\ ret' = ret
            /\ who = "answer" => ctx.answer = NoFd
            /\ who = "listen" => chosen = "none"
    BY <1>1, <1>3 DEF m2k_sockListen, Returned
  <2>2. TypeOK'
    BY <1>1, <1>3, <2>1, AddrAssumption DEF IInv, TypeOK
  <2>3. Kernel'
    BY <1>1, <1>3, <2>1 DEF IInv, Kernel
  <2>4. Chosen'
    BY <1>1, <1>3, <2>1 DEF IInv, Chosen
  <2>5. Frames'
    BY <1>1, <1>3, <2>1 DEF IInv, Frames, ListsAreFreed
  <2>6. NoneForgotten'
    BY <1>1, <1>3 DEF IInv, NoneForgotten
  <2>7. ListsAreFreed'
    <3>1. heap \subseteq left \cup {k \in Lists : ctx.state = "DIAL" /\ k = ctx.result}
      BY <1>1, Idle DEF IInv, ListsAreFreed
    <3>. QED
      BY <1>1, <1>3, <2>1, <3>1 DEF IInv, ListsAreFreed
  <2>. QED
    BY <2>2, <2>3, <2>4, <2>5, <2>6, <2>7 DEF IInv
<1>. QED
  BY <1>1, <1>2, <1>3 DEF m2k_sockListen

LEMMA BindFailsOk == ASSUME IInv, bindFails PROVE IInv'
<1>1. /\ pc \in {"listen", "answer"} /\ at <= MaxAddr /\ at' = at + 1 /\ file \in [Fd -> Kinds]
      /\ UNCHANGED <<pc, heap, ctx, list, tmp, child, chosen, ret, left, lost>>
  BY DEF bindFails, Listens, IInv, TypeOK, marks
<1>2. file' = file
  BY <1>1, OpensInVain DEF bindFails, Lowest, Opened
<1>3. at' \in 1..(MaxAddr + 1)
  BY <1>1, AddrAssumption DEF IInv, TypeOK
<1>4. TypeOK'
  BY <1>1, <1>2, <1>3 DEF IInv, TypeOK
<1>5. Kernel' /\ Chosen' /\ Frames' /\ NoneForgotten' /\ ListsAreFreed'
  BY <1>1, <1>2 DEF IInv, Kernel, Chosen, Frames, NoneForgotten, ListsAreFreed
<1>. QED
  BY <1>4, <1>5 DEF IInv

LEMMA BindWorksOk == ASSUME IInv, bindWorks PROVE IInv'
<1>1. /\ pc \in {"listen", "answer"} /\ tmp = NoFd
      /\ UNCHANGED <<pc, heap, ctx, at, list, child, chosen, ret, left, lost>>
      /\ Known(file, ctx, tmp, lost)
  BY DEF bindWorks, Listens, IInv, Kernel, marks
<1>2. PICK n \in Fd : /\ file[n] = "free" /\ file' = [file EXCEPT ![n] = "listener"]
                      /\ tmp' = n
  BY DEF bindWorks, Lowest, Opened
<1>3. Known(file', ctx', tmp', lost)
  BY <1>1, <1>2, OpensListener
<1>4. TypeOK'
  BY <1>1, <1>3 DEF IInv, TypeOK, Known
<1>5. Kernel'
  BY <1>1, <1>3 DEF IInv, Kernel
<1>6. Chosen' /\ Frames' /\ NoneForgotten' /\ ListsAreFreed'
  BY <1>1 DEF IInv, Chosen, Frames, NoneForgotten, ListsAreFreed
<1>. QED
  BY <1>4, <1>5, <1>6 DEF IInv

\* The end of m2k_sockListen(): the list goes, the listener gets its field.
LEMMA ListenedOk ==
    ASSUME IInv, Listened, NEW r \in {"ok", "error"}, Returns(r),
           Known(file', ctx', NoFd, lost), UNCHANGED <<child, left, lost>>,
           ctx'.state = ctx.state, ctx'.result = ctx.result, ctx'.fd = ctx.fd,
           ctx'.alive = ctx.alive, ctx'.rp = ctx.rp, ctx'.owned = ctx.owned,
           chosen' \in {chosen, "listen"},
           ctx'.owned => chosen' = chosen,
           ctx'.listen # NoFd => chosen' = "listen"
    PROVE  IInv'
<1>1. /\ pc \in {"listen", "answer"} /\ pc' = "idle" /\ ret' = r /\ at' = 1 /\ list' = NoList
      /\ tmp' = NoFd /\ heap' = heap \ {list} /\ child' = child /\ left' = left /\ lost' = lost
  BY DEF Listened, Returns
<1>2. TypeOK'
  BY <1>1, AddrAssumption DEF IInv, TypeOK, Known
<1>3. Kernel' /\ Chosen' /\ NoneForgotten'
  BY <1>1 DEF IInv, Kernel, Chosen, NoneForgotten
<1>4. ListsAreFreed'
  BY <1>1 DEF IInv, ListsAreFreed, Frames
<1>5. Frames'
  <2>1. ctx'.state = "DIAL" => ctx'.result \in Lists
    BY <1>1 DEF IInv, TypeOK, ListsAreFreed
  <2>. QED
    BY <1>1, <2>1, ListAssumption DEF Frames
<1>. QED
  BY <1>2, <1>3, <1>4, <1>5 DEF IInv

LEMMA SetupListenOk == ASSUME IInv, m2k_setup_listen PROVE IInv'
<1>1. /\ pc = "listen" /\ Listened /\ UNCHANGED <<file, child, left, lost>>
      /\ Known(file, ctx, tmp, lost) /\ chosen = "none" /\ ~ctx.owned /\ ctx.listen = NoFd
  BY DEF m2k_setup_listen, IInv, Kernel, Chosen, marks
<1>2. CASE tmp = NoFd
  BY <1>1, <1>2, ListenedOk DEF m2k_setup_listen
<1>3. CASE tmp # NoFd
  <2>1. ctx' = [ctx EXCEPT !.listen = tmp] /\ chosen' = "listen" /\ Returns("ok")
    BY <1>3 DEF m2k_setup_listen
  <2>2. /\ ctx' \in Context /\ ctx'.fd = ctx.fd /\ ctx'.alive = ctx.alive /\ ctx'.listen = tmp
        /\ ctx'.rfd = ctx.rfd /\ ctx'.owned = ctx.owned /\ ctx'.answer = ctx.answer
        /\ ctx'.state = ctx.state /\ ctx'.result = ctx.result /\ ctx'.rp = ctx.rp
    BY <1>1, <2>1 DEF Known, Context
  <2>3. Known(file', ctx', NoFd, lost)
    BY <1>1, <1>3, <2>2, FdFacts DEF Known, Holds, Distinct
  <2>. QED
    BY <1>1, <2>1, <2>2, <2>3, ListenedOk
<1>. QED
  BY <1>2, <1>3

LEMMA SetupAnswerOk == ASSUME IInv, m2k_setup_answer PROVE IInv'
<1>1. /\ pc = "answer" /\ Listened /\ UNCHANGED <<child, chosen, left, lost>>
      /\ Known(file, ctx, tmp, lost) /\ ctx.answer = NoFd
      /\ ctx.owned => chosen # "listen"
      /\ ctx.listen # NoFd => chosen = "listen"
  BY DEF m2k_setup_answer, IInv, Kernel, Chosen, marks
<1>2. CASE tmp = NoFd /\ Returns("error") /\ UNCHANGED <<file, ctx>>
  BY <1>1, <1>2, ListenedOk
<1>3. CASE tmp # NoFd /\ Returns("ok") /\ ctx' = [ctx EXCEPT !.answer = tmp] /\ UNCHANGED file
  <2>2. /\ ctx' \in Context /\ ctx'.fd = ctx.fd /\ ctx'.alive = ctx.alive /\ ctx'.answer = tmp
        /\ ctx'.rfd = ctx.rfd /\ ctx'.owned = ctx.owned /\ ctx'.listen = ctx.listen
        /\ ctx'.state = ctx.state /\ ctx'.result = ctx.result /\ ctx'.rp = ctx.rp
    BY <1>1, <1>3 DEF Known, Context
  <2>3. Known(file', ctx', NoFd, lost)
    BY <1>1, <1>3, <2>2, FdFacts DEF Known, Holds, Distinct
  <2>. QED
    BY <1>1, <1>3, <2>2, <2>3, ListenedOk
<1>4. CASE tmp # NoFd /\ Returns("error") /\ file' = Closed(tmp) /\ UNCHANGED ctx
  <2>1. tmp \in Fd /\ file[tmp] = "listener" /\ tmp # ctx.listen /\ tmp # ctx.answer
    BY <1>1, <1>4 DEF Known, Holds, Distinct
  <2>2. file' \in [Fd -> Kinds] /\ file'[tmp] = "free" /\ \A m \in Fd \ {tmp} : file'[m] = file[m]
    BY <1>1, <1>4, <2>1 DEF Known, Closed, Kinds
  <2>3. "listener" \notin {"std", "call"} \cup TtyKinds
        /\ "free" \notin {"std", "listener", "call"} \cup TtyKinds
    BY DEF TtyKinds
  <2>4. Holds(file', ctx, NoFd, lost)
    BY <1>1, <1>4, <2>1, <2>2, <2>3, FdFacts DEF Known, Holds
  <2>5. Known(file', ctx', NoFd, lost)
    BY <1>1, <1>4, <2>2, <2>4 DEF Known, Distinct
  <2>. QED
    BY <1>1, <1>4, <2>5, ListenedOk
<1>. QED
  BY <1>2, <1>3, <1>4 DEF m2k_setup_answer

\* Closing the listener, in the table f.
LEMMA ClosesListener ==
    ASSUME NEW f, NEW c, Known(f, c, NoFd, lost), c.listen # NoFd
    PROVE  Known([f EXCEPT ![c.listen] = "free"], [c EXCEPT !.listen = NoFd], NoFd, lost)
<1>. DEFINE d == [c EXCEPT !.listen = NoFd]
            g == [f EXCEPT ![c.listen] = "free"]
<1>1. c.listen \in Fd /\ f[c.listen] = "listener" /\ c.listen # c.answer
  BY DEF Known, Context, Holds, Distinct
<1>2. g \in [Fd -> Kinds] /\ g[c.listen] = "free" /\ \A m \in Fd \ {c.listen} : g[m] = f[m]
  BY <1>1 DEF Known, Kinds
<1>3. /\ d \in Context /\ d.fd = c.fd /\ d.alive = c.alive /\ d.listen = NoFd
      /\ d.rfd = c.rfd /\ d.owned = c.owned /\ d.answer = c.answer
  BY DEF Known, Context
<1>4. "listener" \notin {"std", "call"} \cup TtyKinds
      /\ "free" \notin {"std", "listener", "call"} \cup TtyKinds
  BY DEF TtyKinds
<1>. HIDE DEF d, g
<1>5. Holds(g, d, NoFd, lost)
  BY <1>1, <1>2, <1>3, <1>4, FdFacts DEF Known, Holds
<1>. QED
  BY <1>2, <1>3, <1>5 DEF Known, Distinct, d, g

LEMMA ListenAcceptOk == ASSUME IInv, m2k_listen_accept PROVE IInv'
<1>1. /\ pc = "idle" /\ Known(file, ctx, NoFd, lost) /\ tmp = NoFd
      /\ UNCHANGED <<heap, child, left, lost>> /\ child \in {"none", "running"}
      /\ ctx \in Context /\ file \in [Fd -> Kinds]
  BY Idle DEF m2k_listen_accept, IInv, TypeOK, marks
<1>2. CASE ctx.listen = NoFd /\ Returned("error") /\ UNCHANGED <<file, ctx, chosen>>
  BY <1>1, <1>2, FailsOk
<1>3. ctx.listen # NoFd => ~ctx.owned
  BY DEF IInv, Chosen
<1>. DEFINE d == [ctx EXCEPT !.listen = NoFd]
<1>4. /\ d \in Context /\ d.fd = ctx.fd /\ d.alive = ctx.alive /\ d.listen = NoFd
      /\ d.owned = ctx.owned /\ d.state = ctx.state /\ d.result = ctx.result /\ d.rp = ctx.rp
  BY <1>1 DEF Context
<1>5. CASE /\ ctx.listen # NoFd /\ Returned("error") /\ file' = Closed(ctx.listen)
           /\ ctx' = d /\ chosen' = "none"
  <2>1. Known(file', ctx', NoFd, lost)
    BY <1>1, <1>5, ClosesListener DEF Closed
  <2>2. tmp' = NoFd
    BY <1>1, <1>5 DEF Returned, work
  <2>. QED
    BY <1>1, <1>3, <1>4, <1>5, <2>1, <2>2, SetupOk
<1>6. ASSUME ctx.listen # NoFd, NEW n \in Fd, Lowest(n), Returned("ok"),
             file' = [Opened(n, "client") EXCEPT ![ctx.listen] = "free"],
             ctx' = [UsesTty(n, TRUE) EXCEPT !.listen = NoFd], chosen' = "client"
      PROVE  IInv'
  <2>1. "client" \in TtyKinds
    BY DEF TtyKinds
  <2>2. Known(Opened(n, "client"), UsesTty(n, TRUE), NoFd, lost)
    BY <1>1, <1>3, <1>6, <2>1, OpensTty DEF Opened, UsesTty, Lowest
  <2>. DEFINE e == UsesTty(n, TRUE)
  <2>3. /\ e \in Context /\ e.listen = ctx.listen /\ e.fd = ctx.fd /\ e.alive = ctx.alive
        /\ e.state = ctx.state /\ e.result = ctx.result /\ e.rp = ctx.rp
    BY <1>1, <1>6 DEF UsesTty, Context
  <2>. HIDE DEF e
  <2>4. Known(file', ctx', NoFd, lost)
    BY <1>6, <2>2, <2>3, ClosesListener DEF e
  <2>5. /\ ctx'.fd = ctx.fd /\ ctx'.alive = ctx.alive /\ ctx'.listen = NoFd
        /\ ctx'.state = ctx.state /\ ctx'.result = ctx.result /\ ctx'.rp = ctx.rp
    BY <1>6, <2>3 DEF Context, e
  <2>6. tmp' = NoFd
    BY <1>1, <1>6 DEF Returned, work
  <2>. QED
    BY <1>1, <1>6, <2>4, <2>5, <2>6, SetupOk
<1>. QED
  BY <1>2, <1>5, <1>6 DEF m2k_listen_accept

-----------------------------------------------------------------------------
(* Calls by the synchronous API. *)

LEMMA DialOk == ASSUME IInv, m2k_dial PROVE IInv'
<1>1. /\ pc = "idle" /\ UNCHANGED <<file, child, chosen, left>>
      /\ Known(file, ctx, tmp, lost) /\ tmp = NoFd /\ ctx \in Context
      /\ heap \subseteq left \cup {l \in Lists : ctx.state = "DIAL" /\ l = ctx.result}
      /\ heap \subseteq Lists /\ (ctx.state = "DIAL" => ctx.result \in heap)
  BY Idle DEF m2k_dial, IInv, ListsAreFreed
<1>2. CASE Returned("error") /\ UNCHANGED <<heap, ctx, lost>>
  BY <1>1, <1>2, FailsOk
<1>3. CASE pc' = "dial"
  <2>1. PICK l \in Lists \ heap :
            /\ list' = l /\ heap' = heap \cup {l} /\ at' = 1
            /\ ctx' = [sockInit(ctx) EXCEPT !.rp = TRUE]
            /\ lost' = lost \cup Socket(ctx)
            /\ tmp' = tmp /\ ret' = ret
    BY <1>1, <1>3 DEF m2k_dial, Returned
  <2>2. /\ ctx' \in Context /\ ctx'.fd = 0 /\ ~ctx'.alive /\ ctx'.rfd = ctx.rfd
        /\ ctx'.owned = ctx.owned /\ ctx'.listen = ctx.listen /\ ctx'.answer = ctx.answer
        /\ ctx'.state = ctx.state /\ ctx'.result = ctx.result
    BY <1>1, <2>1, FdFacts DEF sockInit, Context
  <2>3. Known(file', ctx', tmp', lost') /\ lost' \subseteq Fd
    BY <1>1, <2>1, <2>2, Displaces
  <2>5. TypeOK'
    BY <1>1, <1>3, <2>1, <2>2, <2>3, AddrAssumption DEF IInv, TypeOK
  <2>6. Kernel' /\ Chosen' /\ Frames' /\ NoneForgotten' /\ ListsAreFreed'
    BY <1>1, <1>3, <2>1, <2>2, <2>3
       DEF IInv, Kernel, Chosen, Frames, NoneForgotten, ListsAreFreed
  <2>. QED
    BY <2>5, <2>6 DEF IInv
<1>. QED
  BY <1>1, <1>2, <1>3 DEF m2k_dial

\* A step within m2k_sockDial() that goes on.
LEMMA GoesOnOk ==
    ASSUME IInv, pc = "dial", UNCHANGED <<pc, heap, list, tmp, ret, child, chosen, left, lost>>,
           Known(file', ctx', tmp, lost), at' \in {at, at + 1}, at' \in 1..(MaxAddr + 1),
           ctx'.fd > 0 => at' <= MaxAddr, ctx'.owned = ctx.owned,
           ctx'.listen = ctx.listen, ctx'.state = ctx.state, ctx'.result = ctx.result
    PROVE  IInv'
<1>1. TypeOK'
  BY DEF IInv, TypeOK, Known
<1>2. Kernel' /\ Chosen' /\ Frames' /\ NoneForgotten' /\ ListsAreFreed'
  BY DEF IInv, Kernel, Chosen, Frames, NoneForgotten, ListsAreFreed
<1>. QED
  BY <1>1, <1>2 DEF IInv

\* The end of m2k_sockDial(), with a call or without a socket.
LEMMA DialedOk ==
    ASSUME IInv, pc = "dial", NEW r \in {"ok", "error"}, Returns(r),
           heap' = heap \ {list}, UNCHANGED <<child, chosen, left, lost>>,
           Known(file', ctx', tmp, lost), ctx'.alive \/ ~(ctx'.fd > 0),
           ctx'.owned = ctx.owned, ctx'.listen = ctx.listen, ctx'.state = ctx.state,
           ctx'.result = ctx.result
    PROVE  IInv'
<1>1. /\ pc' = "idle" /\ ret' = r /\ at' = 1 /\ list' = NoList /\ tmp' = NoFd /\ tmp = NoFd
  BY DEF Returns, IInv, Frames
<1>2. TypeOK'
  BY <1>1, AddrAssumption DEF IInv, TypeOK, Known
<1>3. Kernel' /\ Chosen' /\ NoneForgotten'
  BY <1>1 DEF IInv, Kernel, Chosen, NoneForgotten
<1>4. ctx'.state = "DIAL" => ctx'.result \in Lists /\ ctx'.result \in heap'
  BY <1>1 DEF IInv, TypeOK, ListsAreFreed, Frames
<1>5. Frames' /\ ListsAreFreed'
  BY <1>1, <1>4, ListAssumption DEF IInv, Frames, ListsAreFreed
<1>. QED
  BY <1>2, <1>3, <1>5 DEF IInv

LEMMA DialingFacts ==
    ASSUME IInv, Dialing
    PROVE  /\ pc = "dial" /\ UNCHANGED <<child, chosen, left, lost>>
           /\ Known(file, ctx, tmp, lost) /\ ctx \in Context /\ file \in [Fd -> Kinds]
           /\ at \in 1..(MaxAddr + 1)
BY DEF IInv, Dialing, Kernel, TypeOK, marks

\* An address without a socket that is worth waiting for: f is the table again.
LEMMA NoSocketOk ==
    ASSUME IInv, Dialing, Next_addr, at <= MaxAddr, ctx.fd <= 0, file' = file,
           NEW n \in {0, NoFd}, ctx' = [ctx EXCEPT !.fd = n]
    PROVE  IInv'
<1>1. /\ pc = "dial" /\ UNCHANGED <<pc, heap, list, tmp, ret, child, chosen, left, lost>>
      /\ at' = at + 1 /\ Known(file, ctx, tmp, lost) /\ ctx \in Context /\ at \in 1..(MaxAddr + 1)
  BY DialingFacts DEF Next_addr
<1>2. ~ctx.alive
  <2>1. ~(ctx.fd > 0)
    BY <1>1, Signs DEF Context
  <2>. QED
    BY <1>1, <2>1 DEF Known
<1>3. /\ ctx' \in Context /\ ctx'.fd \in {0, NoFd} /\ ~ctx'.alive /\ ctx'.rfd = ctx.rfd
      /\ ctx'.owned = ctx.owned /\ ctx'.listen = ctx.listen /\ ctx'.answer = ctx.answer
      /\ ctx'.state = ctx.state /\ ctx'.result = ctx.result
  BY <1>1, <1>2, FdFacts DEF Context
<1>4. afterClose(file, ctx) = file'
  BY DEF afterClose
<1>5. Known(file', ctx', tmp, lost)
  BY <1>1, <1>3, <1>4, ClosesCall
<1>6. at' \in 1..(MaxAddr + 1)
  BY <1>1, AddrAssumption
<1>7. ~(ctx'.fd > 0)
  BY <1>3 DEF NoFd
<1>. QED
  BY <1>1, <1>3, <1>5, <1>6, <1>7, GoesOnOk

LEMMA AddrFailsOk == ASSUME IInv, addrFails PROVE IInv'
<1>1. /\ Dialing /\ Next_addr /\ at <= MaxAddr /\ ctx.fd <= 0 /\ file \in [Fd -> Kinds]
  BY DialingFacts DEF addrFails
<1>2. file' = file /\ \E n \in {0, NoFd} : ctx' = [ctx EXCEPT !.fd = n]
  BY <1>1, OpensInVain DEF addrFails, Lowest, Opened
<1>. QED
  BY <1>1, <1>2, NoSocketOk

LEMMA ConnectsOk == ASSUME IInv, connects PROVE IInv'
<1>1. /\ pc = "dial" /\ at' = at
      /\ UNCHANGED <<pc, heap, list, tmp, ret, child, chosen, left, lost>>
      /\ Known(file, ctx, tmp, lost) /\ ctx \in Context /\ at \in 1..(MaxAddr + 1) /\ ctx.fd <= 0
      /\ at <= MaxAddr
  BY DialingFacts DEF connects, work
<1>2. PICK n \in Fd : /\ file[n] = "free" /\ file' = [file EXCEPT ![n] = "call"]
                      /\ ctx' = [ctx EXCEPT !.fd = n]
  BY DEF connects, Lowest, Opened
<1>3. /\ ctx' \in Context /\ ctx'.fd = n /\ ctx'.rfd = ctx.rfd
      /\ ctx'.owned = ctx.owned /\ ctx'.listen = ctx.listen /\ ctx'.answer = ctx.answer
      /\ ctx'.state = ctx.state /\ ctx'.result = ctx.result
  BY <1>1, <1>2 DEF Context
<1>4. Known(file', ctx', tmp, lost)
  BY <1>1, <1>2, <1>3, OpensCall
<1>. QED
  BY <1>1, <1>3, <1>4, GoesOnOk

LEMMA ConnectedOk == ASSUME IInv, connected PROVE IInv'
<1>1. /\ Dialing /\ Returns("ok") /\ ctx.fd > 0
      /\ ctx' = [ctx EXCEPT !.alive = TRUE] /\ heap' = heap \ {list} /\ file' = file
  BY DEF connected, Selects
<1>2. /\ pc = "dial" /\ UNCHANGED <<child, chosen, left, lost>>
      /\ Known(file, ctx, tmp, lost) /\ ctx \in Context
  BY <1>1, DialingFacts
<1>3. /\ ctx' \in Context /\ ctx'.fd = ctx.fd /\ ctx'.alive /\ ctx'.rfd = ctx.rfd
      /\ ctx'.owned = ctx.owned /\ ctx'.listen = ctx.listen /\ ctx'.answer = ctx.answer
      /\ ctx'.state = ctx.state /\ ctx'.result = ctx.result
  BY <1>1, <1>2 DEF Context
<1>4. Known(file', ctx', tmp, lost)
  BY <1>1, <1>2, <1>3, SameKnown
<1>. QED
  BY <1>1, <1>2, <1>3, <1>4, DialedOk

LEMMA RefusedOk == ASSUME IInv, refused \/ givesUp PROVE IInv'
<1>1. /\ Dialing /\ ctx.fd > 0 /\ file' = afterClose(file, ctx) /\ ctx' = sockClosed(ctx)
  BY DEF refused, givesUp, Selects
<1>2. /\ pc = "dial" /\ UNCHANGED <<child, chosen, left, lost>>
      /\ Known(file, ctx, tmp, lost) /\ ctx \in Context /\ at \in 1..(MaxAddr + 1)
  BY <1>1, DialingFacts
<1>3. /\ ctx' \in Context /\ ctx'.fd \in {0, NoFd} /\ ctx'.owned = ctx.owned
      /\ ctx'.listen = ctx.listen /\ ctx'.result = ctx.result /\ ctx'.state = ctx.state
      /\ Known(file', ctx', tmp, lost)
  BY <1>1, <1>2, SockClosed
<1>4. ~(ctx'.fd > 0)
  BY <1>3 DEF NoFd
<1>5. CASE refused
  <2>1. UNCHANGED <<pc, heap, list, tmp, ret>> /\ at' = at + 1
    BY <1>5 DEF refused, Next_addr
  <2>2. at' \in 1..(MaxAddr + 1)
    BY <1>1, <1>2, <2>1, AddrAssumption DEF IInv, Frames
  <2>. QED
    BY <1>2, <1>3, <1>4, <2>1, <2>2, GoesOnOk
<1>6. CASE givesUp
  BY <1>2, <1>3, <1>4, <1>6, DialedOk DEF givesUp
<1>. QED
  BY <1>5, <1>6

LEMMA NoAddressOk == ASSUME IInv, noAddress PROVE IInv'
<1>1. /\ Dialing /\ Returns("error") /\ ctx.fd <= 0 /\ heap' = heap \ {list}
      /\ file' = file /\ ctx' = [ctx EXCEPT !.rp = FALSE]
  BY DEF noAddress, marks
<1>2. /\ pc = "dial" /\ UNCHANGED <<child, chosen, left, lost>>
      /\ Known(file, ctx, tmp, lost) /\ ctx \in Context
  BY <1>1, DialingFacts
<1>3. /\ ctx' \in Context /\ ctx'.fd = ctx.fd /\ ctx'.alive = ctx.alive /\ ctx'.rfd = ctx.rfd
      /\ ctx'.owned = ctx.owned /\ ctx'.listen = ctx.listen /\ ctx'.answer = ctx.answer
      /\ ctx'.state = ctx.state /\ ctx'.result = ctx.result
  BY <1>1, <1>2 DEF Context
<1>4. ~(ctx'.fd > 0)
  BY <1>1, <1>2, <1>3, Signs DEF Context
<1>5. Known(file', ctx', tmp, lost)
  BY <1>1, <1>2, <1>3, SameKnown
<1>. QED
  BY <1>1, <1>2, <1>3, <1>4, <1>5, DialedOk

LEMMA OnlineOk == ASSUME IInv, m2k_online \/ onlineMode PROVE IInv'
<1>1. CASE m2k_online
  <2>1. /\ pc = "idle" /\ pc' = "online"
        /\ UNCHANGED <<file, heap, ctx, child, chosen, ret, left, lost>>
        /\ at' = at /\ list' = list /\ tmp' = tmp
    BY <1>1 DEF m2k_online, work, marks
  <2>2. TypeOK'
    BY <2>1 DEF IInv, TypeOK
  <2>3. Kernel' /\ Chosen' /\ Frames' /\ NoneForgotten' /\ ListsAreFreed'
    BY <2>1 DEF IInv, Kernel, Chosen, Frames, NoneForgotten, ListsAreFreed
  <2>. QED
    BY <2>2, <2>3 DEF IInv
<1>2. CASE onlineMode
  <2>1. /\ pc = "online" /\ pc' = "idle" /\ UNCHANGED <<heap, child, chosen, left, lost>>
        /\ at' = 1 /\ list' = NoList /\ tmp' = NoFd /\ list = NoList /\ tmp = NoFd
        /\ ret' \in {"ok", "error", "canceled"}
        /\ Known(file, ctx, tmp, lost)
    BY <1>2 DEF onlineMode, Returns, IInv, Frames, Kernel, marks
  <2>2. \/ UNCHANGED <<file, ctx>>
        \/ file' = afterClose(file, ctx) /\ ctx' = sockClosed(ctx)
    BY <1>2 DEF onlineMode
  <2>3. CASE UNCHANGED <<file, ctx>>
    <3>1. TypeOK'
      BY <2>1, <2>3, AddrAssumption DEF IInv, TypeOK
    <3>2. Kernel' /\ Chosen' /\ Frames' /\ NoneForgotten' /\ ListsAreFreed'
      BY <2>1, <2>3 DEF IInv, Kernel, Chosen, Frames, NoneForgotten, ListsAreFreed
    <3>. QED
      BY <3>1, <3>2 DEF IInv
  <2>4. CASE file' = afterClose(file, ctx) /\ ctx' = sockClosed(ctx)
    <3>1. /\ ctx' \in Context /\ ctx'.fd \in {0, NoFd} /\ ctx'.owned = ctx.owned
          /\ ctx'.listen = ctx.listen /\ ctx'.result = ctx.result /\ ctx'.state = ctx.state
          /\ Known(file', ctx', tmp, lost)
      BY <2>1, <2>4, SockClosed
    <3>2. ~(ctx'.fd > 0)
      BY <3>1 DEF NoFd
    <3>3. TypeOK'
      BY <2>1, <3>1, AddrAssumption DEF IInv, TypeOK, Known
    <3>4. Kernel' /\ Chosen' /\ Frames' /\ NoneForgotten' /\ ListsAreFreed'
      BY <2>1, <3>1, <3>2 DEF IInv, Kernel, Chosen, Frames, NoneForgotten, ListsAreFreed
    <3>. QED
      BY <3>3, <3>4 DEF IInv
  <2>. QED
    BY <2>2, <2>3, <2>4
<1>. QED
  BY <1>1, <1>2

-----------------------------------------------------------------------------
(* The context comes and goes. *)

LEMMA FreshFacts ==
    /\ Fresh.rfd = 0 /\ Fresh.owned = FALSE /\ Fresh.listen = NoFd /\ Fresh.answer = NoFd
    /\ Fresh.fd = 0 /\ Fresh.alive = FALSE /\ Fresh.result = NoList /\ Fresh.state = "CMD"
BY DEF Fresh

LEMMA NewOk == ASSUME IInv, m2k_new PROVE IInv'
<1>1. /\ pc = "none" /\ pc' \in {"none", "idle"} /\ ret' \in {"ok", "error"}
      /\ ctx = Fresh /\ ctx' = Fresh /\ chosen' = "none"
      /\ UNCHANGED <<file, heap, child, left, lost>>
      /\ at' = at /\ list' = list /\ tmp' = tmp /\ Known(file, ctx, tmp, lost)
  BY DEF m2k_new, work, IInv, Kernel, marks
<1>2. TypeOK'
  BY <1>1, FreshType DEF IInv, TypeOK
<1>3. Kernel' /\ Chosen' /\ Frames' /\ NoneForgotten' /\ ListsAreFreed'
  BY <1>1, FreshFacts DEF IInv, Kernel, Chosen, Frames, NoneForgotten, ListsAreFreed
<1>. QED
  BY <1>2, <1>3 DEF IInv

LEMMA FreeOk == ASSUME IInv, m2k_free PROVE IInv'
<1>1. /\ pc = "idle" /\ pc' = "none" /\ ret' = "ok" /\ ctx' = Fresh
      /\ UNCHANGED <<heap, child, chosen>> /\ at' = at /\ list' = list /\ tmp' = tmp
      /\ lost' = lost /\ left' = left \cup {l \in Lists : l = ctx.result}
      /\ Known(file, ctx, tmp, lost) /\ tmp = NoFd /\ list = NoList
  BY Idle DEF m2k_free, work
<1>. DEFINE Gone(n) == \/ n \in {ctx.listen, ctx.answer}
                       \/ ctx.owned /\ n = ctx.rfd
                       \/ n = ctx.fd /\ n > 0
<1>2. file' = [n \in Fd |-> IF Gone(n) THEN "free" ELSE file[n]]
  BY DEF m2k_free
<1>3. file' \in [Fd -> Kinds]
  BY <1>1, <1>2 DEF Known, Kinds
<1>4. Holds(file', Fresh, NoFd, lost)
  <2>. SUFFICES ASSUME NEW n \in Fd
                PROVE  /\ file'[n] = "std" <=> n \in Std
                       /\ file'[n] \notin TtyKinds
                       /\ (file'[n] = "call" <=> n \in lost) /\ file'[n] # "listener"
    BY FreshFacts, FdFacts DEF Holds, NoFd
  <2>1. "free" \notin {"std", "call", "listener"} \cup TtyKinds
        /\ {"std", "call", "listener"} \cap TtyKinds = {}
    BY DEF TtyKinds
  <2>2. /\ file[n] = "std" <=> n \in Std
        /\ file[n] \in TtyKinds <=> ctx.owned /\ n = ctx.rfd
        /\ file[n] = "call" <=> (n = ctx.fd /\ n > 0) \/ n \in lost
        /\ file[n] = "listener" <=> n \in {ctx.listen, ctx.answer}
        /\ ctx.fd \notin lost
    BY <1>1, FdFacts DEF Known, Holds
  <2>. HIDE DEF Gone
  <2>3. file'[n] = IF Gone(n) THEN "free" ELSE file[n]
    BY <1>2
  <2>4. Gone(n) <=> file[n] \in {"call", "listener"} \cup TtyKinds /\ n \notin lost
    BY <2>1, <2>2 DEF Gone
  <2>. QED
    BY <2>1, <2>2, <2>3, <2>4
<1>5. Known(file', ctx', tmp', lost)
  BY <1>1, <1>3, <1>4, FreshType, FreshFacts, Displaced DEF Known, Distinct
<1>6. TypeOK'
  BY <1>1, <1>5 DEF IInv, TypeOK, Known
<1>7. Kernel' /\ Chosen' /\ Frames' /\ NoneForgotten' /\ ListsAreFreed'
  BY <1>1, <1>5, FreshFacts DEF IInv, Kernel, Chosen, Frames, NoneForgotten, ListsAreFreed
<1>. QED
  BY <1>6, <1>7 DEF IInv

LEMMA ExitsOk == ASSUME IInv, Exits PROVE IInv'
<1>1. /\ pc' = "ended" /\ child' = "none" /\ ctx' = Fresh /\ heap' = {} /\ left' = {} /\ lost' = {}
      /\ file' = [n \in Fd |-> "free"] /\ at' = 1 /\ list' = NoList /\ tmp' = NoFd
      /\ UNCHANGED <<chosen, ret>>
  BY DEF Exits
<1>2. TypeOK'
  BY <1>1, FreshType, AddrAssumption DEF IInv, TypeOK, Kinds
<1>3. Kernel' /\ Chosen' /\ Frames' /\ NoneForgotten' /\ ListsAreFreed'
  BY <1>1, FreshFacts DEF IInv, Kernel, Chosen, Frames, NoneForgotten, ListsAreFreed
<1>. QED
  BY <1>2, <1>3 DEF IInv

LEMMA InitOk == Init => IInv
<1>. SUFFICES ASSUME Init PROVE IInv
  OBVIOUS
<1>. USE DEF Init
<1>1. TypeOK
  BY FreshType, AddrAssumption DEF TypeOK, Kinds
<1>2. Known(file, ctx, tmp, lost)
  <2>1. Holds(file, Fresh, NoFd, lost)
    BY FreshFacts, FdFacts DEF Holds, TtyKinds, NoFd
  <2>. QED
    BY <1>1, <2>1, FreshFacts DEF Known, Distinct, TypeOK
<1>3. Kernel /\ Chosen /\ Frames /\ NoneForgotten /\ ListsAreFreed
  BY <1>2, FreshFacts DEF Kernel, Chosen, Frames, NoneForgotten, ListsAreFreed
<1>. QED
  BY <1>1, <1>3 DEF IInv

LEMMA StepOk == IInv /\ [Next]_vars => IInv'
<1>. SUFFICES ASSUME IInv, [Next]_vars PROVE IInv'
  OBVIOUS
<1>1. CASE m2k_new
  BY <1>1, NewOk
<1>2. CASE m2k_free
  BY <1>2, FreeOk
<1>3. CASE Setup
  BY <1>3, BorrowsOk, OwnTtyOk, SockListenOk, ListenAcceptOk DEF Setup
<1>4. CASE m2k_step
  BY <1>4, DialStartOk, DialProgressOk, ClosingOk, AnswerOk, EscapesOk DEF m2k_step
<1>5. CASE sockShutdown
  BY <1>5, ClosingOk
<1>6. CASE m2k_dial
  BY <1>6, DialOk
<1>7. CASE m2k_online \/ onlineMode
  BY <1>7, OnlineOk
<1>8. CASE bindFails \/ bindWorks \/ m2k_setup_listen \/ m2k_setup_answer
  BY <1>8, BindFailsOk, BindWorksOk, SetupListenOk, SetupAnswerOk
<1>9. CASE m2k_sockDial
  BY <1>9, AddrFailsOk, ConnectsOk, ConnectedOk, RefusedOk, NoAddressOk DEF m2k_sockDial
<1>10. CASE sigchld \/ Exits
  BY <1>10, ExitsOk DEF sigchld
<1>11. CASE UNCHANGED vars
  BY <1>11 DEF vars, work, IInv, TypeOK, Kernel, Chosen, Frames, NoneForgotten, ListsAreFreed
<1>. QED
  BY <1>1, <1>2, <1>3, <1>4, <1>5, <1>6, <1>7, <1>8, <1>9, <1>10, <1>11 DEF Next, Inside

-----------------------------------------------------------------------------
(* Theorems. *)

\* Everything stays in its type.
THEOREM LifeTypes == Spec => []TypeOK
<1>1. IInv => TypeOK
  BY DEF IInv
<1>. QED
  BY InitOk, StepOk, <1>1, PTL DEF Spec

\* Each descriptor the library has opened is one that it knows how to close, or the
\* socket of a call that m2k_dial() has displaced, and no field names one that is
\* closed: the invariant read as sets.
LEMMA KnownIsAccounted == IInv => Accounted
<1>. SUFFICES ASSUME IInv PROVE Accounted
  OBVIOUS
<1>1. CASE pc = "ended"
  BY <1>1, FreshFacts DEF IInv, Kernel, Accounted
<1>2. CASE pc # "ended"
  <2>1. Known(file, ctx, tmp, lost)
    BY <1>2 DEF IInv, Kernel
  <2>2. \A n \in Fd : /\ file[n] = "std" <=> n \in Std
                      /\ file[n] \in TtyKinds <=> ctx.owned /\ n = ctx.rfd
                      /\ file[n] = "call" <=> (n = ctx.fd /\ n > 0) \/ n \in lost
                      /\ file[n] = "listener" <=> n \in {ctx.listen, ctx.answer, tmp}
    BY <2>1 DEF Known, Holds
  <2>3. /\ ctx.rfd \in Fd \cup {NoFd} /\ ctx.fd \in Fd \cup {NoFd} /\ ~(NoFd > 0)
        /\ ctx.listen \in Fd \cup {NoFd} /\ ctx.answer \in Fd \cup {NoFd}
        /\ tmp \in Fd \cup {NoFd} /\ (ctx.owned => ctx.rfd # NoFd)
        /\ (ctx.alive => ctx.fd > 0) /\ lost \subseteq Fd /\ ctx.fd \notin lost
    BY <2>1 DEF Known, Context, NoFd
  <2>4. Open({"std"}) = Std
    BY <2>2, FdFacts DEF Open
  <2>5. Open(TtyKinds) = IF ctx.owned THEN {ctx.rfd} ELSE {}
    BY <2>2, <2>3 DEF Open
  <2>6. Open({"call"}) = lost \cup (IF ctx.fd > 0 THEN {ctx.fd} ELSE {})
    BY <2>2, <2>3 DEF Open
  <2>7. Open({"listener"}) = Named(ctx.listen) \cup Named(ctx.answer) \cup Named(tmp)
    <3>1. \A n \in Fd : n # NoFd
      BY FdFacts
    <3>2. Open({"listener"}) = {n \in Fd : n \in {ctx.listen, ctx.answer, tmp}}
      BY <2>2 DEF Open
    <3>. QED
      BY <2>3, <3>1, <3>2 DEF Named
  <2>. QED
    BY <2>3, <2>4, <2>5, <2>6, <2>7 DEF Accounted
<1>. QED
  BY <1>1, <1>2

THEOREM DescriptorsAccounted == Spec => []Accounted
BY InitOk, StepOk, KnownIsAccounted, PTL DEF Spec

\* A list that is allocated belongs to a dial in progress, but for the ones left
\* at the three known places.
THEOREM ListsFreed == Spec => []ListsAreFreed
<1>1. IInv => ListsAreFreed
  BY DEF IInv
<1>. QED
  BY InitOk, StepOk, <1>1, PTL DEF Spec

-----------------------------------------------------------------------------
(* The program. *)

LEMMA MainStepsAreLibrarySteps == main => [Next]_vars
<1>. SUFFICES ASSUME main PROVE [Next]_vars
  OBVIOUS
<1>1. CASE Starts
  BY <1>1 DEF Starts, Next
<1>2. CASE cmdargParse
  BY <1>2 DEF cmdargParse, SetMode, Next
<1>3. CASE SetsUp
  BY <1>3 DEF SetsUp, Setup, Next
<1>4. CASE Listening
  BY <1>4 DEF Listening, Inside, Next
<1>5. CASE Accepts
  BY <1>5 DEF Accepts, Setup, Next
<1>6. CASE Answers
  BY <1>6 DEF Answers, Setup, Next
<1>7. CASE Line
  BY <1>7 DEF Line, Inside, Next
<1>8. CASE Runs
  BY <1>8 DEF Runs, Next
<1>9. CASE Frees
  BY <1>9 DEF Frees, Next
<1>10. CASE Ends
  BY <1>10 DEF Ends, Next
<1>11. CASE sigchld
  BY <1>11 DEF Inside, Next
<1>. QED
  BY <1>1, <1>2, <1>3, <1>4, <1>5, <1>6, <1>7, <1>8, <1>9, <1>10, <1>11 DEF main

\* main() implements the library's contract with its hosts: each of its steps is
\* one that Lifecycle allows, or changes nothing there.
THEOREM ProgramIsAHost == ProgramSpec => Spec
<1>1. ProgramInit => Init
  BY DEF ProgramInit
<1>2. [ProgramNext]_pvars => [Next]_vars
  BY MainStepsAreLibrarySteps DEF ProgramNext, pvars
<1>. QED
  BY <1>1, <1>2, PTL DEF ProgramSpec, Spec

\* The program leaks no descriptor and closes none twice, whatever its options,
\* its tty and its peers do.
THEOREM ProgramIsAccounted == ProgramSpec => []Accounted
BY ProgramIsAHost, DescriptorsAccounted, PTL

-----------------------------------------------------------------------------
(* That what runs is what was asked for. *)

\* What the options say: at most one mode has been given, and ttymode is it.
OptionsRead ==
    /\ flag \in Modes \cup {"none"}
    /\ ttymode = IF flag = "none" THEN "stdin" ELSE flag
    /\ given \cap Modes = IF flag = "none" THEN {} ELSE {flag}

\* The tty of the mode, and whether the library is to close it.
HasTty ==
    \/ flag = "none" /\ "e" \in given /\ ctx.rfd = 0 /\ ctx.wfd = 1
    \/ flag = "c" /\ ctx.owned /\ file[ctx.rfd] = "pty" /\ child = "running"
    \/ flag = "d" /\ ctx.owned /\ file[ctx.rfd] = "dev"
    \/ flag = "l" /\ ctx.owned /\ file[ctx.rfd] = "client"

\* How far main() has come with it.
SetSoFar ==
    /\ phase \in {"parse", "setup", "listening", "accept", "answer"} => ctx.answer = NoFd
    /\ phase = "setup" /\ flag = "none" => "e" \in given
    /\ phase \in {"listening", "accept"} => flag = "l"
    /\ phase \in {"answer", "line", "run"} => HasTty
    /\ phase = "line" => "a" \in given
    /\ phase = "run" => (("a" \in given) = (ctx.answer # NoFd))

PInv == OptionsRead /\ SetSoFar

\* An owned tty has a descriptor of its kind.
LEMMA TtyDescriptor ==
  ASSUME IInv, pc # "ended", ctx.owned
  PROVE  ctx.rfd \in Fd /\ file[ctx.rfd] \in TtyKinds /\ file \in [Fd -> Kinds]
BY DEF IInv, TypeOK, Kernel, Known, Holds, Context

LEMMA CloseKeepsTty ==
  ASSUME IInv, pc # "ended", NEW n \in Fd, file[n] \in TtyKinds
  PROVE  afterClose(file, ctx)[n] = file[n]
<1>1. CASE ctx.fd <= 0
  BY <1>1 DEF afterClose
<1>2. CASE ~(ctx.fd <= 0)
  <2>1. ctx.fd \in Fd \cup {NoFd} /\ file \in [Fd -> Kinds] /\ NoFd <= 0
    BY DEF IInv, TypeOK, Context, NoFd
  <2>2. ctx.fd \in Fd /\ ctx.fd > 0
    BY <1>2, <2>1, Signs
  <2>3. file[ctx.fd] = "call"
    BY <2>2 DEF IInv, Kernel, Known, Holds
  <2>4. n # ctx.fd
    BY <2>3 DEF TtyKinds
  <2>. QED BY <1>2, <2>1, <2>4 DEF afterClose
<1>. QED BY <1>1, <1>2

\* A call opens descriptors that are free and closes its own: the tty stays.
LEMMA CallsKeepTty ==
  ASSUME IInv, m2k_step \/ sockShutdown, NEW n \in Fd, file[n] \in TtyKinds
  PROVE  file'[n] = file[n]
<1>1. pc # "ended" /\ file \in [Fd -> Kinds]
  BY DEF IInv, TypeOK, m2k_step, m2k_sockDialStart, m2k_sockDialProgress,
         m2k_sockDialAbort, answerAccept, answerWaits, OnlineLoses, Escapes, SessionEnds,
         sockShutdown, Steps
<1>2. file[n] # "free"
  BY DEF TtyKinds
<1>. DEFINE closed == afterClose(file, ctx)
<1>3. closed[n] = file[n] /\ closed \in [Fd -> Kinds]
  BY <1>1, CloseKeepsTty DEF afterClose, Kinds
<1>4. \/ file' = file \/ file' = closed
      \/ \E m \in Fd : file[m] = "free" /\ file' = [file EXCEPT ![m] = "call"]
      \/ \E m \in Fd : closed[m] = "free" /\ file' = [closed EXCEPT ![m] = "call"]
  <2>. HIDE DEF closed
  <2>1. CASE m2k_sockDialStart
    BY <2>1 DEF m2k_sockDialStart, TriesConnect, TriesFail
  <2>2. CASE m2k_sockDialProgress
    BY <2>2 DEF m2k_sockDialProgress, TriesConnect, TriesFail, closed
  <2>3. CASE m2k_sockDialAbort
    BY <2>3 DEF m2k_sockDialAbort, closed
  <2>4. CASE answerAccept
    BY <2>4 DEF answerAccept, Lowest, Opened
  <2>5. CASE answerWaits \/ OnlineLoses \/ Escapes \/ SessionEnds \/ sockShutdown
    BY <2>5 DEF answerWaits, OnlineLoses, Escapes, SessionEnds, sockShutdown, closed
  <2>. QED BY <2>1, <2>2, <2>3, <2>4, <2>5 DEF m2k_step
<1>. HIDE DEF closed
<1>. QED BY <1>1, <1>2, <1>3, <1>4

\* A call changes neither the tty nor the answer line of the context.
LEMMA CallsKeepContext ==
  ASSUME IInv, m2k_step \/ sockShutdown
  PROVE  /\ ctx'.rfd = ctx.rfd /\ ctx'.wfd = ctx.wfd /\ ctx'.owned = ctx.owned
         /\ ctx'.answer = ctx.answer /\ child' = child
<1>1. ctx \in Context
  BY DEF IInv, TypeOK
<1>. DEFINE Same(c) == /\ c \in Context /\ c.rfd = ctx.rfd /\ c.wfd = ctx.wfd
                       /\ c.owned = ctx.owned /\ c.answer = ctx.answer
<1>2. ASSUME NEW f, NEW c, Same(c),
             TriesConnect(f, c) \/ \E h : TriesFail(f, c, h)
      PROVE  Same(ctx')
  <2>1. CASE TriesConnect(f, c)
    <3>1. PICK n \in Fd, s \in {"DIAL", "ONLINE"} :
             ctx' = [c EXCEPT !.fd = n, !.alive = (s = "ONLINE"), !.rp = TRUE, !.state = s]
      BY <2>1 DEF TriesConnect
    <3>2. s \in States /\ (s = "ONLINE") \in BOOLEAN
      BY DEF States
    <3>. QED BY <1>2, <3>1, <3>2 DEF Context
  <2>2. CASE \E h : TriesFail(f, c, h)
    <3>1. PICK n \in {0, NoFd} :
             ctx' = [c EXCEPT !.fd = n, !.alive = FALSE, !.rp = FALSE,
                           !.result = NoList, !.state = "CMD"]
      BY <2>2 DEF TriesFail
    <3>. QED BY <1>2, <3>1, FdFacts DEF Context, States
  <2>. QED BY <1>2, <2>1, <2>2
<1>3. Same(sockClosed(ctx))
  BY <1>1, FdFacts DEF sockClosed, Context
<1>4. CASE m2k_sockDialStart
  <2>1. CASE ctx' = [ctx EXCEPT !.result = NoList]
    BY <1>1, <1>4, <2>1 DEF Context, m2k_sockDialStart, Steps
  <2>2. CASE \E l \in Lists \ heap :
               LET c == sockInit([ctx EXCEPT !.result = l])
               IN  TriesConnect(file, c) \/ \E h : TriesFail(file, c, h)
    <3>1. PICK l \in Lists :
             LET c == sockInit([ctx EXCEPT !.result = l])
             IN  TriesConnect(file, c) \/ \E h : TriesFail(file, c, h)
      BY <2>2
    <3>2. Same(sockInit([ctx EXCEPT !.result = l]))
      BY <1>1, FdFacts DEF sockInit, Context
    <3>. HIDE DEF Same
    <3>3. Same(ctx')
      BY <1>2, <3>1, <3>2
    <3>. QED BY <1>4, <3>3 DEF Same, m2k_sockDialStart, Steps
  <2>. QED BY <1>4, <2>1, <2>2 DEF m2k_sockDialStart
<1>5. CASE m2k_sockDialProgress
  <2>1. CASE ctx' = [ctx EXCEPT !.alive = TRUE, !.result = NoList, !.state = "ONLINE"]
    BY <1>1, <1>5, <2>1 DEF Context, m2k_sockDialProgress, Steps
  <2>3. CASE ctx' = [ctx EXCEPT !.state = "CMD"]
    BY <1>1, <1>5, <2>3 DEF Context, m2k_sockDialProgress, Steps
  <2>2. CASE \/ TriesConnect(afterClose(file, ctx), sockClosed(ctx))
             \/ \E h : TriesFail(afterClose(file, ctx), sockClosed(ctx), h)
    <3>. HIDE DEF Same
    <3>1. Same(ctx')
      BY <1>2, <1>3, <2>2
    <3>. QED BY <1>5, <3>1 DEF Same, m2k_sockDialProgress, Steps
  <2>. QED BY <1>5, <2>1, <2>2, <2>3 DEF m2k_sockDialProgress
<1>6. CASE m2k_sockDialAbort
  BY <1>1, <1>6 DEF m2k_sockDialAbort, sockClosed, Steps, Context
<1>7. CASE answerAccept
  BY <1>1, <1>7 DEF answerAccept, sockInit, Steps, Context
<1>8. CASE answerWaits \/ OnlineLoses \/ Escapes \/ SessionEnds \/ sockShutdown
  BY <1>1, <1>8, ZenonT(60)
  DEF answerWaits, OnlineLoses, Escapes, SessionEnds, sockShutdown, sockClosed, Steps, Context
<1>. QED BY <1>4, <1>5, <1>6, <1>7, <1>8 DEF m2k_step

\* An owned tty that a step leaves to itself is still the tty of the options.
LEMMA TtyKept ==
  ASSUME IInv, pc # "ended", HasTty, UNCHANGED cmdarg, child' = child,
         ctx'.rfd = ctx.rfd, ctx'.wfd = ctx.wfd, ctx'.owned = ctx.owned,
         \A n \in Fd : file[n] \in TtyKinds => file'[n] = file[n]
  PROVE  HasTty'
<1>1. ctx.owned => file'[ctx.rfd] = file[ctx.rfd]
  BY TtyDescriptor
<1>. QED BY <1>1 DEF HasTty, cmdarg

\* While the answer line is bound, descriptors are opened that are free.
LEMMA BindsKeepTty ==
  ASSUME IInv, bindFails \/ bindWorks
  PROVE  /\ ctx' = ctx /\ child' = child /\ pc # "ended"
         /\ \A n \in Fd : file[n] \in TtyKinds => file'[n] = file[n]
<1>1. file \in [Fd -> Kinds] /\ "free" \notin TtyKinds
  BY DEF IInv, TypeOK, TtyKinds
<1>2. ctx' = ctx /\ child' = child /\ pc # "ended"
  BY DEF bindFails, bindWorks, Listens
<1>3. file' = file \/ \E m \in Fd : file[m] = "free" /\ file' = [file EXCEPT ![m] = "listener"]
  <2>1. CASE bindFails
    BY <1>1, <2>1, OpensInVain DEF bindFails, Lowest, Opened
  <2>2. CASE bindWorks
    BY <2>2 DEF bindWorks, Lowest, Opened
  <2>. QED BY <2>1, <2>2
<1>. QED BY <1>1, <1>2, <1>3

LEMMA SetsUpAsked ==
  ASSUME IInv, PInv, SetsUp
  PROVE  PInv'
<1>1. OptionsRead' /\ UNCHANGED cmdarg
  BY DEF PInv, OptionsRead, SetsUp, Goes, Then, cmdarg
<1>2. ctx \in Context /\ file \in [Fd -> Kinds] /\ ctx.answer = NoFd
  BY DEF IInv, TypeOK, PInv, SetSoFar, SetsUp
<1>3. flag = IF ttymode = "stdin" THEN "none" ELSE ttymode
  BY DEF PInv, OptionsRead, Modes
\* The tty that was set up, if the call has returned well.
<1>4. ASSUME NEW n \in Fd, NEW kind, file' = [file EXCEPT ![n] = kind],
             ctx' = UsesTty(n, TRUE)
      PROVE  /\ file'[ctx'.rfd] = kind /\ ctx'.owned /\ ctx'.answer = NoFd
  BY <1>2, <1>4 DEF UsesTty, Context
<1>5. CASE ttymode = "s"
  BY <1>1, <1>5 DEF SetsUp, Goes, PInv, SetSoFar
<1>6. CASE ttymode = "stdin"
  <2>1. ctx'.rfd = 0 /\ ctx'.wfd = 1 /\ ctx'.answer = NoFd /\ phase' = "answer"
    BY <1>2, <1>6 DEF SetsUp, m2k_setup_stdin, Goes, Context
  <2>2. flag' = "none" /\ "e" \in given'
    BY <1>1, <1>3, <1>6 DEF cmdarg, PInv, SetSoFar, SetsUp
  <2>. QED BY <1>1, <2>1, <2>2 DEF PInv, SetSoFar, HasTty
<1>7. CASE ttymode = "c"
  <2>1. m2k_setup_comm_program /\ phase' \in {"answer", "free"}
        /\ (phase' = "answer" => ret' = "ok")
    BY <1>7 DEF SetsUp, Then, Goes
  <2>2. CASE phase' = "answer"
    <3>1. PICK n \in Fd : file' = [file EXCEPT ![n] = "pty"] /\ ctx' = UsesTty(n, TRUE)
                          /\ child' = "running"
      BY <2>1, <2>2 DEF m2k_setup_comm_program, ptyFails, Returned, Opened
    <3>2. flag' = "c"
      BY <1>1, <1>3, <1>7 DEF cmdarg
    <3>. QED BY <1>1, <1>4, <2>2, <3>1, <3>2 DEF PInv, SetSoFar, HasTty
  <2>3. CASE phase' = "free"
    BY <1>1, <2>3 DEF PInv, SetSoFar
  <2>. QED BY <2>1, <2>2, <2>3
<1>8. CASE ttymode = "d"
  <2>1. m2k_setup_dev /\ phase' \in {"answer", "free"}
        /\ (phase' = "answer" => ret' = "ok")
    BY <1>8 DEF SetsUp, Then, Goes
  <2>2. CASE phase' = "answer"
    <3>1. PICK n \in Fd : file' = [file EXCEPT ![n] = "dev"] /\ ctx' = UsesTty(n, TRUE)
      BY <2>1, <2>2 DEF m2k_setup_dev, Returned, Opened
    <3>2. flag' = "d"
      BY <1>1, <1>3, <1>8 DEF cmdarg
    <3>. QED BY <1>1, <1>4, <2>2, <3>1, <3>2 DEF PInv, SetSoFar, HasTty
  <2>3. CASE phase' = "free"
    BY <1>1, <2>3 DEF PInv, SetSoFar
  <2>. QED BY <2>1, <2>2, <2>3
<1>9. CASE ttymode = "l"
  <2>1. ctx' = ctx /\ phase' \in {"listening", "free"}
    BY <1>9 DEF SetsUp, Then, Goes, m2k_sockListen
  <2>2. flag' = "l"
    BY <1>1, <1>3, <1>9 DEF cmdarg
  <2>. QED BY <1>1, <1>2, <2>1, <2>2 DEF PInv, SetSoFar
<1>. QED BY <1>5, <1>6, <1>7, <1>8, <1>9 DEF SetsUp

LEMMA ListeningAsked ==
  ASSUME IInv, PInv, Listening \/ Accepts
  PROVE  PInv'
<1>1. OptionsRead' /\ UNCHANGED cmdarg /\ flag' = "l"
  BY DEF PInv, OptionsRead, SetSoFar, Listening, Accepts, Goes, Then, cmdarg
<1>2. ctx \in Context /\ file \in [Fd -> Kinds] /\ ctx.answer = NoFd
  BY DEF IInv, TypeOK, PInv, SetSoFar, Listening, Accepts
<1>3. CASE Listening
  <2>1. ctx'.answer = NoFd
    BY <1>2, <1>3 DEF Listening, bindFails, bindWorks, m2k_setup_listen, Context
  <2>2. phase' \in {"listening", "accept", "free"}
    BY <1>3 DEF Listening, Goes, Then
  <2>. QED BY <1>1, <2>1, <2>2 DEF PInv, SetSoFar
<1>4. CASE Accepts
  <2>1. m2k_listen_accept /\ phase' \in {"answer", "free"}
        /\ (phase' = "answer" => ret' = "ok") /\ pc # "ended"
    BY <1>4 DEF Accepts, Then, Goes, m2k_listen_accept
  <2>2. CASE phase' = "answer"
    <3>1. PICK n \in Fd : /\ file[n] = "free" /\ ctx.listen # NoFd
                          /\ file' = [[file EXCEPT ![n] = "client"] EXCEPT ![ctx.listen] = "free"]
                          /\ ctx' = [UsesTty(n, TRUE) EXCEPT !.listen = NoFd]
      BY <2>1, <2>2 DEF m2k_listen_accept, Returned, Lowest, Opened
    <3>2. n # ctx.listen
      BY <2>1, <3>1, Unnamed DEF IInv, Kernel
    <3>3. file'[n] = "client"
      BY <1>2, <3>1, <3>2
    <3>4. ctx'.rfd = n /\ ctx'.owned /\ ctx'.answer = NoFd
      BY <1>2, <3>1 DEF UsesTty, Context
    <3>. QED BY <1>1, <2>2, <3>3, <3>4 DEF PInv, SetSoFar, HasTty
  <2>3. CASE phase' = "free"
    BY <1>1, <2>3 DEF PInv, SetSoFar
  <2>. QED BY <2>1, <2>2, <2>3
<1>. QED BY <1>3, <1>4

LEMMA AnswersAsked ==
  ASSUME IInv, PInv, Answers \/ Line
  PROVE  PInv'
<1>1. OptionsRead' /\ UNCHANGED cmdarg /\ HasTty
  BY DEF PInv, OptionsRead, SetSoFar, Answers, Line, Goes, Then, cmdarg
<1>2. ctx \in Context /\ tmp \in Fd \cup {NoFd}
  BY DEF IInv, TypeOK
<1>3. CASE Answers
  <2>1. CASE "a" \notin given
    <3>1. ctx' = ctx /\ file' = file /\ child' = child /\ phase' = "run" /\ ctx.answer = NoFd
      BY <1>3, <2>1 DEF Answers, Goes, vars, PInv, SetSoFar
    <3>. QED BY <1>1, <2>1, <3>1 DEF PInv, SetSoFar, HasTty, cmdarg
  <2>2. CASE "a" \in given
    <3>1. ctx' = ctx /\ file' = file /\ child' = child /\ phase' \in {"line", "free"}
      BY <1>3, <2>2 DEF Answers, Then, Goes, m2k_sockListen
    <3>. QED BY <1>1, <2>2, <3>1 DEF PInv, SetSoFar, HasTty, cmdarg
  <2>. QED BY <2>1, <2>2
<1>4. CASE Line /\ (bindFails \/ bindWorks) /\ phase' = "line"
  <2>1. "a" \in given'
    BY <1>1, <1>4 DEF Line, PInv, SetSoFar, cmdarg
  <2>2. HasTty'
    BY <1>1, <1>4, BindsKeepTty, TtyKept
  <2>. QED BY <1>1, <1>4, <2>1, <2>2 DEF PInv, SetSoFar
<1>5. CASE Line /\ m2k_setup_answer /\ phase' \in {"run", "free"}
           /\ (phase' = "run" => ret' = "ok")
  <2>1. CASE phase' = "run"
    <3>1. tmp # NoFd /\ ctx' = [ctx EXCEPT !.answer = tmp] /\ file' = file
          /\ child' = child /\ pc # "ended"
      BY <1>5, <2>1 DEF m2k_setup_answer, Returns
    <3>2. ctx'.rfd = ctx.rfd /\ ctx'.wfd = ctx.wfd /\ ctx'.owned = ctx.owned
          /\ ctx'.answer # NoFd
      BY <1>2, <3>1 DEF Context
    <3>3. HasTty'
      BY <1>1, <3>1, <3>2, TtyKept
    <3>4. "a" \in given'
      BY <1>1, <1>5 DEF Line, PInv, SetSoFar, cmdarg
    <3>. QED BY <1>1, <2>1, <3>2, <3>3, <3>4 DEF PInv, SetSoFar
  <2>2. CASE phase' = "free"
    BY <1>1, <2>2 DEF PInv, SetSoFar
  <2>. QED BY <1>5, <2>1, <2>2
<1>. QED BY <1>3, <1>4, <1>5 DEF Line, Goes, Then

LEMMA RunsAsked ==
  ASSUME IInv, PInv, Runs
  PROVE  PInv'
<1>1. OptionsRead' /\ UNCHANGED cmdarg /\ phase' \in {"run", "free"}
  BY DEF PInv, OptionsRead, Runs, Goes, cmdarg
<1>2. CASE phase' = "free"
  BY <1>1, <1>2 DEF PInv, SetSoFar
<1>3. CASE phase' = "run"
  <2>1. (m2k_step \/ sockShutdown) /\ HasTty /\ (("a" \in given) = (ctx.answer # NoFd))
    BY <1>3 DEF Runs, Goes, PInv, SetSoFar
  <2>2. pc # "ended"
    BY <2>1 DEF m2k_step, m2k_sockDialStart, m2k_sockDialProgress, m2k_sockDialAbort,
         answerAccept, answerWaits, OnlineLoses, Escapes, SessionEnds, sockShutdown, Steps
  <2>3. HasTty' /\ ctx'.answer = ctx.answer
    BY <1>1, <2>1, <2>2, CallsKeepTty, CallsKeepContext, TtyKept
  <2>. QED BY <1>1, <1>3, <2>1, <2>3 DEF PInv, SetSoFar, cmdarg
<1>. QED BY <1>1, <1>2, <1>3

LEMMA OptionsAsked ==
  ASSUME PInv, Starts \/ cmdargParse
  PROVE  PInv'
<1>1. CASE Starts
  <2>1. OptionsRead' /\ phase' \in {"parse", "exit", "ended"}
    BY <1>1 DEF Starts, Goes, cmdarg, PInv, OptionsRead
  <2>2. phase' = "parse" => ctx'.answer = NoFd
    BY <1>1 DEF Starts, Goes, m2k_new, Fresh
  <2>. QED BY <2>1, <2>2 DEF PInv, SetSoFar
<1>2. CASE cmdargParse
  <2>1. ctx.answer = NoFd
    BY <1>2 DEF cmdargParse, PInv, SetSoFar
  <2>2. ASSUME NEW o \in Modes, SetMode(o), phase = "parse"
        PROVE  PInv'
    <3>1. CASE flag # "none" /\ flag # o
      BY <2>2, <3>1 DEF SetMode, Goes, cmdarg, PInv, OptionsRead, SetSoFar
    <3>2. CASE ~(flag # "none" /\ flag # o)
      <4>1. flag' = o /\ ttymode' = o /\ given' = given \cup {o} /\ ctx' = ctx
            /\ phase' = "parse"
        BY <2>2, <3>2 DEF SetMode, vars
      <4>2. OptionsRead'
        BY <3>2, <4>1 DEF PInv, OptionsRead, Modes
      <4>. QED BY <2>1, <4>1, <4>2 DEF PInv, SetSoFar
    <3>. QED BY <3>1, <3>2
  <2>3. ASSUME NEW o \in {"a", "e", "v"}, given' = given \cup {o},
               UNCHANGED <<vars, phase, ttymode, flag>>, phase = "parse"
        PROVE  PInv'
    <3>1. given' \cap Modes = given \cap Modes
      BY <2>3 DEF Modes
    <3>. QED BY <2>1, <2>3, <3>1 DEF PInv, OptionsRead, SetSoFar, vars
  <2>4. CASE \E p \in {"ended", "free"} : Goes(p)
    BY <2>4 DEF Goes, cmdarg, PInv, OptionsRead, SetSoFar
  <2>5. CASE (ttymode = "stdin" => "e" \in given) /\ Goes("setup") /\ UNCHANGED vars
    <3>1. flag = "none" => "e" \in given
      BY <2>5 DEF PInv, OptionsRead
    <3>. QED BY <2>1, <2>5, <3>1 DEF Goes, cmdarg, vars, PInv, OptionsRead, SetSoFar
  <2>. QED BY <1>2, <2>2, <2>3, <2>4, <2>5 DEF cmdargParse
<1>. QED BY <1>1, <1>2

LEMMA ProgramStepAsked ==
  ASSUME IInv, PInv, [ProgramNext]_pvars
  PROVE  PInv'
<1>1. CASE UNCHANGED pvars
  BY <1>1 DEF pvars, vars, PInv, OptionsRead, SetSoFar, HasTty
<1>2. CASE phase = "embedded" /\ UNCHANGED <<phase, cmdarg>>
  BY <1>2 DEF cmdarg, PInv, OptionsRead, SetSoFar
<1>3. CASE Frees \/ Ends \/ (sigchld /\ Goes("ended"))
  BY <1>3 DEF Frees, Ends, Goes, cmdarg, PInv, OptionsRead, SetSoFar
<1>. QED
  BY <1>1, <1>2, <1>3, OptionsAsked, SetsUpAsked, ListeningAsked, AnswersAsked, RunsAsked
  DEF ProgramNext, main

\* What runs is what the options ask for, in whatever order and however often they
\* are given: the tty of the one mode, an answer line exactly with -a.
THEOREM RunsWhatIsAsked == ProgramSpec => []RunsAsAsked
<1>1. ProgramInit => PInv
  BY DEF ProgramInit, PInv, OptionsRead, SetSoFar, Modes
<1>2. PInv => RunsAsAsked
  <2>. SUFFICES ASSUME PInv, phase = "run"
                PROVE  RunsAsAsked
    BY DEF RunsAsAsked
  <2>1. OptionsRead /\ HasTty /\ (("a" \in given) = (ctx.answer # NoFd))
    BY DEF PInv, SetSoFar
  <2>. QED BY <2>1 DEF OptionsRead, HasTty, RunsAsAsked
<1>3. ProgramSpec => []IInv
  BY ProgramIsAHost, InitOk, StepOk, PTL DEF Spec
<1>. QED BY <1>1, <1>2, <1>3, ProgramStepAsked, PTL DEF ProgramSpec
=============================================================================
