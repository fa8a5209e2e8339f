------------------------------- MODULE Lifecycle -------------------------------
(***************************************************************************
 The life of a context: m2k_new(), the m2k_setup_*() functions, the listeners,
 calls (stepwise and by the synchronous m2k_dial() and m2k_online()) and
 m2k_free(), as far as descriptors and address lists are concerned.

 One thread runs the library; pc says in which function it is.  What an
 accept(), a socket() or a getaddrinfo() returns is the world's choice, and the
 kernel gives out the lowest descriptor that is free.  The descriptors 0, 1 and
 2 are open when the program starts.
 ***************************************************************************)
EXTENDS Integers, FiniteSets

CONSTANTS
    MaxFd,   \* highest descriptor: RLIMIT_NOFILE
    MaxAddr, \* addresses that getaddrinfo() returns
    Lists    \* address lists that fit into memory

VARIABLES
    pc,     \* "none" (no context), "idle" (the host's turn), "listen", "answer",
            \* "dial", "online" (inside a call), "ended" (the process)
    file,   \* the kernel's table: what each descriptor is
    heap,   \* allocated address lists
    ctx,    \* the context
    at,     \* the address tried now (ai, sock->rp)
    list,   \* the list of the call in progress (res, result)
    tmp,    \* server_fd
    child,  \* the comm program: "none", "running"
    chosen, \* the host's choice of a setup mode, and whether it failed half way
    ret,    \* what the last call returned
    left,   \* history: lists left by a connect() at once, by m2k_free(), or by a
            \* dial that m2k_dial() has taken the addresses from
    lost    \* history: sockets that m2k_dial(), or a caller after it, has displaced

work == <<at, list, tmp>>
marks == <<left, lost>>
vars == <<pc, file, heap, ctx, at, list, tmp, child, chosen, ret, left, lost>>

NoFd == -1
NoList == "NULL"
Fd == 0..MaxFd
Std == 0..2
TtyKinds == {"pty", "dev", "client"}
Kinds == {"free", "std", "listener", "call"} \cup TtyKinds
States == {"CMD", "DIAL", "ANSWER", "ONLINE", "DONE"}

Context ==
    [rfd : Fd \cup {NoFd}, wfd : Fd \cup {NoFd}, owned : BOOLEAN,
     listen : Fd \cup {NoFd}, answer : Fd \cup {NoFd},
     fd : Fd \cup {NoFd}, alive : BOOLEAN, rp : BOOLEAN, result : Lists \cup {NoList},
     state : States]

ASSUME FdAssumption == MaxFd \in Nat /\ MaxFd >= 2
ASSUME AddrAssumption == MaxAddr \in Nat
ASSUME ListAssumption == NoList \notin Lists

-----------------------------------------------------------------------------
(* The kernel and the allocator. *)

\* The descriptor that is given out next.
Lowest(n) == file[n] = "free" /\ \A m \in Fd : file[m] = "free" => n <= m

Opened(n, kind) == [file EXCEPT ![n] = kind]
Closed(n) == [file EXCEPT ![n] = "free"]

\* sockClose() and sockShutdown(): below 1 there is no socket.
sockClosed(c) == IF c.fd <= 0 THEN c ELSE [c EXCEPT !.fd = 0, !.alive = FALSE]
afterClose(f, c) == IF c.fd <= 0 THEN f ELSE [f EXCEPT ![c.fd] = "free"]

sockInit(c) == [c EXCEPT !.fd = 0, !.alive = FALSE, !.rp = FALSE]

Returns(r) ==
    /\ pc' = "idle" /\ ret' = r
    /\ at' = 1 /\ list' = NoList /\ tmp' = NoFd

\* A call that ends where it began.
Returned(r) == ret' = r /\ UNCHANGED <<pc, work>>

\* calloc(), sockInit() and the two listeners.
Fresh == [rfd |-> 0, wfd |-> 0, owned |-> FALSE, listen |-> NoFd, answer |-> NoFd,
          fd |-> 0, alive |-> FALSE, rp |-> FALSE, result |-> NoList, state |-> "CMD"]

\* The process ends, and the kernel closes what it has open.
Exits ==
    /\ pc' = "ended" /\ child' = "none" /\ ctx' = Fresh
    /\ file' = [n \in Fd |-> "free"] /\ heap' = {} /\ left' = {} /\ lost' = {}
    /\ at' = 1 /\ list' = NoList /\ tmp' = NoFd
    /\ UNCHANGED <<chosen, ret>>

-----------------------------------------------------------------------------
(* Contexts. *)

m2k_new ==
    /\ pc = "none"
    /\ \/ pc' = "idle" /\ ret' = "ok"
       \/ UNCHANGED pc /\ ret' = "error"
    /\ ctx' = Fresh /\ chosen' = "none"
    /\ UNCHANGED <<file, heap, work, child, marks>>

\* Mutant: the tty is closed whoever has opened it.
m2k_free_AnyTty ==
    /\ pc = "idle" /\ pc' = "none" /\ ret' = "ok"
    /\ file' = [n \in Fd |->
                  IF \/ n \in {ctx.listen, ctx.answer, ctx.rfd}
                     \/ n = ctx.fd /\ n > 0
                  THEN "free" ELSE file[n]]
    /\ ctx' = Fresh
    /\ left' = left \cup {l \in Lists : l = ctx.result}
    /\ UNCHANGED <<heap, work, child, chosen, lost>>

\* The address list of a dial is not among what is freed.
m2k_free ==
    /\ pc = "idle" /\ pc' = "none" /\ ret' = "ok"
    /\ file' = [n \in Fd |->
                  IF \/ n \in {ctx.listen, ctx.answer}
                     \/ ctx.owned /\ n = ctx.rfd
                     \/ n = ctx.fd /\ n > 0
                  THEN "free" ELSE file[n]]
    /\ ctx' = Fresh
    /\ left' = left \cup {l \in Lists : l = ctx.result}
    /\ UNCHANGED <<heap, work, child, chosen, lost>>

-----------------------------------------------------------------------------
(* Setup: the host chooses one mode ("Choose one setup mode", modemu2k.h), and
   another one when that has failed and left nothing behind. *)

Chooses(mode) == pc = "idle" /\ chosen = "none" /\ chosen' = mode

UsesTty(n, own) == [ctx EXCEPT !.rfd = n, !.wfd = n, !.owned = own]

m2k_setup_stdin ==
    /\ Chooses("stdin")
    /\ ctx' = [ctx EXCEPT !.rfd = 0, !.wfd = 1, !.owned = FALSE]
    /\ Returned("ok") /\ UNCHANGED <<file, heap, child, marks>>

m2k_setup_app_io ==
    /\ Chooses("app")
    /\ ctx' = UsesTty(NoFd, FALSE)
    /\ Returned("ok") /\ UNCHANGED <<file, heap, child, marks>>

\* posix_openpt() fails, or grantpt(), unlockpt() or ptsname() after it.
ptyFails ==
    /\ pc = "idle" /\ chosen = "none"
    /\ UNCHANGED file
         \/ \E n \in Fd : Lowest(n) /\ file' = [Opened(n, "pty") EXCEPT ![n] = "free"]
    /\ Returned("error") /\ UNCHANGED <<heap, ctx, child, chosen, marks>>

m2k_setup_pty ==
    \/ ptyFails
    \/ /\ Chooses("pty")
       /\ \E n \in Fd : Lowest(n) /\ file' = Opened(n, "pty") /\ ctx' = UsesTty(n, TRUE)
       /\ Returned("ok") /\ UNCHANGED <<heap, child, marks>>

\* The program that is to run on the pty: memory and fork() may fail, with the
\* pty already taken.
m2k_setup_comm_program ==
    \/ ptyFails
    \/ /\ \E n \in Fd : Lowest(n) /\ file' = Opened(n, "pty") /\ ctx' = UsesTty(n, TRUE)
       /\ \/ Chooses("comm") /\ Returned("ok") /\ child' = "running"
          \/ Chooses("failed") /\ Returned("error") /\ UNCHANGED child
       /\ UNCHANGED <<heap, marks>>

m2k_setup_dev ==
    \/ /\ pc = "idle" /\ chosen = "none" /\ Returned("error")
       /\ UNCHANGED <<file, heap, ctx, child, chosen, marks>>
    \/ /\ Chooses("dev")
       /\ \E n \in Fd : Lowest(n) /\ file' = Opened(n, "dev") /\ ctx' = UsesTty(n, TRUE)
       /\ Returned("ok") /\ UNCHANGED <<heap, child, marks>>

\* SIGCHLD of the comm program ends the process, whatever it is doing.
sigchld ==
    child = "running" /\ Exits

-----------------------------------------------------------------------------
(* Listeners. *)

\* getaddrinfo() in m2k_sockListen(who); m2k_setup_answer() binds only once.
m2k_sockListen(who) ==
    /\ pc = "idle"
    /\ who = "listen" => chosen = "none"
    /\ \/ Returned("error") /\ UNCHANGED heap
       \/ /\ who = "answer" => ctx.answer = NoFd
          /\ \E l \in Lists \ heap : list' = l /\ heap' = heap \cup {l}
          /\ pc' = who /\ at' = 1 /\ tmp' = NoFd /\ UNCHANGED ret
    /\ UNCHANGED <<file, ctx, child, chosen, marks>>

Listens == pc \in {"listen", "answer"} /\ tmp = NoFd /\ at <= MaxAddr

\* An address without a socket, or one that cannot be bound (or takes IPv6 only).
bindFails ==
    /\ Listens /\ at' = at + 1
    /\ UNCHANGED file
         \/ \E n \in Fd : Lowest(n) /\ file' = [Opened(n, "listener") EXCEPT ![n] = "free"]
    /\ UNCHANGED <<pc, heap, ctx, list, tmp, child, chosen, ret, marks>>

bindWorks ==
    /\ Listens
    /\ \E n \in Fd : Lowest(n) /\ file' = Opened(n, "listener") /\ tmp' = n
    /\ UNCHANGED <<pc, heap, ctx, at, list, child, chosen, ret, marks>>

Listened == pc \in {"listen", "answer"} /\ (tmp # NoFd \/ at > MaxAddr) /\ heap' = heap \ {list}

m2k_setup_listen ==
    /\ pc = "listen" /\ Listened
    /\ IF tmp = NoFd
       THEN Returns("error") /\ UNCHANGED <<ctx, chosen>>
       ELSE Returns("ok") /\ ctx' = [ctx EXCEPT !.listen = tmp] /\ chosen' = "listen"
    /\ UNCHANGED <<file, child, marks>>

\* The line is made non-blocking, which may fail.
m2k_setup_answer ==
    /\ pc = "answer" /\ Listened
    /\ \/ tmp = NoFd /\ Returns("error") /\ UNCHANGED <<file, ctx>>
       \/ tmp # NoFd /\ Returns("ok") /\ ctx' = [ctx EXCEPT !.answer = tmp] /\ UNCHANGED file
       \/ tmp # NoFd /\ Returns("error") /\ file' = Closed(tmp) /\ UNCHANGED ctx
    /\ UNCHANGED <<child, chosen, marks>>

\* The one client becomes the tty; the listener is closed whether it came or not.
m2k_listen_accept ==
    /\ pc = "idle"
    /\ \/ ctx.listen = NoFd /\ Returned("error") /\ UNCHANGED <<file, ctx, chosen>>
       \/ /\ ctx.listen # NoFd
          /\ \/ /\ Returned("error") /\ file' = Closed(ctx.listen)
                /\ ctx' = [ctx EXCEPT !.listen = NoFd] /\ chosen' = "none"
             \/ \E n \in Fd :
                  /\ Lowest(n) /\ Returned("ok")
                  /\ file' = [Opened(n, "client") EXCEPT ![ctx.listen] = "free"]
                  /\ ctx' = [UsesTty(n, TRUE) EXCEPT !.listen = NoFd]
                  /\ chosen' = "client"
    /\ UNCHANGED <<heap, child, marks>>

-----------------------------------------------------------------------------
(* Calls, step by step: what m2k_step() and m2k_hangup() do to the socket and
   the address list.  Modem has the details. *)

Steps == pc = "idle" /\ UNCHANGED <<pc, work, child, chosen, ret>>

\* The loops over dialTryCurrent(): f is the table and c the context before.
\* The list stays with the context when a connection is up at once.
TriesConnect(f, c) ==
    \E n \in Fd : \E s \in {"DIAL", "ONLINE"} :
        /\ f[n] = "free" /\ \A m \in Fd : f[m] = "free" => n <= m
        /\ file' = [f EXCEPT ![n] = "call"]
        /\ ctx' = [c EXCEPT !.fd = n, !.alive = (s = "ONLINE"), !.rp = TRUE, !.state = s]
        /\ left' = left \cup {l \in Lists : s = "ONLINE" /\ l = c.result}
        /\ UNCHANGED lost

TriesFail(f, c, h) ==
    /\ file' = f /\ heap' = h \ {c.result} /\ UNCHANGED marks
    /\ \E n \in {0, NoFd} :
          ctx' = [c EXCEPT !.fd = n, !.alive = FALSE, !.rp = FALSE, !.result = NoList,
                           !.state = "CMD"]

m2k_sockDialStart ==
    /\ Steps /\ ctx.state = "CMD" /\ ~ctx.alive
    /\ \/ /\ ctx' = [ctx EXCEPT !.result = NoList]
          /\ UNCHANGED <<file, heap, marks>>
       \/ \E l \in Lists \ heap :
            LET c == sockInit([ctx EXCEPT !.result = l])
            IN  \/ TriesConnect(file, c) /\ heap' = heap \cup {l}
                \/ TriesFail(file, c, heap \cup {l})

\* The socket connects, or is given up for the next address.  When m2k_dial() was
\* called meanwhile, rp is NULL (the dial fails, and its list is forgotten), or is
\* an address of a list that is freed: what the program then does, if it does not
\* crash, is not more than what it may do with an address that is there.
m2k_sockDialProgress ==
    /\ Steps /\ ctx.state = "DIAL"
    /\ \/ /\ ctx.result = NoList \/ ~ctx.rp
          /\ ctx' = [ctx EXCEPT !.state = "CMD"]
          /\ left' = left \cup {l \in Lists : l = ctx.result}
          /\ UNCHANGED <<file, heap, lost>>
       \/ /\ ctx.result # NoList /\ ctx.rp
          /\ \/ /\ ctx.fd > 0
                /\ ctx' = [ctx EXCEPT !.alive = TRUE, !.result = NoList, !.state = "ONLINE"]
                /\ heap' = heap \ {ctx.result}
                /\ UNCHANGED <<file, marks>>
             \/ TriesConnect(afterClose(file, ctx), sockClosed(ctx)) /\ UNCHANGED heap
             \/ TriesFail(afterClose(file, ctx), sockClosed(ctx), heap)

\* A key or m2k_hangup() ends the dial.
m2k_sockDialAbort ==
    /\ Steps /\ ctx.state = "DIAL"
    /\ heap' = heap \ {ctx.result}
    /\ file' = afterClose(file, ctx)
    /\ ctx' = [sockClosed(ctx) EXCEPT !.result = NoList, !.state = "CMD"]
    /\ UNCHANGED marks

\* The socket of a context, as a set.
Socket(c) == {n \in Fd : n = c.fd /\ n > 0}

\* A caller is accepted: in command mode only without a call, in an answer wait even
\* if m2k_dial() has placed one meanwhile, which sockInit() then forgets.
answerAccept ==
    /\ Steps /\ ctx.answer # NoFd
    /\ ctx.state = "ANSWER" \/ (ctx.state = "CMD" /\ ~ctx.alive)
    /\ \E n \in Fd :
          /\ Lowest(n) /\ file' = Opened(n, "call")
          /\ ctx' = [sockInit(ctx) EXCEPT !.fd = n, !.alive = TRUE, !.state = "ONLINE"]
    /\ lost' = lost \cup Socket(ctx)
    /\ UNCHANGED <<heap, left>>

\* ATA without a caller waits for one, until S7 is over, a key or m2k_hangup().
answerWaits ==
    /\ Steps
    /\ \/ /\ ctx.state = "CMD" /\ ~ctx.alive /\ ctx.answer # NoFd
          /\ ctx' = [ctx EXCEPT !.state = "ANSWER"]
       \/ ctx.state = "ANSWER" /\ ctx' = [ctx EXCEPT !.state = "CMD"]
    /\ UNCHANGED <<file, heap, marks>>

\* H, Z (also in m2k_atcmd()), m2k_hangup() outside of a dial: only the socket goes.
sockShutdown ==
    /\ Steps
    /\ file' = afterClose(file, ctx) /\ ctx' = sockClosed(ctx)
    /\ UNCHANGED <<heap, marks>>

\* The call is lost, the DTE escapes or comes back, the session is over.
OnlineLoses ==
    /\ Steps /\ ctx.state = "ONLINE"
    /\ file' = afterClose(file, ctx) /\ ctx' = [sockClosed(ctx) EXCEPT !.state = "CMD"]
    /\ UNCHANGED <<heap, marks>>

Escapes ==
    /\ Steps
    /\ \/ ctx.state = "ONLINE" /\ ctx' = [ctx EXCEPT !.state = "CMD"]
       \/ ctx.state = "CMD" /\ ctx.alive /\ ctx' = [ctx EXCEPT !.state = "ONLINE"]
    /\ UNCHANGED <<file, heap, marks>>

\* The tty hangs up, or the DTE quits (two Ctrl-C leave the call to m2k_free()).
SessionEnds ==
    /\ Steps /\ ctx.state = "CMD"
    /\ \/ file' = afterClose(file, ctx) /\ ctx' = [sockClosed(ctx) EXCEPT !.state = "DONE"]
       \/ UNCHANGED file /\ ctx' = [ctx EXCEPT !.state = "DONE"]
    /\ UNCHANGED <<heap, marks>>

m2k_step ==
    \/ m2k_sockDialStart \/ m2k_sockDialProgress \/ m2k_sockDialAbort
    \/ answerAccept \/ answerWaits \/ OnlineLoses \/ Escapes \/ SessionEnds

-----------------------------------------------------------------------------
(* Calls by the synchronous API.  It tests neither the state nor the carrier; its
   select() needs the descriptor of a tty. *)

\* sockInit() forgets the socket of a call that is up, or of a dial in progress.
m2k_dial ==
    /\ pc = "idle"
    /\ \/ Returned("error") /\ UNCHANGED <<heap, ctx, lost>>
       \/ /\ ctx.rfd # NoFd
          /\ \E l \in Lists \ heap : list' = l /\ heap' = heap \cup {l}
          /\ pc' = "dial" /\ at' = 1 /\ UNCHANGED <<tmp, ret>>
          /\ ctx' = [sockInit(ctx) EXCEPT !.rp = TRUE]
          /\ lost' = lost \cup Socket(ctx)
    /\ UNCHANGED <<file, child, chosen, left>>

Dialing == pc = "dial" /\ UNCHANGED <<child, chosen, marks>>
Next_addr == at' = at + 1 /\ UNCHANGED <<pc, heap, list, tmp, ret>>

\* Mutant: the list is followed past its end.
addrFails_PastEnd ==
    /\ Dialing /\ ctx.fd <= 0 /\ at <= MaxAddr + 1 /\ Next_addr
    /\ UNCHANGED file /\ ctx' = [ctx EXCEPT !.fd = NoFd]

\* No socket (-1), one that cannot be set up, or a connect() refused at once.
addrFails ==
    /\ Dialing /\ ctx.fd <= 0 /\ at <= MaxAddr /\ Next_addr
    /\ \/ UNCHANGED file /\ ctx' = [ctx EXCEPT !.fd = NoFd]
       \/ \E n \in Fd : /\ Lowest(n)
                        /\ file' = [Opened(n, "call") EXCEPT ![n] = "free"]
                        /\ ctx' = [ctx EXCEPT !.fd = 0]

\* connect() is in progress, or done: that shows in select().
connects ==
    /\ Dialing /\ ctx.fd <= 0 /\ at <= MaxAddr
    /\ \E n \in Fd : /\ Lowest(n) /\ file' = Opened(n, "call")
                     /\ ctx' = [ctx EXCEPT !.fd = n]
    /\ UNCHANGED <<pc, heap, work, ret>>

Selects == Dialing /\ ctx.fd > 0

connected ==
    /\ Selects /\ Returns("ok")
    /\ ctx' = [ctx EXCEPT !.alive = TRUE] /\ heap' = heap \ {list} /\ UNCHANGED file

\* Mutant: the address is tried again.
refused_Again ==
    /\ Selects /\ UNCHANGED <<pc, heap, work, ret>>
    /\ file' = afterClose(file, ctx) /\ ctx' = sockClosed(ctx)

refused ==
    /\ Selects /\ Next_addr
    /\ file' = afterClose(file, ctx) /\ ctx' = sockClosed(ctx)

\* Mutant: giving up keeps the list for another address.
givesUp_KeepsList ==
    /\ Selects /\ Returns("error")
    /\ file' = afterClose(file, ctx) /\ ctx' = sockClosed(ctx) /\ UNCHANGED heap

\* S7 is over (the other addresses are not tried), a key without %D1, an error.
givesUp ==
    /\ Selects /\ Returns("error")
    /\ file' = afterClose(file, ctx) /\ ctx' = sockClosed(ctx) /\ heap' = heap \ {list}

noAddress ==
    /\ Dialing /\ ctx.fd <= 0 /\ at > MaxAddr /\ Returns("error")
    /\ heap' = heap \ {list} /\ UNCHANGED file /\ ctx' = [ctx EXCEPT !.rp = FALSE]

m2k_sockDial == addrFails \/ connects \/ connected \/ refused \/ givesUp \/ noAddress

m2k_online ==
    /\ pc = "idle" /\ (ctx.alive => ctx.rfd # NoFd)
    /\ pc' = "online" /\ UNCHANGED <<file, heap, ctx, work, child, chosen, ret, marks>>

\* The DTE escapes, or the call or the tty is lost; without a call the socket is
\* closed at once.
onlineMode ==
    /\ pc = "online"
    /\ \/ ctx.alive /\ Returns("canceled") /\ UNCHANGED <<file, ctx>>
       \/ Returns("ok") /\ file' = afterClose(file, ctx) /\ ctx' = sockClosed(ctx)
    /\ UNCHANGED <<heap, child, chosen, marks>>

-----------------------------------------------------------------------------
Init ==
    /\ pc = "none" /\ ctx = Fresh /\ chosen = "none" /\ child = "none" /\ ret = "ok"
    /\ file = [n \in Fd |-> IF n \in Std THEN "std" ELSE "free"]
    /\ heap = {} /\ left = {} /\ lost = {}
    /\ at = 1 /\ list = NoList /\ tmp = NoFd

\* What goes on inside a function that was called.
Inside ==
    \/ bindFails \/ bindWorks \/ m2k_setup_listen \/ m2k_setup_answer
    \/ m2k_sockDial \/ onlineMode \/ sigchld

\* What a host may call to set a context up.
Setup ==
    \/ m2k_setup_stdin \/ m2k_setup_app_io \/ m2k_setup_pty
    \/ m2k_setup_comm_program \/ m2k_setup_dev
    \/ m2k_sockListen("listen") \/ m2k_sockListen("answer") \/ m2k_listen_accept

\* A host calls what it likes; the process may be killed at any time.
Next ==
    \/ m2k_new \/ m2k_free \/ Setup \/ m2k_step \/ sockShutdown \/ m2k_dial \/ m2k_online
    \/ Inside \/ Exits

\* m2k_sockDial() runs on, and its 200 ms select() sees the clock.
Fairness == WF_vars(addrFails \/ connects) /\ WF_vars(givesUp) /\ WF_vars(noAddress)

Spec == Init /\ [][Next]_vars /\ Fairness

-----------------------------------------------------------------------------
(* Properties. *)

TypeOK ==
    /\ pc \in {"none", "idle", "listen", "answer", "dial", "online", "ended"}
    /\ file \in [Fd -> Kinds] /\ heap \subseteq Lists /\ left \subseteq Lists /\ lost \subseteq Fd
    /\ ctx \in Context /\ at \in 1..(MaxAddr + 1)
    /\ list \in Lists \cup {NoList} /\ tmp \in Fd \cup {NoFd}
    /\ child \in {"none", "running"}
    /\ chosen \in {"none", "stdin", "app", "pty", "comm", "failed", "dev", "listen", "client"}
    /\ ret \in {"ok", "error", "canceled"}

Open(kinds) == {n \in Fd : file[n] \in kinds}

Named(n) == {n} \ {NoFd}

\* Between any two calls, and within them, each descriptor that the library has
\* opened is one that it knows by the field it closes it by, and no field names
\* one that is closed or somebody else's.  The exception has a name: the socket of
\* a call, or of a dial in progress, that m2k_dial() displaces, or a caller after it
\* (`lost'; sockInit(), sock.c).  The three standard descriptors stay open.
Accounted ==
    /\ pc # "ended" => Open({"std"}) = Std
    /\ pc # "ended" => Open(TtyKinds) = IF ctx.owned THEN {ctx.rfd} ELSE {}
    /\ pc # "ended" => Open({"call"}) = lost \cup (IF ctx.fd > 0 THEN {ctx.fd} ELSE {})
    /\ pc # "ended" =>
          Open({"listener"}) = Named(ctx.listen) \cup Named(ctx.answer) \cup Named(tmp)
    /\ ctx.alive => ctx.fd > 0
    /\ pc # "ended" => ctx.fd \notin lost

\* A dial has its list, and a list that is allocated belongs to a dial in progress,
\* but for the ones left at the known places (a connect() that succeeds at once,
\* m2k_free() during a dial, a dial whose addresses m2k_dial() has replaced).
ListsAreFreed ==
    /\ heap \subseteq left \cup {list} \cup {l \in Lists : ctx.state = "DIAL" /\ l = ctx.result}
    /\ ctx.state = "DIAL" => ctx.result \in heap
    /\ pc = "dial" => list \in heap

\* What modemu2k.h says of m2k_free(): "Release all resources held by ctx."  When it
\* has returned, no socket of the context is open, whatever calls it has placed.
FreeReleasesCalls == [][pc = "idle" /\ pc' = "none" => \A n \in Fd : file'[n] # "call"]_vars

\* m2k_dial() returns, whatever the addresses do: refuse, answer or stay silent.
DialEnds == (pc = "dial") ~> (pc # "dial")
=============================================================================
