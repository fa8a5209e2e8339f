------------------------------- MODULE Program --------------------------------
(***************************************************************************
 The program modemu2k (main.c, cmdarg.c) as a host of the library: its options,
 read one by one, the setup they ask for, the run and the end.  Another host,
 one that embeds the library, calls what it likes.
 ***************************************************************************)
EXTENDS Lifecycle

VARIABLES
    phase,   \* where main() is; "embedded": another host
    given,   \* the options read: -a -c -d -e -l -s -v
    ttymode, \* cmdarg.ttymode, by its option; "stdin" without one
    flag     \* mode_flag

cmdarg == <<given, ttymode, flag>>
pvars == <<vars, phase, given, ttymode, flag>>

Modes == {"c", "d", "l", "s"}

Goes(p) == phase' = p /\ UNCHANGED cmdarg

\* On to p if the library call has returned well, else m2k_free() and exit.
Then(p) == Goes(IF ret' = "ok" THEN p ELSE "free")

-----------------------------------------------------------------------------
(* cmdargParse(). *)

\* Mutant: the last mode option wins.
SetMode_Last(o) == ttymode' = o /\ flag' = o /\ given' = given \cup {o} /\ UNCHANGED <<vars, phase>>

\* SET_MODE: another mode than before ends the program.
SetMode(o) ==
    IF flag # "none" /\ flag # o
    THEN Exits /\ Goes("ended")
    ELSE ttymode' = o /\ flag' = o /\ given' = given \cup {o} /\ UNCHANGED <<vars, phase>>

\* An option, or the end of them: -h, -V and -w end the program, and so does
\* main() (by way of m2k_free()) without a mode and -e, and for -v and -c if
\* stderr is a terminal.
cmdargParse ==
    /\ phase = "parse"
    /\ \/ \E o \in Modes : SetMode(o)
       \/ \E o \in {"a", "e", "v"} :
            given' = given \cup {o} /\ UNCHANGED <<vars, phase, ttymode, flag>>
       \/ Exits /\ Goes("ended")
       \/ /\ \/ ttymode = "stdin" /\ "e" \notin given /\ Goes("free")
             \/ {"v", "c"} \subseteq given /\ Goes("free")
             \/ (ttymode = "stdin" => "e" \in given) /\ Goes("setup")
          /\ UNCHANGED vars

-----------------------------------------------------------------------------
(* main(). *)

\* Without arguments, or without memory, there is nothing to do.
Starts ==
    /\ phase = "start"
    /\ \/ m2k_new /\ IF ret' = "ok" THEN Goes("parse") ELSE Goes("exit")
       \/ Exits /\ Goes("ended")

SetsUp ==
    /\ phase = "setup"
    /\ \/ ttymode = "s" /\ m2k_setup_pty /\ Goes("free")
       \/ ttymode = "c" /\ m2k_setup_comm_program /\ Then("answer")
       \/ ttymode = "stdin" /\ m2k_setup_stdin /\ Goes("answer")
       \/ ttymode = "d" /\ m2k_setup_dev /\ Then("answer")
       \/ ttymode = "l" /\ m2k_sockListen("listen") /\ Then("listening")

Listening ==
    /\ phase = "listening"
    /\ \/ bindFails /\ Goes(phase)
       \/ bindWorks /\ Goes(phase)
       \/ m2k_setup_listen /\ Then("accept")

Accepts == phase = "accept" /\ m2k_listen_accept /\ Then("answer")

Answers ==
    /\ phase = "answer"
    /\ IF "a" \in given THEN m2k_sockListen("answer") /\ Then("line")
                        ELSE Goes("run") /\ UNCHANGED vars

Line ==
    /\ phase = "line"
    /\ \/ bindFails /\ Goes(phase)
       \/ bindWorks /\ Goes(phase)
       \/ m2k_setup_answer /\ Then("run")

\* The -e line (with an H or Z), and m2k_run() until m2k_run_done().
Runs ==
    /\ phase = "run"
    /\ IF ctx.state = "DONE" THEN Goes("free") /\ UNCHANGED vars
       ELSE (m2k_step \/ (ctx.state = "CMD" /\ sockShutdown)) /\ Goes("run")

Frees == phase = "free" /\ m2k_free /\ Goes("exit")

Ends == phase = "exit" /\ Exits /\ Goes("ended")

main ==
    \/ Starts \/ cmdargParse \/ SetsUp \/ Listening \/ Accepts \/ Answers \/ Line
    \/ Runs \/ Frees \/ Ends
    \/ phase \notin {"embedded", "ended"} /\ sigchld /\ Goes("ended")

-----------------------------------------------------------------------------
ProgramInit ==
    /\ Init /\ phase \in {"start", "embedded"}
    /\ given = {} /\ ttymode = "stdin" /\ flag = "none"

ProgramNext ==
    \/ main
    \/ phase = "embedded" /\ Next /\ UNCHANGED <<phase, cmdarg>>

ProgramSpec == ProgramInit /\ [][ProgramNext]_pvars /\ Fairness

-----------------------------------------------------------------------------
(* Properties. *)

\* What runs is what was asked for: the tty of the one mode that was given (or
\* stdin with -e alone), a line that answers if and only if -a was given, and
\* never a run after -s or after two modes.  (modemu2k --help: "-c, -d, -l, and
\* -s are mutually exclusive".)
RunsAsAsked ==
    phase = "run" =>
        /\ \/ given \cap Modes = {} /\ "e" \in given /\ ctx.rfd = 0 /\ ctx.wfd = 1
           \/ given \cap Modes = {"c"} /\ file[ctx.rfd] = "pty" /\ child = "running"
           \/ given \cap Modes = {"d"} /\ file[ctx.rfd] = "dev"
           \/ given \cap Modes = {"l"} /\ file[ctx.rfd] = "client"
        /\ ("a" \in given) = (ctx.answer # NoFd)
=============================================================================
