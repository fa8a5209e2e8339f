------------------------------- MODULE MCModem -------------------------------
(* Small instances of Modem. *)
EXTENDS Modem, TLC

Say(r) == [stat |-> r, hang |-> FALSE, quit |-> FALSE,
              s0 |-> Keep, s1 |-> Keep, s7 |-> Keep]

\* The verbs that act on the call, alone and in the combinations in which an
\* earlier verb of the line changes what the last one finds.
CallLines ==
    {Say("ATD"), Say("ATO"), Say("ATA"), Say("NOAT"),
     [Say("OK") EXCEPT !.hang = TRUE], [Say("ATO") EXCEPT !.hang = TRUE],
     [Say("ATD") EXCEPT !.hang = TRUE], [Say("ATA") EXCEPT !.hang = TRUE],
     [Say("OK") EXCEPT !.quit = TRUE], [Say("ATD") EXCEPT !.quit = TRUE]}

\* Over a tty: ATA with and without a call to hang up first, a dial that races
\* with a caller, a socket closed before the line is done, ATS1=1 in a ring
\* cycle, ATS0 on and off, ATS7=0, ATZ.
TtyLines ==
    {Say("ATA"), [Say("ATA") EXCEPT !.hang = TRUE], Say("ATD"), Say("ATO"),
     [Say("OK") EXCEPT !.quit = TRUE],
     [Say("OK") EXCEPT !.s1 = 1], [Say("ERROR") EXCEPT !.s0 = RingMax],
     [Say("ATA") EXCEPT !.s7 = 0],
     [Say("OK") EXCEPT !.hang = TRUE, !.s0 = 0, !.s1 = 0, !.s7 = 1]}

\* Nothing that turns auto-answer on.
LiveLines == {Say("ATD"), Say("ATO"), Say("ATA")}

Symmetric == Permutations(FD)
=============================================================================
