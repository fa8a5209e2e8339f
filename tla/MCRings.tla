-------------------------------- MODULE MCRings --------------------------------
(* Modem with the number of RINGs that the caller in the queue has had. *)
EXTENDS MCModem

VARIABLE rung    \* history: begins anew when the caller gives up during a call

\* One call out, while the line rings.
DialLine == {Say("ATD")}

Counts ==
    rung' = CASE state' = "ONLINE" /\ callers' = 0 -> 0
              [] s1' > s1 -> rung + 1
              [] OTHER -> rung

RungSpec == Init /\ rung = 0 /\ [][Next /\ Counts]_<<vars, rung>>

\* A caller is answered on its S0th ring, not before (modemu2k.h on the ring count:
\* "Higher S0 values answer on the Nth ring").  cmdRingCheck() goes by S1, which a
\* call that was dialled leaves where an earlier caller has put it.
AnsweredOnNthRing == [][CmdAnswers => rung + 1 >= s0]_<<vars, rung>>
=============================================================================
