------------------------------ MODULE CallCycle ------------------------------
(***************************************************************************)
(* What the host of a modem may rely on: the phases m2k_step() goes        *)
(* through (the diagram above m2k_step() in m2k_step.c) and the carrier    *)
(* m2k_has_carrier() reports, without sockets, lists, callers or timers.   *)
(*                                                                         *)
(* The carrier comes up only on the way into ONLINE, and goes down with    *)
(* the call or in place; a dial and an answer wait always come to an end.  *)
(***************************************************************************)
VARIABLES phase, carrier

cycle == <<phase, carrier>>

Init == phase = "CMD" /\ carrier = FALSE

\* ATD that goes on in the background, ATA that waits for a caller.
OffHook == phase = "CMD" /\ phase' \in {"DIAL", "ANSWER"} /\ carrier' = FALSE

\* CONNECT: a dial or an answer succeeds, at once or later, or ATO resumes.
Connect == phase \in {"CMD", "DIAL", "ANSWER"} /\ phase' = "ONLINE" /\ carrier' = TRUE

\* NO CARRIER: the dial or the wait failed, or was cancelled.
Fail == phase \in {"DIAL", "ANSWER"} /\ phase' = "CMD" /\ carrier' = FALSE

\* +++ and m2k_escape() leave the carrier as it is.
Escape == phase = "ONLINE" /\ phase' = "CMD" /\ carrier' = carrier

Lose == phase = "ONLINE" /\ phase' = "CMD" /\ carrier' = FALSE

\* ATH, ATZ, AT%Q or the host hangs up; the phase takes notice later, if at all.
Drop == carrier /\ carrier' = FALSE /\ UNCHANGED phase

\* The tty is gone, or a quit request has been drained.
End == phase = "CMD" /\ phase' = "DONE" /\ carrier' \in {FALSE, carrier}

Next == OffHook \/ Connect \/ Fail \/ Escape \/ Lose \/ Drop \/ End

Settle == phase \in {"DIAL", "ANSWER"} /\ (Connect \/ Fail)

Safe == Init /\ [][Next]_cycle
Spec == Safe /\ WF_cycle(Settle)
=============================================================================
