------------------------------- MODULE MCEscSeq -------------------------------
(* A second of three microseconds, each of them 1 ms and 10 ms: with S12 = 1
   the guard time is two of them, so that most sums carry, with S12 = 0 nothing. *)
EXTENDS EscSeq

Began == [sec |-> 2, usec |-> 1]

\* <<prompt, appIO>>
AllWorlds == {<<TRUE, FALSE>>, <<FALSE, FALSE>>, <<FALSE, TRUE>>}
Embedded  == {<<FALSE, TRUE>>}

\* The bound on the changes of S12: it is only set lower.
LoweringSpec == Init /\ [][Next /\ s12' <= s12]_vars
=============================================================================
