----------------------------- MODULE MCAtSettings -----------------------------
(* What varies is one side of %B, %R and the number; in SideArgs both sides of %B,
   in TermArgs %T.  Every command also gets an argument that it refuses. *)
EXTENDS AtSettings

UsedRegs == {2, 3, 4, 5, 7, 12}
TypedArgs == [fake |-> {0, 2}, O |-> {0, 1}, H |-> {0, 1}, I |-> {3, 4}, S |-> {3, 13},
              m |-> {13, 256}, B |-> {0, 2}, Bm |-> {0, 1, 4}, D |-> {0, 2},
              L |-> {0, 4}, R |-> {0, 1, 2}, T |-> {1, 2}, V |-> {0, 256}]
SideArgs == [TypedArgs EXCEPT !.B = {0, 1, 2}, !.R = {0, 2}]
TermArgs == [TypedArgs EXCEPT !.Bm = {0, 4}, !.R = {0, 2}, !.T = {0, 1}]
=============================================================================
