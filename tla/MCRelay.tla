------------------------------- MODULE MCRelay -------------------------------
(* Small instances of Relay. *)
EXTENDS Relay, TLC

Symmetric == Permutations(Data)
=============================================================================
