------------------------------ MODULE MCKsiega ------------------------------
(* Instances of Ksiega for TLC.  Clients are interchangeable; servers are   *)
(* not, since IdZero may name one.                                          *)
EXTENDS Ksiega, TLC

ClientSymmetry == Permutations(Clients)
=============================================================================
