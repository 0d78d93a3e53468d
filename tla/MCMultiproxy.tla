---------------------------- MODULE MCMultiproxy ----------------------------
(* Instances of Multiproxy for TLC; the bounds are in the .cfg files. *)
EXTENDS Multiproxy
=============================================================================
