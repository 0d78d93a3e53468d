------------------------------ MODULE MCGraUDP ------------------------------
(* Instances of GraUDP for TLC: a1 and then a2 run on host a, b1 on host b
   and c1, which also names a as its partner, on host c. *)
EXTENDS GraUDP

CONSTANTS a1, a2, b1, c1

MCHostOf == [i \in Programs |-> IF i = b1 THEN "b" ELSE IF i = c1 THEN "c" ELSE "a"]
MCPartnerOf == [i \in Programs |-> IF i \in {b1, c1} THEN "a" ELSE "b"]
=============================================================================
