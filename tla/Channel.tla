------------------------------ MODULE Channel ------------------------------
(***************************************************************************)
(* What one direction of a proxied connection promises to the two peers:  *)
(* the bytes written by the source reach the destination in order, each   *)
(* once, and the direction ends in one of two ways.  It is "complete" when *)
(* the source finished and every byte was handed over, and "cut" when the  *)
(* connection was torn down for another reason, with a prefix handed over. *)
(***************************************************************************)
EXTENDS Naturals, Sequences

CONSTANT Byte

VARIABLES
  sent,       \* every byte the source peer wrote
  delivered,  \* every byte accepted for the destination peer
  status      \* "open", "complete" or "cut"

vars == <<sent, delivered, status>>

Init ==
  /\ sent = <<>>
  /\ delivered = <<>>
  /\ status = "open"

Put ==
  /\ status = "open"
  /\ \E b \in Byte : sent' = Append(sent, b)
  /\ UNCHANGED <<delivered, status>>

\* The next bytes of the source, and no others, reach the destination.
Deliver ==
  /\ status = "open"
  /\ \E n \in Len(delivered) + 1 .. Len(sent) :
       delivered' = SubSeq(sent, 1, n)
  /\ UNCHANGED <<sent, status>>

Complete ==
  /\ status = "open"
  /\ delivered = sent
  /\ status' = "complete"
  /\ UNCHANGED <<sent, delivered>>

Cut ==
  /\ status = "open"
  /\ status' = "cut"
  /\ UNCHANGED <<sent, delivered>>

Next == Put \/ Deliver \/ Complete \/ Cut

Spec == Init /\ [][Next]_vars
=============================================================================
