----------------------------- MODULE MCSendRecv ----------------------------
(* Instance of SendRecv for TLC: a buffer and a send queue of two bytes, so *)
(* that short sends and leftovers happen (the destination frees one byte of *)
(* the queue at a time), and four bytes to relay, so that content is reused. *)
EXTENDS SendRecv
=============================================================================
