------------------------------ MODULE Sessions ------------------------------
(***************************************************************************)
(* What the table of connections promises to the clients of the proxy: each *)
(* client that is let in gets a session of its own, to the host behind the  *)
(* port it came to, and an event of one of its sockets is noted for its     *)
(* session and for no other, until the session is over.  Slots, descriptors *)
(* and the reuse of both do not show.                                       *)
(***************************************************************************)
CONSTANTS
  Clients,
  Ports,      \* listening sockets
  Events,     \* what can happen on the two sockets of a session
  Nowhere     \* no port

VARIABLES
  up,         \* the proxy runs
  door,       \* the port each client came to
  stage,      \* "new", "live" or "over"
  host,       \* the port whose host a live session leads to
  noted,      \* events noted for a session and not yet dealt with
  reported    \* events the kernel reported last, with their clients

vars == <<up, door, stage, host, noted, reported>>

Live == {k \in Clients : stage[k] = "live"}

Init ==
  /\ up = TRUE
  /\ door = [k \in Clients |-> Nowhere]
  /\ stage = [k \in Clients |-> "new"]
  /\ host = [k \in Clients |-> Nowhere]
  /\ noted = [k \in Clients |-> {}]
  /\ reported = {}

Come(k, l) ==
  /\ up /\ door[k] = Nowhere
  /\ door' = [door EXCEPT ![k] = l]
  /\ UNCHANGED <<up, stage, host, noted, reported>>

Open(k) ==
  /\ up /\ stage[k] = "new" /\ door[k] \in Ports
  /\ stage' = [stage EXCEPT ![k] = "live"]
  /\ host' = [host EXCEPT ![k] = door[k]]
  /\ UNCHANGED <<up, door, noted, reported>>

Refuse(k) ==
  /\ up /\ stage[k] = "new" /\ door[k] \in Ports
  /\ stage' = [stage EXCEPT ![k] = "over"]
  /\ UNCHANGED <<up, door, host, noted, reported>>

Note ==
  /\ up /\ reported = {}
  /\ reported' \in SUBSET (Live \X Events)
  /\ noted' = [k \in Clients |-> noted[k] \cup {e \in Events : <<k, e>> \in reported'}]
  /\ UNCHANGED <<up, door, stage, host>>

Forget ==
  /\ up /\ reported' = {}
  /\ UNCHANGED <<up, door, stage, host, noted>>

DealWith(k, e) ==
  /\ up /\ e \in noted[k]
  /\ noted' = [noted EXCEPT ![k] = @ \ {e}]
  /\ UNCHANGED <<up, door, stage, host, reported>>

Close(k) ==
  /\ up /\ k \in Live
  /\ stage' = [stage EXCEPT ![k] = "over"]
  /\ host' = [host EXCEPT ![k] = Nowhere]
  /\ noted' = [noted EXCEPT ![k] = {}]
  /\ UNCHANGED <<up, door, reported>>

Stop ==
  /\ up /\ up' = FALSE
  /\ UNCHANGED <<door, stage, host, noted, reported>>

Next ==
  \/ \E k \in Clients, l \in Ports : Come(k, l)
  \/ \E k \in Clients : Open(k) \/ Refuse(k)
  \/ \E k \in Live : Close(k) \/ \E e \in Events : DealWith(k, e)
  \/ Note \/ Forget \/ Stop

Spec == Init /\ [][Next]_vars
=============================================================================
