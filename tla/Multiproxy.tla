----------------------------- MODULE Multiproxy -----------------------------
(***************************************************************************)
(* The main loop of the multiproxy: epoll_wait(), SetReady(), the accept    *)
(* loop, and the relay loop that calls SendRecv() for the connections.      *)
(* Bytes are counted, not named: module SendRecv has their contents.        *)
(*                                                                         *)
(* Slots 0 .. proxiesCount-1 of connections[] hold the listening sockets,   *)
(* the others the connections.  A direction is named by the side it reads   *)
(* from: "local" is fd[0] -> fd[3] through buffer[1], "remote" is           *)
(* fd[2] -> fd[1] through buffer[0].                                        *)
(***************************************************************************)
EXTENDS Integers, FiniteSets

CONSTANTS
  MAX_CONNECTIONS,  \* slots of connections[], and of events[]
  proxiesCount,     \* listening sockets
  BACKLOG,          \* argument of listen()
  MAXBUF,           \* size of a buffer
  RcvBuf, SndBuf,   \* capacities of the queues of a socket
  MaxClients,       \* bound: clients that ever connect
  MaxWrites,        \* bound: bytes that all the peers write
  Endless,          \* sides whose peers write without this bound
  MaxFaults         \* bound: shutdowns, resets and failed connects

ASSUME TableAssumption ==
  /\ MAX_CONNECTIONS \in Nat /\ proxiesCount \in Nat
  /\ proxiesCount < MAX_CONNECTIONS
  /\ {BACKLOG, MAXBUF, RcvBuf, SndBuf} \subseteq Nat \ {0}
  /\ {MaxClients, MaxWrites, MaxFaults} \subseteq Nat

Slots == 0 .. MAX_CONNECTIONS - 1
Listeners == 0 .. proxiesCount - 1
Conns == Slots \ Listeners
Sides == {"local", "remote"}

Other(s) == IF s = "local" THEN "remote" ELSE "local"

\* Places of the four descriptors of a connection: fd[4], ready[4].
R(s) == IF s = "local" THEN 0 ELSE 2
W(s) == IF s = "local" THEN 1 ELSE 3

VARIABLES
  pc,         \* "wait", "accept", "relay", "send", "read" or "exited"
  i,          \* loop counter of main()
  found,      \* main's count of the occupied slots it passed
  dir,        \* direction SendRecv() was called for
  connCount,
  used,       \* connections[i].p # NULL
  ready,      \* connections[i].ready[], as the set of its nonzero places
  left,       \* buffer[].left, by direction
  sock,       \* kernel: the two sockets of a connection
  backlog,    \* kernel: connections waiting for accept()
  clients, writes, faults  \* counters of the bounds

table == <<connCount, used, ready, left>>
env == <<clients, writes, faults>>
vars == <<pc, i, found, dir, table, sock, backlog, env>>

Running == pc # "exited"

\* A socket.  st: "connecting", "open", "fin" (the peer shut down), "rst",
\* "pipe" (fin, then rst: send() raises SIGPIPE) or "failed" (connect());
\* full: a send() found too little room, so freeing some wakes the poll;
\* in, out: an event queued on the EPOLLIN, EPOLLOUT descriptor.
Fresh(s) ==
  [st |-> IF s = "local" THEN "open" ELSE "connecting",
   inq |-> 0, room |-> SndBuf, full |-> FALSE,
   in |-> FALSE, out |-> s = "local"]

NoSock == [s \in Sides |-> [Fresh(s) EXCEPT !.out = FALSE]]

Readable(k) == k.inq > 0 \/ k.st \in {"fin", "rst", "pipe", "failed"}
Writable(k) ==
  \/ k.st \in {"open", "fin"} /\ k.room > 0
  \/ k.st \in {"rst", "pipe", "failed"}

\* What epoll_wait() can report: listeners are level-triggered, the four
\* descriptors of a connection edge-triggered.
Events ==
  {e \in Slots \X (0 .. 3) :
     \/ e[1] \in Listeners /\ e[2] = 0 /\ backlog[e[1]] > 0
     \/ /\ e[1] \in Conns /\ used[e[1]]
        /\ \E s \in Sides :
             LET k == sock[e[1]][s] IN
               \/ e[2] = R(s) /\ k.in /\ Readable(k)
               \/ e[2] = W(s) /\ k.out /\ Writable(k)}

Init ==
  /\ pc = "wait" /\ i = 0 /\ found = 0 /\ dir = "local"
  /\ connCount = 0
  /\ used = [c \in Conns |-> FALSE]
  /\ ready = [x \in Slots |-> {}]
  /\ left = [c \in Conns |-> [s \in Sides |-> 0]]
  /\ sock = [c \in Conns |-> NoSock]
  /\ backlog = [l \in Listeners |-> 0]
  /\ clients = 0 /\ writes = 0 /\ faults = 0

-----------------------------------------------------------------------------
(* Clients, peers and the kernel. *)

control == <<pc, i, found, dir>>

Arrive(l) ==
  /\ Running /\ clients < MaxClients /\ backlog[l] < BACKLOG
  /\ backlog' = [backlog EXCEPT ![l] = @ + 1]
  /\ clients' = clients + 1
  /\ UNCHANGED <<control, table, sock, writes, faults>>

SockChanges(c, s, k) ==
  /\ Running /\ used[c]
  /\ sock' = [sock EXCEPT ![c][s] = k]
  /\ UNCHANGED <<control, table, backlog, clients>>

PeerWrite(c, s) ==
  LET k == sock[c][s] IN
    /\ k.st = "open" /\ k.inq < RcvBuf
    /\ SockChanges(c, s, [k EXCEPT !.inq = @ + 1, !.in = TRUE])
    /\ IF s \in Endless THEN UNCHANGED writes
       ELSE writes < MaxWrites /\ writes' = writes + 1
    /\ UNCHANGED faults

\* A change of the TCP state wakes both descriptors of the socket.
StateChanges(c, s, st) ==
  /\ SockChanges(c, s, [sock[c][s] EXCEPT !.st = st, !.in = TRUE, !.out = TRUE])
  /\ faults' = IF st = "open" THEN faults ELSE faults + 1
  /\ faults' <= MaxFaults
  /\ UNCHANGED writes

PeerFin(c, s) == sock[c][s].st = "open" /\ StateChanges(c, s, "fin")

PeerReset(c, s) ==
  \/ sock[c][s].st = "open" /\ StateChanges(c, s, "rst")
  \/ sock[c][s].st = "fin" /\ StateChanges(c, s, "pipe")

ConnectEnds(c) ==
  /\ sock[c]["remote"].st = "connecting"
  /\ \E st \in {"open", "failed"} : StateChanges(c, "remote", st)

PeerDrain(c, s) ==
  LET k == sock[c][s] IN
    /\ k.st \in {"open", "fin"}
    /\ \E r \in k.room + 1 .. SndBuf :
         SockChanges(c, s, [k EXCEPT !.room = r, !.full = FALSE,
                                     !.out = @ \/ k.full])
    /\ UNCHANGED <<writes, faults>>

Environment ==
  \/ \E l \in Listeners : Arrive(l)
  \/ \E c \in Conns : ConnectEnds(c)
  \/ \E c \in Conns, s \in Sides :
       PeerWrite(c, s) \/ PeerFin(c, s) \/ PeerReset(c, s) \/ PeerDrain(c, s)

-----------------------------------------------------------------------------
(* main(): waiting and accepting. *)

\* epoll_wait() and the loop that calls SetReady() for what it returned.
EpollWait(E) ==
  /\ pc = "wait"
  /\ E \subseteq Events /\ E # {}
  /\ Cardinality(E) = MAX_CONNECTIONS \/ E = Events
  /\ ready' = [x \in Slots |-> ready[x] \cup {j \in 0 .. 3 : <<x, j>> \in E}]
  /\ sock' = [c \in Conns |-> [s \in Sides |->
                [sock[c][s] EXCEPT !.in = @ /\ <<c, R(s)>> \notin E,
                                   !.out = @ /\ <<c, W(s)>> \notin E]]]
  /\ pc' = "accept" /\ i' = 0
  /\ UNCHANGED <<found, dir, connCount, used, left, backlog, env>>

AcceptSkip ==
  /\ pc = "accept" /\ i < proxiesCount /\ 0 \notin ready[i]
  /\ i' = i + 1
  /\ UNCHANGED <<pc, found, dir, table, sock, backlog, env>>

AcceptDone ==
  /\ pc = "accept" /\ i = proxiesCount
  /\ pc' = "relay" /\ found' = 0
  /\ UNCHANGED <<i, dir, table, sock, backlog, env>>

\* FindEmpty(): the first slot that is not in use.
FirstEmpty(c) == ~used[c] /\ \A b \in Conns : b < c => used[b]

\* The head of the accept loop and of AddConnection(): the flag is cleared
\* and one connection taken from the backlog.
Accept ==
  /\ pc = "accept" /\ i < proxiesCount /\ 0 \in ready[i]
  /\ backlog' = [backlog EXCEPT ![i] = @ - 1]

\* A variant with a bug: the listener's flag stays set.
AddConnectionFlagKept ==
  /\ Accept
  /\ \E c \in Conns :
       /\ FirstEmpty(c)
       /\ used' = [used EXCEPT ![c] = TRUE]
       /\ sock' = [sock EXCEPT ![c] = [s \in Sides |-> Fresh(s)]]
  /\ connCount' = connCount + 1
  /\ i' = i + 1
  /\ UNCHANGED <<pc, found, dir, ready, left, env>>

AddConnection ==
  /\ Accept
  /\ \E c \in Conns :
       /\ FirstEmpty(c)
       /\ used' = [used EXCEPT ![c] = TRUE]
       /\ sock' = [sock EXCEPT ![c] = [s \in Sides |-> Fresh(s)]]
  /\ ready' = [ready EXCEPT ![i] = @ \ {0}]
  /\ connCount' = connCount + 1
  /\ i' = i + 1
  /\ UNCHANGED <<pc, found, dir, left, env>>

\* A variant with a bug: FindEmpty() is called before accept().
DropConnectionWaits ==
  /\ pc = "accept" /\ i < proxiesCount /\ 0 \in ready[i]
  /\ \A c \in Conns : used[c]
  /\ ready' = [ready EXCEPT ![i] = @ \ {0}]
  /\ i' = i + 1
  /\ UNCHANGED <<pc, found, dir, connCount, used, left, sock, backlog, env>>

DropConnection ==
  /\ Accept
  /\ \A c \in Conns : used[c]
  /\ ready' = [ready EXCEPT ![i] = @ \ {0}]
  /\ i' = i + 1
  /\ UNCHANGED <<pc, found, dir, connCount, used, left, sock, env>>

\* exit(0): accept(), dup(), getaddrinfo() or every connect() failed.
AddFails ==
  /\ Accept
  /\ pc' = "exited"
  /\ UNCHANGED <<i, found, dir, table, sock, env>>

-----------------------------------------------------------------------------
(* main(): the relay loop. *)

RelayDone ==
  /\ pc = "relay"
  /\ i = MAX_CONNECTIONS \/ found = connCount
  /\ pc' = "wait"
  /\ UNCHANGED <<i, found, dir, table, sock, backlog, env>>

Visiting == pc = "relay" /\ i < MAX_CONNECTIONS /\ found # connCount

VisitEmpty ==
  /\ Visiting /\ ~used[i]
  /\ i' = i + 1
  /\ UNCHANGED <<pc, found, dir, table, sock, backlog, env>>

\* Both descriptors direction d needs are flagged ready.
CanServe(c, d) == {R(d), W(Other(d))} \subseteq ready[c]

VisitIdle ==
  /\ Visiting /\ used[i]
  /\ \A d \in Sides : ~CanServe(i, d)
  /\ i' = i + 1 /\ found' = found + 1
  /\ UNCHANGED <<pc, dir, table, sock, backlog, env>>

Serve ==
  /\ Visiting /\ used[i]
  /\ \/ CanServe(i, "local") /\ dir' = "local"
     \/ ~CanServe(i, "local") /\ CanServe(i, "remote") /\ dir' = "remote"
  /\ pc' = "send"
  /\ UNCHANGED <<i, found, table, sock, backlog, env>>

-----------------------------------------------------------------------------
(* SendRecv(connections[i], dir). *)

from == sock[i][dir]
to == sock[i][Other(dir)]
toSend == left[i][dir]

\* SendRecv() returns and the loop of main() goes on.
Return == pc' = "relay" /\ i' = i + 1 /\ found' = found + 1 /\ UNCHANGED dir

\* Variants with a bug: the buffers are not zeroed; connCount is not lowered.
CloseConnectionDirty ==
  /\ Return
  /\ used' = [used EXCEPT ![i] = FALSE]
  /\ ready' = [ready EXCEPT ![i] = {}]
  /\ sock' = [sock EXCEPT ![i] = NoSock]
  /\ connCount' = connCount - 1
  /\ UNCHANGED <<left, backlog, env>>

CloseConnectionUncounted ==
  /\ Return
  /\ used' = [used EXCEPT ![i] = FALSE]
  /\ ready' = [ready EXCEPT ![i] = {}]
  /\ left' = [left EXCEPT ![i] = [s \in Sides |-> 0]]
  /\ sock' = [sock EXCEPT ![i] = NoSock]
  /\ UNCHANGED <<connCount, backlog, env>>

CloseConnection ==
  /\ Return
  /\ used' = [used EXCEPT ![i] = FALSE]
  /\ ready' = [ready EXCEPT ![i] = {}]
  /\ left' = [left EXCEPT ![i] = [s \in Sides |-> 0]]
  /\ sock' = [sock EXCEPT ![i] = NoSock]
  /\ connCount' = connCount - 1
  /\ UNCHANGED <<backlog, env>>

NothingToSend ==
  /\ pc = "send" /\ toSend = 0
  /\ pc' = "read"
  /\ UNCHANGED <<i, found, dir, table, sock, backlog, env>>

SendAll ==
  /\ pc = "send" /\ toSend # 0 /\ to.st \in {"open", "fin"} /\ toSend <= to.room
  /\ pc' = "read"
  /\ left' = [left EXCEPT ![i][dir] = 0]
  /\ sock' = [sock EXCEPT ![i][Other(dir)].room = @ - toSend]
  /\ UNCHANGED <<i, found, dir, connCount, used, ready, backlog, env>>

\* A variant with a bug: both flags are cleared when the send blocks.
SendPartClearsBoth ==
  /\ pc = "send" /\ to.st \in {"open", "fin"} /\ to.room < toSend
  /\ Return
  /\ ready' = [ready EXCEPT ![i] = @ \ {R(dir), W(Other(dir))}]
  /\ left' = [left EXCEPT ![i][dir] = @ - to.room]
  /\ sock' = [sock EXCEPT ![i][Other(dir)].room = 0,
                          ![i][Other(dir)].full = TRUE]
  /\ UNCHANGED <<connCount, used, backlog, env>>

\* A short send, or none at all when there is no room (EAGAIN).
SendPart ==
  /\ pc = "send" /\ to.st \in {"open", "fin"} /\ to.room < toSend
  /\ Return
  /\ ready' = [ready EXCEPT ![i] = @ \ {W(Other(dir))}]
  /\ left' = [left EXCEPT ![i][dir] = @ - to.room]
  /\ sock' = [sock EXCEPT ![i][Other(dir)].room = 0,
                          ![i][Other(dir)].full = TRUE]
  /\ UNCHANGED <<connCount, used, backlog, env>>

SendFails ==
  /\ pc = "send" /\ toSend # 0 /\ to.st \in {"rst", "failed"}
  /\ CloseConnection

\* SIGPIPE kills the proxy with all its connections.
SendKills ==
  /\ pc = "send" /\ toSend # 0 /\ to.st = "pipe"
  /\ pc' = "exited"
  /\ UNCHANGED <<i, found, dir, table, sock, backlog, env>>

\* Variants with a bug: the read is not limited to the buffer; SendRecv()
\* returns after one read, as if it had blocked.
ReadSomeWhole ==
  /\ pc = "read" /\ from.inq > 0
  /\ left' = [left EXCEPT ![i][dir] = from.inq]
  /\ sock' = [sock EXCEPT ![i][dir].inq = 0]
  /\ pc' = "send"
  /\ UNCHANGED <<i, found, dir, connCount, used, ready, backlog, env>>

ReadSomeReturns ==
  /\ pc = "read" /\ from.inq > 0
  /\ LET n == IF from.inq < MAXBUF THEN from.inq ELSE MAXBUF IN
       /\ left' = [left EXCEPT ![i][dir] = n]
       /\ sock' = [sock EXCEPT ![i][dir].inq = @ - n]
  /\ Return
  /\ ready' = [ready EXCEPT ![i] = @ \ {R(dir)}]
  /\ UNCHANGED <<connCount, used, backlog, env>>

ReadSome ==
  /\ pc = "read" /\ from.inq > 0
  /\ LET n == IF from.inq < MAXBUF THEN from.inq ELSE MAXBUF IN
       /\ left' = [left EXCEPT ![i][dir] = n]
       /\ sock' = [sock EXCEPT ![i][dir].inq = @ - n]
  /\ pc' = "send"
  /\ UNCHANGED <<i, found, dir, connCount, used, ready, backlog, env>>

ReadBlocks ==
  /\ pc = "read" /\ ~Readable(from)
  /\ Return
  /\ ready' = [ready EXCEPT ![i] = @ \ {R(dir)}]
  /\ UNCHANGED <<connCount, used, left, sock, backlog, env>>

\* End of the input, or an error: both end the whole connection.
ReadEnds ==
  /\ pc = "read" /\ from.inq = 0 /\ Readable(from)
  /\ CloseConnection

Proxy ==
  \/ \E E \in SUBSET Events : EpollWait(E)
  \/ AcceptSkip \/ AcceptDone \/ AddConnection \/ DropConnection \/ AddFails
  \/ RelayDone \/ VisitEmpty \/ VisitIdle \/ Serve
  \/ NothingToSend \/ SendAll \/ SendPart \/ SendFails \/ SendKills
  \/ ReadSome \/ ReadBlocks \/ ReadEnds

Next == Environment \/ Proxy

Spec == Init /\ [][Next]_vars

-----------------------------------------------------------------------------
(* Safety. *)

Socket ==
  [st : {"connecting", "open", "fin", "rst", "pipe", "failed"},
   inq : 0 .. RcvBuf, room : 0 .. SndBuf,
   full : BOOLEAN, in : BOOLEAN, out : BOOLEAN]

\* The types of the variables; a buffer never holds more than its size.
TypeOK ==
  /\ pc \in {"wait", "accept", "relay", "send", "read", "exited"}
  /\ i \in 0 .. MAX_CONNECTIONS
  /\ found \in 0 .. MAX_CONNECTIONS
  /\ dir \in Sides
  /\ connCount \in 0 .. Cardinality(Conns)
  /\ used \in [Conns -> BOOLEAN]
  /\ ready \in [Slots -> SUBSET (0 .. 3)]
  /\ left \in [Conns -> [Sides -> 0 .. MAXBUF]]
  /\ sock \in [Conns -> [Sides -> Socket]]
  /\ backlog \in [Listeners -> 0 .. BACKLOG]
  /\ clients \in 0 .. MaxClients /\ writes \in 0 .. MaxWrites
  /\ faults \in 0 .. MaxFaults

\* connCount, which ends the relay loop early (main.c:161), is the number of
\* occupied slots, over every accept and every way a connection closes.
CountExact == connCount = Cardinality({c \in Conns : used[c]})

\* The flags replace the level of the edge-triggered descriptors: whatever
\* can be read or written and is not flagged has an event on its way
\* (main.c:139-143, 480, 489, 505).
NoLostWakeup ==
  \A c \in Conns : used[c] => \A s \in Sides :
    /\ Readable(sock[c][s]) /\ R(s) \notin ready[c] => sock[c][s].in
    /\ Writable(sock[c][s]) /\ W(s) \notin ready[c] => sock[c][s].out

\* A connection starts in a slot with no flag and no byte of the connection
\* that used it before (main.c:444).
CleanSlot ==
  \A c \in Conns : ~used[c] => /\ ready[c] = {}
                               /\ \A s \in Sides : left[c][s] = 0

\* accept() always has a client to return.  The listener is O_NONBLOCK
\* (main.c:263), so that without one it would not wait but return EAGAIN, and
\* PrintError() would end the whole proxy (main.c:149-151, 372).
AcceptFindsClient ==
  \A l \in Listeners : pc # "exited" /\ 0 \in ready[l] => backlog[l] > 0

\* main() is about to block in epoll_wait().
Blocking == pc = "wait" /\ Events = {}

\* The proxy does not fall asleep on data of a local side that it could
\* relay: flagged descriptors produce no further event.  False when another
\* connection was closed in the pass before: connCount, which the loop compares
\* with, is lower then, and the last slot is not visited (main.c:161).
LocalDataServed ==
  Blocking => \A c \in Conns : ~CanServe(c, "local")

-----------------------------------------------------------------------------
(* Liveness.  The proxy keeps running; the kernel reports queued events in  *)
(* turn (the ready list of epoll is a queue) and ends a connect(); the peers *)
(* keep reading.  Peers need not write or close.                            *)

Reports(e) == \E E \in SUBSET Events : e \in E /\ EpollWait(E)

Fairness ==
  /\ WF_vars(Proxy)
  /\ \A l \in Listeners : SF_vars(Reports(<<l, 0>>))
  /\ \A c \in Conns : \A j \in 0 .. 3 : SF_vars(Reports(<<c, j>>))
  /\ \A c \in Conns : WF_vars(ConnectEnds(c))
  /\ \A c \in Conns, s \in Sides : WF_vars(PeerDrain(c, s))

FairSpec == Spec /\ Fairness

\* Every client in the backlog is accepted (or dropped for lack of a slot):
\* one accept() per wakeup is enough for level-triggered listeners.  False
\* when a client writes for ever, as fast as the other side reads: SendRecv()
\* stays in its loop (main.c:473) and the proxy does nothing else.
ClientsAccepted ==
  \A l \in Listeners : backlog[l] > 0 ~> (backlog[l] = 0 \/ pc = "exited")

\* Bytes of a direction that wait in the proxy or in the socket it reads.
Held(c, d) == sock[c][d].inq + left[c][d]

\* What a client sends is relayed, over blocked sends and slow peers, unless
\* its connection closes or the process ends; or another connection ends, which
\* may cut a pass short (see LocalDataServed).
LocalRelayed ==
  \A c \in Conns :
    Held(c, "local") > 0 ~>
      (Held(c, "local") = 0 \/ pc = "exited" \/ \E o \in Conns \ {c} : ~used[o])

\* The same for what a remote side sends.
RemoteRelayed ==
  \A c \in Conns :
    Held(c, "remote") > 0 ~> (Held(c, "remote") = 0 \/ pc = "exited")
=============================================================================
