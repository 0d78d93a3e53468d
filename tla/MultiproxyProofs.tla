-------------------------- MODULE MultiproxyProofs --------------------------
(***************************************************************************)
(* Proofs about Multiproxy, for every number of slots and listeners and     *)
(* every size of the queues and buffers.                                    *)
(***************************************************************************)
EXTENDS Multiproxy, FiniteSetTheorems, TLAPS

\* Where main() is: in the relay loop i has passed the listeners, and at least
\* as many slots as it counted; SendRecv() runs for a used slot.
Place ==
  /\ pc = "accept" => i <= proxiesCount
  /\ pc \in {"relay", "send", "read"} => found + proxiesCount <= i
  /\ pc \in {"send", "read"} => i \in Conns /\ used[i]

\* The flags of one socket k: what is not flagged has an event queued, or waits
\* for a room that a send() found missing, or for the end of connect().
Armed(k, flags, s) ==
  /\ k.full => k.room = 0
  /\ Readable(k) /\ R(s) \notin flags => k.in
  /\ W(s) \notin flags =>
       k.out \/ k.st = "connecting" \/ (k.full /\ k.st \in {"open", "fin"})

AllArmed ==
  \A c \in Conns : used[c] => \A s \in Sides : Armed(sock[c][s], ready[c], s)

Inv ==
  /\ TypeOK
  /\ Place
  /\ CountExact
  /\ CleanSlot
  /\ AcceptFindsClient
  /\ AllArmed

-----------------------------------------------------------------------------
(* Slots and sockets. *)

\* The slots of connections are the numbers from proxiesCount on.
LEMMA SlotFacts ==
  /\ MAX_CONNECTIONS \in Nat /\ proxiesCount \in Nat
  /\ proxiesCount < MAX_CONNECTIONS
  /\ \A x : x \in Conns <=> x \in Nat /\ proxiesCount <= x /\ x < MAX_CONNECTIONS
  /\ \A x : x \in Listeners <=> x \in Nat /\ x < proxiesCount
  /\ \A x : x \in Slots <=> x \in Nat /\ x < MAX_CONNECTIONS
  /\ IsFiniteSet(Conns)
<1>1. IsFiniteSet(Slots)
  BY TableAssumption, FS_Interval DEF Slots
<1>2. IsFiniteSet(Conns)
  BY <1>1, FS_Subset DEF Conns
<1> QED BY <1>2, TableAssumption DEF Slots, Listeners, Conns

LEMMA SideFacts ==
  /\ Sides = {"local", "remote"}
  /\ \A s \in Sides : /\ Other(s) \in Sides /\ Other(s) # s /\ Other(Other(s)) = s
                      /\ R(s) \in 0 .. 3 /\ W(s) \in 0 .. 3
                      /\ \A t \in Sides : R(s) # W(t) /\ (s # t => R(s) # R(t) /\ W(s) # W(t))
BY DEF Sides, Other, R, W

\* A socket that is no connection yet.
LEMMA FreshFacts ==
  ASSUME NEW s \in Sides
  PROVE  /\ Fresh(s) \in Socket
         /\ Armed(Fresh(s), {}, s)
         /\ NoSock \in [Sides -> Socket]
<1>1. \A t \in Sides : Fresh(t) \in Socket
  BY TableAssumption DEF Fresh, Socket, Sides
<1>2. \A t \in Sides : [Fresh(t) EXCEPT !.out = FALSE] \in Socket
  BY <1>1 DEF Socket
<1>3. CASE s = "local"
  <2>1. Fresh(s).full = FALSE /\ Fresh(s).inq = 0 /\ Fresh(s).st = "open" /\ Fresh(s).out = TRUE
    BY <1>3 DEF Fresh
  <2> QED BY <2>1, <1>1, <1>2 DEF Armed, Readable, NoSock
<1>4. CASE s = "remote"
  <2>1. Fresh(s).full = FALSE /\ Fresh(s).inq = 0 /\ Fresh(s).st = "connecting"
    BY <1>4 DEF Fresh
  <2> QED BY <2>1, <1>1, <1>2 DEF Armed, Readable, NoSock
<1> QED BY <1>3, <1>4 DEF Sides

\* What epoll_wait() can report.
LEMMA EventFacts ==
  /\ \A l \in Listeners : <<l, 0>> \in Events => backlog[l] > 0
  /\ \A x, j : <<x, j>> \in Events => x \in Listeners \/ (x \in Conns /\ used[x])
BY DEF Events, Conns

-----------------------------------------------------------------------------
(* The count. *)

UsedConns == {c \in Conns : used[c]}

\* Only accepting and closing change the slots in use.
LEMMA SlotChanges ==
  ASSUME [Next]_vars
  PROVE  \/ AddConnection
         \/ pc \in {"send", "read"} /\ CloseConnection
         \/ UNCHANGED <<used, connCount>>
<1>1. CASE Environment
  <2>1. ASSUME NEW l \in Listeners, Arrive(l) PROVE UNCHANGED table
    BY <2>1 DEF Arrive
  <2>2. ASSUME NEW c \in Conns, ConnectEnds(c) PROVE UNCHANGED table
    BY <2>2 DEF ConnectEnds, StateChanges, SockChanges
  <2>3. ASSUME NEW c \in Conns, NEW s \in Sides,
               PeerWrite(c, s) \/ PeerFin(c, s) \/ PeerReset(c, s) \/ PeerDrain(c, s)
        PROVE  UNCHANGED table
    BY <2>3 DEF PeerWrite, PeerFin, PeerReset, PeerDrain, StateChanges, SockChanges
  <2>4. UNCHANGED table
    BY <1>1, <2>1, <2>2, <2>3 DEF Environment
  <2> QED BY <2>4 DEF table
<1>2. CASE \E E \in SUBSET Events : EpollWait(E)
  BY <1>2 DEF EpollWait, table
<1>3. CASE AcceptSkip \/ AcceptDone \/ DropConnection \/ AddFails
  BY <1>3 DEF AcceptSkip, AcceptDone, DropConnection, AddFails, table
<1>4. CASE RelayDone \/ VisitEmpty \/ VisitIdle \/ Serve
  BY <1>4 DEF RelayDone, VisitEmpty, VisitIdle, Serve, table
<1>5. CASE NothingToSend \/ SendAll \/ SendPart \/ SendFails \/ SendKills
  BY <1>5 DEF NothingToSend, SendAll, SendPart, SendFails, SendKills, Return, table
<1>6. CASE ReadSome \/ ReadBlocks \/ ReadEnds
  BY <1>6 DEF ReadSome, ReadBlocks, ReadEnds, Return, table
<1>7. CASE UNCHANGED vars
  BY <1>7 DEF vars, table
<1> QED BY <1>1, <1>2, <1>3, <1>4, <1>5, <1>6, <1>7 DEF Next, Proxy

\* connCount stays the number of slots in use.
LEMMA CountStep ==
  ASSUME Inv, [Next]_vars
  PROVE  CountExact' /\ connCount' \in 0 .. Cardinality(Conns)
<1>1. IsFiniteSet(UsedConns) /\ connCount = Cardinality(UsedConns)
  BY SlotFacts, FS_Subset DEF Inv, CountExact, UsedConns
<1>2. connCount' = Cardinality(UsedConns')
  <2>1. CASE AddConnection
    <3>1. PICK c \in Conns : ~used[c] /\ used' = [used EXCEPT ![c] = TRUE]
      BY <2>1 DEF AddConnection, FirstEmpty
    <3>2. UsedConns' = UsedConns \cup {c} /\ c \notin UsedConns
      BY <3>1 DEF UsedConns, Inv, TypeOK
    <3>3. connCount' = connCount + 1
      BY <2>1 DEF AddConnection
    <3> QED BY <1>1, <3>2, <3>3, FS_AddElement
  <2>2. CASE pc \in {"send", "read"} /\ CloseConnection
    <3>1. i \in Conns /\ used[i] /\ used' = [used EXCEPT ![i] = FALSE]
      BY <2>2 DEF CloseConnection, Inv, Place
    <3>2. UsedConns' = UsedConns \ {i} /\ i \in UsedConns
      BY <3>1 DEF UsedConns, Inv, TypeOK
    <3>3. connCount' = connCount - 1
      BY <2>2 DEF CloseConnection
    <3> QED BY <1>1, <3>2, <3>3, FS_RemoveElement
  <2>3. CASE UNCHANGED <<used, connCount>>
    BY <1>1, <2>3 DEF UsedConns
  <2> QED BY <2>1, <2>2, <2>3, SlotChanges
<1>3. Cardinality(UsedConns') \in 0 .. Cardinality(Conns)
  <2>1. UsedConns' \in SUBSET Conns
    BY DEF UsedConns
  <2>2. /\ IsFiniteSet(UsedConns')
        /\ Cardinality(UsedConns') <= Cardinality(Conns)
    BY <2>1, SlotFacts, FS_Subset
  <2> QED BY <2>2, SlotFacts, FS_CardinalityType
<1> QED BY <1>2, <1>3 DEF CountExact, UsedConns

-----------------------------------------------------------------------------
(* The flags and the sockets. *)

SockType == sock \in [Conns -> [Sides -> Socket]]
ReadyType == ready \in [Slots -> SUBSET (0 .. 3)]

\* One socket changes, and no flag but its own two.
LEMMA OneSocket ==
  ASSUME Inv, NEW c \in Conns, NEW s \in Sides, NEW k \in Socket,
         sock' = [sock EXCEPT ![c][s] = k], used' = used,
         \A d \in Conns : d # c => ready'[d] = ready[d],
         \A t \in Sides : t # s => /\ R(t) \in ready'[c] <=> R(t) \in ready[c]
                                   /\ W(t) \in ready'[c] <=> W(t) \in ready[c],
         Armed(k, ready'[c], s)
  PROVE  SockType' /\ AllArmed'
<1>1. SockType'
  BY DEF SockType, Inv, TypeOK
<1>2. ASSUME NEW d \in Conns, used'[d], NEW t \in Sides
      PROVE  Armed(sock'[d][t], ready'[d], t)
  <2>1. CASE d = c /\ t = s
    BY <2>1 DEF Inv, TypeOK
  <2>2. CASE d = c /\ t # s
    <3>1. sock'[d][t] = sock[d][t] /\ Armed(sock[d][t], ready[d], t)
      BY <2>2, <1>2 DEF Inv, TypeOK, AllArmed
    <3> QED BY <3>1, <2>2 DEF Armed
  <2>3. CASE d # c
    <3>1. sock'[d][t] = sock[d][t] /\ Armed(sock[d][t], ready[d], t)
      BY <2>3, <1>2 DEF Inv, TypeOK, AllArmed
    <3> QED BY <3>1, <2>3 DEF Armed
  <2> QED BY <2>1, <2>2, <2>3
<1> QED BY <1>1, <1>2 DEF AllArmed

\* New data sets "in".
LEMMA WriteArms ==
  ASSUME NEW c \in Conns, NEW s \in Sides, Inv, PeerWrite(c, s)
  PROVE  SockType' /\ AllArmed'
<1> DEFINE k == sock[c][s]
           n == [k EXCEPT !.inq = @ + 1, !.in = TRUE]
<1>1. k \in Socket /\ Armed(k, ready[c], s)
  BY DEF PeerWrite, SockChanges, Inv, TypeOK, AllArmed
<1>2. k.st = "open" /\ k.inq < RcvBuf /\ sock' = [sock EXCEPT ![c][s] = n]
  BY DEF PeerWrite, SockChanges
<1>3. n \in Socket
  <2>1. k.inq + 1 \in 0 .. RcvBuf
    BY <1>1, <1>2, TableAssumption DEF Socket
  <2> QED BY <1>1, <2>1 DEF Socket
<1>4. n.st = k.st /\ n.room = k.room /\ n.full = k.full /\ n.out = k.out /\ n.in = TRUE
  BY <1>1 DEF Socket
<1>5. Armed(n, ready[c], s)
  BY <1>1, <1>4 DEF Armed
<1>6. used' = used /\ ready' = ready
  BY DEF PeerWrite, SockChanges, table
<1> QED BY <1>2, <1>3, <1>5, <1>6, OneSocket

\* A change of the state sets both.
LEMMA StateArms ==
  ASSUME NEW c \in Conns, NEW s \in Sides, NEW st \in {"open", "fin", "rst", "pipe", "failed"},
         Inv, StateChanges(c, s, st)
  PROVE  SockType' /\ AllArmed'
<1> DEFINE k == sock[c][s]
           n == [k EXCEPT !.st = st, !.in = TRUE, !.out = TRUE]
<1>1. k \in Socket /\ Armed(k, ready[c], s)
  BY DEF StateChanges, SockChanges, Inv, TypeOK, AllArmed
<1>2. sock' = [sock EXCEPT ![c][s] = n]
  BY DEF StateChanges, SockChanges
<1>3. n \in Socket
  BY <1>1 DEF Socket
<1>4. n.room = k.room /\ n.full = k.full /\ n.out = TRUE /\ n.in = TRUE
  BY <1>1 DEF Socket
<1>5. Armed(n, ready[c], s)
  BY <1>1, <1>4 DEF Armed
<1>6. used' = used /\ ready' = ready
  BY DEF StateChanges, SockChanges, table
<1> QED BY <1>2, <1>3, <1>5, <1>6, OneSocket

\* Room that a send() waits for sets "out".
LEMMA DrainArms ==
  ASSUME NEW c \in Conns, NEW s \in Sides, Inv, PeerDrain(c, s)
  PROVE  SockType' /\ AllArmed'
<1> DEFINE k == sock[c][s]
<1>1. PICK r \in k.room + 1 .. SndBuf :
        SockChanges(c, s, [k EXCEPT !.room = r, !.full = FALSE, !.out = @ \/ k.full])
  BY DEF PeerDrain
<1> DEFINE n == [k EXCEPT !.room = r, !.full = FALSE, !.out = @ \/ k.full]
<1>2. k \in Socket /\ Armed(k, ready[c], s)
  BY <1>1 DEF SockChanges, Inv, TypeOK, AllArmed
<1>3. k.st \in {"open", "fin"} /\ sock' = [sock EXCEPT ![c][s] = n]
  BY <1>1 DEF PeerDrain, SockChanges
<1>4. r \in 0 .. SndBuf
  BY <1>1, <1>2, TableAssumption DEF Socket
<1>5. (k.out \/ k.full) \in BOOLEAN
  OBVIOUS
<1>6. n \in Socket
  BY <1>2, <1>4, <1>5 DEF Socket
<1>7. n.st = k.st /\ n.inq = k.inq /\ n.in = k.in /\ n.full = FALSE /\ n.out = (k.out \/ k.full)
  BY <1>2 DEF Socket
<1>8. Readable(n) = Readable(k)
  BY <1>7 DEF Readable
<1>9. Armed(n, ready[c], s)
  BY <1>2, <1>7, <1>8 DEF Armed
<1>10. used' = used /\ ready' = ready
  BY <1>1 DEF SockChanges, table
<1> QED BY <1>3, <1>6, <1>9, <1>10, OneSocket

\* An event that is reported becomes a flag.
LEMMA EpollArms ==
  ASSUME NEW E \in SUBSET Events, Inv, EpollWait(E)
  PROVE  SockType' /\ AllArmed'
<1> DEFINE n(c, s) == [sock[c][s] EXCEPT !.in = @ /\ <<c, R(s)>> \notin E,
                                         !.out = @ /\ <<c, W(s)>> \notin E]
<1>1. ASSUME NEW c \in Conns, NEW s \in Sides
      PROVE  /\ sock[c][s] \in Socket /\ n(c, s) \in Socket
             /\ n(c, s).st = sock[c][s].st /\ n(c, s).inq = sock[c][s].inq
             /\ n(c, s).room = sock[c][s].room /\ n(c, s).full = sock[c][s].full
             /\ n(c, s).in = (sock[c][s].in /\ <<c, R(s)>> \notin E)
             /\ n(c, s).out = (sock[c][s].out /\ <<c, W(s)>> \notin E)
  <2>1. sock[c][s] \in Socket
    BY DEF Inv, TypeOK
  <2>2. /\ (sock[c][s].in /\ <<c, R(s)>> \notin E) \in BOOLEAN
        /\ (sock[c][s].out /\ <<c, W(s)>> \notin E) \in BOOLEAN
    OBVIOUS
  <2> QED BY <2>1, <2>2 DEF Socket
<1>2. sock' = [c \in Conns |-> [s \in Sides |-> n(c, s)]] /\ used' = used
  BY DEF EpollWait
<1>3. SockType'
  BY <1>1, <1>2 DEF SockType
<1>4. ASSUME NEW c \in Conns, used'[c], NEW s \in Sides
      PROVE  Armed(sock'[c][s], ready'[c], s)
  <2>1. Armed(sock[c][s], ready[c], s) /\ sock'[c][s] = n(c, s)
    BY <1>2, <1>4 DEF Inv, AllArmed
  <2>2. ready'[c] = ready[c] \cup {j \in 0 .. 3 : <<c, j>> \in E}
    BY DEF EpollWait, Conns
  <2>3. /\ R(s) \in ready'[c] <=> R(s) \in ready[c] \/ <<c, R(s)>> \in E
        /\ W(s) \in ready'[c] <=> W(s) \in ready[c] \/ <<c, W(s)>> \in E
    BY <2>2, SideFacts
  <2>4. Readable(n(c, s)) = Readable(sock[c][s])
    BY <1>1 DEF Readable
  <2> DEFINE k == sock[c][s]
             m == n(c, s)
             f == ready[c]
             g == ready'[c]
  <2>5. /\ m.st = k.st /\ m.room = k.room /\ m.full = k.full
        /\ m.in <=> k.in /\ <<c, R(s)>> \notin E
        /\ m.out <=> k.out /\ <<c, W(s)>> \notin E
    BY <1>1
  <2>6. m.full => m.room = 0
    BY <2>1, <2>5 DEF Armed
  <2>7. Readable(m) /\ R(s) \notin g => m.in
    BY <2>1, <2>3, <2>4, <2>5 DEF Armed
  <2>8. W(s) \notin g => m.out \/ m.st = "connecting" \/ (m.full /\ m.st \in {"open", "fin"})
    BY <2>1, <2>3, <2>5 DEF Armed
  <2>9. Armed(m, g, s)
    BY <2>6, <2>7, <2>8 DEF Armed
  <2> QED BY <2>1, <2>9
<1> QED BY <1>3, <1>4 DEF AllArmed

\* accept() is called for a listener: connections keep their flags.
LEMMA AcceptSlot ==
  ASSUME Inv, Accept, NEW F, ready' = [ready EXCEPT ![i] = F]
  PROVE  /\ i \in Listeners /\ i \in Slots
         /\ \A c \in Conns : ready'[c] = ready[c]
<1>1. i \in Nat /\ i < proxiesCount
  BY SlotFacts DEF Inv, TypeOK, Accept
<1>2. i \in Listeners /\ i \in Slots /\ i \notin Conns
  BY <1>1, SlotFacts
<1> QED BY <1>2 DEF Inv, TypeOK, Conns

\* A slot is taken: its sockets start armed, and a free slot has no flags.
LEMMA AddArms ==
  ASSUME Inv, AddConnection
  PROVE  SockType' /\ AllArmed'
<1>1. PICK c \in Conns : /\ ~used[c] /\ used' = [used EXCEPT ![c] = TRUE]
                         /\ sock' = [sock EXCEPT ![c] = [s \in Sides |-> Fresh(s)]]
  BY DEF AddConnection, FirstEmpty
<1>2. SockType'
  BY <1>1, FreshFacts DEF SockType, Inv, TypeOK
<1>3. \A d \in Conns : ready'[d] = ready[d]
  BY AcceptSlot DEF AddConnection
<1>4. ASSUME NEW d \in Conns, used'[d], NEW t \in Sides
      PROVE  Armed(sock'[d][t], ready'[d], t)
  <2>1. CASE d = c
    <3>1. sock'[d][t] = Fresh(t)
      BY <1>1, <2>1 DEF Inv, TypeOK
    <3>2. ready'[d] = {}
      BY <1>1, <1>3, <2>1 DEF Inv, CleanSlot
    <3> QED BY <3>1, <3>2, FreshFacts
  <2>2. CASE d # c
    <3>1. sock'[d] = sock[d] /\ used[d]
      BY <1>1, <1>4, <2>2 DEF Inv, TypeOK
    <3>2. Armed(sock[d][t], ready[d], t)
      BY <3>1 DEF Inv, AllArmed
    <3> QED BY <1>3, <3>1, <3>2
  <2> QED BY <2>1, <2>2
<1> QED BY <1>2, <1>4 DEF AllArmed

LEMMA CloseArms ==
  ASSUME Inv, pc \in {"send", "read"}, CloseConnection
  PROVE  SockType' /\ AllArmed'
<1>1. i \in Conns
  BY DEF Inv, Place
<1>2. /\ used' = [used EXCEPT ![i] = FALSE] /\ ready' = [ready EXCEPT ![i] = {}]
      /\ sock' = [sock EXCEPT ![i] = NoSock]
  BY DEF CloseConnection
<1>3. NoSock \in [Sides -> Socket]
  BY FreshFacts, SideFacts
<1>4. SockType'
  BY <1>1, <1>2, <1>3 DEF SockType, Inv, TypeOK
<1>5. ASSUME NEW d \in Conns, used'[d], NEW t \in Sides
      PROVE  Armed(sock'[d][t], ready'[d], t)
  <2>1. d # i /\ used[d]
    BY <1>1, <1>2, <1>5 DEF Inv, TypeOK
  <2>2. sock'[d] = sock[d] /\ ready'[d] = ready[d]
    BY <1>2, <2>1 DEF Inv, TypeOK, Conns
  <2> QED BY <2>1, <2>2 DEF Inv, AllArmed
<1> QED BY <1>4, <1>5 DEF AllArmed

\* What is inside SendRecv().
LEMMA Serving ==
  ASSUME Inv, pc \in {"send", "read"}
  PROVE  /\ i \in Conns /\ i \in Slots /\ used[i] /\ dir \in Sides /\ Other(dir) \in Sides
         /\ from \in Socket /\ to \in Socket
         /\ Armed(from, ready[i], dir) /\ Armed(to, ready[i], Other(dir))
         /\ toSend \in 0 .. MAXBUF
BY SideFacts DEF Inv, TypeOK, Place, AllArmed, from, to, toSend, Conns

\* A send that takes everything clears no flag.
LEMMA SendAllArms ==
  ASSUME Inv, SendAll
  PROVE  SockType' /\ AllArmed'
<1> DEFINE n == [to EXCEPT !.room = @ - toSend]
<1>1. /\ pc = "send" /\ toSend # 0 /\ to.st \in {"open", "fin"} /\ toSend <= to.room
      /\ sock' = [sock EXCEPT ![i][Other(dir)] = n] /\ used' = used /\ ready' = ready
  BY DEF SendAll, to
<1>2. /\ i \in Conns /\ Other(dir) \in Sides /\ to \in Socket
      /\ Armed(to, ready[i], Other(dir)) /\ toSend \in 0 .. MAXBUF
  BY <1>1, Serving
<1>3. to.room - toSend \in 0 .. SndBuf
  BY <1>1, <1>2, TableAssumption DEF Socket
<1>4. n \in Socket
  BY <1>2, <1>3 DEF Socket
<1>5. /\ n.st = to.st /\ n.inq = to.inq /\ n.full = to.full
      /\ n.in = to.in /\ n.out = to.out /\ n.room = to.room - toSend
  BY <1>2 DEF Socket
<1>6. ~to.full
  <2>1. to.room # 0
    BY <1>1, <1>2, TableAssumption DEF Socket
  <2> QED BY <2>1, <1>2 DEF Armed
<1>7. Armed(n, ready[i], Other(dir))
  BY <1>2, <1>5, <1>6 DEF Armed, Readable
<1> QED BY <1>1, <1>2, <1>4, <1>7, OneSocket

\* A short send leaves no room and says so.
LEMMA SendPartArms ==
  ASSUME Inv, SendPart
  PROVE  SockType' /\ AllArmed'
<1> DEFINE n == [to EXCEPT !.room = 0, !.full = TRUE]
<1>1. /\ pc = "send" /\ to.st \in {"open", "fin"}
      /\ sock' = [sock EXCEPT ![i][Other(dir)] = n] /\ used' = used
      /\ ready' = [ready EXCEPT ![i] = @ \ {W(Other(dir))}]
  BY DEF SendPart, to
<1>2. /\ i \in Conns /\ i \in Slots /\ Other(dir) \in Sides /\ to \in Socket
      /\ Armed(to, ready[i], Other(dir))
  BY <1>1, Serving
<1>3. n \in Socket
  <2>1. 0 \in 0 .. SndBuf
    BY TableAssumption
  <2> QED BY <1>2, <2>1 DEF Socket
<1>4. n.st = to.st /\ n.inq = to.inq /\ n.full = TRUE /\ n.room = 0 /\ n.in = to.in
  BY <1>2 DEF Socket
<1>5. /\ \A d \in Conns : d # i => ready'[d] = ready[d]
      /\ ready'[i] = ready[i] \ {W(Other(dir))}
  BY <1>1, <1>2 DEF Inv, TypeOK, Conns
<1>6. \A t \in Sides : R(t) \in ready'[i] <=> R(t) \in ready[i]
  BY <1>2, <1>5, SideFacts
<1>7. \A t \in Sides : t # Other(dir) => (W(t) \in ready'[i] <=> W(t) \in ready[i])
  BY <1>2, <1>5, SideFacts
<1>8. Armed(n, ready'[i], Other(dir))
  BY <1>1, <1>2, <1>4, <1>6 DEF Armed, Readable
<1> QED BY <1>1, <1>2, <1>3, <1>5, <1>6, <1>7, <1>8, OneSocket

LEMMA ReadSomeArms ==
  ASSUME Inv, ReadSome
  PROVE  SockType' /\ AllArmed'
<1> DEFINE b == IF from.inq < MAXBUF THEN from.inq ELSE MAXBUF
           n == [from EXCEPT !.inq = @ - b]
<1>1. /\ pc = "read" /\ from.inq > 0 /\ used' = used /\ ready' = ready
      /\ sock' = [sock EXCEPT ![i][dir] = n]
  BY DEF ReadSome, from
<1>2. /\ i \in Conns /\ dir \in Sides /\ from \in Socket /\ Armed(from, ready[i], dir)
  BY <1>1, Serving
<1>3. from.inq - b \in 0 .. RcvBuf
  BY <1>2, TableAssumption DEF Socket
<1>4. n \in Socket
  <2> HIDE DEF b
  <2> QED BY <1>2, <1>3 DEF Socket
<1>5. /\ n.st = from.st /\ n.room = from.room /\ n.full = from.full
      /\ n.in = from.in /\ n.out = from.out
  BY <1>2 DEF Socket
<1>6. Readable(from)
  BY <1>1 DEF Readable
<1>7. Armed(n, ready[i], dir)
  BY <1>2, <1>5, <1>6 DEF Armed
<1> QED BY <1>1, <1>2, <1>4, <1>7, OneSocket

\* A read that would block clears the flag of a socket that is not readable.
LEMMA ReadBlocksArms ==
  ASSUME Inv, ReadBlocks
  PROVE  SockType' /\ AllArmed'
<1>1. /\ pc = "read" /\ ~Readable(from) /\ used' = used /\ sock' = sock
      /\ ready' = [ready EXCEPT ![i] = @ \ {R(dir)}]
  BY DEF ReadBlocks
<1>2. /\ i \in Conns /\ i \in Slots /\ dir \in Sides /\ from \in Socket
      /\ Armed(from, ready[i], dir)
  BY <1>1, Serving
<1>3. sock' = [sock EXCEPT ![i][dir] = from]
  BY <1>1, <1>2 DEF Inv, TypeOK, from
<1>4. /\ \A d \in Conns : d # i => ready'[d] = ready[d]
      /\ ready'[i] = ready[i] \ {R(dir)}
  BY <1>1, <1>2 DEF Inv, TypeOK, Conns
<1>5. \A t \in Sides : W(t) \in ready'[i] <=> W(t) \in ready[i]
  BY <1>2, <1>4, SideFacts
<1>6. \A t \in Sides : t # dir => (R(t) \in ready'[i] <=> R(t) \in ready[i])
  BY <1>2, <1>4, SideFacts
<1>7. Armed(from, ready'[i], dir)
  BY <1>1, <1>2, <1>5 DEF Armed
<1> QED BY <1>1, <1>2, <1>3, <1>4, <1>5, <1>6, <1>7, OneSocket

\* The steps that touch no socket and no flag of a connection.
LEMMA OtherArms ==
  ASSUME Inv, used' = used, sock' = sock, \A c \in Conns : ready'[c] = ready[c]
  PROVE  SockType' /\ AllArmed'
BY DEF Inv, TypeOK, SockType, AllArmed

LEMMA SocketStep ==
  ASSUME Inv, [Next]_vars
  PROVE  SockType' /\ AllArmed'
<1>1. CASE Environment
  <2>1. CASE \E l \in Listeners : Arrive(l)
    BY <2>1, OtherArms DEF Arrive, table
  <2>2. CASE \E c \in Conns : ConnectEnds(c)
    BY <2>2, StateArms DEF ConnectEnds, Sides
  <2>3. CASE \E c \in Conns, s \in Sides : PeerWrite(c, s) \/ PeerFin(c, s) \/ PeerReset(c, s) \/ PeerDrain(c, s)
    BY <2>3, WriteArms, StateArms, DrainArms DEF PeerFin, PeerReset
  <2> QED BY <1>1, <2>1, <2>2, <2>3 DEF Environment
<1>2. CASE \E E \in SUBSET Events : EpollWait(E)
  BY <1>2, EpollArms
<1>3. CASE AddConnection
  BY <1>3, AddArms
<1>4. CASE SendFails \/ ReadEnds
  BY <1>4, CloseArms DEF SendFails, ReadEnds
<1>5. CASE SendAll \/ SendPart \/ ReadSome \/ ReadBlocks
  BY <1>5, SendAllArms, SendPartArms, ReadSomeArms, ReadBlocksArms
<1>6. CASE DropConnection
  <2>1. \A c \in Conns : ready'[c] = ready[c]
    BY <1>6, AcceptSlot DEF DropConnection
  <2> QED BY <1>6, <2>1, OtherArms DEF DropConnection
<1>7. CASE \/ AcceptSkip \/ AcceptDone \/ AddFails \/ RelayDone \/ VisitEmpty
           \/ VisitIdle \/ Serve \/ NothingToSend \/ SendKills \/ UNCHANGED vars
  BY <1>7, OtherArms DEF AcceptSkip, AcceptDone, AddFails, RelayDone, VisitEmpty,
    VisitIdle, Serve, NothingToSend, SendKills, vars, table
<1> QED BY <1>1, <1>2, <1>3, <1>4, <1>5, <1>6, <1>7 DEF Next, Proxy

-----------------------------------------------------------------------------
(* The other variables. *)

\* main() stays where it can be, and counts no more slots than it passed.
LEMMA PlaceStep ==
  ASSUME Inv, [Next]_vars
  PROVE  /\ pc' \in {"wait", "accept", "relay", "send", "read", "exited"}
         /\ i' \in 0 .. MAX_CONNECTIONS /\ found' \in 0 .. MAX_CONNECTIONS
         /\ dir' \in Sides
         /\ used' \in [Conns -> BOOLEAN]
         /\ Place'
<1>1. /\ pc \in {"wait", "accept", "relay", "send", "read", "exited"}
      /\ i \in 0 .. MAX_CONNECTIONS /\ found \in 0 .. MAX_CONNECTIONS
      /\ dir \in Sides /\ used \in [Conns -> BOOLEAN]
      /\ MAX_CONNECTIONS \in Nat /\ proxiesCount \in Nat /\ proxiesCount < MAX_CONNECTIONS
  BY SlotFacts DEF Inv, TypeOK
<1>2. CASE UNCHANGED <<pc, i, found, dir, used>>
  BY <1>1, <1>2 DEF Inv, Place
<1>3. ASSUME NEW E \in SUBSET Events, EpollWait(E)
      PROVE  pc' = "accept" /\ i' = 0 /\ UNCHANGED <<found, dir, used>>
  BY <1>3 DEF EpollWait
<1>4. CASE AcceptSkip \/ AcceptDone \/ DropConnection
  BY <1>1, <1>4 DEF AcceptSkip, AcceptDone, DropConnection, Accept, table, Place
<1>5. CASE AddConnection
  <2>1. used' \in [Conns -> BOOLEAN]
    BY <1>1, <1>5 DEF AddConnection
  <2> QED BY <1>1, <1>5, <2>1 DEF AddConnection, Accept, Place
<1>6. CASE RelayDone \/ AddFails \/ SendKills
  BY <1>1, <1>6 DEF RelayDone, AddFails, SendKills, table, Place
<1>7. CASE VisitEmpty \/ VisitIdle
  BY <1>1, <1>7 DEF VisitEmpty, VisitIdle, Visiting, table, Place, Inv
<1>8. CASE Serve
  <2>1. i \in Conns
    BY <1>1, <1>8, SlotFacts DEF Serve, Visiting, Inv, Place
  <2> QED BY <1>1, <1>8, <2>1 DEF Serve, Visiting, table, Place, Inv, Sides
<1>9. CASE NothingToSend \/ SendAll \/ ReadSome
  BY <1>1, <1>9 DEF NothingToSend, SendAll, ReadSome, table, Place, Inv
<1>10. CASE pc \in {"send", "read"} /\ Return /\ used' \in [Conns -> BOOLEAN]
  <2>1. i \in Conns /\ found + proxiesCount <= i
    BY <1>10 DEF Inv, Place
  <2>2. i < MAX_CONNECTIONS
    BY <2>1, SlotFacts
  <2> QED BY <1>1, <1>10, <2>1, <2>2 DEF Return, Place
<1>11. CASE SendPart \/ ReadBlocks
  <2>1. pc \in {"send", "read"} /\ Return /\ used' = used
    BY <1>11 DEF SendPart, ReadBlocks
  <2> QED BY <1>1, <1>10, <2>1
<1>12. CASE SendFails \/ ReadEnds
  <2>1. pc \in {"send", "read"} /\ Return /\ used' = [used EXCEPT ![i] = FALSE]
    BY <1>12 DEF SendFails, ReadEnds, CloseConnection
  <2>2. used' \in [Conns -> BOOLEAN]
    BY <1>1, <2>1
  <2> QED BY <1>10, <2>1, <2>2
<1>13. CASE Environment \/ UNCHANGED vars
  <2>1. UNCHANGED <<pc, i, found, dir, used>>
    BY <1>13 DEF Environment, Arrive, ConnectEnds, PeerWrite, PeerFin, PeerReset,
      PeerDrain, StateChanges, SockChanges, control, table, vars
  <2> QED BY <1>2, <2>1
<1>14. CASE \E E \in SUBSET Events : EpollWait(E)
  BY <1>1, <1>3, <1>14 DEF Place
<1> QED
  BY <1>4, <1>5, <1>6, <1>7, <1>8, <1>9, <1>11, <1>12, <1>13, <1>14 DEF Next, Proxy

\* Flags, buffers and backlogs keep their types, a free slot stays clean, and
\* a flagged listener has somebody waiting.
SlotsOK ==
  /\ ReadyType
  /\ left \in [Conns -> [Sides -> 0 .. MAXBUF]]
  /\ backlog \in [Listeners -> 0 .. BACKLOG]
  /\ CleanSlot
  /\ AcceptFindsClient

LEMMA SlotsUnchanged ==
  ASSUME Inv, UNCHANGED <<used, ready, left, backlog>>, pc = "exited" => pc' = "exited"
  PROVE  SlotsOK'
BY DEF Inv, TypeOK, SlotsOK, ReadyType, CleanSlot, AcceptFindsClient

\* The steps of SendRecv() that change the flags or the buffer of its slot.
LEMMA SlotsServed ==
  ASSUME Inv, pc \in {"send", "read"}, used' = used, backlog' = backlog,
         NEW F \in SUBSET ready[i], ready' = [ready EXCEPT ![i] = F],
         NEW n \in 0 .. MAXBUF, left' = [left EXCEPT ![i][dir] = n]
  PROVE  SlotsOK'
<1>1. i \in Conns /\ i \in Slots /\ i \notin Listeners /\ used[i] /\ dir \in Sides
  BY Serving DEF Conns
<1>2. ReadyType' /\ left' \in [Conns -> [Sides -> 0 .. MAXBUF]]
      /\ backlog' \in [Listeners -> 0 .. BACKLOG]
  BY <1>1 DEF Inv, TypeOK, ReadyType
<1>3. CleanSlot'
  <2>1. \A c \in Conns : c # i => ready'[c] = ready[c] /\ left'[c] = left[c]
    BY <1>1 DEF Inv, TypeOK, Conns
  <2> QED BY <1>1, <2>1 DEF Inv, CleanSlot
<1>4. AcceptFindsClient'
  <2>1. \A l \in Listeners : ready'[l] = ready[l]
    BY <1>1 DEF Inv, TypeOK, Conns, Slots, Listeners
  <2> QED BY <2>1 DEF Inv, AcceptFindsClient
<1> QED BY <1>2, <1>3, <1>4 DEF SlotsOK

LEMMA SlotsClosed ==
  ASSUME Inv, pc \in {"send", "read"}, CloseConnection
  PROVE  SlotsOK'
<1>1. i \in Conns /\ i \in Slots /\ i \notin Listeners
  BY Serving DEF Conns
<1>2. /\ used' = [used EXCEPT ![i] = FALSE] /\ ready' = [ready EXCEPT ![i] = {}]
      /\ left' = [left EXCEPT ![i] = [s \in Sides |-> 0]] /\ backlog' = backlog
  BY DEF CloseConnection
<1>3. ReadyType' /\ left' \in [Conns -> [Sides -> 0 .. MAXBUF]]
      /\ backlog' \in [Listeners -> 0 .. BACKLOG]
  BY <1>1, <1>2, TableAssumption DEF Inv, TypeOK, ReadyType
<1>4. CleanSlot'
  BY <1>1, <1>2 DEF Inv, TypeOK, CleanSlot, Conns
<1>5. AcceptFindsClient'
  <2>1. \A l \in Listeners : ready'[l] = ready[l]
    BY <1>1, <1>2 DEF Inv, TypeOK, Conns, Slots, Listeners
  <2> QED BY <1>2, <2>1 DEF Inv, AcceptFindsClient
<1> QED BY <1>3, <1>4, <1>5 DEF SlotsOK

\* accept() takes one client of a listener and clears its flag.
LEMMA SlotsAccepted ==
  ASSUME Inv, Accept, ready' = [ready EXCEPT ![i] = @ \ {0}], left' = left,
         \A c \in Conns : ~used'[c] => ~used[c]
  PROVE  SlotsOK'
<1>1. i \in Listeners /\ i \in Slots /\ \A c \in Conns : ready'[c] = ready[c]
  BY AcceptSlot
<1>2. backlog[i] > 0 /\ backlog' = [backlog EXCEPT ![i] = @ - 1]
  BY <1>1 DEF Inv, AcceptFindsClient, Accept
<1>3. ReadyType' /\ left' \in [Conns -> [Sides -> 0 .. MAXBUF]]
  BY <1>1 DEF Inv, TypeOK, ReadyType
<1>4. backlog' \in [Listeners -> 0 .. BACKLOG]
  <2>1. backlog[i] - 1 \in 0 .. BACKLOG
    BY <1>1, <1>2, TableAssumption DEF Inv, TypeOK
  <2> QED BY <1>1, <1>2, <2>1 DEF Inv, TypeOK
<1>5. CleanSlot'
  BY <1>1 DEF Inv, CleanSlot
<1>6. AcceptFindsClient'
  <2>1. 0 \notin ready'[i]
    BY <1>1 DEF Inv, TypeOK
  <2>2. \A l \in Listeners : l # i => ready'[l] = ready[l] /\ backlog'[l] = backlog[l]
    BY <1>1, <1>2, SlotFacts DEF Inv, TypeOK
  <2> QED BY <2>1, <2>2 DEF Inv, AcceptFindsClient, Accept
<1> QED BY <1>3, <1>4, <1>5, <1>6 DEF SlotsOK

\* epoll_wait() flags a listener only when somebody waits there, and a slot
\* only when it is in use.
LEMMA SlotsPolled ==
  ASSUME Inv, NEW E \in SUBSET Events, EpollWait(E)
  PROVE  SlotsOK'
<1>1. /\ ready' = [x \in Slots |-> ready[x] \cup {j \in 0 .. 3 : <<x, j>> \in E}]
      /\ used' = used /\ left' = left /\ backlog' = backlog /\ pc = "wait"
  BY DEF EpollWait
<1>2. ReadyType' /\ left' \in [Conns -> [Sides -> 0 .. MAXBUF]]
      /\ backlog' \in [Listeners -> 0 .. BACKLOG]
  BY <1>1 DEF Inv, TypeOK, ReadyType
<1>3. CleanSlot'
  <2>1. \A c \in Conns : ~used[c] => \A j : <<c, j>> \notin E
    BY EventFacts DEF Conns
  <2> QED BY <1>1, <2>1 DEF Inv, CleanSlot, Conns
<1>4. AcceptFindsClient'
  <2>1. ASSUME NEW l \in Listeners, 0 \in ready'[l]
        PROVE  backlog[l] > 0
    <3>1. 0 \in ready[l] \/ <<l, 0>> \in E
      BY <1>1, <2>1, SlotFacts
    <3> QED BY <1>1, <3>1, EventFacts DEF Inv, AcceptFindsClient
  <2> QED BY <1>1, <2>1 DEF AcceptFindsClient
<1> QED BY <1>2, <1>3, <1>4 DEF SlotsOK

LEMMA SlotsStep ==
  ASSUME Inv, [Next]_vars
  PROVE  SlotsOK'
<1>1. CASE \E l \in Listeners : Arrive(l)
  <2>1. PICK l \in Listeners : Arrive(l)
    BY <1>1
  <2>2. /\ backlog[l] < BACKLOG /\ backlog' = [backlog EXCEPT ![l] = @ + 1]
        /\ UNCHANGED <<pc, used, ready, left>>
    BY <2>1 DEF Arrive, control, table
  <2>3. backlog' \in [Listeners -> 0 .. BACKLOG]
    <3>1. backlog[l] + 1 \in 0 .. BACKLOG
      BY <2>2, TableAssumption DEF Inv, TypeOK
    <3> QED BY <2>2, <3>1 DEF Inv, TypeOK
  <2>4. \A m \in Listeners : backlog[m] > 0 => backlog'[m] > 0
    BY <2>2 DEF Inv, TypeOK
  <2> QED BY <2>2, <2>3, <2>4 DEF Inv, TypeOK, SlotsOK, ReadyType, CleanSlot, AcceptFindsClient
<1>2. CASE \/ \E c \in Conns : ConnectEnds(c)
           \/ \E c \in Conns, s \in Sides :
                PeerWrite(c, s) \/ PeerFin(c, s) \/ PeerReset(c, s) \/ PeerDrain(c, s)
           \/ UNCHANGED vars
  BY <1>2, SlotsUnchanged DEF ConnectEnds, PeerWrite, PeerFin, PeerReset,
    PeerDrain, StateChanges, SockChanges, control, table, vars
<1>3. CASE \E E \in SUBSET Events : EpollWait(E)
  BY <1>3, SlotsPolled
<1>4. CASE AddConnection
  <2>1. \A c \in Conns : ~used'[c] => ~used[c]
    BY <1>4 DEF AddConnection, Inv, TypeOK
  <2> QED BY <1>4, <2>1, SlotsAccepted DEF AddConnection
<1>5. CASE DropConnection
  BY <1>5, SlotsAccepted DEF DropConnection
<1>6. CASE AddFails
  <2>1. i \in Listeners
    BY <1>6, SlotFacts DEF AddFails, Accept, Inv, TypeOK
  <2>2. backlog' \in [Listeners -> 0 .. BACKLOG]
    <3>1. backlog[i] > 0
      BY <1>6, <2>1 DEF AddFails, Accept, Inv, AcceptFindsClient
    <3>2. backlog[i] - 1 \in 0 .. BACKLOG
      BY <2>1, <3>1, TableAssumption DEF Inv, TypeOK
    <3> QED BY <1>6, <2>1, <3>2 DEF AddFails, Accept, Inv, TypeOK
  <2> QED BY <1>6, <2>2 DEF AddFails, table, Inv, TypeOK, SlotsOK, ReadyType, CleanSlot, AcceptFindsClient
<1>7. CASE \/ AcceptSkip \/ AcceptDone \/ RelayDone \/ VisitEmpty
           \/ VisitIdle \/ Serve \/ NothingToSend \/ SendKills
  BY <1>7, SlotsUnchanged DEF AcceptSkip, AcceptDone, RelayDone, VisitEmpty, Visiting,
    VisitIdle, Serve, NothingToSend, SendKills, table
<1>8. CASE SendAll \/ ReadSome
  <2>1. pc \in {"send", "read"} /\ UNCHANGED <<used, ready, backlog>>
    BY <1>8 DEF SendAll, ReadSome
  <2>2. i \in Slots /\ from \in Socket
    BY <2>1, Serving
  <2>3. PICK n \in 0 .. MAXBUF : left' = [left EXCEPT ![i][dir] = n]
    BY <1>8, <2>2, TableAssumption DEF SendAll, ReadSome, Socket
  <2>4. ready' = [ready EXCEPT ![i] = ready[i]]
    BY <2>1, <2>2 DEF Inv, TypeOK
  <2> QED BY <2>1, <2>3, <2>4, SlotsServed
<1>9. CASE SendPart
  <2>1. pc \in {"send", "read"} /\ UNCHANGED <<used, backlog>>
    BY <1>9 DEF SendPart
  <2>2. i \in Conns /\ i \in Slots /\ dir \in Sides /\ to \in Socket /\ toSend \in 0 .. MAXBUF
    BY <2>1, Serving
  <2>3. toSend - to.room \in 0 .. MAXBUF
    BY <1>9, <2>2, TableAssumption DEF SendPart, Socket
  <2>4. /\ left' = [left EXCEPT ![i][dir] = toSend - to.room]
        /\ ready' = [ready EXCEPT ![i] = ready[i] \ {W(Other(dir))}]
    BY <1>9, <2>2 DEF SendPart, toSend, Inv, TypeOK
  <2> QED BY <2>1, <2>3, <2>4, SlotsServed
<1>10. CASE ReadBlocks
  <2>1. pc \in {"send", "read"} /\ UNCHANGED <<used, backlog, left>>
    BY <1>10 DEF ReadBlocks
  <2>2. i \in Conns /\ i \in Slots /\ dir \in Sides /\ toSend \in 0 .. MAXBUF
    BY <2>1, Serving
  <2>3. left' = [left EXCEPT ![i][dir] = toSend]
    BY <2>1, <2>2 DEF toSend, Inv, TypeOK
  <2>4. ready' = [ready EXCEPT ![i] = ready[i] \ {R(dir)}]
    BY <1>10, <2>2 DEF ReadBlocks, Inv, TypeOK
  <2> QED BY <2>1, <2>2, <2>3, <2>4, SlotsServed
<1>11. CASE SendFails \/ ReadEnds
  BY <1>11, SlotsClosed DEF SendFails, ReadEnds
<1> QED
  BY <1>1, <1>2, <1>3, <1>4, <1>5, <1>6, <1>7, <1>8, <1>9, <1>10, <1>11
  DEF Next, Environment, Proxy

\* The counters of the bounds.
EnvType == clients \in 0 .. MaxClients /\ writes \in 0 .. MaxWrites /\ faults \in 0 .. MaxFaults

LEMMA EnvStep ==
  ASSUME Inv, [Next]_vars
  PROVE  clients' \in 0 .. MaxClients /\ writes' \in 0 .. MaxWrites /\ faults' \in 0 .. MaxFaults
<1>1. /\ clients \in 0 .. MaxClients /\ writes \in 0 .. MaxWrites /\ faults \in 0 .. MaxFaults
      /\ MaxClients \in Nat /\ MaxWrites \in Nat /\ MaxFaults \in Nat
  BY TableAssumption DEF Inv, TypeOK
<1>2. CASE Environment
  <2>1. CASE \E l \in Listeners : Arrive(l)
    BY <1>1, <2>1 DEF Arrive
  <2>2. ASSUME NEW c \in Conns, NEW s \in Sides, PeerWrite(c, s) PROVE EnvType'
    BY <1>1, <2>2 DEF PeerWrite, SockChanges, EnvType
  <2>3. ASSUME NEW c \in Conns, NEW s \in Sides, NEW st, StateChanges(c, s, st) PROVE EnvType'
    BY <1>1, <2>3 DEF StateChanges, SockChanges, EnvType
  <2>4. ASSUME NEW c \in Conns, NEW s \in Sides, PeerDrain(c, s) PROVE EnvType'
    BY <1>1, <2>4 DEF PeerDrain, SockChanges, EnvType
  <2> QED
    BY <1>2, <2>1, <2>2, <2>3, <2>4, SideFacts
    DEF Environment, ConnectEnds, PeerFin, PeerReset, EnvType
<1>3. CASE Proxy \/ UNCHANGED vars
  <2>1. UNCHANGED env
    BY <1>3 DEF Proxy, EpollWait, AcceptSkip, AcceptDone, AddConnection, DropConnection,
      AddFails, RelayDone, VisitEmpty, VisitIdle, Serve, NothingToSend, SendAll, SendPart,
      SendFails, SendKills, ReadSome, ReadBlocks, ReadEnds, CloseConnection, vars
  <2> QED BY <1>1, <2>1 DEF env
<1> QED BY <1>2, <1>3 DEF Next

-----------------------------------------------------------------------------
(* The theorems. *)

LEMMA InvInit == ASSUME Init PROVE Inv
<1>1. TypeOK
  <2>1. sock \in [Conns -> [Sides -> Socket]]
    <3>1. NoSock \in [Sides -> Socket]
      BY FreshFacts, SideFacts
    <3> QED BY <3>1 DEF Init
  <2>2. Cardinality(Conns) \in Nat
    BY SlotFacts, FS_CardinalityType
  <2> QED BY <2>1, <2>2, TableAssumption DEF Init, TypeOK, Sides
<1>2. CountExact
  <2>1. {c \in Conns : used[c]} = {}
    BY DEF Init
  <2> QED BY <2>1, FS_EmptySet DEF Init, CountExact
<1> QED
  BY <1>1, <1>2, TableAssumption
  DEF Init, Inv, Place, CleanSlot, AcceptFindsClient, AllArmed, Conns, Slots, Listeners

LEMMA InvStep == ASSUME Inv, [Next]_vars PROVE Inv'
BY CountStep, SocketStep, PlaceStep, SlotsStep, EnvStep
DEF Inv, TypeOK, SockType, SlotsOK, ReadyType

LEMMA InvHolds == Spec => []Inv
BY InvInit, InvStep, PTL DEF Spec

\* Whatever the sizes, the variables keep their types: no buffer holds more
\* than MAXBUF bytes and i stays in the table.
THEOREM TypeCorrect == Spec => []TypeOK
BY InvHolds, PTL DEF Inv

\* connCount is the number of connections in the table.
THEOREM CountIsExact == Spec => []CountExact
BY InvHolds, PTL DEF Inv

\* A slot is handed to a new connection with no flag and no byte of the old.
THEOREM SlotsAreClean == Spec => []CleanSlot
BY InvHolds, PTL DEF Inv

\* accept() is called only when a client waits: it never returns EAGAIN, which
\* would end the proxy.
THEOREM AcceptHasClient == Spec => []AcceptFindsClient
BY InvHolds, PTL DEF Inv

\* The flags lose no wakeup of the edge-triggered descriptors.
THEOREM NoWakeupIsLost == Spec => []NoLostWakeup
<1>1. Inv => NoLostWakeup
  <2> SUFFICES ASSUME Inv, NEW c \in Conns, used[c], NEW s \in Sides
               PROVE  /\ Readable(sock[c][s]) /\ R(s) \notin ready[c] => sock[c][s].in
                      /\ Writable(sock[c][s]) /\ W(s) \notin ready[c] => sock[c][s].out
    BY DEF NoLostWakeup
  <2>1. Armed(sock[c][s], ready[c], s) /\ sock[c][s] \in Socket
    BY DEF Inv, AllArmed, TypeOK
  <2>2. sock[c][s].full => sock[c][s].room = 0
    BY <2>1 DEF Armed
  <2> QED BY <2>1, <2>2 DEF Armed, Writable
<1> QED BY <1>1, InvHolds, PTL
=============================================================================
