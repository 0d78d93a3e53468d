----------------------------- MODULE ConnTable ------------------------------
(***************************************************************************)
(* The table of connections of the multiproxy and the descriptors behind it: *)
(* connections[], connCount and proxies[].serverfd against the kernel's     *)
(* table of open files and the interest list of epoll.  Numbers of          *)
(* descriptors and slots are reused; an event comes back as the number of a *)
(* descriptor, and SetReady() looks for the slot that has it.               *)
(*                                                                         *)
(* What SendRecv() does with the bytes is in the modules SendRecv and       *)
(* Multiproxy; here a call of it clears one of its two flags or closes.     *)
(***************************************************************************)
EXTENDS Integers, FiniteSets, Sequences

CONSTANTS
  MAX_CONNECTIONS,  \* slots of connections[]
  proxiesCount,     \* listening sockets
  MaxFiles,         \* limit of the process on open descriptors
  MaxEvents,        \* entries of events[]: MAX_CONNECTIONS in the code
  MaxRefused,       \* bound: addresses of hosts that refuse at once
  Clients,          \* clients, each of which connects at most once
  None

ASSUME TableAssumption ==
  /\ MAX_CONNECTIONS \in Nat /\ proxiesCount \in Nat
  /\ proxiesCount < MAX_CONNECTIONS
  /\ MaxFiles \in Nat /\ MaxFiles > 3
  /\ MaxEvents \in Nat /\ MaxRefused \in Nat
  /\ None \notin Nat

Slots == 0 .. MAX_CONNECTIONS - 1
Listeners == 0 .. proxiesCount - 1
Conns == Slots \ Listeners
Fields == 0 .. 3  \* fd[4]: local read, local write, remote read, remote write
Fds == 0 .. MaxFiles - 1

\* Standard streams and epollfd.
Base == 0 .. 3

\* Open files: what a descriptor refers to.  dup() makes a second descriptor
\* of the same file.
Free == <<"free", 0>>
Own == <<"own", 0>>
Refused == <<"refused", 0>>  \* a socket whose connect() failed
Door(l) == <<"listen", l>>
Local(k) == <<"local", k>>
Remote(k) == <<"remote", k>>
Files == {Free, Own, Refused} \cup {Door(l) : l \in Listeners}
           \cup {Local(k) : k \in Clients} \cup {Remote(k) : k \in Clients}

VARIABLES
  pc,         \* "start", "wait", "accept", "relay", "exited"
  i, found,   \* loop counters of main()
  fd, ready,  \* connections[].fd, and the nonzero places of ready
  p,          \* connections[].p, as the index of the proxy
  serverfd,   \* proxies[].serverfd
  connCount,
  files,      \* kernel: the file of each descriptor
  watched,    \* kernel: interest list of epoll: descriptor, file, direction
  waiting,    \* kernel: clients in the backlogs
  door,       \* the port each client came to
  met,        \* history: clients that AddConnection() let in or turned away
  reported,   \* history: events of the last epoll_wait(), with their clients
  ended       \* why the process ended, "no" while it runs

loop == <<pc, i, found>>
table == <<fd, ready, p, connCount>>
kernel == <<files, watched>>
outside == <<waiting, door>>
history == <<met, reported, ended>>
vars == <<loop, table, serverfd, kernel, outside, history>>

Init ==
  /\ pc = "start" /\ i = 0 /\ found = 0
  /\ fd = [s \in Slots |-> [j \in Fields |-> 0]]
  /\ ready = [s \in Slots |-> {}]
  /\ p = [s \in Slots |-> None]
  /\ serverfd = [l \in Listeners |-> 0]
  /\ connCount = 0
  /\ files = [f \in Fds |-> IF f \in Base THEN Own ELSE Free]
  /\ watched = {}
  /\ waiting = [l \in Listeners |-> {}]
  /\ door = [k \in Clients |-> None]
  /\ met = {} /\ reported = {} /\ ended = "no"

-----------------------------------------------------------------------------
(* The kernel. *)

Open == {f \in Fds : files[f] # Free}

\* The kernel hands out the lowest number that is free; this is the one it
\* hands out after n others.
Nth(n) ==
  {f \in Fds \ Open : Cardinality({g \in Fds \ Open : g < f}) = n}

\* close() of descriptors; a file goes, and epoll forgets it, with the last
\* descriptor that refers to it.
Closed(F) == [f \in Fds |-> IF f \in F THEN Free ELSE files[f]]
Remembered(F) ==
  {w \in watched : \E f \in Fds \ F : files[f] = w[2]}

\* A client connects to a listening port; one that comes during a round is
\* seen by the next epoll_wait(), as if it had come then.
Knock(k, l) ==
  /\ pc = "wait" /\ files[fd[l][0]] = Door(l) /\ door[k] = None
  /\ door' = [door EXCEPT ![k] = l]
  /\ waiting' = [waiting EXCEPT ![l] = @ \cup {k}]
  /\ UNCHANGED <<loop, table, serverfd, kernel, history>>

Exit(why) ==
  /\ pc' = "exited" /\ ended' = why
  /\ UNCHANGED <<i, found, table, serverfd, kernel, outside, met, reported>>

-----------------------------------------------------------------------------
(* main() before the loop. *)

\* CreateServerSocket(): a socket that cannot be bound is closed before the
\* next address is tried, so that one number is used.
AddListener ==
  /\ pc = "start" /\ i < proxiesCount
  /\ \E f \in Nth(0) :
       /\ files' = [files EXCEPT ![f] = Door(i)]
       /\ watched' = watched \cup {<<f, Door(i), "in">>}
       /\ fd' = [fd EXCEPT ![i][0] = f]
       /\ serverfd' = [serverfd EXCEPT ![i] = f]
  /\ p' = [p EXCEPT ![i] = i]
  /\ i' = i + 1
  /\ UNCHANGED <<pc, found, ready, connCount, outside, history>>

ListenerFails ==
  /\ pc = "start" /\ i < proxiesCount
  /\ \E why \in {"files", "bind"} :
       /\ why = "files" => Nth(0) = {}
       /\ Exit(why)

StartDone ==
  /\ pc = "start" /\ i = proxiesCount
  /\ pc' = "wait" /\ i' = 0
  /\ UNCHANGED <<found, table, serverfd, kernel, outside, history>>

-----------------------------------------------------------------------------
(* epoll_wait() and SetReady(). *)

\* A listening socket is reported while a client waits; what the sockets of
\* connections report is up to their peers.
Reportable == {w \in watched : \A l \in Listeners : w[2] = Door(l) => waiting[l] # {}}

\* SetReady(): field j of slot s is the first that has this number.
Found(f, s, j) ==
  /\ fd[s][j] = f
  /\ \A m \in 0 .. j - 1 : fd[s][m] # f
  /\ \A t \in 0 .. s - 1, m \in Fields : fd[t][m] # f

\* What an event is about: the client and the field that it ought to set.
Meaning(w, k, j) ==
  /\ w[2] = (IF j < 2 THEN Local(k) ELSE Remote(k))
  /\ w[3] = (IF j % 2 = 0 THEN "in" ELSE "out")

EpollWait(E) ==
  /\ pc = "wait"
  /\ E \subseteq Reportable /\ E # {} /\ Cardinality(E) <= MaxEvents
  /\ ready' = [s \in Slots |->
                 ready[s] \cup {j \in Fields : \E w \in E : Found(w[1], s, j)}]
  /\ reported' = {m \in Clients \X Fields : \E w \in E : Meaning(w, m[1], m[2])}
  /\ pc' = "accept"
  /\ UNCHANGED <<i, found, fd, p, connCount, serverfd, kernel, outside, met, ended>>

-----------------------------------------------------------------------------
(* The accept loop. *)

AcceptSkip ==
  /\ pc = "accept" /\ i < proxiesCount /\ 0 \notin ready[i]
  /\ i' = i + 1
  /\ UNCHANGED <<pc, found, table, serverfd, kernel, outside, history>>

AcceptDone ==
  /\ pc = "accept" /\ i = proxiesCount
  /\ pc' = "relay" /\ reported' = {}
  /\ UNCHANGED <<i, found, table, serverfd, kernel, outside, met, ended>>

\* FindProxy(): the first proxy with the listening descriptor.
FindProxy(f) ==
  {l \in Listeners : /\ serverfd[l] = f
                     /\ \A m \in Listeners : serverfd[m] = f => l <= m}

\* FindEmpty(): the first slot that is not in use.
FindEmpty == {c \in Conns : p[c] = None /\ \A b \in Conns : b < c => p[b] # None}

\* The call of AddConnection() for listener i, whose flag is cleared before.
Accepting == pc = "accept" /\ i < proxiesCount /\ 0 \in ready[i]

\* A variant with a bug: the flag stays.
FlagKept == ready

FlagCleared == [ready EXCEPT ![i] = @ \ {0}]

Accepted(k) ==
  /\ waiting' = [waiting EXCEPT ![i] = @ \ {k}]
  /\ met' = met \cup {k}
  /\ i' = i + 1
  /\ UNCHANGED <<pc, found, serverfd, door, reported, ended>>

Leaked == Cardinality({f \in Fds : files[f] = Refused})

\* The sockets of n addresses, opened after the client's own.
Refusing(n) ==
  [f \in Fds |-> IF \E m \in 1 .. n : f \in Nth(m) THEN Refused ELSE files[f]]

\* A variant with a bug: the duplicate is not where it is looked for.
FieldsInOrder(localfd, remotefd, localdup, remotedup) ==
  [j \in Fields |-> <<localfd, remotefd, localdup, remotedup>>[j + 1]]

FieldsOf(localfd, remotefd, localdup, remotedup) ==
  [j \in Fields |-> <<localfd, localdup, remotefd, remotedup>>[j + 1]]

\* CreateClientSocket() leaves a socket open for each of the n addresses that
\* refused before one connected; then dup() twice.
AddConnection(k, n) ==
  /\ Accepting /\ k \in waiting[i] /\ Leaked + n <= MaxRefused
  /\ \E a \in Nth(0), b \in Nth(n + 1), c \in Nth(n + 2), d \in Nth(n + 3) :
       \E e \in FindEmpty, l \in FindProxy(fd[i][0]) :
         /\ files' = [f \in Fds |->
              CASE f \in {a, c} -> Local(k)
                [] f \in {b, d} -> Remote(k)
                [] OTHER -> Refusing(n)[f]]
         /\ watched' = watched \cup {<<a, Local(k), "in">>, <<b, Remote(k), "in">>,
                                     <<c, Local(k), "out">>, <<d, Remote(k), "out">>}
         /\ fd' = [fd EXCEPT ![e] = FieldsOf(a, b, c, d)]
         /\ p' = [p EXCEPT ![e] = l]
  /\ ready' = FlagCleared
  /\ connCount' = connCount + 1
  /\ Accepted(k)

\* Variants with a bug: the socket is not closed; the counter is raised.
DropConnectionOpen(k) ==
  /\ Accepting /\ k \in waiting[i] /\ FindEmpty = {}
  /\ \E f \in Nth(0) : files' = [files EXCEPT ![f] = Local(k)]
  /\ ready' = FlagCleared
  /\ Accepted(k)
  /\ UNCHANGED <<fd, p, connCount, watched>>

DropConnectionCounted(k) ==
  /\ Accepting /\ k \in waiting[i] /\ FindEmpty = {} /\ Nth(0) # {}
  /\ ready' = FlagCleared
  /\ connCount' = connCount + 1
  /\ Accepted(k)
  /\ UNCHANGED <<fd, p, kernel>>

\* The table is full: the client's socket is closed again.
DropConnection(k) ==
  /\ Accepting /\ k \in waiting[i]
  /\ FindEmpty = {} /\ Nth(0) # {}
  /\ ready' = FlagCleared
  /\ Accepted(k)
  /\ UNCHANGED <<fd, p, connCount, kernel>>

\* accept() fails, or getaddrinfo(), or every connect(), and with it the process.
AddFails ==
  /\ Accepting
  /\ \E why \in {"proxy", "accept", "lookup"} :
       /\ why = "proxy" <=> FindProxy(fd[i][0]) = {}
       /\ why = "accept" <=> waiting[i] = {}
       /\ why = "lookup" => FindEmpty # {} /\ Nth(0) # {}
       /\ Exit(why)

\* No descriptor is left for accept(), or for socket() or dup() after n
\* addresses refused.
AddRunsOut(n) ==
  /\ Accepting /\ Leaked + n <= MaxRefused
  /\ \/ n = 0 /\ Nth(0) = {}
     \/ Nth(n) # {} /\ FindEmpty # {} /\ Nth(n + 3) = {}
  /\ files' = Refusing(n)
  /\ pc' = "exited" /\ ended' = "files"
  /\ UNCHANGED <<i, found, table, serverfd, watched, outside, met, reported>>

-----------------------------------------------------------------------------
(* The relay loop. *)

\* Neither counter is read again before it is set.
RelayDone ==
  /\ pc = "relay" /\ (i = MAX_CONNECTIONS \/ found = connCount)
  /\ pc' = "wait" /\ i' = 0 /\ found' = 0
  /\ UNCHANGED <<table, serverfd, kernel, outside, history>>

Visiting == pc = "relay" /\ i < MAX_CONNECTIONS /\ found # connCount

VisitEmpty ==
  /\ Visiting /\ p[i] = None
  /\ i' = i + 1
  /\ UNCHANGED <<pc, found, table, serverfd, kernel, outside, history>>

Visited ==
  /\ i' = i + 1 /\ found' = found + 1
  /\ UNCHANGED <<pc, serverfd, outside, history>>

\* The two flags of the direction SendRecv() is called for, if any.
Chosen ==
  CASE {0, 3} \subseteq ready[i] -> {0, 3}
    [] {1, 2} \subseteq ready[i] -> {1, 2}
    [] OTHER -> {}

VisitIdle ==
  /\ Visiting /\ p[i] # None /\ Chosen = {}
  /\ Visited
  /\ UNCHANGED <<table, kernel>>

\* SendRecv() ends with a read() or a send() that would block.
SendRecvBlocks(j) ==
  /\ Visiting /\ p[i] # None /\ j \in Chosen
  /\ ready' = [ready EXCEPT ![i] = @ \ {j}]
  /\ Visited
  /\ UNCHANGED <<fd, p, connCount, kernel>>

\* DeleteFd() fails for a descriptor epoll does not watch.
Deletable == \A j \in Fields : \E w \in watched : w[1] = fd[i][j]

\* The descriptors F are closed, and the slot is left with the flags r.
Close(F, r) ==
  IF Deletable
  THEN /\ watched' = {w \in Remembered(F) : \A j \in Fields : w[1] # fd[i][j]}
       /\ files' = Closed(F)
       /\ fd' = [fd EXCEPT ![i] = [j \in Fields |-> 0]]
       /\ ready' = [ready EXCEPT ![i] = r]
       /\ p' = [p EXCEPT ![i] = None]
       /\ connCount' = connCount - 1
       /\ Visited
  ELSE Exit("poll")

Closing == Visiting /\ p[i] # None /\ Chosen # {}

\* Variants with a bug: the duplicates stay open; flags stay in the slot.
CloseConnectionHalf == Closing /\ Close({fd[i][0], fd[i][2]}, {})
CloseConnectionStale == Closing /\ Close({fd[i][j] : j \in Fields}, ready[i])

\* SendRecv() ends with the end of the stream or an error: CloseConnection().
CloseConnection == Closing /\ Close({fd[i][j] : j \in Fields}, {})

-----------------------------------------------------------------------------
Next ==
  \/ \E k \in Clients, l \in Listeners : Knock(k, l)
  \/ AddListener \/ ListenerFails \/ StartDone
  \/ \E E \in SUBSET Reportable : EpollWait(E)
  \/ AcceptSkip \/ AcceptDone
  \/ \E k \in Clients : DropConnection(k)
  \/ \E k \in Clients, n \in 0 .. MaxRefused : AddConnection(k, n)
  \/ AddFails \/ \E n \in 0 .. MaxRefused : AddRunsOut(n)
  \/ RelayDone \/ VisitEmpty \/ VisitIdle \/ CloseConnection
  \/ \E j \in Fields : SendRecvBlocks(j)

Spec == Init /\ [][Next]_vars

-----------------------------------------------------------------------------
(* Properties. *)

TypeOK ==
  /\ pc \in {"start", "wait", "accept", "relay", "exited"}
  /\ i \in 0 .. MAX_CONNECTIONS /\ found \in 0 .. MAX_CONNECTIONS
  /\ fd \in [Slots -> [Fields -> Fds]]
  /\ ready \in [Slots -> SUBSET Fields]
  /\ p \in [Slots -> Listeners \cup {None}]
  /\ serverfd \in [Listeners -> Fds]
  /\ connCount \in 0 .. MAX_CONNECTIONS
  /\ files \in [Fds -> Files]
  /\ watched \subseteq Fds \X Files \X {"in", "out"}
  /\ waiting \in [Listeners -> SUBSET Clients]
  /\ door \in [Clients -> Listeners \cup {None}]
  /\ met \subseteq Clients
  /\ reported \subseteq Clients \X Fields
  /\ ended \in {"no", "bind", "proxy", "accept", "files", "lookup", "poll"}

\* The entries of epoll that a slot accounts for.
Entries(s) ==
  IF s \in Listeners
  THEN {<<fd[s][0], Door(s), "in">>}
  ELSE {<<fd[s][j], files[fd[s][j]], IF j \in {0, 2} THEN "in" ELSE "out">> : j \in Fields}

Numbers(s) == {fd[s][j] : j \in Fields} \ {0}

\* The client whose socket a slot holds.
Holds(s, k) ==
  /\ p[s] # None /\ s \in Conns
  /\ \A j \in Fields : files[fd[s][j]] = (IF j < 2 THEN Local(k) ELSE Remote(k))

Used == {s \in Slots : p[s] # None}

\* The three books of descriptors agree however slots and numbers were reused:
\* a used slot holds both sockets of one client, and leads to the proxy that
\* the client came to; no two slots share a number, so that SetReady() finds
\* the right one; and epoll watches the sockets of the used slots only, each
\* for its direction (AddConnection, CloseConnection, SetReady).  connCount, by
\* which the relay loop ends, counts these slots.
Owned ==
  /\ connCount = Cardinality(Used \cap Conns)
  /\ \A s \in Used \cap Conns : \E k \in Clients : Holds(s, k) /\ p[s] = door[k]
  /\ \A s, t \in Used : s # t => Numbers(s) \cap Numbers(t) = {}
  /\ watched = UNION {Entries(s) : s \in Used}

\* Nothing stays open that no slot knows, but the sockets of addresses that
\* refused (CreateClientSocket() goes on without close(), main.c:217-220).
NoLeak ==
  \A f \in Open :
    f \in Base \/ files[f] = Refused \/ \E s \in Used, j \in Fields : fd[s][j] = f

\* The process never ends in DeleteFd() or FindProxy(), nor in accept() for
\* want of a client: what it deletes is watched, and a port reported ready has
\* a client.  (An accept() that finds no descriptor is "files": Exhaustion.)
NeverLost == ended \notin {"poll", "proxy", "accept"}

\* Descriptors that a full table needs: those of main(), a listener's, four of
\* a connection.
Needed == 4 + proxiesCount + 4 * Cardinality(Conns)

\* The descriptors run out only by the sockets of refused addresses, when the
\* limit has one to spare for the client that is dropped: closing connections
\* gives back all that opening them took.
Exhaustion == ended = "files" => Needed + Leaked >= MaxFiles

\* "Maxymalną liczbę połączeń" (the greatest number of connections, main.c:18):
\* it is MAX_CONNECTIONS that limits them, not the descriptors.  False when the
\* limit of the process is lower than a full table needs: the proxy ends with
\* all its connections where a full table would drop one.
TableIsTheLimit == ended = "files" => FindEmpty = {}

-----------------------------------------------------------------------------
(* The table implements sessions. *)

\* The slot of a client: fd[0] is its socket.
SlotOf(k) == {s \in Conns : p[s] # None /\ files[fd[s][0]] = Local(k)}

StageOf ==
  [k \in Clients |->
     IF k \notin met THEN "new" ELSE IF SlotOf(k) # {} THEN "live" ELSE "over"]
HostOf ==
  [k \in Clients |->
     IF SlotOf(k) = {} THEN None ELSE p[CHOOSE s \in SlotOf(k) : TRUE]]
NotedOf == [k \in Clients |-> UNION {ready[s] : s \in SlotOf(k)}]

Session ==
  INSTANCE Sessions WITH
    Ports <- Listeners, Events <- Fields, Nowhere <- None,
    up <- pc # "exited", door <- door, reported <- reported,
    stage <- StageOf, host <- HostOf, noted <- NotedOf

\* Every client that is let in has a session with the host behind its own
\* port, and an event of a socket wakes its own session only, however slots
\* and descriptors are reused (main, AddConnection, SetReady, CloseConnection).
SessionsSpec == Session!Spec
=============================================================================
