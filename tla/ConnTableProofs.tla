-------------------------- MODULE ConnTableProofs ---------------------------
(***************************************************************************)
(* Proofs about ConnTable, for any number of slots, listeners, descriptors  *)
(* and clients: the table of connections, the open files and the interest   *)
(* list of epoll agree, nothing leaks but the sockets of refused addresses, *)
(* what the process looks up or deletes it finds, the table                  *)
(* implements the sessions of module Sessions, and the descriptors run out  *)
(* only by the sockets of refused addresses.                                *)
(***************************************************************************)
EXTENDS ConnTable, FiniteSetTheorems, TLAPS

Types ==
  /\ pc \in {"start", "wait", "accept", "relay", "exited"}
  /\ i \in 0 .. MAX_CONNECTIONS
  /\ fd \in [Slots -> [Fields -> Fds]]
  /\ ready \in [Slots -> SUBSET Fields]
  /\ p \in [Slots -> Listeners \cup {None}]
  /\ serverfd \in [Listeners -> Fds]
  /\ files \in [Fds -> Files]
  /\ waiting \in [Listeners -> SUBSET Clients]
  /\ door \in [Clients -> Listeners \cup {None}]

\* The fields of a slot that hold a descriptor, and what epoll watches it for.
Places(s) == IF s \in Listeners THEN {0} ELSE Fields
Entry(s, j) == <<fd[s][j], files[fd[s][j]], IF j \in {0, 2} THEN "in" ELSE "out">>

\* What main() has prepared when, and how far its loops are.
Loops ==
  /\ pc = "start" => /\ i <= proxiesCount
                     /\ \A s \in Slots : p[s] # None <=> s < i
  /\ pc = "accept" => i <= proxiesCount
  /\ pc = "relay" => i >= proxiesCount
  /\ pc = "wait" => i = 0
  /\ pc \in {"wait", "accept", "relay"} => \A l \in Listeners : p[l] = l

\* Whoever waits at a port came to it, and a listener whose flag is set has a
\* client in its backlog.
Backlogs ==
  /\ \A l \in Listeners : \A k \in waiting[l] : door[k] = l
  /\ \A l \in Listeners : 0 \in ready[l] =>
       /\ pc \in {"accept", "exited"}
       /\ pc = "accept" => l >= i /\ waiting[l] # {}

\* What the slots hold.
Listening(s) ==
  /\ p[s] = s /\ fd[s][0] = serverfd[s] /\ files[fd[s][0]] = Door(s)
  /\ \A j \in Fields : j # 0 => fd[s][j] = 0
Serving(s) == \E k \in Clients : Holds(s, k) /\ p[s] = door[k]
Held ==
  /\ \A s \in Listeners : p[s] # None => Listening(s)
  /\ \A s \in Conns : p[s] # None => Serving(s)
  /\ \A s \in Slots : p[s] = None => \A j \in Fields : fd[s][j] = 0

\* No descriptor is in two places.
Apart ==
  \A s \in Used, t \in Used : \A j \in Places(s), m \in Places(t) :
    fd[s][j] = fd[t][m] => s = t /\ j = m

Streams == \A f \in Base : files[f] = Own

Watched ==
  /\ \A s \in Used : \A j \in Places(s) : Entry(s, j) \in watched
  /\ \A w \in watched : \E s \in Used : \E j \in Places(s) : w = Entry(s, j)

Counted == connCount = Cardinality(Used \cap Conns)

Books == Held /\ Apart /\ Streams /\ Watched /\ Counted /\ NoLeak

Inv == Types /\ Loops /\ Backlogs /\ Books /\ NeverLost

-----------------------------------------------------------------------------
LEMMA Sizes ==
  /\ MAX_CONNECTIONS \in Nat /\ proxiesCount \in Nat /\ proxiesCount < MAX_CONNECTIONS
  /\ MaxFiles \in Nat /\ MaxFiles > 3 /\ MaxRefused \in Nat
  /\ None \notin Listeners /\ Listeners \subseteq Slots
  /\ Conns = proxiesCount .. MAX_CONNECTIONS - 1 /\ Conns \subseteq Slots
  /\ Slots = Listeners \cup Conns /\ Listeners \cap Conns = {}
BY TableAssumption DEF Slots, Listeners, Conns

LEMMA FilesDiffer ==
  /\ \A l \in Listeners : Door(l) \notin {Free, Own, Refused}
  /\ \A k \in Clients : Local(k) \notin {Free, Own, Refused}
  /\ \A k \in Clients : Remote(k) \notin {Free, Own, Refused}
  /\ Free # Own /\ Free # Refused /\ Own # Refused
  /\ \A l \in Listeners : \A m \in Listeners : Door(l) = Door(m) => l = m
  /\ \A l \in Listeners : \A k \in Clients : Door(l) # Local(k) /\ Door(l) # Remote(k)
  /\ \A k \in Clients : \A h \in Clients : Local(k) # Remote(h) /\ (Local(k) = Local(h) => k = h)
BY DEF Door, Local, Remote, Free, Own, Refused

\* The kernel hands out numbers that are free, and different ones.
LEMMA NthFree ==
  ASSUME NEW n, NEW f \in Nth(n)
  PROVE  f \in Fds /\ files[f] = Free
BY DEF Nth, Open

LEMMA NthDiffer ==
  ASSUME NEW n, NEW m, n # m, NEW f \in Nth(n), NEW g \in Nth(m)
  PROVE  f # g
BY DEF Nth

LEMMA RefusingOnly ==
  ASSUME Types, NEW n
  PROVE  /\ Refusing(n) \in [Fds -> Files]
         /\ \A f \in Fds : Refusing(n)[f] = files[f] \/ (files[f] = Free /\ Refusing(n)[f] = Refused)
<1>1. \A f \in Fds : (\E m \in 1 .. n : f \in Nth(m)) => files[f] = Free
  BY NthFree
<1>2. Refused \in Files
  BY DEF Files
<1>3. \A f \in Fds : Refusing(n)[f] = IF \E m \in 1 .. n : f \in Nth(m) THEN Refused ELSE files[f]
  BY DEF Refusing
<1>4. \A f \in Fds : Refusing(n)[f] = files[f] \/ (files[f] = Free /\ Refusing(n)[f] = Refused)
  <2> SUFFICES ASSUME NEW f \in Fds
               PROVE  Refusing(n)[f] = files[f] \/ (files[f] = Free /\ Refusing(n)[f] = Refused)
    OBVIOUS
  <2>1. CASE \E m \in 1 .. n : f \in Nth(m)
    BY <1>1, <1>3, <2>1
  <2>2. CASE ~\E m \in 1 .. n : f \in Nth(m)
    BY <1>3, <2>2
  <2> QED BY <2>1, <2>2
<1>5. Refusing(n) = [f \in Fds |-> Refusing(n)[f]]
  BY DEF Refusing
<1>6. \A f \in Fds : Refusing(n)[f] \in Files
  BY <1>2, <1>4 DEF Types
<1>7. Refusing(n) \in [Fds -> Files]
  BY <1>5, <1>6
<1> QED BY <1>4, <1>7

\* A descriptor that a slot holds is open, and none of those of main().
LEMMA HeldOpen ==
  ASSUME Types, Held, Streams, NEW s \in Used, NEW j \in Places(s)
  PROVE  /\ j \in Fields /\ fd[s][j] \in Fds /\ fd[s][j] # 0
         /\ files[fd[s][j]] \notin {Free, Own, Refused}
<1>1. s \in Slots /\ p[s] # None /\ j \in Fields /\ fd[s][j] \in Fds
  BY DEF Used, Places, Fields, Types
<1>2. files[fd[s][j]] \notin {Free, Own, Refused}
  <2>1. CASE s \in Listeners
    BY <1>1, <2>1, FilesDiffer DEF Held, Listening, Places
  <2>2. CASE s \in Conns
    <3>1. PICK k \in Clients : Holds(s, k)
      BY <1>1, <2>2 DEF Held, Serving
    <3> QED BY <1>1, <3>1, FilesDiffer DEF Holds
  <2> QED BY <1>1, <2>1, <2>2, Sizes
<1>3. 0 \in Base
  BY DEF Base
<1> QED BY <1>1, <1>2, <1>3 DEF Streams

-----------------------------------------------------------------------------
\* The steps that leave the books of descriptors alone.
Bystander ==
  \/ \E k \in Clients, l \in Listeners : Knock(k, l)
  \/ ListenerFails \/ StartDone
  \/ \E E \in SUBSET Reportable : EpollWait(E)
  \/ AcceptSkip \/ AcceptDone
  \/ \E k \in Clients : DropConnection(k)
  \/ AddFails
  \/ RelayDone \/ VisitEmpty \/ VisitIdle
  \/ \E j \in Fields : SendRecvBlocks(j)

LEMMA BystanderKeeps ==
  ASSUME Bystander
  PROVE  UNCHANGED <<fd, p, connCount, serverfd, files, watched>>
BY DEF Bystander, Knock, ListenerFails, StartDone, EpollWait, AcceptSkip, AcceptDone,
   DropConnection, AddFails, RelayDone, VisitEmpty, VisitIdle, SendRecvBlocks, Exit,
   Accepted, Visited, table, kernel

LEMMA BystanderDoors ==
  ASSUME Types, Bystander
  PROVE  \A k \in Clients : door[k] # None => door'[k] = door[k]
<1>1. CASE \E k \in Clients, l \in Listeners : Knock(k, l)
  BY <1>1 DEF Knock, Types
<1>2. CASE UNCHANGED door
  BY <1>2
<1> QED BY <1>1, <1>2 DEF Bystander, Knock, ListenerFails, StartDone, EpollWait,
     AcceptSkip, AcceptDone, DropConnection, AddFails, RelayDone, VisitEmpty, VisitIdle,
     SendRecvBlocks, Exit, Accepted, Visited, outside

LEMMA BystanderBooks ==
  ASSUME Inv, Bystander
  PROVE  Books'
<1>1. UNCHANGED <<fd, p, connCount, serverfd, files, watched>>
  BY BystanderKeeps
<1>2. \A s \in Conns : p[s] # None => Serving(s)'
  <2> SUFFICES ASSUME NEW s \in Conns, p[s] # None
               PROVE  Serving(s)'
    OBVIOUS
  <2>1. PICK k \in Clients : Holds(s, k) /\ p[s] = door[k]
    BY DEF Inv, Books, Held, Serving
  <2>2. door'[k] = door[k]
    BY <2>1, BystanderDoors DEF Inv
  <2>3. Holds(s, k)'
    BY <1>1, <2>1 DEF Holds
  <2> QED BY <1>1, <2>1, <2>2, <2>3 DEF Serving
<1>3. Held'
  BY <1>1, <1>2 DEF Inv, Books, Held, Listening
<1> QED BY <1>1, <1>3 DEF Inv, Books, Apart, Streams, Watched, Counted, NoLeak, Used,
    Places, Entry,
    Open

\* The port of a listening descriptor is found: no other listener has the number.
LEMMA FindsProxy ==
  ASSUME Inv, pc \in {"wait", "accept", "relay"}, NEW l \in Listeners
  PROVE  FindProxy(fd[l][0]) = {l}
<1>1. \A m \in Listeners : m \in Used /\ 0 \in Places(m) /\ serverfd[m] = fd[m][0]
  BY Sizes DEF Inv, Loops, Books, Held, Listening, Used, Places
<1>2. \A m \in Listeners : serverfd[m] = fd[l][0] => m = l
  BY <1>1 DEF Inv, Books, Apart
<1>3. l <= l
  BY DEF Listeners
<1> QED BY <1>1, <1>2, <1>3 DEF FindProxy

LEMMA BystanderTypes ==
  ASSUME Inv, Bystander
  PROVE  Types'
<1> USE Sizes DEF Inv, Types, loop, table, kernel, outside, history
<1>1. CASE \E k \in Clients, l \in Listeners : Knock(k, l)
  BY <1>1 DEF Knock
<1>2. CASE ListenerFails
  BY <1>2 DEF ListenerFails, Exit
<1>3. CASE StartDone
  BY <1>3 DEF StartDone
<1>4. CASE \E E \in SUBSET Reportable : EpollWait(E)
  BY <1>4 DEF EpollWait
<1>5. CASE AcceptSkip
  BY <1>5 DEF AcceptSkip
<1>6. CASE AcceptDone
  BY <1>6 DEF AcceptDone
<1>7. CASE \E k \in Clients : DropConnection(k)
  <2>1. PICK k \in Clients : DropConnection(k)
    BY <1>7
  <2>2. i' \in 0 .. MAX_CONNECTIONS
    BY <2>1 DEF DropConnection, Accepting, Accepted
  <2>3. ready' \in [Slots -> SUBSET Fields]
    BY <2>1 DEF DropConnection, FlagCleared
  <2>4. waiting' \in [Listeners -> SUBSET Clients]
    BY <2>1 DEF DropConnection, Accepted
  <2> QED BY <2>1, <2>2, <2>3, <2>4 DEF DropConnection, Accepted
<1>8. CASE AddFails
  BY <1>8 DEF AddFails, Exit, Accepting
<1>9. CASE RelayDone
  BY <1>9 DEF RelayDone
<1>10. CASE VisitEmpty
  BY <1>10 DEF VisitEmpty, Visiting
<1>11. CASE VisitIdle
  BY <1>11 DEF VisitIdle, Visited, Visiting
<1>12. CASE \E j \in Fields : SendRecvBlocks(j)
  <2>1. PICK j \in Fields : SendRecvBlocks(j)
    BY <1>12
  <2>2. i' \in 0 .. MAX_CONNECTIONS
    BY <2>1 DEF SendRecvBlocks, Visiting, Visited
  <2>3. ready' \in [Slots -> SUBSET Fields]
    BY <2>1 DEF SendRecvBlocks
  <2> QED BY <2>1, <2>2, <2>3 DEF SendRecvBlocks, Visited
<1> QED BY <1>1, <1>2, <1>3, <1>4, <1>5, <1>6, <1>7, <1>8, <1>9, <1>10, <1>11, <1>12 DEF
    Bystander

LEMMA BystanderLoops ==
  ASSUME Inv, Bystander
  PROVE  Loops'
<1> USE Sizes DEF Inv, Types, Loops, loop, table, kernel, outside, history
<1>1. CASE \E k \in Clients, l \in Listeners : Knock(k, l)
  BY <1>1 DEF Knock
<1>2. CASE ListenerFails
  BY <1>2 DEF ListenerFails, Exit
<1>3. CASE StartDone
  <2>1. \A l \in Listeners : p[l] = l
    BY <1>3 DEF StartDone, Books, Held, Listening, Listeners
  <2> QED BY <1>3, <2>1 DEF StartDone
<1>4. CASE \E E \in SUBSET Reportable : EpollWait(E)
  BY <1>4 DEF EpollWait
<1>5. CASE AcceptSkip
  BY <1>5 DEF AcceptSkip
<1>6. CASE AcceptDone
  BY <1>6 DEF AcceptDone
<1>7. CASE \E k \in Clients : DropConnection(k)
  BY <1>7 DEF DropConnection, Accepted, Accepting, FlagCleared
<1>8. CASE AddFails
  BY <1>8 DEF AddFails, Exit, Accepting
<1>9. CASE RelayDone
  BY <1>9 DEF RelayDone
<1>10. CASE VisitEmpty
  BY <1>10 DEF VisitEmpty, Visiting
<1>11. CASE VisitIdle
  BY <1>11 DEF VisitIdle, Visited, Visiting
<1>12. CASE \E j \in Fields : SendRecvBlocks(j)
  BY <1>12 DEF SendRecvBlocks, Visited, Visiting, Chosen
<1> QED BY <1>1, <1>2, <1>3, <1>4, <1>5, <1>6, <1>7, <1>8, <1>9, <1>10, <1>11, <1>12 DEF
    Bystander

LEMMA BystanderBacklogs ==
  ASSUME Inv, Bystander
  PROVE  Backlogs'
<1> USE Sizes DEF Inv, Types, Loops, Backlogs, loop, table, kernel, outside, history
<1>1. CASE \E k \in Clients, l \in Listeners : Knock(k, l)
  BY <1>1 DEF Knock
<1>2. CASE ListenerFails
  BY <1>2 DEF ListenerFails, Exit
<1>3. CASE StartDone
  BY <1>3 DEF StartDone
<1>4. CASE \E E \in SUBSET Reportable : EpollWait(E)
  <2>1. PICK E \in SUBSET Reportable : EpollWait(E)
    BY <1>4
  <2>2. pc = "wait" /\ i = 0 /\ pc' = "accept" /\ UNCHANGED <<i, waiting, door>>
    BY <2>1 DEF EpollWait
  <2>3. ASSUME NEW l \in Listeners, 0 \in ready'[l]
        PROVE  waiting[l] # {}
    <3>1. 0 \notin ready[l] /\ p[l] = l
      BY <2>2
    <3>2. PICK w \in E : Found(w[1], l, 0)
      BY <2>1, <2>3, <3>1 DEF EpollWait
    <3>3. fd[l][0] = w[1] /\ w \in watched
      BY <2>1, <3>2 DEF Found, Reportable
    <3>4. PICK s \in Used : \E j \in Places(s) : w = Entry(s, j)
      BY <3>3 DEF Books, Watched
    <3>5. PICK j \in Places(s) : w = Entry(s, j)
      BY <3>4
    <3>6. l \in Used /\ 0 \in Places(l) /\ fd[s][j] = fd[l][0]
      BY <3>1, <3>3, <3>5 DEF Used, Places, Entry
    <3>7. s = l /\ j = 0
      BY <3>6 DEF Books, Apart
    <3>8. w[2] = Door(l)
      BY <3>1, <3>5, <3>7 DEF Entry, Books, Held, Listening
    <3> QED BY <2>1, <3>8 DEF Reportable
  <2>4. \A l \in Listeners : l >= 0
    BY DEF Listeners
  <2> QED BY <2>2, <2>3, <2>4
<1>5. CASE AcceptSkip
  BY <1>5 DEF AcceptSkip
<1>6. CASE AcceptDone
  BY <1>6 DEF AcceptDone, Listeners
<1>7. CASE \E k \in Clients : DropConnection(k)
  BY <1>7 DEF DropConnection, Accepted, Accepting, FlagCleared
<1>8. CASE AddFails
  BY <1>8 DEF AddFails, Exit, Accepting
<1>9. CASE RelayDone
  BY <1>9 DEF RelayDone
<1>10. CASE VisitEmpty
  BY <1>10 DEF VisitEmpty, Visiting
<1>11. CASE VisitIdle
  BY <1>11 DEF VisitIdle, Visited, Visiting
<1>12. CASE \E j \in Fields : SendRecvBlocks(j)
  BY <1>12 DEF SendRecvBlocks, Visited, Visiting, Chosen
<1> QED BY <1>1, <1>2, <1>3, <1>4, <1>5, <1>6, <1>7, <1>8, <1>9, <1>10, <1>11, <1>12 DEF
    Bystander

LEMMA BystanderNeverLost ==
  ASSUME Inv, Bystander
  PROVE  NeverLost'
<1> USE Sizes DEF Inv, NeverLost, loop, table, kernel, outside, history
<1>1. CASE \E k \in Clients, l \in Listeners : Knock(k, l)
  BY <1>1 DEF Knock
<1>2. CASE ListenerFails
  BY <1>2 DEF ListenerFails, Exit
<1>3. CASE StartDone
  BY <1>3 DEF StartDone
<1>4. CASE \E E \in SUBSET Reportable : EpollWait(E)
  BY <1>4 DEF EpollWait
<1>5. CASE AcceptSkip
  BY <1>5 DEF AcceptSkip
<1>6. CASE AcceptDone
  BY <1>6 DEF AcceptDone
<1>7. CASE \E k \in Clients : DropConnection(k)
  BY <1>7 DEF DropConnection, Accepted, Accepting, FlagCleared
<1>8. CASE AddFails
  <2>1. i \in Listeners /\ 0 \in ready[i] /\ pc = "accept"
    BY <1>8 DEF AddFails, Accepting, Types, Listeners
  <2>2. waiting[i] # {} /\ p[i] = i
    BY <2>1 DEF Loops, Backlogs
  <2>3. FindProxy(fd[i][0]) = {i}
    BY <2>1, <2>2, FindsProxy
  <2> QED BY <1>8, <2>2, <2>3 DEF AddFails, Exit
<1>9. CASE RelayDone
  BY <1>9 DEF RelayDone
<1>10. CASE VisitEmpty
  BY <1>10 DEF VisitEmpty, Visiting
<1>11. CASE VisitIdle
  BY <1>11 DEF VisitIdle, Visited, Visiting
<1>12. CASE \E j \in Fields : SendRecvBlocks(j)
  BY <1>12 DEF SendRecvBlocks, Visited, Visiting, Chosen
<1> QED BY <1>1, <1>2, <1>3, <1>4, <1>5, <1>6, <1>7, <1>8, <1>9, <1>10, <1>11, <1>12 DEF
    Bystander

LEMMA BystanderInv ==
  ASSUME Inv, Bystander
  PROVE  Inv'
BY BystanderBooks, BystanderTypes, BystanderLoops, BystanderBacklogs, BystanderNeverLost
    DEF Inv

-----------------------------------------------------------------------------
\* The steps that change the books.
LEMMA FiniteUsed == IsFiniteSet(Used \cap Conns)
<1>1. IsFiniteSet(Conns)
  BY Sizes, FS_Interval
<1> QED BY <1>1, FS_Subset

\* A listening socket in the next slot.
LEMMA AddListenerInv ==
  ASSUME Inv, AddListener
  PROVE  Inv'
<1>1. PICK f \in Nth(0) :
        /\ files' = [files EXCEPT ![f] = Door(i)]
        /\ watched' = watched \cup {<<f, Door(i), "in">>}
        /\ fd' = [fd EXCEPT ![i][0] = f]
        /\ serverfd' = [serverfd EXCEPT ![i] = f]
  BY DEF AddListener
<1>2. pc = "start" /\ i \in Listeners /\ i \in Slots /\ i \notin Conns /\ p[i] = None
  BY Sizes DEF AddListener, Inv, Types, Loops, Listeners
<1>3. /\ p' = [p EXCEPT ![i] = i] /\ i' = i + 1
      /\ UNCHANGED <<pc, ready, connCount, waiting, door, ended>>
  BY DEF AddListener, outside, history
<1>4. f \in Fds /\ files[f] = Free
  BY <1>1, NthFree
<1>5. Types'
  <2>1. Door(i) \in Files /\ i' \in 0 .. MAX_CONNECTIONS
    BY <1>2, <1>3, Sizes DEF Files, Listeners
  <2>2. fd' \in [Slots -> [Fields -> Fds]]
    BY <1>1, <1>2, <1>4 DEF Inv, Types
  <2>3. p' \in [Slots -> Listeners \cup {None}]
    BY <1>2, <1>3 DEF Inv, Types
  <2>4. files' \in [Fds -> Files]
    BY <1>1, <2>1 DEF Inv, Types
  <2>5. serverfd' \in [Listeners -> Fds]
    BY <1>1, <1>4 DEF Inv, Types
  <2> QED BY <1>3, <2>1, <2>2, <2>3, <2>4, <2>5 DEF Inv, Types
<1>6. Loops' /\ Backlogs' /\ NeverLost'
  <2>1. \A s \in Slots : p'[s] # None <=> s < i + 1
    BY <1>2, <1>3, Sizes DEF Inv, Types, Loops, Slots
  <2>2. Loops'
    BY <1>2, <1>3, <2>1, Sizes DEF Inv, Types, Loops, Listeners
  <2> QED BY <1>2, <1>3, <2>2 DEF Inv, Backlogs, NeverLost
<1>7. PICK l \in Listeners : l = i
  BY <1>2
\* What was held is held as before.
<1>8. /\ Used' = Used \cup {i} /\ i \notin Used
      /\ \A s \in Used : \A j \in Places(s) : fd'[s][j] = fd[s][j] /\ fd[s][j] # f
      /\ \A s \in Used : \A j \in Places(s) : files'[fd[s][j]] = files[fd[s][j]]
  <2>1. Used' = Used \cup {i} /\ i \notin Used
    BY <1>2, <1>3, Sizes DEF Used, Inv, Types
  <2>2. \A s \in Used : \A j \in Places(s) : fd'[s][j] = fd[s][j]
    BY <1>1, <1>2, <2>1, HeldOpen DEF Inv, Books, Types, Used
  <2>3. \A s \in Used : \A j \in Places(s) : fd[s][j] # f /\ fd[s][j] \in Fds
    BY <1>4, HeldOpen DEF Inv, Books
  <2>4. \A s \in Used : \A j \in Places(s) : files'[fd[s][j]] = files[fd[s][j]]
    BY <1>1, <1>4, <2>3 DEF Inv, Types
  <2> QED BY <2>1, <2>2, <2>3, <2>4
<1>9. fd'[i][0] = f /\ files'[f] = Door(i) /\ Places(i) = {0}
  BY <1>1, <1>2, <1>4 DEF Inv, Types, Places, Fields
<1>10. Held'
  <2>1. Listening(l)'
    <3>1. \A j \in Fields : j # 0 => fd'[i][j] = 0
      BY <1>1, <1>2 DEF Inv, Books, Held, Types
    <3>2. p'[i] = i /\ serverfd'[i] = f
      BY <1>1, <1>2, <1>3 DEF Inv, Types
    <3> QED BY <1>9, <1>7, <3>1, <3>2 DEF Listening
  <2>2. ASSUME NEW s \in Listeners, s # l, p'[s] # None
        PROVE  Listening(s)'
    <3>1. s \in Used /\ 0 \in Places(s) /\ p'[s] = p[s] /\ fd'[s] = fd[s] /\ serverfd'[s] = serverfd[s]
      BY <1>1, <1>2, <1>3, <1>7, <2>2, Sizes DEF Inv, Types, Used, Places
    <3>2. Listening(s)
      BY <2>2, <3>1 DEF Inv, Books, Held
    <3>3. files'[fd[s][0]] = files[fd[s][0]]
      BY <1>8, <3>1
    <3> QED BY <3>1, <3>2, <3>3 DEF Listening
  <2>3. ASSUME NEW s \in Conns, p'[s] # None
        PROVE  Serving(s)'
    <3>1. s # i /\ s \in Used /\ p'[s] = p[s] /\ fd'[s] = fd[s] /\ Places(s) = Fields
      BY <1>1, <1>2, <1>3, <2>3, Sizes DEF Inv, Types, Used, Places
    <3>2. PICK k \in Clients : Holds(s, k) /\ p[s] = door[k]
      BY <2>3, <3>1 DEF Inv, Books, Held, Serving
    <3>3. \A j \in Fields : files'[fd[s][j]] = files[fd[s][j]]
      BY <1>8, <3>1
    <3> QED BY <1>3, <2>3, <3>1, <3>2, <3>3 DEF Serving, Holds
  <2>4. ASSUME NEW s \in Slots, p'[s] = None
        PROVE  \A j \in Fields : fd'[s][j] = 0
    BY <1>1, <1>2, <1>3, <2>4, Sizes DEF Inv, Types, Books, Held
  <2> QED BY <2>1, <2>2, <2>3, <2>4 DEF Held
<1>11. Apart'
  <2> SUFFICES ASSUME NEW s \in Used', NEW t \in Used', NEW j \in Places(s), NEW m \in Places(t),
                      fd'[s][j] = fd'[t][m]
               PROVE  s = t /\ j = m
    BY DEF Apart, Places
  <2>1. CASE s \in Used /\ t \in Used
    BY <1>8, <2>1 DEF Inv, Books, Apart
  <2>2. CASE s = i \/ t = i
    BY <1>8, <1>9, <2>2
  <2> QED BY <1>8, <2>1, <2>2
<1>12. Streams'
  BY <1>1, <1>4, FilesDiffer DEF Inv, Types, Books, Streams
<1>13. Watched'
  <2>1. Entry(l, 0)' = <<f, Door(l), "in">>
    BY <1>9, <1>7 DEF Entry
  <2>2. \A s \in Used : \A j \in Places(s) : Entry(s, j)' = Entry(s, j)
    BY <1>8 DEF Entry
  <2> QED BY <1>1, <1>8, <1>9, <1>7, <2>1, <2>2 DEF Inv, Books, Watched, Places
<1>14. Counted'
  BY <1>2, <1>3, <1>8 DEF Inv, Books, Counted
<1>15. NoLeak'
  <2> SUFFICES ASSUME NEW g \in Open', g \notin Base, files'[g] # Refused
               PROVE  \E s \in Used', j \in Fields : fd'[s][j] = g
    BY DEF NoLeak
  <2>1. CASE g = f
    BY <1>8, <1>9, <2>1 DEF Places, Fields
  <2>2. CASE g # f
    <3>1. g \in Open /\ files[g] # Refused
      BY <1>1, <2>2 DEF Open, Inv, Types
    <3>2. PICK s \in Used, j \in Fields : fd[s][j] = g
      BY <3>1 DEF Inv, Books, NoLeak
    <3>3. fd'[s] = fd[s]
      BY <1>1, <1>8 DEF Inv, Types, Used
    <3> QED BY <1>8, <3>2, <3>3
  <2> QED BY <2>1, <2>2
<1> QED BY <1>5, <1>6, <1>10, <1>11, <1>12, <1>13, <1>14, <1>15 DEF Inv, Books

\* The client's socket, the host's and the two duplicates, in an empty slot.
LEMMA AddConnectionInv ==
  ASSUME Inv, NEW k \in Clients, NEW n \in 0 .. MaxRefused, AddConnection(k, n)
  PROVE  Inv'
<1>1. PICK l \in Listeners : l = i
  BY Sizes DEF AddConnection, Accepting, Inv, Types, Listeners
<1>2. /\ pc = "accept" /\ 0 \in ready[l] /\ k \in waiting[l] /\ l \in Slots
      /\ FindProxy(fd[l][0]) = {l} /\ n \in Nat
  <2>1. pc = "accept" /\ 0 \in ready[l] /\ k \in waiting[l]
    BY <1>1 DEF AddConnection, Accepting
  <2>2. FindProxy(fd[l][0]) = {l}
    BY <2>1, FindsProxy
  <2> QED BY <2>1, <2>2, Sizes
<1>3. PICK a \in Nth(0), b \in Nth(n + 1), c \in Nth(n + 2), d \in Nth(n + 3) :
        \E e \in FindEmpty, q \in FindProxy(fd[i][0]) :
          /\ files' = [f \in Fds |->
               CASE f \in {a, c} -> Local(k)
                 [] f \in {b, d} -> Remote(k)
                 [] OTHER -> Refusing(n)[f]]
          /\ watched' = watched \cup {<<a, Local(k), "in">>, <<b, Remote(k), "in">>,
                                      <<c, Local(k), "out">>, <<d, Remote(k), "out">>}
          /\ fd' = [fd EXCEPT ![e] = FieldsOf(a, b, c, d)]
          /\ p' = [p EXCEPT ![e] = q]
  BY DEF AddConnection
<1>4. PICK e \in FindEmpty, q \in FindProxy(fd[i][0]) :
        /\ files' = [f \in Fds |->
             CASE f \in {a, c} -> Local(k)
               [] f \in {b, d} -> Remote(k)
               [] OTHER -> Refusing(n)[f]]
        /\ watched' = watched \cup {<<a, Local(k), "in">>, <<b, Remote(k), "in">>,
                                    <<c, Local(k), "out">>, <<d, Remote(k), "out">>}
        /\ fd' = [fd EXCEPT ![e] = FieldsOf(a, b, c, d)]
        /\ p' = [p EXCEPT ![e] = q]
  BY <1>3
<1>5. q = l
  BY <1>1, <1>2
<1>6. /\ i' = i + 1 /\ connCount' = connCount + 1 /\ ready' = [ready EXCEPT ![l] = @ \ {0}]
      /\ waiting' = [waiting EXCEPT ![l] = @ \ {k}]
      /\ UNCHANGED <<pc, serverfd, door, ended>>
  BY <1>1 DEF AddConnection, Accepted, FlagCleared
<1>7. /\ {a, b, c, d} \subseteq Fds
      /\ files[a] = Free /\ files[b] = Free /\ files[c] = Free /\ files[d] = Free
      /\ a # b /\ a # c /\ a # d /\ b # c /\ b # d /\ c # d
  <2>1. 0 # n + 1 /\ 0 # n + 2 /\ 0 # n + 3 /\ n + 1 # n + 2 /\ n + 1 # n + 3 /\ n + 2 # n + 3
    BY <1>2
  <2>2. a # b /\ a # c /\ a # d /\ b # c /\ b # d /\ c # d
    BY <2>1, NthDiffer
  <2> QED BY <2>2, NthFree
<1>8. e \in Conns /\ e \in Slots /\ e \notin Listeners /\ p[e] = None /\ e \notin Used /\ e # l
  BY Sizes DEF FindEmpty, Used
<1>9. /\ files'[a] = Local(k) /\ files'[c] = Local(k) /\ files'[b] = Remote(k) /\ files'[d] = Remote(k)
      /\ \A g \in Fds : files[g] # Free => files'[g] = files[g]
      /\ \A g \in Fds \ {a, b, c, d} : files'[g] = files[g] \/ files'[g] = Refused
      /\ files' \in [Fds -> Files]
  <2>1. files'[a] = Local(k) /\ files'[c] = Local(k) /\ files'[b] = Remote(k) /\ files'[d] = Remote(k)
    BY <1>4, <1>5, <1>7
  <2>2. \A g \in Fds \ {a, b, c, d} : files'[g] = Refusing(n)[g]
    BY <1>4, <1>5
  <2>3. \A g \in Fds : Refusing(n)[g] \in Files
    BY RefusingOnly DEF Inv
  <2>4. \A g \in Fds : Refusing(n)[g] = files[g] \/ (files[g] = Free /\ Refusing(n)[g] = Refused)
    BY RefusingOnly DEF Inv
  <2>5. Local(k) \in Files /\ Remote(k) \in Files
    BY DEF Files
  <2>6. \A g \in Fds : files'[g] \in Files
    BY <2>1, <2>2, <2>3, <2>5
  <2>7. files' = [g \in Fds |-> files'[g]]
    BY <1>4, <1>5
  <2>8. files' \in [Fds -> Files]
    BY <2>6, <2>7
  <2> QED BY <1>7, <2>1, <2>2, <2>4, <2>8
<1>10. /\ fd'[e] = FieldsOf(a, b, c, d) /\ \A s \in Slots : s # e => fd'[s] = fd[s]
      /\ p'[e] = l /\ \A s \in Slots : s # e => p'[s] = p[s]
  BY <1>4, <1>5, <1>8 DEF Inv, Types
<1>11. /\ fd'[e][0] = a /\ fd'[e][1] = c /\ fd'[e][2] = b /\ fd'[e][3] = d
      /\ fd'[e] \in [Fields -> Fds]
  BY <1>7, <1>10 DEF FieldsOf, Fields
<1>12. Types'
  <2>1. i' \in 0 .. MAX_CONNECTIONS
    BY <1>1, <1>6, Sizes DEF Listeners
  <2>2. fd' \in [Slots -> [Fields -> Fds]]
    BY <1>4, <1>5, <1>10, <1>11 DEF Inv, Types
  <2>3. p' \in [Slots -> Listeners \cup {None}]
    BY <1>4, <1>5 DEF Inv, Types
  <2>4. ready' \in [Slots -> SUBSET Fields]
    BY <1>6 DEF Inv, Types
  <2>5. waiting' \in [Listeners -> SUBSET Clients]
    BY <1>6 DEF Inv, Types
  <2> QED BY <1>6, <1>9, <2>1, <2>2, <2>3, <2>4, <2>5 DEF Inv, Types
<1>13. Loops'
  BY <1>1, <1>2, <1>6, <1>8, <1>10, Sizes DEF Inv, Types, Loops, Listeners
<1>14. Backlogs'
  <2>1. \A m \in Listeners : waiting'[m] \subseteq waiting[m]
    BY <1>6 DEF Inv, Types
  <2>2. ASSUME NEW m \in Listeners, 0 \in ready'[m]
        PROVE  m # l /\ 0 \in ready[m] /\ waiting'[m] = waiting[m]
    BY <1>2, <1>6, <2>2, Sizes DEF Inv, Types
  <2>3. ASSUME NEW m \in Listeners, 0 \in ready'[m]
        PROVE  m >= i' /\ waiting'[m] # {}
    <3>1. m >= i /\ waiting[m] # {}
      BY <1>2, <2>2, <2>3 DEF Inv, Backlogs
    <3> QED BY <1>1, <1>6, <2>2, <2>3, <3>1 DEF Listeners
  <2> QED BY <1>2, <1>6, <2>1, <2>3 DEF Inv, Backlogs
<1>15. NeverLost'
  BY <1>6 DEF Inv, NeverLost
\* What was held is held as before.
<1>16. /\ Used' = Used \cup {e}
       /\ \A s \in Used : fd'[s] = fd[s] /\ p'[s] = p[s]
       /\ \A s \in Used : \A j \in Places(s) :
            fd[s][j] \in Fds /\ fd[s][j] \notin {a, b, c, d} /\ files'[fd[s][j]] = files[fd[s][j]]
  <2>1. Used' = Used \cup {e}
    BY <1>8, <1>10, Sizes DEF Used
  <2>2. \A s \in Used : fd'[s] = fd[s] /\ p'[s] = p[s]
    BY <1>8, <1>10 DEF Used
  <2>3. \A s \in Used : \A j \in Places(s) : fd[s][j] \in Fds /\ files[fd[s][j]] # Free
    BY HeldOpen DEF Inv, Books
  <2> QED BY <1>7, <1>9, <2>1, <2>2, <2>3
<1>17. Places(e) = Fields
  BY <1>8 DEF Places
<1>18. Held'
  <2>1. ASSUME NEW s \in Listeners, p'[s] # None
        PROVE  Listening(s)'
    <3>1. s \in Used /\ 0 \in Places(s) /\ p'[s] = p[s] /\ fd'[s] = fd[s]
      BY <1>8, <1>10, <2>1, Sizes DEF Used, Places
    <3>2. Listening(s)
      BY <2>1, <3>1 DEF Inv, Books, Held
    <3>3. files'[fd[s][0]] = files[fd[s][0]]
      BY <1>16, <3>1
    <3> QED BY <1>6, <3>1, <3>2, <3>3 DEF Listening
  <2>2. Serving(e)'
    <3>1. Holds(e, k)'
      <4>1. \A j \in Fields : files'[fd'[e][j]] = IF j < 2 THEN Local(k) ELSE Remote(k)
        BY <1>9, <1>11 DEF Fields
      <4>2. p'[e] # None
        BY <1>10, Sizes
      <4> QED BY <1>8, <4>1, <4>2 DEF Holds
    <3>2. p'[e] = door'[k]
      BY <1>2, <1>6, <1>10 DEF Inv, Backlogs
    <3> QED BY <3>1, <3>2 DEF Serving
  <2>3. ASSUME NEW s \in Conns, s # e, p'[s] # None
        PROVE  Serving(s)'
    <3>1. s \in Used /\ p'[s] = p[s] /\ fd'[s] = fd[s] /\ Places(s) = Fields
      BY <1>10, <2>3, Sizes DEF Used, Places
    <3>2. PICK h \in Clients : Holds(s, h) /\ p[s] = door[h]
      BY <2>3, <3>1 DEF Inv, Books, Held, Serving
    <3>3. \A j \in Fields : files'[fd[s][j]] = files[fd[s][j]]
      BY <1>16, <3>1
    <3> QED BY <1>6, <2>3, <3>1, <3>2, <3>3 DEF Serving, Holds
  <2>4. ASSUME NEW s \in Slots, p'[s] = None
        PROVE  \A j \in Fields : fd'[s][j] = 0
    BY <1>10, <2>4, Sizes DEF Inv, Books, Held
  <2> QED BY <2>1, <2>2, <2>3, <2>4 DEF Held
<1>19. Apart'
  <2> SUFFICES ASSUME NEW s \in Used', NEW t \in Used', NEW j \in Places(s), NEW m \in Places(t),
                      fd'[s][j] = fd'[t][m]
               PROVE  s = t /\ j = m
    BY DEF Apart, Places
  <2>1. CASE s \in Used /\ t \in Used
    BY <1>16, <2>1 DEF Inv, Books, Apart
  <2>2. \A y \in Fields : fd'[e][y] \in {a, b, c, d}
    BY <1>11 DEF Fields
  <2>3. \A y \in Fields, z \in Fields : fd'[e][y] = fd'[e][z] => y = z
    BY <1>7, <1>11 DEF Fields
  <2>4. CASE s = e /\ t = e
    BY <1>17, <2>3, <2>4
  <2>5. CASE (s = e /\ t \in Used) \/ (t = e /\ s \in Used)
    BY <1>16, <1>17, <2>2, <2>5
  <2> QED BY <1>16, <2>1, <2>4, <2>5
<1>20. Streams'
  <2>1. \A f \in Base : f \in Fds /\ files[f] = Own
    BY Sizes DEF Inv, Books, Streams, Base, Fds
  <2> QED BY <1>9, <2>1, FilesDiffer DEF Streams
<1>21. Watched'
  <2>1. \A s \in Used : \A j \in Places(s) : Entry(s, j)' = Entry(s, j)
    BY <1>16 DEF Entry
  <2>2. /\ Entry(e, 0)' = <<a, Local(k), "in">> /\ Entry(e, 1)' = <<c, Local(k), "out">>
        /\ Entry(e, 2)' = <<b, Remote(k), "in">> /\ Entry(e, 3)' = <<d, Remote(k), "out">>
    BY <1>9, <1>11 DEF Entry
  <2>3. Fields = {0, 1, 2, 3}
    BY DEF Fields
  <2>4. ASSUME NEW s \in Used', NEW j \in Places(s)
        PROVE  Entry(s, j)' \in watched'
    BY <1>4, <1>5, <1>16, <1>17, <2>1, <2>2, <2>3, <2>4 DEF Inv, Books, Watched
  <2>5. ASSUME NEW w \in watched'
        PROVE  \E s \in Used' : \E j \in Places(s) : w = Entry(s, j)'
    BY <1>4, <1>5, <1>16, <1>17, <2>1, <2>2, <2>3, <2>5 DEF Inv, Books, Watched
  <2> QED BY <2>4, <2>5 DEF Watched, Places
<1>22. Counted'
  <2>1. Used' \cap Conns = (Used \cap Conns) \cup {e} /\ e \notin Used \cap Conns
    BY <1>8, <1>16
  <2>2. Cardinality(Used' \cap Conns) = Cardinality(Used \cap Conns) + 1
    BY <2>1, FiniteUsed, FS_AddElement
  <2> QED BY <1>6, <2>2 DEF Inv, Books, Counted
<1>23. NoLeak'
  <2> SUFFICES ASSUME NEW g \in Open', g \notin Base, files'[g] # Refused
               PROVE  \E s \in Used', j \in Fields : fd'[s][j] = g
    BY DEF NoLeak
  <2>1. CASE g \in {a, b, c, d}
    <3>1. 0 \in Fields /\ 1 \in Fields /\ 2 \in Fields /\ 3 \in Fields
      BY DEF Fields
    <3> QED BY <1>11, <1>16, <2>1, <3>1
  <2>2. CASE g \notin {a, b, c, d}
    <3>1. g \in Open /\ files[g] # Refused
      BY <1>9, <2>2 DEF Open
    <3>2. PICK s \in Used, j \in Fields : fd[s][j] = g
      BY <3>1 DEF Inv, Books, NoLeak
    <3> QED BY <1>16, <3>2
  <2> QED BY <2>1, <2>2
<1> QED BY <1>12, <1>13, <1>14, <1>15, <1>18, <1>19, <1>20, <1>21, <1>22, <1>23 DEF Inv,
    Books

\* The process ends while it opens sockets for a client.
LEMMA AddRunsOutInv ==
  ASSUME Inv, NEW n \in Nat, AddRunsOut(n)
  PROVE  Inv'
<1>1. /\ files' = Refusing(n) /\ pc' = "exited" /\ ended' = "files"
      /\ UNCHANGED <<i, fd, ready, p, connCount, serverfd, watched, waiting, door>>
  BY DEF AddRunsOut, table, outside
<1>2. /\ files' \in [Fds -> Files]
      /\ \A f \in Fds : files'[f] = files[f] \/ (files[f] = Free /\ files'[f] = Refused)
  BY <1>1, RefusingOnly DEF Inv
<1>3. Types' /\ Loops' /\ Backlogs' /\ NeverLost'
  BY <1>1, <1>2 DEF Inv, Types, Loops, Backlogs, NeverLost
<1>4. /\ Used' = Used
      /\ \A s \in Used : \A j \in Places(s) : files'[fd[s][j]] = files[fd[s][j]]
  BY <1>1, <1>2, HeldOpen DEF Inv, Books, Used
<1>5. Held'
  <2>1. ASSUME NEW s \in Listeners, p[s] # None
        PROVE  Listening(s)'
    <3>1. s \in Used /\ 0 \in Places(s) /\ Listening(s)
      BY <2>1, Sizes DEF Used, Places, Inv, Books, Held
    <3> QED BY <1>1, <1>4, <3>1 DEF Listening
  <2>2. ASSUME NEW s \in Conns, p[s] # None
        PROVE  Serving(s)'
    <3>1. s \in Used /\ Places(s) = Fields
      BY <2>2, Sizes DEF Used, Places
    <3>2. PICK h \in Clients : Holds(s, h) /\ p[s] = door[h]
      BY <2>2 DEF Inv, Books, Held, Serving
    <3> QED BY <1>1, <1>4, <3>1, <3>2 DEF Serving, Holds
  <2> QED BY <1>1, <2>1, <2>2 DEF Inv, Books, Held
<1>6. Streams'
  <2>1. \A f \in Base : f \in Fds /\ files[f] = Own
    BY Sizes DEF Inv, Books, Streams, Base, Fds
  <2> QED BY <1>2, <2>1, FilesDiffer DEF Streams
<1>7. Watched'
  <2>1. \A s \in Used : \A j \in Places(s) : Entry(s, j)' = Entry(s, j)
    BY <1>1, <1>4 DEF Entry
  <2> QED BY <1>1, <1>4, <2>1 DEF Inv, Books, Watched, Places
<1>8. Apart' /\ Counted'
  BY <1>1, <1>4 DEF Inv, Books, Apart, Counted, Places
<1>9. NoLeak'
  BY <1>1, <1>2, <1>4 DEF Inv, Books, NoLeak, Open
<1> QED BY <1>3, <1>5, <1>6, <1>7, <1>8, <1>9 DEF Inv, Books

\* A slot is given back with its four descriptors.
LEMMA CloseConnectionInv ==
  ASSUME Inv, CloseConnection
  PROVE  Inv'
<1>1. PICK e \in Slots : e = i
  BY Sizes DEF CloseConnection, Closing, Visiting, Inv, Types, Slots
<1>2. pc = "relay" /\ e \in Conns /\ e \notin Listeners /\ p[e] # None /\ e \in Used
      /\ Places(e) = Fields
  BY <1>1, Sizes DEF CloseConnection, Closing, Visiting, Inv, Types, Loops, Used, Places
<1>3. Deletable
  <2> SUFFICES ASSUME NEW j \in Fields
               PROVE  \E w \in watched : w[1] = fd[e][j]
    BY <1>1 DEF Deletable
  <2>1. Entry(e, j) \in watched
    BY <1>2 DEF Inv, Books, Watched
  <2> QED BY <2>1 DEF Entry
<1> DEFINE F == {fd[e][j] : j \in Fields}
<1>4. /\ watched' = {w \in Remembered(F) : \A j \in Fields : w[1] # fd[e][j]}
      /\ files' = [f \in Fds |-> IF f \in F THEN Free ELSE files[f]]
      /\ fd' = [fd EXCEPT ![e] = [j \in Fields |-> 0]]
      /\ ready' = [ready EXCEPT ![e] = {}]
      /\ p' = [p EXCEPT ![e] = None]
      /\ connCount' = connCount - 1 /\ i' = i + 1
      /\ UNCHANGED <<pc, serverfd, waiting, door, ended>>
  BY <1>1, <1>3 DEF CloseConnection, Close, Closed, Visited, outside, history
<1>5. /\ fd'[e] = [j \in Fields |-> 0] /\ \A s \in Slots : s # e => fd'[s] = fd[s]
      /\ p'[e] = None /\ \A s \in Slots : s # e => p'[s] = p[s]
  BY <1>4 DEF Inv, Types
<1>6. /\ Used' = Used \ {e}
      /\ \A s \in Used \ {e} : fd'[s] = fd[s] /\ p'[s] = p[s]
      /\ \A s \in Used \ {e} : \A j \in Places(s) :
           fd[s][j] \in Fds /\ fd[s][j] \notin F /\ files'[fd[s][j]] = files[fd[s][j]]
  <2>1. Used' = Used \ {e}
    BY <1>5 DEF Used
  <2>2. \A s \in Used \ {e} : fd'[s] = fd[s] /\ p'[s] = p[s]
    BY <1>5 DEF Used
  <2>3. \A s \in Used \ {e} : \A j \in Places(s) : fd[s][j] \in Fds /\ fd[s][j] \notin F
    BY <1>2, HeldOpen DEF Inv, Books, Apart
  <2> QED BY <1>4, <2>1, <2>2, <2>3
<1>7. Types'
  <2>1. i' \in 0 .. MAX_CONNECTIONS
    BY <1>1, <1>4, Sizes DEF Slots
  <2>2. 0 \in Fds /\ Free \in Files
    BY Sizes DEF Fds, Files
  <2>3. fd' \in [Slots -> [Fields -> Fds]]
    BY <1>4, <2>2 DEF Inv, Types
  <2>4. p' \in [Slots -> Listeners \cup {None}]
    BY <1>4 DEF Inv, Types
  <2>5. ready' \in [Slots -> SUBSET Fields]
    BY <1>4 DEF Inv, Types
  <2>6. files' \in [Fds -> Files]
    BY <1>4, <2>2 DEF Inv, Types
  <2> QED BY <1>4, <2>1, <2>3, <2>4, <2>5, <2>6 DEF Inv, Types
<1>8. Loops' /\ Backlogs' /\ NeverLost'
  <2>1. \A l \in Listeners : l \in Slots /\ l # e /\ p'[l] = p[l] /\ ready'[l] = ready[l]
    BY <1>2, <1>4, <1>5, Sizes DEF Inv, Types
  <2> QED BY <1>1, <1>2, <1>4, <2>1, Sizes DEF Inv, Types, Loops, Backlogs, NeverLost
<1>9. Held'
  <2>1. ASSUME NEW s \in Listeners, p'[s] # None
        PROVE  Listening(s)'
    <3>1. s \in Used \ {e} /\ 0 \in Places(s) /\ Listening(s) /\ p'[s] = p[s]
      BY <1>2, <1>5, <2>1, Sizes DEF Used, Places, Inv, Books, Held
    <3> QED BY <1>4, <1>6, <3>1 DEF Listening
  <2>2. ASSUME NEW s \in Conns, p'[s] # None
        PROVE  Serving(s)'
    <3>1. s \in Used \ {e} /\ Places(s) = Fields /\ p'[s] = p[s] /\ p[s] # None
      BY <1>5, <2>2, Sizes DEF Used, Places
    <3>2. PICK h \in Clients : Holds(s, h) /\ p[s] = door[h]
      BY <3>1, <2>2 DEF Inv, Books, Held, Serving
    <3> QED BY <1>4, <1>6, <2>2, <3>1, <3>2 DEF Serving, Holds
  <2>3. ASSUME NEW s \in Slots, p'[s] = None
        PROVE  \A j \in Fields : fd'[s][j] = 0
    BY <1>5, <2>3 DEF Inv, Books, Held
  <2> QED BY <2>1, <2>2, <2>3 DEF Held
<1>10. Apart'
  BY <1>6 DEF Inv, Books, Apart, Places
<1>11. Streams'
  <2>1. \A f \in Base : f \in Fds /\ files[f] = Own
    BY Sizes DEF Inv, Books, Streams, Base, Fds
  <2>2. \A f \in F : files[f] # Own
    BY <1>2, HeldOpen DEF Inv, Books
  <2> QED BY <1>4, <2>1, <2>2 DEF Streams
<1>12. Watched'
  <2>1. \A s \in Used \ {e} : \A j \in Places(s) : Entry(s, j)' = Entry(s, j)
    BY <1>6 DEF Entry
  <2>2. ASSUME NEW s \in Used \ {e}, NEW j \in Places(s)
        PROVE  Entry(s, j) \in watched'
    <3>1. Entry(s, j) \in watched /\ fd[s][j] \in Fds \ F
      BY <1>6 DEF Inv, Books, Watched
    <3>2. Entry(s, j) \in Remembered(F)
      BY <3>1 DEF Remembered, Entry
    <3>3. \A m \in Fields : fd[s][j] # fd[e][m]
      BY <3>1
    <3> QED BY <1>4, <3>2, <3>3 DEF Entry
  <2>3. ASSUME NEW w \in watched'
        PROVE  \E s \in Used \ {e} : \E j \in Places(s) : w = Entry(s, j)
    <3>1. w \in watched /\ \A j \in Fields : w[1] # fd[e][j]
      BY <1>4 DEF Remembered
    <3>2. PICK s \in Used : \E j \in Places(s) : w = Entry(s, j)
      BY <3>1 DEF Inv, Books, Watched
    <3>3. s # e
      BY <1>2, <3>1, <3>2 DEF Entry
    <3> QED BY <3>2, <3>3
  <2> QED BY <1>6, <2>1, <2>2, <2>3 DEF Watched, Places
<1>13. Counted'
  <2>1. Used' \cap Conns = (Used \cap Conns) \ {e} /\ e \in Used \cap Conns
    BY <1>2, <1>6
  <2>2. Cardinality(Used' \cap Conns) = Cardinality(Used \cap Conns) - 1
    BY <2>1, FiniteUsed, FS_RemoveElement
  <2> QED BY <1>4, <2>2 DEF Inv, Books, Counted
<1>14. NoLeak'
  <2> SUFFICES ASSUME NEW g \in Open', g \notin Base, files'[g] # Refused
               PROVE  \E s \in Used', j \in Fields : fd'[s][j] = g
    BY DEF NoLeak
  <2>1. g \in Fds /\ files[g] # Free /\ g \notin F /\ files[g] # Refused
    BY <1>4 DEF Open
  <2>2. PICK s \in Used, j \in Fields : fd[s][j] = g
    BY <2>1 DEF Inv, Books, NoLeak, Open
  <2>3. s # e
    BY <2>1, <2>2
  <2> QED BY <1>6, <2>2, <2>3
<1> QED BY <1>7, <1>8, <1>9, <1>10, <1>11, <1>12, <1>13, <1>14 DEF Inv, Books

-----------------------------------------------------------------------------
LEMMA InitInv == Init => Inv
<1> SUFFICES ASSUME Init
             PROVE  Inv
  OBVIOUS
<1>1. \A f \in Base : f \in Fds
  BY Sizes DEF Base, Fds
<1>2. Own \in Files /\ Free \in Files /\ 0 \in Fds
  BY Sizes DEF Files, Fds
<1>3. Types
  BY <1>2, Sizes DEF Init, Types
<1>4. Loops /\ Backlogs /\ NeverLost
  BY Sizes DEF Init, Loops, Backlogs, NeverLost, Slots, Listeners
<1>5. Used = {}
  BY DEF Init, Used
<1>6. Counted
  BY <1>5, FS_EmptySet DEF Init, Counted
<1>7. Held /\ Streams
  BY <1>1, Sizes DEF Init, Held, Streams
<1>8. Apart /\ Watched
  BY <1>5 DEF Init, Apart, Watched
<1>9. NoLeak
  BY DEF Init, NoLeak, Open
<1> QED BY <1>3, <1>4, <1>6, <1>7, <1>8, <1>9 DEF Inv, Books

LEMMA NextInv == Inv /\ [Next]_vars => Inv'
<1> SUFFICES ASSUME Inv, [Next]_vars
             PROVE  Inv'
  OBVIOUS
<1>1. CASE Bystander
  BY <1>1, BystanderInv
<1>2. CASE AddListener
  BY <1>2, AddListenerInv
<1>3. CASE \E k \in Clients, n \in 0 .. MaxRefused : AddConnection(k, n)
  BY <1>3, AddConnectionInv
<1>4. CASE \E n \in 0 .. MaxRefused : AddRunsOut(n)
  BY <1>4, AddRunsOutInv, Sizes
<1>5. CASE CloseConnection
  BY <1>5, CloseConnectionInv
<1>6. CASE UNCHANGED vars
  <2>1. UNCHANGED <<pc, i, fd, ready, p, connCount, serverfd, files, watched, waiting, door, ended>>
    BY <1>6 DEF vars, loop, table, kernel, outside, history
  <2>2. Types' /\ Loops' /\ Backlogs' /\ NeverLost'
    BY <2>1 DEF Inv, Types, Loops, Backlogs, NeverLost
  <2>3. Held' /\ Streams' /\ Counted' /\ NoLeak'
    BY <2>1 DEF Inv, Books, Held, Listening, Serving, Holds, Streams, Counted, NoLeak,
        Used, Open
  <2>4. Apart' /\ Watched'
    BY <2>1 DEF Inv, Books, Apart, Watched, Used, Places, Entry
  <2> QED BY <2>2, <2>3, <2>4 DEF Inv, Books
<1> QED BY <1>1, <1>2, <1>3, <1>4, <1>5, <1>6 DEF Next, Bystander

LEMMA InvHolds == Spec => []Inv
BY InitInv, NextInv, PTL DEF Spec

-----------------------------------------------------------------------------
\* A used slot accounts for what it holds.
LEMMA EntriesOf ==
  ASSUME Inv, NEW s \in Used
  PROVE  Entries(s) = {Entry(s, j) : j \in Places(s)}
<1>1. CASE s \in Listeners
  <2>1. Entries(s) = {<<fd[s][0], Door(s), "in">>} /\ Places(s) = {0}
    BY <1>1 DEF Entries, Places
  <2>2. files[fd[s][0]] = Door(s)
    BY <1>1 DEF Used, Inv, Books, Held, Listening
  <2> QED BY <2>1, <2>2 DEF Entry
<1>2. CASE s \notin Listeners
  BY <1>2 DEF Entries, Places, Entry
<1> QED BY <1>1, <1>2

LEMMA NumbersOf ==
  ASSUME Inv, NEW s \in Used, NEW g \in Numbers(s)
  PROVE  \E j \in Places(s) : fd[s][j] = g
<1>1. PICK j \in Fields : fd[s][j] = g /\ g # 0
  BY DEF Numbers
<1>2. CASE s \in Listeners
  <2>1. Listening(s)
    BY <1>2 DEF Used, Inv, Books, Held
  <2> QED BY <1>1, <1>2, <2>1 DEF Listening, Places
<1>3. CASE s \notin Listeners
  BY <1>1, <1>3 DEF Places
<1> QED BY <1>2, <1>3

\* The table of connections, the open files and the interest list of epoll
\* agree, however slots and numbers of descriptors are reused, for any number
\* of slots, listeners and descriptors: a slot holds both sockets of one client,
\* no two slots share a number, and connCount counts the connections.
THEOREM BooksAgree == Spec => []Owned
<1>1. Inv => Owned
  <2> SUFFICES ASSUME Inv
               PROVE  Owned
    OBVIOUS
  <2>1. connCount = Cardinality(Used \cap Conns)
    BY DEF Inv, Books, Counted
  <2>2. \A s \in Used \cap Conns : \E k \in Clients : Holds(s, k) /\ p[s] = door[k]
    BY DEF Inv, Books, Held, Serving, Used
  <2>3. \A s \in Used, t \in Used : s # t => Numbers(s) \cap Numbers(t) = {}
    BY NumbersOf DEF Inv, Books, Apart
  <2>4. watched = UNION {Entries(s) : s \in Used}
    BY EntriesOf DEF Inv, Books, Watched
  <2> QED BY <2>1, <2>2, <2>3, <2>4 DEF Owned
<1> QED BY <1>1, InvHolds, PTL

\* Nothing stays open that no slot knows but the sockets of addresses that
\* refused (CreateClientSocket() does not close them).
THEOREM NothingLeaks == Spec => []NoLeak
<1>1. Inv => NoLeak
  BY DEF Inv, Books
<1> QED BY <1>1, InvHolds, PTL

\* The process never ends in DeleteFd() or FindProxy(), nor in accept() for want
\* of a client.
THEOREM LookupsSucceed == Spec => []NeverLost
<1>1. Inv => NeverLost
  BY DEF Inv
<1> QED BY <1>1, InvHolds, PTL

-----------------------------------------------------------------------------
\* What the sessions rest on besides: every client has its turn once, a slot
\* that is not in use has no flag, and what was reported is forgotten.
Fresh ==
  /\ met \subseteq Clients /\ \A k \in met : door[k] # None
  /\ \A l \in Listeners : waiting[l] \cap met = {}
  /\ \A s \in Conns : \A k \in Clients : Holds(s, k) => k \in met
  /\ \A s \in Conns, t \in Conns : \A k \in Clients : Holds(s, k) /\ Holds(t, k) => s = t
  /\ \A s \in Conns : p[s] = None => ready[s] = {}
  /\ pc \in {"start", "wait", "relay"} => reported = {}

\* An event of epoll names a descriptor in use, and SetReady() finds its place.
LEMMA EventNames ==
  ASSUME Inv, NEW w \in watched, NEW s \in Slots, NEW j \in Fields, fd[s][j] = w[1]
  PROVE  s \in Used /\ j \in Places(s) /\ w = Entry(s, j)
<1>1. PICK t \in Used : \E m \in Places(t) : w = Entry(t, m)
  BY DEF Inv, Books, Watched
<1>2. PICK m \in Places(t) : w = Entry(t, m)
  BY <1>1
<1>3. fd[s][j] = fd[t][m] /\ fd[s][j] # 0
  BY <1>2, HeldOpen DEF Inv, Books, Entry
<1>4. p[s] # None
  BY <1>3 DEF Inv, Books, Held
<1>5. s \in Used
  BY <1>4 DEF Used
<1>6. j \in Places(s)
  BY <1>3, <1>4, Sizes DEF Inv, Books, Held, Listening, Places
<1> QED BY <1>2, <1>3, <1>5, <1>6 DEF Inv, Books, Apart

LEMMA EventFound ==
  ASSUME Inv, NEW s \in Used, NEW j \in Places(s)
  PROVE  Found(fd[s][j], s, j)
<1>1. fd[s][j] # 0 /\ j \in Fields /\ s \in Slots
  BY HeldOpen DEF Inv, Books, Used
<1>2. ASSUME NEW t \in Slots, NEW m \in Fields, fd[t][m] = fd[s][j]
      PROVE  t = s /\ m = j
  <2>1. p[t] # None
    BY <1>1, <1>2 DEF Inv, Books, Held
  <2>2. t \in Used /\ m \in Places(t)
    BY <1>1, <1>2, <2>1, Sizes DEF Used, Inv, Books, Held, Listening, Places
  <2> QED BY <1>2, <2>2 DEF Inv, Books, Apart
<1>3. \A m \in 0 .. j - 1 : m \in Fields /\ m # j
  BY <1>1 DEF Fields
<1>4. \A t \in 0 .. s - 1 : t \in Slots /\ t # s
  BY <1>1, Sizes DEF Slots
<1> QED BY <1>1, <1>2, <1>3, <1>4 DEF Found

\* Which client a slot holds depends on the table and the open files.
LEMMA SameHolds ==
  ASSUME UNCHANGED <<fd, p, files>>
  PROVE  \A s, k : (Holds(s, k)' <=> Holds(s, k))
BY DEF Holds

LEMMA BystanderFresh ==
  ASSUME Inv, Fresh, Bystander
  PROVE  Fresh'
<1> USE Sizes, BystanderKeeps, SameHolds DEF Inv, Types, Loops, Backlogs, Fresh, loop,
    table, kernel, outside, history
<1>1. CASE \E k \in Clients, l \in Listeners : Knock(k, l)
  BY <1>1 DEF Knock
<1>2. CASE ListenerFails
  BY <1>2 DEF ListenerFails, Exit
<1>3. CASE StartDone
  BY <1>3 DEF StartDone
<1>4. CASE \E E \in SUBSET Reportable : EpollWait(E)
  <2>1. PICK E \in SUBSET Reportable : EpollWait(E)
    BY <1>4
  <2>2. /\ ready' = [s \in Slots |->
             ready[s] \cup {j \in Fields : \E w \in E : Found(w[1], s, j)}]
        /\ pc' = "accept" /\ UNCHANGED <<fd, p, files, met, waiting, door>>
    BY <2>1 DEF EpollWait
  <2>3. ASSUME NEW s \in Conns, p'[s] = None
        PROVE  ready'[s] = {}
    <3>1. s \in Slots /\ p[s] = None /\ ready[s] = {}
      BY <2>2, <2>3
    <3>2. ASSUME NEW j \in Fields, NEW w \in E, Found(w[1], s, j)
          PROVE  FALSE
      <4>1. w \in watched /\ fd[s][j] = w[1]
        BY <3>2 DEF Found, Reportable
      <4>2. s \in Used
        BY <3>1, <4>1, EventNames
      <4> QED BY <3>1, <4>2 DEF Used
    <3> QED BY <2>2, <3>1, <3>2
  <2> QED BY <2>2, <2>3
<1>5. CASE AcceptSkip
  BY <1>5 DEF AcceptSkip
<1>6. CASE AcceptDone
  BY <1>6 DEF AcceptDone
<1>7. CASE \E k \in Clients : DropConnection(k)
  <2>1. PICK k \in Clients : DropConnection(k)
    BY <1>7
  <2>2. PICK l \in Listeners : l = i
    BY <2>1 DEF DropConnection, Accepting, Listeners
  <2>3. /\ pc = "accept" /\ pc' = pc /\ k \in waiting[l] /\ ready' = [ready EXCEPT ![l] = @ \ {0}]
        /\ waiting' = [waiting EXCEPT ![l] = @ \ {k}] /\ met' = met \cup {k}
        /\ UNCHANGED <<fd, p, files, door, reported>>
    BY <2>1, <2>2 DEF DropConnection, Accepted, FlagCleared, Accepting
  <2>4. door[k] = l /\ l # None
    BY <2>3
  <2>5. ASSUME NEW m \in Listeners
        PROVE  waiting'[m] \cap met' = {}
    <3>1. waiting'[m] \subseteq waiting[m] /\ (m = l => k \notin waiting'[m])
      BY <2>3
    <3>2. k \notin waiting'[m]
      BY <2>4, <3>1
    <3> QED BY <2>3, <3>1, <3>2
  <2>6. \A s \in Conns : ready'[s] = ready[s]
    BY <2>3
  <2> QED BY <2>3, <2>4, <2>5, <2>6
<1>8. CASE AddFails
  BY <1>8 DEF AddFails, Exit, Accepting
<1>9. CASE RelayDone
  BY <1>9 DEF RelayDone
<1>10. CASE VisitEmpty
  BY <1>10 DEF VisitEmpty, Visiting
<1>11. CASE VisitIdle
  BY <1>11 DEF VisitIdle, Visited, Visiting
<1>12. CASE \E j \in Fields : SendRecvBlocks(j)
  BY <1>12 DEF SendRecvBlocks, Visited, Visiting, Chosen
<1> QED BY <1>1, <1>2, <1>3, <1>4, <1>5, <1>6, <1>7, <1>8, <1>9, <1>10, <1>11, <1>12 DEF
    Bystander
LEMMA AddListenerFresh ==
  ASSUME Inv, Fresh, AddListener
  PROVE  Fresh'
<1>1. PICK f \in Nth(0) :
        files' = [files EXCEPT ![f] = Door(i)] /\ fd' = [fd EXCEPT ![i][0] = f]
  BY DEF AddListener
<1>2. /\ pc = "start" /\ pc' = pc /\ p' = [p EXCEPT ![i] = i] /\ i \notin Conns
      /\ UNCHANGED <<ready, waiting, door, met, reported>>
  BY Sizes DEF AddListener, Inv, Types, Listeners, Conns, outside, history
<1>3. f \in Fds /\ files[f] = Free
  BY <1>1, NthFree
<1>4. \A s \in Conns : s \in Slots /\ fd'[s] = fd[s] /\ p'[s] = p[s]
  BY <1>1, <1>2, Sizes DEF Inv, Types
<1>5. ASSUME NEW s \in Conns, NEW k \in Clients, Holds(s, k)'
      PROVE  Holds(s, k)
  <2>1. p[s] # None /\ s \in Used /\ Places(s) = Fields
    BY <1>4, <1>5, Sizes DEF Holds, Used, Places
  <2>2. \A j \in Fields : fd[s][j] # f /\ fd[s][j] \in Fds
    BY <1>3, <2>1, HeldOpen DEF Inv, Books
  <2>3. \A j \in Fields : files'[fd[s][j]] = files[fd[s][j]]
    BY <1>1, <2>2 DEF Inv, Types
  <2> QED BY <1>4, <1>5, <2>3 DEF Holds
<1>6. \A s \in Conns : p'[s] = None => ready'[s] = {}
  BY <1>2, <1>4 DEF Fresh
<1> QED BY <1>2, <1>5, <1>6 DEF Fresh

LEMMA AddRunsOutFresh ==
  ASSUME Inv, Fresh, NEW n \in Nat, AddRunsOut(n)
  PROVE  Fresh'
<1>1. /\ files' = Refusing(n) /\ pc' = "exited"
      /\ UNCHANGED <<fd, ready, p, waiting, door, met, reported>>
  BY DEF AddRunsOut, table, outside
<1>2. \A f \in Fds : files'[f] = files[f] \/ (files[f] = Free /\ files'[f] = Refused)
  BY <1>1, RefusingOnly DEF Inv
<1>3. ASSUME NEW s \in Conns, NEW k \in Clients, Holds(s, k)'
      PROVE  Holds(s, k)
  <2>1. p[s] # None /\ s \in Used /\ Places(s) = Fields
    BY <1>1, <1>3, Sizes DEF Holds, Used, Places
  <2>2. \A j \in Fields : files'[fd[s][j]] = files[fd[s][j]]
    BY <1>2, <2>1, HeldOpen DEF Inv, Books
  <2> QED BY <1>1, <1>3, <2>2 DEF Holds
<1> QED BY <1>1, <1>3 DEF Fresh

\* A new client gets one slot and no other's changes.
LEMMA AddConnectionHolds ==
  ASSUME Inv, Fresh, NEW k \in Clients, NEW n \in 0 .. MaxRefused, AddConnection(k, n)
  PROVE  \E l \in Listeners, e \in Conns :
           /\ l = i /\ k \in waiting[l] /\ p[e] = None
           /\ p' = [p EXCEPT ![e] = l]
           /\ \A s \in Conns : \A h \in Clients :
                Holds(s, h)' <=> (IF s = e THEN h = k ELSE Holds(s, h))
           /\ \A s \in Conns : p[s] # None => files'[fd'[s][0]] = files[fd[s][0]]
           /\ files'[fd'[e][0]] = Local(k)
<1>1. PICK l \in Listeners : l = i
  BY Sizes DEF AddConnection, Accepting, Inv, Types, Listeners
<1>2. pc = "accept" /\ k \in waiting[l] /\ n \in Nat
  BY <1>1, Sizes DEF AddConnection, Accepting
<1>3. FindProxy(fd[i][0]) = {l}
  BY <1>1, <1>2, FindsProxy
<1>4. PICK a \in Nth(0), b \in Nth(n + 1), c \in Nth(n + 2), d \in Nth(n + 3) :
        \E e \in FindEmpty, q \in FindProxy(fd[i][0]) :
          /\ files' = [f \in Fds |->
               CASE f \in {a, c} -> Local(k)
                 [] f \in {b, d} -> Remote(k)
                 [] OTHER -> Refusing(n)[f]]
          /\ watched' = watched \cup {<<a, Local(k), "in">>, <<b, Remote(k), "in">>,
                                      <<c, Local(k), "out">>, <<d, Remote(k), "out">>}
          /\ fd' = [fd EXCEPT ![e] = FieldsOf(a, b, c, d)]
          /\ p' = [p EXCEPT ![e] = q]
  BY DEF AddConnection
<1>5. PICK e \in FindEmpty, q \in FindProxy(fd[i][0]) :
        /\ files' = [f \in Fds |->
             CASE f \in {a, c} -> Local(k)
               [] f \in {b, d} -> Remote(k)
               [] OTHER -> Refusing(n)[f]]
        /\ watched' = watched \cup {<<a, Local(k), "in">>, <<b, Remote(k), "in">>,
                                    <<c, Local(k), "out">>, <<d, Remote(k), "out">>}
        /\ fd' = [fd EXCEPT ![e] = FieldsOf(a, b, c, d)]
        /\ p' = [p EXCEPT ![e] = q]
  BY <1>4
<1>6. q = l
  BY <1>3
<1>7. e \in Conns /\ e \in Slots /\ p[e] = None
  BY Sizes DEF FindEmpty
<1>8. /\ {a, b, c, d} \subseteq Fds
      /\ files[a] = Free /\ files[b] = Free /\ files[c] = Free /\ files[d] = Free
      /\ a # b /\ a # c /\ a # d /\ b # c /\ b # d /\ c # d
  <2>1. 0 # n + 1 /\ 0 # n + 2 /\ 0 # n + 3 /\ n + 1 # n + 2 /\ n + 1 # n + 3 /\ n + 2 # n + 3
    BY <1>2
  <2>2. a # b /\ a # c /\ a # d /\ b # c /\ b # d /\ c # d
    BY <2>1, NthDiffer
  <2> QED BY <2>2, NthFree
<1>9. files'[a] = Local(k) /\ files'[c] = Local(k) /\ files'[b] = Remote(k) /\ files'[d] = Remote(k)
  BY <1>5, <1>8
<1>10. \A g \in Fds : files[g] # Free => files'[g] = files[g]
  <2>1. \A g \in Fds \ {a, b, c, d} : files'[g] = Refusing(n)[g]
    BY <1>5
  <2>2. \A g \in Fds : Refusing(n)[g] = files[g] \/ (files[g] = Free /\ Refusing(n)[g] = Refused)
    BY RefusingOnly DEF Inv
  <2> QED BY <1>8, <2>1, <2>2
<1>11. fd'[e][0] = a /\ fd'[e][1] = c /\ fd'[e][2] = b /\ fd'[e][3] = d
  <2>1. fd'[e] = FieldsOf(a, b, c, d)
    BY <1>5, <1>7 DEF Inv, Types
  <2> QED BY <2>1 DEF FieldsOf, Fields
<1>12. \A s \in Slots : s # e => fd'[s] = fd[s] /\ p'[s] = p[s]
  BY <1>5, <1>7 DEF Inv, Types
<1>13. ASSUME NEW s \in Conns, s # e, p[s] # None
       PROVE  \A j \in Fields : files'[fd'[s][j]] = files[fd[s][j]]
  <2>1. s \in Used /\ Places(s) = Fields /\ fd'[s] = fd[s]
    BY <1>12, <1>13, Sizes DEF Used, Places
  <2>2. \A j \in Fields : fd[s][j] \in Fds /\ files[fd[s][j]] # Free
    BY <2>1, HeldOpen DEF Inv, Books
  <2> QED BY <1>10, <2>1, <2>2
<1>14. \A h \in Clients : Holds(e, h)' <=> h = k
  <2>1. \A j \in Fields : files'[fd'[e][j]] = IF j < 2 THEN Local(k) ELSE Remote(k)
    BY <1>9, <1>11 DEF Fields
  <2>2. p'[e] # None /\ 0 \in Fields
    BY <1>5, <1>6, <1>7, Sizes DEF Inv, Types, Fields
  <2>3. Holds(e, k)'
    BY <1>7, <2>1, <2>2 DEF Holds
  <2>4. ASSUME NEW h \in Clients, Holds(e, h)'
        PROVE  h = k
    <3>1. files'[fd'[e][0]] = Local(h)
      BY <2>2, <2>4 DEF Holds
    <3> QED BY <1>9, <1>11, <3>1, FilesDiffer
  <2> QED BY <2>3, <2>4
<1>15. \A s \in Conns : \A h \in Clients : s # e => (Holds(s, h)' <=> Holds(s, h))
  <2> SUFFICES ASSUME NEW s \in Conns, NEW h \in Clients, s # e
               PROVE  Holds(s, h)' <=> Holds(s, h)
    OBVIOUS
  <2>1. p'[s] = p[s]
    BY <1>12, Sizes
  <2>2. CASE p[s] = None
    BY <2>1, <2>2 DEF Holds
  <2>3. CASE p[s] # None
    BY <1>13, <2>1, <2>3 DEF Holds
  <2> QED BY <2>2, <2>3
<1>16. \A s \in Conns : p[s] # None => files'[fd'[s][0]] = files[fd[s][0]]
  BY <1>7, <1>13 DEF Fields
<1>17. p' = [p EXCEPT ![e] = l]
  BY <1>5, <1>6
<1>18. files'[fd'[e][0]] = Local(k)
  BY <1>9, <1>11
<1>19. \A s \in Conns : \A h \in Clients :
         Holds(s, h)' <=> (IF s = e THEN h = k ELSE Holds(s, h))
  BY <1>14, <1>15
<1>20. l = i /\ k \in waiting[l] /\ p[e] = None
  BY <1>1, <1>2, <1>7
<1>21. e \in Conns
  BY <1>7
<1> WITNESS l \in Listeners, e \in Conns
<1> QED BY <1>16, <1>17, <1>18, <1>19, <1>20

LEMMA AddConnectionFresh ==
  ASSUME Inv, Fresh, NEW k \in Clients, NEW n \in 0 .. MaxRefused, AddConnection(k, n)
  PROVE  Fresh'
<1>1. PICK l \in Listeners, e \in Conns :
           /\ l = i /\ k \in waiting[l] /\ p[e] = None
           /\ p' = [p EXCEPT ![e] = l]
           /\ \A s \in Conns : \A h \in Clients :
                Holds(s, h)' <=> (IF s = e THEN h = k ELSE Holds(s, h))
  BY AddConnectionHolds
<1>2. /\ pc = "accept" /\ pc' = pc /\ ready' = [ready EXCEPT ![l] = @ \ {0}]
      /\ waiting' = [waiting EXCEPT ![l] = @ \ {k}] /\ met' = met \cup {k}
      /\ UNCHANGED <<door, reported>>
  BY <1>1 DEF AddConnection, Accepted, FlagCleared, Accepting
<1>3. door[k] = l /\ l # None /\ k \notin met
  BY <1>1, Sizes DEF Inv, Backlogs, Fresh
<1>4. met' \subseteq Clients /\ \A h \in met' : door'[h] # None
  BY <1>2, <1>3 DEF Fresh
<1>5. \A m \in Listeners : waiting'[m] \cap met' = {}
  <2> SUFFICES ASSUME NEW m \in Listeners, NEW h \in waiting'[m], h \in met'
               PROVE  FALSE
    OBVIOUS
  <2>1. h \in waiting[m] /\ (m = l => h # k)
    BY <1>2 DEF Inv, Types
  <2>2. h # k
    BY <1>3, <2>1 DEF Inv, Backlogs
  <2> QED BY <1>2, <2>1, <2>2 DEF Fresh
<1>6. \A s \in Conns : \A h \in Clients : Holds(s, h)' => h \in met'
  BY <1>1, <1>2 DEF Fresh
<1>7. \A s \in Conns, t \in Conns : \A h \in Clients : Holds(s, h)' /\ Holds(t, h)' => s = t
  BY <1>1, <1>3 DEF Fresh
<1>8. \A s \in Conns : p'[s] = None => ready'[s] = {}
  <2>1. \A s \in Conns : s # l /\ s \in Slots
    BY Sizes
  <2> QED BY <1>1, <1>2, <1>3, <2>1 DEF Fresh, Inv, Types
<1> QED BY <1>2, <1>4, <1>5, <1>6, <1>7, <1>8 DEF Fresh

LEMMA CloseConnectionHolds ==
  ASSUME Inv, CloseConnection
  PROVE  \E e \in Conns :
           /\ e = i /\ p[e] # None /\ p' = [p EXCEPT ![e] = None]
           /\ ready' = [ready EXCEPT ![e] = {}]
           /\ UNCHANGED <<pc, waiting, door, met, reported>>
           /\ \A s \in Conns \ {e} : p[s] # None =>
                \A j \in Fields : files'[fd'[s][j]] = files[fd[s][j]]
<1>1. PICK e \in Conns : e = i
  BY Sizes DEF CloseConnection, Closing, Visiting, Inv, Types, Loops
<1>2. e \in Slots /\ p[e] # None /\ e \in Used /\ Places(e) = Fields
  BY <1>1, Sizes DEF CloseConnection, Closing, Used, Places
<1>3. Deletable
  <2> SUFFICES ASSUME NEW j \in Fields
               PROVE  \E w \in watched : w[1] = fd[e][j]
    BY <1>1 DEF Deletable
  <2>1. Entry(e, j) \in watched
    BY <1>2 DEF Inv, Books, Watched
  <2> QED BY <2>1 DEF Entry
<1> DEFINE F == {fd[e][j] : j \in Fields}
<1>4. /\ files' = [f \in Fds |-> IF f \in F THEN Free ELSE files[f]]
      /\ fd' = [fd EXCEPT ![e] = [j \in Fields |-> 0]]
      /\ p' = [p EXCEPT ![e] = None]
      /\ ready' = [ready EXCEPT ![e] = {}]
      /\ UNCHANGED <<pc, waiting, door, met, reported>>
  BY <1>1, <1>3 DEF CloseConnection, Close, Closed, Visited, outside, history
<1>5. ASSUME NEW s \in Conns, s # e, p[s] # None
      PROVE  \A j \in Fields : files'[fd'[s][j]] = files[fd[s][j]]
  <2>1. s \in Used /\ Places(s) = Fields /\ fd'[s] = fd[s]
    BY <1>4, <1>5, Sizes DEF Used, Places, Inv, Types
  <2>2. \A j \in Fields : fd[s][j] \in Fds
    BY <2>1, HeldOpen DEF Inv, Books
  <2>3. \A j \in Fields : fd[s][j] \notin F
    BY <1>2, <1>5, <2>1 DEF Inv, Books, Apart
  <2> QED BY <1>4, <2>1, <2>2, <2>3
<1>6. \A s \in Conns \ {e} : p[s] # None =>
        \A j \in Fields : files'[fd'[s][j]] = files[fd[s][j]]
  BY <1>5
<1>7. /\ p' = [p EXCEPT ![e] = None] /\ ready' = [ready EXCEPT ![e] = {}]
      /\ UNCHANGED <<pc, waiting, door, met, reported>>
  BY <1>4
<1>8. e = i /\ p[e] # None
  BY <1>1, <1>2
<1> QED BY <1>6, <1>7, <1>8

LEMMA CloseConnectionFresh ==
  ASSUME Inv, Fresh, CloseConnection
  PROVE  Fresh'
<1>1. PICK e \in Conns :
           /\ e = i /\ p[e] # None /\ p' = [p EXCEPT ![e] = None]
           /\ ready' = [ready EXCEPT ![e] = {}]
           /\ UNCHANGED <<pc, waiting, door, met, reported>>
           /\ \A s \in Conns \ {e} : p[s] # None =>
                \A j \in Fields : files'[fd'[s][j]] = files[fd[s][j]]
  BY CloseConnectionHolds
<1>2. \A s \in Conns : s \in Slots /\ (p'[s] = IF s = e THEN None ELSE p[s])
                      /\ (ready'[s] = IF s = e THEN {} ELSE ready[s])
  BY <1>1, Sizes DEF Inv, Types
<1>3. \A s \in Conns : \A k \in Clients : Holds(s, k)' => Holds(s, k)
  BY <1>1, <1>2 DEF Holds
<1>4. \A s \in Conns : p'[s] = None => ready'[s] = {}
  BY <1>2 DEF Fresh
<1> QED BY <1>1, <1>3, <1>4 DEF Fresh

-----------------------------------------------------------------------------
\* The slot of a client.
LEMMA SlotHeld ==
  ASSUME Inv, NEW k \in Clients, NEW s \in SlotOf(k)
  PROVE  s \in Used /\ s \in Conns /\ Places(s) = Fields /\ Holds(s, k)
<1>1. s \in Conns /\ p[s] # None /\ files[fd[s][0]] = Local(k) /\ s \in Used /\ Places(s) = Fields
  BY Sizes DEF SlotOf, Used, Places
<1>2. PICK h \in Clients : Holds(s, h)
  BY <1>1 DEF Inv, Books, Held, Serving
<1>3. files[fd[s][0]] = Local(h)
  BY <1>2 DEF Holds, Fields
<1> QED BY <1>1, <1>2, <1>3, FilesDiffer

LEMMA HeldSlot ==
  ASSUME NEW k \in Clients, NEW s \in Conns, Holds(s, k)
  PROVE  s \in SlotOf(k)
BY DEF Holds, SlotOf, Fields

LEMMA OneSlot ==
  ASSUME Inv, Fresh, NEW k \in Clients, NEW s \in SlotOf(k)
  PROVE  /\ SlotOf(k) = {s} /\ k \in met
         /\ StageOf[k] = "live" /\ HostOf[k] = p[s] /\ NotedOf[k] = ready[s]
<1>1. SlotOf(k) = {s} /\ k \in met
  BY SlotHeld DEF Fresh
<1>2. (CHOOSE t \in SlotOf(k) : TRUE) = s
  <2>1. (CHOOSE t \in SlotOf(k) : TRUE) \in SlotOf(k)
    BY Zenon
  <2> QED BY <1>1, <2>1
<1> QED BY <1>1, <1>2 DEF StageOf, HostOf, NotedOf

LEMMA NoSlot ==
  ASSUME NEW k \in Clients, SlotOf(k) = {}
  PROVE  /\ StageOf[k] = (IF k \in met THEN "over" ELSE "new")
         /\ HostOf[k] = None /\ NotedOf[k] = {}
BY DEF StageOf, HostOf, NotedOf

\* The session of each client is as it was when its slot is.
SameFor(k) ==
  /\ SlotOf(k)' = SlotOf(k) /\ (k \in met' <=> k \in met)
  /\ \A s \in SlotOf(k) : p'[s] = p[s] /\ ready'[s] = ready[s]

LEMMA SameSession ==
  ASSUME Inv, Fresh, Inv', Fresh', NEW k \in Clients, SameFor(k)
  PROVE  StageOf'[k] = StageOf[k] /\ HostOf'[k] = HostOf[k] /\ NotedOf'[k] = NotedOf[k]
<1>1. CASE SlotOf(k) = {}
  BY <1>1 DEF SameFor, StageOf, HostOf, NotedOf
<1>2. CASE SlotOf(k) # {}
  <2>1. PICK s \in SlotOf(k) : TRUE
    BY <1>2
  <2>2. SlotOf(k) = {s} /\ HostOf[k] = p[s]
    BY OneSlot
  <2>3. HostOf'[k] = p'[CHOOSE t \in {s} : TRUE]
    BY <2>2 DEF SameFor, HostOf
  <2>4. (CHOOSE t \in {s} : TRUE) = s
    <3>1. (CHOOSE t \in {s} : TRUE) \in {s}
      BY Zenon
    <3> QED BY <3>1
  <2>5. HostOf'[k] = HostOf[k]
    BY <2>1, <2>2, <2>3, <2>4 DEF SameFor
  <2> QED BY <2>2, <2>5 DEF SameFor, StageOf, NotedOf
<1> QED BY <1>1, <1>2

LEMMA SameSessions ==
  ASSUME Inv, Fresh, Inv', Fresh', \A k \in Clients : SameFor(k)
  PROVE  UNCHANGED <<StageOf, HostOf, NotedOf>>
<1>1. \A k \in Clients :
        StageOf'[k] = StageOf[k] /\ HostOf'[k] = HostOf[k] /\ NotedOf'[k] = NotedOf[k]
  BY SameSession
<1>2. StageOf' = [k \in Clients |-> StageOf'[k]] /\ StageOf = [k \in Clients |-> StageOf[k]]
  BY DEF StageOf
<1>3. HostOf' = [k \in Clients |-> HostOf'[k]] /\ HostOf = [k \in Clients |-> HostOf[k]]
  BY DEF HostOf
<1>4. NotedOf' = [k \in Clients |-> NotedOf'[k]] /\ NotedOf = [k \in Clients |-> NotedOf[k]]
  BY DEF NotedOf
<1> QED BY <1>1, <1>2, <1>3, <1>4

LEMMA OneSlotNext ==
  ASSUME NEW k \in Clients, NEW s, SlotOf(k)' = {s}, k \in met'
  PROVE  StageOf'[k] = "live" /\ HostOf'[k] = p'[s] /\ NotedOf'[k] = ready'[s]
<1>1. (CHOOSE t \in {s} : TRUE) = s
  <2>1. (CHOOSE t \in {s} : TRUE) \in {s}
    BY Zenon
  <2> QED BY <2>1
<1>2. HostOf'[k] = p'[CHOOSE t \in {s} : TRUE]
  BY DEF HostOf
<1> QED BY <1>1, <1>2 DEF StageOf, NotedOf

LEMMA NoSlotNext ==
  ASSUME NEW k \in Clients, SlotOf(k)' = {}
  PROVE  /\ StageOf'[k] = (IF k \in met' THEN "over" ELSE "new")
         /\ HostOf'[k] = None /\ NotedOf'[k] = {}
BY DEF StageOf, HostOf, NotedOf

LEMMA SameTable ==
  ASSUME UNCHANGED <<fd, p, files, met>>, \A s \in Conns : ready'[s] = ready[s]
  PROVE  \A k \in Clients : SameFor(k)
BY DEF SameFor, SlotOf

\* A function over the clients that differs at one of them.
LEMMA ChangedAt ==
  ASSUME NEW G, NEW H, NEW k \in Clients, NEW v,
         G = [h \in Clients |-> G[h]], H = [h \in Clients |-> H[h]],
         \A h \in Clients : G[h] = IF h = k THEN v ELSE H[h]
  PROVE  G = [H EXCEPT ![k] = v]
OBVIOUS

LEMMA Functions ==
  /\ StageOf = [h \in Clients |-> StageOf[h]] /\ StageOf' = [h \in Clients |-> StageOf'[h]]
  /\ HostOf = [h \in Clients |-> HostOf[h]] /\ HostOf' = [h \in Clients |-> HostOf'[h]]
  /\ NotedOf = [h \in Clients |-> NotedOf[h]] /\ NotedOf' = [h \in Clients |-> NotedOf'[h]]
BY DEF StageOf, HostOf, NotedOf

Before == Inv /\ Fresh /\ Inv' /\ Fresh'

\* A step that leaves the table, the flags of connections and the clients.
LEMMA QuietSteps ==
  ASSUME Before, UNCHANGED <<fd, p, files, met>>, \A s \in Conns : ready'[s] = ready[s]
  PROVE  UNCHANGED <<StageOf, HostOf, NotedOf>>
BY SameTable, SameSessions DEF Before

LEMMA Stutters ==
  ASSUME Before, StartDone \/ AcceptSkip \/ RelayDone \/ VisitEmpty \/ VisitIdle
  PROVE  UNCHANGED Session!vars
<1>1. UNCHANGED <<fd, p, files, met, ready, door, reported>> /\ pc # "exited" /\ pc' # "exited"
  BY DEF StartDone, AcceptSkip, RelayDone, VisitEmpty, VisitIdle, Visiting, Visited,
      table,
    kernel, outside, history
<1>2. UNCHANGED <<StageOf, HostOf, NotedOf>>
  BY <1>1, QuietSteps
<1> QED BY <1>1, <1>2 DEF Session!vars

LEMMA AcceptDoneStep ==
  ASSUME Before, AcceptDone
  PROVE  Session!Forget
<1>1. /\ UNCHANGED <<fd, p, files, met, ready, door>> /\ reported' = {}
      /\ pc # "exited" /\ pc' # "exited"
  BY DEF AcceptDone, table, kernel, outside
<1>2. UNCHANGED <<StageOf, HostOf, NotedOf>>
  BY <1>1, QuietSteps
<1> QED BY <1>1, <1>2 DEF Session!Forget

LEMMA ListenerStep ==
  ASSUME Before, AddListener
  PROVE  UNCHANGED Session!vars
<1>1. PICK f \in Nth(0) :
        files' = [files EXCEPT ![f] = Door(i)] /\ fd' = [fd EXCEPT ![i][0] = f]
  BY DEF AddListener
<1>2. /\ pc = "start" /\ pc' = pc /\ p' = [p EXCEPT ![i] = i] /\ i \in Listeners
      /\ UNCHANGED <<ready, door, met, reported>>
  BY Sizes DEF AddListener, Before, Inv, Types, Listeners, outside, history
<1>3. f \in Fds /\ files[f] = Free
  BY <1>1, NthFree
<1>4. \A s \in Conns : s \in Slots /\ s # i /\ fd'[s] = fd[s] /\ p'[s] = p[s]
  BY <1>1, <1>2, Sizes DEF Before, Inv, Types
<1>5. \A s \in Conns : p[s] # None => files'[fd'[s][0]] = files[fd[s][0]]
  <2> SUFFICES ASSUME NEW s \in Conns, p[s] # None
               PROVE  files'[fd'[s][0]] = files[fd[s][0]]
    OBVIOUS
  <2>1. s \in Used /\ 0 \in Places(s)
    BY Sizes DEF Used, Places, Fields
  <2>2. fd[s][0] \in Fds /\ fd[s][0] # f
    BY <1>3, <2>1, HeldOpen DEF Before, Inv, Books
  <2> QED BY <1>1, <1>4, <2>2 DEF Before, Inv, Types
<1>6. \A k \in Clients : SameFor(k)
  BY <1>2, <1>4, <1>5 DEF SameFor, SlotOf
<1>7. UNCHANGED <<StageOf, HostOf, NotedOf>>
  BY <1>6, SameSessions DEF Before
<1> QED BY <1>2, <1>7 DEF Session!vars

\* Every end of the process.
LEMMA Stops ==
  ASSUME Before, ListenerFails \/ AddFails
  PROVE  Session!Stop
<1>1. UNCHANGED <<fd, p, files, met, ready, door, reported>> /\ pc # "exited" /\ pc' = "exited"
  BY DEF ListenerFails, AddFails, Accepting, Exit, table, kernel, outside
<1>2. UNCHANGED <<StageOf, HostOf, NotedOf>>
  BY <1>1, QuietSteps
<1> QED BY <1>1, <1>2 DEF Session!Stop

LEMMA RunsOutStep ==
  ASSUME Before, NEW n \in Nat, AddRunsOut(n)
  PROVE  Session!Stop
<1>1. /\ files' = Refusing(n) /\ pc # "exited" /\ pc' = "exited"
      /\ UNCHANGED <<fd, ready, p, door, met, reported>>
  BY DEF AddRunsOut, Accepting, table, outside
<1>2. \A f \in Fds : files[f] # Free => files'[f] = files[f]
  BY <1>1, RefusingOnly DEF Before, Inv
<1>3. \A s \in Conns : p[s] # None => files'[fd[s][0]] = files[fd[s][0]]
  <2> SUFFICES ASSUME NEW s \in Conns, p[s] # None
               PROVE  files'[fd[s][0]] = files[fd[s][0]]
    OBVIOUS
  <2>1. s \in Used /\ 0 \in Places(s)
    BY Sizes DEF Used, Places, Fields
  <2> QED BY <1>2, <2>1, HeldOpen DEF Before, Inv, Books
<1>4. \A k \in Clients : SameFor(k)
  BY <1>1, <1>3 DEF SameFor, SlotOf
<1>5. UNCHANGED <<StageOf, HostOf, NotedOf>>
  BY <1>4, SameSessions DEF Before
<1> QED BY <1>1, <1>5 DEF Session!Stop

LEMMA KnockStep ==
  ASSUME Before, NEW k \in Clients, NEW l \in Listeners, Knock(k, l)
  PROVE  Session!Come(k, l)
<1>1. /\ UNCHANGED <<pc, fd, p, files, met, ready, reported>> /\ pc # "exited"
      /\ door[k] = None /\ door' = [door EXCEPT ![k] = l]
  BY DEF Knock, loop, table, kernel, history
<1>2. UNCHANGED <<StageOf, HostOf, NotedOf>>
  BY <1>1, QuietSteps
<1> QED BY <1>1, <1>2 DEF Session!Come

LEMMA DropStep ==
  ASSUME Before, NEW k \in Clients, DropConnection(k)
  PROVE  Session!Refuse(k)
<1>1. PICK l \in Listeners : l = i
  BY Sizes DEF DropConnection, Accepting, Before, Inv, Types, Listeners
<1>2. /\ pc = "accept" /\ pc' = pc /\ k \in waiting[l] /\ ready' = [ready EXCEPT ![l] = @ \ {0}]
      /\ met' = met \cup {k} /\ UNCHANGED <<fd, p, files, door, reported>>
  BY <1>1 DEF DropConnection, Accepted, FlagCleared, Accepting, kernel
<1>3. door[k] = l /\ k \notin met
  BY <1>2 DEF Before, Inv, Backlogs, Fresh
<1>4. SlotOf(k) = {}
  BY <1>3, SlotHeld DEF Before, Fresh
<1>5. \A h \in Clients : SlotOf(h)' = SlotOf(h)
  BY <1>2 DEF SlotOf
<1>6. \A s \in Conns : ready'[s] = ready[s]
  BY <1>2, Sizes DEF Before, Inv, Types
<1>7. \A h \in Clients : h # k => SameFor(h)
  BY <1>2, <1>5, <1>6 DEF SameFor, SlotOf
<1>8. \A h \in Clients : h # k =>
        StageOf'[h] = StageOf[h] /\ HostOf'[h] = HostOf[h] /\ NotedOf'[h] = NotedOf[h]
  BY <1>7, SameSession DEF Before
<1>9. /\ StageOf[k] = "new" /\ HostOf[k] = None /\ NotedOf[k] = {}
      /\ StageOf'[k] = "over" /\ HostOf'[k] = None /\ NotedOf'[k] = {}
  BY <1>2, <1>3, <1>4, <1>5, NoSlot, NoSlotNext
<1>10. StageOf' = [StageOf EXCEPT ![k] = "over"]
  BY <1>8, <1>9, Functions, ChangedAt
<1>11. HostOf' = HostOf /\ NotedOf' = NotedOf
  BY <1>8, <1>9, Functions
<1> QED BY <1>2, <1>3, <1>9, <1>10, <1>11 DEF Session!Refuse

LEMMA OpenStep ==
  ASSUME Before, NEW k \in Clients, NEW n \in 0 .. MaxRefused, AddConnection(k, n)
  PROVE  Session!Open(k)
<1>1. PICK l \in Listeners, e \in Conns :
        /\ l = i /\ k \in waiting[l] /\ p[e] = None
        /\ p' = [p EXCEPT ![e] = l]
        /\ \A s \in Conns : p[s] # None => files'[fd'[s][0]] = files[fd[s][0]]
        /\ files'[fd'[e][0]] = Local(k)
  BY AddConnectionHolds DEF Before
<1>2. /\ pc = "accept" /\ pc' = pc /\ ready' = [ready EXCEPT ![l] = @ \ {0}]
      /\ met' = met \cup {k} /\ UNCHANGED <<door, reported>>
  BY <1>1 DEF AddConnection, Accepted, FlagCleared, Accepting
<1>3. door[k] = l /\ k \notin met /\ l # None /\ e \in Slots /\ e # l
  BY <1>1, Sizes DEF Before, Inv, Backlogs, Fresh
<1>4. SlotOf(k) = {}
  BY <1>3, SlotHeld DEF Before, Fresh
<1>5. \A s \in Conns : ready'[s] = ready[s] /\ p'[s] = IF s = e THEN l ELSE p[s]
  BY <1>1, <1>2, Sizes DEF Before, Inv, Types
<1>6. SlotOf(k)' = {e}
  BY <1>1, <1>3, <1>4, <1>5 DEF SlotOf
<1>7. ready'[e] = {}
  BY <1>1, <1>5 DEF Before, Fresh
<1>8. \A h \in Clients : h # k => SameFor(h)
  <2> SUFFICES ASSUME NEW h \in Clients, h # k
               PROVE  SameFor(h)
    OBVIOUS
  <2>1. Local(h) # Local(k)
    BY FilesDiffer
  <2>2. SlotOf(h)' = SlotOf(h)
    BY <1>1, <1>3, <1>5, <2>1 DEF SlotOf
  <2>3. \A s \in SlotOf(h) : s \in Conns /\ s # e
    BY <1>1 DEF SlotOf
  <2> QED BY <1>2, <1>5, <2>2, <2>3 DEF SameFor
<1>9. \A h \in Clients : h # k =>
        StageOf'[h] = StageOf[h] /\ HostOf'[h] = HostOf[h] /\ NotedOf'[h] = NotedOf[h]
  BY <1>8, SameSession DEF Before
<1>10. StageOf[k] = "new" /\ HostOf[k] = None /\ NotedOf[k] = {}
  BY <1>3, <1>4, NoSlot
<1>11. StageOf'[k] = "live" /\ HostOf'[k] = l /\ NotedOf'[k] = {}
  <2>1. k \in met'
    BY <1>2
  <2>2. p'[e] = l
    BY <1>5
  <2> QED BY <1>6, <1>7, <2>1, <2>2, OneSlotNext
<1>12. StageOf' = [StageOf EXCEPT ![k] = "live"]
  BY <1>9, <1>11, Functions, ChangedAt
<1>13. HostOf' = [HostOf EXCEPT ![k] = l]
  BY <1>9, <1>11, Functions, ChangedAt
<1>14. NotedOf' = NotedOf
  BY <1>9, <1>10, <1>11, Functions
<1> QED BY <1>2, <1>3, <1>10, <1>12, <1>13, <1>14 DEF Session!Open

\* The connection that the relay loop visits is one client's.
LEMMA VisitedClient ==
  ASSUME Inv, Fresh, Visiting, p[i] # None
  PROVE  \E e \in Conns, k \in Clients : e = i /\ e \in SlotOf(k)
<1>1. PICK e \in Conns : e = i
  BY Sizes DEF Visiting, Inv, Types, Loops
<1>2. PICK k \in Clients : Holds(e, k)
  BY <1>1 DEF Inv, Books, Held, Serving
<1> QED BY <1>1, <1>2, HeldSlot

LEMMA SlotsDiffer ==
  ASSUME NEW k \in Clients, NEW h \in Clients, NEW s \in SlotOf(k), s \in SlotOf(h)
  PROVE  h = k
BY FilesDiffer DEF SlotOf

LEMMA CloseStep ==
  ASSUME Before, CloseConnection
  PROVE  \E k \in Session!Live : Session!Close(k)
<1>1. PICK e \in Conns :
           /\ e = i /\ p[e] # None /\ p' = [p EXCEPT ![e] = None]
           /\ ready' = [ready EXCEPT ![e] = {}]
           /\ UNCHANGED <<pc, waiting, door, met, reported>>
           /\ \A s \in Conns \ {e} : p[s] # None =>
                \A j \in Fields : files'[fd'[s][j]] = files[fd[s][j]]
  BY CloseConnectionHolds DEF Before
<1>2. PICK k \in Clients : e \in SlotOf(k)
  BY <1>1, VisitedClient DEF CloseConnection, Closing, Before
<1>3. /\ SlotOf(k) = {e} /\ k \in met /\ StageOf[k] = "live"
  BY <1>2, OneSlot DEF Before
<1>4. \A s \in Conns : /\ ready'[s] = IF s = e THEN {} ELSE ready[s]
                       /\ p'[s] = IF s = e THEN None ELSE p[s]
  BY <1>1, Sizes DEF Before, Inv, Types
<1>5. \A s \in Conns \ {e} : p[s] # None => files'[fd'[s][0]] = files[fd[s][0]]
  BY <1>1 DEF Fields
<1>6. \A h \in Clients : SlotOf(h)' = SlotOf(h) \ {e}
  BY <1>4, <1>5 DEF SlotOf
<1>7. \A h \in Clients : h # k => SameFor(h)
  <2> SUFFICES ASSUME NEW h \in Clients, h # k
               PROVE  SameFor(h)
    OBVIOUS
  <2>1. e \notin SlotOf(h)
    BY <1>2, SlotsDiffer
  <2>2. \A s \in SlotOf(h) : s \in Conns
    BY DEF SlotOf
  <2> QED BY <1>1, <1>4, <1>6, <2>1, <2>2 DEF SameFor
<1>8. \A h \in Clients : h # k =>
        StageOf'[h] = StageOf[h] /\ HostOf'[h] = HostOf[h] /\ NotedOf'[h] = NotedOf[h]
  BY <1>7, SameSession DEF Before
<1>9. StageOf'[k] = "over" /\ HostOf'[k] = None /\ NotedOf'[k] = {}
  <2>1. SlotOf(k)' = {} /\ k \in met'
    BY <1>1, <1>3, <1>6
  <2> QED BY <2>1, NoSlotNext
<1>10. StageOf' = [StageOf EXCEPT ![k] = "over"]
  BY <1>8, <1>9, Functions, ChangedAt
<1>11. HostOf' = [HostOf EXCEPT ![k] = None]
  BY <1>8, <1>9, Functions, ChangedAt
<1>12. NotedOf' = [NotedOf EXCEPT ![k] = {}]
  BY <1>8, <1>9, Functions, ChangedAt
<1>13. pc # "exited" /\ pc' # "exited"
  BY <1>1 DEF CloseConnection, Closing, Visiting
<1>14. k \in Session!Live
  BY <1>3 DEF Session!Live
<1>15. Session!Close(k)
  BY <1>1, <1>10, <1>11, <1>12, <1>13, <1>14 DEF Session!Close
<1> QED BY <1>14, <1>15

LEMMA RelayStep ==
  ASSUME Before, NEW j \in Fields, SendRecvBlocks(j)
  PROVE  \E k \in Session!Live : Session!DealWith(k, j)
<1>1. PICK e \in Conns, k \in Clients : e = i /\ e \in SlotOf(k)
  BY VisitedClient DEF SendRecvBlocks, Before
<1>2. /\ j \in ready[e] /\ ready' = [ready EXCEPT ![e] = @ \ {j}]
      /\ pc # "exited" /\ pc' # "exited"
      /\ UNCHANGED <<fd, p, files, met, door, reported>>
  BY <1>1 DEF SendRecvBlocks, Chosen, Visiting, Visited, kernel, outside, history
<1>3. SlotOf(k) = {e} /\ k \in met /\ StageOf[k] = "live" /\ NotedOf[k] = ready[e]
  BY <1>1, OneSlot DEF Before
<1>4. \A s \in Conns : ready'[s] = IF s = e THEN ready[e] \ {j} ELSE ready[s]
  BY <1>2, Sizes DEF Before, Inv, Types
<1>5. \A h \in Clients : SlotOf(h)' = SlotOf(h) /\ (h \in met' <=> h \in met)
  BY <1>2 DEF SlotOf
<1>6. \A h \in Clients : h # k => SameFor(h)
  <2> SUFFICES ASSUME NEW h \in Clients, h # k
               PROVE  SameFor(h)
    OBVIOUS
  <2>1. e \notin SlotOf(h)
    BY <1>1, SlotsDiffer
  <2>2. \A s \in SlotOf(h) : s \in Conns
    BY DEF SlotOf
  <2> QED BY <1>2, <1>4, <1>5, <2>1, <2>2 DEF SameFor
<1>7. \A h \in Clients : h # k =>
        StageOf'[h] = StageOf[h] /\ HostOf'[h] = HostOf[h] /\ NotedOf'[h] = NotedOf[h]
  BY <1>6, SameSession DEF Before
<1>8. StageOf'[k] = "live" /\ HostOf'[k] = p'[e] /\ NotedOf'[k] = ready'[e]
  BY <1>3, <1>5, OneSlotNext
<1>9. HostOf[k] = p[e]
  BY <1>1, OneSlot DEF Before
<1>10. NotedOf'[k] = NotedOf[k] \ {j}
  BY <1>3, <1>4, <1>8
<1>11. StageOf' = StageOf /\ HostOf' = HostOf
  BY <1>2, <1>3, <1>7, <1>8, <1>9, Functions
<1>12. NotedOf' = [NotedOf EXCEPT ![k] = @ \ {j}]
  <2>1. NotedOf' = [NotedOf EXCEPT ![k] = NotedOf[k] \ {j}]
    BY <1>7, <1>10, Functions, ChangedAt
  <2> QED BY <2>1
<1>13. k \in Session!Live
  BY <1>3 DEF Session!Live
<1>14. Session!DealWith(k, j)
  BY <1>2, <1>3, <1>11, <1>12 DEF Session!DealWith
<1> QED BY <1>13, <1>14

\* An event of a client's socket is about the place of the slot that holds it.
LEMMA EventMeans ==
  ASSUME Inv, NEW w \in watched, NEW k \in Clients, NEW j \in Fields, Meaning(w, k, j)
  PROVE  \E s \in SlotOf(k) : w = Entry(s, j)
<1>1. PICK s \in Used : \E m \in Places(s) : w = Entry(s, m)
  BY DEF Inv, Books, Watched
<1>2. PICK m \in Places(s) : w = Entry(s, m)
  BY <1>1
<1>3. w[2] = files[fd[s][m]] /\ w[3] = IF m \in {0, 2} THEN "in" ELSE "out"
  BY <1>2 DEF Entry
<1>4. w[2] \in {Local(k), Remote(k)}
  BY DEF Meaning
<1>5. s \in Conns
  <2>1. ASSUME s \in Listeners
        PROVE  FALSE
    <3>1. w[2] = Door(s)
      BY <1>3, <2>1 DEF Used, Places, Inv, Books, Held, Listening
    <3> QED BY <1>4, <2>1, <3>1, FilesDiffer
  <2> QED BY <2>1, Sizes DEF Used
<1>6. PICK h \in Clients : Holds(s, h)
  BY <1>5 DEF Used, Inv, Books, Held, Serving
<1>7. m \in Fields /\ w[2] = IF m < 2 THEN Local(h) ELSE Remote(h)
  BY <1>3, <1>5, <1>6, Sizes DEF Places, Holds
<1>8. h = k /\ (m < 2 <=> j < 2)
  <2>1. w[2] = IF j < 2 THEN Local(k) ELSE Remote(k)
    BY DEF Meaning
  <2>2. Remote(h) = Remote(k) => h = k
    BY DEF Remote
  <2>3. /\ Local(h) # Remote(k) /\ Local(k) # Remote(h)
        /\ Local(h) = Local(k) => h = k
    BY FilesDiffer
  <2>4. CASE m < 2 /\ j < 2
    BY <1>7, <2>1, <2>3, <2>4
  <2>5. CASE ~(m < 2) /\ ~(j < 2)
    BY <1>7, <2>1, <2>2, <2>5
  <2>6. CASE m < 2 /\ ~(j < 2)
    BY <1>7, <2>1, <2>3, <2>6
  <2>7. CASE ~(m < 2) /\ j < 2
    BY <1>7, <2>1, <2>3, <2>7
  <2> QED BY <2>4, <2>5, <2>6, <2>7
<1>9. m = j
  <2>1. w[3] = IF j % 2 = 0 THEN "in" ELSE "out"
    BY DEF Meaning
  <2>2. j \in {0, 1, 2, 3} /\ m \in {0, 1, 2, 3}
    BY <1>7 DEF Fields
  <2>3. 0 % 2 = 0 /\ 1 % 2 = 1 /\ 2 % 2 = 0 /\ 3 % 2 = 1
    OBVIOUS
  <2>4. "in" # "out"
    OBVIOUS
  <2>5. j \in {0, 2} <=> m \in {0, 2}
    BY <1>3, <2>1, <2>2, <2>3, <2>4
  <2> QED BY <1>8, <2>2, <2>5
<1>10. s \in SlotOf(k)
  BY <1>5, <1>6, <1>8, HeldSlot
<1> QED BY <1>2, <1>9, <1>10

\* SetReady() and the event: the place it finds is the one the event is about.
LEMMA FoundMeans ==
  ASSUME Inv, Fresh, NEW w \in watched, NEW k \in Clients, NEW s \in SlotOf(k),
         NEW j \in Fields
  PROVE  Found(w[1], s, j) <=> Meaning(w, k, j)
<1>1. s \in Used /\ s \in Conns /\ s \in Slots /\ Places(s) = Fields /\ Holds(s, k)
  BY SlotHeld, Sizes
<1>2. ASSUME Found(w[1], s, j)
      PROVE  Meaning(w, k, j)
  <2>1. fd[s][j] = w[1]
    BY <1>2 DEF Found
  <2>2. w = Entry(s, j)
    BY <1>1, <2>1, EventNames
  <2>3. w[2] = files[fd[s][j]] /\ w[3] = IF j \in {0, 2} THEN "in" ELSE "out"
    BY <2>2 DEF Entry
  <2>4. w[2] = IF j < 2 THEN Local(k) ELSE Remote(k)
    BY <1>1, <2>3 DEF Holds
  <2>5. j \in {0, 2} <=> j % 2 = 0
    <3>1. 0 % 2 = 0 /\ 1 % 2 = 1 /\ 2 % 2 = 0 /\ 3 % 2 = 1
      OBVIOUS
    <3>2. j \in {0, 1, 2, 3}
      BY DEF Fields
    <3> QED BY <3>1, <3>2
  <2> QED BY <2>3, <2>4, <2>5 DEF Meaning
<1>3. ASSUME Meaning(w, k, j)
      PROVE  Found(w[1], s, j)
  <2>1. PICK t \in SlotOf(k) : w = Entry(t, j)
    BY <1>3, EventMeans
  <2>2. t = s
    BY <2>1, OneSlot
  <2>3. w[1] = fd[s][j]
    BY <2>1, <2>2 DEF Entry
  <2> QED BY <1>1, <2>3, EventFound
<1> QED BY <1>2, <1>3

LEMMA NoteStep ==
  ASSUME Before, NEW E \in SUBSET Reportable, EpollWait(E)
  PROVE  Session!Note
<1>1. /\ ready' = [s \in Slots |->
                 ready[s] \cup {j \in Fields : \E w \in E : Found(w[1], s, j)}]
      /\ reported' = {m \in Clients \X Fields : \E w \in E : Meaning(w, m[1], m[2])}
      /\ reported = {} /\ pc # "exited" /\ pc' # "exited"
      /\ UNCHANGED <<fd, p, files, met, door>>
  BY DEF EpollWait, kernel, outside, Before, Fresh
<1>2. E \subseteq watched
  BY DEF Reportable
<1>3. \A h \in Clients : SlotOf(h)' = SlotOf(h) /\ (h \in met' <=> h \in met)
  BY <1>1 DEF SlotOf
<1>4. \A h \in Clients : \A j \in Fields :
        <<h, j>> \in reported' <=> \E w \in E : Meaning(w, h, j)
  BY <1>1
<1>5. \A h \in Clients : \A s \in SlotOf(h) :
        ready'[s] = ready[s] \cup {j \in Fields : <<h, j>> \in reported'}
  <2> SUFFICES ASSUME NEW h \in Clients, NEW s \in SlotOf(h)
               PROVE  ready'[s] = ready[s] \cup {j \in Fields : <<h, j>> \in reported'}
    OBVIOUS
  <2>1. s \in Slots
    BY Sizes DEF SlotOf
  <2>2. \A j \in Fields : \A w \in E : Found(w[1], s, j) <=> Meaning(w, h, j)
    BY <1>2, FoundMeans DEF Before
  <2> QED BY <1>1, <1>4, <2>1, <2>2
<1>6. \A h \in Clients : \A j \in Fields : <<h, j>> \in reported' => SlotOf(h) # {}
  BY <1>2, <1>4, EventMeans DEF Before
<1>7. ASSUME NEW h \in Clients
      PROVE  /\ StageOf'[h] = StageOf[h] /\ HostOf'[h] = HostOf[h]
             /\ NotedOf'[h] = NotedOf[h] \cup {j \in Fields : <<h, j>> \in reported'}
  <2>1. CASE SlotOf(h) = {}
    <3>1. {j \in Fields : <<h, j>> \in reported'} = {}
      BY <1>6, <2>1
    <3>2. SlotOf(h)' = {}
      BY <1>3, <2>1
    <3>3. /\ StageOf[h] = (IF h \in met THEN "over" ELSE "new")
          /\ HostOf[h] = None /\ NotedOf[h] = {}
      BY <2>1, NoSlot
    <3>4. /\ StageOf'[h] = (IF h \in met' THEN "over" ELSE "new")
          /\ HostOf'[h] = None /\ NotedOf'[h] = {}
      BY <3>2, NoSlotNext
    <3> QED BY <1>3, <3>1, <3>3, <3>4
  <2>2. CASE SlotOf(h) # {}
    <3>1. PICK s \in SlotOf(h) : TRUE
      BY <2>2
    <3>2. /\ SlotOf(h) = {s} /\ h \in met
          /\ StageOf[h] = "live" /\ HostOf[h] = p[s] /\ NotedOf[h] = ready[s]
      BY OneSlot DEF Before
    <3>3. StageOf'[h] = "live" /\ HostOf'[h] = p'[s] /\ NotedOf'[h] = ready'[s]
      BY <1>3, <3>2, OneSlotNext
    <3>4. p' = p
      BY <1>1
    <3>5. ready'[s] = ready[s] \cup {j \in Fields : <<h, j>> \in reported'}
      BY <1>5, <3>1
    <3>6. HostOf'[h] = HostOf[h] /\ StageOf'[h] = StageOf[h]
      BY <3>2, <3>3, <3>4
    <3>7. NotedOf'[h] = NotedOf[h] \cup {j \in Fields : <<h, j>> \in reported'}
      BY <3>2, <3>3, <3>5
    <3> QED BY <3>6, <3>7
  <2> QED BY <2>1, <2>2
<1>8. StageOf' = StageOf /\ HostOf' = HostOf
  BY <1>7, Functions
<1>9. NotedOf' = [h \in Clients |-> NotedOf[h] \cup {j \in Fields : <<h, j>> \in reported'}]
  BY <1>7, Functions
<1>10. reported' \in SUBSET (Session!Live \X Fields)
  <2> SUFFICES ASSUME NEW m \in reported'
               PROVE  m \in Session!Live \X Fields
    OBVIOUS
  <2>1. PICK h \in Clients, j \in Fields : m = <<h, j>>
    BY <1>1
  <2>2. PICK s \in SlotOf(h) : TRUE
    BY <1>6, <2>1
  <2>3. StageOf[h] = "live"
    BY OneSlot DEF Before
  <2> QED BY <2>1, <2>3 DEF Session!Live
<1> QED BY <1>1, <1>8, <1>9, <1>10 DEF Session!Note

LEMMA InitFresh == Init => Fresh
<1> SUFFICES ASSUME Init
             PROVE  Fresh
  OBVIOUS
<1>1. \A s \in Conns : p[s] = None /\ ready[s] = {}
  BY Sizes DEF Init
<1> QED BY <1>1 DEF Init, Fresh, Holds

LEMMA NextFresh ==
  ASSUME Inv, Fresh, [Next]_vars
  PROVE  Fresh'
<1>1. CASE Bystander
  BY <1>1, BystanderFresh
<1>2. CASE AddListener
  BY <1>2, AddListenerFresh
<1>3. CASE \E k \in Clients, n \in 0 .. MaxRefused : AddConnection(k, n)
  BY <1>3, AddConnectionFresh
<1>4. CASE \E n \in 0 .. MaxRefused : AddRunsOut(n)
  BY <1>4, AddRunsOutFresh, Sizes
<1>5. CASE CloseConnection
  BY <1>5, CloseConnectionFresh
<1>6. CASE UNCHANGED vars
  BY <1>6 DEF vars, loop, table, kernel, outside, history, Fresh, Holds
<1> QED BY <1>1, <1>2, <1>3, <1>4, <1>5, <1>6 DEF Next, Bystander

LEMMA SessionStep ==
  ASSUME Before, Next
  PROVE  Session!Next \/ UNCHANGED Session!vars
<1>1. CASE StartDone \/ AcceptSkip \/ RelayDone \/ VisitEmpty \/ VisitIdle \/ AddListener
  BY <1>1, Stutters, ListenerStep
<1>2. CASE AcceptDone \/ ListenerFails \/ AddFails
  BY <1>2, AcceptDoneStep, Stops DEF Session!Next
<1>3. CASE \E n \in 0 .. MaxRefused : AddRunsOut(n)
  BY <1>3, RunsOutStep, Sizes DEF Session!Next
<1>4. CASE \E k \in Clients, l \in Listeners : Knock(k, l)
  BY <1>4, KnockStep DEF Session!Next
<1>5. CASE \E k \in Clients : DropConnection(k)
  BY <1>5, DropStep DEF Session!Next
<1>6. CASE \E k \in Clients, n \in 0 .. MaxRefused : AddConnection(k, n)
  BY <1>6, OpenStep DEF Session!Next
<1>7. CASE CloseConnection
  BY <1>7, CloseStep DEF Session!Next
<1>8. CASE \E j \in Fields : SendRecvBlocks(j)
  BY <1>8, RelayStep DEF Session!Next
<1>9. CASE \E E \in SUBSET Reportable : EpollWait(E)
  BY <1>9, NoteStep DEF Session!Next
<1> QED BY <1>1, <1>2, <1>3, <1>4, <1>5, <1>6, <1>7, <1>8, <1>9 DEF Next

LEMMA SessionInit == Init => Session!Init
<1> SUFFICES ASSUME Init
             PROVE  Session!Init
  OBVIOUS
<1>1. \A k \in Clients : SlotOf(k) = {}
  BY Sizes DEF Init, SlotOf
<1>2. \A k \in Clients : StageOf[k] = "new" /\ HostOf[k] = None /\ NotedOf[k] = {}
  BY <1>1, NoSlot DEF Init
<1>3. /\ StageOf = [k \in Clients |-> "new"] /\ HostOf = [k \in Clients |-> None]
      /\ NotedOf = [k \in Clients |-> {}]
  BY <1>2, Functions
<1> QED BY <1>3 DEF Init, Session!Init

\* The table gives every client the session of module Sessions: one slot, to
\* the host behind its own port, whose flags are those of the events of its own
\* sockets, whatever slots and descriptors had been before.
THEOREM TableImplementsSessions == Spec => SessionsSpec
<1>1. Init => Inv /\ Fresh
  BY InitInv, InitFresh
<1>2. (Inv /\ Fresh) /\ [Next]_vars => (Inv /\ Fresh)'
  BY NextInv, NextFresh
<1>3. (Inv /\ Fresh) /\ (Inv /\ Fresh)' /\ [Next]_vars => [Session!Next]_(Session!vars)
  <2> SUFFICES ASSUME Before, [Next]_vars
               PROVE  [Session!Next]_(Session!vars)
    BY DEF Before
  <2>1. CASE Next
    BY <2>1, SessionStep
  <2>2. CASE UNCHANGED vars
    <3>1. UNCHANGED <<pc, fd, p, files, met, ready, door, reported>>
      BY <2>2 DEF vars, loop, table, kernel, outside, history
    <3>2. UNCHANGED <<StageOf, HostOf, NotedOf>>
      BY <3>1, QuietSteps
    <3> QED BY <3>1, <3>2 DEF Session!vars
  <2> QED BY <2>1, <2>2
<1> QED BY <1>1, <1>2, <1>3, SessionInit, PTL DEF Spec, SessionsSpec, Session!Spec

-----------------------------------------------------------------------------
\* How many descriptors are open, and when they run out.
Unused == Fds \ Open
Below(f) == {g \in Unused : g < f}
Rank(f) == Cardinality(Below(f))
Strays == {f \in Fds : files[f] = Refused}

LEMMA Interval ==
  ASSUME NEW n \in Nat
  PROVE  IsFiniteSet(0 .. n - 1) /\ Cardinality(0 .. n - 1) = n
<1>1. 0 \in Int /\ n - 1 \in Int
  OBVIOUS
<1> QED BY <1>1, FS_Interval

LEMMA UnusedFinite ==
  /\ IsFiniteSet(Fds) /\ Cardinality(Fds) = MaxFiles
  /\ IsFiniteSet(Open) /\ IsFiniteSet(Unused) /\ IsFiniteSet(Strays)
  /\ Cardinality(Open) \in Nat /\ Cardinality(Unused) \in Nat /\ Leaked \in Nat
  /\ Cardinality(Unused) = MaxFiles - Cardinality(Open)
<1>1. IsFiniteSet(Fds) /\ Cardinality(Fds) = MaxFiles
  BY Sizes, FS_Interval DEF Fds
<1>2. IsFiniteSet(Open) /\ IsFiniteSet(Unused) /\ IsFiniteSet(Strays)
  BY <1>1, FS_Subset DEF Open, Unused, Strays
<1>3. Cardinality(Open) \in Nat /\ Cardinality(Unused) \in Nat /\ Leaked \in Nat
  BY <1>2, FS_CardinalityType DEF Leaked, Strays
<1>4. Fds = Open \cup Unused /\ Open \cap Unused = {}
  BY DEF Open, Unused
<1>5. Cardinality(Open \cup Unused) = Cardinality(Open) + Cardinality(Unused) - Cardinality(Open \cap Unused)
  BY <1>2, FS_Union
<1>6. Cardinality(Open \cap Unused) = 0
  BY <1>4, FS_EmptySet
<1> QED BY <1>1, <1>2, <1>3, <1>4, <1>5, <1>6

\* The rank of a free number: how many free numbers are below it.
LEMMA RankBounds ==
  ASSUME NEW f \in Unused
  PROVE  /\ Rank(f) \in Nat /\ Rank(f) < Cardinality(Unused)
         /\ \A g \in Unused : g < f => Rank(g) < Rank(f)
<1>1. \A g \in Unused : IsFiniteSet(Below(g)) /\ Rank(g) \in Nat /\ g \in Int /\ g \notin Below(g)
  BY UnusedFinite, FS_Subset, FS_CardinalityType DEF Below, Rank, Unused, Fds
<1>2. ASSUME NEW g \in Unused, NEW S, IsFiniteSet(S), Below(g) \subseteq S, g \in S
      PROVE  Rank(g) < Cardinality(S)
  <2>1. Cardinality(Below(g)) <= Cardinality(S) /\ (Cardinality(S) = Cardinality(Below(g)) => S = Below(g))
    BY <1>2, FS_Subset
  <2>2. Cardinality(S) \in Nat
    BY <1>2, FS_CardinalityType
  <2> QED BY <1>1, <1>2, <2>1, <2>2 DEF Rank
<1>3. Rank(f) < Cardinality(Unused)
  BY <1>2, UnusedFinite DEF Below
<1>4. ASSUME NEW g \in Unused, g < f
      PROVE  Rank(g) < Rank(f)
  <2>1. \A h \in Unused : h \in Int
    BY DEF Unused, Fds
  <2>2. \A h \in Unused : h < g => h < f
    BY <1>4, <2>1
  <2>3. Below(g) \subseteq Below(f) /\ g \in Below(f)
    BY <1>4, <2>2 DEF Below
  <2> QED BY <1>1, <1>2, <2>3 DEF Rank
<1> QED BY <1>1, <1>3, <1>4

LEMMA NthRank ==
  ASSUME NEW n
  PROVE  Nth(n) = {f \in Unused : Rank(f) = n}
BY DEF Nth, Rank, Below, Unused

\* The ranks of the free numbers are the numbers below how many are free.
LEMMA RanksAll ==
  /\ [f \in Unused |-> Rank(f)] \in Injection(Unused, 0 .. Cardinality(Unused) - 1)
  /\ \A n \in 0 .. Cardinality(Unused) - 1 : Nth(n) # {}
<1> DEFINE r == [f \in Unused |-> Rank(f)]
           T == 0 .. Cardinality(Unused) - 1
<1>1. Cardinality(Unused) \in Nat
  BY UnusedFinite
<1>2. r \in [Unused -> T]
  BY <1>1, RankBounds
<1>3. \A f \in Unused : \A g \in Unused : Rank(f) = Rank(g) => f = g
  <2> SUFFICES ASSUME NEW f \in Unused, NEW g \in Unused, Rank(f) = Rank(g)
               PROVE  f = g
    OBVIOUS
  <2>1. f \in Int /\ g \in Int
    BY DEF Unused, Fds
  <2>2. Rank(f) \in Nat /\ ~(Rank(f) < Rank(g)) /\ ~(Rank(g) < Rank(f))
    BY RankBounds
  <2>3. ~(f < g) /\ ~(g < f)
    BY <2>2, RankBounds
  <2> QED BY <2>1, <2>3
<1>4. r \in Injection(Unused, T)
  BY <1>2, <1>3 DEF Injection, IsInjective
<1>5. IsFiniteSet(T) /\ Cardinality(T) = Cardinality(Unused)
  BY <1>1, Interval
<1>6. r \in Surjection(Unused, T)
  BY <1>4, <1>5, FS_Injection
<1>7. ASSUME NEW n \in T
      PROVE  Nth(n) # {}
  <2>1. PICK f \in Unused : r[f] = n
    BY <1>6 DEF Surjection
  <2>2. f \in Nth(n)
    BY <2>1, NthRank
  <2> QED BY <2>2
<1> QED BY <1>4, <1>7

\* A number that is not there any more: at most so many are free.
LEMMA NthEmpty ==
  ASSUME NEW n \in Nat, Nth(n) = {}
  PROVE  Cardinality(Unused) <= n
BY RanksAll, UnusedFinite

LEMMA NthThere ==
  ASSUME NEW n \in Nat, Nth(n) # {}
  PROVE  n < Cardinality(Unused)
BY RankBounds, NthRank

\* The sockets of n addresses that refused stay.
LEMMA RefusingLeaks ==
  ASSUME Types, NEW n \in Nat, n = 0 \/ Nth(n) # {}, files' = Refusing(n)
  PROVE  Leaked' = Leaked + n
<1> DEFINE N == {f \in Unused : Rank(f) \in 1 .. n}
           r == [f \in N |-> Rank(f)]
<1>1. \A f \in Fds : (\E m \in 1 .. n : f \in Nth(m)) <=> f \in N
  BY NthRank
<1>2. N \subseteq Fds /\ \A f \in N : files[f] = Free
  BY DEF Unused, Open
<1>3. \A f \in Fds : files'[f] = IF f \in N THEN Refused ELSE files[f]
  BY <1>1 DEF Refusing
<1>4. Strays' = Strays \cup N /\ Strays \cap N = {}
  BY <1>2, <1>3, FilesDiffer DEF Strays
<1>5. IsFiniteSet(N) /\ Cardinality(N) = n
  <2>1. \A m \in 1 .. n : Nth(m) # {}
    <3>1. CASE n = 0
      BY <3>1
    <3>2. CASE Nth(n) # {}
      BY <3>2, NthThere, RanksAll, UnusedFinite
    <3> QED BY <3>1, <3>2
  <2>2. IsFiniteSet(N)
    BY UnusedFinite, FS_Subset
  <2>3. r \in [N -> 1 .. n] /\ \A f \in N : r[f] = Rank(f)
    OBVIOUS
  <2>4. \A f \in Unused : \A g \in Unused : Rank(f) = Rank(g) => f = g
    BY RanksAll DEF Injection, IsInjective
  <2>5. \A f \in N : \A g \in N : r[f] = r[g] => f = g
    BY <2>4
  <2>6. \A m \in 1 .. n : \E f \in N : r[f] = m
    BY <2>1, NthRank
  <2>7. r \in Bijection(N, 1 .. n)
    BY <2>3, <2>5, <2>6 DEF Bijection, Injection, Surjection, IsInjective
  <2>8. Cardinality(1 .. n) = Cardinality(N)
    BY <2>2, <2>7, FS_Bijection DEF ExistsBijection
  <2>9. Cardinality(1 .. n) = n
    BY FS_Interval
  <2> QED BY <2>2, <2>8, <2>9
<1>6. Cardinality(Strays \cup N) = Cardinality(Strays) + Cardinality(N) - Cardinality(Strays \cap N)
  BY <1>5, UnusedFinite, FS_Union
<1>7. Cardinality(Strays \cap N) = 0
  BY <1>4, FS_EmptySet
<1>8. Leaked = Cardinality(Strays) /\ Leaked' = Cardinality(Strays') /\ Leaked \in Nat
  BY UnusedFinite DEF Leaked, Strays
<1> HIDE DEF N
<1> QED BY <1>4, <1>5, <1>6, <1>7, <1>8

-----------------------------------------------------------------------------
\* What one field of some slots holds.
Column(S, j) == {fd[s][j] : s \in S}

LEMMA ColumnSize ==
  ASSUME NEW S, IsFiniteSet(S), NEW j
  PROVE  IsFiniteSet(Column(S, j)) /\ Cardinality(Column(S, j)) <= Cardinality(S)
         /\ Cardinality(Column(S, j)) \in Nat
<1> DEFINE c == [s \in S |-> fd[s][j]]
<1>1. c \in Surjection(S, Column(S, j))
  BY DEF Surjection, Column
<1> QED BY <1>1, FS_Surjection, FS_CardinalityType

LEMMA UnionSize ==
  ASSUME NEW S, NEW T, IsFiniteSet(S), IsFiniteSet(T)
  PROVE  /\ IsFiniteSet(S \cup T) /\ Cardinality(S \cup T) <= Cardinality(S) + Cardinality(T)
         /\ Cardinality(S) \in Nat /\ Cardinality(T) \in Nat /\ Cardinality(S \cup T) \in Nat
<1>1. IsFiniteSet(S \cap T) /\ IsFiniteSet(S \cup T)
  BY FS_Subset, FS_Union
<1>2. /\ Cardinality(S) \in Nat /\ Cardinality(T) \in Nat /\ Cardinality(S \cup T) \in Nat
      /\ Cardinality(S \cap T) \in Nat
  BY <1>1, FS_CardinalityType
<1>3. Cardinality(S \cup T) = Cardinality(S) + Cardinality(T) - Cardinality(S \cap T)
  BY FS_Union
<1> QED BY <1>1, <1>2, <1>3

\* Every open number is one of main()'s, a refused one, or in a used slot.
LEMMA OpenBound ==
  ASSUME Inv
  PROVE  Cardinality(Open) <= 4 + proxiesCount + 4 * connCount + Leaked
<1> DEFINE L == Used \cap Listeners
           C == Used \cap Conns
           A == Base \cup Strays
           B == A \cup Column(L, 0)
           D0 == B \cup Column(C, 0)
           D1 == D0 \cup Column(C, 1)
           D2 == D1 \cup Column(C, 2)
           D3 == D2 \cup Column(C, 3)
<1>1. Open \subseteq D3
  <2> SUFFICES ASSUME NEW f \in Open
               PROVE  f \in D3
    OBVIOUS
  <2>1. CASE f \in Base \/ files[f] = Refused
    BY <2>1 DEF Open, Strays
  <2>2. CASE \E s \in Used, j \in Fields : fd[s][j] = f
    <3>1. PICK s \in Used, j \in Fields : fd[s][j] = f
      BY <2>2
    <3>2. CASE s \in Conns
      BY <3>1, <3>2 DEF Column, Fields
    <3>3. CASE s \in Listeners /\ j = 0
      BY <3>1, <3>3 DEF Column
    <3>4. CASE s \in Listeners /\ j # 0
      BY <3>1, <3>4 DEF Inv, Books, Held, Listening, Used, Base
    <3> QED BY <3>2, <3>3, <3>4, Sizes DEF Used
  <2> QED BY <2>1, <2>2 DEF Inv, Books, NoLeak
<1>2. IsFiniteSet(Base) /\ Cardinality(Base) = 4
  <2>1. PICK n \in Nat : n = 4
    OBVIOUS
  <2>2. Base = 0 .. n - 1
    BY <2>1 DEF Base
  <2> QED BY <2>1, <2>2, Interval
<1>3. IsFiniteSet(L) /\ Cardinality(L) \in Nat /\ Cardinality(L) <= proxiesCount
  <2>1. IsFiniteSet(Listeners) /\ Cardinality(Listeners) = proxiesCount
    BY Sizes, Interval DEF Listeners
  <2> QED BY <2>1, FS_Subset, FS_CardinalityType
<1>4. IsFiniteSet(C) /\ Cardinality(C) = connCount
  BY FiniteUsed DEF Inv, Books, Counted
<1>5. IsFiniteSet(Strays) /\ Cardinality(Strays) = Leaked
  BY UnusedFinite DEF Leaked, Strays
<1>6. IsFiniteSet(Column(L, 0)) /\ Cardinality(Column(L, 0)) <= Cardinality(L)
      /\ Cardinality(Column(L, 0)) \in Nat
  BY <1>3, ColumnSize
<1>7. \A j \in Fields : IsFiniteSet(Column(C, j)) /\ Cardinality(Column(C, j)) <= Cardinality(C)
      /\ Cardinality(Column(C, j)) \in Nat
  BY <1>4, ColumnSize
<1> HIDE DEF L, C
<1>8. IsFiniteSet(A) /\ Cardinality(A) <= 4 + Leaked /\ Cardinality(A) \in Nat
  BY <1>2, <1>5, UnionSize
<1> HIDE DEF A
<1>9. IsFiniteSet(B) /\ Cardinality(B) <= 4 + Leaked + proxiesCount /\ Cardinality(B) \in Nat
  <2>1. Leaked \in Nat /\ proxiesCount \in Nat
    BY Sizes, UnusedFinite
  <2>2. /\ IsFiniteSet(B) /\ Cardinality(B) \in Nat
        /\ Cardinality(B) <= Cardinality(A) + Cardinality(Column(L, 0))
    BY <1>6, <1>8, UnionSize
  <2> HIDE DEF B
  <2> QED BY <1>3, <1>6, <1>8, <2>1, <2>2
<1> HIDE DEF B
<1>10. connCount \in Nat
  BY <1>4, FS_CardinalityType
<1> DEFINE base == 4 + Leaked + proxiesCount
<1>11. base \in Nat
  BY Sizes, UnusedFinite
<1> HIDE DEF base
<1>12. IsFiniteSet(D0) /\ Cardinality(D0) <= base + connCount /\ Cardinality(D0) \in Nat
  <2>1. 0 \in Fields
    BY DEF Fields
  <2> QED BY <1>4, <1>7, <1>9, <1>10, <1>11, <2>1, UnionSize DEF base
<1> HIDE DEF D0
<1>13. IsFiniteSet(D1) /\ Cardinality(D1) <= base + 2 * connCount /\ Cardinality(D1) \in Nat
  <2>1. 1 \in Fields
    BY DEF Fields
  <2> QED BY <1>4, <1>7, <1>12, <1>10, <1>11, <2>1, UnionSize
<1> HIDE DEF D1
<1>14. IsFiniteSet(D2) /\ Cardinality(D2) <= base + 3 * connCount /\ Cardinality(D2) \in Nat
  <2>1. 2 \in Fields
    BY DEF Fields
  <2> QED BY <1>4, <1>7, <1>13, <1>10, <1>11, <2>1, UnionSize
<1> HIDE DEF D2
<1>15. IsFiniteSet(D3) /\ Cardinality(D3) <= base + 4 * connCount /\ Cardinality(D3) \in Nat
  <2>1. 3 \in Fields
    BY DEF Fields
  <2> QED BY <1>4, <1>7, <1>14, <1>10, <1>11, <2>1, UnionSize
<1>16. Cardinality(Open) <= Cardinality(D3)
  BY <1>1, <1>15, FS_Subset
<1> QED BY <1>10, <1>11, <1>15, <1>16, UnusedFinite, Sizes DEF base

\* The table has room for so many connections, and for one more while a slot
\* is empty.
LEMMA ConnsBound ==
  ASSUME Inv
  PROVE  /\ connCount \in Nat /\ Cardinality(Conns) \in Nat /\ connCount <= Cardinality(Conns)
         /\ FindEmpty # {} => connCount < Cardinality(Conns)
<1>1. IsFiniteSet(Conns)
  BY Sizes, FS_Interval
<1>2. connCount = Cardinality(Used \cap Conns)
  BY DEF Inv, Books, Counted
<1>3. /\ Cardinality(Used \cap Conns) <= Cardinality(Conns)
      /\ Cardinality(Conns) = Cardinality(Used \cap Conns) => Conns = Used \cap Conns
  BY <1>1, FS_Subset
<1>4. FindEmpty # {} => Conns # Used \cap Conns
  BY DEF FindEmpty, Used
<1>5. connCount \in Nat /\ Cardinality(Conns) \in Nat
  BY <1>1, <1>2, FiniteUsed, FS_CardinalityType
<1> QED BY <1>2, <1>3, <1>4, <1>5

-----------------------------------------------------------------------------
\* The reason why the process ended is given once.
Ending == ended # "no" => pc = "exited"
Exhausted == Ending /\ Exhaustion

LEMMA RunsOutOfFiles ==
  ASSUME Inv, NEW n \in Nat, AddRunsOut(n)
  PROVE  Needed + Leaked' >= MaxFiles
<1>1. Types
  BY DEF Inv
<1>2. files' = Refusing(n)
  BY DEF AddRunsOut
<1> DEFINE o == Cardinality(Open)
           u == Cardinality(Unused)
           c == Cardinality(Conns)
<1>3. /\ o \in Nat /\ u \in Nat /\ u = MaxFiles - o /\ Leaked \in Nat
      /\ o <= 4 + proxiesCount + 4 * connCount + Leaked
  BY OpenBound, UnusedFinite
<1>4. connCount \in Nat /\ c \in Nat /\ connCount <= c /\ (FindEmpty # {} => connCount < c)
  BY ConnsBound
<1>5. Needed = 4 + proxiesCount + 4 * c
  BY DEF Needed
<1>6. CASE n = 0 /\ Nth(0) = {}
  <2>1. Leaked' = Leaked + n
    BY <1>1, <1>2, <1>6, RefusingLeaks
  <2>2. u <= 0
    BY <1>6, NthEmpty
  <2> HIDE DEF o, u, c
  <2> QED BY <1>3, <1>4, <1>5, <1>6, <2>1, <2>2, Sizes
<1>7. CASE Nth(n) # {} /\ FindEmpty # {} /\ Nth(n + 3) = {}
  <2>1. Leaked' = Leaked + n
    BY <1>1, <1>2, <1>7, RefusingLeaks
  <2>2. u <= n + 3
    BY <1>7, NthEmpty
  <2> HIDE DEF o, u, c
  <2> QED BY <1>3, <1>4, <1>5, <1>7, <2>1, <2>2, Sizes
<1> QED BY <1>6, <1>7 DEF AddRunsOut

LEMMA ListenerRunsOut ==
  ASSUME Inv, Nth(0) = {}
  PROVE  Needed + Leaked >= MaxFiles
<1>1. Cardinality(Unused) <= 0
  BY NthEmpty
<1> QED BY <1>1, OpenBound, ConnsBound, UnusedFinite, Sizes DEF Needed

LEMMA NextExhausted ==
  ASSUME Inv, Exhausted, [Next]_vars
  PROVE  Exhausted'
<1> USE DEF Exhausted
<1>1. CASE UNCHANGED vars
  BY <1>1 DEF vars, loop, table, kernel, outside, history, Ending, Exhaustion, Leaked, Needed
<1>2. CASE \E n \in 0 .. MaxRefused : AddRunsOut(n)
  <2>1. PICK n \in 0 .. MaxRefused : AddRunsOut(n)
    BY <1>2
  <2>2. n \in Nat
    BY Sizes
  <2>3. Needed + Leaked' >= MaxFiles
    BY <2>1, <2>2, RunsOutOfFiles
  <2> QED BY <2>1, <2>3 DEF AddRunsOut, Ending, Exhaustion, Needed
<1>3. CASE ListenerFails
  <2>1. PICK why \in {"files", "bind"} : (why = "files" => Nth(0) = {}) /\ Exit(why)
    BY <1>3 DEF ListenerFails
  <2>2. pc' = "exited" /\ ended' = why /\ files' = files
    BY <2>1 DEF Exit, kernel
  <2>3. ended' = "files" => Needed + Leaked >= MaxFiles
    BY <2>1, <2>2, ListenerRunsOut
  <2>4. Leaked' = Leaked
    BY <2>2 DEF Leaked
  <2> QED BY <2>2, <2>3, <2>4 DEF Ending, Exhaustion, Needed
<1>4. CASE AddFails \/ CloseConnection
  <2>1. pc # "exited"
    BY <1>4 DEF AddFails, Accepting, CloseConnection, Closing, Visiting
  <2>2. (pc' = "exited" \/ UNCHANGED ended) /\ ended' # "files"
    BY <1>4, <2>1 DEF AddFails, CloseConnection, Close, Exit, Visited, history, Ending
  <2> QED BY <2>1, <2>2 DEF Ending, Exhaustion
<1>5. CASE \/ AddListener \/ StartDone \/ AcceptSkip \/ AcceptDone
           \/ \E k \in Clients, l \in Listeners : Knock(k, l)
           \/ \E E \in SUBSET Reportable : EpollWait(E)
           \/ \E k \in Clients : DropConnection(k)
           \/ \E k \in Clients, n \in 0 .. MaxRefused : AddConnection(k, n)
           \/ RelayDone \/ VisitEmpty \/ VisitIdle
           \/ \E j \in Fields : SendRecvBlocks(j)
  <2>1. pc # "exited" /\ UNCHANGED ended
    BY <1>5 DEF Knock, AddListener, StartDone, EpollWait, AcceptSkip, AcceptDone,
       DropConnection, AddConnection, Accepted, RelayDone, VisitEmpty, VisitIdle, Visiting,
       SendRecvBlocks, Visited, Accepting, history
  <2> QED BY <2>1 DEF Ending, Exhaustion
<1> QED BY <1>1, <1>2, <1>3, <1>4, <1>5 DEF Next

\* The descriptors run out only by the sockets of refused addresses.
THEOREM FilesRunOut == Spec => []Exhaustion
<1>1. Init => Inv /\ Exhausted
  BY InitInv DEF Init, Exhausted, Ending, Exhaustion
<1>2. (Inv /\ Exhausted) /\ [Next]_vars => (Inv /\ Exhausted)'
  BY NextInv, NextExhausted
<1> QED BY <1>1, <1>2, PTL DEF Spec, Exhausted
=============================================================================
