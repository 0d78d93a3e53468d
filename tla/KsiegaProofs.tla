---------------------------- MODULE KsiegaProofs ----------------------------
(***************************************************************************)
(* Proofs about Ksiega, for any number of servers, clients and records, and *)
(* any number of signals and crashes.                                       *)
(***************************************************************************)
EXTENDS Ksiega, TLAPS

Serving == {"init", "ready"}
Stages == {"semgot", "shmget", "shmgot", "shmat", "init", "ready"}

\* Clients that found an open semaphore, and may still set it.
Claiming == {"setval", "claimed", "mark", "read", "login", "detach", "release",
             "leave", "abort", "unlock"}

SPlaces == Stages \cup {"off", "semget", "cleaning", "exited", "crashed"}
CPlaces == Claiming \cup {"shmget", "stat", "semget", "shmat", "typ", "getval", "done",
                          "exited", "dead"}

\* The variables that decide who owns what.
Types ==
  /\ spc \in [Servers -> SPlaces] /\ si \in [Servers -> Nat]
  /\ todo \in [Servers -> SUBSET {"dt", "seg", "set"}]
  /\ sem \in [Servers -> Servers \cup {Zero}] /\ shm \in [Servers -> Servers \cup {Zero}]
  /\ cpc \in [Clients -> CPlaces] /\ ci \in [Clients -> Nat]
  /\ csem \in [Clients -> Servers \cup {Zero}]
  /\ freee \in [Clients -> Records \cup {None}]
  /\ semsets \subseteq Servers
  /\ sems \in [Servers -> [Records -> {0, 1}]]
  /\ segs \in [Servers -> {"none", "live", "marked"}]

\* What a server has in its globals, and how many records it has prepared.
Stored ==
  \A s \in Servers :
    /\ sem[s] = (IF spc[s] \in {"off", "semget", "semgot"} THEN Zero
                 ELSE IF spc[s] \in Stages THEN s ELSE sem[s])
    /\ spc[s] \in {"shmat", "init", "ready"} => shm[s] = s
    /\ sem[s] \in {Zero, s} /\ shm[s] \in {Zero, s}
    /\ spc[s] \in {"off", "semget", "semgot", "shmget", "shmgot"} => shm[s] = Zero
    /\ spc[s] \in {"off", "semget", "semgot", "shmget", "shmgot", "shmat"} => si[s] = 0
    /\ spc[s] = "ready" => si[s] = rekord

\* An open semaphore is one of a record that its server has prepared, and so is
\* every record that a client found free.
Prepared ==
  /\ \A s \in Servers, r \in Records : sems[s][r] = 1 => r < si[s]
  /\ \A c \in Clients :
       /\ cpc[c] \in {"shmat", "typ", "getval"} => csem[c] \in Servers
       /\ cpc[c] = "getval" => ci[c] < rekord
       /\ cpc[c] \in Claiming =>
            csem[c] \in Servers /\ freee[c] \in Records /\ freee[c] < si[csem[c]]

\* The handler removes what it has not still to remove.
Removed ==
  \A s \in Servers : spc[s] = "cleaning" =>
    /\ sem[s] = s /\ "set" \notin todo[s] => s \notin semsets
    /\ shm[s] = s /\ "seg" \notin todo[s] => segs[s] # "live"

\* Whose client closed the semaphore of record r.
ClosedBy(c, s, r) ==
  csem[c] = s /\ freee[c] = r /\ (Holds(c) \/ cpc[c] \in {"abort", "unlock", "dead"})

\* LockAccounted from the preparation of each record on.
Shut(s, r) ==
  spc[s] \in Serving /\ s \in semsets /\ r < si[s] /\ sems[s][r] = 0
Accounted ==
  \A s \in Servers, r \in Records :
    Shut(s, r) => \E c \in Clients : ClosedBy(c, s, r)

Inv == Types /\ Stored /\ Prepared /\ Removed /\ StoredRemoved /\ Accounted

-----------------------------------------------------------------------------
LEMMA Ids ==
  /\ \A s \in Servers : Named(s) = s /\ s # Zero /\ s # None
  /\ Named(Zero) = IdZero
  /\ \A r \in Records : r \in Nat /\ r < rekord /\ r # None
  /\ \A n \in Nat : n < rekord => n \in Records
  /\ rekord \in Nat
BY BookAssumption DEF Named, Records

\* semctl(SETVAL) changes one semaphore.
LEMMA SetValFacts ==
  ASSUME Types, NEW id \in Servers \cup {Zero}, SetExists(id),
         NEW r \in Records, NEW v \in {0, 1}, SetVal(id, r, v)
  PROVE  /\ Named(id) \in Servers
         /\ sems' \in [Servers -> [Records -> {0, 1}]]
         /\ \A t \in Servers, q \in Records :
              sems'[t][q] = IF t = Named(id) /\ q = r THEN v ELSE sems[t][q]
<1>1. Named(id) \in Servers
  BY DEF SetExists, Types
<1>2. sems' = [sems EXCEPT ![Named(id)] = [sems[Named(id)] EXCEPT ![r] = v]]
  BY DEF SetVal
<1> QED BY <1>1, <1>2 DEF Types

\* The preparation of a record, and its failure.
LEMMA InitRecordFacts ==
  ASSUME Types, Stored, NEW s \in Servers, InitRecord(s)
  PROVE  /\ spc[s] = "init" /\ sem[s] = s /\ shm[s] = s /\ si[s] \in Records
         /\ UNCHANGED <<sem, shm, todo, clientVars, semsets>>
         /\ \/ /\ s \in semsets /\ si' = [si EXCEPT ![s] = @ + 1]
               /\ spc' = spc /\ segs' = segs
               /\ sems' \in [Servers -> [Records -> {0, 1}]]
               /\ \A t \in Servers, q \in Records :
                    sems'[t][q] = IF t = s /\ q = si[s] THEN 1 ELSE sems[t][q]
            \/ /\ s \notin semsets /\ UNCHANGED <<sems, si>>
               /\ spc' = [spc EXCEPT ![s] = "exited"]
               /\ segs' = [t \in Servers |->
                             IF t = s /\ segs[s] = "live" THEN "marked" ELSE segs[t]]
<1>1. spc[s] = "init" /\ si[s] < rekord
  BY DEF InitRecord
<1>2. sem[s] = s /\ shm[s] = s
  BY <1>1 DEF Stored, Stages
<1>3. si[s] \in Records
  BY <1>1, Ids DEF Types
<1>4. UNCHANGED <<sem, shm, todo, clientVars, semsets>>
  BY DEF InitRecord
<1>5. SetExists(sem[s]) <=> s \in semsets
  BY <1>2, Ids DEF SetExists
<1>6. CASE /\ SetExists(sem[s]) /\ SetVal(sem[s], si[s], 1)
           /\ si' = [si EXCEPT ![s] = @ + 1] /\ SGo(s, "init", "init") /\ UNCHANGED segs
  <2>1. spc' = spc
    BY <1>1, <1>6 DEF SGo, Types
  <2>2. /\ sems' \in [Servers -> [Records -> {0, 1}]]
        /\ \A t \in Servers, q \in Records :
             sems'[t][q] = IF t = s /\ q = si[s] THEN 1 ELSE sems[t][q]
    BY <1>2, <1>3, <1>6, SetValFacts, Ids
  <2> QED BY <1>1, <1>2, <1>3, <1>4, <1>5, <1>6, <2>1, <2>2
<1>7. CASE /\ ~SetExists(sem[s]) /\ SGo(s, "init", "exited")
           /\ segs' = RemovedSegs(shm[s]) /\ UNCHANGED <<sems, si>>
  <2>1. segs' = [t \in Servers |->
                   IF t = s /\ segs[s] = "live" THEN "marked" ELSE segs[t]]
    BY <1>2, <1>7, Ids DEF RemovedSegs
  <2> QED BY <1>1, <1>2, <1>3, <1>4, <1>5, <1>7, <2>1 DEF SGo
<1> QED BY <1>6, <1>7 DEF InitRecord

\* A client sets the semaphore of its record, or ends because the set is gone.
LEMMA CSetValFacts ==
  ASSUME Types, Prepared, NEW c \in Clients, NEW a \in Claiming, NEW v \in {0, 1},
         NEW b, CSetVal(c, a, v, b)
  PROVE  /\ cpc[c] = a /\ csem[c] \in Servers /\ freee[c] \in Records
         /\ freee[c] < si[csem[c]]
         /\ UNCHANGED <<csem, ci, freee, semsets, segs>>
         /\ \/ /\ csem[c] \in semsets /\ cpc' = [cpc EXCEPT ![c] = b]
               /\ sems' \in [Servers -> [Records -> {0, 1}]]
               /\ \A t \in Servers, q \in Records :
                    sems'[t][q] = IF t = csem[c] /\ q = freee[c] THEN v ELSE sems[t][q]
            \/ csem[c] \notin semsets /\ cpc' = [cpc EXCEPT ![c] = "exited"] /\ UNCHANGED
                sems
<1>1. cpc[c] = a /\ UNCHANGED <<csem, ci, freee, semsets, segs>>
  BY DEF CSetVal
<1>2. csem[c] \in Servers /\ freee[c] \in Records /\ freee[c] < si[csem[c]]
  BY <1>1 DEF Prepared
<1>3. SetExists(csem[c]) <=> csem[c] \in semsets
  BY <1>2, Ids DEF SetExists
<1>4. CASE SetExists(csem[c]) /\ SetVal(csem[c], freee[c], v) /\ CGo(c, a, b)
  <2>1. /\ sems' \in [Servers -> [Records -> {0, 1}]]
        /\ \A t \in Servers, q \in Records :
             sems'[t][q] = IF t = csem[c] /\ q = freee[c] THEN v ELSE sems[t][q]
    BY <1>2, <1>4, SetValFacts, Ids
  <2> QED BY <1>1, <1>2, <1>3, <1>4, <2>1 DEF CGo
<1>5. CASE ~SetExists(csem[c]) /\ UNCHANGED sems /\ CGo(c, a, "exited")
  BY <1>1, <1>2, <1>3, <1>5 DEF CGo
<1> QED BY <1>4, <1>5 DEF CSetVal

LEMMA InitRecordInv ==
  ASSUME Inv, NEW s \in Servers, InitRecord(s)
  PROVE  Types' /\ Stored' /\ Prepared' /\ Removed' /\ StoredRemoved' /\ Accounted'
<1>1. /\ spc[s] = "init" /\ sem[s] = s /\ shm[s] = s /\ si[s] \in Records
      /\ UNCHANGED <<sem, shm, todo, clientVars, semsets>>
  BY InitRecordFacts DEF Inv
<1>2. CASE /\ s \in semsets /\ si' = [si EXCEPT ![s] = @ + 1]
           /\ spc' = spc /\ segs' = segs
           /\ sems' \in [Servers -> [Records -> {0, 1}]]
           /\ \A t \in Servers, q \in Records :
                sems'[t][q] = IF t = s /\ q = si[s] THEN 1 ELSE sems[t][q]
  <2>1. Types'
    BY <1>1, <1>2, Ids DEF Inv, Types, clientVars
  <2>2. Stored'
    BY <1>1, <1>2 DEF Inv, Types, Stored
  <2>3. \A t \in Servers : si'[t] \in Nat /\ si[t] \in Nat /\ si[t] <= si'[t]
    BY <1>2 DEF Inv, Types
  <2>4. ASSUME NEW t \in Servers, NEW q \in Records, sems'[t][q] = 1 PROVE q < si'[t]
    <3>1. CASE t = s /\ q = si[s]
      BY <1>2, <2>3, <3>1, Ids DEF Inv, Types
    <3>2. CASE ~(t = s /\ q = si[s])
      BY <1>2, <2>3, <2>4, <3>2, Ids DEF Inv, Prepared
    <3> QED BY <3>1, <3>2
  <2>5. Prepared'
    BY <1>1, <2>3, <2>4, Ids DEF Inv, Prepared, clientVars
  <2>6. Removed' /\ StoredRemoved'
    BY <1>1, <1>2 DEF Inv, Removed, StoredRemoved
  <2>7. ASSUME NEW t \in Servers, NEW r \in Records, (spc[t] \in Serving)',
               (t \in semsets)', (r < si[t])', sems'[t][r] = 0
        PROVE  \E d \in Clients : ClosedBy(d, t, r)'
    <3>1. ~(t = s /\ r = si[s]) /\ sems[t][r] = 0
      BY <1>2, <2>7
    <3>2. r < si[t]
      <4>1. r \in Nat /\ si[t] \in Nat /\ r < si'[t]
        BY <2>7, Ids DEF Inv, Types
      <4>2. CASE t = s
        <5>1. si'[t] = si[t] + 1 /\ r # si[t]
          BY <1>2, <3>1, <4>2 DEF Inv, Types
        <5> QED BY <4>1, <5>1
      <4>3. CASE t # s
        BY <1>2, <4>1, <4>3 DEF Inv, Types
      <4> QED BY <4>2, <4>3
    <3>3. PICK d \in Clients : ClosedBy(d, t, r)
      BY <1>1, <1>2, <2>7, <3>1, <3>2 DEF Inv, Accounted, Shut
    <3> QED BY <1>1, <3>3 DEF ClosedBy, Holds, clientVars
  <2> QED BY <2>1, <2>2, <2>5, <2>6, <2>7 DEF Accounted, Shut
<1>3. CASE /\ s \notin semsets /\ UNCHANGED <<sems, si>>
           /\ spc' = [spc EXCEPT ![s] = "exited"]
           /\ segs' = [t \in Servers |->
                         IF t = s /\ segs[s] = "live" THEN "marked" ELSE segs[t]]
  <2>1. Types'
    BY <1>1, <1>3 DEF Inv, Types, SPlaces, Stages, clientVars
  <2>2. Stored'
    BY <1>1, <1>3 DEF Inv, Types, Stored, Stages
  <2>3. Prepared'
    BY <1>1, <1>3 DEF Inv, Prepared, clientVars
  <2>4. Removed' /\ StoredRemoved'
    BY <1>1, <1>3 DEF Inv, Types, Removed, StoredRemoved
  <2>5. Accounted'
    BY <1>1, <1>3 DEF Inv, Types, Accounted, Shut, ClosedBy, Holds, Serving, clientVars
  <2> QED BY <2>1, <2>2, <2>3, <2>4, <2>5
<1> QED BY <1>2, <1>3, InitRecordFacts DEF Inv

LEMMA SetValInv ==
  ASSUME Inv, NEW c \in Clients, NEW a \in Claiming, NEW v \in {0, 1},
         NEW b \in Claiming \cup {"exited"}, v = 0 => b = "claimed",
         v = 1 => b \in {"leave", "exited"},
         CSetVal(c, a, v, b), UNCHANGED <<spc, sem, shm, si, todo>>
  PROVE  Types' /\ Prepared' /\ Accounted'
<1>1. /\ cpc[c] = a /\ csem[c] \in Servers /\ freee[c] \in Records
      /\ freee[c] < si[csem[c]]
      /\ UNCHANGED <<csem, ci, freee, semsets, segs>>
  BY CSetValFacts DEF Inv
<1>2. \/ cpc' = [cpc EXCEPT ![c] = b]
      \/ csem[c] \notin semsets /\ cpc' = [cpc EXCEPT ![c] = "exited"]
  BY CSetValFacts DEF Inv
<1>3. /\ sems' \in [Servers -> [Records -> {0, 1}]]
      /\ \A t \in Servers, q \in Records :
           ~(t = csem[c] /\ q = freee[c]) => sems'[t][q] = sems[t][q]
      /\ csem[c] \in semsets =>
           sems'[csem[c]][freee[c]] = v /\ cpc' = [cpc EXCEPT ![c] = b]
      /\ csem[c] \notin semsets => sems' = sems
  BY CSetValFacts DEF Inv, Types
<1>4. Types'
  <2>1. cpc' \in [Clients -> CPlaces]
    BY <1>2 DEF Inv, Types, CPlaces
  <2> QED BY <1>1, <1>3, <2>1 DEF Inv, Types
<1>5. Prepared'
  <2>1. \A t \in Servers, q \in Records : sems'[t][q] = 1 => q < si[t]
    BY <1>1, <1>3 DEF Inv, Prepared
  <2>2. ASSUME NEW d \in Clients
        PROVE  /\ (cpc[d] \in {"shmat", "typ", "getval"} => csem[d] \in Servers)'
               /\ (cpc[d] = "getval" => ci[d] < rekord)'
               /\ (cpc[d] \in Claiming =>
                    csem[d] \in Servers /\ freee[d] \in Records /\ freee[d] < si[csem[d]])'
    <3>1. CASE d = c
      BY <1>1, <1>2, <3>1 DEF Inv, Types, Claiming
    <3>2. CASE d # c
      <4>1. cpc'[d] = cpc[d]
        BY <1>2, <3>2 DEF Inv, Types
      <4> QED BY <1>1, <4>1 DEF Inv, Prepared
    <3> QED BY <3>1, <3>2
  <2> QED BY <2>1, <2>2 DEF Prepared
<1>6. ASSUME NEW t \in Servers, NEW r \in Records, spc[t] \in Serving,
             t \in semsets, r < si[t], sems'[t][r] = 0
      PROVE  \E d \in Clients : ClosedBy(d, t, r)'
  <2>1. CASE csem[c] = t /\ freee[c] = r
    <3>1. v = 0 /\ cpc'[c] = "claimed"
      BY <1>2, <1>3, <1>6, <2>1 DEF Inv, Types
    <3> QED BY <1>1, <2>1, <3>1 DEF ClosedBy, Holds
  <2>2. CASE ~(csem[c] = t /\ freee[c] = r)
    <3>1. sems[t][r] = 0
      BY <1>3, <1>6, <2>2
    <3>2. PICK d \in Clients : ClosedBy(d, t, r)
      BY <1>6, <3>1 DEF Inv, Accounted, Shut
    <3>3. d # c
      BY <2>2, <3>2 DEF ClosedBy
    <3>4. cpc'[d] = cpc[d]
      BY <1>2, <3>3 DEF Inv, Types
    <3> QED BY <1>1, <3>2, <3>4 DEF ClosedBy, Holds
  <2> QED BY <2>1, <2>2
<1>7. Accounted'
  BY <1>1, <1>6 DEF Accounted, Shut
<1> QED BY <1>4, <1>5, <1>7

\* The steps without one of their own.
ServerMoves(s) ==
  \/ Start(s) \/ SemGet(s) \/ SemClose(s) \/ ShmGet(s) \/ ShmStore(s) \/ ShmAt(s) \/
      Ready(s) \/ CleanUp(s) \/ CleanedUp(s) \/ Count(s) \/ PrintTyp(s) \/ PrintRecord(s) \/
      SInt(s) \/ STstp(s) \/ SKill(s)

ClientMoves(c) ==
  \/ CShmGet(c) \/ CStat(c) \/ CSemGet(c) \/ CShmAt(c) \/ CTyp(c) \/ CGetVal(c) \/
      CSignal(c) \/ CMark(c) \/ CRead(c) \/ CLogin(c) \/ CDetach(c) \/ CLeave(c) \/
      CAbort(c) \/ CInt(c) \/ CKill(c)

\* The steps of a server, for one part of the invariant after the other.
LEMMA ServerTypes ==
  ASSUME Inv, NEW s \in Servers, ServerMoves(s)
  PROVE  Types'
<1> USE Ids DEF Inv, Types, SPlaces, Stages, clientVars, serverVars, kernelVars, history,
    bounds, SGo
<1>1. CASE Start(s)
  BY <1>1 DEF Start
<1>2. CASE SemGet(s)
  BY <1>2 DEF SemGet
<1>3. CASE SemClose(s)
  <2>1. CASE s \in semsets
    <3>1. sems' = [sems EXCEPT ![s] = [r \in Records |-> 0]]
      BY <1>3, <2>1 DEF SemClose
    <3>2. sems' \in [Servers -> [Records -> {0, 1}]]
      BY <3>1
    <3>3. spc' \in [Servers -> SPlaces]
      <4>1. spc' = [spc EXCEPT ![s] = "shmget"]
        BY <1>3, <2>1 DEF SemClose
      <4> QED BY <4>1
    <3> QED BY <1>3, <2>1, <3>2, <3>3 DEF SemClose
  <2>2. CASE s \notin semsets
    BY <1>3, <2>2 DEF SemClose
  <2> QED BY <2>1, <2>2
<1>4. CASE ShmGet(s)
  BY <1>4 DEF ShmGet, RemovedSets, LiveSegs
<1>5. CASE ShmStore(s)
  BY <1>5 DEF ShmStore
<1>6. CASE ShmAt(s)
  BY <1>6 DEF ShmAt, RemovedSets, SegExists
<1>7. CASE Ready(s)
  BY <1>7 DEF Ready
<1>8. CASE CleanUp(s)
  BY <1>8 DEF CleanUp, RemovedSets, RemovedSegs
<1>9. CASE CleanedUp(s)
  BY <1>9 DEF CleanedUp
<1>10. CASE Count(s)
  BY <1>10 DEF Count, PrintOnly
<1>11. CASE PrintTyp(s)
  BY <1>11 DEF PrintTyp, PrintOnly
<1>12. CASE PrintRecord(s)
  BY <1>12 DEF PrintRecord, PrintOnly
<1>13. CASE SInt(s)
  BY <1>13 DEF SInt, SRunning, Signal
<1>14. CASE STstp(s)
  BY <1>14 DEF STstp, SRunning, Signal
<1>15. CASE SKill(s)
  BY <1>15 DEF SKill, SRunning
<1> QED BY <1>1, <1>2, <1>3, <1>4, <1>5, <1>6, <1>7, <1>8, <1>9, <1>10, <1>11, <1>12, <1>13,
    <1>14, <1>15 DEF ServerMoves

LEMMA ServerStored ==
  ASSUME Inv, NEW s \in Servers, ServerMoves(s)
  PROVE  Stored'
<1> USE Ids DEF Inv, Types, Stored, SPlaces, Stages, Serving, SGo, clientVars, serverVars,
    kernelVars, history, bounds
<1>1. CASE Start(s)
  BY <1>1 DEF Start
<1>2. CASE SemGet(s)
  BY <1>2 DEF SemGet
<1>3. CASE SemClose(s)
  BY <1>3 DEF SemClose
<1>4. CASE ShmGet(s)
  BY <1>4 DEF ShmGet, RemovedSets, LiveSegs
<1>5. CASE ShmStore(s)
  BY <1>5 DEF ShmStore
<1>6. CASE ShmAt(s)
  BY <1>6 DEF ShmAt, RemovedSets, SegExists
<1>7. CASE Ready(s)
  BY <1>7 DEF Ready
<1>8. CASE CleanUp(s)
  BY <1>8 DEF CleanUp, RemovedSets, RemovedSegs
<1>9. CASE CleanedUp(s)
  BY <1>9 DEF CleanedUp
<1>10. CASE Count(s)
  BY <1>10 DEF Count, PrintOnly
<1>11. CASE PrintTyp(s)
  BY <1>11 DEF PrintTyp, PrintOnly
<1>12. CASE PrintRecord(s)
  BY <1>12 DEF PrintRecord, PrintOnly
<1>13. CASE SInt(s)
  BY <1>13 DEF SInt, SRunning, Signal
<1>14. CASE STstp(s)
  BY <1>14 DEF STstp, SRunning, Signal
<1>15. CASE SKill(s)
  BY <1>15 DEF SKill, SRunning
<1> QED BY <1>1, <1>2, <1>3, <1>4, <1>5, <1>6, <1>7, <1>8, <1>9, <1>10, <1>11, <1>12, <1>13,
    <1>14, <1>15 DEF ServerMoves

LEMMA ServerPrepared ==
  ASSUME Inv, NEW s \in Servers, ServerMoves(s)
  PROVE  Prepared'
<1> USE Ids DEF Inv, Types, Stored, Prepared, SPlaces, Stages, Serving, SGo, Claiming,
    clientVars, serverVars, kernelVars, history, bounds
<1>1. CASE Start(s)
  BY <1>1 DEF Start
<1>2. CASE SemGet(s)
  BY <1>2 DEF SemGet
<1>3. CASE SemClose(s)
  BY <1>3 DEF SemClose
<1>4. CASE ShmGet(s)
  BY <1>4 DEF ShmGet, RemovedSets, LiveSegs
<1>5. CASE ShmStore(s)
  BY <1>5 DEF ShmStore
<1>6. CASE ShmAt(s)
  BY <1>6 DEF ShmAt, RemovedSets, SegExists
<1>7. CASE Ready(s)
  BY <1>7 DEF Ready
<1>8. CASE CleanUp(s)
  BY <1>8 DEF CleanUp, RemovedSets, RemovedSegs
<1>9. CASE CleanedUp(s)
  BY <1>9 DEF CleanedUp
<1>10. CASE Count(s)
  BY <1>10 DEF Count, PrintOnly
<1>11. CASE PrintTyp(s)
  BY <1>11 DEF PrintTyp, PrintOnly
<1>12. CASE PrintRecord(s)
  BY <1>12 DEF PrintRecord, PrintOnly
<1>13. CASE SInt(s)
  BY <1>13 DEF SInt, SRunning, Signal
<1>14. CASE STstp(s)
  BY <1>14 DEF STstp, SRunning, Signal
<1>15. CASE SKill(s)
  BY <1>15 DEF SKill, SRunning
<1> QED BY <1>1, <1>2, <1>3, <1>4, <1>5, <1>6, <1>7, <1>8, <1>9, <1>10, <1>11, <1>12, <1>13,
    <1>14, <1>15 DEF ServerMoves

LEMMA ServerRemoved ==
  ASSUME Inv, NEW s \in Servers, ServerMoves(s)
  PROVE  Removed' /\ StoredRemoved'
<1> USE Ids DEF Inv, Types, Stored, Removed, StoredRemoved, SPlaces, Stages, Serving, SGo,
    clientVars, serverVars, kernelVars, history, bounds
<1>1. CASE Start(s)
  BY <1>1 DEF Start
<1>2. CASE SemGet(s)
  BY <1>2 DEF SemGet
<1>3. CASE SemClose(s)
  BY <1>3 DEF SemClose
<1>4. CASE ShmGet(s)
  BY <1>4 DEF ShmGet, RemovedSets, LiveSegs
<1>5. CASE ShmStore(s)
  BY <1>5 DEF ShmStore
<1>6. CASE ShmAt(s)
  BY <1>6 DEF ShmAt, RemovedSets, SegExists
<1>7. CASE Ready(s)
  BY <1>7 DEF Ready
<1>8. CASE CleanUp(s)
  BY <1>8 DEF CleanUp, RemovedSets, RemovedSegs
<1>9. CASE CleanedUp(s)
  BY <1>9 DEF CleanedUp
<1>10. CASE Count(s)
  BY <1>10 DEF Count, PrintOnly
<1>11. CASE PrintTyp(s)
  BY <1>11 DEF PrintTyp, PrintOnly
<1>12. CASE PrintRecord(s)
  BY <1>12 DEF PrintRecord, PrintOnly
<1>13. CASE SInt(s)
  BY <1>13 DEF SInt, SRunning, Signal
<1>14. CASE STstp(s)
  BY <1>14 DEF STstp, SRunning, Signal
<1>15. CASE SKill(s)
  BY <1>15 DEF SKill, SRunning
<1> QED BY <1>1, <1>2, <1>3, <1>4, <1>5, <1>6, <1>7, <1>8, <1>9, <1>10, <1>11, <1>12, <1>13,
    <1>14, <1>15 DEF ServerMoves

LEMMA ServerShut ==
  ASSUME Inv, NEW s \in Servers, ServerMoves(s), NEW t \in Servers, NEW r \in Records, Shut(t, r)'
  PROVE  Shut(t, r) /\ UNCHANGED clientVars
<1> USE Ids DEF Inv, Types, Stored, Shut, SPlaces, Stages, Serving, SGo, clientVars,
    serverVars, kernelVars, history, bounds
<1>1. CASE Start(s)
  BY <1>1 DEF Start
<1>2. CASE SemGet(s)
  BY <1>2 DEF SemGet
<1>3. CASE SemClose(s)
  BY <1>3 DEF SemClose
<1>4. CASE ShmGet(s)
  BY <1>4 DEF ShmGet, RemovedSets, LiveSegs
<1>5. CASE ShmStore(s)
  BY <1>5 DEF ShmStore
<1>6. CASE ShmAt(s)
  BY <1>6 DEF ShmAt, RemovedSets, SegExists
<1>7. CASE Ready(s)
  BY <1>7 DEF Ready
<1>8. CASE CleanUp(s)
  BY <1>8 DEF CleanUp, RemovedSets, RemovedSegs
<1>9. CASE CleanedUp(s)
  BY <1>9 DEF CleanedUp
<1>10. CASE Count(s)
  BY <1>10 DEF Count, PrintOnly
<1>11. CASE PrintTyp(s)
  BY <1>11 DEF PrintTyp, PrintOnly
<1>12. CASE PrintRecord(s)
  BY <1>12 DEF PrintRecord, PrintOnly
<1>13. CASE SInt(s)
  BY <1>13 DEF SInt, SRunning, Signal
<1>14. CASE STstp(s)
  BY <1>14 DEF STstp, SRunning, Signal
<1>15. CASE SKill(s)
  BY <1>15 DEF SKill, SRunning
<1> QED BY <1>1, <1>2, <1>3, <1>4, <1>5, <1>6, <1>7, <1>8, <1>9, <1>10, <1>11, <1>12, <1>13,
    <1>14, <1>15 DEF ServerMoves

LEMMA ServerAccounted ==
  ASSUME Inv, NEW s \in Servers, ServerMoves(s)
  PROVE  Accounted'
<1> SUFFICES ASSUME NEW t \in Servers, NEW r \in Records, Shut(t, r)'
             PROVE  \E d \in Clients : ClosedBy(d, t, r)'
  BY DEF Accounted
<1>1. Shut(t, r) /\ UNCHANGED clientVars
  BY ServerShut
<1>2. PICK d \in Clients : ClosedBy(d, t, r)
  BY <1>1 DEF Inv, Accounted
<1> QED BY <1>1, <1>2 DEF ClosedBy, Holds, clientVars

LEMMA GoTyped ==
  ASSUME Types, NEW c \in Clients, NEW a, NEW b \in CPlaces, CGo(c, a, b)
  PROVE  cpc' \in [Clients -> CPlaces]
BY DEF Types, CGo

\* The same for the steps of a client.
LEMMA ClientTypes ==
  ASSUME Inv, NEW c \in Clients, ClientMoves(c)
  PROVE  Types'
<1> USE Ids DEF Inv, Types, CPlaces, Claiming, clientVars, serverVars, kernelVars, history,
    bounds, clientOnly, CGo
<1>1. CASE CShmGet(c)
  BY <1>1 DEF CShmGet
<1>2. CASE CStat(c)
  BY <1>2 DEF CStat
<1>3. CASE CSemGet(c)
  <2>1. PICK b \in {"shmat", "exited"} : CGo(c, "semget", b)
    BY <1>3 DEF CSemGet
  <2>2. cpc' \in [Clients -> CPlaces]
    BY <2>1, GoTyped DEF Types, CPlaces
  <2>3. csem' = csem \/ \E t \in semsets : csem' = [csem EXCEPT ![c] = t]
    BY <1>3 DEF CSemGet
  <2>4. csem' \in [Clients -> Servers \cup {Zero}]
    BY <2>3 DEF Types
  <2>5. UNCHANGED <<ci, freee, kernelVars, serverVars>>
    BY <1>3 DEF CSemGet, clientOnly
  <2> QED BY <2>2, <2>4, <2>5 DEF Types, kernelVars, serverVars
<1>4. CASE CShmAt(c)
  BY <1>4 DEF CShmAt
<1>5. CASE CTyp(c)
  <2>1. PICK b \in {"getval", "typ", "exited"} : CGo(c, "typ", b)
    BY <1>5 DEF CTyp
  <2>2. cpc' \in [Clients -> CPlaces]
    BY <2>1, GoTyped DEF Types, CPlaces, Claiming
  <2>3. ci' = ci \/ ci' = [ci EXCEPT ![c] = @ + 1]
    BY <1>5 DEF CTyp
  <2>4. ci' \in [Clients -> Nat]
    BY <2>3 DEF Types
  <2>5. UNCHANGED <<csem, freee, kernelVars, serverVars>>
    BY <1>5 DEF CTyp, clientOnly
  <2> QED BY <2>2, <2>4, <2>5 DEF Types, kernelVars, serverVars
<1>6. CASE CGetVal(c)
  <2>1. PICK b \in {"setval", "typ", "exited"} : CGo(c, "getval", b)
    BY <1>6 DEF CGetVal
  <2>2. cpc' \in [Clients -> CPlaces]
    BY <2>1, GoTyped DEF Types, CPlaces, Claiming
  <2>3. ci' = ci \/ ci' = [ci EXCEPT ![c] = @ + 1]
    BY <1>6 DEF CGetVal
  <2>4. ci' \in [Clients -> Nat]
    BY <2>3 DEF Types
  <2>5. ci[c] \in Records
    BY <1>6 DEF CGetVal, Prepared
  <2>6. freee' = freee \/ freee' = [freee EXCEPT ![c] = ci[c]]
    BY <1>6 DEF CGetVal
  <2>7. freee' \in [Clients -> Records \cup {None}]
    BY <2>5, <2>6 DEF Types
  <2>8. UNCHANGED <<csem, kernelVars, serverVars>>
    BY <1>6 DEF CGetVal, clientOnly
  <2> QED BY <2>2, <2>4, <2>7, <2>8 DEF Types, kernelVars, serverVars
<1>7. CASE CSignal(c)
  BY <1>7 DEF CSignal
<1>8. CASE CMark(c)
  BY <1>8 DEF CMark, CWrite
<1>9. CASE CRead(c)
  BY <1>9 DEF CRead, CWrite
<1>10. CASE CLogin(c)
  BY <1>10 DEF CLogin, CWrite
<1>11. CASE CDetach(c)
  BY <1>11 DEF CDetach
<1>12. CASE CLeave(c)
  BY <1>12 DEF CLeave
<1>13. CASE CAbort(c)
  BY <1>13 DEF CAbort, CWrite
<1>14. CASE CInt(c)
  BY <1>14 DEF CInt, CRunning, Signal
<1>15. CASE CKill(c)
  BY <1>15 DEF CKill, CRunning
<1> QED BY <1>1, <1>2, <1>3, <1>4, <1>5, <1>6, <1>7, <1>8, <1>9, <1>10, <1>11, <1>12, <1>13,
    <1>14, <1>15 DEF ClientMoves

LEMMA ClientPrepared ==
  ASSUME Inv, NEW c \in Clients, ClientMoves(c)
  PROVE  Prepared'
<1> USE Ids DEF Inv, Types, Prepared, Claiming, Handled, clientVars, serverVars, kernelVars,
    history, bounds, clientOnly, CGo
<1>1. CASE CShmGet(c)
  BY <1>1 DEF CShmGet
<1>2. CASE CStat(c)
  BY <1>2 DEF CStat
<1>3. CASE CSemGet(c)
  BY <1>3 DEF CSemGet
<1>4. CASE CShmAt(c)
  BY <1>4 DEF CShmAt
<1>5. CASE CTyp(c)
  BY <1>5 DEF CTyp
<1>6. CASE CGetVal(c)
  BY <1>6 DEF CGetVal, GetVal, SetExists
<1>7. CASE CSignal(c)
  BY <1>7 DEF CSignal
<1>8. CASE CMark(c)
  BY <1>8 DEF CMark, CWrite
<1>9. CASE CRead(c)
  BY <1>9 DEF CRead, CWrite
<1>10. CASE CLogin(c)
  BY <1>10 DEF CLogin, CWrite
<1>11. CASE CDetach(c)
  BY <1>11 DEF CDetach
<1>12. CASE CLeave(c)
  BY <1>12 DEF CLeave
<1>13. CASE CAbort(c)
  BY <1>13 DEF CAbort, CWrite
<1>14. CASE CInt(c)
  BY <1>14 DEF CInt, CRunning, Signal
<1>15. CASE CKill(c)
  BY <1>15 DEF CKill, CRunning
<1> QED BY <1>1, <1>2, <1>3, <1>4, <1>5, <1>6, <1>7, <1>8, <1>9, <1>10, <1>11, <1>12, <1>13,
    <1>14, <1>15 DEF ClientMoves

LEMMA ClientAccounted ==
  ASSUME Inv, NEW c \in Clients, ClientMoves(c)
  PROVE  Accounted'
<1> USE Ids DEF Inv, Types, Prepared, Accounted, Shut, ClosedBy, Holds, Claiming, Handled,
    clientVars, serverVars, kernelVars, history, bounds, clientOnly, CGo
<1>1. CASE CShmGet(c)
  <2> SUFFICES ASSUME NEW t \in Servers, NEW r \in Records, (spc[t] \in Serving)',
                      (t \in semsets)', (r < si[t])', sems'[t][r] = 0
               PROVE  \E d \in Clients : ClosedBy(d, t, r)'
    OBVIOUS
  <2>1. PICK d \in Clients : ClosedBy(d, t, r)
    BY <1>1 DEF CShmGet
  <2> QED BY <1>1, <2>1 DEF CShmGet
<1>2. CASE CStat(c)
  <2> SUFFICES ASSUME NEW t \in Servers, NEW r \in Records, (spc[t] \in Serving)',
                      (t \in semsets)', (r < si[t])', sems'[t][r] = 0
               PROVE  \E d \in Clients : ClosedBy(d, t, r)'
    OBVIOUS
  <2>1. PICK d \in Clients : ClosedBy(d, t, r)
    BY <1>2 DEF CStat
  <2> QED BY <1>2, <2>1 DEF CStat
<1>3. CASE CSemGet(c)
  <2> SUFFICES ASSUME NEW t \in Servers, NEW r \in Records, (spc[t] \in Serving)',
                      (t \in semsets)', (r < si[t])', sems'[t][r] = 0
               PROVE  \E d \in Clients : ClosedBy(d, t, r)'
    OBVIOUS
  <2>1. PICK d \in Clients : ClosedBy(d, t, r)
    BY <1>3 DEF CSemGet
  <2> QED BY <1>3, <2>1 DEF CSemGet
<1>4. CASE CShmAt(c)
  <2> SUFFICES ASSUME NEW t \in Servers, NEW r \in Records, (spc[t] \in Serving)',
                      (t \in semsets)', (r < si[t])', sems'[t][r] = 0
               PROVE  \E d \in Clients : ClosedBy(d, t, r)'
    OBVIOUS
  <2>1. PICK d \in Clients : ClosedBy(d, t, r)
    BY <1>4 DEF CShmAt
  <2> QED BY <1>4, <2>1 DEF CShmAt
<1>5. CASE CTyp(c)
  <2> SUFFICES ASSUME NEW t \in Servers, NEW r \in Records, (spc[t] \in Serving)',
                      (t \in semsets)', (r < si[t])', sems'[t][r] = 0
               PROVE  \E d \in Clients : ClosedBy(d, t, r)'
    OBVIOUS
  <2>1. PICK d \in Clients : ClosedBy(d, t, r)
    BY <1>5 DEF CTyp
  <2> QED BY <1>5, <2>1 DEF CTyp
<1>6. CASE CGetVal(c)
  <2> SUFFICES ASSUME NEW t \in Servers, NEW r \in Records, (spc[t] \in Serving)',
                      (t \in semsets)', (r < si[t])', sems'[t][r] = 0
               PROVE  \E d \in Clients : ClosedBy(d, t, r)'
    OBVIOUS
  <2>1. PICK d \in Clients : ClosedBy(d, t, r)
    BY <1>6 DEF CGetVal
  <2> QED BY <1>6, <2>1 DEF CGetVal
<1>7. CASE CSignal(c)
  BY <1>7 DEF CSignal
<1>8. CASE CMark(c)
  BY <1>8 DEF CMark, CWrite
<1>9. CASE CRead(c)
  BY <1>9 DEF CRead, CWrite
<1>10. CASE CLogin(c)
  BY <1>10 DEF CLogin, CWrite
<1>11. CASE CDetach(c)
  BY <1>11 DEF CDetach
<1>12. CASE CLeave(c)
  <2> SUFFICES ASSUME NEW t \in Servers, NEW r \in Records, (spc[t] \in Serving)',
                      (t \in semsets)', (r < si[t])', sems'[t][r] = 0
               PROVE  \E d \in Clients : ClosedBy(d, t, r)'
    OBVIOUS
  <2>1. PICK d \in Clients : ClosedBy(d, t, r)
    BY <1>12 DEF CLeave
  <2> QED BY <1>12, <2>1 DEF CLeave
<1>13. CASE CAbort(c)
  BY <1>13 DEF CAbort, CWrite
<1>14. CASE CInt(c)
  BY <1>14 DEF CInt, CRunning, Signal
<1>15. CASE CKill(c)
  BY <1>15 DEF CKill, CRunning
<1> QED BY <1>1, <1>2, <1>3, <1>4, <1>5, <1>6, <1>7, <1>8, <1>9, <1>10, <1>11, <1>12, <1>13,
    <1>14, <1>15 DEF ClientMoves

\* No client changes what a server knows, nor which objects exist.
LEMMA ClientKeeps ==
  ASSUME NEW c \in Clients, ClientStep(c) \/ CInt(c) \/ CKill(c)
  PROVE  UNCHANGED <<spc, sem, shm, si, todo, semsets, segs, stopped>>
<1> USE DEF serverVars, kernelVars, clientOnly, history
<1>1. CASE CShmGet(c) \/ CStat(c) \/ CSemGet(c) \/ CShmAt(c)
  BY <1>1 DEF CShmGet, CStat, CSemGet, CShmAt
<1>2. CASE CTyp(c) \/ CGetVal(c) \/ CClaim(c) \/ CSignal(c)
  BY <1>2 DEF CTyp, CGetVal, CClaim, CSignal, CSetVal
<1>3. CASE CMark(c) \/ CRead(c) \/ CLogin(c) \/ CDetach(c) \/ CAbort(c)
  BY <1>3 DEF CMark, CRead, CLogin, CDetach, CAbort, CWrite
<1>4. CASE CRelease(c) \/ CLeave(c) \/ CUnlock(c)
  BY <1>4 DEF CRelease, CLeave, CUnlock, CSetVal
<1>5. CASE CInt(c) \/ CKill(c)
  BY <1>5 DEF CInt, CKill
<1> QED BY <1>1, <1>2, <1>3, <1>4, <1>5 DEF ClientStep

LEMMA ServerInv ==
  ASSUME Inv, NEW s \in Servers, Start(s) \/ ServerStep(s) \/ SInt(s) \/ STstp(s) \/ SKill(s)
  PROVE  Inv'
<1>1. CASE InitRecord(s)
  BY <1>1, InitRecordInv DEF Inv
<1>2. CASE ServerMoves(s)
  BY <1>2, ServerTypes, ServerStored, ServerPrepared, ServerRemoved, ServerAccounted DEF Inv
<1> QED BY <1>1, <1>2 DEF ServerStep, ServerMoves

LEMMA ClientInv ==
  ASSUME Inv, NEW c \in Clients, ClientStep(c) \/ CInt(c) \/ CKill(c)
  PROVE  Inv'
<1>1. Stored' /\ Removed' /\ StoredRemoved'
  BY ClientKeeps DEF Inv, Stored, Removed, StoredRemoved
<1>2. CASE CClaim(c)
  <2>1. CSetVal(c, "setval", 0, "claimed")
    BY <1>2 DEF CClaim
  <2> QED BY <1>1, <2>1, SetValInv, ClientKeeps DEF Inv, Claiming
<1>3. CASE CRelease(c)
  <2>1. CSetVal(c, "release", 1, "leave")
    BY <1>3 DEF CRelease
  <2> QED BY <1>1, <2>1, SetValInv, ClientKeeps DEF Inv, Claiming
<1>4. CASE CUnlock(c)
  <2>1. CSetVal(c, "unlock", 1, "exited")
    BY <1>4 DEF CUnlock
  <2> QED BY <1>1, <2>1, SetValInv, ClientKeeps DEF Inv, Claiming
<1>5. CASE ClientMoves(c)
  BY <1>1, <1>5, ClientTypes, ClientPrepared, ClientAccounted DEF Inv
<1> QED BY <1>2, <1>3, <1>4, <1>5 DEF ClientStep, ClientMoves

LEMMA InvHolds == Spec => []Inv
<1>1. Init => Inv
  <2> SUFFICES ASSUME Init PROVE Inv
    OBVIOUS
  <2>1. Types
    BY Ids DEF Init, Types, SPlaces, CPlaces
  <2>2. Stored /\ Removed /\ StoredRemoved
    BY DEF Init, Stored, Removed, StoredRemoved, Stages
  <2>3. Prepared /\ Accounted
    BY DEF Init, Prepared, Accounted, Shut, Claiming, Serving
  <2> QED BY <2>1, <2>2, <2>3 DEF Inv
<1>2. Inv /\ [Next]_vars => Inv'
  <2> SUFFICES ASSUME Inv, [Next]_vars PROVE Inv'
    OBVIOUS
  <2>1. CASE Next
    BY <2>1, ServerInv, ClientInv DEF Next
  <2>2. CASE UNCHANGED vars
    BY <2>2 DEF vars, serverVars, clientVars, kernelVars, Inv, Types, Stored, Prepared,
      Removed, StoredRemoved, Accounted, Shut, ClosedBy, Holds
  <2> QED BY <2>1, <2>2
<1> QED BY <1>1, <1>2, PTL DEF Spec

\* Nobody claims a record before its server has prepared it, for any number of
\* servers under the key and any restarts.
THEOREM ClaimsArePrepared == Spec => []ClaimedWasInitialised
<1>1. Inv => ClaimedWasInitialised
  BY DEF Inv, Prepared, ClaimedWasInitialised, Holds, Claiming
<1> QED BY <1>1, InvHolds, PTL

\* A closed semaphore of a serving server has a client behind it, or one that
\* died there.
THEOREM LocksAccounted == Spec => []LockAccounted
<1>1. Inv => LockAccounted
  BY Ids DEF Inv, Accounted, Shut, Stored, LockAccounted, ClosedBy, Serving
<1> QED BY <1>1, InvHolds, PTL

\* A server that ended but for a crash left nothing whose id it had stored.
THEOREM NothingStoredLeft == Spec => []StoredRemoved
BY InvHolds, PTL DEF Inv

-----------------------------------------------------------------------------
(* What a serving server made stays, but for the id 0 and a server that was     *)
(* interrupted before it had stored an id.                                     *)

Possess ==
  /\ \A s \in Servers :
       /\ spc[s] \in Stages => s \in semsets \/ ZeroRemoved(sem, s)
       /\ spc[s] \in {"shmgot", "shmat", "init", "ready"} =>
            segs[s] = "live" \/ ZeroRemoved(shm, s)
       /\ spc[s] = "cleaning" => s \in stopped
  /\ \A s, t \in semsets : s = t
  /\ \A s, t \in LiveSegs : s = t
  /\ stopped \subseteq Servers
  /\ \A t \in stopped : spc[t] \in {"cleaning", "exited", "crashed"}

\* A server that stopped keeps the ids it had.
LEMMA StoppedKeeps ==
  ASSUME Inv, Possess, [Next]_vars
  PROVE  /\ stopped \subseteq stopped'
         /\ \A t \in stopped : sem'[t] = sem[t] /\ shm'[t] = shm[t]
<1> USE DEF Inv, Types, Possess, SGo, kernelVars, serverVars, history
<1>3. ASSUME NEW c \in Clients, ClientStep(c) \/ CInt(c) \/ CKill(c)
      PROVE  UNCHANGED <<stopped, sem, shm>>
  BY <1>3, ClientKeeps
<1>4. CASE UNCHANGED vars
  BY <1>4 DEF vars
<1>5. ASSUME NEW s \in Servers, Start(s) \/ ServerStep(s) \/ SInt(s) \/ STstp(s) \/ SKill(s)
      PROVE  /\ stopped \subseteq stopped'
             /\ \A t \in stopped : sem'[t] = sem[t] /\ shm'[t] = shm[t]
  <2>1. CASE Start(s)
    BY <2>1 DEF Start
  <2>2. CASE SemGet(s)
    BY <2>2 DEF SemGet
  <2>3. CASE SemClose(s)
    BY <2>3 DEF SemClose
  <2>4. CASE ShmGet(s)
    BY <2>4 DEF ShmGet
  <2>5. CASE ShmStore(s)
    BY <2>5 DEF ShmStore
  <2>6. CASE ShmAt(s)
    BY <2>6 DEF ShmAt
  <2>7. CASE Ready(s)
    BY <2>7 DEF Ready
  <2>8. CASE CleanUp(s)
    BY <2>8 DEF CleanUp
  <2>9. CASE CleanedUp(s)
    BY <2>9 DEF CleanedUp
  <2>10. CASE Count(s)
    BY <2>10 DEF Count, PrintOnly
  <2>11. CASE PrintTyp(s)
    BY <2>11 DEF PrintTyp, PrintOnly
  <2>12. CASE PrintRecord(s)
    BY <2>12 DEF PrintRecord, PrintOnly
  <2>13. CASE SInt(s)
    BY <2>13 DEF SInt
  <2>14. CASE STstp(s)
    BY <2>14 DEF STstp
  <2>15. CASE SKill(s)
    BY <2>15 DEF SKill
  <2>16. CASE InitRecord(s)
    BY <2>16 DEF InitRecord
  <2> QED BY <1>5, <2>1, <2>2, <2>3, <2>4, <2>5, <2>6, <2>7, <2>8, <2>9,
      <2>10, <2>11, <2>12, <2>13, <2>14, <2>15, <2>16 DEF ServerStep
<1> QED BY <1>3, <1>4, <1>5 DEF Next

LEMMA PossessStep ==
  ASSUME Inv, Possess, [Next]_vars
  PROVE  Possess'
<1>1. \A s \in Servers : /\ Named(sem[s]) \in {s, Named(Zero)} /\ Named(shm[s]) \in {s, Named(Zero)}
                         /\ Named(sem[s]) # s => sem[s] = Zero
                         /\ Named(shm[s]) # s => shm[s] = Zero
  BY Ids DEF Inv, Stored
<1>2. \A s \in Servers : /\ ZeroRemoved(sem, s) => ZeroRemoved(sem, s)'
                         /\ ZeroRemoved(shm, s) => ZeroRemoved(shm, s)'
  BY StoppedKeeps DEF ZeroRemoved
<1>6. \A u \in stopped : \A s \in Servers \ {u} :
        /\ sem[u] = Zero /\ s = Named(Zero) => ZeroRemoved(sem, s)
        /\ shm[u] = Zero /\ s = Named(Zero) => ZeroRemoved(shm, s)
  BY Ids DEF ZeroRemoved
<1> USE Ids, <1>1, <1>2, <1>6 DEF Possess, LiveSegs, SGo, Stages, kernelVars, serverVars, history
<1>3. ASSUME NEW c \in Clients, ClientStep(c) \/ CInt(c) \/ CKill(c) PROVE Possess'
  <2>1. stopped' = stopped
    BY <1>3, ClientKeeps
  <2> QED BY <1>3, <2>1, ClientKeeps
<1>4. CASE UNCHANGED vars
  BY <1>4 DEF vars
<1>7. ASSUME UNCHANGED <<semsets, segs, stopped>>,
             \A u \in Servers :
               /\ spc'[u] \in Stages => spc[u] \in Stages
               /\ spc'[u] \in {"shmgot", "shmat", "init", "ready"} =>
                    spc[u] \in {"shmgot", "shmat", "init", "ready"}
               /\ spc'[u] = "cleaning" => spc[u] = "cleaning"
               /\ u \in stopped => spc'[u] \in {"cleaning", "exited", "crashed"}
      PROVE  Possess'
  BY <1>7
<1>5. ASSUME NEW s \in Servers, Start(s) \/ ServerStep(s) \/ SInt(s) \/ STstp(s) \/ SKill(s)
      PROVE  Possess'
  <2> USE DEF Inv, Types
  <2>1. CASE Start(s)
    BY <2>1 DEF Start
  <2>2. CASE SemGet(s)
    BY <2>2 DEF SemGet
  <2>3. CASE SemClose(s)
    <3>1. UNCHANGED <<semsets, segs, stopped>>
      BY <2>3 DEF SemClose
    <3>2. spc[s] = "semgot" /\ \E q \in {"shmget", "exited"} : spc' = [spc EXCEPT ![s] = q]
      BY <2>3 DEF SemClose
    <3> QED BY <3>1, <3>2, <1>7
  <2>4. CASE ShmGet(s)
    <3>1. CASE LiveSegs = {}
      <4>1. /\ spc[s] = "shmget" /\ spc' = [spc EXCEPT ![s] = "shmgot"]
            /\ segs' = [segs EXCEPT ![s] = "live"] /\ UNCHANGED <<semsets, stopped>>
        BY <2>4, <3>1 DEF ShmGet
      <4>2. \A u \in Servers : segs[u] # "live"
        BY <3>1
      <4>3. \A u \in Servers : segs'[u] = "live" <=> u = s
        BY <4>1, <4>2
      <4>4. \A u \in Servers : u # s => spc'[u] = spc[u]
        BY <4>1
      <4> QED BY <4>1, <4>3, <4>4
    <3>2. CASE LiveSegs # {}
      <4>3. sem[s] = s
        BY <2>4, <3>2 DEF ShmGet, Stored
      <4>1. semsets' = semsets \ {s} /\ UNCHANGED <<segs, stopped>>
        BY <2>4, <3>2, <4>3 DEF ShmGet, RemovedSets
      <4>2. spc[s] = "shmget" /\ spc' = [spc EXCEPT ![s] = "exited"]
        BY <2>4, <3>2 DEF ShmGet
      <4> QED BY <4>1, <4>2
    <3> QED BY <3>1, <3>2
  <2>5. CASE ShmStore(s)
    <3>1. UNCHANGED <<semsets, segs, stopped>>
      BY <2>5 DEF ShmStore
    <3>2. spc[s] = "shmgot" /\ spc' = [spc EXCEPT ![s] = "shmat"]
      BY <2>5 DEF ShmStore
    <3> QED BY <3>1, <3>2, <1>7
  <2>6. CASE ShmAt(s)
    <3>1. CASE SegExists(shm[s])
      BY <2>6, <3>1, <1>7 DEF ShmAt
    <3>2. CASE ~SegExists(shm[s])
      <4>1. semsets' = semsets \ {s} /\ UNCHANGED <<segs, stopped>>
        BY <2>6, <3>2 DEF ShmAt, RemovedSets, Stored
      <4>2. spc[s] = "shmat" /\ spc' = [spc EXCEPT ![s] = "exited"]
        BY <2>6, <3>2 DEF ShmAt
      <4> QED BY <4>1, <4>2
    <3> QED BY <3>1, <3>2
  <2>7. CASE Ready(s)
    BY <2>7 DEF Ready
  <2>8. CASE CleanUp(s)
    BY <2>8 DEF CleanUp, RemovedSets, RemovedSegs
  <2>9. CASE CleanedUp(s)
    BY <2>9 DEF CleanedUp
  <2>10. CASE Count(s)
    BY <2>10 DEF Count, PrintOnly
  <2>11. CASE PrintTyp(s)
    BY <2>11 DEF PrintTyp, PrintOnly
  <2>12. CASE PrintRecord(s)
    BY <2>12 DEF PrintRecord, PrintOnly
  <2>13. CASE SInt(s)
    BY <2>13 DEF SInt, SRunning
  <2>14. CASE STstp(s)
    BY <2>14, <1>7 DEF STstp, SRunning
  <2>15. CASE SKill(s)
    BY <2>15 DEF SKill, SRunning
  <2>16. CASE InitRecord(s)
    <3>1. stopped' = stopped
      BY <2>16 DEF InitRecord
    <3>2. CASE spc' = spc /\ segs' = segs
      BY <2>16, <3>1, <3>2, <1>7, InitRecordFacts
    <3>3. CASE /\ spc' = [spc EXCEPT ![s] = "exited"]
               /\ segs' = [u \in Servers |->
                             IF u = s /\ segs[s] = "live" THEN "marked" ELSE segs[u]]
      BY <2>16, <3>1, <3>3, InitRecordFacts
    <3> QED BY <2>16, <3>2, <3>3, InitRecordFacts
  <2> QED BY <1>5, <2>1, <2>2, <2>3, <2>4, <2>5, <2>6, <2>7, <2>8, <2>9,
      <2>10, <2>11, <2>12, <2>13, <2>14, <2>15, <2>16 DEF ServerStep
<1> QED BY <1>3, <1>4, <1>5 DEF Next

LEMMA PossessHolds == Spec => [](Inv /\ Possess)
<1>1. Init => Possess
  BY DEF Init, Possess, LiveSegs, Stages
<1>2. Inv /\ Possess /\ [Next]_vars => Possess'
  BY PossessStep
<1> QED BY <1>1, <1>2, InvHolds, PTL DEF Spec

\* While a server serves, its set and its segment are the only ones of the key,
\* over any starts, errors, interrupts and crashes of the others; the exception
\* is an object with the id 0, which the globals hold before they are set, when
\* a server was interrupted before that.
THEOREM BookIsIntact == Spec => []BookIntact
<1>1. Inv /\ Possess => BookIntact
  BY DEF Inv, Types, Possess, BookIntact, LiveSegs, Stages
<1> QED BY <1>1, PossessHolds, PTL

-----------------------------------------------------------------------------
(* The entries, as long as no handler has removed what has the id 0.          *)

\* No server was interrupted before it had stored its ids, or no object has the
\* id 0.
NoneEarly ==
  IdZero = None \/ \A t \in stopped : sem[t] # Zero /\ shm[t] # Zero

\* A server past semget() has the live objects of the key.
Owners ==
  /\ \A s \in Servers :
       /\ spc[s] \in Stages => s \in semsets
       /\ spc[s] \in {"shmgot", "shmat", "init", "ready"} => segs[s] = "live"
  /\ \A s, t \in semsets : s = t
  /\ \A s, t \in LiveSegs : s = t

LEMMA NoneEarlyOwners ==
  ASSUME Possess, NoneEarly
  PROVE  Owners
<1>1. \A s \in Servers : ~ZeroRemoved(sem, s) /\ ~ZeroRemoved(shm, s)
  BY Ids DEF NoneEarly, ZeroRemoved
<1> QED BY <1>1 DEF Possess, Owners

LEMMA NoneEarlyBefore ==
  ASSUME Inv, Possess, [Next]_vars, NoneEarly'
  PROVE  NoneEarly
BY StoppedKeeps DEF NoneEarly

\* Clients that have not closed a semaphore yet, and clients that have.
Searching == {"shmget", "stat", "semget", "shmat", "typ", "getval", "setval"}
Past == {"claimed", "mark", "read", "login", "detach", "release", "leave", "abort",
         "unlock", "done"}

\* Servers without a segment yet, and servers with one.
Early == {"off", "semget", "semgot", "shmget"}
Mapped == {"shmgot", "shmat", "init", "ready"}
Ended == {"cleaning", "exited", "crashed"}

Entry == [typ : {0, 1}, txt : Clients \cup {None}, login : Clients \cup {None}]

Prints == [phase : {"off", "count", "typ", "value"}, i : Nat, written : Nat]

Kinds ==
  /\ cshm \in [Clients -> Servers \cup {Zero}]
  /\ claims \in [Servers -> [Records -> SUBSET Clients]]
  /\ book \in [Servers -> [Records -> Entry]]
  /\ prt \in [Servers -> Prints]
  /\ printed = [s \in Servers |-> printed[s]]
  /\ \A s \in Servers : prt[s].phase = "value" => prt[s].i \in Records

\* The ids that a client has found: the segment's first, then the set's; while
\* the server of the segment serves, the set is the same server's.
Found ==
  /\ \A c \in Clients :
       /\ cpc[c] \in {"shmget", "stat", "semget"} => csem[c] = Zero
       /\ cpc[c] \in (Past \cup Searching) \ {"shmget"} => cshm[c] \in Servers
       /\ cpc[c] \in Past => csem[c] \in Servers /\ freee[c] \in Records
  /\ \A s \in Servers : segs[s] # "none" => spc[s] \notin Early
  /\ \A c \in Clients : \A s \in Servers : cshm[c] = s =>
       /\ spc[s] \notin Early
       /\ spc[s] \in Mapped => csem[c] \in {Zero, s}

\* Who claimed a record, and that it was prepared then.
Claimers ==
  /\ \A s \in Servers : \A r \in Records : \A c \in claims[s][r] :
       /\ cpc[c] \notin Searching /\ freee[c] = r /\ s \in {cshm[c], csem[c]}
       /\ csem[c] # Zero
       /\ csem[c] = s => r < si[s]
  /\ \A c \in Clients : cpc[c] \in Past =>
       c \in claims[cshm[c]][freee[c]] /\ c \in claims[csem[c]][freee[c]]
  /\ \A c \in Clients : cpc[c] \in {"abort", "unlock"} => c \in interrupted

\* The only client of a record, which it found with its server's segment.
Sole(c, s, r) == claims[s][r] = {c} /\ c \notin interrupted /\ cshm[c] = s

Whole(c) == [typ |-> 1, txt |-> c, login |-> c]

\* Nobody opens the semaphore of a sole client.
Closed ==
  \A s \in Servers : \A r \in Records : \A c \in Clients :
    claims[s][r] = {c} /\ csem[c] = s /\ Holds(c) => sems[s][r] = 0

\* How far a client that is at p has filled its entry e, and that its semaphore,
\* of value v, is not open before the entry is whole.
Typed == {"read", "login", "detach", "release", "leave", "done"}
Worded == Typed \ {"read"}
Signed == Worded \ {"login"}
Fills(c, p, e, v) ==
  /\ p \in Typed => e.typ = 1
  /\ p \in Worded => e.txt = c
  /\ p \in Signed => e.login = c
  /\ v = 1 => e = Whole(c)
Filled ==
  \A s \in Servers : \A r \in Records : \A c \in Clients :
    spc[s] \in Serving /\ Sole(c, s, r) => Fills(c, cpc[c], book[s][r], sems[s][r])

\* A record with a type has a client that found it with its server's segment.
Marks ==
  \A s \in Servers : \A r \in Records :
    book[s][r].typ = 1 => \E c \in claims[s][r] : cshm[c] = s

\* What drukowanie() has seen, and what it has printed.
Seen ==
  \A s \in Servers :
    spc[s] \in Serving /\ prt[s].phase = "value" =>
      /\ claims[s][prt[s].i] # {}
      /\ \A c \in Clients :
           claims[s][prt[s].i] = {c} /\ c \notin interrupted =>
             cshm[c] = s /\ book[s][prt[s].i].typ = 1
Shown ==
  \A s \in Servers :
    spc[s] \in Serving /\ printed[s] # None =>
      /\ printed[s].rec \in Records /\ claims[s][printed[s].rec] # {}
      /\ \A c \in Clients :
           claims[s][printed[s].rec] = {c} /\ c \notin interrupted =>
             printed[s].txt = c /\ printed[s].login = c
Unprinted ==
  \A s \in Servers :
    spc[s] \notin Serving \cup Ended =>
      prt[s].phase = "off" /\ printed[s] = None

Entries ==
  Kinds /\ Found /\ Claimers /\ Closed /\ Filled /\ Marks /\ Seen /\ Shown /\ Unprinted

-----------------------------------------------------------------------------
\* The place of drukowanie() after a step of it.
LEMMA PrintsChange ==
  ASSUME NEW x \in Prints
  PROVE  /\ \A f \in {"off", "count", "typ", "value"} : [x EXCEPT !.phase = f] \in Prints
         /\ \A n \in Nat :
              /\ [x EXCEPT !.phase = "typ", !.i = n] \in Prints
              /\ [x EXCEPT !.phase = "typ", !.i = n].phase = "typ"
         /\ \A n \in Nat, m \in Nat :
              /\ [x EXCEPT !.i = n, !.written = m] \in Prints
              /\ [x EXCEPT !.i = n, !.written = m].phase = x.phase
<1>1. \A f \in {"off", "count", "typ", "value"} : [x EXCEPT !.phase = f] \in Prints
  BY DEF Prints
<1>2. ASSUME NEW n \in Nat
      PROVE  /\ [[x EXCEPT !.phase = "typ"] EXCEPT !.i = n] \in Prints
             /\ [[x EXCEPT !.phase = "typ"] EXCEPT !.i = n].phase = "typ"
  BY <1>1 DEF Prints
<1>3. \A n \in Nat : [x EXCEPT !.i = n] \in Prints
  BY DEF Prints
<1>4. ASSUME NEW n \in Nat, NEW m \in Nat
      PROVE  /\ [[x EXCEPT !.i = n] EXCEPT !.written = m] \in Prints
             /\ [[x EXCEPT !.i = n] EXCEPT !.written = m].phase = x.phase
  BY <1>3 DEF Prints
<1> QED BY <1>1, <1>2, <1>4

\* SIGTSTP finds a segment attached.
LEMMA StopPrints ==
  ASSUME Kinds, NEW s \in Servers, STstp(s), ServerAttached(s)
  PROVE  /\ printed' = printed /\ prt' \in [Servers -> Prints] /\ prt'[s].phase = "count"
         /\ spc[s] \in Serving \cup Ended
<1>1. printed' = printed /\ prt' = [prt EXCEPT ![s] = [prt[s] EXCEPT !.phase = "count"]]
  BY DEF STstp
<1>2. prt[s] \in Prints /\ [prt[s] EXCEPT !.phase = "count"].phase = "count"
  BY DEF Kinds, Prints
<1>3. [prt[s] EXCEPT !.phase = "count"] \in Prints
  BY <1>2, PrintsChange
<1>4. spc[s] \in Serving \cup Ended
  BY DEF ServerAttached, Serving, Ended
<1> QED BY <1>1, <1>2, <1>3, <1>4 DEF Kinds

\* What the steps of a server leave alone.
LEMMA ServerFrame ==
  ASSUME Inv, Kinds, NEW s \in Servers, ServerMoves(s)
  PROVE  /\ UNCHANGED <<cpc, csem, cshm, freee, book, claims, interrupted, si>>
         /\ \A t \in Servers : t # s =>
              spc'[t] = spc[t] /\ prt'[t] = prt[t] /\ printed'[t] = printed[t]
         /\ \/ sems' = sems
            \/ spc[s] = "semgot" /\ sems' = [sems EXCEPT ![s] = [r \in Records |-> 0]]
<1> USE DEF Inv, Types, Kinds, clientVars, serverVars, kernelVars, history, SGo
<1>1. CASE Start(s)
  BY <1>1 DEF Start
<1>2. CASE SemGet(s)
  BY <1>2 DEF SemGet
<1>3. CASE SemClose(s)
  BY <1>3 DEF SemClose
<1>4. CASE ShmGet(s)
  BY <1>4 DEF ShmGet, RemovedSets, LiveSegs
<1>5. CASE ShmStore(s)
  BY <1>5 DEF ShmStore
<1>6. CASE ShmAt(s)
  BY <1>6 DEF ShmAt, RemovedSets
<1>7. CASE Ready(s)
  BY <1>7 DEF Ready
<1>8. CASE CleanUp(s)
  BY <1>8 DEF CleanUp, RemovedSets, RemovedSegs
<1>9. CASE CleanedUp(s)
  BY <1>9 DEF CleanedUp
<1>10. CASE Count(s)
  BY <1>10 DEF Count, PrintOnly
<1>11. CASE PrintTyp(s)
  BY <1>11 DEF PrintTyp, PrintOnly
<1>12. CASE PrintRecord(s)
  BY <1>12 DEF PrintRecord, PrintOnly
<1>13. CASE SInt(s)
  BY <1>13 DEF SInt, SRunning
<1>14. CASE STstp(s)
  BY <1>14 DEF STstp, SRunning, ServerAttached
<1>15. CASE SKill(s)
  BY <1>15 DEF SKill, SRunning
<1> QED BY <1>1, <1>2, <1>3, <1>4, <1>5, <1>6, <1>7, <1>8, <1>9, <1>10,
      <1>11, <1>12, <1>13, <1>14, <1>15 DEF ServerMoves

\* The order of the places of a server.
LEMMA ServerOrder ==
  ASSUME Inv, NEW s \in Servers, ServerMoves(s)
  PROVE  /\ spc'[s] \in Serving => spc[s] \in Serving \cup {"shmat"}
         /\ spc'[s] \in Early => spc[s] \in Early
         /\ spc'[s] \in Mapped => spc[s] \in Mapped \cup {"shmget"}
         /\ spc'[s] \notin Serving \cup Ended => spc[s] \notin Serving \cup Ended
         /\ \A t \in Servers :
              segs'[t] # "none" => segs[t] # "none" \/ (t = s /\ spc'[t] = "shmgot")
<1> USE DEF Inv, Types, Early, Mapped, Serving, Ended, kernelVars, serverVars, SGo
<1>1. CASE Start(s)
  BY <1>1 DEF Start
<1>2. CASE SemGet(s)
  BY <1>2 DEF SemGet
<1>3. CASE SemClose(s)
  BY <1>3 DEF SemClose
<1>4. CASE ShmGet(s)
  BY <1>4 DEF ShmGet, RemovedSets, LiveSegs
<1>5. CASE ShmStore(s)
  BY <1>5 DEF ShmStore
<1>6. CASE ShmAt(s)
  BY <1>6 DEF ShmAt, RemovedSets
<1>7. CASE Ready(s)
  BY <1>7 DEF Ready
<1>8. CASE CleanUp(s)
  BY <1>8 DEF CleanUp, RemovedSets, RemovedSegs
<1>9. CASE CleanedUp(s)
  BY <1>9 DEF CleanedUp
<1>10. CASE Count(s)
  BY <1>10 DEF Count, PrintOnly
<1>11. CASE PrintTyp(s)
  BY <1>11 DEF PrintTyp, PrintOnly
<1>12. CASE PrintRecord(s)
  BY <1>12 DEF PrintRecord, PrintOnly
<1>13. CASE SInt(s)
  BY <1>13 DEF SInt, SRunning
<1>14. CASE STstp(s)
  BY <1>14 DEF STstp, SRunning, ServerAttached
<1>15. CASE SKill(s)
  BY <1>15 DEF SKill, SRunning
<1> QED BY <1>1, <1>2, <1>3, <1>4, <1>5, <1>6, <1>7, <1>8, <1>9, <1>10,
      <1>11, <1>12, <1>13, <1>14, <1>15 DEF ServerMoves

\* Outside the loops of drukowanie() nothing is seen or printed.
LEMMA ServerPrints ==
  ASSUME Inv, Kinds, NEW s \in Servers, ServerMoves(s)
  PROVE  \/ /\ printed' = printed /\ prt' \in [Servers -> Prints]
            /\ prt'[s].phase = "value" => prt'[s] = prt[s]
            /\ prt'[s].phase # "off" => prt[s].phase # "off" \/ spc[s] \in Serving \cup Ended
         \/ Count(s) \/ PrintTyp(s) \/ PrintRecord(s)
<1> USE DEF Inv, Types, Kinds, Prints, serverVars, Idle, SGo, Serving, Ended
<1>1. CASE Start(s)
  BY <1>1 DEF Start
<1>2. CASE SemGet(s)
  BY <1>2 DEF SemGet
<1>3. CASE SemClose(s)
  BY <1>3 DEF SemClose
<1>4. CASE ShmGet(s)
  BY <1>4 DEF ShmGet, RemovedSets, LiveSegs
<1>5. CASE ShmStore(s)
  BY <1>5 DEF ShmStore
<1>6. CASE ShmAt(s)
  BY <1>6 DEF ShmAt, RemovedSets
<1>7. CASE Ready(s)
  BY <1>7 DEF Ready
<1>8. CASE CleanUp(s)
  BY <1>8 DEF CleanUp, RemovedSets, RemovedSegs
<1>9. CASE CleanedUp(s)
  BY <1>9 DEF CleanedUp
<1>10. CASE SInt(s)
  BY <1>10 DEF SInt, SRunning
<1>11. CASE STstp(s)
  <2>1. CASE ServerAttached(s)
    BY <1>11, <2>1, StopPrints
  <2>2. CASE ~ServerAttached(s)
    BY <1>11, <2>2 DEF STstp, SRunning
  <2> QED BY <2>1, <2>2
<1>12. CASE SKill(s)
  BY <1>12 DEF SKill, SRunning
<1> QED BY <1>1, <1>2, <1>3, <1>4, <1>5, <1>6, <1>7, <1>8, <1>9, <1>10,
      <1>11, <1>12 DEF ServerMoves

\* The parts that the steps of servers keep by their frames.
LEMMA ServerKeepsIds ==
  ASSUME Inv, Owners, Kinds, Found, Claimers, Closed, Marks, NEW s \in Servers, ServerMoves(s)
  PROVE  Found' /\ Claimers' /\ Closed' /\ Marks'
<1>1. /\ UNCHANGED <<cpc, csem, cshm, freee, book, claims, interrupted, si>>
      /\ \A t \in Servers : t # s => spc'[t] = spc[t]
      /\ \/ sems' = sems
         \/ spc[s] = "semgot" /\ sems' = [sems EXCEPT ![s] = [r \in Records |-> 0]]
  BY ServerFrame
<1>2. \A t \in Servers :
        /\ spc'[t] \in Early => spc[t] \in Early
        /\ spc'[t] \in Mapped => spc[t] \in Mapped \cup {"shmget"}
        /\ segs'[t] # "none" => segs[t] # "none" \/ spc'[t] = "shmgot"
  BY <1>1, ServerOrder
<1>3. "shmget" \in Early /\ "shmgot" \notin Early
  BY DEF Early
<1>4. Found'
  BY <1>1, <1>2, <1>3 DEF Found
<1>5. Claimers' /\ Marks'
  BY <1>1 DEF Claimers, Marks
<1>6. Closed'
  <2>1. \A t \in Servers, q \in Records : sems'[t][q] = sems[t][q] \/ sems'[t][q] = 0
    <3>1. CASE sems' = sems
      BY <3>1
    <3>2. CASE sems' = [sems EXCEPT ![s] = [r \in Records |-> 0]]
      BY <3>2 DEF Inv, Types
    <3> QED BY <1>1, <3>1, <3>2
  <2> QED BY <1>1, <2>1 DEF Closed, Holds
<1> QED BY <1>4, <1>5, <1>6

\* While a server is mapped, its claimed records are those it had prepared.
LEMMA OwnClaims ==
  ASSUME Kinds, Found, Claimers, NEW s \in Servers, spc[s] \in Mapped,
         NEW r \in Records, NEW c \in claims[s][r]
  PROVE  c \in Clients /\ csem[c] = s /\ r < si[s] /\ freee[c] = r
<1>1. c \in Clients
  BY DEF Kinds
<1>2. csem[c] = s
  BY <1>1 DEF Found, Claimers
<1> QED BY <1>1, <1>2 DEF Claimers

\* Before a server serves, nobody has claimed a record of its segment.
LEMMA NoClaims ==
  ASSUME Inv, Kinds, Found, Claimers, NEW s \in Servers, spc[s] = "shmat",
         NEW r \in Records
  PROVE  claims[s][r] = {}
<1>1. si[s] = 0 /\ spc[s] \in Mapped
  BY DEF Inv, Stored, Mapped
<1>2. ~(r < 0)
  BY Ids
<1> QED BY <1>1, <1>2, OwnClaims

LEMMA ServerKeepsEntries ==
  ASSUME Inv, Kinds, Found, Claimers, Filled, NEW s \in Servers, ServerMoves(s)
  PROVE  Filled'
<1>1. /\ UNCHANGED <<cpc, csem, cshm, freee, book, claims, interrupted, si>>
      /\ \A t \in Servers : t # s => spc'[t] = spc[t]
      /\ \/ sems' = sems
         \/ spc[s] = "semgot" /\ sems' = [sems EXCEPT ![s] = [r \in Records |-> 0]]
  BY ServerFrame
<1>2. \A t \in Servers : spc'[t] \in Serving => spc[t] \in Serving \/ spc[t] = "shmat"
  BY <1>1, ServerOrder
<1>3. \A t \in Servers : spc[t] \in Serving => sems'[t] = sems[t]
  <2>1. CASE sems' = sems
    BY <2>1
  <2>2. CASE spc[s] = "semgot" /\ sems' = [sems EXCEPT ![s] = [r \in Records |-> 0]]
    BY <2>2 DEF Serving, Inv, Types
  <2> QED BY <1>1, <2>1, <2>2
<1> SUFFICES ASSUME NEW t \in Servers, NEW r \in Records, NEW c \in Clients,
                    spc'[t] \in Serving, Sole(c, t, r)'
             PROVE  Fills(c, cpc'[c], book'[t][r], sems'[t][r])
  BY DEF Filled
<1>4. Sole(c, t, r)
  BY <1>1 DEF Sole
<1>5. spc[t] \in Serving
  BY <1>2, <1>4, NoClaims DEF Sole
<1> QED BY <1>1, <1>3, <1>4, <1>5 DEF Filled, Fills

\* A step of drukowanie() after which no record is chosen.
LEMMA NoneSeen ==
  ASSUME Kinds, Seen, NEW s \in Servers,
         UNCHANGED <<spc, cshm, book, claims, interrupted>>,
         prt' \in [Servers -> Prints], prt'[s].phase # "value",
         \A t \in Servers : t # s => prt'[t] = prt[t],
         printed' = [t \in Servers |-> printed'[t]]
  PROVE  Kinds' /\ Seen'
<1>1. Kinds'
  BY DEF Kinds
<1>2. ASSUME NEW t \in Servers, spc[t] \in Serving, prt'[t].phase = "value"
      PROVE  /\ claims[t][prt'[t].i] # {}
             /\ \A d \in Clients :
                  claims[t][prt'[t].i] = {d} /\ d \notin interrupted =>
                    cshm[d] = t /\ book[t][prt'[t].i].typ = 1
  <2>1. t # s /\ prt'[t] = prt[t]
    BY <1>2
  <2> QED BY <1>2, <2>1 DEF Seen
<1> QED BY <1>1, <1>2 DEF Seen

LEMMA PrintTypSees ==
  ASSUME Inv, Kinds, Marks, Seen, Shown, NEW s \in Servers, PrintTyp(s)
  PROVE  Kinds' /\ Seen' /\ Shown'
<1>1. /\ UNCHANGED <<spc, cshm, book, claims, interrupted, printed>>
      /\ prt[s].phase = "typ"
  BY DEF PrintTyp, PrintOnly, clientVars, history
<1>2. prt \in [Servers -> Prints]
  BY DEF Kinds
<1>3. CASE /\ prt[s].i < rekord /\ book[s][prt[s].i].typ # 0
           /\ prt' = [prt EXCEPT ![s].phase = "value"]
  <2>1. prt' = [prt EXCEPT ![s] = [prt[s] EXCEPT !.phase = "value"]]
    BY <1>3
  <2>2. /\ prt' \in [Servers -> Prints]
        /\ prt'[s].i = prt[s].i /\ \A t \in Servers : t # s => prt'[t] = prt[t]
    <3>1. prt[s] \in Prints
      BY <1>2
    <3>2. /\ [prt[s] EXCEPT !.phase = "value"] \in Prints
          /\ [prt[s] EXCEPT !.phase = "value"].i = prt[s].i
      BY <3>1 DEF Prints
    <3> QED BY <1>2, <2>1, <3>2
  <2>3. prt[s].i \in Records
    BY <1>2, <1>3, Ids DEF Prints
  <2>4. Kinds'
    BY <1>1, <2>2, <2>3 DEF Kinds
  <2>5. book[s][prt[s].i].typ = 1
    BY <1>3, <2>3 DEF Kinds, Entry
  <2>6. PICK c \in claims[s][prt[s].i] : cshm[c] = s
    BY <2>3, <2>5 DEF Marks
  <2>7. Seen'
    <3> SUFFICES ASSUME NEW t \in Servers, spc'[t] \in Serving, prt'[t].phase = "value"
                 PROVE  (/\ claims[t][prt[t].i] # {}
                         /\ \A d \in Clients :
                              claims[t][prt[t].i] = {d} /\ d \notin interrupted =>
                                cshm[d] = t /\ book[t][prt[t].i].typ = 1)'
      BY DEF Seen
    <3>1. CASE t = s
      BY <1>1, <2>2, <2>5, <2>6, <3>1
    <3>2. CASE t # s
      BY <1>1, <2>2, <3>2 DEF Seen
    <3> QED BY <3>1, <3>2
  <2> QED BY <1>1, <2>4, <2>7 DEF Shown
<1>4. CASE prt' = [prt EXCEPT ![s].i = @ + 1] \/ prt' = [prt EXCEPT ![s] = Idle]
  <2>1. /\ prt' \in [Servers -> Prints]
        /\ prt'[s].phase # "value" /\ \A t \in Servers : t # s => prt'[t] = prt[t]
    <3>1. CASE prt' = [prt EXCEPT ![s].i = @ + 1]
      <4>1. prt' = [prt EXCEPT ![s] = [prt[s] EXCEPT !.i = prt[s].i + 1]]
        BY <3>1
      <4>2. prt[s] \in Prints
        BY <1>2
      <4>3. /\ [prt[s] EXCEPT !.i = prt[s].i + 1] \in Prints
            /\ [prt[s] EXCEPT !.i = prt[s].i + 1].phase = prt[s].phase
        BY <4>2 DEF Prints
      <4> QED BY <1>1, <1>2, <4>1, <4>3
    <3>2. CASE prt' = [prt EXCEPT ![s] = Idle]
      BY <1>2, <3>2 DEF Idle, Prints
    <3> QED BY <1>4, <3>1, <3>2
  <2>2. Kinds' /\ Seen'
    BY <1>1, <2>1, NoneSeen DEF Kinds
  <2> QED BY <1>1, <2>2 DEF Shown
<1> QED BY <1>3, <1>4 DEF PrintTyp

\* What is printed has an open semaphore: the entry of a sole client is whole.
LEMMA PrintRecordShows ==
  ASSUME Inv, Owners, Kinds, Filled, Seen, Shown, NEW s \in Servers, PrintRecord(s)
  PROVE  Kinds' /\ Seen' /\ Shown'
<1> DEFINE r == prt[s].i
<1>1. /\ UNCHANGED <<spc, cshm, book, claims, interrupted>>
      /\ prt[s].phase = "value" /\ r \in Records
  BY DEF PrintRecord, PrintOnly, clientVars, history, Kinds
<1>2. /\ prt' \in [Servers -> Prints]
      /\ prt'[s].phase = "typ" /\ \A t \in Servers : t # s => prt'[t] = prt[t]
  <2>1. prt[s] \in Prints
    BY DEF Kinds
  <2>2. prt' = [prt EXCEPT ![s] = [prt[s] EXCEPT !.phase = "typ", !.i = prt[s].i + 1]]
    BY DEF PrintRecord
  <2>3. /\ [prt[s] EXCEPT !.phase = "typ", !.i = prt[s].i + 1] \in Prints
        /\ [prt[s] EXCEPT !.phase = "typ", !.i = prt[s].i + 1].phase = "typ"
    <3>1. prt[s].i + 1 \in Nat
      BY <2>1 DEF Prints
    <3> QED BY <2>1, <3>1, PrintsChange
  <2> QED BY <2>2, <2>3 DEF Kinds
<1>3. /\ printed' = [t \in Servers |-> printed'[t]]
      /\ \A t \in Servers : t # s => printed'[t] = printed[t]
      /\ \/ printed'[s] = printed[s]
         \/ /\ GetVal(sem[s], r) # 0
            /\ printed'[s] = [rec |-> r, txt |-> book[s][r].txt, login |-> book[s][r].login]
  BY DEF PrintRecord, Kinds
<1>4. Kinds' /\ Seen'
  BY <1>1, <1>2, <1>3, NoneSeen
<1>5. ASSUME spc[s] \in Serving, GetVal(sem[s], r) # 0
      PROVE  sems[s][r] = 1
  <2>1. sem[s] = s /\ s \in semsets /\ Named(s) = s
    BY <1>5, Ids DEF Inv, Stored, Owners, Serving, Stages
  <2> QED BY <1>1, <1>5, <2>1 DEF GetVal, SetExists, Inv, Types
<1>6. Shown'
  <2> SUFFICES ASSUME NEW t \in Servers, spc[t] \in Serving, printed'[t] # None
               PROVE  /\ printed'[t].rec \in Records /\ claims[t][printed'[t].rec] # {}
                      /\ \A c \in Clients :
                           claims[t][printed'[t].rec] = {c} /\ c \notin interrupted =>
                             printed'[t].txt = c /\ printed'[t].login = c
    BY <1>1 DEF Shown
  <2>1. CASE printed'[t] = printed[t]
    BY <2>1 DEF Shown
  <2>2. CASE /\ t = s /\ GetVal(sem[s], r) # 0
             /\ printed'[s] = [rec |-> r, txt |-> book[s][r].txt, login |-> book[s][r].login]
    <3>1. claims[s][r] # {} /\ sems[s][r] = 1
      BY <1>1, <1>5, <2>2 DEF Seen
    <3>2. ASSUME NEW c \in Clients, claims[s][r] = {c}, c \notin interrupted
          PROVE  book[s][r].txt = c /\ book[s][r].login = c
      <4>1. Sole(c, s, r)
        BY <1>1, <2>2, <3>2 DEF Seen, Sole
      <4>2. book[s][r] = Whole(c)
        BY <1>1, <2>2, <3>1, <4>1 DEF Filled, Fills
      <4> QED BY <4>2 DEF Whole
    <3>3. /\ t = s /\ r \in Records /\ printed'[t].rec = r
          /\ printed'[t].txt = book[s][r].txt /\ printed'[t].login = book[s][r].login
      BY <1>1, <2>2
    <3> HIDE DEF r
    <3> QED BY <3>1, <3>2, <3>3
  <2> QED BY <1>3, <2>1, <2>2
<1> QED BY <1>4, <1>6

LEMMA CountSees ==
  ASSUME Inv, Kinds, Seen, Shown, NEW s \in Servers, Count(s)
  PROVE  Kinds' /\ Seen' /\ Shown'
<1>1. /\ UNCHANGED <<spc, cshm, book, claims, interrupted, printed>>
      /\ prt[s].phase = "count"
  BY DEF Count, PrintOnly, clientVars, history
<1>2. /\ prt' \in [Servers -> Prints]
      /\ prt'[s].phase # "value" /\ \A t \in Servers : t # s => prt'[t] = prt[t]
  <2> DEFINE w == book[s][prt[s].i].typ # 0 /\ GetVal(sem[s], prt[s].i) # 0
  <2>1. CASE prt' = [prt EXCEPT ![s].i = @ + 1, ![s].written = IF w THEN @ + 1 ELSE @]
    <3>1. prt' = [prt EXCEPT ![s] = [prt[s] EXCEPT !.i = prt[s].i + 1,
                    !.written = IF w THEN prt[s].written + 1 ELSE prt[s].written]]
      BY <2>1
    <3>2. prt[s] \in Prints
      BY DEF Kinds
    <3>3. ASSUME NEW x \in Nat
          PROVE  /\ [prt[s] EXCEPT !.i = prt[s].i + 1, !.written = x] \in Prints
                 /\ [prt[s] EXCEPT !.i = prt[s].i + 1, !.written = x].phase = prt[s].phase
      <4>1. prt[s].i + 1 \in Nat
        BY <3>2 DEF Prints
      <4>2. \A n \in Nat, m \in Nat :
              /\ [prt[s] EXCEPT !.i = n, !.written = m] \in Prints
              /\ [prt[s] EXCEPT !.i = n, !.written = m].phase = prt[s].phase
        BY <3>2, PrintsChange
      <4> QED BY <4>1, <4>2
    <3>4. (IF w THEN prt[s].written + 1 ELSE prt[s].written) \in Nat
      BY <3>2 DEF Prints
    <3> HIDE DEF w
    <3> QED BY <1>1, <3>1, <3>3, <3>4 DEF Kinds
  <2>2. CASE prt' = [prt EXCEPT ![s] = IF prt[s].written = 0 THEN Idle
                                       ELSE [Idle EXCEPT !.phase = "typ"]]
    BY <2>2 DEF Kinds, Idle, Prints
  <2> QED BY <2>1, <2>2 DEF Count
<1>3. Kinds' /\ Seen'
  BY <1>1, <1>2, NoneSeen DEF Kinds
<1> QED BY <1>1, <1>3 DEF Shown

LEMMA ServerKeepsPrinted ==
  ASSUME Inv, Owners, Entries, NEW s \in Servers, ServerMoves(s)
  PROVE  Kinds' /\ Seen' /\ Shown' /\ Unprinted'
<1>1. CASE Count(s) \/ PrintTyp(s) \/ PrintRecord(s)
  <2>1. Kinds' /\ Seen' /\ Shown'
    BY <1>1, CountSees, PrintTypSees, PrintRecordShows DEF Entries
  <2>2. spc' = spc /\ prt[s].phase # "off"
    BY <1>1 DEF Count, PrintTyp, PrintRecord, PrintOnly
  <2>3. \A t \in Servers : t # s => prt'[t] = prt[t] /\ printed'[t] = printed[t]
    BY ServerFrame DEF Entries
  <2>4. Unprinted'
    BY <2>2, <2>3 DEF Entries, Unprinted
  <2> QED BY <2>1, <2>4
<1>2. CASE /\ printed' = printed /\ prt' \in [Servers -> Prints]
           /\ prt'[s].phase = "value" => prt'[s] = prt[s]
           /\ prt'[s].phase # "off" => prt[s].phase # "off" \/ spc[s] \in Serving \cup Ended
  <2>1. /\ UNCHANGED <<cshm, book, claims, interrupted>>
        /\ \A t \in Servers : t # s => spc'[t] = spc[t] /\ prt'[t] = prt[t]
    BY ServerFrame DEF Entries
  <2>2. /\ spc'[s] \in Serving => spc[s] \in Serving \cup {"shmat"}
        /\ spc'[s] \notin Serving \cup Ended => spc[s] \notin Serving \cup Ended
    BY ServerOrder
  <2>3. "shmat" \notin Serving \cup Ended
    BY DEF Serving, Ended
  <2>4. \A t \in Servers : prt'[t].phase = "value" => prt'[t] = prt[t]
    BY <1>2, <2>1
  <2>5. Kinds'
    BY <1>2, <2>1, <2>4 DEF Entries, Kinds
  <2>6. Unprinted'
    BY <1>2, <2>1, <2>2 DEF Entries, Unprinted
  <2>7. \A t \in Servers : spc'[t] \in Serving =>
          spc[t] \in Serving \/ (prt[t].phase = "off" /\ printed[t] = None)
    BY <2>1, <2>2, <2>3 DEF Entries, Unprinted
  <2>8. Seen'
    <3> SUFFICES ASSUME NEW t \in Servers, spc'[t] \in Serving, prt'[t].phase = "value"
                 PROVE  /\ claims[t][prt'[t].i] # {}
                        /\ \A d \in Clients :
                             claims[t][prt'[t].i] = {d} /\ d \notin interrupted =>
                               cshm[d] = t /\ book[t][prt'[t].i].typ = 1
      BY <2>1 DEF Seen
    <3>1. prt'[t] = prt[t] /\ spc[t] \in Serving /\ prt[t].phase = "value"
      BY <2>4, <2>7
    <3> QED BY <3>1 DEF Entries, Seen
  <2>9. Shown'
    BY <1>2, <2>1, <2>7 DEF Entries, Shown
  <2> QED BY <2>5, <2>6, <2>8, <2>9
<1> QED BY <1>1, <1>2, ServerPrints DEF Entries

LEMMA ServerEntries ==
  ASSUME Inv, Owners, Entries, NEW s \in Servers, ServerMoves(s)
  PROVE  Entries'
<1>1. Found' /\ Claimers' /\ Closed' /\ Marks'
  BY ServerKeepsIds DEF Entries
<1>2. Filled'
  BY ServerKeepsEntries DEF Entries
<1>3. Kinds' /\ Seen' /\ Shown' /\ Unprinted'
  BY ServerKeepsPrinted
<1> QED BY <1>1, <1>2, <1>3 DEF Entries

\* The record that is prepared has no client.
LEMMA InitRecordEntries ==
  ASSUME Inv, Entries, NEW s \in Servers, InitRecord(s)
  PROVE  Entries'
<1> DEFINE r == si[s]
<1>1. /\ spc[s] = "init" /\ r \in Records
      /\ UNCHANGED <<cpc, csem, cshm, ci, freee, semsets, prt, printed, claims, interrupted>>
      /\ \A t \in Servers : t # s => spc'[t] = spc[t] /\ si'[t] = si[t]
      /\ spc'[s] \in {"init", "exited"} /\ si' \in [Servers -> Nat] /\ si[s] <= si'[s]
  <2>1. /\ spc[s] = "init" /\ r \in Records
        /\ UNCHANGED <<cpc, csem, cshm, ci, freee, semsets>>
    BY InitRecordFacts DEF Inv, clientVars
  <2>2. UNCHANGED <<prt, printed, claims, interrupted>>
    BY DEF InitRecord, history
  <2>3. \/ spc' = spc /\ si' = [si EXCEPT ![s] = si[s] + 1]
        \/ spc' = [spc EXCEPT ![s] = "exited"] /\ si' = si
    BY InitRecordFacts DEF Inv
  <2>4. /\ \A t \in Servers : t # s => spc'[t] = spc[t]
        /\ spc'[s] \in {"init", "exited"}
    BY <2>1, <2>3 DEF Inv, Types
  <2>5. /\ \A t \in Servers : t # s => si'[t] = si[t]
        /\ si' \in [Servers -> Nat] /\ si[s] <= si'[s]
    BY <2>3 DEF Inv, Types
  <2> QED BY <2>1, <2>2, <2>4, <2>5
<1>2. /\ \A t \in Servers, q \in Records : ~(t = s /\ q = r) => sems'[t][q] = sems[t][q]
      /\ \A t \in Servers : segs'[t] # "none" => segs[t] # "none"
  BY InitRecordFacts DEF Inv
<1>3. prt[s].phase = "off"
  BY DEF InitRecord, SGo
<1>4. /\ book' \in [Servers -> [Records -> Entry]]
      /\ \A t \in Servers, q \in Records : ~(t = s /\ q = r) => book'[t][q] = book[t][q]
      /\ book'[s][r].typ = 0
  <2>1. book' = [book EXCEPT ![s] = [book[s] EXCEPT ![r] =
                   [book[s][r] EXCEPT !.typ = 0, !.login = None]]]
    BY <1>1 DEF InitRecord, Entries, Kinds
  <2>2. book[s][r] \in Entry
    BY <1>1 DEF Entries, Kinds
  <2>3. /\ [book[s][r] EXCEPT !.typ = 0, !.login = None] \in Entry
        /\ [book[s][r] EXCEPT !.typ = 0, !.login = None].typ = 0
    BY <2>2 DEF Entry
  <2> QED BY <1>1, <2>1, <2>3 DEF Entries, Kinds
<1>5. claims[s][r] = {}
  <2>1. spc[s] \in Mapped /\ ~(r < si[s])
    BY <1>1, Ids DEF Mapped
  <2> QED BY <1>1, <2>1, OwnClaims DEF Entries
<1>6. Kinds'
  BY <1>1, <1>4 DEF Entries, Kinds
<1>7. Found'
  BY <1>1, <1>2 DEF Entries, Found, Early, Mapped
<1>8. Claimers'
  <2>1. \A t \in Servers, q \in Records : q < si[t] => q < si'[t]
    <3>1. \A t \in Servers : si[t] \in Nat /\ si'[t] \in Nat
      BY <1>1 DEF Inv, Types
    <3>2. \A t \in Servers : si[t] <= si'[t]
      <4>1. ASSUME NEW t \in Servers, t # s PROVE si[t] <= si'[t]
        BY <1>1, <3>1, <4>1
      <4> QED BY <1>1, <4>1
    <3> QED BY <3>1, <3>2, Ids
  <2> QED BY <1>1, <2>1 DEF Entries, Claimers
<1>9. Closed'
  <2> SUFFICES ASSUME NEW t \in Servers, NEW q \in Records, NEW c \in Clients,
                      claims[t][q] = {c}, csem[c] = t, Holds(c)'
               PROVE  sems'[t][q] = 0
    BY <1>1 DEF Closed
  <2>1. Holds(c) /\ ~(t = s /\ q = r)
    BY <1>1, <1>5 DEF Holds
  <2> QED BY <1>2, <2>1 DEF Entries, Closed
<1>10. \A t \in Servers : spc'[t] \in Serving => spc[t] \in Serving
  BY <1>1 DEF Serving
<1>11. Filled'
  <2> SUFFICES ASSUME NEW t \in Servers, NEW q \in Records, NEW c \in Clients,
                      spc'[t] \in Serving, Sole(c, t, q)'
               PROVE  Fills(c, cpc'[c], book'[t][q], sems'[t][q])
    BY DEF Filled
  <2>1. Sole(c, t, q) /\ spc[t] \in Serving
    BY <1>1, <1>10 DEF Sole
  <2>2. ~(t = s /\ q = r)
    BY <1>5, <2>1 DEF Sole
  <2> QED BY <1>1, <1>2, <1>4, <2>1, <2>2 DEF Entries, Filled, Fills
<1>12. Marks'
  BY <1>1, <1>4 DEF Entries, Marks
<1>13. Seen'
  <2> SUFFICES ASSUME NEW t \in Servers, spc'[t] \in Serving, prt[t].phase = "value"
               PROVE  /\ claims[t][prt[t].i] # {}
                      /\ \A d \in Clients :
                           claims[t][prt[t].i] = {d} /\ d \notin interrupted =>
                             cshm[d] = t /\ book'[t][prt[t].i].typ = 1
    BY <1>1 DEF Seen
  <2>1. t # s /\ prt[t].i \in Records /\ spc[t] \in Serving
    BY <1>3, <1>10 DEF Entries, Kinds
  <2> QED BY <1>4, <2>1 DEF Entries, Seen
<1>14. Shown' /\ Unprinted'
  BY <1>1, <1>10 DEF Entries, Shown, Unprinted, Serving, Ended
<1> QED BY <1>6, <1>7, <1>8, <1>9, <1>11, <1>12, <1>13, <1>14 DEF Entries

-----------------------------------------------------------------------------
(* The steps of clients. *)

Searches(c) ==
  CShmGet(c) \/ CStat(c) \/ CSemGet(c) \/ CShmAt(c) \/ CTyp(c) \/ CGetVal(c)
Moves(c) == CSignal(c) \/ CDetach(c) \/ CLeave(c) \/ CInt(c) \/ CKill(c)
Writes(c) == CMark(c) \/ CRead(c) \/ CLogin(c) \/ CAbort(c)

\* A client that searches has claimed nothing.
LEMMA SearchingClaims ==
  ASSUME Entries, NEW c \in Clients, cpc[c] \in Searching,
         NEW s \in Servers, NEW r \in Records
  PROVE  c \notin claims[s][r]
BY DEF Entries, Claimers

LEMMA ShmGetFrame ==
  ASSUME Inv, Kinds, NEW c \in Clients, CShmGet(c)
  PROVE  /\ \A d \in Clients : d # c => cpc'[d] = cpc[d] /\ cshm'[d] = cshm[d]
         /\ cshm' \in [Clients -> Servers \cup {Zero}]
         /\ cpc'[c] = "stat" \/ (cpc'[c] = "exited" /\ cshm' = cshm)
<1> USE DEF Inv, Types, Kinds
<1>1. CASE \E s \in LiveSegs : cshm' = [cshm EXCEPT ![c] = s] /\ CGo(c, "shmget", "stat")
  <2>1. PICK s \in LiveSegs : cshm' = [cshm EXCEPT ![c] = s] /\ CGo(c, "shmget", "stat")
    BY <1>1
  <2>2. s \in Servers
    BY DEF LiveSegs
  <2> QED BY <2>1, <2>2 DEF CGo
<1>2. CASE LiveSegs = {} /\ CGo(c, "shmget", "exited") /\ UNCHANGED cshm
  BY <1>2 DEF CGo
<1> QED BY <1>1, <1>2 DEF CShmGet

LEMMA SearchFrame ==
  ASSUME Inv, Kinds, NEW c \in Clients, Searches(c)
  PROVE  /\ UNCHANGED <<serverVars, kernelVars, book, claims, interrupted>>
         /\ \A d \in Clients : d # c =>
              /\ cpc'[d] = cpc[d] /\ csem'[d] = csem[d] /\ cshm'[d] = cshm[d]
              /\ freee'[d] = freee[d]
         /\ cpc[c] \in Searching
         /\ cpc'[c] \in (Searching \ {"shmget"}) \cup {"exited"}
         /\ csem'[c] = csem[c] \/ CSemGet(c)
         /\ cshm'[c] = cshm[c] \/ (CShmGet(c) /\ cpc'[c] = "stat")
         /\ cshm' \in [Clients -> Servers \cup {Zero}]
<1> USE DEF Inv, Types, Kinds, clientOnly, CGo, Searching, history
<1>1. CASE CShmGet(c)
  BY <1>1, ShmGetFrame DEF CShmGet
<1>2. CASE CStat(c)
  BY <1>2 DEF CStat
<1>3. CASE CSemGet(c)
  BY <1>3 DEF CSemGet
<1>4. CASE CShmAt(c)
  BY <1>4 DEF CShmAt
<1>5. CASE CTyp(c)
  BY <1>5 DEF CTyp
<1>6. CASE CGetVal(c)
  BY <1>6 DEF CGetVal
<1> QED BY <1>1, <1>2, <1>3, <1>4, <1>5, <1>6 DEF Searches

\* The set that a client finds is that of the server of its segment.
LEMMA SearchFinds ==
  ASSUME Inv, Owners, Entries, NEW c \in Clients, Searches(c)
  PROVE  Found'
<1>1. /\ UNCHANGED <<serverVars, kernelVars>>
      /\ \A d \in Clients : d # c =>
              /\ cpc'[d] = cpc[d] /\ csem'[d] = csem[d] /\ cshm'[d] = cshm[d]
              /\ freee'[d] = freee[d]
      /\ cpc[c] \in Searching
      /\ cpc'[c] \in (Searching \ {"shmget"}) \cup {"exited"}
  BY SearchFrame DEF Entries
<1>2. /\ cpc'[c] \in {"shmget", "stat", "semget"} => csem'[c] = Zero
      /\ cpc'[c] \in Searching => cshm'[c] \in Servers
      /\ \A s \in Servers : cshm'[c] = s =>
           /\ spc[s] \notin Early
           /\ spc[s] \in Mapped => csem'[c] \in {Zero, s}
  <2>1. CASE CShmGet(c)
    <3>1. cpc[c] = "shmget" /\ csem' = csem /\ csem[c] = Zero
      BY <2>1 DEF CShmGet, CGo, Entries, Found
    <3>2. CASE \E s \in LiveSegs : cshm' = [cshm EXCEPT ![c] = s] /\ CGo(c, "shmget", "stat")
      <4>1. PICK s \in LiveSegs : cshm' = [cshm EXCEPT ![c] = s]
        BY <3>2
      <4>2. cshm'[c] = s /\ s \in Servers /\ spc[s] \notin Early
        BY <4>1 DEF Entries, Kinds, Found, LiveSegs
      <4> QED BY <3>1, <4>2
    <3>3. CASE LiveSegs = {} /\ CGo(c, "shmget", "exited") /\ UNCHANGED cshm
      <4>1. cpc'[c] = "exited"
        BY <3>3 DEF CGo, Inv, Types
      <4> QED BY <3>1, <3>3, <4>1 DEF Entries, Found, Searching
    <3> QED BY <2>1, <3>2, <3>3 DEF CShmGet
  <2>2. CASE CSemGet(c)
    <3>1. cpc[c] = "semget" /\ cshm' = cshm /\ cshm[c] \in Servers /\ csem[c] = Zero
      BY <2>2 DEF CSemGet, CGo, Entries, Found, Searching
    <3>2. CASE \E s \in semsets : csem' = [csem EXCEPT ![c] = s] /\ CGo(c, "semget", "shmat")
      <4>1. PICK s \in semsets : csem' = [csem EXCEPT ![c] = s] /\ CGo(c, "semget", "shmat")
        BY <3>2
      <4>2. csem'[c] = s /\ cpc'[c] = "shmat"
        BY <4>1 DEF Inv, Types, CGo
      <4>3. spc[cshm[c]] \in Mapped => cshm[c] = s
        BY <3>1, <4>1 DEF Owners, Mapped, Stages
      <4> QED BY <3>1, <4>2, <4>3 DEF Entries, Found
    <3>3. CASE semsets = {} /\ CGo(c, "semget", "exited") /\ UNCHANGED csem
      <4>1. cpc'[c] = "exited"
        BY <3>3 DEF CGo, Inv, Types
      <4> QED BY <3>1, <3>3, <4>1 DEF Entries, Found
    <3> QED BY <2>2, <3>2, <3>3 DEF CSemGet
  <2>3. CASE CStat(c) \/ CShmAt(c) \/ CTyp(c) \/ CGetVal(c)
    <3>1. csem' = csem /\ cshm' = cshm /\ cpc[c] # "shmget"
      BY <2>3 DEF CStat, CShmAt, CTyp, CGetVal, CGo
    <3>2. cpc'[c] \in {"stat", "semget"} => cpc[c] \in {"stat", "semget"}
      BY <2>3 DEF CStat, CShmAt, CTyp, CGetVal, CGo, Inv, Types
    <3>3. cpc'[c] # "shmget" /\ (cpc'[c] \in Searching => cshm[c] \in Servers)
      BY <1>1, <3>1 DEF Entries, Found
    <3>4. cpc'[c] \in {"shmget", "stat", "semget"} => csem[c] = Zero
      BY <3>2, <3>3 DEF Entries, Found
    <3> QED BY <3>1, <3>3, <3>4 DEF Entries, Found
  <2> QED BY <2>1, <2>2, <2>3 DEF Searches
<1>3. cpc'[c] \notin Past
  BY <1>1 DEF Past, Searching
<1> QED BY <1>1, <1>2, <1>3 DEF Entries, Found, serverVars, kernelVars

LEMMA SearchEntries ==
  ASSUME Inv, Owners, Entries, NEW c \in Clients, Searches(c)
  PROVE  Entries'
<1>1. /\ UNCHANGED <<spc, si, prt, printed, sems, book, claims, interrupted>>
      /\ \A d \in Clients : d # c =>
              /\ cpc'[d] = cpc[d] /\ csem'[d] = csem[d] /\ cshm'[d] = cshm[d]
              /\ freee'[d] = freee[d]
      /\ cpc[c] \in Searching
      /\ cpc'[c] \in (Searching \ {"shmget"}) \cup {"exited"}
      /\ cshm' \in [Clients -> Servers \cup {Zero}]
  BY SearchFrame DEF Entries, serverVars, kernelVars
<1>2. cpc'[c] \notin Past /\ "exited" \notin Searching
  BY <1>1 DEF Past, Searching
<1>3. \A s \in Servers, r \in Records : c \notin claims[s][r] /\ claims[s][r] \subseteq Clients
  BY <1>1, SearchingClaims DEF Entries, Kinds
<1>4. Kinds'
  BY <1>1 DEF Entries, Kinds
<1>5. Claimers'
  <2>1. cpc'[c] \notin {"abort", "unlock"}
    BY <1>1 DEF Searching
  <2> QED BY <1>1, <1>2, <1>3, <2>1 DEF Entries, Claimers
<1>6. Closed'
  BY <1>1, <1>3 DEF Entries, Closed, Holds
<1>7. Filled'
  <2> SUFFICES ASSUME NEW t \in Servers, NEW q \in Records, NEW d \in Clients,
                      spc[t] \in Serving, Sole(d, t, q)'
               PROVE  Fills(d, cpc'[d], book'[t][q], sems'[t][q])
    BY <1>1 DEF Filled
  <2>1. d # c
    BY <1>1, <1>3 DEF Sole
  <2>2. Sole(d, t, q)
    BY <1>1, <2>1 DEF Sole
  <2> QED BY <1>1, <2>1, <2>2 DEF Entries, Filled, Fills
<1>8. Marks'
  BY <1>1, <1>3 DEF Entries, Marks
<1>9. Seen'
  <2> SUFFICES ASSUME NEW t \in Servers, spc[t] \in Serving, prt[t].phase = "value"
               PROVE  /\ claims[t][prt[t].i] # {}
                      /\ \A d \in Clients :
                           claims[t][prt[t].i] = {d} /\ d \notin interrupted =>
                             cshm'[d] = t /\ book[t][prt[t].i].typ = 1
    BY <1>1 DEF Seen
  <2>1. prt[t].i \in Records
    BY DEF Entries, Kinds
  <2> QED BY <1>1, <1>3, <2>1 DEF Entries, Seen
<1>10. Shown' /\ Unprinted'
  BY <1>1 DEF Entries, Shown, Unprinted
<1> QED BY <1>4, <1>5, <1>6, <1>7, <1>8, <1>9, <1>10, SearchFinds DEF Entries

\* Steps of clients that search no more, with the ids they found.
LEMMA IdsKept ==
  ASSUME Kinds, Found, Claimers, UNCHANGED <<spc, si, segs, csem, cshm, freee, claims>>,
         interrupted \subseteq interrupted',
         \A d \in Clients : cpc'[d] \in Past => cpc[d] \in Past,
         \A d \in Clients : cpc'[d] \in Searching => cpc'[d] = cpc[d],
         \A d \in Clients : cpc'[d] \in {"abort", "unlock"} => d \in interrupted'
  PROVE  Found' /\ Claimers'
<1>1. {"shmget", "stat", "semget"} \subseteq Searching /\ "shmget" \notin Past
  BY DEF Searching, Past
<1>2. ASSUME NEW d \in Clients
      PROVE  /\ cpc'[d] \in {"shmget", "stat", "semget"} => csem[d] = Zero
             /\ cpc'[d] \in (Past \cup Searching) \ {"shmget"} => cshm[d] \in Servers
             /\ cpc'[d] \in Past => csem[d] \in Servers /\ freee[d] \in Records
  <2>1. CASE cpc'[d] \in Searching
    BY <2>1, <1>1 DEF Found
  <2>2. CASE cpc'[d] \in Past
    BY <2>2, <1>1 DEF Found
  <2>3. CASE cpc'[d] \notin Searching \cup Past
    BY <2>3, <1>1
  <2> QED BY <2>1, <2>2, <2>3
<1>3. Found'
  BY <1>2 DEF Found
<1>4. Claimers'
  <2>1. ASSUME NEW s \in Servers, NEW r \in Records, NEW d \in claims[s][r]
        PROVE  cpc'[d] \notin Searching /\ freee[d] = r /\ s \in {cshm[d], csem[d]}
               /\ csem[d] # Zero /\ (csem[d] = s => r < si[s])
    BY <2>1 DEF Claimers, Kinds
  <2>2. \A d \in Clients : cpc'[d] \in Past =>
          d \in claims[cshm[d]][freee[d]] /\ d \in claims[csem[d]][freee[d]]
    BY DEF Claimers
  <2> QED BY <2>1, <2>2 DEF Claimers
<1> QED BY <1>3, <1>4

\* Steps that move a client on, or end it.
LEMMA MoveFrame ==
  ASSUME Inv, NEW c \in Clients, Moves(c)
  PROVE  /\ UNCHANGED <<serverVars, kernelVars, csem, cshm, ci, freee, book, claims>>
         /\ \A d \in Clients : d # c => cpc'[d] = cpc[d]
         /\ interrupted \subseteq interrupted'
         /\ \/ cpc'[c] = "dead"
            \/ cpc'[c] = "abort" /\ cpc[c] \in Handled /\ c \in interrupted'
            \/ cpc[c] = "claimed" /\ cpc'[c] = "mark"
            \/ cpc[c] = "detach" /\ cpc'[c] = "release"
            \/ cpc[c] = "leave" /\ cpc'[c] = "done"
<1> USE DEF Inv, Types, clientOnly, CGo, history
<1>1. CASE CSignal(c)
  BY <1>1 DEF CSignal
<1>2. CASE CDetach(c)
  BY <1>2 DEF CDetach
<1>3. CASE CLeave(c)
  BY <1>3 DEF CLeave
<1>4. CASE CInt(c)
  BY <1>4 DEF CInt, CRunning, Handled
<1>5. CASE CKill(c)
  BY <1>5 DEF CKill, CRunning
<1> QED BY <1>1, <1>2, <1>3, <1>4, <1>5 DEF Moves

LEMMA MoveEntries ==
  ASSUME Inv, Entries, NEW c \in Clients, Moves(c)
  PROVE  Entries'
<1>1. /\ UNCHANGED <<spc, si, prt, printed, sems, segs, csem, cshm, freee, book, claims>>
      /\ \A d \in Clients : d # c => cpc'[d] = cpc[d]
      /\ interrupted \subseteq interrupted'
  BY MoveFrame DEF serverVars, kernelVars
<1>2. \/ cpc'[c] = "dead"
      \/ cpc'[c] = "abort" /\ cpc[c] \in Handled /\ c \in interrupted'
      \/ cpc[c] = "claimed" /\ cpc'[c] = "mark"
      \/ cpc[c] = "detach" /\ cpc'[c] = "release"
      \/ cpc[c] = "leave" /\ cpc'[c] = "done"
  BY MoveFrame
<1>3. /\ cpc'[c] \notin Searching
      /\ cpc'[c] \in Past => cpc[c] \in Past
  BY <1>2 DEF Searching, Past, Handled
<1>4. cpc'[c] \in {"abort", "unlock"} => c \in interrupted'
  BY <1>2
<1>5. Kinds' /\ Marks' /\ Shown' /\ Seen' /\ Unprinted'
  BY <1>1 DEF Entries, Kinds, Marks, Shown, Seen, Unprinted
<1>6. /\ \A d \in Clients : cpc'[d] \in Past => cpc[d] \in Past
      /\ \A d \in Clients : cpc'[d] \in Searching => cpc'[d] = cpc[d]
      /\ \A d \in Clients : cpc'[d] \in {"abort", "unlock"} => d \in interrupted'
  BY <1>1, <1>3, <1>4 DEF Entries, Claimers
<1>7. Found' /\ Claimers'
  BY <1>1, <1>6, IdsKept DEF Entries
<1>8. Closed'
  <2>1. \A d \in Clients : Holds(d)' => Holds(d)
    BY <1>1, <1>2 DEF Holds
  <2> QED BY <1>1, <2>1 DEF Entries, Closed
<1>9. Filled'
  <2> SUFFICES ASSUME NEW t \in Servers, NEW q \in Records, NEW d \in Clients,
                      spc[t] \in Serving, Sole(d, t, q)'
               PROVE  Fills(d, cpc'[d], book'[t][q], sems'[t][q])
    BY <1>1 DEF Filled
  <2>1. Sole(d, t, q)
    BY <1>1 DEF Sole
  <2>2. /\ cpc'[d] \in Typed => cpc[d] \in Typed
        /\ cpc'[d] \in Worded => cpc[d] \in Worded
        /\ cpc'[d] \in Signed => cpc[d] \in Signed
    BY <1>1, <1>2 DEF Typed, Worded, Signed
  <2> QED BY <1>1, <2>1, <2>2 DEF Entries, Filled, Fills
<1> QED BY <1>5, <1>7, <1>8, <1>9 DEF Entries

\* A write of a client to its record, field by field.
LEMMA WriteFrame ==
  ASSUME Inv, Entries, NEW c \in Clients, Writes(c)
  PROVE  /\ UNCHANGED <<serverVars, kernelVars, csem, cshm, ci, freee, claims, interrupted>>
         /\ \A d \in Clients : d # c => cpc'[d] = cpc[d]
         /\ cshm[c] \in Servers /\ freee[c] \in Records /\ csem[c] \in Servers
         /\ cpc[c] \in Past /\ Mine(c) \in Entry
         /\ book' \in [Servers -> [Records -> Entry]]
         /\ \A s \in Servers, r \in Records :
              ~(s = cshm[c] /\ r = freee[c]) => book'[s][r] = book[s][r]
         /\ \/ cpc[c] = "mark" /\ cpc'[c] = "read" /\ Mine(c)' = [Mine(c) EXCEPT !.typ = 1]
            \/ cpc[c] = "read" /\ cpc'[c] = "login" /\ Mine(c)' = [Mine(c) EXCEPT !.txt = c]
            \/ cpc[c] = "login" /\ cpc'[c] = "detach" /\ Mine(c)' = [Mine(c) EXCEPT !.login = c]
            \/ cpc[c] = "abort" /\ cpc'[c] = "unlock"
<1>1. /\ UNCHANGED <<serverVars, kernelVars, csem, cshm, ci, freee, claims, interrupted>>
      /\ cpc[c] \in {"mark", "read", "login", "abort"}
  BY DEF Writes, CMark, CRead, CLogin, CAbort, CWrite, CGo, clientOnly, history
<1>2. cshm[c] \in Servers /\ freee[c] \in Records /\ csem[c] \in Servers /\ cpc[c] \in Past
  BY <1>1 DEF Entries, Found, Past
<1>3. Mine(c) \in Entry
  BY <1>2 DEF Entries, Kinds, Mine
<1>4. /\ [Mine(c) EXCEPT !.typ = 1] \in Entry /\ [Mine(c) EXCEPT !.txt = c] \in Entry
      /\ [Mine(c) EXCEPT !.login = c] \in Entry /\ [Mine(c) EXCEPT !.typ = 0] \in Entry
  BY <1>3 DEF Entry
<1>5. ASSUME NEW a, NEW b, NEW x \in Entry, CWrite(c, a, b, x)
      PROVE  /\ cpc[c] = a /\ cpc'[c] = b /\ Mine(c)' = x
             /\ \A d \in Clients : d # c => cpc'[d] = cpc[d]
             /\ book' \in [Servers -> [Records -> Entry]]
             /\ \A s \in Servers, r \in Records :
                  ~(s = cshm[c] /\ r = freee[c]) => book'[s][r] = book[s][r]
  <2>1. book' = [book EXCEPT ![cshm[c]] = [book[cshm[c]] EXCEPT ![freee[c]] = x]]
    BY <1>5 DEF CWrite
  <2>2. /\ cpc[c] = a /\ cpc'[c] = b
        /\ \A d \in Clients : d # c => cpc'[d] = cpc[d]
    BY <1>5 DEF CWrite, CGo, Inv, Types
  <2>3. book \in [Servers -> [Records -> Entry]]
    BY DEF Entries, Kinds
  <2>4. /\ book' \in [Servers -> [Records -> Entry]]
        /\ book'[cshm[c]][freee[c]] = x
        /\ \A s \in Servers, r \in Records :
                  ~(s = cshm[c] /\ r = freee[c]) => book'[s][r] = book[s][r]
    BY <1>2, <2>1, <2>3
  <2> QED BY <1>1, <2>2, <2>4 DEF Mine
<1>6. CASE CMark(c)
  BY <1>1, <1>2, <1>3, <1>4, <1>5, <1>6 DEF CMark
<1>7. CASE CRead(c)
  BY <1>1, <1>2, <1>3, <1>4, <1>5, <1>7 DEF CRead
<1>8. CASE CLogin(c)
  BY <1>1, <1>2, <1>3, <1>4, <1>5, <1>8 DEF CLogin
<1>9. CASE CAbort(c)
  BY <1>1, <1>2, <1>3, <1>4, <1>5, <1>9 DEF CAbort
<1> QED BY <1>6, <1>7, <1>8, <1>9 DEF Writes

LEMMA WriteEntries ==
  ASSUME Inv, Entries, NEW c \in Clients, Writes(c)
  PROVE  Entries'
<1> DEFINE s == cshm[c]  r == freee[c]
<1>1. /\ UNCHANGED <<spc, si, prt, printed, sems, segs, csem, cshm, freee, claims, interrupted>>
      /\ \A d \in Clients : d # c => cpc'[d] = cpc[d]
      /\ s \in Servers /\ r \in Records /\ csem[c] \in Servers /\ cpc[c] \in Past
      /\ Mine(c) \in Entry
      /\ book' \in [Servers -> [Records -> Entry]]
      /\ \A t \in Servers, q \in Records : ~(t = s /\ q = r) => book'[t][q] = book[t][q]
  BY WriteFrame DEF serverVars, kernelVars
<1>2. \/ cpc[c] = "mark" /\ cpc'[c] = "read" /\ Mine(c)' = [Mine(c) EXCEPT !.typ = 1]
      \/ cpc[c] = "read" /\ cpc'[c] = "login" /\ Mine(c)' = [Mine(c) EXCEPT !.txt = c]
      \/ cpc[c] = "login" /\ cpc'[c] = "detach" /\ Mine(c)' = [Mine(c) EXCEPT !.login = c]
      \/ cpc[c] = "abort" /\ cpc'[c] = "unlock"
  BY WriteFrame
<1>3. /\ cpc'[c] \in Past /\ cpc'[c] \notin Searching
      /\ Holds(c)' => Holds(c)
      /\ cpc'[c] \in {"abort", "unlock"} => c \in interrupted
  BY <1>1, <1>2 DEF Past, Searching, Holds, Entries, Claimers
<1>4. c \in claims[s][r]
  BY <1>1 DEF Entries, Claimers
<1>5. Kinds'
  BY <1>1 DEF Entries, Kinds
<1>6. /\ \A d \in Clients : cpc'[d] \in Past => cpc[d] \in Past
      /\ \A d \in Clients : cpc'[d] \in Searching => cpc'[d] = cpc[d]
      /\ \A d \in Clients : cpc'[d] \in {"abort", "unlock"} => d \in interrupted'
  BY <1>1, <1>3 DEF Entries, Claimers
<1>7. Found' /\ Claimers'
  BY <1>1, <1>6, IdsKept DEF Entries
<1>8. Closed'
  <2>1. ASSUME NEW d \in Clients, Holds(d)' PROVE Holds(d)
    <3>1. CASE d = c
      BY <1>3, <2>1, <3>1
    <3>2. CASE d # c
      BY <1>1, <2>1, <3>2 DEF Holds
    <3> QED BY <3>1, <3>2
  <2> QED BY <1>1, <2>1 DEF Entries, Closed
<1>9. Marks' /\ Shown' /\ Unprinted'
  BY <1>1, <1>4 DEF Entries, Marks, Shown, Unprinted
\* What the write does to the entry, unless it is that of the handler.
<1>10. ASSUME c \notin interrupted
       PROVE  /\ Mine(c).typ = 1 => Mine(c)'.typ = 1
              /\ cpc'[c] = "read" /\ cpc[c] = "mark" => Mine(c)'.typ = 1
              /\ cpc'[c] = "login" /\ cpc[c] = "read" =>
                   Mine(c)'.typ = Mine(c).typ /\ Mine(c)'.txt = c
              /\ cpc'[c] = "detach" /\ cpc[c] = "login" =>
                   Mine(c)'.typ = Mine(c).typ /\ Mine(c)'.txt = Mine(c).txt /\ Mine(c)'.login = c
              /\ cpc[c] \in {"mark", "read", "login"} /\ Holds(c)
  <2>1. cpc[c] # "abort"
    BY <1>10 DEF Entries, Claimers
  <2>2. Mine(c) \in Entry
    BY <1>1
  <2>3. CASE cpc[c] = "mark" /\ cpc'[c] = "read" /\ Mine(c)' = [Mine(c) EXCEPT !.typ = 1]
    BY <2>2, <2>3 DEF Entry, Holds
  <2>4. CASE cpc[c] = "read" /\ cpc'[c] = "login" /\ Mine(c)' = [Mine(c) EXCEPT !.txt = c]
    BY <2>2, <2>4 DEF Entry, Holds
  <2>5. CASE cpc[c] = "login" /\ cpc'[c] = "detach" /\ Mine(c)' = [Mine(c) EXCEPT !.login = c]
    BY <2>2, <2>5 DEF Entry, Holds
  <2> QED BY <1>2, <2>1, <2>3, <2>4, <2>5
<1>11. Mine(c) = book[s][r] /\ Mine(c)' = book'[s][r]
  BY <1>1 DEF Mine
<1>12. Filled'
  <2> SUFFICES ASSUME NEW t \in Servers, NEW q \in Records, NEW d \in Clients,
                      spc[t] \in Serving, Sole(d, t, q)
               PROVE  Fills(d, cpc'[d], book'[t][q], sems[t][q])
    BY <1>1 DEF Filled, Sole
  <2>1. CASE t = s /\ q = r
    <3>1. d = c /\ c \notin interrupted
      BY <1>4, <2>1 DEF Sole
    <3>2. sems[t][q] = 0
      <4>1. csem[c] = t
        <5>1. spc[t] \in Mapped
          BY DEF Serving, Mapped
        <5> QED BY <1>4, <2>1, <3>1, <5>1, OwnClaims DEF Entries
      <4> QED BY <1>10, <2>1, <3>1, <4>1 DEF Entries, Closed, Sole
    <3>3. /\ cpc[c] \in {"read", "login"} => book[t][q].typ = 1
          /\ cpc[c] = "login" => book[t][q].txt = c
      BY <3>1 DEF Entries, Filled, Fills, Typed, Worded, Signed
    <3> QED BY <1>2, <1>10, <1>11, <2>1, <3>1, <3>2, <3>3 DEF Fills, Typed, Worded, Signed
  <2>2. CASE ~(t = s /\ q = r)
    <3>1. book'[t][q] = book[t][q]
      BY <1>1, <2>2
    <3>2. d # c
      BY <1>1, <2>2 DEF Sole, Entries, Claimers
    <3> QED BY <1>1, <3>1, <3>2 DEF Entries, Filled, Fills
  <2> QED BY <2>1, <2>2
<1>13. Seen'
  <2> SUFFICES ASSUME NEW t \in Servers, spc[t] \in Serving, prt[t].phase = "value"
               PROVE  /\ claims[t][prt[t].i] # {}
                      /\ \A d \in Clients :
                           claims[t][prt[t].i] = {d} /\ d \notin interrupted =>
                             cshm[d] = t /\ book'[t][prt[t].i].typ = 1
    BY <1>1 DEF Seen
  <2>1. prt[t].i \in Records /\ claims[t][prt[t].i] # {}
    BY DEF Entries, Kinds, Seen
  <2>2. ASSUME NEW d \in Clients, claims[t][prt[t].i] = {d}, d \notin interrupted
        PROVE  cshm[d] = t /\ book'[t][prt[t].i].typ = 1
    <3>1. cshm[d] = t /\ book[t][prt[t].i].typ = 1
      BY <2>2 DEF Entries, Seen
    <3>2. CASE t = s /\ prt[t].i = r
      BY <1>4, <1>10, <1>11, <2>2, <3>1, <3>2
    <3>3. CASE ~(t = s /\ prt[t].i = r)
      BY <1>1, <2>1, <3>1, <3>3
    <3> QED BY <3>2, <3>3
  <2> QED BY <2>1, <2>2
<1> QED BY <1>5, <1>7, <1>8, <1>9, <1>12, <1>13 DEF Entries

\* semctl(SETVAL) closes the record for a client: from here on it is the only one
\* of the record, or one of several.
LEMMA ClaimEntries ==
  ASSUME Inv, Entries, NEW c \in Clients, CClaim(c)
  PROVE  Entries'
<1> DEFINE s == csem[c]  r == freee[c]
<1>1. CSetVal(c, "setval", 0, "claimed") /\ "setval" \in Claiming /\ "setval" \in Searching
  BY DEF CClaim, Claiming, Searching
<1>2. /\ cpc[c] = "setval" /\ s \in Servers /\ r \in Records /\ r < si[s]
      /\ cshm[c] \in Servers
      /\ UNCHANGED <<csem, cshm, freee, segs, book, spc, si, prt, printed, interrupted>>
  <2>1. cpc[c] = "setval" /\ s \in Servers /\ r \in Records /\ r < si[s]
    BY <1>1, CSetValFacts DEF Inv
  <2> QED BY <1>1, <2>1 DEF Entries, Found, CSetVal, CClaim, serverVars
<1>3. /\ \A d \in Clients : d # c => cpc'[d] = cpc[d]
      /\ \A t \in Servers, q \in Records : sems'[t][q] = sems[t][q] \/ sems'[t][q] = 0
      /\ \/ s \in semsets /\ cpc'[c] = "claimed" /\ sems'[s][r] = 0
         \/ s \notin semsets /\ cpc'[c] = "exited" /\ sems' = sems
  <2>1. \/ /\ s \in semsets /\ cpc' = [cpc EXCEPT ![c] = "claimed"]
           /\ \A t \in Servers, q \in Records :
                sems'[t][q] = IF t = s /\ q = r THEN 0 ELSE sems[t][q]
        \/ s \notin semsets /\ cpc' = [cpc EXCEPT ![c] = "exited"] /\ sems' = sems
    BY <1>1, CSetValFacts DEF Inv
  <2> QED BY <1>2, <2>1 DEF Inv, Types
<1>4. \A t \in Servers, q \in Records : c \notin claims[t][q]
  BY <1>1, <1>2, SearchingClaims
<1>5. /\ claims' \in [Servers -> [Records -> SUBSET Clients]]
      /\ \A t \in Servers, q \in Records :
           claims'[t][q] = IF s \in semsets /\ q = r /\ t \in {s, cshm[c]}
                             THEN claims[t][q] \cup {c} ELSE claims[t][q]
  <2>1. claims \in [Servers -> [Records -> SUBSET Clients]]
    BY DEF Entries, Kinds
  <2>2. SetExists(s) <=> s \in semsets
    BY <1>2, Ids DEF SetExists
  <2>3. CASE s \notin semsets
    BY <2>1, <2>2, <2>3 DEF CClaim
  <2>4. CASE s \in semsets
    <3> DEFINE one == [claims EXCEPT ![cshm[c]] = [claims[cshm[c]] EXCEPT ![r] = @ \cup {c}]]
    <3>1. /\ one \in [Servers -> [Records -> SUBSET Clients]]
          /\ \A t \in Servers, q \in Records :
               one[t][q] = IF q = r /\ t = cshm[c] THEN claims[t][q] \cup {c} ELSE claims[t][q]
      BY <1>2, <2>1
    <3>2. claims' = [one EXCEPT ![s] = [one[s] EXCEPT ![r] = one[s][r] \cup {c}]]
      BY <2>2, <2>4 DEF CClaim
    <3> HIDE DEF one
    <3> DEFINE row == [one[s] EXCEPT ![r] = one[s][r] \cup {c}]
    <3>3. /\ row \in [Records -> SUBSET Clients]
          /\ \A q \in Records : row[q] = IF q = r THEN one[s][q] \cup {c} ELSE one[s][q]
      <4>1. one[s] \in [Records -> SUBSET Clients] /\ r \in Records
        BY <1>2, <3>1
      <4>2. one[s][r] \cup {c} \in SUBSET Clients
        BY <4>1
      <4> QED BY <4>1, <4>2
    <3>4. claims' = [one EXCEPT ![s] = row]
      BY <3>2
    <3> HIDE DEF row
    <3>5. /\ claims' \in [Servers -> [Records -> SUBSET Clients]]
          /\ \A t \in Servers : claims'[t] = IF t = s THEN row ELSE one[t]
      <4> DEFINE Rows == [Records -> SUBSET Clients]
      <4>1. s \in Servers /\ one \in [Servers -> Rows] /\ row \in Rows
        BY <1>2, <3>1, <3>3
      <4> HIDE DEF s, Rows
      <4>2. /\ claims' \in [Servers -> Rows]
            /\ \A t \in Servers : claims'[t] = IF t = s THEN row ELSE one[t]
        BY <3>4, <4>1
      <4> QED BY <4>2 DEF Rows
    <3>6. ASSUME NEW t \in Servers, NEW q \in Records
          PROVE  claims'[t][q] = IF q = r /\ t \in {s, cshm[c]}
                                   THEN claims[t][q] \cup {c} ELSE claims[t][q]
      <4>1. CASE t = s
        <5>1. claims'[t][q] = row[q] /\ t \in {s, cshm[c]}
          BY <3>5, <4>1
        <5>2. row[q] = IF q = r THEN one[t][q] \cup {c} ELSE one[t][q]
          BY <3>3, <4>1
        <5>3. one[t][q] = claims[t][q] \/ (q = r /\ one[t][q] = claims[t][q] \cup {c})
          BY <3>1
        <5> HIDE DEF s, r
        <5> QED BY <5>1, <5>2, <5>3
      <4>2. CASE t # s
        <5>1. claims'[t][q] = one[t][q] /\ (t \in {s, cshm[c]} <=> t = cshm[c])
          BY <3>5, <4>2
        <5>2. one[t][q] = IF q = r /\ t = cshm[c] THEN claims[t][q] \cup {c} ELSE claims[t][q]
          BY <3>1
        <5> HIDE DEF s, r
        <5> QED BY <5>1, <5>2
      <4> QED BY <4>1, <4>2
    <3> QED BY <2>4, <3>5, <3>6
  <2> QED BY <2>3, <2>4
<1>6. \A t \in Servers, q \in Records : claims[t][q] \subseteq claims'[t][q]
  BY <1>5
\* Another client that is the only one of a record was so before.
<1>7. ASSUME NEW t \in Servers, NEW q \in Records, NEW d \in Clients, claims'[t][q] = {d},
             d # c \/ claims[t][q] # {}
      PROVE  d # c /\ claims[t][q] = {d}
  <2>1. CASE claims'[t][q] = claims[t][q] \cup {c}
    BY <1>4, <1>7, <2>1
  <2>2. CASE claims'[t][q] = claims[t][q]
    BY <1>4, <1>7, <2>2
  <2> QED BY <1>5, <2>1, <2>2
<1>8. /\ "claimed" \in Past /\ "claimed" \notin Searching /\ "exited" \notin Past
      /\ "exited" \notin Searching
  BY DEF Past, Searching
<1>9. Kinds'
  BY <1>2, <1>5 DEF Entries, Kinds
<1>10. Found'
  <2>1. ASSUME NEW d \in Clients
        PROVE  /\ cpc'[d] \in {"shmget", "stat", "semget"} => csem[d] = Zero
               /\ cpc'[d] \in (Past \cup Searching) \ {"shmget"} => cshm[d] \in Servers
               /\ cpc'[d] \in Past => csem[d] \in Servers /\ freee[d] \in Records
    <3>1. CASE d = c
      BY <1>2, <1>3, <3>1
    <3>2. CASE d # c
      <4>1. cpc'[d] = cpc[d]
        BY <1>3, <3>2
      <4> QED BY <4>1 DEF Entries, Found
    <3> QED BY <3>1, <3>2
  <2> QED BY <1>2, <2>1 DEF Entries, Found
<1>11. Claimers'
  <2>1. ASSUME NEW t \in Servers, NEW q \in Records, NEW d \in claims'[t][q]
        PROVE  cpc'[d] \notin Searching /\ freee[d] = q /\ t \in {cshm[d], csem[d]}
               /\ csem[d] # Zero /\ (csem[d] = t => q < si[t])
    <3>1. CASE d = c
      <4>1. s \in semsets /\ q = r /\ t \in {s, cshm[c]}
        BY <1>4, <1>5, <2>1, <3>1
      <4>2. cpc'[c] = "claimed" /\ s # Zero
        BY <1>2, <1>3, <4>1, Ids
      <4> QED BY <1>2, <1>8, <3>1, <4>1, <4>2
    <3>2. CASE d # c
      <4>1. d \in claims[t][q]
        <5>1. CASE claims'[t][q] = claims[t][q] \cup {c}
          BY <2>1, <3>2, <5>1
        <5>2. CASE claims'[t][q] = claims[t][q]
          BY <2>1, <5>2
        <5> QED BY <1>5, <5>1, <5>2
      <4>2. d \in Clients
        BY <4>1 DEF Entries, Kinds
      <4> QED BY <1>3, <3>2, <4>1, <4>2 DEF Entries, Claimers
    <3> QED BY <3>1, <3>2
  <2>2. ASSUME NEW d \in Clients, cpc'[d] \in Past
        PROVE  d \in claims'[cshm[d]][freee[d]] /\ d \in claims'[csem[d]][freee[d]]
    <3>1. CASE d = c
      BY <1>2, <1>3, <1>5, <1>8, <2>2, <3>1
    <3>2. CASE d # c
      <4>1. /\ d \in claims[cshm[d]][freee[d]] /\ d \in claims[csem[d]][freee[d]]
            /\ cshm[d] \in Servers /\ csem[d] \in Servers /\ freee[d] \in Records
        BY <1>3, <1>8, <2>2, <3>2 DEF Entries, Claimers, Found, Past
      <4> QED BY <1>6, <4>1
    <3> QED BY <3>1, <3>2
  <2>3. \A d \in Clients : cpc'[d] \in {"abort", "unlock"} => d \in interrupted
    BY <1>3 DEF Entries, Claimers
  <2> QED BY <1>2, <2>1, <2>2, <2>3 DEF Claimers
<1>12. Closed'
  <2> SUFFICES ASSUME NEW t \in Servers, NEW q \in Records, NEW d \in Clients,
                      claims'[t][q] = {d}, csem[d] = t, Holds(d)'
               PROVE  sems'[t][q] = 0
    BY <1>2 DEF Closed
  <2>1. CASE d = c
    BY <1>2, <1>3, <1>4, <1>5, <2>1
  <2>2. CASE d # c
    <3>1. claims[t][q] = {d} /\ Holds(d)
      BY <1>3, <1>7, <2>2 DEF Holds
    <3> QED BY <1>3, <3>1 DEF Entries, Closed
  <2> QED BY <2>1, <2>2
<1>13. Filled'
  <2> SUFFICES ASSUME NEW t \in Servers, NEW q \in Records, NEW d \in Clients,
                      spc[t] \in Serving, claims'[t][q] = {d}, d \notin interrupted,
                      cshm[d] = t
               PROVE  Fills(d, cpc'[d], book[t][q], sems'[t][q])
    BY <1>2 DEF Filled, Fills, Sole, Whole
  <2>1. CASE d = c
    <3>1. q = r /\ s \in semsets
      BY <1>4, <1>5, <2>1
    <3>2. s = t
      BY <1>2, <2>1, Ids DEF Entries, Found, Serving, Mapped
    <3> QED BY <1>3, <2>1, <3>1, <3>2 DEF Fills, Typed, Worded, Signed
  <2>2. CASE d # c
    <3>1. Sole(d, t, q) /\ cpc'[d] = cpc[d]
      BY <1>3, <1>7, <2>2 DEF Sole
    <3>2. sems'[t][q] = 1 => sems[t][q] = 1
      BY <1>3
    <3> QED BY <3>1, <3>2 DEF Entries, Filled, Fills
  <2> QED BY <2>1, <2>2
<1>14. Marks'
  BY <1>2, <1>6 DEF Entries, Marks
<1>15. Seen'
  <2> SUFFICES ASSUME NEW t \in Servers, spc[t] \in Serving, prt[t].phase = "value"
               PROVE  /\ claims'[t][prt[t].i] # {}
                      /\ \A d \in Clients :
                           claims'[t][prt[t].i] = {d} /\ d \notin interrupted =>
                             cshm[d] = t /\ book[t][prt[t].i].typ = 1
    BY <1>2 DEF Seen
  <2>1. prt[t].i \in Records /\ claims[t][prt[t].i] # {}
    BY DEF Entries, Kinds, Seen
  <2> QED BY <1>6, <1>7, <2>1 DEF Entries, Seen
<1>16. Shown'
  <2> SUFFICES ASSUME NEW t \in Servers, spc[t] \in Serving, printed[t] # None
               PROVE  /\ printed[t].rec \in Records /\ claims'[t][printed[t].rec] # {}
                      /\ \A d \in Clients :
                           claims'[t][printed[t].rec] = {d} /\ d \notin interrupted =>
                             printed[t].txt = d /\ printed[t].login = d
    BY <1>2 DEF Shown
  <2>1. printed[t].rec \in Records /\ claims[t][printed[t].rec] # {}
    BY DEF Entries, Shown
  <2> QED BY <1>6, <1>7, <2>1 DEF Entries, Shown
<1>17. Unprinted'
  BY <1>2 DEF Entries, Unprinted
<1> QED BY <1>9, <1>10, <1>11, <1>12, <1>13, <1>14, <1>15, <1>16, <1>17 DEF Entries

\* semctl(SETVAL) opens the record: a sole client has filled it, unless it was
\* interrupted.
LEMMA OpenEntries ==
  ASSUME Inv, Entries, NEW c \in Clients, CRelease(c) \/ CUnlock(c)
  PROVE  Entries'
<1> DEFINE s == csem[c]  r == freee[c]
<1>1. PICK a \in {"release", "unlock"} : \E b \in {"leave", "exited"} :
        CSetVal(c, a, 1, b) /\ (b = "leave" => a = "release")
  BY DEF CRelease, CUnlock
<1>2. PICK b \in {"leave", "exited"} :
        CSetVal(c, a, 1, b) /\ (b = "leave" => a = "release")
  BY <1>1
<1>3. /\ cpc[c] = a /\ s \in Servers /\ r \in Records /\ cshm[c] \in Servers
      /\ UNCHANGED <<csem, cshm, freee, segs, book, spc, si, prt, printed, interrupted, claims>>
  <2>1. a \in Claiming /\ a \in Past
    BY <1>1 DEF Claiming, Past
  <2>2. cpc[c] = a /\ s \in Servers /\ r \in Records
    BY <1>2, <2>1, CSetValFacts DEF Inv
  <2>3. cshm[c] \in Servers
    BY <2>1, <2>2 DEF Entries, Found, Searching
  <2> QED BY <1>2, <2>2, <2>3 DEF CSetVal, CRelease, CUnlock, clientOnly, serverVars, history
<1>4. /\ \A d \in Clients : d # c => cpc'[d] = cpc[d]
      /\ cpc'[c] = "exited" \/ (cpc[c] = "release" /\ cpc'[c] = "leave")
      /\ \A t \in Servers, q \in Records : ~(t = s /\ q = r) => sems'[t][q] = sems[t][q]
  <2>1. a \in Claiming
    BY <1>1 DEF Claiming
  <2>2. \/ /\ cpc' = [cpc EXCEPT ![c] = b]
           /\ \A t \in Servers, q \in Records :
                sems'[t][q] = IF t = s /\ q = r THEN 1 ELSE sems[t][q]
        \/ cpc' = [cpc EXCEPT ![c] = "exited"] /\ sems' = sems
    BY <1>2, <2>1, CSetValFacts DEF Inv
  <2> QED BY <1>2, <1>3, <2>2 DEF Inv, Types
<1>5. c \in claims[s][r] /\ cpc[c] \in Past
  BY <1>1, <1>3 DEF Entries, Claimers, Past
<1>6. Kinds' /\ Marks' /\ Shown' /\ Seen' /\ Unprinted'
  BY <1>3 DEF Entries, Kinds, Marks, Shown, Seen, Unprinted
<1>7. Found' /\ Claimers'
  <2>1. cpc'[c] \notin Searching /\ cpc'[c] \notin {"abort", "unlock"}
    BY <1>4 DEF Searching
  <2>2. /\ \A d \in Clients : cpc'[d] \in Past => cpc[d] \in Past
        /\ \A d \in Clients : cpc'[d] \in Searching => cpc'[d] = cpc[d]
        /\ \A d \in Clients : cpc'[d] \in {"abort", "unlock"} => d \in interrupted'
    BY <1>3, <1>4, <1>5, <2>1 DEF Entries, Claimers
  <2> QED BY <1>3, <2>2, IdsKept DEF Entries
<1>8. Closed'
  <2> SUFFICES ASSUME NEW t \in Servers, NEW q \in Records, NEW d \in Clients,
                      claims[t][q] = {d}, csem[d] = t, Holds(d)'
               PROVE  sems'[t][q] = 0
    BY <1>3 DEF Closed
  <2>1. d # c /\ Holds(d)
    BY <1>4 DEF Holds
  <2>2. ~(t = s /\ q = r)
    BY <1>5, <2>1
  <2> QED BY <1>4, <2>1, <2>2 DEF Entries, Closed
<1>9. Filled'
  <2> SUFFICES ASSUME NEW t \in Servers, NEW q \in Records, NEW d \in Clients,
                      spc[t] \in Serving, Sole(d, t, q)
               PROVE  Fills(d, cpc'[d], book[t][q], sems'[t][q])
    BY <1>3 DEF Filled, Fills, Sole, Whole
  <2>1. /\ cpc'[d] \in Typed => cpc[d] \in Typed
        /\ cpc'[d] \in Worded => cpc[d] \in Worded
        /\ cpc'[d] \in Signed => cpc[d] \in Signed
    BY <1>4 DEF Typed, Worded, Signed
  <2>2. CASE t = s /\ q = r
    <3>1. d = c /\ c \notin interrupted
      BY <1>5, <2>2 DEF Sole
    <3>2. cpc[c] = "release"
      BY <1>1, <1>3, <3>1 DEF Entries, Claimers
    <3>3. book[t][q].typ = 1 /\ book[t][q].txt = d /\ book[t][q].login = d
      BY <3>1, <3>2 DEF Entries, Filled, Fills, Typed, Worded, Signed
    <3>4. book[t][q] = Whole(d)
      BY <3>3 DEF Entries, Kinds, Entry, Whole
    <3> QED BY <3>3, <3>4 DEF Fills
  <2>3. CASE ~(t = s /\ q = r)
    BY <1>4, <2>1, <2>3 DEF Entries, Filled, Fills
  <2> QED BY <2>2, <2>3
<1> QED BY <1>6, <1>7, <1>8, <1>9 DEF Entries

LEMMA EntriesStep ==
  ASSUME Inv, Owners, Entries, [Next]_vars
  PROVE  Entries'
<1>1. ASSUME NEW s \in Servers, Start(s) \/ ServerStep(s) \/ SInt(s) \/ STstp(s) \/ SKill(s)
      PROVE  Entries'
  BY <1>1, InitRecordEntries, ServerEntries DEF ServerStep, ServerMoves
<1>2. ASSUME NEW c \in Clients, ClientStep(c) \/ CInt(c) \/ CKill(c)
      PROVE  Entries'
  BY <1>2, SearchEntries, MoveEntries, WriteEntries, ClaimEntries, OpenEntries
     DEF ClientStep, Searches, Moves, Writes
<1>3. CASE UNCHANGED vars
  BY <1>3 DEF vars, serverVars, clientVars, kernelVars, history, Entries, Kinds, Found, Claimers,
     Closed, Filled, Sole, Whole, Marks, Seen, Shown, Unprinted, Holds
<1> QED BY <1>1, <1>2, <1>3 DEF Next

LEMMA EntriesHold == Spec => [](Inv /\ (NoneEarly => Entries))
<1>3. Init => Entries
  <2> SUFFICES ASSUME Init PROVE Entries
    OBVIOUS
  <2>1. Kinds
    BY Ids DEF Init, Kinds, Prints, Idle, Entry, Blank
  <2>2. Found /\ Claimers
    BY Ids DEF Init, Found, Claimers, Past, Searching
  <2>3. Closed /\ Filled /\ Marks
    BY DEF Init, Closed, Filled, Sole, Marks, Blank
  <2>4. Seen /\ Shown /\ Unprinted
    BY DEF Init, Seen, Shown, Unprinted, Idle
  <2> QED BY <2>1, <2>2, <2>3, <2>4 DEF Entries
<1>4. Inv /\ Possess /\ (NoneEarly => Entries) /\ [Next]_vars => (NoneEarly => Entries)'
  BY NoneEarlyBefore, NoneEarlyOwners, EntriesStep
<1> QED BY <1>3, <1>4, PossessHolds, PTL DEF Spec

\* The entry of a client that nobody shares and nothing interrupts is printed
\* whole, or not at all: for any number of clients, records and restarts, as
\* long as no server was interrupted before it had stored its ids.
THEOREM EntriesPrintWhole == Spec => [](NoneEarly => PrintWhole)
<1>1. Entries => PrintWhole
  BY DEF Entries, Shown, PrintWhole, Serving
<1> QED BY <1>1, EntriesHold, PTL

\* Under the same condition the book keeps the entry that a client was thanked
\* for.
THEOREM ThanksAreKept == Spec => [](NoneEarly => ThankKept)
<1>1. ASSUME Entries PROVE ThankKept
  <2> SUFFICES ASSUME NEW c \in Clients,
                      cpc[c] \in {"detach", "release", "leave", "done"}, c \notin interrupted,
                      spc[cshm[c]] = "ready", claims[cshm[c]][freee[c]] = {c}
               PROVE  Mine(c) = Whole(c)
    BY DEF ThankKept, Whole
  <2>1. cshm[c] \in Servers /\ freee[c] \in Records
    BY <1>1 DEF Entries, Found, Past, Searching
  <2>2. Mine(c).typ = 1 /\ Mine(c).txt = c /\ Mine(c).login = c
    BY <1>1, <2>1 DEF Entries, Filled, Fills, Typed, Worded, Signed, Sole, Serving,
       Mine
  <2>3. Mine(c) \in Entry
    BY <1>1, <2>1 DEF Entries, Kinds, Mine
  <2> QED BY <2>2, <2>3 DEF Entry, Whole
<1> QED BY <1>1, EntriesHold, PTL
=============================================================================
