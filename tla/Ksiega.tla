------------------------------- MODULE Ksiega -------------------------------
(***************************************************************************)
(* The book of complaints: server processes that create a semaphore set and *)
(* a shared memory segment under one key, and client processes that claim a *)
(* record, fill it and release it.  A step is one system call, one access   *)
(* to shared memory or one signal; signals arrive between any two steps.    *)
(*                                                                         *)
(* A server names the set and the segment it creates (an id is never used   *)
(* again).  Contents of a record are named by the client that wrote them.   *)
(***************************************************************************)
EXTENDS Integers, FiniteSets

CONSTANTS
  Servers, Clients,  \* processes started with the same key file
  rekord,            \* records of the book (argv[1] of the server)
  None,              \* no client, no record
  Zero,              \* the id 0, initial value of the globals semafor and shmid
  IdZero,            \* the server whose objects have the id 0, or None
  MaxSignals,        \* bound: SIGINT and SIGTSTP sent
  MaxKills           \* bound: processes killed

ASSUME BookAssumption ==
  /\ rekord \in Nat \ {0}
  /\ IdZero \in Servers \cup {None}
  /\ {None, Zero} \cap (Servers \cup Nat) = {}

Records == 0 .. rekord - 1

VARIABLES
  spc, sem, shm, si,   \* server: place, globals semafor and shmid, counter i
  todo,                \* server: what sgnhandle() still has to remove
  prt,                 \* server: drukowanie(), a record; phase "off" outside
  printed,             \* history: the entry the server printed last
  cpc, csem, cshm, ci, \* client: place, globals semafor and shmid, counter i
  freee,               \* client: claimed record
  semsets, sems,       \* kernel: the sets that exist, the values
  segs,                \* kernel: state of the segment of each server
  book,                \* contents of the segments
  claims,              \* history: the clients that closed the semaphore of a
                       \* record or went on to write it
  interrupted,         \* history: clients that got SIGINT
  stopped,             \* history: servers that got SIGINT
  signals, kills       \* counters of the bounds

serverVars == <<spc, sem, shm, si, todo, prt, printed>>
clientVars == <<cpc, csem, cshm, ci, freee>>
kernelVars == <<semsets, sems, segs>>
history == <<claims, interrupted, stopped>>
bounds == <<signals, kills>>
vars == <<serverVars, clientVars, kernelVars, book, history, bounds>>

Blank == [typ |-> 0, txt |-> None, login |-> None]

Idle == [phase |-> "off", i |-> 0, written |-> 0]

Init ==
  /\ spc = [s \in Servers |-> "off"]
  /\ sem = [s \in Servers |-> Zero] /\ shm = [s \in Servers |-> Zero]
  /\ si = [s \in Servers |-> 0]
  /\ todo = [s \in Servers |-> {}]
  /\ prt = [s \in Servers |-> Idle] /\ printed = [s \in Servers |-> None]
  /\ cpc = [c \in Clients |-> "shmget"]
  /\ csem = [c \in Clients |-> Zero] /\ cshm = [c \in Clients |-> Zero]
  /\ ci = [c \in Clients |-> 0] /\ freee = [c \in Clients |-> None]
  /\ semsets = {} /\ sems = [s \in Servers |-> [r \in Records |-> 0]]
  /\ segs = [s \in Servers |-> "none"]
  /\ book = [s \in Servers |-> [r \in Records |-> Blank]]
  /\ claims = [s \in Servers |-> [r \in Records |-> {}]]
  /\ interrupted = {} /\ stopped = {}
  /\ signals = 0 /\ kills = 0

-----------------------------------------------------------------------------
(* The kernel. *)

\* The object an id names, None when it names nothing.
Named(id) == IF id = Zero THEN IdZero ELSE id

SetExists(id) == Named(id) \in semsets

ServerAttached(s) ==
  \/ spc[s] \in {"init", "ready"}
  \/ spc[s] = "cleaning" /\ "dt" \in todo[s]
ClientAttached(c) ==
  \/ cpc[c] \in {"typ", "getval", "setval", "claimed", "mark", "read", "login",
                 "detach", "abort", "unlock"}
  \/ cpc[c] \in {"release", "leave"} /\ freee[c] # 0

\* A segment marked for removal lives until its last user detaches.
SegExists(id) ==
  LET s == Named(id) IN
    /\ s \in Servers
    /\ \/ segs[s] = "live"
       \/ /\ segs[s] = "marked"
          /\ ServerAttached(s) \/ \E c \in Clients : cshm[c] = s /\ ClientAttached(c)

\* shmget() by key finds segments that are not marked.
LiveSegs == {s \in Servers : segs[s] = "live"}

\* semctl(GETVAL): -1 when the set is gone.
GetVal(id, r) == IF SetExists(id) THEN sems[Named(id)][r] ELSE -1

SetVal(id, r, v) == sems' = [sems EXCEPT ![Named(id)][r] = v]

RemovedSets(id) == semsets \ {Named(id)}

RemovedSegs(id) ==
  [s \in Servers |-> IF s = Named(id) /\ segs[s] = "live" THEN "marked" ELSE segs[s]]

-----------------------------------------------------------------------------
(* The server. *)

SGo(s, a, b) == spc[s] = a /\ prt[s].phase = "off" /\ spc' = [spc EXCEPT ![s] = b]

Start(s) ==
  /\ SGo(s, "off", "semget")
  /\ UNCHANGED <<sem, shm, si, todo, prt, printed, clientVars, kernelVars, book,
                 history, bounds>>

\* A variant with a bug: a set found under the key is replaced.
SemGetReplaces(s) ==
  /\ SGo(s, "semget", "semgot")
  /\ semsets' = {s}
  /\ UNCHANGED <<sem, shm, si, todo, prt, printed, clientVars, sems, segs, book,
                 history, bounds>>

\* semget(IPC_CREAT | IPC_EXCL); the id is not yet in the global.
SemGet(s) ==
  /\ \/ /\ semsets = {}
        /\ SGo(s, "semget", "semgot")
        /\ semsets' = {s}
     \/ /\ semsets # {}
        /\ SGo(s, "semget", "exited")
        /\ UNCHANGED semsets
  /\ UNCHANGED <<sem, shm, si, todo, prt, printed, clientVars, sems, segs, book,
                 history, bounds>>

\* A variant with a bug: the semaphores start open.
SemCloseOpens(s) ==
  /\ sem' = [sem EXCEPT ![s] = s]
  /\ SGo(s, "semgot", "shmget")
  /\ sems' = [sems EXCEPT ![s] = [r \in Records |-> 1]]
  /\ UNCHANGED <<shm, si, todo, prt, printed, clientVars, semsets, segs, book,
                 history, bounds>>

\* The id is stored, and the loop closes every semaphore; no step of it shows,
\* since the kernel makes them closed.  It fails when the set is gone: semerr()
\* then has nothing to remove.
SemClose(s) ==
  /\ sem' = [sem EXCEPT ![s] = s]
  /\ \/ /\ s \in semsets
        /\ SGo(s, "semgot", "shmget")
        /\ sems' = [sems EXCEPT ![s] = [r \in Records |-> 0]]
     \/ /\ s \notin semsets
        /\ SGo(s, "semgot", "exited")
        /\ UNCHANGED sems
  /\ UNCHANGED <<shm, si, todo, prt, printed, clientVars, semsets, segs, book,
                 history, bounds>>

\* A variant with a bug: the server ends without semerr().
ShmGetKeeps(s) ==
  /\ \/ /\ LiveSegs = {}
        /\ SGo(s, "shmget", "shmgot")
        /\ segs' = [segs EXCEPT ![s] = "live"]
     \/ /\ LiveSegs # {}
        /\ SGo(s, "shmget", "exited")
        /\ UNCHANGED segs
  /\ UNCHANGED <<sem, shm, si, todo, prt, printed, clientVars, semsets, sems, book,
                 history, bounds>>

\* shmget(IPC_CREAT | IPC_EXCL); semerr() when it fails.
ShmGet(s) ==
  /\ \/ /\ LiveSegs = {}
        /\ SGo(s, "shmget", "shmgot")
        /\ segs' = [segs EXCEPT ![s] = "live"]
        /\ UNCHANGED semsets
     \/ /\ LiveSegs # {}
        /\ SGo(s, "shmget", "exited")
        /\ semsets' = RemovedSets(sem[s])
        /\ UNCHANGED segs
  /\ UNCHANGED <<sem, shm, si, todo, prt, printed, clientVars, sems, book,
                 history, bounds>>

ShmStore(s) ==
  /\ SGo(s, "shmgot", "shmat")
  /\ shm' = [shm EXCEPT ![s] = s]
  /\ UNCHANGED <<sem, si, todo, prt, printed, clientVars, kernelVars, book,
                 history, bounds>>

\* shmctl(IPC_STAT) and shmat(): both fail when the segment is gone.
ShmAt(s) ==
  /\ \/ SegExists(shm[s]) /\ SGo(s, "shmat", "init") /\ UNCHANGED semsets
     \/ /\ ~SegExists(shm[s])
        /\ SGo(s, "shmat", "exited")
        /\ semsets' = RemovedSets(sem[s])
  /\ UNCHANGED <<sem, shm, si, todo, prt, printed, clientVars, sems, segs, book,
                 history, bounds>>

\* One record is cleared and its semaphore opened.
InitRecord(s) ==
  /\ spc[s] = "init" /\ si[s] < rekord
  /\ book' = [book EXCEPT ![s][si[s]].typ = 0, ![s][si[s]].login = None]
  /\ \/ /\ SetExists(sem[s])
        /\ SetVal(sem[s], si[s], 1)
        /\ si' = [si EXCEPT ![s] = @ + 1]
        /\ SGo(s, "init", "init")
        /\ UNCHANGED segs
     \/ /\ ~SetExists(sem[s])
        /\ SGo(s, "init", "exited")
        /\ segs' = RemovedSegs(shm[s])
        /\ UNCHANGED <<sems, si>>
  /\ UNCHANGED <<sem, shm, todo, prt, printed, clientVars, semsets, history, bounds>>

Ready(s) ==
  /\ si[s] = rekord /\ SGo(s, "init", "ready")
  /\ UNCHANGED <<sem, shm, si, todo, prt, printed, clientVars, kernelVars, book,
                 history, bounds>>

SRunning(s) == spc[s] \notin {"off", "exited", "crashed"}

Signal == signals < MaxSignals /\ signals' = signals + 1 /\ UNCHANGED kills

\* SIGINT enters sgnhandle(), also from inside drukowanie().
SInt(s) ==
  /\ SRunning(s) /\ spc[s] # "cleaning"
  /\ Signal
  /\ spc' = [spc EXCEPT ![s] = "cleaning"]
  /\ todo' = [todo EXCEPT ![s] = IF ServerAttached(s) THEN {"dt", "seg", "set"}
                                                     ELSE {"seg", "set"}]
  /\ prt' = [prt EXCEPT ![s] = Idle]
  /\ stopped' = stopped \cup {s}
  /\ UNCHANGED <<sem, shm, si, printed, clientVars, kernelVars, book, claims, interrupted>>

\* shmdt(), shmctl(IPC_RMID) and semctl(IPC_RMID) are arguments of one
\* printf(): C leaves their order open.
CleanUp(s) ==
  /\ SGo(s, "cleaning", "cleaning")
  /\ \E x \in todo[s] :
       /\ todo' = [todo EXCEPT ![s] = @ \ {x}]
       /\ segs' = IF x = "seg" THEN RemovedSegs(shm[s]) ELSE segs
       /\ semsets' = IF x = "set" THEN RemovedSets(sem[s]) ELSE semsets
  /\ UNCHANGED <<sem, shm, si, prt, printed, clientVars, sems, book,
                 history, bounds>>

CleanedUp(s) ==
  /\ todo[s] = {} /\ SGo(s, "cleaning", "exited")
  /\ UNCHANGED <<sem, shm, si, todo, prt, printed, clientVars, kernelVars, book,
                 history, bounds>>

\* SIGTSTP enters drukowanie(); without a segment shared_data[0] is a fault.
STstp(s) ==
  /\ SRunning(s) /\ prt[s].phase = "off"
  /\ Signal
  /\ IF ServerAttached(s)
       THEN prt' = [prt EXCEPT ![s].phase = "count"] /\ UNCHANGED spc
       ELSE spc' = [spc EXCEPT ![s] = "crashed"] /\ UNCHANGED prt
  /\ UNCHANGED <<sem, shm, si, todo, printed, clientVars, kernelVars, book, history>>

PrintOnly == UNCHANGED <<spc, sem, shm, si, todo, clientVars, kernelVars, book,
                         history, bounds>>

\* The first loop of drukowanie() counts the written records.
Count(s) ==
  LET p == prt[s] IN
    /\ p.phase = "count"
    /\ \/ /\ p.i < rekord
          /\ LET w == book[s][p.i].typ # 0 /\ GetVal(sem[s], p.i) # 0 IN
               prt' = [prt EXCEPT ![s].i = @ + 1,
                                  ![s].written = IF w THEN @ + 1 ELSE @]
       \/ /\ p.i = rekord
          /\ prt' = [prt EXCEPT ![s] = IF p.written = 0 THEN Idle
                                       ELSE [Idle EXCEPT !.phase = "typ"]]
    /\ PrintOnly /\ UNCHANGED printed

\* The second loop tests typ, then the semaphore, and prints.
PrintTyp(s) ==
  LET p == prt[s] IN
    /\ p.phase = "typ"
    /\ \/ /\ p.i < rekord /\ book[s][p.i].typ # 0
          /\ prt' = [prt EXCEPT ![s].phase = "value"]
       \/ /\ p.i < rekord /\ book[s][p.i].typ = 0
          /\ prt' = [prt EXCEPT ![s].i = @ + 1]
       \/ p.i = rekord /\ prt' = [prt EXCEPT ![s] = Idle]
    /\ PrintOnly /\ UNCHANGED printed

\* A variant with a bug: the semaphore is not tested.
PrintRecordUntested(s) ==
  LET r == prt[s].i IN
    /\ prt[s].phase = "value"
    /\ prt' = [prt EXCEPT ![s].phase = "typ", ![s].i = @ + 1]
    /\ printed' = [printed EXCEPT ![s] =
                     [rec |-> r, txt |-> book[s][r].txt, login |-> book[s][r].login]]
    /\ PrintOnly

PrintRecord(s) ==
  LET r == prt[s].i IN
    /\ prt[s].phase = "value"
    /\ prt' = [prt EXCEPT ![s].phase = "typ", ![s].i = @ + 1]
    /\ printed' = IF GetVal(sem[s], r) = 0 THEN printed
                  ELSE [printed EXCEPT ![s] =
                          [rec |-> r, txt |-> book[s][r].txt, login |-> book[s][r].login]]
    /\ PrintOnly

SKill(s) ==
  /\ SRunning(s) /\ kills < MaxKills
  /\ kills' = kills + 1
  /\ spc' = [spc EXCEPT ![s] = "crashed"] /\ prt' = [prt EXCEPT ![s] = Idle]
  /\ UNCHANGED <<sem, shm, si, todo, printed, clientVars, kernelVars, book,
                 history, signals>>

ServerStep(s) ==
  \/ SemGet(s) \/ SemClose(s) \/ ShmGet(s) \/ ShmStore(s) \/ ShmAt(s)
  \/ InitRecord(s) \/ Ready(s) \/ CleanUp(s) \/ CleanedUp(s)
  \/ Count(s) \/ PrintTyp(s) \/ PrintRecord(s)

-----------------------------------------------------------------------------
(* The client. *)

CGo(c, a, b) == cpc[c] = a /\ cpc' = [cpc EXCEPT ![c] = b]

clientOnly == <<serverVars, history, bounds>>

\* shmget(key) of the segment, its IPC_STAT, semget(key), shmat().
CShmGet(c) ==
  /\ \/ \E s \in LiveSegs : cshm' = [cshm EXCEPT ![c] = s] /\ CGo(c, "shmget", "stat")
     \/ LiveSegs = {} /\ CGo(c, "shmget", "exited") /\ UNCHANGED cshm
  /\ UNCHANGED <<csem, ci, freee, kernelVars, book, clientOnly>>

CStat(c) ==
  /\ CGo(c, "stat", IF SegExists(cshm[c]) THEN "semget" ELSE "exited")
  /\ UNCHANGED <<csem, cshm, ci, freee, kernelVars, book, clientOnly>>

CSemGet(c) ==
  /\ \/ \E s \in semsets : csem' = [csem EXCEPT ![c] = s] /\ CGo(c, "semget", "shmat")
     \/ semsets = {} /\ CGo(c, "semget", "exited") /\ UNCHANGED csem
  /\ UNCHANGED <<cshm, ci, freee, kernelVars, book, clientOnly>>

CShmAt(c) ==
  /\ CGo(c, "shmat", IF SegExists(cshm[c]) THEN "typ" ELSE "exited")
  /\ UNCHANGED <<csem, cshm, ci, freee, kernelVars, book, clientOnly>>

\* The search for a record with typ 0 and an open semaphore.
CTyp(c) ==
  /\ cpc[c] = "typ"
  /\ \/ /\ ci[c] < rekord /\ book[cshm[c]][ci[c]].typ = 0
        /\ CGo(c, "typ", "getval") /\ UNCHANGED ci
     \/ /\ ci[c] < rekord /\ book[cshm[c]][ci[c]].typ # 0
        /\ CGo(c, "typ", "typ") /\ ci' = [ci EXCEPT ![c] = @ + 1]
     \/ ci[c] = rekord /\ CGo(c, "typ", "exited") /\ UNCHANGED ci
  /\ UNCHANGED <<csem, cshm, freee, kernelVars, book, clientOnly>>

CGetVal(c) ==
  LET v == GetVal(csem[c], ci[c]) IN
    /\ cpc[c] = "getval"
    /\ \/ /\ v = 1 /\ CGo(c, "getval", "setval")
          /\ freee' = [freee EXCEPT ![c] = ci[c]] /\ UNCHANGED ci
       \/ /\ v = 0 /\ CGo(c, "getval", "typ")
          /\ ci' = [ci EXCEPT ![c] = @ + 1] /\ UNCHANGED freee
       \/ v = -1 /\ CGo(c, "getval", "exited") /\ UNCHANGED <<ci, freee>>
    /\ UNCHANGED <<csem, cshm, kernelVars, book, clientOnly>>

\* semctl(SETVAL) of the claimed record, or the error exit when it fails.
CSetVal(c, a, v, b) ==
  /\ cpc[c] = a
  /\ \/ SetExists(csem[c]) /\ SetVal(csem[c], freee[c], v) /\ CGo(c, a, b)
     \/ ~SetExists(csem[c]) /\ UNCHANGED sems /\ CGo(c, a, "exited")
  /\ UNCHANGED <<csem, cshm, ci, freee, semsets, segs, book>>

CClaim(c) ==
  /\ CSetVal(c, "setval", 0, "claimed")
  /\ claims' = IF SetExists(csem[c])
                 THEN [claims EXCEPT ![cshm[c]][freee[c]] = @ \cup {c},
                                     ![csem[c]][freee[c]] = @ \cup {c}]
                 ELSE claims
  /\ UNCHANGED <<serverVars, interrupted, stopped, bounds>>

CSignal(c) ==
  /\ CGo(c, "claimed", "mark")
  /\ UNCHANGED <<csem, cshm, ci, freee, kernelVars, book, clientOnly>>

\* Writes to the claimed record.
CWrite(c, a, b, rec) ==
  /\ CGo(c, a, b)
  /\ book' = [book EXCEPT ![cshm[c]][freee[c]] = rec]
  /\ UNCHANGED <<csem, cshm, ci, freee, kernelVars, clientOnly>>

Mine(c) == book[cshm[c]][freee[c]]

CMark(c) == CWrite(c, "mark", "read", [Mine(c) EXCEPT !.typ = 1])
CRead(c) == CWrite(c, "read", "login", [Mine(c) EXCEPT !.txt = c])
CLogin(c) == CWrite(c, "login", "detach", [Mine(c) EXCEPT !.login = c])

\* shmdt() of the record's address: it is the segment's for record 0 only.
CDetach(c) ==
  /\ CGo(c, "detach", "release")
  /\ UNCHANGED <<csem, cshm, ci, freee, kernelVars, book, clientOnly>>

CRelease(c) == CSetVal(c, "release", 1, "leave") /\ UNCHANGED clientOnly

CLeave(c) ==
  /\ CGo(c, "leave", "done")
  /\ UNCHANGED <<csem, cshm, ci, freee, kernelVars, book, clientOnly>>

CRunning(c) == cpc[c] \notin {"done", "exited", "dead"}

Handled == {"mark", "read", "login", "detach", "release", "leave"}

\* SIGINT: the default action before signal(), sighandle() after it; there
\* the record is a fault when the segment is detached.
CInt(c) ==
  /\ CRunning(c) /\ cpc[c] \notin {"abort", "unlock"}
  /\ Signal
  /\ cpc' = [cpc EXCEPT ![c] =
               IF @ \in Handled /\ ClientAttached(c) THEN "abort" ELSE "dead"]
  /\ interrupted' = interrupted \cup {c}
  /\ UNCHANGED <<csem, cshm, ci, freee, serverVars, kernelVars, book, claims, stopped>>

CAbort(c) == CWrite(c, "abort", "unlock", [Mine(c) EXCEPT !.typ = 0])

\* A variant with a bug: the interrupted client leaves its semaphore closed.
CUnlockSkipped(c) ==
  /\ CGo(c, "unlock", "exited")
  /\ UNCHANGED <<csem, cshm, ci, freee, kernelVars, book, clientOnly>>

CUnlock(c) == CSetVal(c, "unlock", 1, "exited") /\ UNCHANGED clientOnly

CKill(c) ==
  /\ CRunning(c) /\ kills < MaxKills
  /\ kills' = kills + 1
  /\ cpc' = [cpc EXCEPT ![c] = "dead"]
  /\ UNCHANGED <<csem, cshm, ci, freee, serverVars, kernelVars, book, history, signals>>

ClientStep(c) ==
  \/ CShmGet(c) \/ CStat(c) \/ CSemGet(c) \/ CShmAt(c)
  \/ CTyp(c) \/ CGetVal(c) \/ CClaim(c) \/ CSignal(c)
  \/ CMark(c) \/ CRead(c) \/ CLogin(c) \/ CDetach(c) \/ CRelease(c) \/ CLeave(c)
  \/ CAbort(c) \/ CUnlock(c)

Next ==
  \/ \E s \in Servers : Start(s) \/ ServerStep(s) \/ SInt(s) \/ STstp(s) \/ SKill(s)
  \/ \E c \in Clients : ClientStep(c) \/ CInt(c) \/ CKill(c)

Spec == Init /\ [][Next]_vars

\* Processes that run are scheduled and the user of a client answers; nobody
\* has to start a server or to send a signal.
FairSpec ==
  /\ Spec
  /\ \A s \in Servers : WF_vars(ServerStep(s))
  /\ \A c \in Clients : WF_vars(ClientStep(c))

-----------------------------------------------------------------------------
(* Properties. *)

\* The types of the variables.
TypeOK ==
  /\ spc \in [Servers -> {"off", "semget", "semgot", "shmget", "shmgot", "shmat",
                           "init", "ready", "cleaning", "exited", "crashed"}]
  /\ sem \in [Servers -> Servers \cup {Zero}]
  /\ shm \in [Servers -> Servers \cup {Zero}]
  /\ si \in [Servers -> 0 .. rekord]
  /\ todo \in [Servers -> SUBSET {"dt", "seg", "set"}]
  /\ prt \in [Servers -> [phase : {"off", "count", "typ", "value"},
                           i : 0 .. rekord, written : 0 .. rekord]]
  /\ cpc \in [Clients -> {"shmget", "stat", "semget", "shmat", "typ", "getval",
                           "setval", "claimed", "abort", "unlock", "done",
                           "exited", "dead"} \cup Handled]
  /\ csem \in [Clients -> Servers \cup {Zero}]
  /\ cshm \in [Clients -> Servers \cup {Zero}]
  /\ ci \in [Clients -> 0 .. rekord]
  /\ freee \in [Clients -> Records \cup {None}]
  /\ semsets \subseteq Servers
  /\ sems \in [Servers -> [Records -> 0 .. 1]]
  /\ segs \in [Servers -> {"none", "live", "marked"}]
  /\ book \in [Servers -> [Records -> [typ : 0 .. 1, txt : Clients \cup {None},
                                       login : Clients \cup {None}]]]

\* c closed the semaphore of its record and has not opened it again.
Holds(c) ==
  cpc[c] \in {"claimed", "mark", "read", "login", "detach", "release"}

\* The objects of s have the id 0, and another server got SIGINT before it had
\* stored one of its own: its handler removes what has the id 0 (serwer:30-35).
ZeroRemoved(ids, s) == s = IdZero /\ \E t \in stopped \ {s} : ids[t] = Zero

\* While a server serves, its set and its segment are the only ones of the key,
\* over the starts, errors, interrupts and crashes of the others: nobody
\* replaces them (serwer:162, 186, IPC_EXCL), and nobody removes them, unless
\* they have the id 0 and a server was interrupted before it had one to remove.
BookIntact ==
  \A s \in Servers : spc[s] \in {"init", "ready"} =>
    /\ semsets = {s} \/ ZeroRemoved(sem, s)
    /\ LiveSegs = {s} \/ ZeroRemoved(shm, s)

\* Nobody claims a record of a set before the server has prepared it: the
\* semaphores are closed before the segment can be found (serwer:169-186).
ClaimedWasInitialised ==
  \A c \in Clients : Holds(c) => si[csem[c]] > freee[c]

\* A semaphore of a serving server is closed only for a client that is at
\* work on the record, or that died while it was.
LockAccounted ==
  \A s \in Servers : spc[s] = "ready" /\ s \in semsets =>
    \A r \in Records : sems[s][r] = 0 =>
      \E c \in Clients : /\ csem[c] = s /\ freee[c] = r
                         /\ Holds(c) \/ cpc[c] \in {"abort", "unlock", "dead"}

\* A record that one client only claimed, and that was not interrupted, is
\* printed whole or not at all, however the steps of drukowanie() and of the
\* client interleave (serwer:83, 101; klient:171, 197, 228).
PrintWhole ==
  \A s \in Servers : spc[s] \in {"init", "ready"} /\ printed[s] # None =>
    \A c \in Clients :
      claims[s][printed[s].rec] = {c} /\ c \notin interrupted =>
        printed[s].txt = c /\ printed[s].login = c

\* The book of a serving server keeps the entry of a client that only it claimed
\* and that was not interrupted, from the thanks on (klient:218), whatever
\* the server prepares and other clients search for in between.
ThankKept ==
  \A c \in Clients :
    /\ cpc[c] \in {"detach", "release", "leave", "done"} /\ c \notin interrupted
    /\ spc[cshm[c]] = "ready" /\ claims[cshm[c]][freee[c]] = {c}
    => Mine(c) = [typ |-> 1, txt |-> c, login |-> c]

\* A server that has ended by any way but a crash left no object whose id it had
\* stored: shmerr(), semerr() and the handler remove them, also when another
\* server starts in the middle of that (serwer:139, 176).
StoredRemoved ==
  \A s \in Servers : spc[s] = "exited" =>
    /\ sem[s] = s => s \notin semsets
    /\ shm[s] = s => segs[s] # "live"

\* A claimed record is released again, unless a client died or the server
\* ended.
RecordReleased ==
  \A s \in Servers, r \in Records :
    spc[s] = "ready" /\ sems[s][r] = 0
      ~> \/ sems[s][r] = 1 \/ spc[s] # "ready"
         \/ \E c \in Clients : cpc[c] = "dead"

\* The same without the exception: what a serving server created belongs to it.
\* False for the id 0, which Linux gives to the first set and segment.
Undisturbed ==
  \A s \in Servers : spc[s] \in {"init", "ready"} => semsets = {s} /\ LiveSegs = {s}

\* What klient:169 says: closing the semaphore takes the record for the
\* entry, so that two clients never work on one record.
RecordTaken ==
  \A c, d \in Clients :
    c # d /\ Holds(c) /\ Holds(d) /\ csem[c] = csem[d] => freee[c] # freee[d]

\* What klient:46-47 says: an interrupted client opens its semaphore with
\* typ 0, so that the record is not wasted.
NotWasted ==
  \A c \in Clients :
    c \in interrupted /\ cpc[c] \in {"dead", "exited"} /\ freee[c] # None
      /\ SetExists(csem[c]) /\ claims[cshm[c]][freee[c]] = {c}
      => GetVal(csem[c], freee[c]) = 1

\* What serwer:79-81 and 97-99 say: a record is printed when it is written.
PrintedIsWritten ==
  \A s \in Servers : spc[s] = "ready" /\ printed[s] # None =>
    printed[s].txt # None /\ printed[s].txt = printed[s].login

\* What klient:218 says: the client that thanked for the entry made one,
\* and the book of a serving server keeps it.
ThankedIsKept ==
  \A c \in Clients :
    cpc[c] \in {"done", "exited", "dead"} /\ freee[c] # None
      /\ Mine(c).login = c /\ spc[cshm[c]] = "ready"
      => Mine(c) = [typ |-> 1, txt |-> c, login |-> c]

\* What serwer:30 says: on SIGINT the server cleans up after itself.
CleansUp ==
  \A s \in Servers : spc[s] = "exited" => s \notin semsets /\ segs[s] # "live"
=============================================================================
