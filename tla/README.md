# Verification of SK_UMK_20-21

The repository holds nine C programs of a course on computer networks: a TCP
multiproxy, a guest book in System V shared memory, a chat and a board game over
UDP, a system call tracer, a sniffer and an `ls`. It has no tests and no design
document: what the programs promise is in their (Polish) comments and messages,
and the properties here quote those.

Short names of the sources: *multiproxy* is `Projekt Multiproxy - Wykład 3/main.c`,
*serwer* and *klient* are `ZygadloMaciej_serwerksiega.c` and
`ZygadloMaciej_klientksiega.c`, *Czat*, *UDP* and *UDP copy* the three files of
`Projekt Zaliczeniowy 3 - Gra UDP`, *ptrace* is `Projekt Ptrace - wykład 1/main.c`.

## 1. Inventory

| Component | State | Operations | Interaction | What is hard | Correct when |
|---|---|---|---|---|---|
| Relay of one direction, `SendRecv()` (multiproxy 470) | `buff` (content, start, left), two ready flags | send the residue, read, close | called by the event loop, talks to two TCP sockets | short sends, blocking calls, resets, end of input | the destination gets the source's bytes, in order, each once, all of them at a regular end |
| Event loop (multiproxy 131) | `connections[]`, `connCount`, ready flags, fds | `epoll_wait`, `SetReady`, `AddConnection`, relay loop, `CloseConnection` | edge-triggered events, one process for all the connections | an edge that is consumed without being acted on is lost; slots are reused; one process blocks for everybody | no data and no client is forgotten, slots and counter agree |
| Connection table (multiproxy 44-65, 96-129, 182-456, 534) | `connections[]`, `proxies[].serverfd`, `connCount`; open files and epoll's interest list | `CreateServerSocket`, `AddConnection`, `CreateClientSocket`, `SetReady`, `CloseConnection` | events come back as descriptor numbers | each socket is registered twice through `dup()`; numbers and slots are reused; every call may run out of descriptors | three books agree, nothing leaks, a client has its own session |
| Book server (serwer) | IPC ids, records, counter, `drukowanie()` | create set and segment, initialise, print on SIGTSTP, remove on SIGINT | shared memory and semaphores with clients; signals at any step | half-created objects, handlers in the middle of anything, printing while clients write | it removes what it created and nothing else, prints whole entries |
| Book client (klient) | ids, claimed record | find a free record, close its semaphore, write, release, give back on SIGINT | as above | test and set are two calls; interrupts; restarts of the server | a record has one author and is released |
| Chat and game over UDP (Czat, UDP, UDP copy) | two processes per program with copies of the globals, one shared socket | START, line, shot, answer, `<koniec>` | datagrams to a partner that may not run | loss, duplication, order, processes that end separately | users learn of each other, answers match shots, the port is free after the end |
| Tracer (ptrace) | `resp`, `regs`, the line begun | wait, read registers, print, resume; `detach()` handler | ptrace stops of another process; signals to both | stops of different kinds look alike, death in a stop, handler in the middle of the loop | lines are the calls; tracer and tracee are never stuck |
| Sniffer (`ZygadloMaciejSniffer.c`) | protocol flags, one buffer | `ParseArgs()`, `recv()`, a `Packet...()` function for each header | reads a raw socket | lengths from the frame, bytes of earlier frames in the buffer | a frame shows its own headers that were asked for, and its own addresses |
| myls (`ZygadloMaciej_myls.c`) | an array of names | count, read, sort, `lstat()` per name; the first two lines of a file | file system shared with others | the directory changes between the passes; `getc()` at the end of a file | lists what is there, sorted; ends |

PROJECT.json lists the hazards of each, at their lines.

## 2. Modules

    Channel  <--refines--  SendRecv    MCSendRecv     SendRecvProofs
                              ^ same functions, bytes counted
                           Multiproxy  MCMultiproxy   MultiproxyProofs
                              ^ same loop, descriptors instead of bytes
    Sessions <--refines--  ConnTable   MCConnTable    ConnTableProofs
    Ksiega (server + client)           MCKsiega       KsiegaProofs
    GraUDP (Czat, UDP, UDP copy)       MCGraUDP       GraUDPProofs
    Strace                             MCStrace       StraceProofs
    Sniffer                            MCSniffer      SnifferProofs
    Myls                               MCMyls         MylsProofs

**Channel** is what a direction of a proxied connection promises: bytes of the
source are handed over in order, the direction ends "complete" (everything was
handed over) or "cut".

**SendRecv** is one direction, byte by byte. `content`, `start`, `left` are
`struct buff`; `readReady`, `writeReady` the two flags; `inq` and `room` the
queues of the two sockets. Every `send()` and `read()` is a step, with one action
per outcome: `SendAll`, `SendPart`, `SendBlocks`, `SendFails`, `SendKills`
(SIGPIPE), `ReadSome`, `ReadEof`, `ReadBlocks`, `ReadFails`. `CloseConnection` is
part of the actions that call it. Peers write, drain, finish and reset between
any two steps. The rest of the main loop is seen by its effects (`EpollIn`,
`EpollOut`, `Serve`, `CloseByOther`).

**Multiproxy** is the main loop with bytes counted: slots with their flags
(`ready` as the set of nonzero places), `connCount`, the loop variables `i` and
`found`, the listening sockets' backlog, and for each connection two sockets with
queues and the set of edges epoll has yet to report. An edge is produced by new
data, by freed room and by a change of state, and is reported once. Level-triggered
listeners are reported as long as a client waits.

**Sessions** is what the connection table promises: a client that is let in gets
a session of its own with the host behind the port it came to, and an event is
noted for the session of its socket and no other, until the session is over.

**ConnTable** is the same loop with descriptors instead of bytes: `fd`, `ready`,
`p`, `connCount` of each slot, `serverfd`, and the kernel's `files` (what a
descriptor refers to) and `watched` (epoll's entries, which keep the file they were
made for). `Nth(n)` takes the lowest free descriptors as the kernel does. An event
comes back as a number and `Found` is the search of `SetReady()`. A call of
`SendRecv()` clears a flag or closes. All the exits of the process are kept, with
their cause in `ended`.

**Ksiega** is server and client of the book. Every IPC call, every access to
shared memory that the other side can see between, and every signal is a step.
Sets and segments are named by the server that made them, ids are never used
again except that `IdZero` says whose objects have the id 0 (the initial value of
the globals), which Linux gives to the first object of a system; `stopped` notes whom
a SIGINT has reached. `drukowanie()` runs as a handler: `prt` is its place, and the
server's main program stands still meanwhile. `CInt`/`CAbort`/`CUnlock` are the
client's handler.

**GraUDP** is a run of any of the three UDP programs (`Version`). `pc` is the
parent, `kid` the child, `myturn` has one copy for each. A socket is open as long
as one of the processes has it, so that `bind()` fails while an old child lives.
`client` is the child's copy of the address that `recvfrom()` filled in: the child
answers the sender, the parent writes to the host named at the start.
`air` is the bag of datagrams on their way and `queue` the receive buffer. Texts
are the classes the code tells apart; `Chop` is the cutting of the last character.
`battlefield` is all water in this commit (`getships()` is commented out), so the
answer to a shot is always `<LOSE>`; the branches for hits are dead code.

**Strace** is the tracer and a tracee with the stops the kernel makes: before and
after calls, for signals, after an interrupted call (`rax` = -ERESTARTSYS, then a
signal stop, then the call again). Resuming with signal 0 drops the signal. SIGKILL
and `exit_group()` of another thread end the tracee out of any state. `resp`,
`regs`, `name` are the tracer's; `done` and `out` are histories of calls and lines,
`odd` notes that `rax` was -ENOSYS elsewhere than before a call.

**Sniffer** is `main()` over a buffer that is never cleared. `Cells` are the places
of it whose values decide what is printed; a header is found by adding up sizes,
as in the code. `shown` lists the lines printed for the last frame, each with its kind
(the line that opens a section, one that closes it, an address) and the bytes it was
made of. What should be printed is stated apart from the code: `Layers` lists the
headers of a frame by the standards of its protocols, `Nest` opens and closes them one
in the other, and `Reads` compares. `Start` has the options in `k` words before the others,
as `getopt()` orders them, so that `argc` is `1 + k + Len(words)`.

**Myls** is the listing with other processes creating and removing files between
any two calls: `todo` and `maybe` are what the open directory stream still gives or
may give (POSIX leaves open whether files created meanwhile appear). The sort
is the pair of loops of the code, one pass per step. The second part is the
description of one file with its content read by `getc()`: `out` is all that line 280
prints, the byte of EOF included, which it prints without end for a file of fewer than
two lines. `MaxEof` bounds how many of these bytes `out` records (the loop itself has
no bound).

Definitions marked external in PROJECT.json are the kernel, the peers, the network
and the users; they are modelled as far as the code can see them.

## 3. Runs

| Run | Question | Bounds and why they are enough |
|---|---|---|
| `sendrecv` | Does the loop keep every byte, in order, and implement `Channel`? | buffer 2, send queue 2, receive queue 3, 4 bytes of two kinds: short sends with a residue, full and empty queues, reuse of `content` all happen |
| `mp_live` | Are edges, clients or data of a lone connection ever forgotten? | 1 listener, 1 slot, 2 clients (the second reuses or is refused the slot), 3 bytes against a buffer of 2 and a send queue of 1, so that reads leave bytes behind and sends are short, 1 fault |
| `mp_two` | Do slots, flags and counter stay exact, does `accept()` always find a client? | 2 listeners, 2 slots, 2 clients, 2 faults (a connection ended and then reset is one that SIGPIPE kills the proxy over) |
| `ksiega_live` | Is every closed semaphore accounted for and opened again, is an entry printed whole? | 2 clients, 2 records, one signal at any step, one kill |
| `ksiega_restart` | Does a serving server keep its objects and are records claimed only when prepared? | 2 servers under one key, one of which has the objects with the id 0 (`IdZero = s1`), 2 clients, 1 record, 1 signal, 1 kill: crash, restart and the early interrupt of the other in all orders |
| `czat_join` | Of two users that face each other, does one learn of the other? | two programs in turn on one host, one on the other; Ctrl-C, failing `sendto()`, `recvfrom()` and `fork()`, end of input, loss |
| `gra_lossy` | Are answers accounted for, does the network come to rest, is the port freed? | a shot or `<koniec>` each, one duplicate, a receive buffer of one datagram, so that it overflows |
| `strace` | Does `resp` keep step, are the lines the calls, is the status passed on, is nobody stuck? | started and attached, 2 calls, 1 signal (also SIGKILL), threads, failing exec; an error, -ENOSYS and a fine result; found in and out of a call |
| `conntable` | Do slots, files and interest list agree, does anything leak, is every client's session its own? | 2 listeners, 2 slots, 3 clients (one is refused for lack of a slot, or comes after a close into a used slot), 15 descriptors: 14 of a full table and one for the refused client; one refused address, after which they do run out; events in twos |
| `sniffer` | Does every frame show its own headers and addresses, in any order of frames? | all kinds of frames, complete, cut, with IPv4 options and fragments; no, one, two and all options; the buffer has no state but the last frames, so that pairs are enough |
| `myls` | Is the listing sorted and complete, does it end? | directories of up to 4 names, 3 changes between any two calls, contents of up to 5 characters with and without newlines; of an endless output the first two EOF bytes are recorded (`MaxEof = 2`), the loop itself goes on |
| `ksiega_taken` | violated: closing the semaphore takes the record (klient 157 and 171 are two calls) | |

Not listed among the runs but kept beside them: MultiproxyPair (the liveness of
`mp_live` with two slots, one byte per client), GraHosts (three hosts: answers go to
who shot) and the deviations below. The type invariants of Ksiega, ConnTable, GraUDP,
Sniffer and Myls are checked by KsiegaPrinted, ConnTableLimit, GraHosts,
SnifferDeviations and MylsDeviations (TLC's `-continue` goes on after a violation).
Symmetry is used for interchangeable clients in runs without liveness only.

No run checks for deadlock: all these programs may legitimately come to rest
(users stop, bounds are used up). That nobody waits for ever is stated by the
liveness properties instead.

What passes and is not obvious:

- Clearing a ready flag only on EAGAIN or after a short send, and never
  elsewhere, is what makes edge-triggered events safe (`NoLostWakeup`).
- One `accept()` per wakeup is enough because listeners are level-triggered, and it
  always finds a client (`AcceptFindsClient`). The listeners are O_NONBLOCK (263): without
  a client `accept()` would return EAGAIN, and `PrintError()` would end the proxy.
- A server that was interrupted, or lost the race for the key, takes nothing of a server
  that serves: IPC_EXCL keeps it from replacing the objects, and its handler removes
  what it stored. The one exception is part of `BookIntact`: a handler that runs before
  an id was stored removes the object with the id 0 (`Undisturbed`, without that
  exception, is violated).
- Closing the semaphores *before* the segment can be found is what makes records
  claimed only when prepared (`ClaimedWasInitialised`), over restarts too.
- The epoll entries made for duplicates are all found again by `DeleteFd()`, and an
  event never wakes a session other than its own although numbers are reused at
  once (`Owned`, `SessionsSpec`).
- Descriptors run out only by the sockets of refused addresses (`Exhaustion`).
- The entry of a client survives everything other clients and the preparation of
  later records do (`ThankKept`).
- START sent *after* `bind()` guarantees that at least one side learns of the other
  (`SomeoneLearns`).
- Two children never answer each other for ever only because `<LOSE>` is no pair of
  coordinates (`Quiesces`).
- The bytes that earlier frames left in the buffer never show in the headers of a frame
  that is not cut, nor in the addresses of an ARP message if the frame holds as many
  bytes as the message says they have (`OwnHeaders`, `OwnAddresses`). `OwnHeaders` has
  four conditions, and for each the table below has the property that is false without
  it: the frame is not cut (`NothingStale`), has no IPv4 options and is no later fragment
  (`HeadersFound`), has no DHCP header that was not asked for (`OptionsObeyed`), and the
  arguments enable anything (`NoOptionsMeansAll`).
- The -ENOSYS test of the tracer keeps step over signals and restarted calls, where
  a plain toggle would not (`InStep`, `LinesMatch`). `LinesMatch` claims the name of
  every call and the result of those that succeeded; errors are printed one too high
  (`ReturnShown`).

### Deviations met while modelling

`ksiega_taken` is a finding of PROJECT.json. The modules state more
promises of comments and messages which this code does not keep. Each has a
configuration beside the others, with a short counterexample:

| Property | Configuration | What happens |
|---|---|---|
| `LocalDataServed`, two connections | MultiproxyFound | a close lowers `connCount` in the pass that compares with it (161): the last slot is passed over |
| `RemoteRelayed` | MultiproxyRemote | both directions ready in one pass: `else if` (171) serves one, no edge comes for the other |
| `ClientsAccepted`, an endless client | MultiproxyStarved | one `SendRecv()` keeps its loop (473) while source and sink are fast |
| `TableIsTheLimit` | ConnTableLimit | `dup()` fails before the table is full and `PrintError()` ends the proxy (394) |
| `DetachEnds` | StraceDetach | `detach()` waits (129) for a stop the interrupted loop already collected |
| `NotWasted` | KsiegaWasted | interrupt between SETVAL (klient 171) and `signal()` (188) |
| `PrintedIsWritten` | KsiegaPrinted | two clients took a record; the interrupted one opens it while the other has set `typ` but written nothing |
| `ThankedIsKept` | KsiegaThanked | the handler stays installed after the thanks and erases the entry |
| `CleansUp` | KsiegaCleans | SIGINT between the return of `semget()` and the assignment |
| `Undisturbed` | KsiegaForeign | the handler of a server that has nothing yet removes the set or segment with the id 0, which is another server's (30-35) |
| `JoinRecognised` | CzatJoined | START of the first user finds no socket |
| `TurnPrompted` | GraTurn | `myturn` is set in the child, read in the parent |
| `OnlyShots` | GraStray | `<LOSE>` is reported as a shot |
| `StopsOnError` | UDPError | `exit(1)` of the parent leaves the child with the port |
| `ReturnShown` | StraceErrors | negative results are printed one too high (108): -2 as -1, where the usage text (73) promises the return value |
| `LinesAlwaysMatch` | StraceErrors | a call that returns -ENOSYS is merged with the next |
| `ExitAlwaysPassedOn` | StraceThread | another thread's `exit_group()`: the status is `rdi` of an unrelated call |
| `NothingStale` | SnifferDeviations | a short frame shows bytes of the one before (95) |
| `HeadersFound` | SnifferDeviations | IPv4 options are read as ports (199) |
| `NoOptionsMeansAll` | SnifferDeviations | an interface and another word: nothing is enabled (287) |
| `OptionsObeyed` | SnifferDeviations | DHCP is shown without its option `-d` (148, against the usage text at 67) |
| `OwnInterface` | SnifferDeviations | the socket is not bound to the interface (90) |
| `DstIsDst` | SnifferDeviations | the destination of IPv6 is printed from the source (224) |
| `StayedShown` | MylsDeviations | a new file takes the place of an old one in the second pass (172) |
| `YearShown` | MylsDeviations | the limits of the dates are in milliseconds, the difference in seconds (37) |
| `BeginningShown` | MylsDeviations | after the content of a file of fewer than two lines the byte of EOF is printed (280) |
| `ContentEnds` | MylsDeviations | `getc()` returns EOF for ever (281) |

## 4. Fairness

- Multiproxy: the process runs (WF), the kernel reports an edge that is there again
  and again (SF of each report; `epoll_wait()` returns what is ready), connects end,
  peers that have room drain. Nobody has to write or to connect.
- Ksiega: every process that can take a step does; the user at a client's prompt
  answers. Signals, kills and starts are never forced.
- GraUDP: WF for each parent (not for the user's typing), for each child, and for
  the arrival of datagrams in the bag: the network delivers or loses, it does not
  keep. Every process is a separate Unix process.
- Myls: WF for the program; other processes need do nothing, and change the
  directory a bounded number of times (`MaxChanges`).
- Strace: WF for the tracer and for the tracee's own steps; signals are not fair.

## 5. Proofs

`SendRecvProofs` proves, for every alphabet and all sizes `MAXBUF`, `RcvBuf`,
`SndBuf` at least 1 (`SizesAssumption`):

- `TypeCorrect`: types, and the window of `content` given to `send()` lies inside it;
- `BytesConserved`: while the connection lives, `sent = delivered \o Pending \o inq`;
- `PrefixDelivered`: what was handed over is a prefix of what was written;
- `EofDelivered`: a direction closed at the end of its input has delivered all of it;
- `ResidueReady`: a residue never waits for new input;
- `ImplementsChannel`: `Spec => Channel!Spec`.

The inductive invariant `Inv` adds to these `WindowRead` (the bytes of the window
were read, they are not `NUL`) and `Serving` (what is known at each place of the
loop: in front of `read()` the buffer is empty, inside `SendRecv()` the read flag
is set). `Conservation` alone is not inductive: `ReadSome` overwrites the buffer
and keeps the equation only because it is empty there. The argument per step is
about `Pending` and has lemmas of its own: `PendingAdvance` (a short send takes a
prefix of it), `PendingFilled` (a read makes it the bytes read), `PendingEmpty`.
`InOrder` and `EofIsComplete` follow from `Conservation` at the step that closes,
since nothing changes them afterwards.

`MultiproxyProofs` proves, for any number of slots, listeners and clients and any
sizes, `TypeCorrect`, `CountIsExact`, `SlotsAreClean`, `AcceptHasClient` and
`NoWakeupIsLost`. `Inv` adds to the properties themselves `Place` (in the relay loop
`i` is past the listeners and past as many slots as were counted, and `SendRecv()`
runs for a used slot) and `AllArmed`, which says of each socket what
`NoLostWakeup` says only at `epoll_wait()`: what is not flagged has an event
queued, or waits for room that a `send()` has found missing. The second half is why
the property is not inductive as it stands: an edge for room comes only after a
`send()` was refused, and `full` records that it was.

`ConnTableProofs` proves, for any number of slots, listeners, descriptors, clients
and refused addresses (`TableAssumption`):

- `BooksAgree`, `NothingLeaks`, `LookupsSucceed`: `Owned`, `NoLeak`, `NeverLost`;
- `TableImplementsSessions`: `Spec => Sessions!Spec`.

`Inv` states the books entry by entry: `Held` (what a used slot refers to), `Apart`
(no descriptor in two places), `Watched` (epoll's entries are those of the used
slots), `Counted`, `NoLeak`; and about the loops `Loops` and `Backlogs` (a listener
whose flag is set has a client). That no number is given out twice rests on one fact
about the kernel, that `Nth` only hands out numbers that are free and different ones
(`NthFree`, `NthDiffer`); which of them is lowest does not matter. `Apart` is what
makes the search of `SetReady()` exact (`EventFound`) and what lets a close leave
the other slots alone. The refinement needs `Fresh` besides: a client has at most
one slot, only after it was met, and an unused slot has no flag, so that a new
session begins with nothing noted. Each action then is `Come`, `Open`, `Refuse`,
`Note`, `Forget`, `DealWith`, `Close`, `Stop` or a stutter.

`KsiegaProofs` proves, for any number of servers, clients and records:

- `ClaimsArePrepared`, `LocksAccounted`, `NothingStoredLeft`:
  `ClaimedWasInitialised`, `LockAccounted`, `StoredRemoved`;
- `BookIsIntact`: `BookIntact`, whoever's objects have the id 0;
- `EntriesPrintWhole` and `ThanksAreKept`: `PrintWhole` and `ThankKept`, as long as no
  server was interrupted before it had stored its ids while an object has the id 0
  (`NoneEarly`; KsiegaForeign shows what happens then).

`Inv` is `Types`, `Stored` (what the globals of a server hold at each place), `Prepared`
(an open semaphore is one of a record below `si`: this is where it matters that the
semaphores are closed before the segment can be found), `Removed` (what the handler
has not to do any more is done) and `Accounted` (`LockAccounted` from the
preparation of each record on). `BookIsIntact` adds `Possess`: a server past
`semget()` owns the live objects of the key but for those with the id 0, once a server
that had stored none was stopped. Under `NoneEarly` it owns them all (`Owners`).

The last two rest on `Entries`. `Found` says that a client of a server that serves
has found both objects of that server, the segment first; without it a client could
close the semaphore of one server and write to the book of another. From it follows
who claimed what (`Claimers`): as long as a server has not passed a record, nobody
claimed it, so preparing it erases no entry. For a record that one client alone
claimed, and that was not interrupted (`Sole`), nobody opens the semaphore under it
(`Closed`) and the entry is as far as its client (`Filled`), so an open semaphore
means a whole entry. `drukowanie()` reads `typ` and the semaphore in two steps:
`Seen` keeps between them that some client of the segment wrote the `typ` (`Marks`),
and at the second step `Filled` makes what is printed whole (`Shown`).

`GraUDPProofs` proves `TypeCorrect` and `OneLearns` (`SomeoneLearns`) for any number
of programs and hosts. It is the argument of two flags that are raised before they
are read: `OneHolder` (one socket a host at the port), `Forked`, and `Said`: of two
programs that face each other and have said START, the START of one is on its way to
the other or was reported there, as long as nothing was lost.

`StraceProofs` proves `TypeCorrect`, `KeepsStep` (`InStep`) and `StatusPassedOn`
(`ExitPassedOn`) for any traced program. `Inv` adds `Waits` (every stop of a waiting
tracer is still to be reported), `Marked` (`rax` is -ENOSYS at stops before calls and,
until `odd`, only there), `Copied` (`regs` are the tracee's), `Toggle` (what `resp` is
at each step of `parent()`, not only when it waits) and `Status`.

`EveryCallReported` (`LinesMatch`) adds `LineInv`: `LastCall` (the registers at a stop
after a call are of the last call made), `Begins` (the line that is begun names the call
the tracee is in) and `Counts` (exactly one line is missing, from the stop after a call
until it is printed). The lines are compared with the calls by position, so that the
step that prints needs no induction over the output. `Succeeded` says which values are
claimed, those of results that are not negative.

`ShotsAnsweredOnce` of `GraUDPProofs` proves `AnswersAccounted` when users do not type
`<LOSE>` themselves, which the child of the other side could not tell from an answer.
`Tallied` is the equation behind it: what a host was answered, and the shots and answers
on the way, in the queues and in the hands of a child that answers, are together no more
than its shots and the copies the network made. Each datagram is counted once, as an
element of a finite set (`Copies` numbers the equal ones of a bag), and every step moves
one element from one of the sets to another.

`FilesRunOut` of `ConnTableProofs` proves `Exhaustion`. The numbers that `Nth` gives out
are all the free ones: their ranks are different numbers below the number of free
descriptors, hence all of them (`RanksAll`). So a call finds no number only when all are
used (`NthEmpty`), and `Inv` bounds the used ones by those of `main()`, the listeners,
four of each connection and the leaked sockets (`OpenBound`); at the exit in the middle
of `CreateClientSocket()` what the call opened itself has become leaked.

`SnifferProofs` proves `TypeCorrect`, `HeadersShown` (`OwnHeaders`) and `AddressesShown`
(`OwnAddresses`) for any frames, interfaces and options (`FramesAssumption`: a frame is a
length and its bytes). `Inv` says that the last frame lies in the buffer as far as it is
long, and that `shown` is what `PacketETH()` makes of the buffer with the flags that
still hold (`Latest`), which are those asked for unless there are none (`Chosen`).
`HeadersShown` is under the four conditions of `OwnHeaders`;
`HeardLayers` is where the third is needed: `PacketDHCP()` prints whatever was asked
for, which is right if DHCP was asked for or the frame has no such header. From there it
is about operators. `Reach`: the fields that choose the next header lie inside
the headers before, so the code looks at bytes of this frame only. `Prints`: a
`Packet...()` function whose carried part reads as a nest prints a nest with one more
header (`NestAround`), or the same one when its flag is off. The addresses are found by
adding up what each function may print.

`MylsProofs` proves, for any names, any finite directories, any number of changes
and any contents (`MylsAssumption`):

- `ListingSorted` (`SortedShown`). `Sorting` is the invariant of the two loops: the
  places past `count - i` hold the largest names in order, and the one at `j` is the
  largest of those before it. `Phases` relates the listing to the array.
- `ListingComplete` (`NothingForgotten`), from two independent invariants. `Enough`,
  while nothing was created: the entries counted are no fewer than the names still to
  be returned, in both passes, every name is returned once, and a file that stayed is to
  be returned or in the array. `Present`, while nothing was removed: there is a name for
  every place of the array, and it is in the directory. The two sides use different
  sets, `todo` and `todo \cup maybe`, since a name that came or went may be returned or not.
- `HeadPrinted` (`HeadShown`). `Reading` says for each round how many characters were
  printed (`k`), that the character in `znak` is the next one, and how many newlines
  the printed ones have; once `k` is the length of the text all that follows is EOF.

`TypeCorrect` (`TypeOK`) is proved for all the modules but Ksiega and ConnTable; there
`Inv` has the part of the types that its argument needs.

Only model-checked: everything about liveness, which TLAPS 1.4 does not handle
(`LocalRelayed`, `ClientsAccepted`, `RecordReleased`, `Quiesces`, `PortReleased`,
`FollowsTracee`, `NotStranded`, `Terminates`). Every safety property of a passing run
has a theorem.

## 6. Not modelled

- Name resolution and the strings of options and arguments (`getaddrinfo()`,
  `getopt()`, `atoi()`): their outcomes are choices or constants.
- Wording and layout of output: the format of dates, owners and permissions in
  myls, the names of calls in the tracer's table, the pictures of the game board
  (no ship is ever placed on it in this commit).
- The effect of `kill(-1, SIGINT)` after a failed `fork()` (UDP copy 282) on programs
  other than these; that it interrupts the others of the host is `Interrupt`.
- Memory layout (an index of -1 at klient 207 or UDP copy 267, uninitialised
  registers beyond "any value" at ptrace 88).

## 7. Plan

All the components are modelled: Channel, SendRecv and their proofs first, then
Multiproxy, Ksiega, GraUDP, Strace, ConnTable with Sessions, Sniffer and Myls, and
the proofs of all of them. What is left:

1. `TypeOK` of Ksiega and ConnTable as theorems.
2. Deviations: the conditions under which the properties of the last table do hold
   (`RemoteRelayed` with one direction silent) as theorems beside their counterexamples.
