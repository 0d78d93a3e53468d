------------------------------- MODULE GraUDP -------------------------------
(***************************************************************************)
(* The UDP programs: the chat (Czat.c), the game board drawn on top of it   *)
(* (UDP.c) and the game (UDP copy.c).  A running program is two processes:  *)
(* the parent reads lines and sends them, the child it forked receives,     *)
(* reports and, in the game, answers shots.  The two share the socket and   *)
(* nothing else: a global the child assigns stays as it was in the parent.  *)
(*                                                                         *)
(* battlefield is all water in the game (the call of getships(), 166, is    *)
(* commented out), so that the answer to a shot is always <LOSE>.           *)
(***************************************************************************)
EXTENDS Integers, Sequences, FiniteSets, Bags
LOCAL INSTANCE BagsExt

CONSTANTS
  Version,     \* "Czat", "UDP" or "UDP copy": the source file
  Programs,    \* every run of the program, on all the hosts
  HostOf, PartnerOf,  \* by program: where it runs, and argv[1]
  Lines,       \* texts that users type
  MayFail, MayEof,    \* programs whose calls fail, whose input may end
  MayInterrupt,  \* programs whose user may press Ctrl-C
  MayLose,     \* whether the network loses datagrams
  RcvBuf,      \* bound: datagrams in the receive buffer of a socket
  MaxAir,      \* bound: datagrams on their way
  MaxDup,      \* bound: datagrams the network duplicates
  MaxLines     \* bound: lines typed in one program

\* The texts of datagrams, by what the code tells apart.  "shot" is two valid
\* coordinates, "shot+" has one character more, "plain" is any text that neither
\* begins with coordinates nor with a control word.
Text == {"START", "<koniec>", "<wypisz>", "<KILL1>", "<LOSE>",
         "shot", "shot+", "plain", ""}

ASSUME GameAssumption ==
  /\ Version \in {"Czat", "UDP", "UDP copy"}
  /\ \A i \in Programs : HostOf[i] # PartnerOf[i]
  /\ Lines \subseteq Text /\ MayFail \subseteq Programs /\ MayEof \subseteq Programs
  /\ MayInterrupt \subseteq Programs
  /\ {RcvBuf, MaxAir, MaxDup, MaxLines} \subseteq Nat

VARIABLES
  pc,        \* of the parent
  snd,       \* snd.text of the parent
  kid,       \* the child: "none", "recv", "answer" (before sendto()), "ended"
  myturn,    \* the two copies of the global
  sigint,    \* SIGINT is pending for the child
  client,    \* address in the copy of the child: recvfrom() overwrites it
  queue,     \* receive buffer of the program's socket
  air,       \* bag of the datagrams on their way
  eof,       \* standard input has ended
  lines, dups,        \* counters of the bounds
  prompt,    \* the parent asked for a shot when it last came to fgets()
  joined,    \* programs the child reported as joined
  stray,     \* it reported a shot for a text that is none
  shots, got,\* shots sent from each host, answers each program read
  clean      \* the network lost and duplicated nothing so far

parent == <<pc, snd, eof, lines, prompt, shots>>
child == <<kid, myturn, sigint, client>>
network == <<queue, air, dups, clean>>
log == <<joined, stray, got>>
vars == <<parent, child, network, log>>

Plays == Version = "UDP copy"
IsShot(t) == t \in {"shot", "shot+"}

\* A variant with a bug: bind() comes after START was sent.
ParentHoldsLate(i) == pc[i] \in {"hello", "ready", "typed", "again", "leave"}

ParentHolds(i) == pc[i] \in {"bound", "hello", "ready", "typed", "again", "leave"}
KidAlive(i) == kid[i] \in {"recv", "answer"}

\* A socket is open while one of the two processes has it.
Holds(i) == ParentHolds(i) \/ KidAlive(i)
Bound(h) == {i \in Programs : HostOf[i] = h /\ Holds(i)}

Init ==
  /\ pc = [i \in Programs |-> "start"]
  /\ snd = [i \in Programs |-> ""]
  /\ kid = [i \in Programs |-> "none"]
  /\ myturn = [i \in Programs |-> [parent |-> 0, child |-> 0]]
  /\ sigint = [i \in Programs |-> FALSE]
  /\ client = [i \in Programs |-> PartnerOf[i]]
  /\ queue = [i \in Programs |-> << >>]
  /\ air = EmptyBag /\ dups = 0 /\ clean = TRUE
  /\ eof = [i \in Programs |-> FALSE]
  /\ lines = [i \in Programs |-> 0]
  /\ prompt = [i \in Programs |-> FALSE]
  /\ joined = [i \in Programs |-> {}]
  /\ stray = [i \in Programs |-> FALSE]
  /\ shots = [h \in {HostOf[i] : i \in Programs} |-> 0]
  /\ got = [i \in Programs |-> 0]

Go(i, from, to) == pc[i] = from /\ pc' = [pc EXCEPT ![i] = to]

\* sendto(): a datagram the network has no room for is lost.
SendTo(i, host, t) ==
  LET d == [to |-> host, from |-> i, text |-> t] IN
  /\ UNCHANGED <<queue, dups>>
  /\ IF BagCardinality(air) < MaxAir
       THEN air' = BagAdd(air, d) /\ UNCHANGED clean
       ELSE clean' = FALSE /\ UNCHANGED air

-----------------------------------------------------------------------------
\* The parent.

\* What was not received is gone when the last process closes the socket.
Closes(i, last) == queue' = IF last THEN [queue EXCEPT ![i] = << >>] ELSE queue

\* socket() and bind(): the port must be free on this host.
Bind(i) ==
  /\ Bound(HostOf[i]) = {}
  /\ Go(i, "start", "bound")
  /\ UNCHANGED <<snd, eof, lines, prompt, shots, child, network, log>>

BindFails(i) ==
  /\ Bound(HostOf[i]) # {}
  /\ Go(i, "start", "failed")
  /\ UNCHANGED <<snd, eof, lines, prompt, shots, child, network, log>>

Hello(i) ==
  /\ Go(i, "bound", "hello")
  /\ snd' = [snd EXCEPT ![i] = "START"]
  /\ SendTo(i, PartnerOf[i], "START")
  /\ UNCHANGED <<eof, lines, prompt, shots, child, log>>

\* To the top of the loop and on to fgets().  Only the game makes the prompt
\* depend on myturn: it is the copy of the parent.
NextRound(i, from) ==
  /\ Go(i, from, "ready")
  /\ prompt' = [prompt EXCEPT ![i] = ~Plays \/ myturn[i].parent > 0]

Fork(i) ==
  /\ NextRound(i, "hello")
  /\ kid' = [kid EXCEPT ![i] = "recv"]
  /\ UNCHANGED <<snd, eof, lines, shots, myturn, sigint, client, network, log>>

\* fork() < 0 is not tested (180, 258): the parent goes on to send, and nobody
\* receives.  Its kill(-1, SIGINT) at the end, to every process of the user, is
\* Interrupt of the others on the host.
ForkFails(i) ==
  /\ i \in MayFail
  /\ NextRound(i, "hello")
  /\ UNCHANGED <<snd, eof, lines, shots, child, network, log>>

ReadLine(i, t) ==
  /\ ~eof[i] /\ lines[i] < MaxLines
  /\ Go(i, "ready", "typed")
  /\ snd' = [snd EXCEPT ![i] = t]
  /\ lines' = [lines EXCEPT ![i] = @ + 1]
  /\ UNCHANGED <<eof, prompt, shots, child, network, log>>

\* The line end is cut off without a look at whether there is one.
Chop(t) ==
  CASE t = "shot+" -> {"shot"}
    [] t = "plain" -> {"plain", ""}
    [] t = "" -> {""}
    [] OTHER -> {"plain"}

\* fgets() at the end of the input: a last line without a line end, or NULL,
\* which leaves the text of the round before.
ReadEof(i) ==
  /\ i \in MayEof
  /\ Go(i, "ready", "typed")
  /\ eof' = [eof EXCEPT ![i] = TRUE]
  /\ \E t \in {snd[i]} \cup (IF eof[i] THEN {} ELSE Lines) :
       \E c \in Chop(t) : snd' = [snd EXCEPT ![i] = c]
  /\ UNCHANGED <<lines, prompt, shots, child, network, log>>

\* The game sends <koniec> a second time (276).
AfterLast == IF Plays THEN "again" ELSE "leave"

SendLine(i) ==
  /\ SendTo(i, PartnerOf[i], snd[i])
  /\ IF snd[i] = "<koniec>"
       THEN Go(i, "typed", AfterLast) /\ UNCHANGED prompt
       ELSE NextRound(i, "typed")
  /\ shots' = [shots EXCEPT ![HostOf[i]] = IF IsShot(snd[i]) THEN @ + 1 ELSE @]
  /\ UNCHANGED <<snd, eof, lines, child, log>>

SendAgain(i) ==
  /\ Go(i, "again", "leave")
  /\ SendTo(i, PartnerOf[i], snd[i])
  /\ UNCHANGED <<snd, eof, lines, prompt, shots, child, log>>

\* A variant with a bug: return without kill().
LeaveKeepsKid(i) ==
  /\ Go(i, "leave", "done")
  /\ Closes(i, ~KidAlive(i))
  /\ UNCHANGED <<snd, eof, lines, prompt, shots, child, air, dups, clean, log>>

\* kill(CPID, SIGINT), close() and return.
Leave(i) ==
  /\ Go(i, "leave", "done")
  /\ sigint' = [sigint EXCEPT ![i] = TRUE]
  /\ Closes(i, ~KidAlive(i))
  /\ UNCHANGED <<snd, eof, lines, prompt, shots, kid, myturn, client, air, dups, clean, log>>

\* sendto() < 0 in the parent: komunikatobslugabledow() is exit(1).
SendFails(i) ==
  /\ i \in MayFail /\ pc[i] \in {"bound", "typed", "again"}
  /\ pc' = [pc EXCEPT ![i] = "failed"]
  /\ Closes(i, ~KidAlive(i))
  /\ UNCHANGED <<snd, eof, lines, prompt, shots, child, air, dups, clean, log>>

\* Ctrl-C goes to both processes.
Interrupt(i) ==
  /\ i \in MayInterrupt /\ ParentHolds(i)
  /\ pc' = [pc EXCEPT ![i] = "done"]
  /\ sigint' = [sigint EXCEPT ![i] = KidAlive(i)]
  /\ Closes(i, ~KidAlive(i))
  /\ UNCHANGED <<snd, eof, lines, prompt, shots, kid, myturn, client, air, dups, clean, log>>

-----------------------------------------------------------------------------
\* The child.

\* Bound: the history got stops where AnswersAccounted is violated.
MaxGot(i) ==
  MaxLines * Cardinality({j \in Programs : HostOf[j] = HostOf[i]}) + MaxDup + 1

KidEnds(i) ==
  /\ kid' = [kid EXCEPT ![i] = "ended"]
  /\ Closes(i, ~ParentHolds(i))
  /\ UNCHANGED <<parent, myturn, sigint, client, air, dups, clean, log>>

KidDies(i) ==
  /\ sigint[i] /\ KidAlive(i) /\ KidEnds(i)

\* recvfrom() < 0 or sendto() < 0: exit(1); the parent does not notice.
KidFails(i) ==
  /\ i \in MayFail /\ KidAlive(i) /\ KidEnds(i)

\* What the receiving loops report as a shot: all that is no control word.
ReportsShot(t) == Plays /\ t \notin {"START", "<koniec>", "<KILL1>", "<wypisz>"}

\* A variant with a bug: the coordinates are not tested (223).
AnsweredAll(t) == ReportsShot(t)

Answered(t) == ReportsShot(t) /\ IsShot(t)
TakesTurn(t) == Plays /\ (t = "START" \/ (ReportsShot(t) /\ ~Answered(t)))

Receive(i) ==
  /\ kid[i] = "recv" /\ queue[i] # << >>
  /\ LET d == Head(queue[i]) IN
     /\ queue' = [queue EXCEPT ![i] = Tail(@)]
     /\ client' = [client EXCEPT ![i] = HostOf[d.from]]
     /\ joined' = [joined EXCEPT ![i] = IF d.text = "START" THEN @ \cup {d.from} ELSE @]
     /\ stray' = [stray EXCEPT ![i] = @ \/ (ReportsShot(d.text) /\ ~IsShot(d.text))]
     /\ got' = [got EXCEPT ![i] = IF d.text = "<LOSE>" /\ @ < MaxGot(i) THEN @ + 1 ELSE @]
     /\ kid' = [kid EXCEPT ![i] = IF Answered(d.text) THEN "answer" ELSE @]
     /\ myturn' = [myturn EXCEPT ![i].child = IF TakesTurn(d.text) THEN 1 ELSE @]
  /\ UNCHANGED <<parent, sigint, air, dups, clean>>

\* A variant with a bug: the answer goes to the host that was named at the
\* start, as the lines of the parent do.
ReplyToPartner(i) ==
  /\ kid[i] = "answer"
  /\ SendTo(i, PartnerOf[i], "<LOSE>")
  /\ kid' = [kid EXCEPT ![i] = "recv"]
  /\ myturn' = [myturn EXCEPT ![i].child = 1]
  /\ UNCHANGED <<parent, sigint, client, log>>

\* The answer goes to the sender of the shot.
Reply(i) ==
  /\ kid[i] = "answer"
  /\ SendTo(i, client[i], "<LOSE>")
  /\ kid' = [kid EXCEPT ![i] = "recv"]
  /\ myturn' = [myturn EXCEPT ![i].child = 1]
  /\ UNCHANGED <<parent, sigint, client, log>>

-----------------------------------------------------------------------------
\* The network: datagrams arrive in any order, where there is a socket.

Arrive(d) ==
  /\ BagIn(d, air)
  /\ air' = BagRemove(air, d)
  /\ \/ /\ Bound(d.to) = {}
        /\ UNCHANGED <<queue, clean>>
     \/ \E i \in Bound(d.to) :
          \/ /\ Len(queue[i]) < RcvBuf
             /\ queue' = [queue EXCEPT ![i] = Append(@, d)]
             /\ UNCHANGED clean
          \/ /\ Len(queue[i]) >= RcvBuf
             /\ clean' = FALSE /\ UNCHANGED queue
  /\ UNCHANGED <<parent, child, dups, log>>

Lose(d) ==
  /\ MayLose /\ BagIn(d, air)
  /\ air' = BagRemove(air, d) /\ clean' = FALSE
  /\ UNCHANGED <<parent, child, queue, dups, log>>

Duplicate(d) ==
  /\ dups < MaxDup /\ BagCardinality(air) < MaxAir /\ BagIn(d, air)
  /\ air' = BagAdd(air, d) /\ dups' = dups + 1 /\ clean' = FALSE
  /\ UNCHANGED <<parent, child, queue, log>>

Parent(i) ==
  \/ Bind(i) \/ BindFails(i) \/ Hello(i) \/ Fork(i)
  \/ ReadEof(i) \/ SendLine(i) \/ SendAgain(i) \/ Leave(i)
Child(i) == KidDies(i) \/ Receive(i) \/ Reply(i)
User(i) == Interrupt(i) \/ \E t \in Lines : ReadLine(i, t)
Faults(i) == ForkFails(i) \/ SendFails(i) \/ KidFails(i)
Net == \E d \in BagToSet(air) : Arrive(d) \/ Lose(d) \/ Duplicate(d)

Next == Net \/ \E i \in Programs : Parent(i) \/ Child(i) \/ User(i) \/ Faults(i)

Spec == Init /\ [][Next]_vars

\* Processes that can run do, a pending signal is delivered and every datagram
\* arrives or is lost.  Users need not type, and starting a program is theirs.
FairSpec ==
  /\ Spec
  /\ \A i \in Programs :
       /\ WF_vars(Hello(i) \/ Fork(i) \/ ReadEof(i) \/ SendLine(i) \/ SendAgain(i) \/ Leave(i))
       /\ WF_vars(Child(i))
  /\ WF_vars(\E d \in BagToSet(air) : Arrive(d))

-----------------------------------------------------------------------------
\* Properties.

Datagrams == [to : {HostOf[i] : i \in Programs} \cup {PartnerOf[i] : i \in Programs},
              from : Programs, text : Text]

\* The states of the two processes, of the socket and of the network; in
\* particular myturn stays a flag and the receive buffer keeps to its size.
TypeOK ==
  /\ pc \in [Programs -> {"start", "bound", "hello", "ready", "typed", "again",
                          "leave", "done", "failed"}]
  /\ kid \in [Programs -> {"none", "recv", "answer", "ended"}]
  /\ snd \in [Programs -> Text]
  /\ myturn \in [Programs -> [parent : {0, 1}, child : {0, 1}]]
  /\ \A i \in Programs : Len(queue[i]) <= RcvBuf /\ queue[i] \in Seq(Datagrams)
  /\ IsABag(air) /\ BagToSet(air) \subseteq Datagrams
  /\ dups \in 0 .. MaxDup
  /\ joined \in [Programs -> SUBSET Programs]
  /\ client \in [Programs -> {HostOf[i] : i \in Programs} \cup {PartnerOf[i] : i \in Programs}]

Quiet ==
  /\ air = EmptyBag
  /\ \A i \in Programs : queue[i] = << >> /\ kid[i] # "answer"

\* i and j run, both children receive, and each talks to the other's host.
Facing(i, j) ==
  /\ KidAlive(i) /\ KidAlive(j)
  /\ HostOf[i] = PartnerOf[j] /\ HostOf[j] = PartnerOf[i]

\* When two programs face each other and nothing was lost, at least one of
\* them has reported the other as joined: START is sent after bind(), so that
\* the START of the later one finds the socket of the earlier one.
SomeoneLearns ==
  clean /\ Quiet =>
    \A i, j \in Programs : Facing(i, j) => j \in joined[i] \/ i \in joined[j]

\* Each child that faces another reports it as joined (Czat.c:80 says that the
\* control message makes the program recognise that a user joined).
JoinRecognised ==
  clean /\ Quiet => \A i, j \in Programs : Facing(i, j) => j \in joined[i]

\* Nobody reads more answers than shots were sent from his host, counting the
\* copies the network made: an answer is never answered, and shots are
\* answered once (223-244 of the game), in any order and over losses.
AnswersAccounted == \A i \in Programs : got[i] <= dups + shots[HostOf[i]]

\* When the users stop typing the network comes to rest: two children never
\* keep answering each other (the answer <LOSE> is no pair of coordinates).
Quiesces == <>[](air = EmptyBag)

\* A program that left, by <koniec> or Ctrl-C, gives its port back: the child
\* that shares the socket is gone in the end.
PortReleased == \A i \in Programs : pc[i] = "done" ~> ~Holds(i)

\* A program that stops with an error stops with both of its processes
\* (UDP.c:102 announces "Przerywam dzialanie").
StopsOnError == \A i \in Programs : pc[i] = "failed" ~> ~Holds(i)

\* Who comes back to fgets() when it is his turn is asked for a shot (UDP
\* copy.c:262-265).
TurnPrompted ==
  [][\A i \in Programs :
       pc[i] # "ready" /\ pc'[i] = "ready" /\ myturn[i].child = 1 => prompt'[i]]_vars

\* What the game reports and handles as a shot (UDP copy.c:216) is a shot.
OnlyShots == \A i \in Programs : ~stray[i]
=============================================================================
