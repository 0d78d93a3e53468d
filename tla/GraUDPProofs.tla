---------------------------- MODULE GraUDPProofs ----------------------------
(***************************************************************************)
(* Proofs about GraUDP, for any number of programs on any hosts: types, one *)
(* holder of the port of a host, and that of two programs that face each    *)
(* other one learns of the other.  The inductive fact is Said: the START of *)
(* one of the two is on its way to the other, or was reported there.  Then  *)
(* the answers: what is on the way and what was read is no more than what   *)
(* was shot, Tallied.                                                       *)
(***************************************************************************)
EXTENDS GraUDP, FiniteSetTheorems, TLAPS
LOCAL INSTANCE BagsExt

Hosts == {HostOf[i] : i \in Programs} \cup {PartnerOf[i] : i \in Programs}
Hail(i) == [to |-> PartnerOf[i], from |-> i, text |-> "START"]

\* The program sent its START and still has its socket.
Greeted(i) == Holds(i) /\ pc[i] \notin {"start", "bound"}

Among(d, q) == \E n \in 1 .. Len(q) : q[n] = d

\* The START of i is on its way to j, or was reported there.
OnWay(i, j) == Hail(i) \in DOMAIN air \/ Among(Hail(i), queue[j]) \/ i \in joined[j]

Queues == queue \in [Programs -> Seq(Datagrams)]

\* A host has one socket at the port.
OneHolder ==
  \A i, j \in Programs : HostOf[i] = HostOf[j] /\ Holds(i) /\ Holds(j) => i = j

\* The child is forked after START was sent.
Forked ==
  \A i \in Programs : pc[i] \in {"start", "bound", "hello"} => kid[i] = "none"

Across(i, j) == HostOf[i] = PartnerOf[j] /\ HostOf[j] = PartnerOf[i]

Said ==
  clean => \A i, j \in Programs :
    Across(i, j) /\ Greeted(i) /\ Greeted(j) => OnWay(i, j) \/ OnWay(j, i)

Inv == TypeOK /\ Queues /\ OneHolder /\ Forked /\ Said

-----------------------------------------------------------------------------
\* Bags, as far as their elements go.
LEMMA BagAddElements ==
  ASSUME NEW B, NEW x
  PROVE  DOMAIN BagAdd(B, x) = DOMAIN B \cup {x}
BY DEF BagAdd

LEMMA BagRemoveElements ==
  ASSUME NEW B, NEW x
  PROVE  DOMAIN B \ {x} \subseteq DOMAIN BagRemove(B, x) /\ DOMAIN BagRemove(B, x) \subseteq DOMAIN B
BY DEF BagRemove

LEMMA BagsStayBags ==
  ASSUME NEW B, IsABag(B), NEW x
  PROVE  IsABag(BagAdd(B, x)) /\ IsABag(BagRemove(B, x))
<1>1. B \in [DOMAIN B -> {n \in Nat : n > 0}]
  BY DEF IsABag
<1>2. BagAdd(B, x) \in [DOMAIN B \cup {x} -> {n \in Nat : n > 0}]
  <2>1. CASE x \in DOMAIN B
    <3>1. BagAdd(B, x) = [e \in DOMAIN B |-> IF e = x THEN B[e] + 1 ELSE B[e]]
      BY <2>1 DEF BagAdd
    <3>2. DOMAIN B \cup {x} = DOMAIN B
      BY <2>1
    <3> QED BY <1>1, <3>1, <3>2
  <2>2. CASE x \notin DOMAIN B
    <3>1. BagAdd(B, x) = [e \in DOMAIN B \cup {x} |-> IF e = x THEN 1 ELSE B[e]]
      BY <2>2 DEF BagAdd
    <3> QED BY <1>1, <3>1
  <2> QED BY <2>1, <2>2
<1>3. BagRemove(B, x) \in [DOMAIN B -> {n \in Nat : n > 0}]
      \/ BagRemove(B, x) \in [DOMAIN B \ {x} -> {n \in Nat : n > 0}]
  BY <1>1 DEF BagRemove
<1> QED BY <1>2, <1>3 DEF IsABag

LEMMA NoElements == DOMAIN EmptyBag = {} /\ IsABag(EmptyBag)
BY DEF EmptyBag, SetToBag, IsABag

\* What was among a sequence and is not its head is among its tail.
LEMMA TailKeeps ==
  ASSUME NEW S, NEW q \in Seq(S), q # << >>, NEW d, Among(d, q), d # Head(q)
  PROVE  Among(d, Tail(q))
<1>1. PICK n \in 1 .. Len(q) : q[n] = d
  BY DEF Among
<1>2. n # 1 /\ n - 1 \in 1 .. Len(Tail(q)) /\ Tail(q)[n - 1] = d
  BY <1>1
<1> QED BY <1>2 DEF Among

LEMMA AppendKeeps ==
  ASSUME NEW S, NEW q \in Seq(S), NEW e \in S, NEW d, Among(d, q) \/ d = e
  PROVE  Among(d, Append(q, e))
<1>1. CASE d = e
  <2>1. Len(q) + 1 \in 1 .. Len(Append(q, e)) /\ Append(q, e)[Len(q) + 1] = d
    BY <1>1
  <2> QED BY <2>1 DEF Among
<1>2. CASE Among(d, q)
  <2>1. PICK n \in 1 .. Len(q) : q[n] = d
    BY <1>2 DEF Among
  <2>2. n \in 1 .. Len(Append(q, e)) /\ Append(q, e)[n] = d
    BY <2>1
  <2> QED BY <2>2 DEF Among
<1> QED BY <1>1, <1>2

-----------------------------------------------------------------------------
\* The steps of a program.
Steps(i) ==
  \/ Bind(i) \/ BindFails(i) \/ Hello(i) \/ Fork(i) \/ ReadEof(i) \/ SendLine(i)
  \/ SendAgain(i) \/ Leave(i) \/ KidDies(i) \/ Receive(i) \/ Reply(i)
  \/ Interrupt(i) \/ (\E t \in Lines : ReadLine(i, t)) \/ SendFails(i) \/ KidFails(i)
  \/ ForkFails(i)

\* The types of the variables of programs, and of those of sockets and network.
PTypes ==
  /\ pc \in [Programs -> {"start", "bound", "hello", "ready", "typed", "again",
                          "leave", "done", "failed"}]
  /\ kid \in [Programs -> {"none", "recv", "answer", "ended"}]
  /\ snd \in [Programs -> Text]
  /\ myturn \in [Programs -> [parent : {0, 1}, child : {0, 1}]]
  /\ joined \in [Programs -> SUBSET Programs]
  /\ client \in [Programs -> Hosts]
NTypes ==
  /\ queue \in [Programs -> Seq(Datagrams)]
  /\ \A i \in Programs : Len(queue[i]) <= RcvBuf
  /\ IsABag(air) /\ DOMAIN air \subseteq Datagrams
  /\ dups \in 0 .. MaxDup

LEMMA TypeParts == TypeOK /\ Queues <=> PTypes /\ NTypes
BY DEF TypeOK, Queues, PTypes, NTypes, Hosts, BagToSet

LEMMA TypePartsNext == TypeOK' /\ Queues' <=> PTypes' /\ NTypes'
BY DEF TypeOK, Queues, PTypes, NTypes, Hosts, BagToSet

LEMMA Sizes == RcvBuf \in Nat /\ MaxDup \in Nat
BY GameAssumption

LEMMA SendTyped ==
  ASSUME NTypes, NEW i \in Programs, NEW h \in Hosts, NEW t \in Text, SendTo(i, h, t)
  PROVE  NTypes'
<1> DEFINE d == [to |-> h, from |-> i, text |-> t]
<1>1. d \in Datagrams
  BY DEF Datagrams, Hosts
<1>2. air' = air \/ air' = BagAdd(air, d)
  BY DEF SendTo
<1>3. DOMAIN air' \subseteq Datagrams /\ IsABag(air')
  <2>1. DOMAIN BagAdd(air, d) = DOMAIN air \cup {d}
    BY BagAddElements
  <2>2. IsABag(BagAdd(air, d))
    BY BagsStayBags DEF NTypes
  <2> HIDE DEF d
  <2>3. CASE air' = air
    BY <2>3 DEF NTypes
  <2>4. CASE air' = BagAdd(air, d)
    BY <1>1, <2>1, <2>2, <2>4 DEF NTypes
  <2> QED BY <1>2, <2>3, <2>4
<1> QED BY <1>3 DEF NTypes, SendTo

LEMMA ClosesTyped ==
  ASSUME NTypes, NEW i \in Programs, NEW last, Closes(i, last), UNCHANGED <<air, dups>>
  PROVE  NTypes'
<1>1. queue' = queue \/ queue' = [queue EXCEPT ![i] = << >>]
  BY DEF Closes
<1>2. Len(<< >>) <= RcvBuf /\ << >> \in Seq(Datagrams)
  BY Sizes
<1>3. queue' \in [Programs -> Seq(Datagrams)]
  BY <1>1, <1>2 DEF NTypes
<1>4. \A j \in Programs : Len(queue'[j]) <= RcvBuf
  BY <1>1, <1>2 DEF NTypes
<1> QED BY <1>3, <1>4 DEF NTypes

LEMMA ReceiveTyped ==
  ASSUME NTypes, NEW i \in Programs, Receive(i)
  PROVE  NTypes' /\ Head(queue[i]) \in Datagrams
<1>1. queue[i] \in Seq(Datagrams) /\ queue[i] # << >>
  BY DEF NTypes, Receive
<1>2. Head(queue[i]) \in Datagrams /\ Tail(queue[i]) \in Seq(Datagrams)
      /\ Len(Tail(queue[i])) <= Len(queue[i])
  BY <1>1
<1>3. queue' = [queue EXCEPT ![i] = Tail(@)] /\ UNCHANGED <<air, dups>>
  BY DEF Receive
<1>4. Len(Tail(queue[i])) <= RcvBuf
  BY <1>1, <1>2, Sizes DEF NTypes
<1>5. queue' \in [Programs -> Seq(Datagrams)]
  BY <1>2, <1>3 DEF NTypes
<1>6. \A j \in Programs : Len(queue'[j]) <= RcvBuf
  BY <1>3, <1>4 DEF NTypes
<1> QED BY <1>2, <1>3, <1>5, <1>6 DEF NTypes

LEMMA ProgramTypes ==
  ASSUME PTypes, NTypes, NEW i \in Programs, Steps(i)
  PROVE  PTypes'
<1> USE DEF PTypes, Go, parent, child, network, log
<1>1. CASE Bind(i)
  BY <1>1 DEF Bind
<1>2. CASE BindFails(i)
  BY <1>2 DEF BindFails
<1>3. CASE Hello(i)
  <2>1. "START" \in Text
    BY DEF Text
  <2> QED BY <1>3, <2>1 DEF Hello, SendTo
<1>4. CASE Fork(i)
  BY <1>4 DEF Fork, NextRound
<1>5. CASE ReadEof(i)
  <2>1. PICK t \in {snd[i]} \cup Lines : \E e \in Chop(t) : snd' = [snd EXCEPT ![i] = e]
    BY <1>5 DEF ReadEof
  <2>2. t \in Text
    BY GameAssumption
  <2>3. Chop(t) \subseteq Text
    BY <2>2 DEF Chop, Text
  <2>4. snd' \in [Programs -> Text]
    BY <2>1, <2>3
  <2> QED BY <1>5, <2>4 DEF ReadEof
<1>6. CASE SendLine(i)
  BY <1>6 DEF SendLine, SendTo, NextRound, AfterLast
<1>7. CASE SendAgain(i)
  BY <1>7 DEF SendAgain, SendTo
<1>8. CASE Leave(i)
  BY <1>8 DEF Leave, Closes
<1>9. CASE KidDies(i)
  BY <1>9 DEF KidDies, KidEnds, Closes
<1>10. CASE Receive(i)
  <2>1. Head(queue[i]) \in Datagrams
    BY <1>10, ReceiveTyped
  <2>2. Head(queue[i]).from \in Programs /\ HostOf[Head(queue[i]).from] \in Hosts
    BY <2>1 DEF Datagrams, Hosts
  <2>3. client' \in [Programs -> Hosts]
    BY <1>10, <2>2 DEF Receive
  <2>4. joined' \in [Programs -> SUBSET Programs]
    BY <1>10, <2>2 DEF Receive
  <2>5. kid' \in [Programs -> {"none", "recv", "answer", "ended"}]
    BY <1>10 DEF Receive
  <2>6. myturn' \in [Programs -> [parent : {0, 1}, child : {0, 1}]]
    <3>1. \/ myturn' = [myturn EXCEPT ![i].child = 1]
          \/ myturn' = [myturn EXCEPT ![i].child = @]
      BY <1>10 DEF Receive
    <3> QED BY <3>1 DEF PTypes
  <2>7. UNCHANGED <<pc, snd>>
    BY <1>10 DEF Receive
  <2> QED BY <2>3, <2>4, <2>5, <2>6, <2>7
<1>11. CASE Reply(i)
  BY <1>11 DEF Reply, SendTo
<1>12. CASE Interrupt(i)
  BY <1>12 DEF Interrupt, Closes
<1>13. CASE SendFails(i)
  BY <1>13 DEF SendFails, Closes
<1>14. CASE KidFails(i)
  BY <1>14 DEF KidFails, KidEnds, Closes
<1>15. CASE \E t \in Lines : ReadLine(i, t)
  <2>1. PICK t \in Lines : ReadLine(i, t)
    BY <1>15
  <2>2. t \in Text
    BY GameAssumption
  <2> QED BY <2>1, <2>2 DEF ReadLine
<1>16. CASE ForkFails(i)
  BY <1>16 DEF ForkFails, NextRound
<1> QED BY <1>1, <1>2, <1>3, <1>4, <1>5, <1>6, <1>7, <1>8, <1>9, <1>10, <1>11, <1>12,
    <1>13, <1>14, <1>15, <1>16 DEF Steps

LEMMA NetworkTypes ==
  ASSUME PTypes, NTypes, NEW i \in Programs, Steps(i)
  PROVE  NTypes'
<1> USE DEF parent, child, network, log
<1>1. CASE Bind(i)
  BY <1>1 DEF Bind, NTypes
<1>2. CASE BindFails(i)
  BY <1>2 DEF BindFails, NTypes
<1>3. CASE Hello(i)
  <2>1. PartnerOf[i] \in Hosts /\ "START" \in Text
    BY <1>3 DEF Hello, Hosts, Text, PTypes
  <2>2. SendTo(i, PartnerOf[i], "START")
    BY <1>3 DEF Hello
  <2> QED BY <2>1, <2>2, SendTyped
<1>4. CASE Fork(i)
  BY <1>4 DEF Fork, NextRound, NTypes
<1>5. CASE ReadEof(i)
  BY <1>5, GameAssumption DEF ReadEof, Chop, NTypes
<1>6. CASE SendLine(i)
  <2>1. PartnerOf[i] \in Hosts /\ snd[i] \in Text
    BY <1>6 DEF SendLine, Hosts, Text, PTypes
  <2>2. SendTo(i, PartnerOf[i], snd[i])
    BY <1>6 DEF SendLine
  <2> QED BY <2>1, <2>2, SendTyped
<1>7. CASE SendAgain(i)
  <2>1. PartnerOf[i] \in Hosts /\ snd[i] \in Text
    BY <1>7 DEF SendAgain, Hosts, Text, PTypes
  <2>2. SendTo(i, PartnerOf[i], snd[i])
    BY <1>7 DEF SendAgain
  <2> QED BY <2>1, <2>2, SendTyped
<1>8. CASE Leave(i)
  <2>1. Closes(i, ~KidAlive(i)) /\ UNCHANGED <<air, dups>>
    BY <1>8 DEF Leave
  <2> QED BY <2>1, ClosesTyped
<1>9. CASE KidDies(i)
  <2>1. Closes(i, ~ParentHolds(i)) /\ UNCHANGED <<air, dups>>
    BY <1>9 DEF KidDies, KidEnds
  <2> QED BY <2>1, ClosesTyped
<1>10. CASE Receive(i)
  BY <1>10, ReceiveTyped
<1>11. CASE Reply(i)
  <2>1. client[i] \in Hosts /\ "<LOSE>" \in Text
    BY <1>11 DEF Reply, Hosts, Text, PTypes
  <2>2. SendTo(i, client[i], "<LOSE>")
    BY <1>11 DEF Reply
  <2> QED BY <2>1, <2>2, SendTyped
<1>12. CASE Interrupt(i)
  <2>1. Closes(i, ~KidAlive(i)) /\ UNCHANGED <<air, dups>>
    BY <1>12 DEF Interrupt
  <2> QED BY <2>1, ClosesTyped
<1>13. CASE SendFails(i)
  <2>1. Closes(i, ~KidAlive(i)) /\ UNCHANGED <<air, dups>>
    BY <1>13 DEF SendFails
  <2> QED BY <2>1, ClosesTyped
<1>14. CASE KidFails(i)
  <2>1. Closes(i, ~ParentHolds(i)) /\ UNCHANGED <<air, dups>>
    BY <1>14 DEF KidFails, KidEnds
  <2> QED BY <2>1, ClosesTyped
<1>15. CASE \E t \in Lines : ReadLine(i, t)
  BY <1>15, GameAssumption DEF ReadLine, NTypes
<1>16. CASE ForkFails(i)
  BY <1>16 DEF ForkFails, NextRound, NTypes
<1> QED BY <1>1, <1>2, <1>3, <1>4, <1>5, <1>6, <1>7, <1>8, <1>9, <1>10, <1>11, <1>12,
    <1>13, <1>14, <1>15, <1>16 DEF Steps

LEMMA HoldersStep ==
  ASSUME PTypes, OneHolder, Forked, NEW i \in Programs, Steps(i)
  PROVE  OneHolder' /\ Forked'
<1> USE DEF PTypes, OneHolder, Forked, Go, Holds, ParentHolds, KidAlive, parent, child,
    network, log
<1>1. CASE Bind(i)
  <2>1. pc' = [pc EXCEPT ![i] = "bound"] /\ kid' = kid /\ pc[i] = "start" /\ kid[i] = "none"
    BY <1>1 DEF Bind
  <2>2. \A j \in Programs : HostOf[j] = HostOf[i] => ~Holds(j)
    BY <1>1 DEF Bind, Bound
  <2>3. \A j \in Programs \ {i} : Holds(j)' <=> Holds(j)
    BY <2>1
  <2>4. OneHolder'
    BY <2>2, <2>3
  <2> QED BY <2>1, <2>4
<1>2. CASE BindFails(i)
  BY <1>2 DEF BindFails
<1>3. CASE Hello(i)
  BY <1>3 DEF Hello, SendTo
<1>4. CASE Fork(i)
  BY <1>4 DEF Fork, NextRound
<1>5. CASE ReadEof(i)
  BY <1>5 DEF ReadEof
<1>6. CASE SendLine(i)
  BY <1>6 DEF SendLine, SendTo, NextRound, AfterLast
<1>7. CASE SendAgain(i)
  BY <1>7 DEF SendAgain, SendTo
<1>8. CASE Leave(i)
  BY <1>8 DEF Leave, Closes
<1>9. CASE KidDies(i)
  BY <1>9 DEF KidDies, KidEnds, Closes
<1>10. CASE Receive(i)
  <2>1. pc' = pc /\ (kid' = kid \/ kid' = [kid EXCEPT ![i] = "answer"]) /\ kid[i] = "recv"
    BY <1>10 DEF Receive
  <2>2. \A j \in Programs : (Holds(j)' <=> Holds(j)) /\ (kid'[j] = "none" <=> kid[j] = "none")
    BY <2>1
  <2> QED BY <2>1, <2>2
<1>11. CASE Reply(i)
  BY <1>11 DEF Reply, SendTo
<1>12. CASE Interrupt(i)
  BY <1>12 DEF Interrupt, Closes
<1>13. CASE SendFails(i)
  BY <1>13 DEF SendFails, Closes
<1>14. CASE KidFails(i)
  BY <1>14 DEF KidFails, KidEnds, Closes
<1>15. CASE \E t \in Lines : ReadLine(i, t)
  <2>1. PICK t \in Lines : ReadLine(i, t)
    BY <1>15
  <2> QED BY <2>1 DEF ReadLine
<1>16. CASE ForkFails(i)
  BY <1>16 DEF ForkFails, NextRound
<1> QED BY <1>1, <1>2, <1>3, <1>4, <1>5, <1>6, <1>7, <1>8, <1>9, <1>10, <1>11, <1>12,
    <1>13, <1>14, <1>15, <1>16 DEF Steps

-----------------------------------------------------------------------------
LEMMA SentStays ==
  ASSUME NEW i \in Programs, NEW h, NEW t, SendTo(i, h, t)
  PROVE  /\ queue' = queue /\ (clean' => clean)
         /\ clean' => DOMAIN air' = DOMAIN air \cup {[to |-> h, from |-> i, text |-> t]}
BY BagAddElements DEF SendTo

LEMMA SentGrows ==
  ASSUME NEW i \in Programs, NEW h, NEW t, SendTo(i, h, t)
  PROVE  clean' => clean /\ DOMAIN air \subseteq DOMAIN air'
BY SentStays

Quietly ==
  /\ joined' = joined /\ (clean' => clean /\ DOMAIN air \subseteq DOMAIN air')
  /\ \A j \in Programs : Greeted(j)' => Greeted(j) /\ queue'[j] = queue[j]

LEMMA OthersQuiet ==
  ASSUME Inv, NEW i \in Programs, Steps(i), ~Hello(i), ~Receive(i)
  PROVE  Quietly
<1> USE DEF Inv, TypeOK, Queues, Forked, Quietly, Go, Greeted, Holds, ParentHolds,
    KidAlive, parent, child, network, log
<1>1. CASE Bind(i)
  BY <1>1 DEF Bind
<1>2. CASE BindFails(i)
  BY <1>2 DEF BindFails
<1>3. CASE Fork(i)
  BY <1>3 DEF Fork, NextRound
<1>4. CASE ReadEof(i)
  BY <1>4, GameAssumption DEF ReadEof, Chop
<1>5. CASE SendLine(i)
  <2>1. SendTo(i, PartnerOf[i], snd[i])
    BY <1>5 DEF SendLine
  <2>2. clean' => clean /\ DOMAIN air \subseteq DOMAIN air'
    BY <2>1, SentGrows
  <2>3. queue' = queue
    BY <2>1 DEF SendTo
  <2>4. joined' = joined /\ \A j \in Programs : Greeted(j)' => Greeted(j)
    BY <1>5 DEF SendLine, NextRound, AfterLast
  <2> QED BY <2>2, <2>3, <2>4
<1>6. CASE SendAgain(i)
  <2>1. SendTo(i, PartnerOf[i], snd[i])
    BY <1>6 DEF SendAgain
  <2>2. clean' => clean /\ DOMAIN air \subseteq DOMAIN air'
    BY <2>1, SentGrows
  <2>3. queue' = queue
    BY <2>1 DEF SendTo
  <2>4. joined' = joined /\ \A j \in Programs : Greeted(j)' => Greeted(j)
    BY <1>6 DEF SendAgain
  <2> QED BY <2>2, <2>3, <2>4
<1>7. CASE Leave(i)
  BY <1>7 DEF Leave, Closes
<1>8. CASE KidDies(i)
  BY <1>8 DEF KidDies, KidEnds, Closes
<1>9. CASE Reply(i)
  <2>1. SendTo(i, client[i], "<LOSE>")
    BY <1>9 DEF Reply
  <2>2. clean' => clean /\ DOMAIN air \subseteq DOMAIN air'
    BY <2>1, SentGrows
  <2>3. queue' = queue
    BY <2>1 DEF SendTo
  <2>4. joined' = joined /\ \A j \in Programs : Greeted(j)' => Greeted(j)
    BY <1>9 DEF Reply
  <2> QED BY <2>2, <2>3, <2>4
<1>10. CASE Interrupt(i)
  BY <1>10 DEF Interrupt, Closes
<1>11. CASE SendFails(i)
  BY <1>11 DEF SendFails, Closes
<1>12. CASE KidFails(i)
  BY <1>12 DEF KidFails, KidEnds, Closes
<1>13. CASE \E t \in Lines : ReadLine(i, t)
  <2>1. PICK t \in Lines : ReadLine(i, t)
    BY <1>13
  <2> QED BY <2>1 DEF ReadLine
<1>14. CASE ForkFails(i)
  BY <1>14 DEF ForkFails, NextRound
<1> QED BY <1>1, <1>2, <1>3, <1>4, <1>5, <1>6, <1>7, <1>8, <1>9, <1>10, <1>11, <1>12,
    <1>13, <1>14 DEF Steps

LEMMA HelloSaid ==
  ASSUME Inv, NEW i \in Programs, Hello(i)
  PROVE  Said'
<1> SUFFICES ASSUME clean', NEW j \in Programs, NEW k \in Programs, Across(j, k),
                    Greeted(j)', Greeted(k)'
             PROVE  OnWay(j, k)' \/ OnWay(k, j)'
  BY DEF Said, Across
<1>1. clean /\ queue' = queue /\ DOMAIN air' = DOMAIN air \cup {Hail(i)}
  BY SentStays DEF Hello, Hail
<1>2. CASE j = i \/ k = i
  BY <1>1, <1>2 DEF OnWay, Hail
<1>3. CASE j # i /\ k # i
  <2>1. Greeted(j) /\ Greeted(k)
    BY <1>3 DEF Hello, Go, Greeted, Holds, ParentHolds, KidAlive, child
  <2>2. OnWay(j, k) \/ OnWay(k, j)
    BY <1>1, <2>1 DEF Inv, Said
  <2> QED BY <1>1, <2>2 DEF OnWay, Hail, Among, Hello, log
<1> QED BY <1>2, <1>3

LEMMA ReceiveSaid ==
  ASSUME Inv, NEW i \in Programs, Receive(i)
  PROVE  Said'
<1> SUFFICES ASSUME clean', NEW j \in Programs, NEW k \in Programs, Across(j, k),
                    Greeted(j)', Greeted(k)'
             PROVE  OnWay(j, k)' \/ OnWay(k, j)'
  BY DEF Said, Across
<1>1. clean /\ UNCHANGED <<air, pc>>
  BY DEF Receive, parent
<1>2. \A p \in Programs : Greeted(p)' => Greeted(p)
  BY <1>1 DEF Inv, TypeOK, Receive, Greeted, Holds, ParentHolds, KidAlive
<1>3. queue[i] \in Seq(Datagrams) /\ queue[i] # << >>
  BY DEF Inv, Queues, Receive
<1>4. queue' = [queue EXCEPT ![i] = Tail(@)]
  BY DEF Receive
<1>5. ASSUME NEW p \in Programs, NEW q \in Programs, OnWay(p, q)
      PROVE  OnWay(p, q)'
  <2>1. CASE Hail(p) \in DOMAIN air
    BY <1>1, <2>1 DEF OnWay, Hail
  <2>2. CASE p \in joined[q]
    BY <2>2 DEF Inv, TypeOK, Receive, OnWay
  <2>3. CASE q # i /\ Among(Hail(p), queue[q])
    BY <1>4, <2>3 DEF Inv, Queues, OnWay, Among, Hail
  <2>4. CASE q = i /\ Among(Hail(p), queue[q]) /\ Hail(p) = Head(queue[i])
    <3>1. Head(queue[i]).text = "START" /\ Head(queue[i]).from = p
      BY <2>4 DEF Hail
    <3> QED BY <2>4, <3>1 DEF Inv, TypeOK, Receive, OnWay
  <2>5. CASE q = i /\ Among(Hail(p), queue[q]) /\ Hail(p) # Head(queue[i])
    <3>1. Among(Hail(p), Tail(queue[i]))
      BY <1>3, <2>5, TailKeeps
    <3>2. queue'[q] = Tail(queue[i])
      BY <1>4, <2>5 DEF Inv, Queues
    <3> QED BY <3>1, <3>2 DEF OnWay, Hail, Among
  <2> QED BY <1>5, <2>1, <2>2, <2>3, <2>4, <2>5 DEF OnWay
<1>6. OnWay(j, k) \/ OnWay(k, j)
  BY <1>1, <1>2 DEF Inv, Said
<1> QED BY <1>5, <1>6

\* Said survives what sends no START, reads and delivers nothing.
LEMMA QuietSaid ==
  ASSUME Said, Quietly
  PROVE  Said'
<1> SUFFICES ASSUME clean', NEW i \in Programs, NEW j \in Programs, Across(i, j),
                    Greeted(i)', Greeted(j)'
             PROVE  OnWay(i, j)' \/ OnWay(j, i)'
  BY DEF Said, Across
<1>1. OnWay(i, j) \/ OnWay(j, i)
  BY DEF Said, Quietly
<1> QED BY <1>1 DEF Quietly, OnWay, Hail, Among

LEMMA ProgramSaid ==
  ASSUME Inv, NEW i \in Programs, Steps(i)
  PROVE  Said'
<1>1. CASE Hello(i)
  BY <1>1, HelloSaid
<1>2. CASE Receive(i)
  BY <1>2, ReceiveSaid
<1>3. CASE ~Hello(i) /\ ~Receive(i)
  <2>1. Quietly
    BY <1>3, OthersQuiet
  <2> QED BY <2>1, QuietSaid DEF Inv
<1> QED BY <1>1, <1>2, <1>3

-----------------------------------------------------------------------------
\* The network.
LEMMA ArriveInv ==
  ASSUME Inv, NEW d \in BagToSet(air), Arrive(d)
  PROVE  NTypes' /\ Said'
<1>1. d \in Datagrams /\ NTypes
  BY TypeParts DEF Inv, TypeOK
<1>2. air' = BagRemove(air, d) /\ UNCHANGED <<pc, kid, joined, dups>>
  BY DEF Arrive, parent, child, log
<1>3. \A e \in DOMAIN air : e # d => e \in DOMAIN air'
  BY <1>2, BagRemoveElements
<1>4. IsABag(air') /\ DOMAIN air' \subseteq Datagrams
  BY <1>1, <1>2, BagRemoveElements, BagsStayBags DEF NTypes
<1>5. \A p \in Programs : Greeted(p)' <=> Greeted(p)
  BY <1>2 DEF Greeted, Holds, ParentHolds, KidAlive
<1>6. CASE /\ queue' = queue
           /\ Bound(d.to) = {} \/ ~clean'
  <2>1. NTypes'
    BY <1>1, <1>2, <1>4, <1>6 DEF NTypes
  <2>2. SUFFICES ASSUME clean', NEW j \in Programs, NEW k \in Programs, Across(j, k),
                        Greeted(j), Greeted(k)
                 PROVE  OnWay(j, k)' \/ OnWay(k, j)'
    BY <1>5, <2>1 DEF Said, Across
  <2>3. Bound(d.to) = {} /\ clean
    BY <1>6, <2>2 DEF Arrive
  <2>4. d # Hail(j) /\ d # Hail(k)
    BY <2>2, <2>3 DEF Bound, Hail, Across, Greeted
  <2>5. OnWay(j, k) \/ OnWay(k, j)
    BY <2>2, <2>3 DEF Inv, Said
  <2> QED BY <1>2, <1>3, <1>6, <2>4, <2>5 DEF OnWay, Hail, Among
<1>7. CASE \E i \in Bound(d.to) : /\ Len(queue[i]) < RcvBuf
                                  /\ queue' = [queue EXCEPT ![i] = Append(@, d)]
                                  /\ UNCHANGED clean
  <2>1. PICK i \in Programs : /\ HostOf[i] = d.to /\ Holds(i) /\ Len(queue[i]) < RcvBuf
                              /\ queue' = [queue EXCEPT ![i] = Append(@, d)]
                              /\ UNCHANGED clean
    BY <1>7 DEF Bound
  <2>2. queue[i] \in Seq(Datagrams)
    BY DEF Inv, Queues
  <2>3. Append(queue[i], d) \in Seq(Datagrams) /\ Len(Append(queue[i], d)) <= RcvBuf
    BY <1>1, <2>1, <2>2, Sizes
  <2>4. queue' \in [Programs -> Seq(Datagrams)]
    BY <1>1, <2>1, <2>3 DEF NTypes
  <2>5. \A j \in Programs : Len(queue'[j]) <= RcvBuf
    BY <1>1, <2>1, <2>3 DEF NTypes
  <2>6. NTypes'
    BY <1>1, <1>2, <1>4, <2>4, <2>5 DEF NTypes
  <2>7. SUFFICES ASSUME clean', NEW j \in Programs, NEW k \in Programs, Across(j, k),
                        Greeted(j), Greeted(k)
                 PROVE  OnWay(j, k)' \/ OnWay(k, j)'
    BY <1>5, <2>6 DEF Said, Across
  <2>8. ASSUME NEW p \in Programs, NEW q \in Programs, OnWay(p, q), Holds(q),
               HostOf[q] = PartnerOf[p]
        PROVE  OnWay(p, q)'
    <3>1. CASE Hail(p) = d
      <4>1. q = i
        BY <1>5, <2>1, <2>8, <3>1 DEF Inv, OneHolder, Hail
      <4>2. Among(d, Append(queue[i], d))
        BY <1>1, <2>2, AppendKeeps
      <4>3. queue'[q] = Append(queue[i], d)
        BY <2>1, <4>1 DEF Inv, Queues
      <4> QED BY <3>1, <4>2, <4>3 DEF OnWay, Hail, Among
    <3>2. CASE Hail(p) \in DOMAIN air /\ Hail(p) # d
      BY <1>3, <3>2 DEF OnWay, Hail
    <3>3. CASE Among(Hail(p), queue[q])
      <4>1. q = i => Among(Hail(p), Append(queue[i], d))
        BY <1>1, <2>2, <3>3, AppendKeeps
      <4>2. queue'[q] = IF q = i THEN Append(queue[i], d) ELSE queue[q]
        BY <2>1 DEF Inv, Queues
      <4> QED BY <3>3, <4>1, <4>2 DEF OnWay, Hail, Among
    <3>4. CASE p \in joined[q]
      BY <1>2, <3>4 DEF OnWay
    <3> QED BY <2>8, <3>1, <3>2, <3>3, <3>4 DEF OnWay
  <2>9. OnWay(j, k) \/ OnWay(k, j)
    BY <2>1, <2>7 DEF Inv, Said
  <2> QED BY <2>7, <2>8, <2>9 DEF Across, Greeted
<1> QED BY <1>6, <1>7 DEF Arrive

\* The network that loses or duplicates is not clean.
LEMMA NetInv ==
  ASSUME Inv, Net
  PROVE  Inv'
<1>1. PTypes /\ NTypes
  BY TypeParts DEF Inv
<1>2. PICK d \in BagToSet(air) : Arrive(d) \/ Lose(d) \/ Duplicate(d)
  BY DEF Net
<1>3. UNCHANGED <<parent, child, joined>>
  BY <1>2 DEF Arrive, Lose, Duplicate, log
<1>4. PTypes' /\ OneHolder' /\ Forked'
  BY <1>1, <1>3 DEF PTypes, Inv, OneHolder, Forked, Holds, ParentHolds, KidAlive,
      parent, child
<1>5. NTypes' /\ Said'
  <2>1. CASE Arrive(d)
    BY <2>1, ArriveInv
  <2>2. CASE Lose(d) \/ Duplicate(d)
    <3>1. d \in Datagrams
      BY <1>1 DEF NTypes, BagToSet
    <3>2. ~clean' /\ queue' = queue /\ dups' \in 0 .. MaxDup
      BY <1>1, <2>2, Sizes DEF Lose, Duplicate, NTypes
    <3>3. air' = BagAdd(air, d) \/ air' = BagRemove(air, d)
      BY <2>2 DEF Lose, Duplicate
    <3>4. DOMAIN air' \subseteq Datagrams
      <4>1. DOMAIN BagAdd(air, d) = DOMAIN air \cup {d}
        BY BagAddElements
      <4>2. DOMAIN BagRemove(air, d) \subseteq DOMAIN air
        BY BagRemoveElements
      <4> QED BY <1>1, <3>1, <3>3, <4>1, <4>2 DEF NTypes
    <3>5. IsABag(air')
      BY <1>1, <3>3, BagsStayBags DEF NTypes
    <3> QED BY <1>1, <3>2, <3>4, <3>5 DEF NTypes, Said
  <2> QED BY <1>2, <2>1, <2>2
<1> QED BY <1>4, <1>5, TypePartsNext DEF Inv

LEMMA InitInv == Init => Inv
<1> SUFFICES ASSUME Init
             PROVE  Inv
  OBVIOUS
<1>1. PTypes
  BY DEF Init, PTypes, Text, Hosts
<1>2. NTypes
  <2>1. << >> \in Seq(Datagrams) /\ Len(<< >>) <= RcvBuf
    BY Sizes
  <2>2. queue = [i \in Programs |-> << >>] /\ air = EmptyBag /\ dups = 0
    BY DEF Init
  <2>3. queue \in [Programs -> Seq(Datagrams)]
    BY <2>1, <2>2
  <2>4. \A i \in Programs : Len(queue[i]) <= RcvBuf
    BY <2>1, <2>2
  <2>5. IsABag(air) /\ DOMAIN air \subseteq Datagrams
    BY <2>2, NoElements
  <2> QED BY <2>2, <2>3, <2>4, <2>5, Sizes DEF NTypes
<1>3. OneHolder /\ Forked /\ Said
  BY DEF Init, OneHolder, Forked, Said, Greeted, Holds, ParentHolds, KidAlive
<1> QED BY <1>1, <1>2, <1>3, TypeParts DEF Inv

LEMMA NextInv == Inv /\ [Next]_vars => Inv'
<1> SUFFICES ASSUME Inv, [Next]_vars
             PROVE  Inv'
  OBVIOUS
<1>1. PTypes /\ NTypes
  BY TypeParts DEF Inv
<1>2. ASSUME NEW i \in Programs, Steps(i)
      PROVE  Inv'
  <2>1. PTypes' /\ NTypes' /\ OneHolder' /\ Forked'
    BY <1>1, <1>2, ProgramTypes, NetworkTypes, HoldersStep DEF Inv
  <2>2. Said'
    BY <1>2, ProgramSaid
  <2> QED BY <2>1, <2>2, TypePartsNext DEF Inv
<1>3. CASE Net
  BY <1>3, NetInv
<1>4. CASE UNCHANGED vars
  <2>1. UNCHANGED <<pc, kid, snd, myturn, client, queue, air, dups, joined, clean>>
    BY <1>4 DEF vars, parent, child, network, log
  <2>2. PTypes' /\ NTypes'
    BY <1>1, <2>1 DEF PTypes, NTypes
  <2>3. OneHolder' /\ Forked'
    BY <2>1 DEF Inv, OneHolder, Forked, Holds, ParentHolds, KidAlive
  <2>4. Quietly
    BY <2>1 DEF Quietly, Greeted, Holds, ParentHolds, KidAlive
  <2> QED BY <2>2, <2>3, <2>4, QuietSaid, TypePartsNext DEF Inv
<1> QED BY <1>2, <1>3, <1>4 DEF Next, Parent, Child, User, Faults, Steps

LEMMA InvHolds == Spec => []Inv
BY InitInv, NextInv, PTL DEF Spec

\* The states of processes, sockets and network, for any number of programs.
THEOREM TypeCorrect == Spec => []TypeOK
<1>1. Inv => TypeOK
  BY DEF Inv
<1> QED BY <1>1, InvHolds, PTL

\* Of two programs that face each other at least one has learnt of the other
\* when the network is at rest and lost nothing: START is sent after bind(), so
\* that the later one's finds the socket of the earlier one.
THEOREM OneLearns == Spec => []SomeoneLearns
<1>1. Inv => SomeoneLearns
  <2> SUFFICES ASSUME Inv, clean, Quiet, NEW i \in Programs, NEW j \in Programs, Facing(i, j)
               PROVE  j \in joined[i] \/ i \in joined[j]
    BY DEF SomeoneLearns
  <2>1. Across(i, j) /\ Greeted(i) /\ Greeted(j)
    BY DEF Facing, Across, Greeted, Holds, KidAlive, Inv, Forked
  <2>2. OnWay(i, j) \/ OnWay(j, i)
    BY <2>1 DEF Inv, Said
  <2>3. DOMAIN air = {} /\ queue[i] = << >> /\ queue[j] = << >>
    BY NoElements DEF Quiet
  <2> QED BY <2>2, <2>3 DEF OnWay, Among
<1> QED BY <1>1, InvHolds, PTL
-----------------------------------------------------------------------------
(* Answers.  Every answer that is or will be read at a host stands for a shot  *)
(* sent from there, or for a copy made by the network: counted are the shots   *)
(* and answers in transit, those in receive buffers, and the answers a child   *)
(* is about to send.                                                           *)

Homes == {HostOf[i] : i \in Programs}

\* d is an answer sent to h, or a shot sent from there.
Counts(d, h) ==
  \/ d.text = "<LOSE>" /\ d.to = h
  \/ IsShot(d.text) /\ HostOf[d.from] = h

Copies(h) ==
  {p \in Datagrams \X Nat :
     p[1] \in DOMAIN air /\ p[2] \in 1 .. air[p[1]] /\ Counts(p[1], h)}
Waiting(h) ==
  {p \in Programs \X Nat :
     p[2] \in 1 .. Len(queue[p[1]]) /\ Counts(queue[p[1]][p[2]], h)}
Answering(h) == {j \in Programs : kid[j] = "answer" /\ client[j] = h}
Tally(h) == Cardinality(Copies(h)) + Cardinality(Waiting(h)) + Cardinality(Answering(h))

AllFinite ==
  \A h \in Homes :
    IsFiniteSet(Copies(h)) /\ IsFiniteSet(Waiting(h)) /\ IsFiniteSet(Answering(h))

Counters == got \in [Programs -> Nat] /\ shots \in [Homes -> Nat]

\* Datagrams wait where they were sent to.
Addressed == \A i \in Programs : \A n \in 1 .. Len(queue[i]) : queue[i][n].to = HostOf[i]

\* No user types an answer; what is sent twice is <koniec>.
Typed ==
  \A i \in Programs : snd[i] # "<LOSE>" /\ (pc[i] = "again" => snd[i] = "<koniec>")

Tallied == \A i \in Programs : got[i] + Tally(HostOf[i]) <= dups + shots[HostOf[i]]

TallyInv == AllFinite /\ Counters /\ Addressed /\ Typed /\ Tallied

LEMMA SizeTypes ==
  ASSUME AllFinite, NEW h \in Homes
  PROVE  /\ Cardinality(Copies(h)) \in Nat /\ Cardinality(Waiting(h)) \in Nat
         /\ Cardinality(Answering(h)) \in Nat /\ Tally(h) \in Nat
BY FS_CardinalityType DEF AllFinite, Tally

LEMMA OneMore ==
  ASSUME NEW S, NEW x, IsFiniteSet(S)
  PROVE  IsFiniteSet(S \cup {x}) /\ Cardinality(S \cup {x}) <= Cardinality(S) + 1
<1>1. Cardinality(S) \in Nat
  BY FS_CardinalityType
<1> QED BY <1>1, FS_AddElement

LEMMA Tails ==
  ASSUME NEW S, NEW q \in Seq(S), q # << >>
  PROVE  /\ Len(Tail(q)) = Len(q) - 1 /\ Len(q) \in Nat /\ Len(q) >= 1
         /\ \A k \in 1 .. Len(Tail(q)) : Tail(q)[k] = q[k + 1]
         /\ Head(q) = q[1]
<1>1. Len(q) \in Nat /\ Len(q) >= 1 /\ Head(q) = q[1]
  OBVIOUS
<1>2. Len(Tail(q)) = Len(q) - 1
  OBVIOUS
<1>3. \A k \in 1 .. Len(Tail(q)) : Tail(q)[k] = q[k + 1]
  BY <1>1, <1>2
<1> QED BY <1>1, <1>2, <1>3

\* One copy more in transit, or one less.
LEMMA CopyAdded ==
  ASSUME NTypes, NEW d \in Datagrams, air' = BagAdd(air, d), NEW h, IsFiniteSet(Copies(h))
  PROVE  /\ IsFiniteSet(Copies(h)')
         /\ Cardinality(Copies(h)') <= Cardinality(Copies(h)) + 1
         /\ ~Counts(d, h) => Cardinality(Copies(h)') <= Cardinality(Copies(h))
<1> DEFINE n == IF d \in DOMAIN air THEN air[d] + 1 ELSE 1
<1>1. air \in [DOMAIN air -> {k \in Nat : k > 0}]
  BY DEF NTypes, IsABag
<1>2. /\ DOMAIN air' = DOMAIN air \cup {d}
      /\ \A e \in DOMAIN air : e # d => air'[e] = air[e]
      /\ air'[d] = n
  BY DEF BagAdd
<1>3. n \in Nat /\ (d \in DOMAIN air => n = air[d] + 1) /\ (d \notin DOMAIN air => n = 1)
  BY <1>1
<1> HIDE DEF n
<1>4. \A p \in Copies(h)' : p = <<d, n>> \/ p \in Copies(h)
  <2> TAKE p \in Copies(h)'
  <2>1. /\ p \in Datagrams \X Nat /\ p[1] \in DOMAIN air' /\ p[2] \in 1 .. air'[p[1]]
        /\ Counts(p[1], h)
    BY DEF Copies, Counts
  <2>2. CASE p[1] # d
    BY <1>1, <1>2, <2>1, <2>2 DEF Copies
  <2>3. CASE p[1] = d /\ p[2] = n
    BY <2>1, <2>3
  <2>4. CASE p[1] = d /\ p[2] # n
    BY <1>1, <1>2, <1>3, <2>1, <2>4 DEF Copies
  <2> QED BY <2>2, <2>3, <2>4
<1>5. Copies(h)' \subseteq Copies(h) \cup {<<d, n>>}
  BY <1>4
<1>6. /\ IsFiniteSet(Copies(h) \cup {<<d, n>>})
      /\ Cardinality(Copies(h) \cup {<<d, n>>}) <= Cardinality(Copies(h)) + 1
  BY OneMore
<1>7. /\ IsFiniteSet(Copies(h)')
      /\ Cardinality(Copies(h)') <= Cardinality(Copies(h) \cup {<<d, n>>})
  BY <1>5, <1>6, FS_Subset
<1>8. Cardinality(Copies(h)') <= Cardinality(Copies(h)) + 1
  BY <1>6, <1>7, FS_CardinalityType
<1>9. ASSUME ~Counts(d, h) PROVE Cardinality(Copies(h)') <= Cardinality(Copies(h))
  <2>1. <<d, n>> \notin Copies(h)'
    BY <1>9 DEF Copies, Counts
  <2>2. Copies(h)' \subseteq Copies(h)
    BY <1>5, <2>1
  <2> QED BY <2>2, FS_Subset
<1> QED BY <1>7, <1>8, <1>9

LEMMA CopyRemoved ==
  ASSUME NTypes, NEW d \in DOMAIN air, air' = BagRemove(air, d), NEW h, IsFiniteSet(Copies(h))
  PROVE  /\ IsFiniteSet(Copies(h)')
         /\ Cardinality(Copies(h)') <= Cardinality(Copies(h))
         /\ Counts(d, h) => Cardinality(Copies(h)') + 1 <= Cardinality(Copies(h))
<1> DEFINE n == air[d]
<1>1. air \in [DOMAIN air -> {k \in Nat : k > 0}] /\ d \in Datagrams
  BY DEF NTypes, IsABag
<1>2. /\ DOMAIN air' \subseteq DOMAIN air
      /\ \A e \in DOMAIN air : e # d => air'[e] = air[e]
      /\ d \in DOMAIN air' => air'[d] = n - 1
  BY DEF BagRemove
<1>3. \A p \in Copies(h)' : p \in Copies(h) /\ p # <<d, n>>
  <2> TAKE p \in Copies(h)'
  <2>1. /\ p \in Datagrams \X Nat /\ p[1] \in DOMAIN air' /\ p[2] \in 1 .. air'[p[1]]
        /\ Counts(p[1], h)
    BY DEF Copies, Counts
  <2>2. CASE p[1] # d
    BY <1>1, <1>2, <2>1, <2>2 DEF Copies
  <2>3. CASE p[1] = d
    BY <1>1, <1>2, <2>1, <2>3 DEF Copies
  <2> QED BY <2>2, <2>3
<1>4. Copies(h)' \subseteq Copies(h) \ {<<d, n>>}
  BY <1>3
<1>5. Counts(d, h) => <<d, n>> \in Copies(h)
  BY <1>1 DEF Copies
<1>6. /\ IsFiniteSet(Copies(h) \ {<<d, n>>})
      /\ Cardinality(Copies(h) \ {<<d, n>>}) =
           IF <<d, n>> \in Copies(h) THEN Cardinality(Copies(h)) - 1 ELSE Cardinality(Copies(h))
  BY FS_RemoveElement
<1>7. /\ IsFiniteSet(Copies(h)')
      /\ Cardinality(Copies(h)') <= Cardinality(Copies(h) \ {<<d, n>>})
  BY <1>4, <1>6, FS_Subset
<1> QED BY <1>5, <1>6, <1>7, FS_CardinalityType

\* A datagram more in a receive buffer, at its end, or one less, at its head.
LEMMA WaitingAdded ==
  ASSUME NTypes, NEW d \in Datagrams, NEW i \in Programs,
         queue' = [queue EXCEPT ![i] = Append(@, d)], NEW h, IsFiniteSet(Waiting(h))
  PROVE  /\ IsFiniteSet(Waiting(h)')
         /\ Cardinality(Waiting(h)') <= Cardinality(Waiting(h)) + 1
         /\ ~Counts(d, h) => Cardinality(Waiting(h)') <= Cardinality(Waiting(h))
<1> DEFINE n == Len(queue[i]) + 1
<1>1. queue[i] \in Seq(Datagrams) /\ n \in Nat
  BY DEF NTypes
<1>2. /\ queue'[i] = Append(queue[i], d)
      /\ \A j \in Programs : j # i => queue'[j] = queue[j]
  BY DEF NTypes
<1>3. /\ Len(queue'[i]) = n /\ queue'[i][n] = d
      /\ \A k \in 1 .. Len(queue[i]) : queue'[i][k] = queue[i][k]
  BY <1>1, <1>2
<1>4. \A p \in Waiting(h)' : (p = <<i, n>> /\ Counts(d, h)) \/ p \in Waiting(h)
  <2> TAKE p \in Waiting(h)'
  <2>1. /\ p \in Programs \X Nat /\ p[2] \in 1 .. Len(queue'[p[1]])
        /\ Counts(queue'[p[1]][p[2]], h)
    BY DEF Waiting, Counts
  <2>2. CASE p[1] # i
    BY <1>2, <2>1, <2>2 DEF Waiting
  <2>3. CASE p[1] = i /\ p[2] = n
    BY <1>3, <2>1, <2>3
  <2>4. CASE p[1] = i /\ p[2] # n
    <3>1. p[2] \in 1 .. Len(queue[i])
      BY <1>1, <1>3, <2>1, <2>4
    <3> QED BY <1>3, <2>1, <2>4, <3>1 DEF Waiting
  <2> QED BY <2>2, <2>3, <2>4
<1>5. Waiting(h)' \subseteq Waiting(h) \cup {<<i, n>>}
  BY <1>4
<1>6. /\ IsFiniteSet(Waiting(h) \cup {<<i, n>>})
      /\ Cardinality(Waiting(h) \cup {<<i, n>>}) <= Cardinality(Waiting(h)) + 1
  BY OneMore
<1>7. /\ IsFiniteSet(Waiting(h)')
      /\ Cardinality(Waiting(h)') <= Cardinality(Waiting(h) \cup {<<i, n>>})
  BY <1>5, <1>6, FS_Subset
<1>8. Cardinality(Waiting(h)') <= Cardinality(Waiting(h)) + 1
  BY <1>6, <1>7, FS_CardinalityType
<1>9. ASSUME ~Counts(d, h) PROVE Cardinality(Waiting(h)') <= Cardinality(Waiting(h))
  <2>1. Waiting(h)' \subseteq Waiting(h)
    BY <1>4, <1>9
  <2> QED BY <2>1, FS_Subset
<1> QED BY <1>7, <1>8, <1>9

LEMMA WaitingRemoved ==
  ASSUME NTypes, NEW i \in Programs, queue[i] # << >>,
         queue' = [queue EXCEPT ![i] = Tail(@)], NEW h, IsFiniteSet(Waiting(h))
  PROVE  /\ IsFiniteSet(Waiting(h)')
         /\ Cardinality(Waiting(h)') <= Cardinality(Waiting(h))
         /\ Counts(Head(queue[i]), h) =>
              Cardinality(Waiting(h)') + 1 <= Cardinality(Waiting(h))
<1>1. queue[i] \in Seq(Datagrams) /\ queue[i] # << >>
  BY DEF NTypes
<1>2. /\ queue'[i] = Tail(queue[i])
      /\ \A j \in Programs : j # i => queue'[j] = queue[j]
  BY DEF NTypes
<1>3. /\ Len(queue'[i]) = Len(queue[i]) - 1 /\ Len(queue[i]) \in Nat
      /\ \A k \in 1 .. Len(queue'[i]) : queue'[i][k] = queue[i][k + 1]
      /\ Head(queue[i]) = queue[i][1] /\ Len(queue[i]) >= 1
  <2>1. /\ Len(Tail(queue[i])) = Len(queue[i]) - 1 /\ Len(queue[i]) \in Nat
        /\ \A k \in 1 .. Len(Tail(queue[i])) : Tail(queue[i])[k] = queue[i][k + 1]
        /\ Head(queue[i]) = queue[i][1] /\ Len(queue[i]) >= 1
    BY <1>1, Tails
  <2> QED BY <1>2, <2>1
<1> DEFINE R == Waiting(h) \ {<<i, 1>>}
           f == [p \in Waiting(h)' |-> IF p[1] = i THEN <<i, p[2] + 1>> ELSE p]
<1>4. ASSUME NEW p \in Waiting(h)' PROVE f[p] \in R
  <2>1. /\ p \in Programs \X Nat /\ p[2] \in 1 .. Len(queue'[p[1]])
        /\ Counts(queue'[p[1]][p[2]], h)
    BY <1>4 DEF Waiting, Counts
  <2>2. CASE p[1] # i
    <3>1. p \in Waiting(h) /\ f[p] = p /\ p # <<i, 1>>
      BY <1>2, <2>1, <2>2 DEF Waiting
    <3> QED BY <3>1
  <2>3. CASE p[1] = i
    <3>1. p[2] + 1 \in 1 .. Len(queue[i]) /\ p[2] + 1 # 1 /\ p[2] + 1 \in Nat
      BY <1>3, <2>1, <2>3
    <3>2. queue'[i][p[2]] = queue[i][p[2] + 1]
      BY <1>3, <2>1, <2>3
    <3>3. <<i, p[2] + 1>> \in Waiting(h)
      BY <2>1, <2>3, <3>1, <3>2 DEF Waiting
    <3>4. f[p] = <<i, p[2] + 1>>
      BY <2>3
    <3> QED BY <3>1, <3>3, <3>4
  <2> QED BY <2>2, <2>3
<1>5. ASSUME NEW p \in Waiting(h)', NEW q \in Waiting(h)', f[p] = f[q] PROVE p = q
  <2>1. p \in Programs \X Nat /\ q \in Programs \X Nat
    BY <1>5 DEF Waiting
  <2> QED BY <1>5, <2>1
<1>6. f \in Injection(Waiting(h)', R)
  BY <1>4, <1>5 DEF Injection, IsInjective
<1>7. /\ IsFiniteSet(R)
      /\ Cardinality(R) =
           IF <<i, 1>> \in Waiting(h) THEN Cardinality(Waiting(h)) - 1 ELSE Cardinality(Waiting(h))
  BY FS_RemoveElement
<1>8. IsFiniteSet(Waiting(h)') /\ Cardinality(Waiting(h)') <= Cardinality(R)
  <2> HIDE DEF f, R
  <2> QED BY <1>6, <1>7, FS_Injection
<1>9. Counts(Head(queue[i]), h) => <<i, 1>> \in Waiting(h)
  BY <1>3 DEF Waiting
<1> QED BY <1>7, <1>8, <1>9, FS_CardinalityType
\* The three numbers may change by themselves: what is left to show of a step.
LEMMA Weighed ==
  ASSUME NEW h \in Homes, AllFinite, IsFiniteSet(Copies(h)'), IsFiniteSet(Waiting(h)'),
         IsFiniteSet(Answering(h)')
  PROVE  /\ Tally(h) \in Nat /\ Tally(h)' \in Nat
         /\ Tally(h) = Cardinality(Copies(h)) + Cardinality(Waiting(h)) + Cardinality(Answering(h))
         /\ Tally(h)' = Cardinality(Copies(h)') + Cardinality(Waiting(h)') + Cardinality(Answering(h)')
         /\ Cardinality(Copies(h)) \in Nat /\ Cardinality(Copies(h)') \in Nat
         /\ Cardinality(Waiting(h)) \in Nat /\ Cardinality(Waiting(h)') \in Nat
         /\ Cardinality(Answering(h)) \in Nat /\ Cardinality(Answering(h)') \in Nat
<1>1. /\ Cardinality(Copies(h)) \in Nat /\ Cardinality(Copies(h)') \in Nat
      /\ Cardinality(Waiting(h)) \in Nat /\ Cardinality(Waiting(h)') \in Nat
      /\ Cardinality(Answering(h)) \in Nat /\ Cardinality(Answering(h)') \in Nat
  BY FS_CardinalityType DEF AllFinite
<1> QED BY <1>1 DEF Tally

LEMMA HistoryTypes ==
  ASSUME TallyInv, NTypes
  PROVE  /\ dups \in Nat
         /\ \A i \in Programs : got[i] \in Nat /\ shots[HostOf[i]] \in Nat
<1>1. dups \in Nat
  BY Sizes DEF NTypes
<1>2. \A i \in Programs : got[i] \in Nat /\ shots[HostOf[i]] \in Nat
  BY DEF TallyInv, Counters, Homes
<1> QED BY <1>1, <1>2

LEMMA Home == \A i \in Programs : HostOf[i] \in Homes
BY DEF Homes

\* Steps that send, read and answer nothing.
LEMMA CalmTally ==
  ASSUME TallyInv, NTypes, UNCHANGED <<air, got, shots, dups>>,
         \A j \in Programs : queue'[j] = queue[j] \/ queue'[j] = << >>,
         \A j \in Programs : kid'[j] = "answer" => kid[j] = "answer" /\ client'[j] = client[j]
  PROVE  AllFinite' /\ Tallied'
<1>1. ASSUME NEW h \in Homes
      PROVE  /\ IsFiniteSet(Copies(h)') /\ IsFiniteSet(Waiting(h)') /\ IsFiniteSet(Answering(h)')
             /\ Tally(h)' <= Tally(h) /\ Tally(h) \in Nat /\ Tally(h)' \in Nat
  <2>1. IsFiniteSet(Copies(h)) /\ IsFiniteSet(Waiting(h)) /\ IsFiniteSet(Answering(h))
    BY DEF TallyInv, AllFinite
  <2>2. Copies(h)' = Copies(h)
    BY DEF Copies, Counts
  <2>3. Waiting(h)' \subseteq Waiting(h)
    <3> SUFFICES ASSUME NEW p \in Waiting(h)' PROVE p \in Waiting(h)
      OBVIOUS
    <3>1. /\ p \in Programs \X Nat /\ p[2] \in 1 .. Len(queue'[p[1]])
          /\ Counts(queue'[p[1]][p[2]], h)
      BY DEF Waiting, Counts
    <3>2. queue'[p[1]] # << >>
      BY <3>1
    <3>3. queue'[p[1]] = queue[p[1]]
      BY <3>1, <3>2
    <3> QED BY <3>1, <3>3 DEF Waiting
  <2>4. Answering(h)' \subseteq Answering(h)
    BY DEF Answering
  <2>5. IsFiniteSet(Waiting(h)') /\ Cardinality(Waiting(h)') <= Cardinality(Waiting(h))
    BY <2>1, <2>3, FS_Subset
  <2>6. IsFiniteSet(Answering(h)') /\ Cardinality(Answering(h)') <= Cardinality(Answering(h))
    BY <2>1, <2>4, FS_Subset
  <2>7. IsFiniteSet(Copies(h)') /\ Cardinality(Copies(h)') = Cardinality(Copies(h))
    BY <2>1, <2>2
  <2> QED BY <2>5, <2>6, <2>7, Weighed DEF TallyInv
<1>2. AllFinite'
  BY <1>1 DEF AllFinite
<1>3. ASSUME NEW i \in Programs
      PROVE  (got[i] + Tally(HostOf[i]) <= dups + shots[HostOf[i]])'
  <2>1. /\ got[i] + Tally(HostOf[i]) <= dups + shots[HostOf[i]]
        /\ Tally(HostOf[i])' <= Tally(HostOf[i])
        /\ Tally(HostOf[i]) \in Nat /\ Tally(HostOf[i])' \in Nat
    BY <1>1, Home DEF TallyInv, Tallied
  <2>2. got[i] \in Nat /\ dups \in Nat /\ shots[HostOf[i]] \in Nat
    BY HistoryTypes
  <2> QED BY <2>1, <2>2
<1> QED BY <1>2, <1>3 DEF Tallied
\* The number of shots on the way is moved over to the number of shots sent.
LEMMA SendTally ==
  ASSUME TallyInv, NTypes, NEW i \in Programs, NEW to \in Hosts, NEW t \in Text,
         t # "<LOSE>", SendTo(i, to, t), UNCHANGED <<kid, client, got>>,
         shots' = [shots EXCEPT ![HostOf[i]] = IF IsShot(t) THEN @ + 1 ELSE @]
  PROVE  AllFinite' /\ Tallied'
<1> DEFINE d == [to |-> to, from |-> i, text |-> t]
<1>1. queue' = queue /\ dups' = dups /\ (air' = air \/ air' = BagAdd(air, d))
  BY DEF SendTo
<1>2. d \in Datagrams
  BY DEF Datagrams, Hosts
<1>3. \A h \in Homes : Counts(d, h) => IsShot(t) /\ h = HostOf[i]
  BY DEF Counts
<1> HIDE DEF d
<1>4. ASSUME NEW h \in Homes
      PROVE  /\ IsFiniteSet(Copies(h)') /\ IsFiniteSet(Waiting(h)') /\ IsFiniteSet(Answering(h)')
             /\ Tally(h) \in Nat /\ Tally(h)' \in Nat
             /\ Tally(h)' <= Tally(h) + 1
             /\ ~(IsShot(t) /\ h = HostOf[i]) => Tally(h)' <= Tally(h)
  <2>1. IsFiniteSet(Copies(h)) /\ IsFiniteSet(Waiting(h)) /\ IsFiniteSet(Answering(h))
    BY DEF TallyInv, AllFinite
  <2>2. Waiting(h)' = Waiting(h) /\ Answering(h)' = Answering(h)
    BY <1>1 DEF Waiting, Counts, Answering
  <2>3. /\ IsFiniteSet(Copies(h)')
        /\ Cardinality(Copies(h)') <= Cardinality(Copies(h)) + 1
        /\ ~Counts(d, h) => Cardinality(Copies(h)') <= Cardinality(Copies(h))
    <3>1. CASE air' = air
      <4>1. Copies(h)' = Copies(h) /\ Cardinality(Copies(h)) \in Nat
        BY <2>1, <3>1, FS_CardinalityType DEF Copies, Counts
      <4> QED BY <2>1, <4>1
    <3>2. CASE air' = BagAdd(air, d)
      BY <1>2, <2>1, <3>2, CopyAdded
    <3> QED BY <1>1, <3>1, <3>2
  <2>4. /\ Tally(h) \in Nat /\ Tally(h)' \in Nat
        /\ Tally(h) = Cardinality(Copies(h)) + Cardinality(Waiting(h)) + Cardinality(Answering(h))
        /\ Tally(h)' = Cardinality(Copies(h)') + Cardinality(Waiting(h)) + Cardinality(Answering(h))
        /\ Cardinality(Copies(h)) \in Nat /\ Cardinality(Copies(h)') \in Nat
        /\ Cardinality(Waiting(h)) \in Nat /\ Cardinality(Answering(h)) \in Nat
    BY <2>1, <2>2, <2>3, Weighed DEF TallyInv
  <2> QED BY <1>3, <2>1, <2>2, <2>3, <2>4
<1>5. AllFinite'
  BY <1>4 DEF AllFinite
<1>6. ASSUME NEW j \in Programs
      PROVE  (got[j] + Tally(HostOf[j]) <= dups + shots[HostOf[j]])'
  <2>1. HostOf[j] \in Homes /\ HostOf[i] \in Homes
    BY Home
  <2>2. /\ got[j] + Tally(HostOf[j]) <= dups + shots[HostOf[j]]
        /\ got[j] \in Nat /\ dups \in Nat /\ shots[HostOf[j]] \in Nat
    BY <2>1, HistoryTypes DEF TallyInv, Tallied
  <2>3. got'[j] = got[j] /\ dups' = dups
    BY <1>1
  <2>4. CASE IsShot(t) /\ HostOf[j] = HostOf[i]
    <3>1. shots'[HostOf[j]] = shots[HostOf[j]] + 1
      BY <2>1, <2>4 DEF TallyInv, Counters
    <3>2. Tally(HostOf[j])' <= Tally(HostOf[j]) + 1 /\ Tally(HostOf[j]) \in Nat /\ Tally(HostOf[j])' \in Nat
      BY <1>4, <2>1
    <3> QED BY <2>2, <2>3, <3>1, <3>2
  <2>5. CASE ~(IsShot(t) /\ HostOf[j] = HostOf[i])
    <3>1. shots'[HostOf[j]] = shots[HostOf[j]]
      BY <2>1, <2>5 DEF TallyInv, Counters
    <3>2. Tally(HostOf[j])' <= Tally(HostOf[j]) /\ Tally(HostOf[j]) \in Nat /\ Tally(HostOf[j])' \in Nat
      BY <1>4, <2>1, <2>5
    <3> QED BY <2>2, <2>3, <3>1, <3>2
  <2> QED BY <2>4, <2>5
<1> QED BY <1>5, <1>6 DEF Tallied

\* The child that is about to answer becomes an answer on its way.
LEMMA ReplyTally ==
  ASSUME TallyInv, NTypes, PTypes, NEW i \in Programs, Reply(i)
  PROVE  AllFinite' /\ Tallied'
<1> DEFINE d == [to |-> client[i], from |-> i, text |-> "<LOSE>"]
<1>1. /\ queue' = queue /\ dups' = dups /\ (air' = air \/ air' = BagAdd(air, d))
      /\ kid[i] = "answer" /\ kid' = [kid EXCEPT ![i] = "recv"]
      /\ UNCHANGED <<client, got, shots>>
  BY DEF Reply, SendTo, parent, log
<1>2. d \in Datagrams
  BY DEF Datagrams, Hosts, PTypes, Text
<1>3. \A h \in Homes : Counts(d, h) => h = client[i]
  BY DEF Counts, IsShot
<1> HIDE DEF d
<1>4. ASSUME NEW h \in Homes
      PROVE  /\ IsFiniteSet(Copies(h)') /\ IsFiniteSet(Waiting(h)') /\ IsFiniteSet(Answering(h)')
             /\ Tally(h) \in Nat /\ Tally(h)' \in Nat /\ Tally(h)' <= Tally(h)
  <2>1. IsFiniteSet(Copies(h)) /\ IsFiniteSet(Waiting(h)) /\ IsFiniteSet(Answering(h))
    BY DEF TallyInv, AllFinite
  <2>2. Waiting(h)' = Waiting(h)
    BY <1>1 DEF Waiting, Counts
  <2>3. /\ IsFiniteSet(Copies(h)')
        /\ Cardinality(Copies(h)') <= Cardinality(Copies(h)) + 1
        /\ ~Counts(d, h) => Cardinality(Copies(h)') <= Cardinality(Copies(h))
    <3>1. CASE air' = air
      <4>1. Copies(h)' = Copies(h) /\ Cardinality(Copies(h)) \in Nat
        BY <2>1, <3>1, FS_CardinalityType DEF Copies, Counts
      <4> QED BY <2>1, <4>1
    <3>2. CASE air' = BagAdd(air, d)
      BY <1>2, <2>1, <3>2, CopyAdded
    <3> QED BY <1>1, <3>1, <3>2
  <2>4. Answering(h)' \subseteq Answering(h) \ {i}
    BY <1>1 DEF Answering, PTypes
  <2>5. h = client[i] => i \in Answering(h)
    BY <1>1 DEF Answering
  <2>6. /\ IsFiniteSet(Answering(h) \ {i})
        /\ Cardinality(Answering(h) \ {i}) =
             IF i \in Answering(h) THEN Cardinality(Answering(h)) - 1 ELSE Cardinality(Answering(h))
    BY <2>1, FS_RemoveElement
  <2>7. IsFiniteSet(Answering(h)') /\ Cardinality(Answering(h)') <= Cardinality(Answering(h) \ {i})
    BY <2>4, <2>6, FS_Subset
  <2>8. /\ Tally(h) \in Nat /\ Tally(h)' \in Nat
        /\ Tally(h) = Cardinality(Copies(h)) + Cardinality(Waiting(h)) + Cardinality(Answering(h))
        /\ Tally(h)' = Cardinality(Copies(h)') + Cardinality(Waiting(h)) + Cardinality(Answering(h)')
        /\ Cardinality(Copies(h)) \in Nat /\ Cardinality(Copies(h)') \in Nat
        /\ Cardinality(Waiting(h)) \in Nat
        /\ Cardinality(Answering(h)) \in Nat /\ Cardinality(Answering(h)') \in Nat
    BY <2>1, <2>2, <2>3, <2>7, Weighed DEF TallyInv
  <2>9. CASE h = client[i]
    BY <2>1, <2>2, <2>3, <2>5, <2>6, <2>7, <2>8, <2>9
  <2>10. CASE h # client[i]
    <3>1. Cardinality(Copies(h)') <= Cardinality(Copies(h))
      BY <1>3, <2>3, <2>10
    <3>2. Cardinality(Answering(h)') <= Cardinality(Answering(h))
      BY <2>6, <2>7, <2>8
    <3> QED BY <2>1, <2>2, <2>3, <2>7, <2>8, <3>1, <3>2
  <2> QED BY <2>9, <2>10
<1>5. AllFinite'
  BY <1>4 DEF AllFinite
<1>6. ASSUME NEW j \in Programs
      PROVE  (got[j] + Tally(HostOf[j]) <= dups + shots[HostOf[j]])'
  <2>1. /\ got[j] + Tally(HostOf[j]) <= dups + shots[HostOf[j]]
        /\ got[j] \in Nat /\ dups \in Nat /\ shots[HostOf[j]] \in Nat
        /\ Tally(HostOf[j])' <= Tally(HostOf[j])
        /\ Tally(HostOf[j]) \in Nat /\ Tally(HostOf[j])' \in Nat
    BY <1>4, Home, HistoryTypes DEF TallyInv, Tallied
  <2> QED BY <1>1, <2>1
<1> QED BY <1>5, <1>6 DEF Tallied
\* A shot that is read becomes a child about to answer, an answer that is read
\* is one answer more.
LEMMA ReceiveTally ==
  ASSUME TallyInv, NTypes, PTypes, NEW i \in Programs, Receive(i)
  PROVE  AllFinite' /\ Tallied'
<1> DEFINE d == Head(queue[i])
<1>1. /\ queue[i] # << >> /\ queue' = [queue EXCEPT ![i] = Tail(@)]
      /\ UNCHANGED <<air, dups, shots>> /\ kid[i] = "recv"
      /\ client' = [client EXCEPT ![i] = HostOf[d.from]]
      /\ kid' = [kid EXCEPT ![i] = IF Answered(d.text) THEN "answer" ELSE @]
      /\ got' = [got EXCEPT ![i] = IF d.text = "<LOSE>" /\ @ < MaxGot(i) THEN @ + 1 ELSE @]
  BY DEF Receive, parent
<1>2. d.to = HostOf[i]
  <2>1. queue[i] \in Seq(Datagrams)
    BY DEF NTypes
  <2>2. 1 \in 1 .. Len(queue[i]) /\ d = queue[i][1]
    BY <1>1, <2>1
  <2> QED BY <2>2 DEF TallyInv, Addressed
<1>3. Answered(d.text) => IsShot(d.text) /\ d.text # "<LOSE>"
  BY DEF Answered, IsShot
<1> HIDE DEF d
<1>4. ASSUME NEW h \in Homes
      PROVE  /\ IsFiniteSet(Copies(h)') /\ IsFiniteSet(Waiting(h)') /\ IsFiniteSet(Answering(h)')
             /\ Tally(h) \in Nat /\ Tally(h)' \in Nat /\ Tally(h)' <= Tally(h)
             /\ d.text = "<LOSE>" /\ h = HostOf[i] => Tally(h)' + 1 <= Tally(h)
  <2>1. IsFiniteSet(Copies(h)) /\ IsFiniteSet(Waiting(h)) /\ IsFiniteSet(Answering(h))
    BY DEF TallyInv, AllFinite
  <2>2. Copies(h)' = Copies(h)
    BY <1>1 DEF Copies, Counts
  <2>3. /\ IsFiniteSet(Waiting(h)')
        /\ Cardinality(Waiting(h)') <= Cardinality(Waiting(h))
        /\ Counts(d, h) => Cardinality(Waiting(h)') + 1 <= Cardinality(Waiting(h))
    BY <1>1, <2>1, WaitingRemoved DEF d
  <2>4. \A j \in Answering(h)' : j \in Answering(h) \/ (j = i /\ Answered(d.text) /\ HostOf[d.from] = h)
    BY <1>1 DEF Answering, PTypes
  <2>5. Answering(h)' \subseteq Answering(h) \cup {i}
    BY <2>4
  <2>6. /\ IsFiniteSet(Answering(h)')
        /\ Cardinality(Answering(h)') <= Cardinality(Answering(h) \cup {i})
    BY <2>1, <2>5, OneMore, FS_Subset
  <2>7. Cardinality(Answering(h) \cup {i}) <= Cardinality(Answering(h)) + 1
    BY <2>1, OneMore
  <2>8. ASSUME ~(Answered(d.text) /\ HostOf[d.from] = h)
        PROVE  Cardinality(Answering(h)') <= Cardinality(Answering(h))
    <3>1. Answering(h)' \subseteq Answering(h)
      BY <2>4, <2>8
    <3> QED BY <2>1, <3>1, FS_Subset
  <2>9. /\ Tally(h) \in Nat /\ Tally(h)' \in Nat
        /\ Tally(h) = Cardinality(Copies(h)) + Cardinality(Waiting(h)) + Cardinality(Answering(h))
        /\ Tally(h)' = Cardinality(Copies(h)) + Cardinality(Waiting(h)') + Cardinality(Answering(h)')
        /\ Cardinality(Copies(h)) \in Nat
        /\ Cardinality(Waiting(h)) \in Nat /\ Cardinality(Waiting(h)') \in Nat
        /\ Cardinality(Answering(h)) \in Nat /\ Cardinality(Answering(h)') \in Nat
    BY <2>1, <2>2, <2>3, <2>6, Weighed DEF TallyInv
  <2>10. Cardinality(Answering(h) \cup {i}) \in Nat
    BY <2>1, OneMore, FS_CardinalityType
  <2>11. CASE Answered(d.text) /\ HostOf[d.from] = h
    <3>1. Counts(d, h) /\ d.text # "<LOSE>"
      BY <1>3, <2>11 DEF Counts
    <3> QED BY <2>1, <2>2, <2>3, <2>6, <2>7, <2>9, <2>10, <3>1
  <2>12. CASE ~(Answered(d.text) /\ HostOf[d.from] = h)
    <3>1. d.text = "<LOSE>" /\ h = HostOf[i] => Counts(d, h)
      BY <1>2 DEF Counts
    <3> QED BY <2>1, <2>2, <2>3, <2>6, <2>8, <2>9, <2>12, <3>1
  <2> QED BY <2>11, <2>12
<1>5. AllFinite'
  BY <1>4 DEF AllFinite
<1>6. ASSUME NEW j \in Programs
      PROVE  (got[j] + Tally(HostOf[j]) <= dups + shots[HostOf[j]])'
  <2>1. /\ got[j] + Tally(HostOf[j]) <= dups + shots[HostOf[j]]
        /\ got[j] \in Nat /\ dups \in Nat /\ shots[HostOf[j]] \in Nat
        /\ Tally(HostOf[j])' <= Tally(HostOf[j])
        /\ d.text = "<LOSE>" /\ HostOf[j] = HostOf[i] =>
             Tally(HostOf[j])' + 1 <= Tally(HostOf[j])
        /\ Tally(HostOf[j]) \in Nat /\ Tally(HostOf[j])' \in Nat
    BY <1>4, Home, HistoryTypes DEF TallyInv, Tallied
  <2>2. got'[j] = got[j] \/ (j = i /\ d.text = "<LOSE>" /\ got'[j] = got[j] + 1)
    BY <1>1 DEF TallyInv, Counters
  <2>3. dups' = dups /\ shots' = shots
    BY <1>1
  <2>4. CASE got'[j] = got[j]
    BY <2>1, <2>3, <2>4
  <2>5. CASE j = i /\ d.text = "<LOSE>" /\ got'[j] = got[j] + 1
    BY <2>1, <2>3, <2>5
  <2> QED BY <2>2, <2>4, <2>5
<1> QED BY <1>5, <1>6 DEF Tallied

\* A datagram that arrives moves on or is gone; a lost one is gone, and a copy
\* is paid for by dups.
LEMMA NetTally ==
  ASSUME TallyInv, NTypes, Net
  PROVE  AllFinite' /\ Tallied'
<1>1. PICK d \in DOMAIN air : Arrive(d) \/ Lose(d) \/ Duplicate(d)
  BY DEF Net, BagToSet
<1>2. d \in Datagrams /\ UNCHANGED <<kid, client, got, shots>>
  BY <1>1 DEF NTypes, Arrive, Lose, Duplicate, parent, child, log
<1>3. ASSUME NEW h \in Homes
      PROVE  /\ IsFiniteSet(Copies(h)') /\ IsFiniteSet(Waiting(h)') /\ IsFiniteSet(Answering(h)')
             /\ Tally(h) \in Nat /\ Tally(h)' \in Nat
             /\ dups' \in Nat /\ Tally(h)' + dups <= Tally(h) + dups'
  <2>1. /\ IsFiniteSet(Copies(h)) /\ IsFiniteSet(Waiting(h)) /\ IsFiniteSet(Answering(h))
        /\ dups \in Nat
    BY HistoryTypes DEF TallyInv, AllFinite
  <2>2. Answering(h)' = Answering(h)
    BY <1>2 DEF Answering
  <2>3. Cardinality(Copies(h)) \in Nat /\ Cardinality(Waiting(h)) \in Nat
    BY <2>1, FS_CardinalityType
  <2>4. queue' = queue =>
          IsFiniteSet(Waiting(h)') /\ Cardinality(Waiting(h)') = Cardinality(Waiting(h))
    BY <2>1 DEF Waiting, Counts
  <2>5. SUFFICES /\ IsFiniteSet(Copies(h)') /\ IsFiniteSet(Waiting(h)') /\ dups' \in Nat
                 /\ Cardinality(Copies(h)') + Cardinality(Waiting(h)') + dups
                      <= Cardinality(Copies(h)) + Cardinality(Waiting(h)) + dups'
    <3>1. /\ Tally(h) \in Nat /\ Tally(h)' \in Nat
          /\ Tally(h) = Cardinality(Copies(h)) + Cardinality(Waiting(h)) + Cardinality(Answering(h))
          /\ Tally(h)' = Cardinality(Copies(h)') + Cardinality(Waiting(h)') + Cardinality(Answering(h))
          /\ Cardinality(Copies(h)) \in Nat /\ Cardinality(Copies(h)') \in Nat
          /\ Cardinality(Waiting(h)) \in Nat /\ Cardinality(Waiting(h)') \in Nat
          /\ Cardinality(Answering(h)) \in Nat
      BY <2>1, <2>2, <2>5, Weighed DEF TallyInv
    <3> QED BY <2>1, <2>2, <2>5, <3>1
  <2>6. CASE Arrive(d)
    <3>1. air' = BagRemove(air, d) /\ dups' = dups
      BY <2>6 DEF Arrive
    <3>2. /\ IsFiniteSet(Copies(h)')
          /\ Cardinality(Copies(h)') <= Cardinality(Copies(h))
          /\ Counts(d, h) => Cardinality(Copies(h)') + 1 <= Cardinality(Copies(h))
      BY <2>1, <3>1, CopyRemoved
    <3>3. Cardinality(Copies(h)') \in Nat
      BY <3>2, FS_CardinalityType
    <3>4. CASE queue' = queue
      BY <2>1, <2>3, <2>4, <3>1, <3>2, <3>3, <3>4
    <3>5. CASE \E i \in Programs : queue' = [queue EXCEPT ![i] = Append(@, d)]
      <4>1. /\ IsFiniteSet(Waiting(h)')
            /\ Cardinality(Waiting(h)') <= Cardinality(Waiting(h)) + 1
            /\ ~Counts(d, h) => Cardinality(Waiting(h)') <= Cardinality(Waiting(h))
        BY <1>2, <2>1, <3>5, WaitingAdded
      <4>2. Cardinality(Waiting(h)') \in Nat
        BY <4>1, FS_CardinalityType
      <4> QED BY <2>1, <2>3, <3>1, <3>2, <3>3, <4>1, <4>2
    <3> QED BY <2>6, <3>4, <3>5 DEF Arrive, Bound
  <2>7. CASE Lose(d)
    <3>1. air' = BagRemove(air, d) /\ dups' = dups /\ queue' = queue
      BY <2>7 DEF Lose
    <3>2. IsFiniteSet(Copies(h)') /\ Cardinality(Copies(h)') <= Cardinality(Copies(h))
      BY <2>1, <3>1, CopyRemoved
    <3>3. Cardinality(Copies(h)') \in Nat
      BY <3>2, FS_CardinalityType
    <3> QED BY <2>1, <2>3, <2>4, <3>1, <3>2, <3>3
  <2>8. CASE Duplicate(d)
    <3>1. air' = BagAdd(air, d) /\ dups' = dups + 1 /\ queue' = queue
      BY <2>8 DEF Duplicate
    <3>2. IsFiniteSet(Copies(h)') /\ Cardinality(Copies(h)') <= Cardinality(Copies(h)) + 1
      BY <1>2, <2>1, <3>1, CopyAdded
    <3>3. Cardinality(Copies(h)') \in Nat
      BY <3>2, FS_CardinalityType
    <3> QED BY <2>1, <2>3, <2>4, <3>1, <3>2, <3>3
  <2> QED BY <1>1, <2>6, <2>7, <2>8
<1>4. AllFinite'
  BY <1>3 DEF AllFinite
<1>5. ASSUME NEW j \in Programs
      PROVE  (got[j] + Tally(HostOf[j]) <= dups + shots[HostOf[j]])'
  <2>1. /\ got[j] + Tally(HostOf[j]) <= dups + shots[HostOf[j]]
        /\ got[j] \in Nat /\ dups \in Nat /\ shots[HostOf[j]] \in Nat /\ dups' \in Nat
        /\ Tally(HostOf[j])' + dups <= Tally(HostOf[j]) + dups'
        /\ Tally(HostOf[j]) \in Nat /\ Tally(HostOf[j])' \in Nat
    BY <1>3, Home, HistoryTypes DEF TallyInv, Tallied
  <2>2. got' = got /\ shots' = shots
    BY <1>2
  <2> QED BY <2>1, <2>2
<1> QED BY <1>4, <1>5 DEF Tallied

\* The rest of the invariant.
LEMMA RestStep ==
  ASSUME Inv, TallyInv, "<LOSE>" \notin Lines, NEW i \in Programs, Steps(i)
  PROVE  Counters' /\ Typed' /\ Addressed'
<1> USE DEF Go, parent, child, network, log
<1>1. PTypes /\ NTypes /\ Counters /\ Typed /\ Addressed
  BY TypeParts DEF Inv, TallyInv
<1>2. Counters'
  <2>1. UNCHANGED <<got, shots>> => Counters'
    BY <1>1 DEF Counters
  <2>2. CASE SendLine(i)
    <3>1. got' = got /\ shots' = [shots EXCEPT ![HostOf[i]] = IF IsShot(snd[i]) THEN @ + 1 ELSE @]
      BY <2>2 DEF SendLine
    <3>2. HostOf[i] \in Homes
      BY Home
    <3> QED BY <1>1, <3>1, <3>2 DEF Counters
  <2>3. CASE Receive(i)
    <3>1. shots' = shots /\ (got' = got \/ got' = [got EXCEPT ![i] = @ + 1])
      BY <1>1, <2>3 DEF Receive, Counters
    <3> QED BY <1>1, <3>1 DEF Counters
  <2>4. CASE ~SendLine(i) /\ ~Receive(i)
    <3>1. UNCHANGED <<got, shots>>
      BY <2>4 DEF Steps, Bind, BindFails, Hello, Fork, ReadEof, SendAgain, Leave, KidDies, KidEnds,
        Reply, Interrupt, ReadLine, SendFails, KidFails, ForkFails
    <3> QED BY <2>1, <3>1
  <2> QED BY <2>2, <2>3, <2>4
<1>3. Typed'
  <2>1. UNCHANGED <<snd>> /\ (pc'[i] = "again" => pc[i] = "again" \/ snd[i] = "<koniec>")
          /\ (\A j \in Programs \ {i} : pc'[j] = pc[j]) => Typed'
    BY <1>1 DEF Typed
  <2>2. CASE Hello(i)
    BY <1>1, <2>2 DEF Hello, Typed, PTypes
  <2>3. CASE ReadEof(i)
    <3>1. PICK t \in {snd[i]} \cup Lines : \E e \in Chop(t) : snd' = [snd EXCEPT ![i] = e]
      BY <2>3 DEF ReadEof
    <3>2. "<LOSE>" \notin Chop(t)
      BY DEF Chop
    <3>3. pc' = [pc EXCEPT ![i] = "typed"]
      BY <2>3 DEF ReadEof
    <3> QED BY <1>1, <3>1, <3>2, <3>3 DEF Typed, PTypes
  <2>4. CASE \E t \in Lines : ReadLine(i, t)
    BY <1>1, <2>4 DEF ReadLine, Typed, PTypes
  <2>5. CASE SendLine(i)
    BY <1>1, <2>1, <2>5 DEF SendLine, NextRound, AfterLast, PTypes
  <2>6. CASE ~Hello(i) /\ ~ReadEof(i) /\ ~(\E t \in Lines : ReadLine(i, t)) /\ ~SendLine(i)
    <3>1. /\ snd' = snd
          /\ pc' = pc \/ \E p \in {"bound", "failed", "ready", "leave", "done"} :
                           pc' = [pc EXCEPT ![i] = p]
      BY <2>6 DEF Steps, Bind, BindFails, Fork, NextRound, SendAgain, Leave, KidDies, KidEnds,
        Receive, Reply, Interrupt, SendFails, KidFails, ForkFails
    <3> QED BY <1>1, <2>1, <3>1 DEF PTypes
  <2> QED BY <2>2, <2>3, <2>4, <2>5, <2>6
<1>4. Addressed'
  <2>1. CASE \A j \in Programs : queue'[j] = queue[j] \/ queue'[j] = << >>
    BY <1>1, <2>1 DEF Addressed
  <2>2. CASE Receive(i)
    <3>1. queue' = [queue EXCEPT ![i] = Tail(@)] /\ queue[i] # << >> /\ queue[i] \in Seq(Datagrams)
      BY <1>1, <2>2 DEF Receive, NTypes
    <3>2. \A n \in 1 .. Len(Tail(queue[i])) :
            Tail(queue[i])[n] = queue[i][n + 1] /\ n + 1 \in 1 .. Len(queue[i])
      BY <3>1, Tails
    <3>3. \A j \in Programs : queue'[j] = IF j = i THEN Tail(queue[i]) ELSE queue[j]
      BY <1>1, <3>1 DEF NTypes
    <3>4. ASSUME NEW j \in Programs, NEW n \in 1 .. Len(queue'[j])
          PROVE  queue'[j][n].to = HostOf[j]
      <4>1. CASE j = i
        <5>1. queue'[j] = Tail(queue[i])
          BY <3>3, <4>1
        <5>2. queue'[j][n] = queue[i][n + 1] /\ n + 1 \in 1 .. Len(queue[i])
          BY <3>2, <3>4, <5>1
        <5>3. queue[i][n + 1].to = HostOf[i]
          BY <1>1, <5>2 DEF Addressed
        <5> QED BY <4>1, <5>2, <5>3
      <4>2. CASE j # i
        BY <1>1, <3>3, <3>4, <4>2 DEF Addressed
      <4> QED BY <4>1, <4>2
    <3> QED BY <3>4 DEF Addressed
  <2>3. CASE ~Receive(i)
    <3>1. queue' = queue \/ queue' = [queue EXCEPT ![i] = << >>]
      BY <2>3 DEF Steps, Bind, BindFails, Hello, Fork, ReadEof, SendLine, SendTo, NextRound,
        SendAgain, Leave, Closes, KidDies, KidEnds, Reply, Interrupt, ReadLine, SendFails, KidFails,
        ForkFails
    <3> QED BY <1>1, <2>1, <3>1 DEF NTypes
  <2> QED BY <2>2, <2>3
<1> QED BY <1>2, <1>3, <1>4

LEMMA ProgramTally ==
  ASSUME Inv, TallyInv, "<LOSE>" \notin Lines, NEW i \in Programs, Steps(i)
  PROVE  AllFinite' /\ Tallied'
<1> USE DEF Go, parent, child, network, log
<1>1. PTypes /\ NTypes /\ Typed
  BY TypeParts DEF Inv, TallyInv
<1>2. PartnerOf[i] \in Hosts /\ {"START", "<koniec>"} \subseteq Text
  BY DEF Hosts, Text
<1>3. CASE Hello(i)
  <2>1. SendTo(i, PartnerOf[i], "START") /\ UNCHANGED <<kid, client, got, shots>>
    BY <1>3 DEF Hello
  <2>2. shots = [shots EXCEPT ![HostOf[i]] = IF IsShot("START") THEN @ + 1 ELSE @]
    BY DEF TallyInv, Counters, IsShot
  <2> QED BY <1>1, <1>2, <2>1, <2>2, SendTally
<1>4. CASE SendLine(i)
  <2>1. /\ SendTo(i, PartnerOf[i], snd[i]) /\ UNCHANGED <<kid, client, got>>
        /\ shots' = [shots EXCEPT ![HostOf[i]] = IF IsShot(snd[i]) THEN @ + 1 ELSE @]
    BY <1>4 DEF SendLine
  <2>2. snd[i] \in Text /\ snd[i] # "<LOSE>"
    BY <1>1 DEF PTypes, Typed
  <2> QED BY <1>1, <1>2, <2>1, <2>2, SendTally
<1>5. CASE SendAgain(i)
  <2>1. snd[i] = "<koniec>"
    BY <1>1, <1>5 DEF SendAgain, Typed
  <2>2. SendTo(i, PartnerOf[i], "<koniec>") /\ UNCHANGED <<kid, client, got, shots>>
    BY <1>5, <2>1 DEF SendAgain
  <2>3. shots = [shots EXCEPT ![HostOf[i]] = IF IsShot("<koniec>") THEN @ + 1 ELSE @]
    BY DEF TallyInv, Counters, IsShot
  <2> QED BY <1>1, <1>2, <2>2, <2>3, SendTally
<1>6. CASE Receive(i)
  BY <1>1, <1>6, ReceiveTally
<1>7. CASE Reply(i)
  BY <1>1, <1>7, ReplyTally
<1>8. CASE ~Hello(i) /\ ~SendLine(i) /\ ~SendAgain(i) /\ ~Receive(i) /\ ~Reply(i)
  <2>1. UNCHANGED <<air, got, shots, dups, client>>
    BY <1>8, GameAssumption DEF Steps, Bind, BindFails, Fork, NextRound, ReadEof, Leave, KidDies, KidEnds,
      Interrupt, ReadLine, SendFails, KidFails, ForkFails
  <2>2. queue' = queue \/ queue' = [queue EXCEPT ![i] = << >>]
    BY <1>8, GameAssumption DEF Steps, Bind, BindFails, Fork, NextRound, ReadEof, Leave, Closes,
      KidDies, KidEnds, Interrupt, ReadLine, SendFails, KidFails, ForkFails
  <2>3. kid' = kid \/ kid' = [kid EXCEPT ![i] = "recv"] \/ kid' = [kid EXCEPT ![i] = "ended"]
    BY <1>8, GameAssumption DEF Steps, Bind, BindFails, Fork, NextRound, ReadEof, Leave, KidDies, KidEnds,
      Interrupt, ReadLine, SendFails, KidFails, ForkFails
  <2>4. \A j \in Programs : queue'[j] = queue[j] \/ queue'[j] = << >>
    BY <1>1, <2>2 DEF NTypes
  <2>5. \A j \in Programs : kid'[j] = "answer" => kid[j] = "answer" /\ client'[j] = client[j]
    BY <1>1, <2>1, <2>3 DEF PTypes
  <2> QED BY <1>1, <2>1, <2>4, <2>5, CalmTally
<1> QED BY <1>3, <1>4, <1>5, <1>6, <1>7, <1>8

LEMMA InitTally == ASSUME Init PROVE TallyInv
<1>1. \A h \in Homes : Copies(h) = {} /\ Waiting(h) = {} /\ Answering(h) = {}
  <2>1. air = EmptyBag /\ queue = [i \in Programs |-> << >>] /\ kid = [i \in Programs |-> "none"]
    BY DEF Init
  <2>2. DOMAIN air = {}
    BY <2>1, NoElements
  <2>3. \A p \in Programs \X Nat : 1 .. Len(queue[p[1]]) = {}
    BY <2>1
  <2> QED BY <2>1, <2>2, <2>3 DEF Copies, Waiting, Answering
<1>2. IsFiniteSet({}) /\ Cardinality({}) = 0
  BY FS_EmptySet
<1>3. AllFinite
  BY <1>1, <1>2 DEF AllFinite
<1>4. ASSUME NEW h \in Homes PROVE Tally(h) = 0
  <2>1. Cardinality(Copies(h)) = 0 /\ Cardinality(Waiting(h)) = 0 /\ Cardinality(Answering(h)) = 0
    BY <1>1, <1>2
  <2> QED BY <2>1 DEF Tally
<1>5. Counters
  BY DEF Init, Counters, Homes
<1>6. Addressed /\ Typed
  <2>1. \A i \in Programs : queue[i] = << >> /\ snd[i] = "" /\ pc[i] = "start"
    BY DEF Init
  <2>2. 1 .. Len(<< >>) = {}
    OBVIOUS
  <2> QED BY <2>1, <2>2 DEF Addressed, Typed
<1>7. Tallied
  <2>1. \A i \in Programs : got[i] = 0 /\ shots[HostOf[i]] = 0 /\ dups = 0
    BY DEF Init
  <2> QED BY <1>4, <2>1, Home DEF Tallied
<1> QED BY <1>3, <1>5, <1>6, <1>7 DEF TallyInv

\* Nobody reads more answers than shots were sent from his host and copies made
\* by the network, over losses, overflows and any order, if users type no
\* answers themselves.
THEOREM ShotsAnsweredOnce ==
  ASSUME "<LOSE>" \notin Lines
  PROVE  Spec => []AnswersAccounted
<1>1. Init => TallyInv
  BY InitTally
<1>2. Inv /\ TallyInv /\ [Next]_vars => TallyInv'
  <2> SUFFICES ASSUME Inv, TallyInv, [Next]_vars PROVE TallyInv'
    OBVIOUS
  <2>1. NTypes
    BY TypeParts DEF Inv
  <2>2. ASSUME NEW i \in Programs, Steps(i) PROVE TallyInv'
    BY <2>2, RestStep, ProgramTally DEF TallyInv
  <2>3. CASE Net
    <3>1. PICK d \in DOMAIN air : Arrive(d) \/ Lose(d) \/ Duplicate(d)
      BY <2>3 DEF Net, BagToSet
    <3>2. UNCHANGED <<got, shots, snd, pc>>
      BY <3>1 DEF Arrive, Lose, Duplicate, parent, child, log
    <3>3. Counters' /\ Typed'
      BY <3>2 DEF TallyInv, Counters, Typed
    <3>4. Addressed'
      <4>1. CASE queue' = queue
        BY <4>1 DEF TallyInv, Addressed
      <4>2. ASSUME NEW i \in Programs, HostOf[i] = d.to,
                   queue' = [queue EXCEPT ![i] = Append(@, d)]
            PROVE  Addressed'
        <5>1. queue[i] \in Seq(Datagrams) /\ d \in Datagrams
          BY <2>1 DEF NTypes
        <5>2. \A j \in Programs : queue'[j] = IF j = i THEN Append(queue[i], d) ELSE queue[j]
          BY <2>1, <4>2 DEF NTypes
        <5>3. \A n \in 1 .. Len(Append(queue[i], d)) :
                \/ n \in 1 .. Len(queue[i]) /\ Append(queue[i], d)[n] = queue[i][n]
                \/ Append(queue[i], d)[n] = d
          BY <5>1
        <5> QED BY <4>2, <5>2, <5>3 DEF TallyInv, Addressed
      <4> QED BY <3>1, <4>1, <4>2 DEF Arrive, Bound, Lose, Duplicate
    <3>5. AllFinite' /\ Tallied'
      BY <2>1, <2>3, NetTally
    <3> QED BY <3>3, <3>4, <3>5 DEF TallyInv
  <2>4. CASE UNCHANGED vars
    <3>1. UNCHANGED <<air, queue, kid, client, got, shots, dups, snd, pc>>
      BY <2>4 DEF vars, parent, child, network, log
    <3>2. AllFinite' /\ Tallied'
      BY <2>1, <3>1, CalmTally
    <3> QED BY <3>1, <3>2 DEF TallyInv, Counters, Addressed, Typed
  <2> QED BY <2>2, <2>3, <2>4 DEF Next, Parent, Child, User, Faults, Steps
<1>3. TallyInv /\ Inv => AnswersAccounted
  <2> SUFFICES ASSUME TallyInv, Inv, NEW i \in Programs
               PROVE  got[i] <= dups + shots[HostOf[i]]
    BY DEF AnswersAccounted
  <2>1. NTypes
    BY TypeParts DEF Inv
  <2>2. got[i] + Tally(HostOf[i]) <= dups + shots[HostOf[i]] /\ Tally(HostOf[i]) \in Nat
    BY Home, SizeTypes DEF TallyInv, Tallied
  <2> QED BY <2>1, <2>2, HistoryTypes
<1> QED BY <1>1, <1>2, <1>3, InvHolds, PTL DEF Spec
=============================================================================
