--------------------------- MODULE SendRecvProofs ---------------------------
(***************************************************************************)
(* Proofs about SendRecv, for every buffer size, queue size and input.     *)
(***************************************************************************)
EXTENDS SendRecv, SequenceTheorems, TLAPS

\* The window handed to send() was filled by read().
WindowRead == \A i \in start .. start + left - 1 : content[i] \in Byte

\* What is known inside SendRecv(): it was entered with the read side ready,
\* and read() is only reached once nothing is left to send.
Serving ==
  /\ pc \in {"send", "read"} => readReady
  /\ pc = "read" => left = 0
  /\ status = "open" <=> Alive
  /\ status = "complete" => pc = "closed"

Inv ==
  /\ TypeOK
  /\ WindowRead
  /\ Serving
  /\ Conservation
  /\ InOrder
  /\ EofIsComplete
  /\ ResidueNeedsNoInput

-----------------------------------------------------------------------------
(* Lemmas on sequences. *)

\* The first part of a concatenation is a prefix of it.
LEMMA PrefixOfConcat ==
  ASSUME NEW S, NEW s \in Seq(S), NEW t \in Seq(S)
  PROVE  /\ Len(s) <= Len(s \o t)
         /\ s = SubSeq(s \o t, 1, Len(s))
<1> DEFINE st == s \o t
           p == SubSeq(st, 1, Len(s))
<1>1. /\ st \in Seq(S) /\ Len(st) = Len(s) + Len(t)
      /\ Len(s) \in Nat /\ Len(t) \in Nat
      /\ \A i \in 1 .. Len(s) : st[i] = s[i]
  BY ConcatProperties, LenProperties
<1>2. \A i \in 1 .. Len(s) : st[i] \in S
  BY <1>1, ElementOfSeq
<1>3. /\ p \in Seq(S) /\ Len(p) = Len(s)
      /\ \A i \in 1 .. Len(s) : p[i] = st[i]
  <2> HIDE DEF st
  <2>1. \A i \in 1 .. Len(s) : p[i] = st[1 + i - 1]
    BY <1>1, <1>2, SubSeqProperties
  <2>2. p \in Seq(S) /\ Len(p) = Len(s)
    BY <1>1, <1>2, SubSeqProperties
  <2> QED BY <1>1, <2>1, <2>2
<1>4. s = p
  <2> HIDE DEF p, st
  <2> QED BY <1>1, <1>3, SeqEqual
<1> QED BY <1>1, <1>4

\* A sequence is its first n elements followed by the others.
LEMMA SplitSeq ==
  ASSUME NEW S, NEW s \in Seq(S), NEW n \in 0 .. Len(s)
  PROVE  /\ SubSeq(s, 1, n) \in Seq(S)
         /\ SubSeq(s, n + 1, Len(s)) \in Seq(S)
         /\ Len(SubSeq(s, 1, n)) = n
         /\ Len(SubSeq(s, n + 1, Len(s))) = Len(s) - n
         /\ s = SubSeq(s, 1, n) \o SubSeq(s, n + 1, Len(s))
<1>1. Len(s) \in Nat /\ \A i \in 1 .. Len(s) : s[i] \in S
  BY LenProperties, ElementOfSeq
<1>2. SubSeq(s, 1, n) \in Seq(S) /\ Len(SubSeq(s, 1, n)) = n
  BY <1>1, SubSeqProperties
<1>3. /\ SubSeq(s, n + 1, Len(s)) \in Seq(S)
      /\ Len(SubSeq(s, n + 1, Len(s))) = Len(s) - n
  BY <1>1, SubSeqProperties
<1>4. SubSeq(s, 1, n) \o SubSeq(s, n + 1, Len(s)) = SubSeq(s, 1, Len(s))
  <2>1. 1 \in 1 .. Len(s) + 1 /\ n \in 1 - 1 .. Len(s) /\ Len(s) \in n .. Len(s)
    BY <1>1
  <2> QED BY <2>1, ConcatAdjacentSubSeq
<1>5. SubSeq(s, 1, Len(s)) = s
  BY SubSeqFull
<1> QED BY <1>2, <1>3, <1>4, <1>5

\* Concatenation of byte sequences is associative.
LEMMA BytesAssoc ==
  \A s, t, u \in Seq(Byte) : (s \o t) \o u = s \o (t \o u)
BY ConcatAssociative

-----------------------------------------------------------------------------
(* Lemmas on the buffer. *)

\* The unsent bytes are a sequence of bytes of the recorded length.
LEMMA PendingType ==
  ASSUME TypeOK, WindowRead
  PROVE  /\ Pending \in Seq(Byte)
         /\ Len(Pending) = left
         /\ left \in Nat
<1>1. left \in Nat /\ start \in Nat
  BY SizesAssumption DEF TypeOK
<1>2. \A i \in 1 .. left : content[start + i - 1] \in Byte
  BY <1>1 DEF WindowRead
<1>3. Pending \in [1 .. left -> Byte]
  BY <1>2 DEF Pending
<1> QED BY <1>1, <1>3 

\* An empty window is the empty sequence.
LEMMA PendingEmpty ==
  ASSUME left = 0
  PROVE  Pending = <<>>
BY DEF Pending

\* Advancing the window by n drops the first n unsent bytes.
LEMMA PendingAdvance ==
  ASSUME TypeOK, WindowRead, NEW n \in 1 .. left - 1,
         start' = start + n, left' = left - n, content' = content
  PROVE  /\ WindowRead'
         /\ Pending' = SubSeq(Pending, n + 1, Len(Pending))
         /\ Pending' \in Seq(Byte)
<1>1. left \in Nat /\ start \in Nat /\ Len(Pending) = left
      /\ Pending \in Seq(Byte)
  BY PendingType, SizesAssumption DEF TypeOK
<1>2. WindowRead'
  BY <1>1 DEF WindowRead
<1>3. /\ Pending' \in Seq(Byte)
      /\ Len(Pending') = left - n
      /\ \A i \in 1 .. left - n : Pending'[i] = content[start + n + i - 1]
  <2>1. Pending' = [i \in 1 .. left - n |-> content[start + n + i - 1]]
    BY DEF Pending
  <2>2. \A i \in 1 .. left - n : content[start + n + i - 1] \in Byte
    BY <1>1 DEF WindowRead
  <2> QED BY <1>1, <2>1, <2>2
<1>4. /\ SubSeq(Pending, n + 1, Len(Pending)) \in Seq(Byte)
      /\ Len(SubSeq(Pending, n + 1, Len(Pending))) = left - n
      /\ \A i \in 1 .. left - n :
           SubSeq(Pending, n + 1, Len(Pending))[i] = Pending[n + i]
  <2>1. \A i \in n + 1 .. left : Pending[i] \in Byte
    BY <1>1, ElementOfSeq
  <2> QED BY <1>1, <2>1, SubSeqProperties
<1>5. \A i \in 1 .. left - n : Pending[n + i] = content[start + n + i - 1]
  BY <1>1 DEF Pending
<1>6. Pending' = SubSeq(Pending, n + 1, Len(Pending))
  <2> DEFINE rest == SubSeq(Pending, n + 1, Len(Pending))
             next == Pending'
  <2>1. /\ next \in Seq(Byte) /\ rest \in Seq(Byte)
        /\ Len(next) = Len(rest)
        /\ \A i \in 1 .. Len(next) : next[i] = rest[i]
    BY <1>1, <1>3, <1>4, <1>5
  <2> HIDE DEF rest, next
  <2>2. next = rest
    BY <2>1, SeqEqual
  <2> QED BY <2>2 DEF rest, next
<1> QED BY <1>2, <1>3, <1>6

\* read() makes the first bytes of the receive queue the window.
LEMMA PendingFilled ==
  ASSUME TypeOK, NEW n \in 1 .. MAXBUF, n <= Len(inq),
         content' = [i \in Indices |-> IF i < n THEN inq[i + 1] ELSE content[i]],
         start' = 0, left' = n
  PROVE  /\ content' \in [Indices -> Byte \cup {NUL}]
         /\ WindowRead'
         /\ Pending' = SubSeq(inq, 1, n)
<1>1. /\ inq \in Seq(Byte) /\ Len(inq) \in Nat /\ MAXBUF \in Nat
      /\ \A i \in 1 .. Len(inq) : inq[i] \in Byte
  BY LenProperties, ElementOfSeq, SizesAssumption DEF TypeOK
<1>2. content' \in [Indices -> Byte \cup {NUL}]
  BY <1>1 DEF TypeOK, Indices
<1>3. \A i \in 0 .. n - 1 : content'[i] = inq[i + 1] /\ inq[i + 1] \in Byte
  BY <1>1 DEF Indices
<1>4. WindowRead'
  BY <1>3 DEF WindowRead
<1>5. Pending' = [i \in 1 .. n |-> inq[i]]
  <2>1. Pending' = [i \in 1 .. n |-> content'[0 + i - 1]]
    BY DEF Pending
  <2>2. \A i \in 1 .. n : content'[0 + i - 1] = inq[i]
    BY <1>1, <1>3
  <2> QED BY <2>1, <2>2
<1>6. Pending' = SubSeq(inq, 1, n)
  <2> DEFINE head == SubSeq(inq, 1, n)
             next == Pending'
  <2>1. /\ next \in Seq(Byte) /\ Len(next) = n
        /\ \A i \in 1 .. n : next[i] = inq[i]
    BY <1>1, <1>5
  <2>2. head \in Seq(Byte) /\ Len(head) = n /\ \A i \in 1 .. n : head[i] = inq[i]
    <3>1. /\ 1 \in Int /\ n \in Int
          /\ \A i \in 1 .. n : inq[i] \in Byte
      BY <1>1
    <3>2. /\ head \in Seq(Byte) /\ Len(head) = IF 1 <= n THEN n - 1 + 1 ELSE 0
          /\ \A i \in 1 .. n - 1 + 1 : head[i] = inq[1 + i - 1]
      BY <3>1, SubSeqProperties
    <3> HIDE DEF head
    <3> QED BY <3>1, <3>2
  <2> HIDE DEF head, next
  <2>3. next = head
    BY <2>1, <2>2, SeqEqual
  <2> QED BY <2>3 DEF head, next
<1> QED BY <1>2, <1>4, <1>6

-----------------------------------------------------------------------------
(* The invariant is inductive. *)

LEMMA InitInv == Init => Inv
<1> SUFFICES ASSUME Init PROVE Inv
  OBVIOUS
<1>1. TypeOK
  <2>1. content \in [Indices -> Byte \cup {NUL}] /\ <<>> \in Seq(Byte) /\ Len(<<>>) = 0
    BY EmptySeq DEF Init
  <2>2. /\ start \in 0 .. MAXBUF /\ left \in 0 .. MAXBUF /\ start + left <= MAXBUF
        /\ room \in 0 .. SndBuf
    BY SizesAssumption DEF Init
  <2>3. inq = <<>> /\ sent = <<>> /\ delivered = <<>> /\ Len(inq) <= RcvBuf
    BY <2>1, SizesAssumption DEF Init
  <2> QED BY <2>1, <2>2, <2>3 DEF Init, TypeOK
<1>2. Pending = <<>>
  BY PendingEmpty DEF Init
<1>3. Conservation
  BY <1>2 DEF Init, Conservation
<1>4. WindowRead /\ Serving /\ InOrder /\ EofIsComplete /\ ResidueNeedsNoInput
  BY DEF Init, WindowRead, Serving, InOrder, EofIsComplete,
         ResidueNeedsNoInput, Alive
<1> QED BY <1>1, <1>3, <1>4 DEF Inv

\* A step that touches neither the buffer nor the histories keeps the window.
LEMMA PendingUnchanged == UNCHANGED buffVars => Pending' = Pending
BY DEF buffVars, Pending

\* Conservation is preserved by each step that moves bytes.
LEMMA ConservationStep ==
  ASSUME Inv, Next PROVE Conservation'
<1> USE DEF Inv
<1>t. /\ Pending \in Seq(Byte) /\ inq \in Seq(Byte) /\ delivered \in Seq(Byte)
      /\ sent \in Seq(Byte) /\ Len(Pending) = left /\ left \in Nat
      /\ delivered \o Pending \in Seq(Byte)
  BY PendingType, ConcatProperties DEF TypeOK
<1>d. delivered \in Seq(Byte)
  BY DEF TypeOK
<1>1. CASE PeerWrite
  <2>1. PICK b \in Byte : inq' = Append(inq, b) /\ sent' = Append(sent, b)
    BY <1>1 DEF PeerWrite
  <2>2. Pending' = Pending /\ delivered' = delivered
    BY <1>1, PendingUnchanged DEF PeerWrite, buffVars
  <2>3. sent = (delivered \o Pending) \o inq
    BY <1>1 DEF PeerWrite, Conservation
  <2>4. <<b>> \in Seq(Byte)
    OBVIOUS
  <2>5. sent' = sent \o <<b>> /\ inq' = inq \o <<b>>
    BY <1>t, <2>1, AppendIsConcat
  <2>6. ((delivered \o Pending) \o inq) \o <<b>> = (delivered \o Pending) \o (inq \o <<b>>)
    BY <1>t, <2>4, BytesAssoc, Zenon
  <2> QED BY <2>2, <2>3, <2>5, <2>6 DEF Conservation
<1>2. CASE SendAll
  <2>1. Pending' = <<>>
    BY <1>2, PendingEmpty DEF SendAll, Pending
  <2>2. sent' = delivered' \o inq'
    BY <1>2 DEF SendAll, Conservation, Alive
  <2>3. delivered' \o Pending' = delivered'
    BY <1>2, <1>t, <2>1, ConcatEmptySeq DEF SendAll
  <2> QED BY <2>2, <2>3 DEF Conservation
<1>3. CASE SendPart
  <2>1. room \in 1 .. left - 1
    BY <1>3, <1>t, SizesAssumption DEF SendPart, TypeOK
  <2> DEFINE head == SubSeq(Pending, 1, room)
             rest == SubSeq(Pending, room + 1, Len(Pending))
  <2>2. Pending' = rest
    BY <1>3, <2>1, PendingAdvance DEF SendPart
  <2>3. head \in Seq(Byte) /\ rest \in Seq(Byte) /\ Pending = head \o rest
    BY <1>t, <2>1, SplitSeq
  <2>4. delivered' = delivered \o head /\ sent' = sent /\ inq' = inq
    BY <1>3 DEF SendPart
  <2> HIDE DEF head, rest
  <2>5. (delivered \o head) \o rest = delivered \o Pending
    <3>1. (delivered \o head) \o rest = delivered \o (head \o rest)
      BY <1>d, <2>3, BytesAssoc
    <3> QED BY <2>3, <3>1
  <2>6. sent = (delivered \o Pending) \o inq
    BY <1>3 DEF SendPart, Conservation, Alive
  <2> QED BY <2>2, <2>4, <2>5, <2>6 DEF Conservation
<1>4. CASE ReadSome
  <2> DEFINE n == AtMost(Len(inq), MAXBUF)
  <2>1. /\ content' = [i \in Indices |-> IF i < n THEN inq[i + 1] ELSE content[i]]
        /\ start' = 0 /\ left' = n
        /\ inq' = SubSeq(inq, n + 1, Len(inq))
    BY <1>4 DEF ReadSome
  <2>2. n \in 1 .. MAXBUF /\ n <= Len(inq) /\ n \in 0 .. Len(inq)
    <3>1. inq # <<>> /\ Len(inq) \in Nat \ {0}
      BY <1>4, <1>t, EmptySeq DEF ReadSome
    <3> QED BY <3>1, SizesAssumption DEF AtMost
  <2> HIDE DEF n
  <2>3. Pending' = SubSeq(inq, 1, n)
    BY <2>1, <2>2, PendingFilled
  <2>4. Pending = <<>>
    BY <1>4, PendingEmpty DEF ReadSome, Serving
  <2>5. sent = delivered \o inq
    BY <1>4, <1>t, <2>4, ConcatEmptySeq DEF ReadSome, Conservation, Alive
  <2>6. /\ SubSeq(inq, 1, n) \in Seq(Byte) /\ SubSeq(inq, n + 1, Len(inq)) \in Seq(Byte)
        /\ inq = SubSeq(inq, 1, n) \o SubSeq(inq, n + 1, Len(inq))
    BY <1>t, <2>2, SplitSeq
  <2>7. inq = Pending' \o inq' /\ Pending' \in Seq(Byte) /\ inq' \in Seq(Byte)
    BY <2>1, <2>3, <2>6
  <2>8. delivered \o (Pending' \o inq') = (delivered \o Pending') \o inq'
    <3> DEFINE p == Pending'
               q == inq'
    <3>1. p \in Seq(Byte) /\ q \in Seq(Byte)
      BY <2>7
    <3> HIDE DEF p, q
    <3>2. delivered \o (p \o q) = (delivered \o p) \o q
      BY <1>d, <3>1, BytesAssoc
    <3> QED BY <3>2 DEF p, q
  <2> QED BY <1>4, <2>5, <2>7, <2>8 DEF ReadSome, history, Conservation
<1>5. CASE PeerFin \/ SourceReset \/ DestReset \/ DestDrain \/ EpollIn
             \/ EpollOut \/ Serve \/ NothingToSend \/ SendBlocks \/ ReadBlocks
  <2>1. Pending' = Pending
    BY <1>5, PendingUnchanged DEF PeerFin, SourceReset, DestReset, DestDrain,
      EpollIn, EpollOut, Serve, NothingToSend, SendBlocks, ReadBlocks, buffVars
  <2>2. Alive /\ UNCHANGED <<sent, delivered, inq>>
    BY <1>5 DEF PeerFin, SourceReset, DestReset, DestDrain, EpollIn, EpollOut,
      Serve, NothingToSend, SendBlocks, ReadBlocks, sockVars, history, Alive
  <2> QED BY <2>1, <2>2 DEF Conservation
<1>6. CASE CloseByOther \/ SendFails \/ SendKills \/ ReadEof \/ ReadFails
  <2>1. ~Alive'
    BY <1>6 DEF CloseByOther, SendFails, SendKills, ReadEof, ReadFails,
      CloseConnection, Alive
  <2> QED BY <2>1 DEF Conservation
<1> QED BY <1>1, <1>2, <1>3, <1>4, <1>5, <1>6 DEF Next, Peers, Send, Read

\* Every step keeps the types and the window filled.
LEMMA TypeStep ==
  ASSUME Inv, Next PROVE TypeOK' /\ WindowRead'
<1> USE SizesAssumption DEF Inv
<1>t. /\ Pending \in Seq(Byte) /\ Len(Pending) = left /\ left \in Nat
      /\ inq \in Seq(Byte) /\ Len(inq) \in Nat
  BY PendingType, LenProperties DEF TypeOK
<1>1. CASE PeerWrite
  <2>1. PICK b \in Byte : inq' = Append(inq, b) /\ sent' = Append(sent, b)
    BY <1>1 DEF PeerWrite
  <2>2. inq' \in Seq(Byte) /\ Len(inq') <= RcvBuf /\ sent' \in Seq(Byte)
    BY <1>1, <1>t, <2>1, AppendProperties DEF PeerWrite, TypeOK
  <2> QED
    BY <1>1, <2>2 DEF PeerWrite, TypeOK, WindowRead, readyVars, buffVars
<1>2. CASE SendAll
  <2>1. delivered' \in Seq(Byte)
    BY <1>2, <1>t, ConcatProperties DEF SendAll, TypeOK
  <2>2. room' \in 0 .. SndBuf
    BY <1>2, <1>t DEF SendAll, TypeOK
  <2> QED
    BY <1>2, <2>1, <2>2 DEF SendAll, TypeOK, WindowRead, readyVars
<1>3. CASE SendPart
  <2>1. room \in 1 .. left - 1
    BY <1>3, <1>t DEF SendPart, TypeOK
  <2>2. SubSeq(Pending, 1, room) \in Seq(Byte)
    BY <1>t, <2>1, SplitSeq
  <2>3. delivered' \in Seq(Byte)
    BY <1>3, <2>2, ConcatProperties DEF SendPart, TypeOK
  <2>4. WindowRead'
    BY <1>3, <2>1, PendingAdvance DEF SendPart
  <2>5. start' \in 0 .. MAXBUF /\ left' \in 0 .. MAXBUF /\ start' + left' <= MAXBUF
        /\ room' \in 0 .. SndBuf
    BY <1>3, <2>1 DEF SendPart, TypeOK
  <2> QED BY <1>3, <2>3, <2>4, <2>5 DEF SendPart, TypeOK
<1>4. CASE ReadSome
  <2> DEFINE n == AtMost(Len(inq), MAXBUF)
  <2>1. /\ content' = [i \in Indices |-> IF i < n THEN inq[i + 1] ELSE content[i]]
        /\ start' = 0 /\ left' = n
        /\ inq' = SubSeq(inq, n + 1, Len(inq))
    BY <1>4 DEF ReadSome
  <2>2. n \in 1 .. MAXBUF /\ n <= Len(inq) /\ n \in 0 .. Len(inq)
    <3>1. inq # <<>> /\ Len(inq) \in Nat \ {0}
      BY <1>4, <1>t, EmptySeq DEF ReadSome
    <3> QED BY <3>1 DEF AtMost
  <2> HIDE DEF n
  <2>3. content' \in [Indices -> Byte \cup {NUL}] /\ WindowRead'
    BY <2>1, <2>2, PendingFilled
  <2>4. inq' \in Seq(Byte) /\ Len(inq') = Len(inq) - n
    BY <1>t, <2>1, <2>2, SplitSeq
  <2>5. Len(inq') <= RcvBuf
    BY <1>t, <2>2, <2>4 DEF TypeOK
  <2>6. start' \in 0 .. MAXBUF /\ left' \in 0 .. MAXBUF /\ start' + left' <= MAXBUF
    BY <2>1, <2>2
  <2> QED
    BY <1>4, <2>3, <2>4, <2>5, <2>6 DEF ReadSome, TypeOK, readyVars, history
<1>5. CASE DestDrain
  <2>1. room' \in 0 .. SndBuf
    BY <1>5 DEF DestDrain, TypeOK
  <2> QED
    BY <1>5, <2>1 DEF DestDrain, TypeOK, WindowRead, readyVars, buffVars, history
<1>6. CASE PeerFin \/ SourceReset \/ DestReset \/ EpollIn
             \/ EpollOut \/ Serve \/ NothingToSend \/ SendBlocks \/ ReadBlocks
             \/ SendKills
  BY <1>6 DEF PeerFin, SourceReset, DestReset, EpollIn, EpollOut, Serve,
    NothingToSend, SendBlocks, ReadBlocks, SendKills, TypeOK, WindowRead,
    readyVars, buffVars, sockVars, history
<1>7. CASE \E how \in {"cut", "complete"} : CloseConnection(how)
  <2>1. content' = [i \in Indices |-> NUL]
    BY <1>7 DEF CloseConnection
  <2>2. content' \in [Indices -> Byte \cup {NUL}]
    BY <2>1
  <2>3. start' = 0 /\ left' = 0
    BY <1>7 DEF CloseConnection
  <2>4. WindowRead'
    BY <2>3 DEF WindowRead
  <2>5. start' \in 0 .. MAXBUF /\ left' \in 0 .. MAXBUF /\ start' + left' <= MAXBUF
    BY <2>3
  <2>6. /\ pc' = "closed" /\ readReady' = FALSE /\ writeReady' = FALSE
        /\ status' \in {"cut", "complete"}
        /\ UNCHANGED <<inq, from, room, to, sent, delivered>>
    BY <1>7 DEF CloseConnection, sockVars
  <2> QED
    BY <2>2, <2>4, <2>5, <2>6 DEF TypeOK
<1>8. CASE CloseByOther \/ SendFails \/ ReadEof \/ ReadFails
  BY <1>7, <1>8 DEF CloseByOther, SendFails, ReadEof, ReadFails
<1> QED
  BY <1>1, <1>2, <1>3, <1>4, <1>5, <1>6, <1>8 DEF Next, Peers, Send, Read

\* Every step keeps what is known inside SendRecv().
LEMMA ServingStep ==
  ASSUME Inv, Next PROVE Serving' /\ ResidueNeedsNoInput'
<1> USE DEF Inv, Serving, ResidueNeedsNoInput, Alive
<1>1. CASE PeerWrite \/ PeerFin \/ SourceReset \/ DestReset \/ DestDrain
  BY <1>1 DEF PeerWrite, PeerFin, SourceReset, DestReset, DestDrain,
    readyVars, buffVars, history
<1>2. CASE EpollIn \/ EpollOut \/ Serve
  BY <1>2 DEF EpollIn, EpollOut, Serve, readyVars, buffVars, history
<1>3. CASE CloseByOther \/ SendFails \/ SendKills \/ ReadEof \/ ReadFails
  BY <1>3 DEF CloseByOther, SendFails, SendKills, ReadEof, ReadFails,
    CloseConnection
<1>4. CASE NothingToSend \/ SendAll \/ SendPart \/ SendBlocks
  BY <1>4 DEF NothingToSend, SendAll, SendPart, SendBlocks, readyVars,
    buffVars, history
<1>5. CASE ReadSome \/ ReadBlocks
  BY <1>5 DEF ReadSome, ReadBlocks, readyVars, buffVars, history, TypeOK
<1> QED BY <1>1, <1>2, <1>3, <1>4, <1>5 DEF Next, Peers, Send, Read

\* Every step keeps the delivered bytes a prefix of the sent ones.
LEMMA InOrderStep ==
  ASSUME Inv, Next PROVE InOrder'
<1>1. TypeOK' /\ WindowRead' /\ Serving' /\ Conservation'
  BY TypeStep, ServingStep, ConservationStep
<1>2. CASE Alive'
  <2>1. Pending' \in Seq(Byte)
    <3>1. left' \in Nat /\ start' \in Nat
      BY <1>1, SizesAssumption DEF TypeOK
    <3>2. \A i \in 1 .. left' : content'[start' + i - 1] \in Byte
      <4>1. \A j \in start' .. start' + left' - 1 : content'[j] \in Byte
        BY <1>1 DEF WindowRead
      <4> DEFINE a == start'
                 l == left'
                 c == content'
      <4>2. a \in Nat /\ l \in Nat /\ \A j \in a .. a + l - 1 : c[j] \in Byte
        BY <3>1, <4>1
      <4> HIDE DEF a, l, c
      <4>3. \A i \in 1 .. l : c[a + i - 1] \in Byte
        BY <4>2
      <4> QED BY <4>3 DEF a, l, c
    <3>3. Pending' = [i \in 1 .. left' |-> content'[start' + i - 1]]
      BY DEF Pending
    <3> QED BY <3>1, <3>2, <3>3
  <2> DEFINE d == delivered'
             p == Pending'
             q == inq'
  <2>2. d \in Seq(Byte) /\ p \in Seq(Byte) /\ q \in Seq(Byte)
    BY <1>1, <2>1 DEF TypeOK
  <2>3. sent' = (d \o p) \o q
    BY <1>1, <1>2 DEF Conservation
  <2> HIDE DEF d, p, q
  <2>4. (d \o p) \o q = d \o (p \o q) /\ p \o q \in Seq(Byte)
    BY <2>2, ConcatAssociative, ConcatProperties
  <2>5. Len(d) <= Len(sent') /\ d = SubSeq(sent', 1, Len(d))
    BY <2>2, <2>3, <2>4, PrefixOfConcat
  <2> QED BY <2>5 DEF d, InOrder
<1>3. CASE ~Alive'
  <2>1. UNCHANGED <<sent, delivered>>
    BY <1>3 DEF Next, Peers, Send, Read, PeerWrite, PeerFin, SourceReset,
      DestReset, DestDrain, EpollIn, EpollOut, Serve, CloseByOther,
      CloseConnection, NothingToSend, SendAll, SendPart, SendBlocks, SendFails,
      SendKills, ReadSome, ReadEof, ReadBlocks, ReadFails, history, Alive
  <2> QED BY <2>1 DEF Inv, InOrder
<1> QED BY <1>2, <1>3

\* A connection is only closed as complete with nothing left anywhere.
LEMMA EofStep ==
  ASSUME Inv, Next PROVE EofIsComplete'
<1>1. CASE ReadEof
  <2>1. Pending = <<>> /\ inq = <<>> /\ delivered \in Seq(Byte)
    BY <1>1, PendingEmpty DEF ReadEof, Inv, Serving, TypeOK
  <2>2. sent = delivered \o <<>> \o <<>>
    BY <1>1, <2>1 DEF ReadEof, Inv, Conservation, Alive
  <2>3. sent = delivered
    BY <2>1, <2>2, ConcatEmptySeq
  <2> QED BY <1>1, <2>3 DEF ReadEof, CloseConnection, EofIsComplete
<1>2. CASE ~ReadEof
  <2>1. status' = "complete" => status = "complete" /\ ~Alive
    BY <1>2 DEF Next, Peers, Send, Read, PeerWrite, PeerFin, SourceReset,
      DestReset, DestDrain, EpollIn, EpollOut, Serve, CloseByOther,
      CloseConnection, NothingToSend, SendAll, SendPart, SendBlocks, SendFails,
      SendKills, ReadSome, ReadBlocks, ReadFails, history, Inv, Serving, Alive
  <2>2. Alive
    BY DEF Next, Peers, Send, Read, PeerWrite, PeerFin, SourceReset,
      DestReset, DestDrain, EpollIn, EpollOut, Serve, CloseByOther,
      NothingToSend, SendAll, SendPart, SendBlocks, SendFails,
      SendKills, ReadSome, ReadEof, ReadBlocks, ReadFails, Alive
  <2> QED BY <2>1, <2>2 DEF EofIsComplete
<1> QED BY <1>1, <1>2

\* The inductive step, stuttering included.
LEMMA NextInv == Inv /\ [Next]_vars => Inv'
<1> SUFFICES ASSUME Inv, [Next]_vars PROVE Inv'
  OBVIOUS
<1>1. CASE Next
  BY <1>1, TypeStep, ServingStep, ConservationStep, InOrderStep, EofStep DEF Inv
<1>2. CASE UNCHANGED vars
  <2>1. Pending' = Pending
    BY <1>2, PendingUnchanged DEF vars, buffVars
  <2>2. TypeOK' /\ WindowRead' /\ Serving'
    BY <1>2 DEF vars, readyVars, buffVars, sockVars, history, Inv, TypeOK,
      WindowRead, Serving, Alive
  <2>3. Conservation' /\ InOrder' /\ EofIsComplete' /\ ResidueNeedsNoInput'
    BY <1>2, <2>1 DEF vars, readyVars, buffVars, sockVars, history, Inv,
      Conservation, InOrder, EofIsComplete, ResidueNeedsNoInput, Alive
  <2> QED BY <2>2, <2>3 DEF Inv
<1> QED BY <1>1, <1>2

\* The inductive invariant holds in every reachable state.
THEOREM Invariant == Spec => []Inv
BY InitInv, NextInv, PTL DEF Spec

\* Types, and the window of content[] that is given to send() stays inside it.
THEOREM TypeCorrect == Spec => []TypeOK
<1>1. Inv => TypeOK
  BY DEF Inv
<1> QED BY <1>1, Invariant, PTL

\* While the connection lives no byte is lost, duplicated or reordered.
THEOREM BytesConserved == Spec => []Conservation
<1>1. Inv => Conservation
  BY DEF Inv
<1> QED BY <1>1, Invariant, PTL

\* The destination is always handed a prefix of what the source wrote.
THEOREM PrefixDelivered == Spec => []InOrder
<1>1. Inv => InOrder
  BY DEF Inv
<1> QED BY <1>1, Invariant, PTL

\* A connection closed by the end of the source's data delivered all of it.
THEOREM EofDelivered == Spec => []EofIsComplete
<1>1. Inv => EofIsComplete
  BY DEF Inv
<1> QED BY <1>1, Invariant, PTL

\* A leftover never waits for the source to write again.
THEOREM ResidueReady == Spec => []ResidueNeedsNoInput
<1>1. Inv => ResidueNeedsNoInput
  BY DEF Inv
<1> QED BY <1>1, Invariant, PTL

-----------------------------------------------------------------------------
(* The direction implements the abstract channel. *)

\* A successful send() hands over at least one more byte.
LEMMA SendProgress ==
  ASSUME Inv, SendAll \/ SendPart
  PROVE  Len(delivered') > Len(delivered)
<1> USE SizesAssumption DEF Inv
<1>1. /\ Pending \in Seq(Byte) /\ Len(Pending) = left /\ left \in Nat
      /\ delivered \in Seq(Byte) /\ Len(delivered) \in Nat
  BY PendingType, LenProperties DEF TypeOK
<1>2. CASE SendAll
  <2>1. delivered' = delivered \o Pending /\ left > 0
    BY <1>1, <1>2 DEF SendAll
  <2>2. Len(delivered \o Pending) = Len(delivered) + left
    BY <1>1, ConcatProperties
  <2> QED BY <1>1, <2>1, <2>2
<1>3. CASE SendPart
  <2>1. room \in 0 .. Len(Pending) /\ room > 0
    BY <1>1, <1>3 DEF SendPart, TypeOK
  <2>2. SubSeq(Pending, 1, room) \in Seq(Byte) /\ Len(SubSeq(Pending, 1, room)) = room
    BY <1>1, <2>1, SplitSeq
  <2>3. Len(delivered \o SubSeq(Pending, 1, room)) = Len(delivered) + room
    BY <1>1, <2>2, ConcatProperties
  <2> QED BY <1>1, <1>3, <2>1, <2>3 DEF SendPart
<1> QED BY <1>2, <1>3

\* Each step is a step of the channel or leaves the channel alone.
LEMMA ChannelStep ==
  ASSUME Inv, Inv', Next
  PROVE  [Chan!Next]_(Chan!vars)
<1> USE DEF Inv, Serving, Alive
<1>1. CASE PeerWrite
  <2>1. Chan!Put
    BY <1>1 DEF PeerWrite, Chan!Put
  <2> QED BY <2>1 DEF Chan!Next
<1>2. CASE SendAll \/ SendPart
  <2>1. status = "open" /\ UNCHANGED <<sent, status>>
    BY <1>2 DEF SendAll, SendPart
  <2>2. Len(delivered') > Len(delivered)
    BY <1>2, SendProgress
  <2>3. Len(delivered') <= Len(sent) /\ delivered' = SubSeq(sent, 1, Len(delivered'))
    BY <2>1 DEF InOrder
  <2>4. Len(delivered) \in Nat /\ Len(delivered') \in Nat /\ Len(sent) \in Nat
    BY LenProperties DEF TypeOK
  <2>5. Len(delivered') \in Len(delivered) + 1 .. Len(sent)
    BY <2>2, <2>3, <2>4
  <2>6. \E n \in Len(delivered) + 1 .. Len(sent) : delivered' = SubSeq(sent, 1, n)
    BY <2>3, <2>5, Zenon
  <2>7. Chan!Deliver
    BY <2>1, <2>6 DEF Chan!Deliver
  <2> QED BY <2>7 DEF Chan!Next
<1>3. CASE ReadEof
  <2>1. delivered = sent
    BY <1>3 DEF ReadEof, CloseConnection, EofIsComplete
  <2>2. Chan!Complete
    BY <1>3, <2>1 DEF ReadEof, CloseConnection, Chan!Complete
  <2> QED BY <2>2 DEF Chan!Next
<1>4. CASE CloseByOther \/ SendFails \/ SendKills \/ ReadFails
  <2>1. Chan!Cut
    BY <1>4 DEF CloseByOther, SendFails, SendKills, ReadFails, CloseConnection,
      Chan!Cut
  <2> QED BY <2>1 DEF Chan!Next
<1>5. CASE PeerFin \/ SourceReset \/ DestReset \/ DestDrain \/ EpollIn
             \/ EpollOut \/ Serve \/ NothingToSend \/ SendBlocks \/ ReadSome
             \/ ReadBlocks
  BY <1>5 DEF PeerFin, SourceReset, DestReset, DestDrain, EpollIn, EpollOut,
    Serve, NothingToSend, SendBlocks, ReadSome, ReadBlocks, sockVars, history,
    Chan!vars
<1> QED BY <1>1, <1>2, <1>3, <1>4, <1>5 DEF Next, Peers, Send, Read

\* The loop of SendRecv() between two sockets is the ordered, reliable stream
\* of module Channel: initial states map to initial states and every step of
\* the code to a step of the channel or to none.
THEOREM ImplementsChannel == Spec => ChannelSpec
<1>1. Init => Chan!Init
  BY DEF Init, Chan!Init
<1>2. Inv /\ Inv' /\ [Next]_vars => [Chan!Next]_(Chan!vars)
  <2>1. CASE Next
    BY <2>1, ChannelStep
  <2>2. CASE UNCHANGED vars
    BY <2>2 DEF vars, history, Chan!vars
  <2> QED BY <2>1, <2>2
<1> QED BY <1>1, <1>2, Invariant, PTL DEF Spec, ChannelSpec, Chan!Spec
=============================================================================
