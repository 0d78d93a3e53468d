------------------------------ MODULE SendRecv -----------------------------
(***************************************************************************)
(* One direction of a connection of the multiproxy, byte by byte: the two  *)
(* kernel sockets, the struct buff between them and the loop of SendRecv()  *)
(* that reads from one and sends to the other.  Each system call is one    *)
(* step, and the peers act between any two of them.                        *)
(*                                                                         *)
(* The rest of the main loop is seen through its effects on a direction:   *)
(* epoll_wait() may set the two ready flags, and serving the opposite      *)
(* direction may close the connection (CloseByOther).                      *)
(***************************************************************************)
EXTENDS Integers, Sequences

CONSTANTS
  Byte,     \* what the source may write
  NUL,      \* the content of memory nothing was read into yet
  MAXBUF,   \* size of buff.content
  RcvBuf,   \* capacity of the receive queue of the source's socket
  SndBuf,   \* capacity of the send queue of the destination's socket
  MaxSent   \* bound: bytes the source writes in a behaviour

ASSUME SizesAssumption ==
  /\ MAXBUF \in Nat \ {0}
  /\ RcvBuf \in Nat \ {0}
  /\ SndBuf \in Nat \ {0}
  /\ MaxSent \in Nat

VARIABLES
  pc,          \* "loop": in main(); "send", "read": in SendRecv(); "closed";
               \* "killed": the process died of SIGPIPE
  readReady,   \* ready[] of the descriptor read from
  writeReady,  \* ready[] of the descriptor sent to
  content, start, left,  \* struct buff
  inq,         \* unread bytes in the receive queue of `from'
  from,        \* "open", "fin" (the source finished) or "err"
  room,        \* free space in the send queue of `to'
  to,          \* "open"; "err": reset, send() fails; "pipe": reset after the
               \* destination's own FIN, send() raises SIGPIPE
  sent,        \* history: bytes written by the source
  delivered,   \* history: bytes accepted by send()
  status       \* history: how the direction ended, as in Channel

buffVars == <<content, start, left>>
readyVars == <<readReady, writeReady>>
sockVars == <<inq, from, room, to>>
history == <<sent, delivered, status>>
vars == <<pc, readyVars, buffVars, sockVars, history>>

Indices == 0 .. MAXBUF - 1

Alive == pc \in {"loop", "send", "read"}

\* The bytes read and not yet sent: content[start .. start+left-1].
Pending == [i \in 1 .. left |-> content[start + i - 1]]

AtMost(a, b) == IF a <= b THEN a ELSE b

Init ==
  /\ pc = "loop"
  /\ readReady = FALSE /\ writeReady = FALSE
  /\ content = [i \in Indices |-> NUL] /\ start = 0 /\ left = 0
  /\ inq = <<>> /\ from = "open"
  /\ room = SndBuf /\ to = "open"
  /\ sent = <<>> /\ delivered = <<>> /\ status = "open"

-----------------------------------------------------------------------------
(* The peers and the kernel. *)

PeerWrite ==
  /\ Alive /\ from = "open"
  /\ Len(inq) < RcvBuf /\ Len(sent) < MaxSent
  /\ \E b \in Byte : inq' = Append(inq, b) /\ sent' = Append(sent, b)
  /\ UNCHANGED <<pc, readyVars, buffVars, from, room, to, delivered, status>>

PeerFin ==
  /\ Alive /\ from = "open"
  /\ from' = "fin"
  /\ UNCHANGED <<pc, readyVars, buffVars, inq, room, to, history>>

\* After a FIN the end of the input stays readable, reset or not.
SourceReset ==
  /\ Alive /\ from = "open"
  /\ from' = "err"
  /\ UNCHANGED <<pc, readyVars, buffVars, inq, room, to, history>>

DestReset ==
  /\ Alive /\ to = "open"
  /\ to' \in {"err", "pipe"}
  /\ UNCHANGED <<pc, readyVars, buffVars, inq, from, room, history>>

\* The destination takes bytes out of the send queue.
DestDrain ==
  /\ Alive /\ to = "open"
  /\ \E r \in room + 1 .. SndBuf : room' = r
  /\ UNCHANGED <<pc, readyVars, buffVars, inq, from, to, history>>

-----------------------------------------------------------------------------
(* The main loop, as far as this direction can tell. *)

\* SetReady() on an EPOLLIN event: epoll_wait() polls the socket again, so
\* the event is reported only while read() has something to return.
EpollIn ==
  /\ pc = "loop"
  /\ inq # <<>> \/ from # "open"
  /\ readReady' = TRUE
  /\ UNCHANGED <<pc, writeReady, buffVars, sockVars, history>>

EpollOut ==
  /\ pc = "loop"
  /\ room > 0 \/ to # "open"
  /\ writeReady' = TRUE
  /\ UNCHANGED <<pc, readReady, buffVars, sockVars, history>>

Serve ==
  /\ pc = "loop" /\ readReady /\ writeReady
  /\ pc' = "send"
  /\ UNCHANGED <<readyVars, buffVars, sockVars, history>>

\* CloseConnection() zeroes the whole struct connection.
CloseConnection(how) ==
  /\ pc' = "closed"
  /\ readReady' = FALSE /\ writeReady' = FALSE
  /\ content' = [i \in Indices |-> NUL] /\ start' = 0 /\ left' = 0
  /\ status' = how
  /\ UNCHANGED <<sockVars, sent, delivered>>

CloseByOther == pc = "loop" /\ CloseConnection("cut")

-----------------------------------------------------------------------------
(* SendRecv(): flush what is left, then read, until one of them blocks. *)

NothingToSend ==
  /\ pc = "send" /\ left = 0
  /\ pc' = "read"
  /\ UNCHANGED <<readyVars, buffVars, sockVars, history>>

SendAll ==
  /\ pc = "send" /\ left # 0 /\ to = "open" /\ left <= room
  /\ pc' = "read"
  /\ start' = 0 /\ left' = 0
  /\ room' = room - left
  /\ delivered' = delivered \o Pending
  /\ UNCHANGED <<readyVars, content, inq, from, to, sent, status>>

\* Variants of SendPart and SendBlocks with a bug, for the sensitivity runs:
\* the start of the window is not advanced; its length is not reduced; both
\* flags are cleared; the leftover is dropped; the loop reads on regardless.
SendPartStartKept ==
  /\ pc = "send" /\ to = "open" /\ 0 < room /\ room < left
  /\ pc' = "loop"
  /\ writeReady' = FALSE
  /\ start' = start /\ left' = left - room
  /\ room' = 0
  /\ delivered' = delivered \o SubSeq(Pending, 1, room)
  /\ UNCHANGED <<readReady, content, inq, from, to, sent, status>>

SendPartLeftKept ==
  /\ pc = "send" /\ to = "open" /\ 0 < room /\ room < left
  /\ pc' = "loop"
  /\ writeReady' = FALSE
  /\ start' = start + room /\ left' = left
  /\ room' = 0
  /\ delivered' = delivered \o SubSeq(Pending, 1, room)
  /\ UNCHANGED <<readReady, content, inq, from, to, sent, status>>

SendPartClearsBoth ==
  /\ pc = "send" /\ to = "open" /\ 0 < room /\ room < left
  /\ pc' = "loop"
  /\ writeReady' = FALSE /\ readReady' = FALSE
  /\ start' = start + room /\ left' = left - room
  /\ room' = 0
  /\ delivered' = delivered \o SubSeq(Pending, 1, room)
  /\ UNCHANGED <<content, inq, from, to, sent, status>>

SendPart ==
  /\ pc = "send" /\ to = "open" /\ 0 < room /\ room < left
  /\ pc' = "loop"
  /\ writeReady' = FALSE
  /\ start' = start + room /\ left' = left - room
  /\ room' = 0
  /\ delivered' = delivered \o SubSeq(Pending, 1, room)
  /\ UNCHANGED <<readReady, content, inq, from, to, sent, status>>

SendBlocksReads ==
  /\ pc = "send" /\ left # 0 /\ to = "open" /\ room = 0
  /\ pc' = "read"
  /\ writeReady' = FALSE
  /\ UNCHANGED <<readReady, buffVars, sockVars, history>>

SendBlocks ==
  /\ pc = "send" /\ left # 0 /\ to = "open" /\ room = 0
  /\ pc' = "loop"
  /\ writeReady' = FALSE
  /\ UNCHANGED <<readReady, buffVars, sockVars, history>>

SendFails ==
  /\ pc = "send" /\ left # 0 /\ to = "err"
  /\ CloseConnection("cut")

\* SIGPIPE has its default action: no signal() and no MSG_NOSIGNAL.
SendKills ==
  /\ pc = "send" /\ left # 0 /\ to = "pipe"
  /\ pc' = "killed" /\ status' = "cut"
  /\ UNCHANGED <<readyVars, buffVars, sockVars, sent, delivered>>

\* read(from, content, MAXBUF) overwrites the first n bytes of content.
ReadSome ==
  /\ pc = "read" /\ inq # <<>>
  /\ LET n == AtMost(Len(inq), MAXBUF) IN
       /\ content' = [i \in Indices |-> IF i < n THEN inq[i + 1] ELSE content[i]]
       /\ start' = 0 /\ left' = n
       /\ inq' = SubSeq(inq, n + 1, Len(inq))
  /\ pc' = "send"
  /\ UNCHANGED <<readyVars, from, room, to, history>>

ReadEof ==
  /\ pc = "read" /\ inq = <<>> /\ from = "fin"
  /\ CloseConnection("complete")

ReadBlocks ==
  /\ pc = "read" /\ inq = <<>> /\ from = "open"
  /\ pc' = "loop"
  /\ readReady' = FALSE
  /\ UNCHANGED <<writeReady, buffVars, sockVars, history>>

ReadFails ==
  /\ pc = "read" /\ inq = <<>> /\ from = "err"
  /\ CloseConnection("cut")

Peers == PeerWrite \/ PeerFin \/ SourceReset \/ DestReset \/ DestDrain

Send == NothingToSend \/ SendAll \/ SendPart \/ SendBlocks \/ SendFails \/ SendKills
Read == ReadSome \/ ReadEof \/ ReadBlocks \/ ReadFails

Next == Peers \/ EpollIn \/ EpollOut \/ Serve \/ CloseByOther \/ Send \/ Read

Spec == Init /\ [][Next]_vars

-----------------------------------------------------------------------------
(* Properties. *)

\* The variables have the types of the code and the buffer window
\* content[start .. start+left-1] that send() is given stays inside content
\* (main.c:475, main.c:490-491).
TypeOK ==
  /\ pc \in {"loop", "send", "read", "closed", "killed"}
  /\ readReady \in BOOLEAN /\ writeReady \in BOOLEAN
  /\ content \in [Indices -> Byte \cup {NUL}]
  /\ start \in 0 .. MAXBUF /\ left \in 0 .. MAXBUF /\ start + left <= MAXBUF
  /\ inq \in Seq(Byte) /\ Len(inq) <= RcvBuf
  /\ from \in {"open", "fin", "err"}
  /\ room \in 0 .. SndBuf
  /\ to \in {"open", "err", "pipe"}
  /\ sent \in Seq(Byte) /\ delivered \in Seq(Byte)
  /\ status \in {"open", "complete", "cut"}

\* No byte is lost, duplicated or reordered between read() and send(): while
\* the connection lives, what the source wrote is what was handed over,
\* followed by the unsent window of the buffer, followed by the bytes still
\* in the kernel (main.c:470-515, over partial sends and reuse of content).
Conservation == Alive => sent = delivered \o Pending \o inq

\* The destination only ever sees a prefix of what the source wrote, also
\* after the connection was torn down with bytes still buffered.
InOrder ==
  /\ Len(delivered) <= Len(sent)
  /\ delivered = SubSeq(sent, 1, Len(delivered))

\* A connection closed because its source finished (read() = 0, main.c:500)
\* has handed over every byte of that source.
EofIsComplete == status = "complete" => delivered = sent

\* Bytes left over by a short send never wait for new input: while they are
\* pending the read side is still flagged ready, so the next EPOLLOUT alone
\* makes main() serve the direction again (main.c:169, main.c:489).
ResidueNeedsNoInput == pc = "loop" /\ left > 0 => readReady

\* The direction implements the abstract channel of module Channel: peers see
\* an ordered reliable stream, whatever the calls of main.c:470-515 return.
Chan == INSTANCE Channel
ChannelSpec == Chan!Spec
=============================================================================
