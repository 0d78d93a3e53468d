------------------------------ MODULE Sniffer -------------------------------
(***************************************************************************)
(* The sniffer: main() parses its arguments and then prints, frame by       *)
(* frame, the headers it finds in one buffer that is never cleared.  A      *)
(* header is found by adding the sizes of the ones before it, whatever      *)
(* length recv() returned.                                                  *)
(*                                                                         *)
(* Bytes that only get printed are left out; cells are the fields that      *)
(* decide what is printed, named by their offset in the frame.              *)
(***************************************************************************)
EXTENDS Integers, SequencesExt

CONSTANTS
  OptionSets,  \* sets of options the program is started with
  Frames,      \* frames that arrive
  Interfaces,  \* names of interfaces
  None

\* What the options select, and the sections of the output.
Sections == {"ARP", "DHCP", "ETH", "ICMP", "ICMP6", "IP4", "IP6", "TCP", "UDP"}

ETH_P_IP == 2048
ETH_P_ARP == 2054
ETH_P_IPV6 == 34525

ASSUME SnifferAssumption ==
  /\ OptionSets \subseteq SUBSET Sections
  /\ None \notin Interfaces

\* Cells of the buffer.  At 20 an IPv4 header has its fragment offset, an IPv6
\* header its next header; at 34 and 36 the ports begin that follow 20 bytes of
\* an IPv4 header, at 38 and 40 those after 24 bytes.
Cells == {12, 14, 18, 19, 20, 23, 34, 36, 38, 40}

\* A frame: its length, its cells and the interface it came by.
ASSUME FramesAssumption ==
  Frames \subseteq [n : Nat, bytes : [Cells -> Nat], from : Interfaces]

VARIABLES
  pc,      \* "args", "run", "exited" or "crashed"
  asked,   \* history: the sections asked for
  flags,   \* the g_ variables, as the sections they select
  name,    \* interface named by the arguments
  buffer,  \* its cells
  frame,   \* history: the frame received last
  shown    \* history: what was printed for it

vars == <<pc, asked, flags, name, buffer, frame, shown>>

Init ==
  /\ pc = "args" /\ asked = {} /\ flags = {} /\ name = None
  /\ buffer \in [Cells -> {0}]
  /\ frame = None /\ shown = <<>>

-----------------------------------------------------------------------------
(* main() up to the loop.  The program has the options in k words, moved to  *)
(* the front by getopt(), and other words, None for one that names no        *)
(* interface.                                                               *)

\* A variant with a bug: the argument count is off by one.
ParseArgsOff(argc, options) == IF argc = 3 THEN Sections ELSE options

ParseArgs(argc, options) == IF argc = 2 THEN Sections ELSE options

\* "No options - enable all."
Asked(options) == IF options = {} THEN Sections ELSE options

\* The ioctl() only reads the flags of the interface, and the socket is not
\* bound to it.
Start(options, k, words) ==
  /\ pc = "args" /\ words # <<>> /\ words[1] \in Interfaces
  /\ asked' = Asked(options)
  /\ flags' = ParseArgs(1 + k + Len(words), options)
  /\ pc' = "run" /\ name' = words[1]
  /\ UNCHANGED <<buffer, frame, shown>>

\* The usage is printed; an option alone is taken for a name; socket() or
\* ioctl() fails.
StartFails ==
  /\ pc = "args" /\ pc' = "exited"
  /\ UNCHANGED <<asked, flags, name, buffer, frame, shown>>

\* Two or more words, all of them options: argv[optind] is NULL.
StartCrashes(options, k) ==
  /\ pc = "args" /\ k >= 2
  /\ asked' = Asked(options)
  /\ flags' = ParseArgs(1 + k, options)
  /\ pc' = "crashed"
  /\ UNCHANGED <<name, buffer, frame, shown>>

-----------------------------------------------------------------------------
(* The output.  A line stands for the bytes it is made of: the line that      *)
(* opens a section for its header, that of an address for the address.       *)

Line(kind, what, first, size) ==
  [kind |-> kind, what |-> what, first |-> first, size |-> size]
Open(what, first, size) == Line("open", what, first, size)
Address(what, first, size) == Line("address", what, first, size)
End(what) == Line("close", what, 0, 0)

\* What a section carries is looked at whether its own flag is set or not.
Section(what, first, size, addresses, carried) ==
  IF what \in flags
  THEN <<Open(what, first, size)>> \o addresses \o carried \o <<End(what)>>
  ELSE carried

\* A variant with a bug: the length of the protocol address is left out once.
PacketARPShort(b, a) ==
  LET hln == b[18]  pln == b[19]  sha == a + 8 IN
    Section("ARP", a, 8,
      << Address("SHA", sha, hln), Address("SPA", sha + hln, pln),
         Address("THA", sha + hln, hln), Address("TPA", sha + hln + pln + hln, pln) >>,
      <<>>)

PacketARP(b, a) ==
  LET hln == b[18]  pln == b[19]  sha == a + 8 IN
    Section("ARP", a, 8,
      << Address("SHA", sha, hln), Address("SPA", sha + hln, pln),
         Address("THA", sha + hln + pln, hln), Address("TPA", sha + hln + pln + hln, pln) >>,
      <<>>)

\* g_dhcp is not tested.
PacketDHCP(b, a) ==
  << Open("DHCP", a, 28),
     Address("CIADDR", a + 12, 4), Address("YIADDR", a + 16, 4),
     Address("SIADDR", a + 20, 4), Address("GIADDR", a + 24, 4), End("DHCP") >>

PacketICMP(b, a) == Section("ICMP", a, 8, <<>>, <<>>)
PacketICMP6(b, a) == Section("ICMP6", a, 8, <<>>, <<>>)
PacketTCP(b, a) == Section("TCP", a, 20, <<>>, <<>>)

\* A variant with a bug: one port is enough.
PacketUPDAny(b, a) ==
  Section("UDP", a, 8, <<>>,
    IF {b[a], b[a + 2]} \cap {67, 68} # {} THEN PacketDHCP(b, a + 8) ELSE <<>>)

PacketUPD(b, a) ==
  Section("UDP", a, 8, <<>>,
    IF {b[a], b[a + 2]} \subseteq {67, 68} THEN PacketDHCP(b, a + 8) ELSE <<>>)

\* ip + 1: the header is taken to have 20 bytes, and to be of a first fragment.
PacketIP4(b, a) ==
  Section("IP4", a, 20, << Address("Src IP", a + 12, 4), Address("Dst IP", a + 16, 4) >>,
    CASE b[23] = 6 -> PacketTCP(b, a + 20)
      [] b[23] = 17 -> PacketUPD(b, a + 20)
      [] b[23] = 1 -> PacketICMP(b, a + 20)
      [] OTHER -> <<>>)

\* Both lines print ip6_src.
PacketIP6(b, a) ==
  Section("IP6", a, 40, << Address("Src IP", a + 8, 16), Address("Dst IP", a + 8, 16) >>,
    IF b[20] = 58 THEN PacketICMP6(b, a + 40) ELSE <<>>)

PacketETH(b, a) ==
  Section("ETH", a, 14, << Address("Src MAC", a + 6, 6), Address("Dst MAC", a, 6) >>,
    CASE b[12] = ETH_P_ARP -> PacketARP(b, a + 14)
      [] b[12] = ETH_P_IP -> PacketIP4(b, a + 14)
      [] b[12] = ETH_P_IPV6 -> PacketIP6(b, a + 14)
      [] OTHER -> <<>>)

-----------------------------------------------------------------------------
(* The loop: recv() overwrites as much of the buffer as the frame is long. *)

Received(f) == [c \in Cells |-> IF c < f.n THEN f.bytes[c] ELSE buffer[c]]

Recv(f) ==
  /\ pc = "run"
  /\ buffer' = Received(f)
  /\ shown' = PacketETH(buffer', 0)
  /\ frame' = f
  /\ UNCHANGED <<pc, asked, flags, name>>

RecvFails ==
  /\ pc = "run" /\ pc' = "exited"
  /\ UNCHANGED <<asked, flags, name, buffer, frame, shown>>

Next ==
  \/ \E options \in OptionSets : \E k \in 0 .. Cardinality(options) :
       /\ k = 0 <=> options = {}
       /\ \/ StartCrashes(options, k)
          \/ \E words \in BoundedSeq(Interfaces \cup {None}, 2) : Start(options, k, words)
  \/ StartFails \/ RecvFails
  \/ \E f \in Frames : Recv(f)

Spec == Init /\ [][Next]_vars

-----------------------------------------------------------------------------
(* What a frame holds, by the standards of its protocols. *)

\* Each of them is listed if it is one of the given ones.
Layer(given, what, first, size) ==
  IF what \in given THEN <<Open(what, first, size)>> ELSE <<>>

Transport(f, given) ==
  LET c == f.bytes  a == 14 + 4 * c[14] IN
    CASE c[20] # 0 -> <<>>  \* a later fragment
      [] c[20] = 0 /\ c[23] = 6 -> Layer(given, "TCP", a, 20)
      [] c[20] = 0 /\ c[23] = 1 -> Layer(given, "ICMP", a, 8)
      [] c[20] = 0 /\ c[23] = 17 ->
           Layer(given, "UDP", a, 8) \o
             IF {c[a], c[a + 2]} \subseteq {67, 68} THEN Layer(given, "DHCP", a + 8, 28) ELSE <<>>
      [] OTHER -> <<>>

Layers(f, given) ==
  LET c == f.bytes IN
  Layer(given, "ETH", 0, 14) \o
    CASE c[12] = ETH_P_ARP -> Layer(given, "ARP", 14, 8)
      [] c[12] = ETH_P_IP -> Layer(given, "IP4", 14, 20) \o Transport(f, given)
      [] c[12] = ETH_P_IPV6 ->
           Layer(given, "IP6", 14, 40) \o
             IF c[20] = 58 THEN Layer(given, "ICMP6", 54, 8) ELSE <<>>
      [] OTHER -> <<>>

Within(line, f) == line.first + line.size <= f.n

\* No header of the frame is cut off, and no address of an ARP message.
Complete(f) == \A x \in ToSet(Layers(f, Sections)) : Within(x, f)
Addressed(f) == f.bytes[12] = ETH_P_ARP => 22 + 2 * (f.bytes[18] + f.bytes[19]) <= f.n

\* Its IPv4 header has no options and is not of a later fragment.
Simple(f) == f.bytes[12] = ETH_P_IP => f.bytes[14] = 5 /\ f.bytes[20] = 0

Addresses == {x \in ToSet(shown) : x.kind = "address"}

\* It has no header of DHCP that was not asked for.
Heard(f) == "DHCP" \in asked \/ Layers(f, {"DHCP"}) = <<>>

\* A nest: the headers are opened one in the other, and closed.
Nest(w) == w \o [n \in 1 .. Len(w) |-> End(w[Len(w) + 1 - n].what)]

\* But for the addresses between them the lines s are those of t.
Frameworks(s, n) == {m \in 1 .. n : s[m].kind # "address"}
Reads(s, t) ==
  /\ Cardinality(Frameworks(s, Len(s))) = Len(t)
  /\ \A m \in Frameworks(s, Len(s)) : s[m] = t[Cardinality(Frameworks(s, m))]

-----------------------------------------------------------------------------
(* Properties. *)

Bytes == {0} \cup UNION {{f.bytes[c] : c \in Cells} : f \in Frames}

TypeOK ==
  /\ pc \in {"args", "run", "exited", "crashed"}
  /\ asked \subseteq Sections /\ flags \subseteq Sections
  /\ name \in Interfaces \cup {None} /\ (pc = "run" => name # None)
  /\ buffer \in [Cells -> Bytes]
  /\ frame \in Frames \cup {None}
  /\ \A x \in ToSet(shown) : x.first \in Nat /\ x.size \in Nat

\* The output for a frame is the nest of its own headers that were asked for,
\* each found where the protocols put it: nothing of the frames before it, none
\* missing, none doubled (PacketETH and what it calls).  This holds under four
\* conditions, and without each of them it is false: the frame is not cut
\* (NothingStale); it has no options of IPv4 and is no later fragment
\* (HeadersFound); it has no header of DHCP that was not asked for, since that is
\* printed all the same (OptionsObeyed); and the arguments enable something,
\* which two words without options do not (NoOptionsMeansAll).
OwnHeaders ==
  frame # None /\ flags # {} =>
    (Complete(frame) /\ Simple(frame) /\ Heard(frame) =>
      Reads(shown, Nest(Layers(frame, asked))))

\* Every address printed of a frame that is complete, as long as the addresses
\* it announces and without options of IPv4, is of its own bytes; and no two of
\* the addresses of an ARP message overlap, whatever lengths it gives them
\* (lines 103-115).
OwnAddresses ==
  frame # None =>
    (Complete(frame) /\ Simple(frame) =>
      /\ Addressed(frame) => \A x \in Addresses : Within(x, frame)
      /\ frame.bytes[12] = ETH_P_ARP =>
           \A x, y \in {z \in Addresses : z.what \in {"SHA", "SPA", "THA", "TPA"}} :
             x # y => x.first + x.size <= y.first \/ y.first + y.size <= x.first)

-----------------------------------------------------------------------------
(* Properties that this code does not have. *)

\* "No options - enable all." (line 75): false for two words.
NoOptionsMeansAll == pc = "run" /\ asked = Sections => flags = Sections

\* "-d - DHCP" (line 67) is an option like the others (line 74 ends the list):
\* false, PacketDHCP() does not test g_dhcp.
OptionsObeyed == \A x \in ToSet(shown) : x.kind = "open" => x.what \in asked

\* The same nest for every complete frame: false for the options of an IPv4
\* header (ip + 1, line 199) and for later fragments.
HeadersFound ==
  frame # None /\ flags # {} =>
    (Complete(frame) /\ Heard(frame) =>
      SelectSeq(shown, LAMBDA x : x.kind = "open") = Layers(frame, asked))

\* What is printed was received with the frame: false for frames shorter than
\* the headers they are taken to have, whose rest is of the frames before.
NothingStale == frame # None => \A x \in ToSet(shown) : Within(x, frame)

\* The line "Dst IP" of an IPv6 header is made of its destination (line 224).
DstIsDst ==
  \A x \in Addresses : x.what = "Dst IP" /\ x.size = 16 => x.first = 14 + 24

\* "%s [INTERFACE] [OPTIONS]" (line 64): the frames are those of the interface.
OwnInterface == frame # None => frame.from = name
=============================================================================
