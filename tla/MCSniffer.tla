----------------------------- MODULE MCSniffer ------------------------------
(* Frames and option sets for TLC. *)
EXTENDS Sniffer, TLC

\* A frame of n bytes; cells that are not given are 0.
Frame(n, type, given) ==
  [n |-> n, from |-> "eth0",
   bytes |-> [c \in Cells |-> CASE c = 12 -> type
                                [] c # 12 /\ c \in DOMAIN given -> given[c]
                                [] OTHER -> 0]]

\* ARP for Ethernet and IPv4, and for the addresses of InfiniBand.
Arps == {Frame(42, ETH_P_ARP, 18 :> 6 @@ 19 :> 4), Frame(70, ETH_P_ARP, 18 :> 20 @@ 19 :> 4)}

\* IPv4, with and without four bytes of options; datagrams of DHCP and others,
\* complete or cut to the tail of a fragment.
Ip4(n, ihl, frag, proto, sport, dport) ==
  Frame(n, ETH_P_IP,
    14 :> ihl @@ 20 :> frag @@ 23 :> proto @@
      (IF ihl = 5 THEN 34 :> sport @@ 36 :> dport ELSE 38 :> sport @@ 40 :> dport))

Ip4s ==
  {Ip4(n, 5, 0, proto, 53, 53) : n \in {34, 60, 74}, proto \in {1, 2, 6, 17}}
    \cup {Ip4(342, ihl, 0, 17, s, d) : ihl \in {5, 6}, s \in {53, 67, 68}, d \in {53, 67, 68}}
    \cup {Ip4(n, 5, 1, 17, s, 0) : n \in {35, 36, 60}, s \in {0, 67}}

Ip6s == {Frame(n, ETH_P_IPV6, 20 :> next) : n \in {54, 74}, next \in {6, 17, 58}}

McFrames == Arps \cup Ip4s \cup Ip6s \cup {Frame(60, 35020, <<>>)}
               \cup {[Frame(60, ETH_P_IP, 14 :> 5 @@ 23 :> 6) EXCEPT !.from = "eth1"]}

\* None, all, one or two of the options.
McOptions == {Sections} \cup {x \in SUBSET Sections : Cardinality(x) <= 2}
=============================================================================
