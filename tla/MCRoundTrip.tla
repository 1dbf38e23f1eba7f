---------------------------- MODULE MCRoundTrip ----------------------------
(* Small instances of RoundTrip.                                           *)
EXTENDS RoundTrip

(* A checksum without collisions, as in MCPacket.                          *)
MCChecksum(d) == d
MCZero == <<>>
MCSums == {MCZero}

MCAddr == {"Ipv4", "Ipv6", "Tcp", "Udp", "Icmp4", "Other"}
MCData == {"x", "stale", "joined"}
MCRegular == {"x"}

New(kind, addr, opts, words) ==
    [kind |-> kind, addr |-> addr, data |-> "x", opts |-> opts, len |-> 0,
     words |-> words, sum |-> MCZero]

Raw(size) == New("Raw", "Other", size, 0)

(* Frames that protocol numbers describe: Tcp headers of 20, 23, 60 and 62 *)
(* bytes and one whose offset is 5 modulo 16 (84 bytes), Ipv4 options      *)
(* counted and not counted by ihl, an ihl too small to count any, with and *)
(* without options, an ihl that is 5 or 3 modulo 16 with and without the   *)
(* options it counts, payloads of zero and more bytes.                     *)
Ips == {New("Ipv4", "Tcp", 0, 5), New("Ipv4", "Tcp", 4, 6), New("Ipv4", "Tcp", 4, 5),
        New("Ipv4", "Tcp", 0, 3), New("Ipv4", "Tcp", 4, 3), New("Ipv6", "Tcp", 0, 0)}

(* Contents whose option lengths were not brought in line.                 *)
Stale(l) == [l EXCEPT !.data = "stale"]

Tails(proto) ==
    CASE proto = "Tcp" -> {<<New("Tcp", "Other", n, 5), Raw(size)>> :
                                n \in {0, 3, 40, 42, 64}, size \in {0, 5}}
                          \cup {<<New("Tcp", "Other", 3, 5)>>}
      [] proto = "Udp" -> {<<New("Udp", "Other", 0, 0)>>, <<New("Udp", "Other", 0, 0), Raw(5)>>}
      [] proto = "Icmp4" -> {<<New("Icmp4", "Other", 2, 0)>>, <<New("Icmp4", "Other", 0, 0), Raw(5)>>}
      [] proto = "Other" -> {<<>>, <<Raw(5)>>}

MCStacks ==
    {<<New("Ether", ip.kind, 0, 0), [ip EXCEPT !.addr = proto]>> \o tail :
        <<ip, proto, tail>> \in
            UNION {Ips \X {proto} \X Tails(proto) : proto \in {"Tcp", "Udp", "Icmp4", "Other"}}}
    \cup {<<New("Ether", "Other", 0, 0)>>, <<New("Ether", "Other", 0, 0), Raw(5)>>}
    \cup {<<New("Ether", "Ipv4", 0, 0), New("Ipv4", "Other", n, w), Raw(5)>> :
            n \in {0, 64}, w \in {19, 21}}
    \cup {<<New("Ether", "Ipv4", 0, 0), Stale(New("Ipv4", proto, 4, 6))>> \o tail :
            <<proto, tail>> \in {<<"Other", <<Raw(5)>>>>, <<"Udp", <<New("Udp", "Other", 0, 0)>>>>}}
    \cup {<<New("Ether", "Ipv4", 0, 0), New("Ipv4", "Tcp", 0, 5), Stale(New("Tcp", "Other", n, 5))>>
            \o tail : n \in {3, 10}, tail \in {<<>>, <<Raw(5)>>}}
    \cup {<<New("Ether", "Ipv4", 0, 0), New("Ipv4", "Icmp4", 0, 5), Stale(New("Icmp4", "Other", 2, 0))>>,
          <<New("Ether", "Other", 0, 0), Stale(Raw(5))>>}

(* Layers that contradict the protocol numbers around them.                *)
MCUser == {New("Ipv4", "Udp", 0, 5), Raw(5)}
=============================================================================
