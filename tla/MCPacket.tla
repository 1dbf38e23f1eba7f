------------------------------ MODULE MCPacket ------------------------------
(* Small instances of Packet.                                              *)
EXTENDS Packet

(* A checksum without collisions: its value is what it covers, so that two *)
(* checksums agree only when they were computed from the same bytes.       *)
MCChecksum(d) == d

MCZero == <<>>

MCAddr == {"a", "b"}
MCData == {"x"}

(* The checksum values a stack of at most Depth nested checksums can hold. *)
Piece(sums) ==
    [kind : Kinds, addr : MCAddr, data : MCData, opts : Nat,
     len : U16, words : U8, sum : sums]
    \cup [kind : {"Ipv4", "Ipv6"}, addr : MCAddr, size : Nat]

MCSums ==
    LET depth1 == Seq(Piece({MCZero}))
        depth2 == Seq(Piece(depth1))
        depth3 == Seq(Piece(depth2))
    IN  Seq(Piece(depth3))

(* A layer as its Default builds it, but for addr and the variable part.   *)
New(kind, addr, opts) ==
    [kind |-> kind, addr |-> addr, data |-> "x", opts |-> opts, len |-> 0,
     words |-> IF kind \in {"Ipv4", "Tcp"} THEN 5 ELSE 0, sum |-> MCZero]

(* Flat stacks, one IP layer: option sizes on and off a 32-bit boundary, a *)
(* header wider than four bits of words (62 bytes) and one wider than a u8 *)
(* (1023 bytes), payloads on both sides of the u16 boundary.               *)
FlatStacks ==
    {<<New("Ether", "a", 0), ip, transport, New("Raw", "a", size)>> :
        ip \in {New("Ipv4", "a", 0), New("Ipv6", "a", 0)},
        transport \in {New("Tcp", "a", 0), New("Tcp", "a", 3), New("Tcp", "a", 42),
                       New("Tcp", "a", 1003), New("Udp", "a", 0), New("Icmp4", "a", 1)},
        size \in {1, 65492}}

(* Encapsulation: transport layers inside transport layers, and transport  *)
(* layers with no IP layer in front of them.                               *)
NestedStacks ==
    {<<outer, New("Udp", "a", 0), inner, transport>> :
        outer \in {New("Ether", "a", 0), New("Ipv4", "a", 0), New("Ipv6", "a", 0)},
        inner \in {New("Ipv4", "a", 0), New("Tcp", "a", 1)},
        transport \in {New("Udp", "a", 0), New("Tcp", "a", 3), New("Icmp4", "a", 0)}}
    \cup {<<New("Tcp", "a", 1)>>, <<>>}

AllStacks == FlatStacks \cup NestedStacks

(* A layer the owner may put in the place of any other: an Ipv4 header     *)
(* with options that ihl does not count, a payload that fits no length.    *)
AllUser == {New("Ipv4", "b", 4), New("Raw", "a", 65535)}
=============================================================================
