------------------------------- MODULE Layers -------------------------------
(***************************************************************************)
(* The protocol layers of nata as values: what a layer holds, how many     *)
(* bytes it serializes to, and which bytes a checksum covers.              *)
(*                                                                         *)
(* A layer is a record with one shape for all kinds.  The fields finalize  *)
(* may write are explicit; the fields it only reads are two symbols:       *)
(*   addr   what an IP pseudo header covers (src, dst, protocol or         *)
(*          next_header); for the other kinds, their addresses or ports    *)
(*   data   every other independent field and the payload bytes            *)
(*   opts   bytes of the variable part: options, ICMP data or Raw data     *)
(*   len    the length field of Ipv4, Ipv6 and Udp                         *)
(*   words  the 4-bit header size of Ipv4 (ihl) and Tcp (offset), a u8     *)
(*   sum    the checksum field of Ipv4, Tcp, Udp and Icmp4                 *)
(* A field the kind does not have keeps one value for ever.                *)
(***************************************************************************)
EXTENDS Integers, Sequences

CONSTANTS
    Addr,              \* symbols for addresses and protocol numbers
    Data,              \* symbols for the remaining independent contents
    Sums,              \* values of a 16-bit checksum field
    Zero,              \* the cleared checksum field
    Checksum(_),       \* ip::checksum of a sequence of serialized pieces
    NarrowWriteFails   \* deku refuses (TRUE) or truncates (FALSE) a value
                       \* wider than its bits = "4" attribute

ASSUME ZeroAssumption == Zero \in Sums
ASSUME NarrowAssumption == NarrowWriteFails \in BOOLEAN

(* The checksum is any function into the values of the field: a hypothesis *)
(* of the theorems, which no model checker can enumerate.                  *)
ChecksumTyped == \A d : Checksum(d) \in Sums

Kinds == {"Ether", "Ipv4", "Ipv6", "Tcp", "Udp", "Icmp4", "Raw"}

U8 == 0 .. 255
U16 == 0 .. 65535

(* Bytes of the fixed part of each layer.                                  *)
HeaderBytes ==
    [k \in Kinds |-> CASE k = "Ether" -> 14
                       [] k = "Ipv4"  -> 20
                       [] k = "Ipv6"  -> 40
                       [] k = "Tcp"   -> 20
                       [] k = "Udp"   -> 8
                       [] k = "Icmp4" -> 8
                       [] k = "Raw"   -> 0]

Layer == [kind : Kinds, addr : Addr, data : Data, opts : Nat,
          len : U16, words : U8, sum : Sums]

(* to_bytes writes words into four bits.                                   *)
Wire(l) == [l EXCEPT !.words = @ % 16]

Writable(l) == l.words < 16 \/ ~NarrowWriteFails

(* layers_to_bytes, and when it succeeds.                                  *)
Wires(ls) == [j \in DOMAIN ls |-> Wire(ls[j])]

AllWritable(ls) == \A j \in DOMAIN ls : Writable(ls[j])

(* LayerExt::length is the size of to_bytes.                               *)
Length(l) == HeaderBytes[l.kind] + l.opts

Lengths(ls) == [j \in DOMAIN ls |-> Length(ls[j])]

Total(sizes) ==
    LET upTo[n \in 0 .. Len(sizes)] ==
            IF n = 0 THEN 0 ELSE upTo[n - 1] + sizes[n]
    IN  upTo[Len(sizes)]

(* utils::length_of_layers.                                                *)
LengthOfLayers(ls) == Total(Lengths(ls))

(* The bytes a checksum is computed from: the serialized layer with the    *)
(* two checksum bytes cleared, and the pseudo header of the IP layer.      *)
Cleared(l) == [Wire(l) EXCEPT !.sum = Zero]

IsIp(l) == l.kind \in {"Ipv4", "Ipv6"}

PseudoHeader(ip, size) == [kind |-> ip.kind, addr |-> ip.addr, size |-> size]

TransportSum(ip, header, size, next) ==
    Checksum(<<PseudoHeader(ip, size), header>> \o Wires(next))

(* Mutant: an aligned header is padded by a whole word.                    *)
PadAmountFullWord(l) == 4 * ((Length(l) + 4) \div 4) - Length(l)

(* EOL options Tcp::finalize pushes to reach a 32-bit boundary.            *)
PadAmount(l) == 4 * ((Length(l) + 3) \div 4) - Length(l)

(* Mutants: no padding; the offset assigned together with the padding.     *)
PaddedForgotten(l) == l

PaddedAndCounted(l) ==
    [l EXCEPT !.opts = @ + PadAmount(l), !.words = (Length(l) \div 4) % 256]

Padded(l) == [l EXCEPT !.opts = @ + PadAmount(l)]
=============================================================================
