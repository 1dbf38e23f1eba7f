----------------------------- MODULE RoundTrip -----------------------------
(***************************************************************************)
(* A packet on its way from one program to another: built, edited and      *)
(* finalized as in module Packet, serialized by to_bytes, carried by a     *)
(* link that may pad the frame, parsed with the default bindings, and      *)
(* finalized again by the program that captured it.                        *)
(*                                                                         *)
(* The protocol number of a layer (ether_type, protocol, next_header) is   *)
(* its addr: the kind of the layer it announces, or another symbol.        *)
(***************************************************************************)
EXTENDS Packet

CONSTANTS
    Pads,     \* bytes a link may append to a frame
    Joined,   \* the contents of a layer that took in other layers' bytes
    Regular   \* the contents that are read as they were written: option
              \* lengths are right (Options!LengthRight), no field is wider
              \* than its bits, no number is Unknown that has a variant

ASSUME PadsAssumption == Pads \subseteq Nat /\ Joined \in Data
ASSUME RegularAssumption == Regular \subseteq Data

VARIABLES
    stage,   \* "own", "wire", "captured" or "misread"
    wire,    \* the frame, as the serialized layers it consists of
    pad,     \* how many bytes the link appended to it
    sent     \* history: the packet that was serialized, whether its last
             \* finalize succeeded, and whether it was correct

rtvars == <<layers, pc, i, result, before, passes, stage, wire, pad, sent>>

RTInit ==
    /\ Init
    /\ stage = "own"
    /\ wire = <<>>
    /\ pad = 0
    /\ sent = [layers |-> <<>>, finalized |-> FALSE, correct |-> FALSE]

(* Edits of a captured packet are those of module Packet.                  *)
Edit ==
    /\ stage = "own" /\ (FromLayers \/ LayersMut)
    /\ UNCHANGED <<stage, wire, pad, sent>>

Finalizing ==
    /\ stage \in {"own", "captured"}
    /\ Finalize \/ FinalizeStep
    /\ UNCHANGED <<stage, wire, pad, sent>>

(* Packet::to_bytes; when it fails nothing is sent.                        *)
Transmit ==
    /\ pc = "idle" /\ stage = "own" /\ layers # <<>>
    /\ AllWritable(layers)
    /\ wire' = Wires(layers)
    /\ sent' = [layers |-> layers, finalized |-> passes > 0, correct |-> Correct]
    /\ stage' = "wire"
    /\ UNCHANGED <<layers, pc, i, result, before, passes, pad>>

-----------------------------------------------------------------------------
(* parse_packet::<Ether> with the default bindings, as long as the layers  *)
(* it looks for begin where serialized layers begin.                       *)

(* Mutant: ICMP is left to Raw.                                            *)
FollowedByNoIcmp(l) ==
    CASE l.kind = "Ether" /\ l.addr \in {"Ipv4", "Ipv6"} -> l.addr
      [] l.kind \in {"Ipv4", "Ipv6"} /\ l.addr \in {"Tcp", "Udp"} -> l.addr
      [] OTHER -> "Raw"

FollowedBy(l) ==
    CASE l.kind = "Ether" /\ l.addr \in {"Ipv4", "Ipv6"} -> l.addr
      [] l.kind = "Ipv4" /\ l.addr \in {"Tcp", "Udp", "Icmp4"} -> l.addr
      [] l.kind = "Ipv6" /\ l.addr \in {"Tcp", "Udp"} -> l.addr
      [] OTHER -> "Raw"

Wanted(j) == IF j = 1 THEN "Ether" ELSE FollowedBy(wire[j - 1])

(* Raw and Icmp4 take all there is, the others what their headers count.   *)
TakesAll(kind) == kind \in {"Raw", "Icmp4"}

(* Mutant: an ihl below five counts no options and is refused.             *)
OptionBytesUnsaturated(l) == 4 * (l.words - 5)

(* Ipv4 subtracts from ihl what the fixed part takes, but not below zero;  *)
(* an offset below five is refused, as no options have this size.          *)
OptionBytes(l) ==
    IF l.kind = "Ipv4" /\ l.words < 5 THEN 0 ELSE 4 * (l.words - 5)

Counted(l) == l.kind \in {"Ipv4", "Tcp"} => OptionBytes(l) = l.opts

(* A layer is read as its own kind from its own bytes, if at all, as what  *)
(* was written: a parser that follows an option's length field elsewhere   *)
(* returns other options or fails.  Raw bytes are not looked at.           *)
Legible(l) == l.kind = "Raw" \/ l.data \in Regular

(* The layer at which the parser stops reading header by header.           *)
Stop ==
    CHOOSE j \in 1 .. Len(wire) + 1 :
        /\ j > Len(wire) \/ TakesAll(Wanted(j))
        /\ \A k \in 1 .. j - 1 : ~TakesAll(Wanted(k))

Understood ==
    /\ \A j \in 1 .. Stop - 1 :
           wire[j].kind = Wanted(j) /\ Counted(wire[j]) /\ Legible(wire[j])
    /\ Stop <= Len(wire) /\ Wanted(Stop) = "Icmp4" =>
           wire[Stop].kind = "Icmp4" /\ Legible(wire[Stop])
    /\ Stop > Len(wire) /\ pad > 0 => FollowedBy(wire[Len(wire)]) = "Raw"

RawLayer(size) ==
    [kind |-> "Raw", addr |-> CHOOSE a \in Addr : TRUE, data |-> Joined, opts |-> size,
     len |-> 0, words |-> 0, sum |-> Zero]

(* What is left from layer Stop on: all of it in one layer, which is the   *)
(* one that was sent when nothing else is left.                            *)
LastLayer ==
    LET left == SubSeq(wire, Stop, Len(wire))
        size == LengthOfLayers(left) + pad
        next == left[1]
    IN  IF size = 0 THEN <<>>
        ELSE IF left = <<>> \/ next.kind # Wanted(Stop) THEN <<RawLayer(size)>>
        ELSE IF size = Length(next) THEN <<next>>
        ELSE <<[next EXCEPT !.opts = size - HeaderBytes[next.kind], !.data = Joined]>>

(* Mutant: the parser drops what follows the length of the IP layer.       *)
ParsedTrimmed == SubSeq(wire, 1, Stop - 1) \o SubSeq(wire, Stop, Len(wire))

Parsed == SubSeq(wire, 1, Stop - 1) \o LastLayer

(* The link pads the frame.                                                *)
Carry ==
    /\ stage = "wire" /\ pad = 0
    /\ pad' \in Pads \ {0}
    /\ UNCHANGED <<layers, pc, i, result, before, passes, stage, wire, sent>>

(* The receiver has the packet in hand, and none when the parser fails or  *)
(* takes some bytes for others: what it returns then is not modelled.      *)
Receive ==
    /\ stage = "wire"
    /\ layers' = IF Understood THEN Parsed ELSE <<>>
    /\ stage' = IF Understood THEN "captured" ELSE "misread"
    /\ before' = layers'
    /\ passes' = 0
    /\ i' = 0
    /\ result' = "none"
    /\ UNCHANGED <<pc, wire, pad, sent>>

RTNext == Edit \/ Finalizing \/ Transmit \/ Carry \/ Receive

RTSpec == RTInit /\ [][RTNext]_rtvars

-----------------------------------------------------------------------------
(* Properties.                                                             *)

(* A packet whose protocol numbers name its layers, with Raw where they    *)
(* name none, and whose last layer can be told from nothing.               *)
Names ==
    {<<"Ether", "Ipv4">>, <<"Ether", "Ipv6">>, <<"Ipv4", "Tcp">>, <<"Ipv4", "Udp">>,
     <<"Ipv4", "Icmp4">>, <<"Ipv6", "Tcp">>, <<"Ipv6", "Udp">>}

Described(ls) ==
    /\ ls[1].kind = "Ether"
    /\ \A j \in 1 .. Len(ls) - 1 :
           /\ ls[j].kind \notin {"Raw", "Icmp4"}
           /\ ls[j + 1].kind = IF <<ls[j].kind, ls[j].addr>> \in Names
                               THEN ls[j].addr ELSE "Raw"
    /\ ls[Len(ls)].kind = "Raw" => ls[Len(ls)].opts > 0

(* The headers say what they hold: four bits hold their sizes, ihl counts  *)
(* the options, or there are none and ihl is too small to count any, and   *)
(* the contents are regular, the lengths of options among them.            *)
HeadersFit(ls) ==
    \A j \in DOMAIN ls :
        /\ ls[j].words < 16
        /\ ls[j].kind = "Ipv4" =>
               4 * ls[j].words = Length(ls[j]) \/ (ls[j].words < 5 /\ ls[j].opts = 0)
        /\ ls[j].kind # "Raw" => ls[j].data \in Regular

(* A packet that was finalized with success comes back from its bytes as   *)
(* it was exactly when its protocol numbers describe it and its headers    *)
(* say what they hold.  finalize checks neither: an ihl that does not      *)
(* count the Ipv4 options, a header longer than ihl or offset can say on   *)
(* the wire and a stale length field of an option are left as they are.    *)
FinalizedComesBack ==
    stage \in {"captured", "misread"} /\ result = "none" /\ pc = "idle"
    /\ pad = 0 /\ sent.finalized
    => (layers = sent.layers) = (Described(sent.layers) /\ HeadersFit(sent.layers))

(* What a receiver can rely on: the packet was correct, its protocol       *)
(* numbers describe it, and to_bytes lost no bit of ihl or offset.         *)
SentWell == sent.correct /\ Described(sent.layers) /\ wire = sent.layers

(* A capture of such a frame that was not padded is again correct:         *)
(* finalizing it, any number of times, changes nothing and does not fail.  *)
CaptureStable ==
    stage = "captured" /\ pad = 0 /\ SentWell =>
        layers = sent.layers /\ result # "error"

(* Link-layer padding is taken for payload: a successful finalize of the   *)
(* captured frame adds it to every length field, and to nothing else of a  *)
(* header but its checksums.                                               *)
PaddingAdopted ==
    stage = "captured" /\ SentWell /\ passes > 0 =>
        /\ LengthOfLayers(layers) = LengthOfLayers(sent.layers) + pad
        /\ \A j \in DOMAIN sent.layers :
               LET was == sent.layers[j]
                   grown == IF was.kind \in {"Ipv4", "Ipv6", "Udp"} THEN pad ELSE 0
               IN  /\ layers[j].len = was.len + grown
                   /\ layers[j].words = was.words /\ layers[j].addr = was.addr
=============================================================================
