------------------------------- MODULE Packet -------------------------------
(***************************************************************************)
(* Packet: a vector of layers, edited by its owner through layers_mut and  *)
(* brought up to date by finalize, which visits the layers from the        *)
(* outermost inwards and stops at the first error.  One step of the loop   *)
(* is one action; finalize borrows the packet exclusively, so edits happen *)
(* only between two calls.                                                 *)
(***************************************************************************)
EXTENDS Layers, FiniteSets

CONSTANTS
    UserLayers,   \* layers a caller may construct or store
    Stacks        \* vectors of layers a caller may build a packet from

ASSUME UserAssumption == UserLayers \subseteq Layer /\ Stacks \subseteq Seq(Layer)

VARIABLES
    layers,   \* Packet.layers
    pc,       \* "idle" between calls, "loop" inside finalize
    i,        \* the loop index of finalize, from 1
    result,   \* what the last finalize returned
    before,   \* history: layers when the last finalize was called
    passes    \* history: successful finalize calls since the last edit,
              \* counted up to MaxPasses

vars == <<layers, pc, i, result, before, passes>>

(* Finalizing more often than this changes nothing (see Converges).        *)
MaxPasses == Len(layers) + 1

Prev == SubSeq(layers, 1, i - 1)
Cur  == layers[i]
Rest == SubSeq(layers, i + 1, Len(layers))

Init ==
    /\ layers = <<>>
    /\ pc = "idle"
    /\ i = 0
    /\ result = "none"
    /\ before = <<>>
    /\ passes = 0

-----------------------------------------------------------------------------
(* The owner's operations.                                                 *)

(* Replacing the contents: any history of the new layers is forgotten.     *)
Reset(ls) ==
    /\ pc = "idle"
    /\ layers' = ls
    /\ before' = ls
    /\ passes' = 0
    /\ i' = 0
    /\ result' = "none"
    /\ UNCHANGED pc

FromLayers == \E ls \in Stacks : Reset(ls)

LayersMut ==
    \E j \in DOMAIN layers, l \in UserLayers : Reset([layers EXCEPT ![j] = l])

(* Mutant: the loop index of finalize starts one too low.                  *)
FinalizeFromZero ==
    /\ pc = "idle"
    /\ pc' = "loop"
    /\ i' = 0
    /\ before' = layers
    /\ result' = "none"
    /\ UNCHANGED <<layers, passes>>

Finalize ==
    /\ pc = "idle"
    /\ pc' = "loop"
    /\ i' = 1
    /\ before' = layers
    /\ result' = "none"
    /\ UNCHANGED <<layers, passes>>

-----------------------------------------------------------------------------
(* One iteration of the loop: the layer's finalize either lets the loop go *)
(* on with the next layer, or its error is returned at once, leaving what  *)
(* was already written in place.                                           *)

Visit(kind) == pc = "loop" /\ i <= Len(layers) /\ Cur.kind = kind

Continue(l) ==
    /\ layers' = [layers EXCEPT ![i] = l]
    /\ i' = i + 1
    /\ UNCHANGED <<pc, result, before, passes>>

Fail(l) ==
    /\ layers' = [layers EXCEPT ![i] = l]
    /\ pc' = "idle"
    /\ result' = "error"
    /\ passes' = 0
    /\ UNCHANGED <<i, before>>

(* Ether and Raw have nothing to finalize.                                 *)
FinalizeInert(kind) == Visit(kind) /\ Continue(Cur)

(* Mutant: the checksum is computed ahead of the length.                   *)
FinalizeIpv4Early ==
    LET size == LengthOfLayers(<<Cur>> \o Rest)
        fits == Writable(Cur) /\ AllWritable(Rest) /\ size \in U16
    IN  /\ Visit("Ipv4")
        /\ \/ fits /\ Continue([Cur EXCEPT !.len = size, !.sum = Checksum(<<Cleared(Cur)>>)])
           \/ ~fits /\ Fail(Cur)

FinalizeIpv4 ==
    LET size  == LengthOfLayers(<<Cur>> \o Rest)
        sized == [Cur EXCEPT !.len = size]
        fits  == Writable(Cur) /\ AllWritable(Rest) /\ size \in U16
    IN  /\ Visit("Ipv4")
        /\ \/ fits /\ Continue([sized EXCEPT !.sum = Checksum(<<Cleared(sized)>>)])
           \/ ~fits /\ Fail(Cur)

(* Mutants: the length counts the layer's own header; it is truncated to   *)
(* 16 bits instead of checked.                                             *)
FinalizeIpv6WithHeader ==
    LET size == LengthOfLayers(<<Cur>> \o Rest)
        fits == AllWritable(Rest) /\ size \in U16
    IN  /\ Visit("Ipv6")
        /\ \/ fits /\ Continue([Cur EXCEPT !.len = size])
           \/ ~fits /\ Fail(Cur)

FinalizeIpv6Truncating ==
    /\ Visit("Ipv6")
    /\ Continue([Cur EXCEPT !.len = LengthOfLayers(Rest) % 65536])

FinalizeIpv6 ==
    LET size == LengthOfLayers(Rest)
        fits == AllWritable(Rest) /\ size \in U16
    IN  /\ Visit("Ipv6")
        /\ \/ fits /\ Continue([Cur EXCEPT !.len = size])
           \/ ~fits /\ Fail(Cur)

(* The header is serialized before the length field is assigned.           *)
FinalizeUdp ==
    LET header == Cleared(Cur)
        size   == LengthOfLayers(<<Cur>> \o Rest)
        sized  == [Cur EXCEPT !.len = size]
        fits   == AllWritable(Rest) /\ size \in U16
        overIp == Prev # <<>> /\ IsIp(Prev[i - 1])
    IN  /\ Visit("Udp")
        /\ \/ /\ fits /\ overIp
              /\ Continue([sized EXCEPT
                    !.sum = TransportSum(Prev[i - 1], header, size, Rest)])
           \/ fits /\ ~overIp /\ Continue(sized)
           \/ ~fits /\ Fail(Cur)

(* Padding comes first and survives every later error; the header is       *)
(* serialized before the offset field is assigned.                         *)
FinalizeTcp ==
    LET padded  == Padded(Cur)
        header  == Cleared(padded)
        size    == LengthOfLayers(<<padded>> \o Rest)
        offset  == Length(padded) \div 4
        payload == Prev = <<>> \/ AllWritable(Rest)
        fits    == Prev # <<>> /\ Prev[i - 1].kind = "Ipv4" => size \in U16
        overIp  == Prev # <<>> /\ IsIp(Prev[i - 1])
        summed  == IF overIp
                   THEN [padded EXCEPT
                            !.sum = TransportSum(Prev[i - 1], header, size, Rest)]
                   ELSE padded
    IN  /\ Visit("Tcp")
        /\ \/ ~Writable(Cur) /\ Fail(Cur)
           \/ Writable(Cur) /\ ~(payload /\ fits) /\ Fail(padded)
           \/ /\ Writable(Cur) /\ payload /\ fits
              /\ \/ offset \in U8 /\ Continue([summed EXCEPT !.words = offset])
                 \/ offset \notin U8 /\ Fail(summed)

(* Mutant: the checksum bytes are not cleared first.                       *)
FinalizeIcmp4Uncleared ==
    Visit("Icmp4") /\ Continue([Cur EXCEPT !.sum = Checksum(<<Wire(Cur)>>)])

(* The checksum covers the layer alone, whatever follows it.               *)
FinalizeIcmp4 ==
    Visit("Icmp4") /\ Continue([Cur EXCEPT !.sum = Checksum(<<Cleared(Cur)>>)])

Return ==
    /\ pc = "loop" /\ i > Len(layers)
    /\ pc' = "idle"
    /\ result' = "ok"
    /\ passes' = IF passes < MaxPasses THEN passes + 1 ELSE passes
    /\ UNCHANGED <<layers, i, before>>

FinalizeStep ==
    \/ FinalizeInert("Ether")
    \/ FinalizeInert("Raw")
    \/ FinalizeIpv4
    \/ FinalizeIpv6
    \/ FinalizeTcp
    \/ FinalizeUdp
    \/ FinalizeIcmp4
    \/ Return

Next == FromLayers \/ LayersMut \/ Finalize \/ FinalizeStep

Spec == Init /\ [][Next]_vars

-----------------------------------------------------------------------------
(* What a correct packet is, independently of how finalize computes it.    *)

Inside(j) == SubSeq(layers, j + 1, Len(layers))

LengthRight(j) ==
    /\ layers[j].kind \in {"Ipv4", "Udp"} =>
           layers[j].len = LengthOfLayers(<<layers[j]>> \o Inside(j))
    /\ layers[j].kind = "Ipv6" => layers[j].len = LengthOfLayers(Inside(j))

OffsetRight(j) ==
    layers[j].kind = "Tcp" => 4 * layers[j].words = Length(layers[j])

OwnSumRight(j) ==
    layers[j].kind \in {"Ipv4", "Icmp4"} =>
        layers[j].sum = Checksum(<<Cleared(layers[j])>>)

TransportSumRight(j) ==
    layers[j].kind \in {"Tcp", "Udp"} /\ j > 1 /\ IsIp(layers[j - 1]) =>
        layers[j].sum = TransportSum(layers[j - 1], Cleared(layers[j]),
                            LengthOfLayers(<<layers[j]>> \o Inside(j)), Inside(j))

Right(j) ==
    LengthRight(j) /\ OffsetRight(j) /\ OwnSumRight(j) /\ TransportSumRight(j)

Correct == \A j \in DOMAIN layers : Right(j)

-----------------------------------------------------------------------------
(* Properties.                                                             *)

(* Every variable has its type: in particular each len a finalize stores   *)
(* fits a u16 and each offset a u8.                                        *)
TypeOK ==
    /\ layers \in Seq(Layer)
    /\ before \in Seq(Layer)
    /\ pc \in {"idle", "loop"}
    /\ i \in 0 .. Len(layers) + 1
    /\ pc = "loop" => i > 0
    /\ result \in {"none", "ok", "error"}
    /\ passes \in Nat

(* What the loop of Packet::finalize may have done to the layers before it *)
(* reaches index i or fails there: the layers not yet visited are as the   *)
(* caller left them, and a layer that failed differs at most by the EOL    *)
(* padding and the checksum Tcp::finalize writes ahead of its last check.  *)
PartialFailure ==
    /\ Len(layers) = Len(before)
    /\ pc = "loop" => \A j \in i .. Len(layers) : layers[j] = before[j]
    /\ result = "error" =>
           /\ i \in DOMAIN layers
           /\ \A j \in i + 1 .. Len(layers) : layers[j] = before[j]
           /\ layers[i] = before[i] \/ layers[i].kind = "Tcp"
           /\ layers[i].len = before[i].len /\ layers[i].words = before[i].words

(* A finalize never touches an independent field: kind, addresses and      *)
(* contents stay, and the variable part grows only in Tcp, by fewer than   *)
(* four EOL bytes, to a 32-bit boundary.                                   *)
OnlyDependentFields ==
    \A j \in DOMAIN layers :
        /\ layers[j].kind = before[j].kind
        /\ layers[j].addr = before[j].addr
        /\ layers[j].data = before[j].data
        /\ \/ layers[j].opts = before[j].opts
           \/ /\ layers[j].kind = "Tcp"
              /\ layers[j].opts - before[j].opts \in 1 .. 3
              /\ Length(layers[j]) % 4 = 0

(* After a successful finalize every Tcp header is a multiple of four      *)
(* bytes and offset counts its words.                                      *)
OffsetsRight == passes > 0 => \A j \in DOMAIN layers : OffsetRight(j)

(* After a successful finalize every length field is short by exactly the  *)
(* padding that the same call pushed into the Tcp layers further inside.   *)
LengthDeficit ==
    result = "ok" => \A j \in DOMAIN layers :
        LET missing == LengthOfLayers(Inside(j)) -
                           LengthOfLayers(SubSeq(before, j + 1, Len(before)))
        IN  /\ layers[j].kind \in {"Ipv4", "Udp"} =>
                   layers[j].len + missing =
                       LengthOfLayers(<<layers[j]>> \o Inside(j))
            /\ layers[j].kind = "Ipv6" =>
                   layers[j].len + missing = LengthOfLayers(Inside(j))

(* The header checksum of every Ipv4 and Icmp4 layer the loop has passed   *)
(* covers the fields that layer now has, also when a later layer failed.   *)
OwnSumsRight ==
    pc = "loop" \/ result # "none" =>
        \A j \in DOMAIN layers : j < i => OwnSumRight(j)

(* A length error that the outermost IP layer does not report cannot show  *)
(* up further inside: below an IP layer only another IP layer or an        *)
(* oversized Tcp header can make finalize fail.                            *)
IpGuardsInside ==
    result = "error" =>
        \/ IsIp(layers[i])
        \/ \A j \in 1 .. i - 1 : ~IsIp(layers[j])
        \/ layers[i].kind = "Tcp" /\ Length(layers[i]) > 4 * 255

(* Repeating finalize repairs the fields it computed from stale ones: a    *)
(* layer is right after two calls, and one more for each transport layer   *)
(* inside it.                                                              *)
TransportsInside(j) == {k \in j + 1 .. Len(layers) : layers[k].kind \in {"Tcp", "Udp"}}

Converges ==
    \A j \in DOMAIN layers :
        passes >= 2 + Cardinality(TransportsInside(j)) => Right(j)

(* When one call is enough, as for the Tcp replies of the examples: Tcp    *)
(* headers are aligned and counted, the Udp lengths right beforehand, and  *)
(* no transport layer encloses a layer with fields to finalize.            *)
OnePassEnough ==
    /\ result = "ok"
    /\ \A j \in DOMAIN before :
           LET inside == SubSeq(before, j + 1, Len(before))
           IN  /\ before[j].kind = "Tcp" => 4 * before[j].words = Length(before[j])
               /\ before[j].kind = "Udp" =>
                      before[j].len = LengthOfLayers(<<before[j]>> \o inside)
               /\ before[j].kind \in {"Tcp", "Udp"} =>
                      \A n \in DOMAIN inside : inside[n].kind \in {"Ether", "Raw"}
    => Correct

(* Once a packet is correct, finalize changes nothing, whether or not it   *)
(* succeeds.                                                               *)
CorrectIsStable == [][Correct /\ FinalizeStep => layers' = layers]_vars

(* What README.md says of one call: "finalize fills in the dependent       *)
(* length and checksum fields".                                            *)
TransportRightAfterOne ==
    passes > 0 => \A j \in DOMAIN layers :
        layers[j].kind \in {"Tcp", "Udp"} => Right(j)

IpLengthRightAfterOne ==
    passes > 0 => \A j \in DOMAIN layers : IsIp(layers[j]) => LengthRight(j)

(* The comment on Ipv4.ihl and the format it documents: the header size in *)
(* 32-bit words, options included.                                         *)
IhlRightAfterOne ==
    passes > 0 => \A j \in DOMAIN layers :
        layers[j].kind = "Ipv4" => 4 * layers[j].words = Length(layers[j])
=============================================================================
