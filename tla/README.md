# A TLA+ model of nata

nata is a Rust library that parses, builds and transports network packets. A
packet is a vector of layers; a parser turns bytes into layers by following
bindings from one layer to the next; `finalize` recomputes the fields of a
packet that depend on one another; datalink interfaces read packets from and
write them to files and network devices. This directory holds a model of that
system, the TLC runs that check it and TLAPS proofs about it.

Run everything from this directory:

    tlc -workers 2 -config finalize.cfg MCPacket # any run of PROJECT.json
    tlapm PacketProofs.tla                       # any module with theorems

## The system

| Part | State | Operations | What makes it correct |
|---|---|---|---|
| layers (`src/layer/*`) | header fields, options, payload | `finalize`, `to_bytes`, `length`, `parse` | dependent fields describe the packet they are in; independent ones are never touched |
| `Packet` (`src/packet/mod.rs`) | `Vec<LayerOwned>` | `from_layers`, `layers_mut`, `finalize`, `to_bytes` | repeated edits and finalizes converge; a failure leaves a known state |
| `ip::checksum` (`src/layer/ip/mod.rs`) | a loop's accumulator | one call | it is the one's complement sum, without overflow |
| `PacketParser` (`src/packet`) | bindings by `TypeId` | `bind_layer`, `parse_packet` | the last binding with an answer decides; parsing ends; nothing is lost |
| offline I/O (`src/datalink/pcapfile.rs`, iterators in `src/datalink/mod.rs`) | reader and writer positions | `init`, `read`, `next`, `write` | frames are copied once, in order; the output is touched only when the input is open |
| live interfaces (`src/datalink/pnet.rs`, `pcap.rs`, `Interface`) | pnet channels | `init`, `split`, `into_split`, `read`, `write` | whichever handle reads, packets arrive once and in order; an error costs one frame at most |
| options (`src/layer/tcp/options.rs`, `src/layer/ip/ipv4.rs`) | length fields and values | deku's derived reading, writing, `update` | a header holds the bytes it counts; bytes and values agree |
| protocol numbers | none | deku derives | as above |

How they interact: `parse_packet` calls the `parse` of each layer and the
callbacks of the bindings; `Packet::finalize` gives each layer its neighbours,
and Tcp and Udp read the IP layer before them and the bytes of all layers after
them; all checksums go through `ip::checksum`; readers call `parse_packet` with a
first layer chosen from the link type, writers call `Packet::to_bytes`. A packet
that is written by one program is read by another: serialization and parsing
meet on the wire, where fields have their width and nothing but the headers says
where a layer ends.

The library starts no threads: `finalize` and `bind_layer` take `&mut self`, so
the borrow checker rules out interleaving with them. What is hard is order.
`finalize` computes some fields from others that it updates later, in the same
layer (a header is serialized before its length or offset is assigned) and
across layers (outer lengths before inner padding). It stops half way on an
error. Binding tables are searched from the end. Errors of a read and the end of
a file look alike through the iterator. Widths (4, 8, 16, 32 bits) are checked at
different moments. `PROJECT.json` lists each of these hazards at its line.

## Modules

**Layers** is constant-level: the shape of a layer, its serialized size, which
bytes a checksum covers, TCP padding. Fields that `finalize` writes are explicit
(`len`, `words` for `ihl` and `offset`, `sum`, and the size of the options);
everything it only reads is the symbol `addr` (what a pseudo header covers) or
`data`. `Checksum` is a parameter. deku's handling of a value wider than its
`bits = "4"` is not in the repository, so `NarrowWriteFails` stands for either
answer.

**Packet** has one action for each operation of `Packet` and one for each
iteration of the loop of `finalize`, by kind of layer: the guards are the
conversions and `?` of the code in their order, the disjuncts its outcomes.
`pc`, `i` and `result` are the loop; `before` and `passes` are history used only
by properties. A layer a caller stores by `layers_mut` is any of `UserLayers`.

**IpChecksum** is the loop of `ip::checksum`, one action a chunk, with bytes in
base `B` (256 in the code), so that a u16 has `B^2` values and a u32 `B^4`.
Overflow is a choice: panic (checked builds) or wrap.

**LayerChain** is the abstract specification of parsing: a chain of layers, each
chosen by the last registered binding that has an answer for its predecessor.
**PacketParser** is `bind_layer` and `parse_packet` with one callback a step.
Bytes are counted; `Parsed` and `Fails` give what each layer's `parse` may
return from `n` bytes. `ImplementsLayerChain` is the refinement, with the chain
mapped to the pushed layers followed by the current one.

**Options** reads and writes the options of a Tcp or Ipv4 header byte by byte.
A program builds a list, calls `update` on some of it and sends it, or any bytes
arrive; `ReadOption` then takes one option a step until exactly the bytes the
header counts are read (`bytes_read` of deku, external, modelled from the
attributes) or something in the way is reported. An option is a record with the
fields of either protocol; `ValueBytes` is the `count` attribute, `NewLength` the
`update` attribute. `Buildable` are the options a program can build: those of
`TcpOption`'s variants, and of Ipv4 those whose fields fit their bits and whose
`Unknown` has no type that is a variant of its own.

**RoundTrip** EXTENDS Packet by the way a packet takes from one program to
another: `Transmit` is `Packet::to_bytes`, `Carry` a link that pads, `Receive`
`parse_packet::<Ether>` with the default bindings, after which the receiver may
`finalize` what it has. The wire is the sequence of serialized layers; the parser
is followed as long as the layers it looks for begin where serialized layers
begin (`Understood`), and when they do not the packet is `misread`, whatever
comes of it. `addr` here is a protocol number. Where options end is decided twice:
by `ihl` or `offset` (`OptionBytes`: Ipv4 subtracts five words from `ihl` but not
below zero, Tcp refuses an `offset` below five), and by the length fields inside.
The bytes of a header are the symbol `data` here, so the second is the constant set
`Regular`, the contents that are read as they were written; which options are
among them is what Options models and `OptionsComeBack` says. Nothing is assumed
of `Regular` but that it is a set of contents.

**PcapCopy** is `read_write_pcap` from its first look at the paths: `ComparePaths`,
`OpenReader`, `CreateWriter`, then `PcapFileReader::read`, the iterator and
`PcapFileWriter::write`, for that program's `for` loop and for a client that
calls `read` and stops at `Eof` only. A capture has a link type, which decides
whether its frames are parsed as `Ether` or `Raw`. The file formats are external:
`pcap_file` may skip a corrupt record, return it again or give up.

**Datalink** is a live interface, `Pnet` or `Pcap` (whose code is the same), with
the handles on it: `Open`, `Split` and `Rejoin` (halves by reference), `IntoSplit`
and `DropHalf` (owned halves; `InterfaceReader::init` is an `into_split` whose
writer is dropped), and reads and writes through whichever handle there is, with
every error they return. Four programs use it: `read_write_interface`,
`icmp_ping`, one that reads on after every error, and any other. The device is
external; one that loops back captures what is written to it.

**HttpServer** is a live `Pcap` interface and its most demanding client,
`examples/spoof_http_server.rs`: opening the interface, one action for each
iteration of the server's loop over captured frames, and the ways in which it
stops (a rejected frame or a device error ends the iterator, a failed write
panics). An iteration is one action because the server is one thread and shares
nothing but the network. The clients (TCP peers that retransmit and accept only
what they expect) and the network (a set of frames that may be delivered any
number of times, in any order, padded, or be lost) are external. Sequence
numbers are modulo `SeqMod`, 2^32 in the code.

MC modules give the constants their values. The theorems about a module `M` are
in **MProofs**: PacketProofs, IpChecksumProofs, PacketParserProofs,
OptionsProofs, PcapCopyProofs, DatalinkProofs and HttpServerProofs. Those about
RoundTrip, which extends Packet, are at the end of PacketProofs.
**NatLemmas** has the facts about numbers, remainders and sums they share, and
induction.

Operators named after the definition they precede and introduced as mutants
(`PaddedForgotten`, `FoldOnce`, ...) are deliberate bugs. No specification uses
them; putting one in the place of its original must break the property that
`PROJECT.json` names beside it.

## What the runs show

| Run | Checks | Result |
|---|---|---|
| `finalize` | `TypeOK`, `PartialFailure`, `OnlyDependentFields`, `OffsetsRight`, `OwnSumsRight`, `Converges`, `OnePassEnough`, `LengthDeficit`, `IpGuardsInside`, `CorrectIsStable` | hold |
| `transport_once`, `ip_length_once` | one `finalize` makes the fields right, as `README.md` says | violated |
| `ihl_once` | `ihl` counts the options | violated |
| `checksum` | `TypeOK`, `NoPanic`, `CastExact`, `MatchesReference`, `VerifiesToZero` | hold |
| `parser` | `TypeOK`, `DefaultConsumesAll`, `DefaultShape`, `ImplementsLayerChain`, `Terminates` | hold |
| `options` | `TypeOK`, `HeaderExact`, `WellFormedAccepted`, `OptionsComeBack` | hold |
| `roundtrip` | `FinalizedComesBack`, `CaptureStable`, `PaddingAdopted` | hold |
| `copy` | `TypeOK`, `FilesKept`, `NothingSkipped`, `CopyComplete`, `ForLoopEnds` | hold |
| `datalink` | `TypeOK`, `InOrder`, `EchoNeverIdle`, `RejectedPassed` | hold |
| `copy_each` | every decodable frame of a capture is copied, as the example says | violated |
| `http` | `TypeOK`, `RepliesFit`, `NoEarlyResponse`, `EveryoneServed` | hold |

The picture of `finalize`: one call is not enough in general. Udp checksums cover the
length field from before the call, Tcp checksums the old offset, and IP lengths
miss the padding (`LengthDeficit` says that this is all they miss). Calling it
again repairs all of it but `ihl`: a layer is right after two calls, plus one for
every transport layer inside it, because its checksum covers theirs
(`Converges`). One call is enough when the transport header was right
beforehand but for its checksum (`OnePassEnough`): so for the Tcp and Icmp4 packets
of the examples, not for the Udp packet of `build_packet` and of the repository's
`README.md`. From then on `finalize` is the identity (`CorrectIsStable`). When
a call fails, what it did is bounded (`PartialFailure`). `ihl` is left out of
`Correct`: `finalize` never writes it.

What that means on the wire is `FinalizedComesBack`, an equivalence: of the
packets whose `finalize` succeeded, those come back from their bytes whose
protocol numbers describe their layers, whose `ihl` was set by hand when there are
Ipv4 options (without any, each `ihl` up to five will do), whose Ipv4 and Tcp
headers have at most 60 bytes, whose contents are regular, above all the length
fields of their options, and whose last layer is not an empty `Raw`. The others are
sent without an error and are read as something else, or refused. A correct packet
whose protocol numbers describe it and whose `ihl` and offsets four bits hold
(`SentWell`) may still be misread, since `Correct` does not ask that `ihl` counts
the options; but if it is captured, it is captured as it was sent and stays correct
through further finalizes (`CaptureStable`). Padding by the link is taken for payload, and finalizing the
capture makes it part of every length (`PaddingAdopted`), because the parser does
not look at the length fields.

Options are read safely: a header that parses holds exactly the bytes it
counts, whatever the lengths inside claim (`HeaderExact`), well-formed ones are
accepted (`WellFormedAccepted`). Options that a program builds come back exactly
when the lengths the parser looks at are right (`OptionsComeBack`): those of Ipv4
options to the byte, that of a SAck up to the seven bytes its division by eight
drops. `update` makes them right, and `finalize` does not call it.
`TcpOption` has no variant for unlisted kinds: a header with one is refused.

Reading takes a frame from the file or device before it parses it. So an error
costs that frame and no other (`InOrder`, `NothingSkipped`), and a client that
reads on reaches what is behind it (`RejectedPassed`, `CopyComplete`); the
iterators end there (`copy_each`). `read_write_interface` on a device that loops
back answers its own answers: it always has another frame to read
(`EchoNeverIdle`), until a rejected one or an error of the device ends it.

`read_write_pcap` truncates its output only once the input is open and known to
have another path (`FilesKept`). From then on what the output held is lost, also
when the header of the new capture cannot be written and nothing is copied.

One divergence needs no run: the table of default bindings in
`src/packet/bindings.rs:11` has `Ipv4` follow an Ether of type IPv6, where the
code (line 45) and the model have `Ipv6`.

### Bounds

- `finalize` and the `_once` runs, flat stacks: four layers, both IP versions, all
  transports. Option sizes are off a 32-bit boundary (3), pad to more words than
  four bits hold (42), and to more than a u8 holds (1003); payloads of 1 and 65492
  bytes put the lengths on both sides of 65535, including the case where only the
  padding crosses it. Nested stacks: transport in transport and IP in Udp, stacks
  without an IP layer, one layer and none. An owner may at any time overwrite any
  layer with an Ipv4 layer with options or a payload of 65535 bytes.
- There and in `roundtrip`, `MCChecksum` is injective: two checksums agree only if
  they cover the same bytes. `passes` counts to `MaxPasses`, one more than the
  number of layers: the largest threshold `Converges` has in any stack.
- `finalize` has `NarrowWriteFails` TRUE, `roundtrip` FALSE: an offset beyond four
  bits is refused in the first and truncated in the second, where it is misread.
- `roundtrip`: Tcp headers of 20, 23, 60, 62 and 84 bytes (the last has an offset
  of 5 modulo 16), `ihl` right, wrong, below five with and without options, 3 and 5
  modulo 16, contents that are regular and that are not in each kind of layer that
  has a variable part, empty and non-empty payloads, layers that
  contradict the protocol numbers around them, padding of 6 bytes.
- `options`: built lists with every kind, their lengths as yet unset, right, or
  stale in either direction, a SAck length seven and one eight bytes too large, up to
  the largest SAck that `update` accepts and one it refuses; received bytes of up to
  three options with lengths that are right, too small, too large or no multiple
  of a SAck block, and of an unknown kind; `offset` and `ihl` from 0 to 15, so that
  the limit falls before, inside and behind each of them.
- `checksum`: `B = 2` and every input of up to 13 bytes. The accumulator has 16
  values and overflows from 6 words on, so both sides of `Fits` are reached.
- `parser`: sizes at which each layer of a stack just fits or lacks a byte; up
  to two bindings a type, registered in any order on the default or the empty
  table, leading to custom layers of zero or two bytes.
- `copy`: every capture of at most four records, of either link type.
- `datalink`: four captured frames and three writes, which are two rounds of the
  echo behind any frame.

- `http`: two clients, sequence numbers modulo 16 that wrap at once, on both sides,
  and one connection each.

`checksum`, `options`, `roundtrip`, `copy`, `copy_each`, `datalink` and `http` do
not check for deadlock: one call of `checksum` or of a parser returns, a packet
that was received and finalized is at its end, and the programs may exit. All
other runs check it.

### Fairness

`PacketParser` assumes weak fairness of `Step`: a running `parse_packet` never
waits, so it goes on. The caller's actions are not fair. `Terminates` needs that
bindings do not chain zero-byte custom layers in a cycle: with such a cycle the
loop of `parse_packet` does not end, and the rules of the runs have none.
`PcapCopy` assumes weak fairness of `Next`: neither program waits for anything.
`ForLoopEnds` is about the iterator; a client that calls `read` until `Eof` ends
on a corrupt record only if `pcap_file` moves past it.
`Datalink` assumes weak fairness of `ReadPacket \/ ReadRejected`: a program that
goes on reading gets a frame the device holds at some time, however often the
device reports an error before. Nothing is assumed of arrivals, writes or the
other programs.

`HttpServer` assumes that the server's start-up completes (weak fairness of
`Open`), that clients go on retransmitting, and that a frame sent again and again
is captured, and a reply sent again and again received, at some time (strong
fairness: a lossy network that is not a broken one). `EveryoneServed` is further
conditioned on the server running, since a single rejected frame ends it.

## What is proved

Every safety invariant of the passing runs is a theorem, for
every value of the constants that satisfies the named assumptions, and so are the
action property `CorrectIsStable` and the safety part of the refinement. The
theorems are listed in `PROJECT.json`; this is how they are argued.

**Induction.** Several arguments are about sequences of any length. TLAPS's
induction theorems take a predicate as a parameter, which the provers at hand
cannot instantiate. `NatSetInduction` is about a set instead: one that holds 0
and, with every number, its successor, holds all numbers. It is derived from
the well-foundedness of strict inclusion on finite sets. With it, a recursive
function of a model (`Total`, `OnesSum`, `FlattenSeq`, the walk of `WellFormed`) is
shown to exist and to be the only one, so that its defining equation can be used.

**Packet.** All theorems are `ChecksumTyped => (Spec => ...)`: for every set of
stacks, edits, addresses and contents, and every checksum whose values fit the
field.

- `FinalizeEffect`: each `finalize` action leaves all layers but the visited one
  alone and changes the visited one only by padding and by writing `len`,
  `words` and `sum` in range. `OwnerEffect` is the same for the owner's actions.
- `IInv` is the conjunction of `TypeOK`, `PartialFailure`, `OnlyDependentFields`,
  `OwnSumsRight`, `OffsetsRight` and `PassedOffsets`. The last is the strengthening:
  `OffsetsRight` speaks of the end of a call, and only holds there because it
  holds during the loop for every layer already passed. `PartialFailure`
  supplies what `OnlyDependentFields` needs, namely that the layer about to be
  visited is still the caller's.
- `CorrectIsStableHolds`: in a correct packet every value a `finalize` action
  assigns is the one already there, because `Correct` states them independently.
- `Converges`: `CInv` counts for every layer the calls after which its offset,
  its length and its checksum are right, in the loop separately for the layers
  already visited in this pass. A layer's checksum covers the ones inside it, so
  the count goes up by one with every transport layer inside (`DepthFacts`). Once
  offsets are right no layer changes its size, and lengths stay right.
- `LengthDeficit` and `IpGuardsInside`: `DInv` relates the layers to `before`. A
  length written in this call is that of the old layers inside; they were
  not visited yet. An IP length that fitted a u16 bounds all lengths inside it.
- `OnePassEnough`: `OInv`, that in a packet prepared as stated the layers visited
  so far are right, because nothing inside them will be written any more.

**RoundTrip.** `RTInv` adds to `IInv` what the frame is (`FrameSent`), that a capture
starts as what the parser made of it (`Stages`), and what finalizing may do to it
(`Adopting`). For any frame, the parser loses no byte and invents none
(`ParsedBytes`, by induction from the layer where it stops). `FinalizedComesBack` is
an equivalence: `DescribedUnderstood` and `ParsedWell` give one direction,
`BackDescribed` the other, and `CountedIs` says which `ihl` and `offset` count the
options. For `CaptureStable`, a correct packet that can be
serialized does not fail (`NoFail`) and is not changed (`RightStep`). For
`PaddingAdopted`, the Tcp headers of a correct frame are aligned, so no layer
changes its size, and every length is computed from the sizes the parser found.
The proof needed two corrections of the properties: an `ihl` of 21, which `to_bytes`
truncates to 5, comes back as 5 from a header without options and is misread with
the 64 bytes of options it counts. `HeadersFit` and `SentWell` now say so, and
`roundtrip` has both packets.

**IpChecksum.** For every base `B`: the accumulator after `k` chunks is at most
`k * (W - 1)`, and two folds of anything below `W^2` give less than `W` (`NoPanic`,
`CastExact`). For `MatchesReference`, `RInv` says that the accumulator has the same
one's complement value as the reference sum of the words added so far, that is
the same remainder modulo `W - 1`, and is zero only if the sum is; folding
preserves both. `VerifiesToZero` compares the reference sums of the input and of
the input with the checksum stored (`SideBySide`).

**PacketParser.** `IInv` says how far the search has come: no callback above `cb`
had an answer for the layer in hand, and a parser that was found is what the last
rule with an answer says. `ChainRefined` maps each step to one of LayerChain or to
none. `DefaultShape` and `DefaultConsumesAll` follow from `Climbing`: under the default
bindings the rank of the layers (Ether, IP, transport, rest) climbs, so there are
at most four, and the last one to be reached takes all that is left.

**Options.** `Inv` adds to the types that what was read could have been built and
that its bytes are those consumed, which gives `HeaderExact` because reading ends
at the limit only. `OptionsComeBack` rests on `ReadBack` (the parser reads an option
back from its bytes, whatever follows, if the length it looks at is right) and on
`UInv`: the options read so far are the first of those sent. For the converse,
`UInv` also says that every option that was read has a right length
(`ParsedRight`), so one that has not cannot be among them. `WellFormedAccepted`
rests on `WInv`: the parser is always at a place the walk over the length bytes
passes. A first version of `ValueBytes` had a `CASE` with overlapping guards, to
which TLA+ gives no definite value; the attempt to prove `ReadBack` showed it.

**PcapCopy, Datalink.** The inductive invariants say where the frame in hand is,
that all frames before the position are accounted for, and which states the
programs can be in; `InOrder` and `NothingSkipped` are stated by order and by set, so
that they need no induction. Captures, frames and writes are of any number.

**HttpServer.** Every frame in flight is `Known`: it carries what its client sent,
or what the server computed from such a frame. As the server remembers nothing
and the clients only advance, frames stay known however they are repeated,
reordered or padded. Arithmetic is modulo any `SeqMod`.

Assumptions, beside the types of the constants: a request has at least four bytes
(`GetBytes`), the "GET " that the server looks for; options of
`Built` are `Buildable`; `Regular` are contents; `Fits` for the checksum, that is at most 65537 words, as
`NoPanic` explains. TLC evaluates all of them on the constants of the runs.

Only model-checked: liveness under fairness
(`Terminates`, `ForLoopEnds`, `RejectedPassed`, `EveryoneServed`, the fairness of
`ImplementsLayerChain`), which is out of the prover's reach.

## Not modelled

- Owned halves of an interface on two threads: no code of the repository does it,
  and the halves share no state of nata's.
- What a misread frame is parsed into; `PacketParser` has the layers any bytes may
  give, without their contents.
- A Udp checksum of zero, which means "none" on the wire: checksums are
  uninterpreted where Udp is modelled.
- Hard links between input and output of `read_write_pcap`, which `canonicalize`
  does not resolve; timestamps of captures, which nothing reads.
- The enumerations beyond the values a binding tells apart; the examples
  `build_packet` and `custom_layer`, straight-line uses of what is modelled;
  benchmarks, fuzz targets and tests. `no_std` and the feature flags change what
  is compiled, not what it does.

## Plan

Done: Layers, Packet, IpChecksum, LayerChain and PacketParser, Options, PcapCopy,
Datalink, HttpServer and RoundTrip with the proofs of their invariants.

Left: `Fails` of PacketParser derived from Options.
