---------------------------- MODULE PacketParser ----------------------------
(***************************************************************************)
(* PacketParser: bind_layer pushes bindings, parse_packet walks the input  *)
(* layer by layer.  For each layer it runs the bindings registered for the *)
(* layer's type from the last inserted to the first, one callback a step,  *)
(* and parses on with the first parser returned.                           *)
(*                                                                         *)
(* Bytes are counted, not represented: which layer a parser returns is any *)
(* that n bytes can hold, its value being what the bindings look at.       *)
(***************************************************************************)
EXTENDS Integers, Sequences

CONSTANTS
    None,           \* a callback returned None
    Custom,         \* layer types defined outside the crate
    CustomSizes,    \* bytes a custom layer takes
    OptionSizes,    \* bytes of Ipv4 and Tcp options, multiples of 4 up to 40
    Rules,          \* bindings a caller may register
    InitialRules,   \* tables a parser starts from
    StartTypes,     \* types parse_packet is called with
    InputSizes,     \* lengths of the inputs
    MaxRules        \* bound on the bindings of one type

VARIABLES
    layer_bindings,   \* for each TypeId, its callbacks in insertion order
    pc,               \* "idle", "loop", "lookup" or "parse"
    layers,           \* layers pushed so far
    current_layer,    \* a sequence of at most one layer
    rest,             \* bytes left
    cb,               \* callbacks still to try
    parser,           \* next_layer_parser
    result            \* "none", "ok", "incomplete" or "error"

vars == <<layer_bindings, pc, layers, current_layer, rest, cb, parser, result>>

BuiltIn == {"Ether", "Ipv4", "Ipv6", "Tcp", "Udp", "Icmp4", "Raw"}
Types == BuiltIn \cup Custom

(* ether_type, protocol and next_header, as far as a binding asks.         *)
EtherTypes == {"IPv4", "IPv6", "Other"}
IpProtocols == {"TCP", "UDP", "ICMP", "Other"}
AppValues == {"App", "Other"}   \* a port or payload a caller's binding knows
Values == EtherTypes \cup IpProtocols \cup AppValues

Callback == [Values -> Types \cup {None}]

ASSUME TypesAssumption == None \notin Types /\ StartTypes \subseteq Types
ASSUME RulesAssumption ==
    Rules \subseteq Types \X Callback /\ InitialRules \subseteq [Types -> Seq(Callback)]
ASSUME SizesAssumption ==
    OptionSizes \subseteq Nat /\ CustomSizes \subseteq Nat /\ InputSizes \subseteq Nat

-----------------------------------------------------------------------------
(* LayerExt::parse of each layer: what n bytes may be parsed to, and how   *)
(* parsing them may fail.                                                  *)

L(type, value, size) == [type |-> type, value |-> value, size |-> size]

ParsedEther(n) == {L("Ether", v, 14) : v \in {e \in EtherTypes : n >= 14}}

ParsedIpv4(n) ==
    {L("Ipv4", v, 20 + o) : v \in IpProtocols, o \in {x \in OptionSizes : 20 + x <= n}}

ParsedIpv6(n) == {L("Ipv6", v, 40) : v \in {p \in IpProtocols : n >= 40}}

ParsedTcp(n) ==
    {L("Tcp", v, 20 + o) : v \in AppValues, o \in {x \in OptionSizes : 20 + x <= n}}

ParsedUdp(n) == {L("Udp", v, 8) : v \in {a \in AppValues : n >= 8}}

(* Mutant: the data of an ICMP message is left unread.                     *)
ParsedIcmp4Header(n) == {L("Icmp4", "Other", s) : s \in {8} \cap 0 .. n}

ParsedIcmp4(n) == {L("Icmp4", "Other", s) : s \in {n} \ 0 .. 7}

ParsedRaw(n) == {L("Raw", "Other", n)}

ParsedCustom(t, n) == {L(t, "Other", s) : s \in CustomSizes \cap 0 .. n}

Parsed(t, n) ==
    CASE t = "Ether" -> ParsedEther(n)
      [] t = "Ipv4"  -> ParsedIpv4(n)
      [] t = "Ipv6"  -> ParsedIpv6(n)
      [] t = "Tcp"   -> ParsedTcp(n)
      [] t = "Udp"   -> ParsedUdp(n)
      [] t = "Icmp4" -> ParsedIcmp4(n)
      [] t = "Raw"   -> ParsedRaw(n)
      [] OTHER       -> ParsedCustom(t, n)

FixedPart(t) ==
    CASE t = "Ether" -> 14
      [] t \in {"Ipv4", "Tcp"} -> 20
      [] t = "Ipv6" -> 40
      [] t \in {"Udp", "Icmp4"} -> 8
      [] OTHER -> 0

(* Too few bytes for the fixed part or for the options the header counts,  *)
(* where deku reads on past an option that crosses their end; a Tcp offset *)
(* below five, an option of impossible length, in Tcp one of unknown kind. *)
Fails(t, n) ==
    {e \in {"incomplete", "error"} :
        \/ e = "incomplete" /\ (n < FixedPart(t) \/ t \in {"Ipv4", "Tcp"})
        \/ e = "error" /\ t = "Ipv4" /\ n >= 22
        \/ e = "error" /\ t = "Tcp" /\ n >= 20
        \/ t \in Custom}

-----------------------------------------------------------------------------
(* Mutant: every Udp payload is taken for a tunnelled Ethernet frame.      *)
DefaultRulesTunnel ==
    [t \in Types |->
        CASE t = "Ether" -> <<[v \in Values |-> "Ipv4"]>>
          [] t = "Ipv4" -> <<[v \in Values |-> "Udp"]>>
          [] t = "Udp" -> <<[v \in Values |-> "Ether"]>>
          [] OTHER -> <<>>]

(* The bindings of create_packetparser.                                    *)
DefaultRules ==
    [t \in Types |->
        CASE t = "Ether" ->
                <<[v \in Values |-> CASE v = "IPv4" -> "Ipv4"
                                      [] v = "IPv6" -> "Ipv6"
                                      [] OTHER -> "Raw"]>>
          [] t = "Ipv4" ->
                <<[v \in Values |-> CASE v = "TCP" -> "Tcp"
                                      [] v = "UDP" -> "Udp"
                                      [] v = "ICMP" -> "Icmp4"
                                      [] OTHER -> "Raw"]>>
          [] t = "Ipv6" ->
                <<[v \in Values |-> CASE v = "TCP" -> "Tcp"
                                      [] v = "UDP" -> "Udp"
                                      [] OTHER -> "Raw"]>>
          [] t \in {"Tcp", "Udp"} -> <<[v \in Values |-> "Raw"]>>
          [] OTHER -> <<>>]

WithoutBindings == [t \in Types |-> <<>>]

Init ==
    /\ layer_bindings \in InitialRules
    /\ pc = "idle"
    /\ layers = <<>>
    /\ current_layer = <<>>
    /\ rest = 0
    /\ cb = 0
    /\ parser = None
    /\ result = "none"

(* bind_layer needs the parser exclusively: never during a parse.          *)
BindLayer ==
    /\ pc = "idle" /\ result = "none"
    /\ \E r \in Rules :
           /\ Len(layer_bindings[r[1]]) < MaxRules
           /\ layer_bindings' = [layer_bindings EXCEPT ![r[1]] = Append(@, r[2])]
    /\ UNCHANGED <<pc, layers, current_layer, rest, cb, parser, result>>

(* Mutant: the layer in hand survives the error.                           *)
ReturnErrorKeeping(e) ==
    /\ pc' = "idle"
    /\ layers' = <<>>
    /\ UNCHANGED current_layer
    /\ result' = e

(* An error drops every layer parsed so far.                               *)
ReturnError(e) ==
    /\ pc' = "idle"
    /\ layers' = <<>>
    /\ current_layer' = <<>>
    /\ result' = e

ParsePacket ==
    /\ pc = "idle" /\ result = "none"
    /\ \E t \in StartTypes, n \in InputSizes :
           \/ \E l \in Parsed(t, n) :
                  /\ current_layer' = <<l>>
                  /\ rest' = n - l.size
                  /\ layers' = <<>>
                  /\ pc' = "loop"
                  /\ result' = "none"
           \/ \E e \in Fails(t, n) : ReturnError(e) /\ rest' = n
    /\ UNCHANGED <<layer_bindings, cb, parser>>

(* The caller is done with what parse_packet returned.                     *)
Drop ==
    /\ pc = "idle" /\ result # "none"
    /\ layers' = <<>>
    /\ rest' = 0
    /\ result' = "none"
    /\ UNCHANGED <<layer_bindings, pc, current_layer, cb, parser>>

Current == current_layer[1]

LookUp ==
    /\ pc = "loop" /\ rest > 0
    /\ cb' = Len(layer_bindings[Current.type])
    /\ pc' = "lookup"
    /\ UNCHANGED <<layer_bindings, layers, current_layer, rest, parser, result>>

(* Mutants: callbacks run from the first inserted; the loop over them does *)
(* not advance.                                                            *)
RunCallbackForward ==
    /\ pc = "lookup" /\ cb > 0
    /\ LET table  == layer_bindings[Current.type]
           answer == table[Len(table) + 1 - cb][Current.value]
       IN  \/ answer = None /\ cb' = cb - 1 /\ UNCHANGED <<pc, parser>>
           \/ answer # None /\ parser' = answer /\ pc' = "parse" /\ UNCHANGED cb
    /\ UNCHANGED <<layer_bindings, layers, current_layer, rest, result>>

RunCallbackStuck ==
    /\ pc = "lookup" /\ cb > 0
    /\ LET answer == layer_bindings[Current.type][cb][Current.value]
       IN  \/ answer = None /\ UNCHANGED <<pc, parser, cb>>
           \/ answer # None /\ parser' = answer /\ pc' = "parse" /\ UNCHANGED cb
    /\ UNCHANGED <<layer_bindings, layers, current_layer, rest, result>>

RunCallback ==
    /\ pc = "lookup" /\ cb > 0
    /\ LET answer == layer_bindings[Current.type][cb][Current.value]
       IN  \/ answer = None /\ cb' = cb - 1 /\ UNCHANGED <<pc, parser>>
           \/ answer # None /\ parser' = answer /\ pc' = "parse" /\ UNCHANGED cb
    /\ UNCHANGED <<layer_bindings, layers, current_layer, rest, result>>

ParseNext ==
    /\ pc = "parse"
    /\ \/ \E l \in Parsed(parser, rest) :
              /\ rest' = rest - l.size
              /\ layers' = Append(layers, Current)
              /\ current_layer' = <<l>>
              /\ pc' = "loop"
              /\ UNCHANGED result
       \/ \E e \in Fails(parser, rest) : ReturnError(e) /\ UNCHANGED rest
    /\ cb' = 0
    /\ parser' = None
    /\ UNCHANGED layer_bindings

(* Nothing left to parse, or no callback returned a parser.                *)
Return ==
    /\ \/ pc = "loop" /\ rest = 0
       \/ pc = "lookup" /\ cb = 0
    /\ layers' = Append(layers, Current)
    /\ current_layer' = <<>>
    /\ pc' = "idle"
    /\ result' = "ok"
    /\ UNCHANGED <<layer_bindings, rest, cb, parser>>

Step == LookUp \/ RunCallback \/ ParseNext \/ Return

Next == BindLayer \/ ParsePacket \/ Drop \/ Step

(* Nothing suspends a running parse_packet.                                *)
Spec == Init /\ [][Next]_vars /\ WF_vars(Step)

-----------------------------------------------------------------------------
(* Properties.                                                             *)

Layer == [type : Types, value : Values, size : Nat]

(* Every variable has its type, and a layer is being parsed whenever the   *)
(* loop runs.                                                              *)
TypeOK ==
    /\ layer_bindings \in [Types -> Seq(Callback)]
    /\ pc \in {"idle", "loop", "lookup", "parse"}
    /\ layers \in Seq(Layer)
    /\ current_layer \in Seq(Layer)
    /\ Len(current_layer) = IF pc = "idle" THEN 0 ELSE 1
    /\ rest \in Nat
    /\ cb \in Nat
    /\ parser \in Types \cup {None}
    /\ (pc = "parse") = (parser # None)
    /\ result \in {"none", "ok", "incomplete", "error"}

(* What PacketParser promises: module LayerChain.                          *)
Chain == INSTANCE LayerChain WITH
    rules  <- layer_bindings,
    chain  <- layers \o current_layer,
    status <- IF pc = "idle" THEN result ELSE "parsing"

(* The loop over the callbacks of parse_packet implements "the last        *)
(* binding that returns a parser decides", and it ends whenever the chain  *)
(* of layers does.                                                         *)
ImplementsLayerChain == Chain!Spec

(* With the default bindings a successful parse that started at a layer of *)
(* the crate leaves nothing: each of them either has a binding for every   *)
(* value or takes all it gets.                                             *)
DefaultConsumesAll ==
    layer_bindings = DefaultRules /\ result = "ok" /\ layers[1].type \in BuiltIn =>
        rest = 0

(* With the default bindings a packet has at most four layers, and only    *)
(* the last can be Raw or Icmp4.                                           *)
DefaultShape ==
    layer_bindings = DefaultRules =>
        LET all == layers \o current_layer
        IN  /\ Len(all) <= 4
            /\ \A n \in 1 .. Len(all) - 1 : all[n].type \notin {"Raw", "Icmp4"}

(* parse_packet returns, whatever bindings were registered, when no chain  *)
(* of custom layers can be parsed from zero bytes for ever.                *)
Terminates == pc # "idle" ~> pc = "idle"
=============================================================================
