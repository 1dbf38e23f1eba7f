------------------------- MODULE PacketParserProofs -------------------------
(***************************************************************************)
(* Proofs about PacketParser for every set of custom layers, table of      *)
(* bindings and input: parse_packet implements LayerChain step by step,    *)
(* and what the default bindings guarantee.                                *)
(***************************************************************************)
EXTENDS PacketParser, SequenceTheorems, TLAPS

Table == layer_bindings[Current.type]

(* Only a successful parse leaves layers, and none has a result while it   *)
(* runs.                                                                   *)
Phases ==
    /\ pc = "idle" /\ result # "ok" => layers = <<>>
    /\ pc # "idle" => result = "none"

(* In the loop over the callbacks, those already tried had no opinion.     *)
Tried ==
    pc = "lookup" =>
        /\ rest > 0 /\ cb <= Len(Table)
        /\ \A k \in cb + 1 .. Len(Table) : Table[k][Current.value] = None

(* The parser found is the one the chain of layers goes on with.           *)
Found == pc = "parse" => rest > 0 /\ parser = Chain!Verdict(Table, Current.value)

IInv == TypeOK /\ Phases /\ Tried /\ Found

-----------------------------------------------------------------------------
(* The layer in hand, and where it stands in the chain.                    *)
LEMMA HandedLayer ==
    ASSUME TypeOK, pc # "idle"
    PROVE  /\ current_layer = <<Current>> /\ Current \in Layer
           /\ Current.type \in Types /\ Current.value \in Values
           /\ Table \in Seq(Callback)
<1>1. current_layer \in Seq(Layer) /\ Len(current_layer) = 1
  BY DEF TypeOK
<1>2. Current \in Layer
  BY <1>1, ElementOfSeq DEF Current
<1>3. current_layer = <<Current>>
  BY <1>1, <1>2 DEF Current
<1>4. Current.type \in Types /\ Current.value \in Values
  BY <1>2 DEF Layer
<1> QED BY <1>2, <1>3, <1>4 DEF TypeOK, Table

(* The layer in hand is the last one of the chain that was parsed.         *)
LEMMA HandedLast ==
    ASSUME TypeOK, pc # "idle"
    PROVE  LET all == layers \o current_layer
           IN  all = Append(layers, Current) /\ all[Len(all)] = Current
<1>1. current_layer = <<Current>> /\ Current \in Layer
  BY HandedLayer
<1>2. layers \in Seq(Layer)
  BY DEF TypeOK
<1>3. layers \o <<Current>> = Append(layers, Current)
  BY <1>1, <1>2, AppendIsConcat
<1>4. LET all == Append(layers, Current) IN all[Len(all)] = Current
  BY <1>1, <1>2, AppendProperties
<1> QED BY <1>1, <1>3, <1>4

(* A parser returns a layer of its type that the input holds; Raw and      *)
(* Icmp4 take all of it.                                                   *)
LEMMA ParsedLayer ==
    ASSUME NEW t \in Types, NEW n \in Nat, NEW l \in Parsed(t, n)
    PROVE  /\ l \in Layer /\ l.type = t /\ n - l.size \in Nat
           /\ t \in {"Raw", "Icmp4"} => n - l.size = 0
<1>1. CASE t = "Ether"
  BY <1>1, 14 \in Nat DEF Parsed, ParsedEther, L, Layer, Values, EtherTypes
<1>2. CASE t = "Ipv4"
  BY <1>2, SizesAssumption DEF Parsed, ParsedIpv4, L, Layer, Values, IpProtocols
<1>3. CASE t = "Ipv6"
  BY <1>3 DEF Parsed, ParsedIpv6, L, Layer, Values, IpProtocols
<1>4. CASE t = "Tcp"
  BY <1>4, SizesAssumption DEF Parsed, ParsedTcp, L, Layer, Values, AppValues
<1>5. CASE t = "Udp"
  BY <1>5 DEF Parsed, ParsedUdp, L, Layer, Values, AppValues
<1>6. CASE t = "Icmp4"
  BY <1>6 DEF Parsed, ParsedIcmp4, L, Layer, Values, AppValues
<1>7. CASE t = "Raw"
  BY <1>7 DEF Parsed, ParsedRaw, L, Layer, Values, AppValues
<1>8. CASE t \notin BuiltIn
  <2>1. l \in ParsedCustom(t, n)
    BY <1>8 DEF Parsed, BuiltIn
  <2> QED BY <1>8, <2>1, SizesAssumption
          DEF ParsedCustom, L, Layer, Values, AppValues, BuiltIn
<1> QED BY <1>1, <1>2, <1>3, <1>4, <1>5, <1>6, <1>7, <1>8 DEF BuiltIn

(* The parsers fail with one of two errors.                                *)
LEMMA FailsType ==
    ASSUME NEW t, NEW n, NEW e \in Fails(t, n)
    PROVE  e \in {"incomplete", "error"}
  BY DEF Fails

(* Running the callbacks from the last backwards finds the verdict: the    *)
(* first answer met is that of the last binding that has one.              *)
LEMMA VerdictFound ==
    ASSUME NEW table \in Seq(Callback), NEW value \in Values,
           NEW n \in 1 .. Len(table), table[n][value] # None,
           \A k \in n + 1 .. Len(table) : table[k][value] = None
    PROVE  Chain!Verdict(table, value) = table[n][value]
<1> DEFINE A == Chain!Answering(table, value)
<1>1. DOMAIN table = 1 .. Len(table) /\ Len(table) \in Nat
  BY LenProperties
<1>2. n \in A /\ \A m \in A : m \in 1 .. Len(table) /\ m <= n
  BY <1>1 DEF Chain!Answering
<1> DEFINE last == CHOOSE k \in A : \A m \in A : m <= k
<1>3. last \in A /\ \A m \in A : m <= last
  BY <1>2
<1>4. last = n
  <2> HIDE DEF last, A
  <2> QED BY <1>1, <1>2, <1>3
<1>5. A # {}
  BY <1>2
<1> QED BY <1>4, <1>5 DEF Chain!Verdict

(* When every callback returned None, so does the table.                   *)
LEMMA NoVerdict ==
    ASSUME NEW table \in Seq(Callback), NEW value \in Values,
           \A k \in 1 .. Len(table) : table[k][value] = None
    PROVE  Chain!Verdict(table, value) = None
<1>1. DOMAIN table = 1 .. Len(table)
  BY LenProperties
<1>2. Chain!Answering(table, value) = {}
  BY <1>1 DEF Chain!Answering
<1> QED BY <1>2 DEF Chain!Verdict

-----------------------------------------------------------------------------
(* The inductive invariant, one action at a time.                          *)

(* Binding a callback preserves the inductive invariant.                   *)
LEMMA BindLayerStep ==
    ASSUME IInv, BindLayer
    PROVE  IInv'
<1>1. PICK r \in Rules : layer_bindings' = [layer_bindings EXCEPT ![r[1]] = Append(@, r[2])]
  BY DEF BindLayer
<1>2. r[1] \in Types /\ r[2] \in Callback
  BY RulesAssumption
<1>3. /\ pc = "idle"
      /\ UNCHANGED <<pc, layers, current_layer, rest, cb, parser, result>>
  BY DEF BindLayer
<1>4. layer_bindings' \in [Types -> Seq(Callback)]
  <2>1. layer_bindings[r[1]] \in Seq(Callback)
    BY <1>2 DEF IInv, TypeOK
  <2>2. Append(layer_bindings[r[1]], r[2]) \in Seq(Callback)
    BY <1>2, <2>1, AppendProperties
  <2> QED BY <1>1, <2>2 DEF IInv, TypeOK
<1>5. TypeOK'
  BY <1>3, <1>4 DEF IInv, TypeOK
<1> QED BY <1>3, <1>5 DEF IInv, Phases, Tried, Found

(* Parsing the first layer preserves the inductive invariant, whether it   *)
(* succeeds or not.                                                        *)
LEMMA ParsePacketStep ==
    ASSUME IInv, ParsePacket
    PROVE  IInv'
<1>1. PICK t \in StartTypes, n \in InputSizes :
          \/ \E l \in Parsed(t, n) :
                 /\ current_layer' = <<l>> /\ rest' = n - l.size
                 /\ layers' = <<>> /\ pc' = "loop" /\ result' = "none"
          \/ \E e \in Fails(t, n) : ReturnError(e) /\ rest' = n
  BY DEF ParsePacket
<1>2. t \in Types /\ n \in Nat
  BY TypesAssumption, SizesAssumption
<1>3. /\ pc = "idle" /\ UNCHANGED <<layer_bindings, cb, parser>>
  BY DEF ParsePacket
<1>4. CASE \E l \in Parsed(t, n) :
               /\ current_layer' = <<l>> /\ rest' = n - l.size
               /\ layers' = <<>> /\ pc' = "loop" /\ result' = "none"
  <2>1. PICK l \in Parsed(t, n) :
               /\ current_layer' = <<l>> /\ rest' = n - l.size
               /\ layers' = <<>> /\ pc' = "loop" /\ result' = "none"
    BY <1>4
  <2>2. l \in Layer /\ n - l.size \in Nat
    BY <1>2, ParsedLayer
  <2>3. current_layer' \in Seq(Layer) /\ Len(current_layer') = 1 /\ layers' \in Seq(Layer)
    BY <2>1, <2>2
  <2>4. TypeOK'
    BY <1>3, <2>1, <2>2, <2>3 DEF IInv, TypeOK
  <2> QED BY <2>1, <2>4 DEF IInv, Phases, Tried, Found
<1>5. CASE \E e \in Fails(t, n) : ReturnError(e) /\ rest' = n
  <2>1. PICK e \in Fails(t, n) : ReturnError(e) /\ rest' = n
    BY <1>5
  <2>2. e \in {"incomplete", "error"}
    BY FailsType
  <2>3. TypeOK'
    BY <1>2, <1>3, <2>1, <2>2, EmptySeq DEF IInv, TypeOK, ReturnError
  <2> QED BY <2>1, <2>2, <2>3 DEF IInv, Phases, Tried, Found, ReturnError
<1> QED BY <1>1, <1>4, <1>5

(* Dropping the result preserves the inductive invariant.                  *)
LEMMA DropStep ==
    ASSUME IInv, Drop
    PROVE  IInv'
<1>1. TypeOK'
  BY EmptySeq DEF IInv, TypeOK, Drop
<1> QED BY <1>1 DEF IInv, Phases, Tried, Found, Drop

(* Looking up the callbacks of a layer preserves the inductive invariant.  *)
LEMMA LookUpStep ==
    ASSUME IInv, LookUp
    PROVE  IInv'
<1>1. /\ pc = "loop" /\ rest > 0 /\ cb' = Len(Table) /\ pc' = "lookup"
      /\ UNCHANGED <<layer_bindings, layers, current_layer, rest, parser, result>>
  BY DEF LookUp, Table
<1>2. Len(Table) \in Nat
  BY <1>1, HandedLayer, LenProperties DEF IInv
<1>3. TypeOK'
  BY <1>1, <1>2 DEF IInv, TypeOK
<1>4. Tried'
  <2>1. Table' = Table
    BY <1>1 DEF Table, Current
  <2> QED BY <1>1, <1>2, <2>1 DEF Tried
<1> QED BY <1>1, <1>3, <1>4 DEF IInv, Phases, Found

(* Running one callback preserves the inductive invariant: those tried     *)
(* before it had no answer.                                                *)
LEMMA RunCallbackStep ==
    ASSUME IInv, RunCallback
    PROVE  IInv'
<1> DEFINE answer == Table[cb][Current.value]
<1>1. /\ pc = "lookup" /\ cb > 0
      /\ UNCHANGED <<layer_bindings, layers, current_layer, rest, result>>
      /\ \/ answer = None /\ cb' = cb - 1 /\ UNCHANGED <<pc, parser>>
         \/ answer # None /\ parser' = answer /\ pc' = "parse" /\ UNCHANGED cb
  BY DEF RunCallback, Table
<1>2. /\ Table \in Seq(Callback) /\ Current.value \in Values
      /\ Len(Table) \in Nat /\ cb \in 1 .. Len(Table) /\ cb \in Nat /\ rest > 0
      /\ \A k \in cb + 1 .. Len(Table) : Table[k][Current.value] = None
  <2>1. Table \in Seq(Callback) /\ Current.value \in Values /\ Len(Table) \in Nat
    BY <1>1, HandedLayer, LenProperties DEF IInv
  <2> QED BY <1>1, <2>1 DEF IInv, TypeOK, Tried
<1>3. answer \in Types \cup {None}
  <2>1. Table[cb] \in Callback
    BY <1>2, ElementOfSeq
  <2> QED BY <1>2, <2>1 DEF Callback
<1>4. Table' = Table /\ Current' = Current
  BY <1>1 DEF Table, Current
<1>5. CASE answer = None /\ cb' = cb - 1 /\ UNCHANGED <<pc, parser>>
  <2>1. TypeOK'
    BY <1>1, <1>2, <1>5 DEF IInv, TypeOK
  <2>2. Tried'
    <3>1. \A k \in cb .. Len(Table) : Table[k][Current.value] = None
      <4> TAKE k \in cb .. Len(Table)
      <4>1. k = cb \/ k \in cb + 1 .. Len(Table)
        BY <1>2
      <4> QED BY <1>2, <1>5, <4>1
    <3>2. (cb - 1) + 1 = cb /\ cb - 1 <= Len(Table)
      BY <1>2
    <3> QED BY <1>1, <1>2, <1>4, <1>5, <3>1, <3>2 DEF Tried
  <2> QED BY <1>1, <1>5, <2>1, <2>2 DEF IInv, Phases, Found
<1>6. CASE answer # None /\ parser' = answer /\ pc' = "parse" /\ UNCHANGED cb
  <2>1. TypeOK'
    BY <1>1, <1>2, <1>3, <1>6 DEF IInv, TypeOK
  <2>2. Chain!Verdict(Table, Current.value) = answer
    BY <1>2, <1>6, VerdictFound
  <2>3. Found'
    BY <1>1, <1>2, <1>4, <1>6, <2>2 DEF Found, Chain!Verdict, Chain!Answering
  <2> QED BY <1>1, <1>6, <2>1, <2>3 DEF IInv, Phases, Tried
<1> QED BY <1>1, <1>5, <1>6

(* Parsing the next layer preserves the inductive invariant, whether it    *)
(* succeeds or not.                                                        *)
LEMMA ParseNextStep ==
    ASSUME IInv, ParseNext
    PROVE  IInv'
<1>1. /\ pc = "parse" /\ cb' = 0 /\ parser' = None /\ UNCHANGED layer_bindings
      /\ \/ \E l \in Parsed(parser, rest) :
                /\ rest' = rest - l.size /\ layers' = Append(layers, Current)
                /\ current_layer' = <<l>> /\ pc' = "loop" /\ UNCHANGED result
         \/ \E e \in Fails(parser, rest) : ReturnError(e) /\ UNCHANGED rest
  BY DEF ParseNext
<1>2. parser \in Types /\ rest \in Nat
  BY <1>1 DEF IInv, TypeOK
<1>3. ASSUME NEW l \in Parsed(parser, rest), rest' = rest - l.size,
             layers' = Append(layers, Current), current_layer' = <<l>>,
             pc' = "loop", UNCHANGED result
      PROVE  IInv'
  <2>1. l \in Layer /\ rest - l.size \in Nat
    BY <1>2, ParsedLayer
  <2>2. current_layer' \in Seq(Layer) /\ Len(current_layer') = 1
    BY <1>3, <2>1
  <2>3. layers' \in Seq(Layer)
    BY <1>1, <1>3, HandedLayer, AppendProperties DEF IInv, TypeOK
  <2>4. TypeOK'
    BY <1>1, <1>3, <2>1, <2>2, <2>3 DEF IInv, TypeOK
  <2> QED BY <1>1, <1>3, <2>4 DEF IInv, Phases, Tried, Found
<1>4. ASSUME NEW e \in Fails(parser, rest), ReturnError(e), UNCHANGED rest
      PROVE  IInv'
  <2>1. e \in {"incomplete", "error"}
    BY FailsType
  <2>2. TypeOK'
    BY <1>1, <1>2, <1>4, <2>1, EmptySeq DEF IInv, TypeOK, ReturnError
  <2> QED BY <1>4, <2>1, <2>2 DEF IInv, Phases, Tried, Found, ReturnError
<1> QED BY <1>1, <1>3, <1>4

(* Returning the layers preserves the inductive invariant.                 *)
LEMMA ReturnStep ==
    ASSUME IInv, Return
    PROVE  IInv'
<1>1. /\ pc \in {"loop", "lookup"} /\ layers' = Append(layers, Current)
      /\ current_layer' = <<>> /\ pc' = "idle" /\ result' = "ok"
      /\ UNCHANGED <<layer_bindings, rest, cb, parser>>
  BY DEF Return
<1>2. layers' \in Seq(Layer)
  BY <1>1, HandedLayer, AppendProperties DEF IInv, TypeOK
<1>3. TypeOK'
  BY <1>1, <1>2, EmptySeq DEF IInv, TypeOK
<1> QED BY <1>1, <1>3 DEF IInv, Phases, Tried, Found

(* So does a step that changes nothing.                                    *)
LEMMA Stutter ==
    ASSUME IInv, UNCHANGED vars
    PROVE  IInv'
  BY DEF vars, IInv, TypeOK, Phases, Tried, Found, Table, Current, Chain!Verdict,
         Chain!Answering

(* The invariant holds initially and every step preserves it.              *)
THEOREM Invariance == Spec => []IInv
<1>1. Init => IInv
  BY TypesAssumption, RulesAssumption, EmptySeq
     DEF Init, IInv, TypeOK, Phases, Tried, Found
<1>2. IInv /\ [Next]_vars => IInv'
  BY BindLayerStep, ParsePacketStep, DropStep, LookUpStep, RunCallbackStep,
     ParseNextStep, ReturnStep, Stutter DEF Next, Step
<1> QED BY <1>1, <1>2, PTL DEF Spec

(* Every variable of PacketParser and of a running parse_packet keeps its  *)
(* type, and a layer is in hand exactly while the loop runs.               *)
THEOREM TypeCorrect == Spec => []TypeOK
<1>1. IInv => TypeOK
  BY DEF IInv
<1> QED BY <1>1, Invariance, PTL

-----------------------------------------------------------------------------
(* The refinement.  all is the chain that LayerChain sees.                 *)

all == layers \o current_layer

(* What the chain of layers goes on with is what the bindings of the layer *)
(* in hand say.                                                            *)
LEMMA NextTypeIs ==
    ASSUME IInv, pc # "idle"
    PROVE  Chain!NextType = Chain!Verdict(Table, Current.value)
<1>1. all = Append(layers, Current) /\ all[Len(all)] = Current
  BY HandedLast DEF IInv, all
<1> QED BY <1>1 DEF Chain!NextType, all, Table

(* A step inside the loop over the callbacks changes nothing LayerChain    *)
(* sees.                                                                   *)
LEMMA Inside ==
    ASSUME LookUp \/ RunCallback \/ UNCHANGED vars
    PROVE  UNCHANGED Chain!vars
  BY DEF LookUp, RunCallback, vars, Chain!vars

(* Binding a callback is a Bind of the chain.                              *)
LEMMA BindImplements ==
    ASSUME BindLayer
    PROVE  Chain!Bind
  BY DEF BindLayer, Chain!Bind

(* Parsing the first layer is a Begin of the chain.                        *)
LEMMA BeginImplements ==
    ASSUME IInv, ParsePacket
    PROVE  Chain!Begin
<1>1. PICK t \in StartTypes, n \in InputSizes :
          \/ \E l \in Parsed(t, n) :
                 /\ current_layer' = <<l>> /\ rest' = n - l.size
                 /\ layers' = <<>> /\ pc' = "loop" /\ result' = "none"
          \/ \E e \in Fails(t, n) : ReturnError(e) /\ rest' = n
  BY DEF ParsePacket
<1>2. pc = "idle" /\ result = "none" /\ UNCHANGED layer_bindings
  BY DEF ParsePacket
<1>3. ASSUME NEW l \in Parsed(t, n), current_layer' = <<l>>, rest' = n - l.size,
             layers' = <<>>, pc' = "loop", result' = "none"
      PROVE  Chain!Begin
  <2>1. all' = <<l>>
    <3>1. l \in Layer
      BY ParsedLayer, TypesAssumption, SizesAssumption
    <3>2. <<l>> \in Seq(Layer)
      BY <3>1
    <3> QED BY <1>3, <3>2, ConcatEmptySeq DEF all
  <2> QED BY <1>2, <1>3, <2>1 DEF Chain!Begin, all
<1>4. ASSUME NEW e \in Fails(t, n), ReturnError(e), rest' = n
      PROVE  Chain!Begin
  <2>1. all' = <<>>
    BY <1>4, EmptySeq, ConcatEmptySeq DEF all, ReturnError
  <2> QED BY <1>2, <1>4, <2>1 DEF Chain!Begin, ReturnError, all
<1> QED BY <1>1, <1>3, <1>4

(* Parsing the next layer extends the chain by what its rules say.         *)
LEMMA ExtendImplements ==
    ASSUME IInv, ParseNext
    PROVE  Chain!Extend
<1>1. /\ pc = "parse" /\ UNCHANGED layer_bindings
      /\ \/ \E l \in Parsed(parser, rest) :
                /\ rest' = rest - l.size /\ layers' = Append(layers, Current)
                /\ current_layer' = <<l>> /\ pc' = "loop" /\ UNCHANGED result
         \/ \E e \in Fails(parser, rest) : ReturnError(e) /\ UNCHANGED rest
  BY DEF ParseNext
<1>2. parser \in Types /\ parser # None /\ rest \in Nat /\ rest > 0
  BY <1>1 DEF IInv, TypeOK, Found
<1>3. Chain!NextType = parser
  BY <1>1, NextTypeIs DEF IInv, Found
<1>4. layers \in Seq(Layer) /\ Current \in Layer /\ all = Append(layers, Current)
  BY <1>1, HandedLayer, HandedLast DEF IInv, TypeOK, all
<1>5. ASSUME NEW l \in Parsed(parser, rest), rest' = rest - l.size,
             layers' = Append(layers, Current), current_layer' = <<l>>, pc' = "loop"
      PROVE  Chain!Extend
  <2>1. l \in Layer
    BY <1>2, ParsedLayer
  <2>2. all' = Append(all, l)
    <3>1. Append(layers, Current) \in Seq(Layer)
      BY <1>4, AppendProperties
    <3> QED BY <1>4, <1>5, <2>1, <3>1, AppendIsConcat DEF all
  <2> QED BY <1>1, <1>2, <1>3, <1>5, <2>2 DEF Chain!Extend, all
<1>6. ASSUME NEW e \in Fails(parser, rest), ReturnError(e), UNCHANGED rest
      PROVE  Chain!Extend
  <2>1. all' = <<>>
    BY <1>6, EmptySeq, ConcatEmptySeq DEF all, ReturnError
  <2> QED BY <1>1, <1>2, <1>3, <1>6, <2>1 DEF Chain!Extend, ReturnError, all
<1> QED BY <1>1, <1>5, <1>6

(* Returning finishes the chain: nothing is left, or no rule has an        *)
(* answer.                                                                 *)
LEMMA FinishImplements ==
    ASSUME IInv, Return
    PROVE  Chain!Finish
<1>1. /\ \/ pc = "loop" /\ rest = 0
         \/ pc = "lookup" /\ cb = 0
      /\ layers' = Append(layers, Current) /\ current_layer' = <<>>
      /\ pc' = "idle" /\ result' = "ok" /\ UNCHANGED <<layer_bindings, rest>>
  BY DEF Return
<1>2. layers \in Seq(Layer) /\ Current \in Layer /\ all = Append(layers, Current)
  BY <1>1, HandedLayer, HandedLast DEF IInv, TypeOK, all
<1>3. all' = all
  <2>1. Append(layers, Current) \in Seq(Layer)
    BY <1>2, AppendProperties
  <2> QED BY <1>1, <1>2, <2>1, ConcatEmptySeq DEF all
<1>4. rest = 0 \/ Chain!NextType = None
  <2>1. CASE pc = "lookup" /\ cb = 0
    <3>1. Chain!NextType = Chain!Verdict(Table, Current.value)
      BY <2>1, NextTypeIs
    <3>2. Table \in Seq(Callback) /\ Current.value \in Values
      BY <2>1, HandedLayer DEF IInv
    <3>3. \A k \in 1 .. Len(Table) : Table[k][Current.value] = None
      BY <2>1 DEF IInv, Tried
    <3> QED BY <3>1, <3>2, <3>3, NoVerdict
  <2> QED BY <1>1, <2>1
<1> QED BY <1>1, <1>3, <1>4 DEF Chain!Finish, all

(* Dropping the result is a Drop of the chain.                             *)
LEMMA DropImplements ==
    ASSUME IInv, Drop
    PROVE  Chain!Drop
<1>1. /\ pc = "idle" /\ result # "none" /\ layers' = <<>> /\ rest' = 0
      /\ result' = "none" /\ UNCHANGED <<layer_bindings, pc, current_layer>>
  BY DEF Drop
<1>2. current_layer = <<>> /\ result # "parsing"
  BY <1>1, EmptySeq DEF IInv, TypeOK
<1>3. all' = <<>>
  BY <1>1, <1>2, EmptySeq, ConcatEmptySeq DEF all
<1> QED BY <1>1, <1>2, <1>3 DEF Chain!Drop, all

(* parse_packet implements the chain of layers: every parse starts like    *)
(* one of LayerChain, each of its steps is a step of LayerChain or leaves  *)
(* the chain as it was, and the loop over the callbacks, last inserted     *)
(* first, picks what the last binding with an opinion says.                *)
THEOREM ChainRefined == Spec => Chain!Init /\ [][Chain!Next]_Chain!vars
<1>1. Init => Chain!Init
  <2>1. Init => all = <<>>
    BY EmptySeq, ConcatEmptySeq DEF Init, all
  <2> QED BY <2>1 DEF Init, Chain!Init, all
<1>2. IInv /\ [Next]_vars => [Chain!Next]_Chain!vars
  BY Inside, BindImplements, BeginImplements, ExtendImplements, FinishImplements,
     DropImplements DEF Next, Step, Chain!Next
<1> QED BY <1>1, <1>2, Invariance, PTL DEF Spec

-----------------------------------------------------------------------------
(* The default bindings lead from each layer to one further up the stack.  *)

Rank(t) ==
    CASE t = "Ether" -> 1
      [] t \in {"Ipv4", "Ipv6"} -> 2
      [] t \in {"Tcp", "Udp"} -> 3
      [] OTHER -> 4

(* The ranks of layers; the last one is that of the layers that take all.  *)
LEMMA RankRange ==
    ASSUME NEW t
    PROVE  /\ Rank(t) \in 1 .. 4
           /\ Rank(t) <= 3 <=> t \in {"Ether", "Ipv4", "Ipv6", "Tcp", "Udp"}
<1>1. CASE t = "Ether"
  BY <1>1 DEF Rank
<1>2. CASE t \in {"Ipv4", "Ipv6"}
  BY <1>2 DEF Rank
<1>3. CASE t \in {"Tcp", "Udp"}
  BY <1>3 DEF Rank
<1>4. CASE t \notin {"Ether", "Ipv4", "Ipv6", "Tcp", "Udp"}
  BY <1>4 DEF Rank
<1> QED BY <1>1, <1>2, <1>3, <1>4

(* create_packetparser binds one callback to each of five layers, which    *)
(* always returns a parser, of a layer of higher rank; it binds none to    *)
(* the others.                                                             *)
LEMMA DefaultTable ==
    ASSUME NEW t \in Types
    PROVE  /\ Rank(t) = 4 => DefaultRules[t] = <<>>
           /\ Rank(t) <= 3 =>
                  /\ Len(DefaultRules[t]) = 1
                  /\ \A v \in Values :
                         /\ DefaultRules[t][1][v] \in BuiltIn
                         /\ Rank(DefaultRules[t][1][v]) > Rank(t)
<1>1. CASE Rank(t) = 4
  <2>1. t \notin {"Ether", "Ipv4", "Ipv6", "Tcp", "Udp"}
    BY <1>1, RankRange
  <2> QED BY <1>1, <2>1 DEF DefaultRules
<1>2. CASE t = "Ether"
  <2>1. DefaultRules[t] = <<[v \in Values |-> CASE v = "IPv4" -> "Ipv4"
                                                [] v = "IPv6" -> "Ipv6"
                                                [] OTHER -> "Raw"]>>
    BY <1>2 DEF DefaultRules
  <2>2. \A v \in Values : DefaultRules[t][1][v] \in {"Ipv4", "Ipv6", "Raw"}
    BY <2>1
  <2> QED BY <1>2, <2>1, <2>2 DEF Rank, BuiltIn
<1>3. CASE t = "Ipv4"
  <2>1. DefaultRules[t] = <<[v \in Values |-> CASE v = "TCP" -> "Tcp"
                                                [] v = "UDP" -> "Udp"
                                                [] v = "ICMP" -> "Icmp4"
                                                [] OTHER -> "Raw"]>>
    BY <1>3 DEF DefaultRules
  <2>2. \A v \in Values : DefaultRules[t][1][v] \in {"Tcp", "Udp", "Icmp4", "Raw"}
    BY <2>1
  <2> QED BY <1>3, <2>1, <2>2 DEF Rank, BuiltIn
<1>4. CASE t = "Ipv6"
  <2>1. DefaultRules[t] = <<[v \in Values |-> CASE v = "TCP" -> "Tcp"
                                                [] v = "UDP" -> "Udp"
                                                [] OTHER -> "Raw"]>>
    BY <1>4 DEF DefaultRules
  <2>2. \A v \in Values : DefaultRules[t][1][v] \in {"Tcp", "Udp", "Raw"}
    BY <2>1
  <2> QED BY <1>4, <2>1, <2>2 DEF Rank, BuiltIn
<1>5. CASE t \in {"Tcp", "Udp"}
  <2>1. DefaultRules[t] = <<[v \in Values |-> "Raw"]>>
    BY <1>5 DEF DefaultRules
  <2> QED BY <1>5, <2>1 DEF Rank, BuiltIn
<1> QED BY <1>1, <1>2, <1>3, <1>4, <1>5, RankRange

(* With the default bindings the layers climb the stack, only the top may  *)
(* be unbound, and what is unbound has taken all the input or is custom.   *)
Climbing ==
    layer_bindings = DefaultRules =>
        /\ pc # "idle" =>
               /\ Rank(Current.type) > Len(layers)
               /\ \A n \in 1 .. Len(layers) : Rank(layers[n].type) <= 3
               /\ layers # <<>> => Current.type \in BuiltIn
               /\ Current.type \in {"Raw", "Icmp4"} => rest = 0
        /\ result = "ok" =>
               /\ Len(layers) <= 4
               /\ \A n \in 1 .. Len(layers) - 1 : Rank(layers[n].type) <= 3
               /\ layers[1].type \in BuiltIn => rest = 0

(* Under the default bindings the next layer has a higher rank.            *)
LEMMA ClimbingParseNext ==
    ASSUME IInv, Climbing, ParseNext
    PROVE  Climbing'
<1> SUFFICES ASSUME layer_bindings' = DefaultRules
             PROVE  Climbing'
  BY DEF Climbing
<1>1. /\ pc = "parse" /\ UNCHANGED layer_bindings
      /\ \/ \E l \in Parsed(parser, rest) :
                /\ rest' = rest - l.size /\ layers' = Append(layers, Current)
                /\ current_layer' = <<l>> /\ pc' = "loop" /\ UNCHANGED result
         \/ \E e \in Fails(parser, rest) : ReturnError(e) /\ UNCHANGED rest
  BY DEF ParseNext
<1>2. /\ parser \in Types /\ parser # None /\ rest \in Nat /\ layers \in Seq(Layer)
      /\ Current \in Layer /\ Current.type \in Types /\ Current.value \in Values
      /\ result = "none" /\ parser = Chain!Verdict(Table, Current.value)
      /\ Table \in Seq(Callback)
  BY <1>1, HandedLayer DEF IInv, TypeOK, Phases, Found
<1>3. Rank(Current.type) > Len(layers) /\ \A n \in 1 .. Len(layers) : Rank(layers[n].type) <= 3
  BY <1>1 DEF Climbing
<1>4. Rank(Current.type) <= 3
  <2> SUFFICES ASSUME Rank(Current.type) = 4
               PROVE  FALSE
    BY RankRange
  <2>1. Table = <<>>
    BY <1>1, <1>2, DefaultTable DEF Table
  <2>2. Chain!Verdict(Table, Current.value) = None
    <3>1. \A k \in 1 .. Len(Table) : Table[k][Current.value] = None
      BY <2>1
    <3> QED BY <1>2, <3>1, NoVerdict
  <2> QED BY <1>2, <2>2
<1>5. parser \in BuiltIn /\ Rank(parser) > Rank(Current.type)
  <2>1. Len(Table) = 1 /\ Table[1][Current.value] \in BuiltIn
        /\ Rank(Table[1][Current.value]) > Rank(Current.type)
    BY <1>1, <1>2, <1>4, DefaultTable DEF Table
  <2>2. Table[1][Current.value] # None
    BY <2>1, TypesAssumption DEF Types
  <2>3. Chain!Verdict(Table, Current.value) = Table[1][Current.value]
    BY <1>2, <2>1, <2>2, VerdictFound
  <2> QED BY <1>2, <2>1, <2>3
<1>6. ASSUME NEW l \in Parsed(parser, rest), rest' = rest - l.size,
             layers' = Append(layers, Current), current_layer' = <<l>>,
             pc' = "loop", UNCHANGED result
      PROVE  Climbing'
  <2>1. l.type = parser /\ (parser \in {"Raw", "Icmp4"} => rest' = 0)
    BY <1>2, <1>6, ParsedLayer
  <2>2. Current' = l
    BY <1>6 DEF Current
  <2>3. /\ Len(layers') = Len(layers) + 1 /\ Len(layers) \in Nat
        /\ \A n \in 1 .. Len(layers) : layers'[n] = layers[n]
        /\ layers'[Len(layers) + 1] = Current
    BY <1>2, <1>6, AppendProperties, LenProperties
  <2>4. Rank(l.type) > Len(layers')
    BY <1>3, <1>5, <2>1, <2>3, RankRange
  <2>5. \A n \in 1 .. Len(layers') : Rank(layers'[n].type) <= 3
    <3> TAKE n \in 1 .. Len(layers')
    <3>1. n \in 1 .. Len(layers) \/ n = Len(layers) + 1
      BY <2>3
    <3> QED BY <1>3, <1>4, <2>3, <3>1
  <2> QED BY <1>2, <1>5, <1>6, <2>1, <2>2, <2>4, <2>5 DEF Climbing
<1>7. ASSUME NEW e \in Fails(parser, rest), ReturnError(e), UNCHANGED rest
      PROVE  Climbing'
  <2>1. pc' = "idle" /\ result' # "ok"
    BY <1>7, FailsType DEF ReturnError
  <2> QED BY <2>1 DEF Climbing
<1> QED BY <1>1, <1>6, <1>7

(* Under the default bindings all input is consumed on return.             *)
LEMMA ClimbingReturn ==
    ASSUME IInv, Climbing, Return
    PROVE  Climbing'
<1> SUFFICES ASSUME layer_bindings' = DefaultRules
             PROVE  Climbing'
  BY DEF Climbing
<1>1. /\ \/ pc = "loop" /\ rest = 0
         \/ pc = "lookup" /\ cb = 0
      /\ layers' = Append(layers, Current)
      /\ pc' = "idle" /\ result' = "ok" /\ UNCHANGED <<layer_bindings, rest>>
  BY DEF Return
<1>2. /\ layers \in Seq(Layer) /\ Current \in Layer /\ Current.type \in Types
      /\ Current.value \in Values /\ layer_bindings = DefaultRules
  BY <1>1, HandedLayer DEF IInv, TypeOK
<1>3. /\ Rank(Current.type) > Len(layers)
      /\ \A n \in 1 .. Len(layers) : Rank(layers[n].type) <= 3
      /\ layers # <<>> => Current.type \in BuiltIn
      /\ Current.type \in {"Raw", "Icmp4"} => rest = 0
  BY <1>1, <1>2 DEF Climbing
<1>4. /\ Len(layers') = Len(layers) + 1 /\ Len(layers) \in Nat
      /\ \A n \in 1 .. Len(layers) : layers'[n] = layers[n]
      /\ layers'[Len(layers) + 1] = Current
  BY <1>1, <1>2, AppendProperties, LenProperties
<1>5. Len(layers') <= 4 /\ \A n \in 1 .. Len(layers') - 1 : Rank(layers'[n].type) <= 3
  BY <1>3, <1>4, RankRange
<1>6. ASSUME pc = "lookup", cb = 0
      PROVE  layers'[1].type \notin BuiltIn
  <2>1. rest > 0 /\ \A k \in 1 .. Len(Table) : Table[k][Current.value] = None
    BY <1>6 DEF IInv, Tried
  <2>2. Rank(Current.type) = 4
    <3> SUFFICES ASSUME Rank(Current.type) <= 3
                 PROVE  FALSE
      BY RankRange
    <3>1. Len(Table) = 1 /\ Table[1][Current.value] \in BuiltIn
      BY <1>2, DefaultTable DEF Table
    <3>2. Table[1][Current.value] # None
      BY <3>1, TypesAssumption DEF Types
    <3> QED BY <2>1, <3>1, <3>2
  <2>3. Current.type \notin BuiltIn
    BY <1>3, <2>1, <2>2, RankRange DEF BuiltIn
  <2>4. Len(layers) = 0
    BY <1>2, <1>3, <2>3, EmptySeq
  <2> QED BY <1>4, <2>3, <2>4
<1> QED BY <1>1, <1>5, <1>6 DEF Climbing

(* Under the default bindings the ranks of the parsed layers climb, in     *)
(* every reachable state.                                                  *)
THEOREM ClimbingHolds == Spec => []Climbing
<1>1. Init => Climbing
  BY DEF Init, Climbing
<1>2. ASSUME IInv, Climbing, [Next]_vars
      PROVE  Climbing'
  <2>1. CASE BindLayer
    <3>1. pc' = "idle" /\ result' = "none"
      BY <2>1 DEF BindLayer
    <3> QED BY <3>1 DEF Climbing
  <2>2. CASE ParsePacket
    <3>1. PICK t \in StartTypes, n \in InputSizes :
              \/ \E l \in Parsed(t, n) :
                     /\ current_layer' = <<l>> /\ rest' = n - l.size
                     /\ layers' = <<>> /\ pc' = "loop" /\ result' = "none"
              \/ \E e \in Fails(t, n) : ReturnError(e) /\ rest' = n
      BY <2>2 DEF ParsePacket
    <3>2. ASSUME NEW l \in Parsed(t, n), current_layer' = <<l>>, rest' = n - l.size,
                 layers' = <<>>, pc' = "loop", result' = "none"
          PROVE  Climbing'
      <4>1. l.type = t /\ (t \in {"Raw", "Icmp4"} => n - l.size = 0)
        BY ParsedLayer, TypesAssumption, SizesAssumption
      <4>2. Current' = l
        BY <3>2 DEF Current
      <4>3. Len(layers') = 0
        BY <3>2, EmptySeq
      <4> QED BY <3>2, <4>1, <4>2, <4>3, RankRange DEF Climbing
    <3>3. ASSUME NEW e \in Fails(t, n), ReturnError(e)
          PROVE  Climbing'
      <4>1. pc' = "idle" /\ result' # "ok"
        BY <3>3, FailsType DEF ReturnError
      <4> QED BY <4>1 DEF Climbing
    <3> QED BY <3>1, <3>2, <3>3
  <2>3. CASE Drop
    BY <2>3 DEF Climbing, Drop
  <2>4. CASE LookUp
    BY <1>2, <2>4 DEF Climbing, LookUp, Current, IInv, Phases
  <2>5. CASE RunCallback
    BY <1>2, <2>5 DEF Climbing, RunCallback, Current, IInv, Phases
  <2>6. CASE UNCHANGED vars
    BY <1>2, <2>6 DEF Climbing, vars, Current
  <2> QED BY <1>2, <2>1, <2>2, <2>3, <2>4, <2>5, <2>6, ClimbingParseNext, ClimbingReturn
          DEF Next, Step
<1> QED BY <1>1, <1>2, Invariance, PTL DEF Spec

(* With the bindings of create_packetparser a successful parse that began  *)
(* with a layer of the crate has read all of its input.                    *)
THEOREM DefaultConsumesAllHolds == Spec => []DefaultConsumesAll
<1>1. Climbing => DefaultConsumesAll
  BY DEF Climbing, DefaultConsumesAll
<1> QED BY <1>1, ClimbingHolds, PTL

(* With the bindings of create_packetparser a packet, finished or being    *)
(* parsed, has at most four layers, and only the last is Raw or Icmp4.     *)
THEOREM DefaultShapeHolds == Spec => []DefaultShape
<1>1. ASSUME IInv, Climbing
      PROVE  DefaultShape
  <2> SUFFICES ASSUME layer_bindings = DefaultRules
               PROVE  /\ Len(all) <= 4
                      /\ \A n \in 1 .. Len(all) - 1 : all[n].type \notin {"Raw", "Icmp4"}
    BY DEF DefaultShape, all
  <2>1. layers \in Seq(Layer)
    BY <1>1 DEF IInv, TypeOK
  <2>2. CASE pc = "idle"
    <3>1. current_layer = <<>>
      BY <1>1, <2>2, EmptySeq DEF IInv, TypeOK
    <3>2. all = layers
      BY <2>1, <3>1, ConcatEmptySeq DEF all
    <3>3. CASE result = "ok"
      BY <1>1, <3>2, <3>3, RankRange DEF Climbing
    <3>4. CASE result # "ok"
      <4>1. Len(all) = 0
        BY <1>1, <2>2, <3>2, <3>4, EmptySeq DEF IInv, Phases
      <4> QED BY <4>1
    <3> QED BY <3>3, <3>4
  <2>3. CASE pc # "idle"
    <3>1. all = Append(layers, Current) /\ Current \in Layer
      BY <1>1, <2>3, HandedLast, HandedLayer DEF IInv, all
    <3>2. /\ Len(all) = Len(layers) + 1 /\ Len(layers) \in Nat
          /\ \A n \in 1 .. Len(layers) : all[n] = layers[n]
      BY <2>1, <3>1, AppendProperties, LenProperties
    <3>3. Rank(Current.type) > Len(layers) /\ \A n \in 1 .. Len(layers) : Rank(layers[n].type) <= 3
      BY <1>1, <2>3 DEF Climbing
    <3> QED BY <3>2, <3>3, RankRange
  <2> QED BY <2>2, <2>3
<1> QED BY <1>1, Invariance, ClimbingHolds, PTL
=============================================================================
