---------------------------- MODULE PacketProofs ----------------------------
(***************************************************************************)
(* Machine-checked properties of Packet and of RoundTrip, for every        *)
(* checksum function, any set of stacks and layers a caller may supply,    *)
(* any padding a link may add, and either behaviour of deku on a value     *)
(* wider than its bits.                                                    *)
(***************************************************************************)
EXTENDS RoundTrip, NatLemmas, SequenceTheorems

(* What one layer's finalize may do to its layer, whatever its outcome.    *)
Touched(old, new) ==
    /\ new \in Layer
    /\ new.kind = old.kind
    /\ new.addr = old.addr
    /\ new.data = old.data
    /\ \/ new.opts = old.opts
       \/ /\ new.kind = "Tcp"
          /\ new.opts - old.opts \in 1 .. 3
          /\ Length(new) % 4 = 0

(* What it establishes when it succeeds.                                   *)
Settled(new) ==
    /\ new.kind = "Tcp" => 4 * new.words = Length(new)
    /\ new.kind \in {"Ipv4", "Icmp4"} => new.sum = Checksum(<<Cleared(new)>>)

(* What it leaves alone when it fails.                                     *)
Kept(old, new) ==
    /\ new = old \/ new.kind = "Tcp"
    /\ new.len = old.len /\ new.words = old.words

-----------------------------------------------------------------------------
(* The length of a layer is a natural number.                              *)
LEMMA LengthNat ==
    ASSUME NEW l \in Layer
    PROVE  Length(l) \in Nat
BY DEF Layer, Length, HeaderBytes, Kinds

(* Padding a layer keeps its fields but opts, and makes its length a       *)
(* multiple of four.                                                       *)
LEMMA PaddedLayer ==
    ASSUME NEW l \in Layer
    PROVE  /\ Padded(l) \in Layer
           /\ Padded(l).kind = l.kind /\ Padded(l).addr = l.addr
           /\ Padded(l).data = l.data /\ Padded(l).words = l.words
           /\ Padded(l).len = l.len /\ Padded(l).sum = l.sum
           /\ Length(Padded(l)) % 4 = 0
           /\ Padded(l).opts - l.opts \in 0 .. 3
<1>1. PadAmount(l) \in 0 .. 3 /\ (Length(l) + PadAmount(l)) % 4 = 0
  BY LengthNat DEF PadAmount
<1>2. Padded(l) = [l EXCEPT !.opts = l.opts + PadAmount(l)]
  BY DEF Padded
<1>3. Padded(l) \in Layer
  BY <1>1, <1>2 DEF Layer
<1>4. Length(Padded(l)) = Length(l) + PadAmount(l)
  BY <1>1, <1>2 DEF Length, Layer, HeaderBytes, Kinds
<1> QED
  BY <1>1, <1>2, <1>3, <1>4 DEF Layer

(* The bytes a checksum is computed from do not depend on the checksum the *)
(* layer holds.                                                            *)
LEMMA ClearedEqual ==
    ASSUME NEW l \in Layer, NEW m \in Layer,
           m.kind = l.kind, m.addr = l.addr, m.data = l.data, m.opts = l.opts,
           m.len = l.len, m.words = l.words
    PROVE  Cleared(m) = Cleared(l)
<1>1. \A x \in Layer : Cleared(x) =
         [kind |-> x.kind, addr |-> x.addr, data |-> x.data, opts |-> x.opts,
          len |-> x.len, words |-> x.words % 16, sum |-> Zero]
  <2> SUFFICES ASSUME NEW x \in Layer
               PROVE  Cleared(x) =
                        [kind |-> x.kind, addr |-> x.addr, data |-> x.data,
                         opts |-> x.opts, len |-> x.len, words |-> x.words % 16,
                         sum |-> Zero]
    OBVIOUS
  <2>1. x = [kind |-> x.kind, addr |-> x.addr, data |-> x.data, opts |-> x.opts,
             len |-> x.len, words |-> x.words, sum |-> x.sum]
    BY DEF Layer
  <2>2. Wire(x) = [kind |-> x.kind, addr |-> x.addr, data |-> x.data,
                   opts |-> x.opts, len |-> x.len, words |-> x.words % 16,
                   sum |-> x.sum]
    BY <2>1 DEF Wire
  <2> QED
    BY <2>2 DEF Cleared
<1> QED
  BY <1>1

(* A layer without its checksum does not depend on it.                     *)
LEMMA ClearedSum ==
    ASSUME NEW l \in Layer, NEW s \in Sums
    PROVE  Cleared([l EXCEPT !.sum = s]) = Cleared(l)
<1> DEFINE m == [l EXCEPT !.sum = s]
<1>1. m \in Layer /\ m.kind = l.kind /\ m.addr = l.addr /\ m.data = l.data
      /\ m.opts = l.opts /\ m.len = l.len /\ m.words = l.words
  BY DEF Layer
<1> HIDE DEF m
<1>2. Cleared(m) = Cleared(l)
  BY <1>1, ClearedEqual
<1> QED
  BY <1>2 DEF m

-----------------------------------------------------------------------------
(* The updates the layers make, as Touched and Kept see them.              *)
LEMMA Updates ==
    ASSUME NEW old \in Layer, NEW s \in Sums, NEW n \in U16, NEW w \in U8
    PROVE  /\ Touched(old, old)
           /\ Touched(old, [old EXCEPT !.sum = s])
           /\ Touched(old, [old EXCEPT !.len = n])
           /\ Touched(old, [[old EXCEPT !.len = n] EXCEPT !.sum = s])
           /\ old.kind = "Tcp" =>
                 /\ Touched(old, Padded(old))
                 /\ Touched(old, [Padded(old) EXCEPT !.sum = s])
                 /\ Touched(old, [Padded(old) EXCEPT !.words = w])
                 /\ Touched(old, [[Padded(old) EXCEPT !.sum = s] EXCEPT !.words = w])
<1>1. Touched(old, old) /\ Touched(old, [old EXCEPT !.sum = s])
  BY DEF Touched, Layer
<1>2. Touched(old, [old EXCEPT !.len = n])
  BY DEF Touched, Layer
<1>3. Touched(old, [[old EXCEPT !.len = n] EXCEPT !.sum = s])
  BY DEF Touched, Layer
<1>4. ASSUME old.kind = "Tcp"
      PROVE  /\ Touched(old, Padded(old))
             /\ Touched(old, [Padded(old) EXCEPT !.sum = s])
             /\ Touched(old, [Padded(old) EXCEPT !.words = w])
             /\ Touched(old, [[Padded(old) EXCEPT !.sum = s] EXCEPT !.words = w])
  <2> DEFINE p == Padded(old)
  <2>1. /\ p \in Layer /\ p.kind = "Tcp" /\ p.addr = old.addr /\ p.data = old.data
        /\ Length(p) % 4 = 0 /\ p.opts - old.opts \in 0 .. 3
    BY <1>4, PaddedLayer
  <2> HIDE DEF p
  <2>2. Touched(old, p) /\ Touched(old, [p EXCEPT !.sum = s])
    BY <1>4, <2>1 DEF Touched, Layer, Length
  <2>3. Touched(old, [p EXCEPT !.words = w])
    BY <1>4, <2>1 DEF Touched, Layer, Length
  <2>4. Touched(old, [[p EXCEPT !.sum = s] EXCEPT !.words = w])
    <3> DEFINE q == [p EXCEPT !.sum = s]
    <3>1. /\ q \in Layer /\ q.kind = "Tcp" /\ q.addr = old.addr /\ q.data = old.data
          /\ Length(q) % 4 = 0 /\ q.opts - old.opts \in 0 .. 3
      BY <2>1 DEF Layer, Length
    <3> HIDE DEF q
    <3>2. Touched(old, [q EXCEPT !.words = w])
      BY <1>4, <3>1 DEF Touched, Layer, Length
    <3> QED
      BY <3>2 DEF q
  <2> QED
    BY <2>2, <2>3, <2>4 DEF p
<1> QED
  BY <1>1, <1>2, <1>3, <1>4

(* Neither padding the options nor setting the checksum does more than a   *)
(* finalize may.                                                           *)
LEMMA Keeps ==
    ASSUME NEW old \in Layer, NEW s \in Sums
    PROVE  /\ Kept(old, old)
           /\ old.kind = "Tcp" => /\ Kept(old, Padded(old))
                                 /\ Kept(old, [Padded(old) EXCEPT !.sum = s])
<1> DEFINE p == Padded(old)
<1>1. /\ p \in Layer /\ p.kind = old.kind /\ p.len = old.len /\ p.words = old.words
  BY PaddedLayer
<1> HIDE DEF p
<1>2. ASSUME old.kind = "Tcp"
      PROVE  Kept(old, p) /\ Kept(old, [p EXCEPT !.sum = s])
  BY <1>1, <1>2 DEF Layer, Kept
<1> QED
  BY <1>2 DEF Kept, p

-----------------------------------------------------------------------------
(* Every step of the finalize loop but the last writes one layer, as       *)
(* Touched says; it is Settled when the loop goes on and Kept when it ends. *)
LEMMA FinalizeEffect ==
    ASSUME ChecksumTyped, TypeOK, FinalizeStep, ~Return
    PROVE  /\ pc = "loop" /\ i \in 1 .. Len(layers)
           /\ \E l : /\ Touched(layers[i], l)
                    /\ \/ Continue(l) /\ Settled(l)
                       \/ Fail(l) /\ Kept(layers[i], l)
<1>1. pc = "loop" /\ i \in 1 .. Len(layers) /\ layers[i] \in Layer
  BY DEF FinalizeStep, FinalizeInert, FinalizeIpv4, FinalizeIpv6, FinalizeTcp,
         FinalizeUdp, FinalizeIcmp4, Visit, TypeOK
<1> DEFINE old == layers[i]
           Effect(l) == /\ Touched(old, l)
                        /\ \/ Continue(l) /\ Settled(l)
                           \/ Fail(l) /\ Kept(old, l)
<1> SUFFICES \E l : Effect(l)
  BY <1>1
<1>0. 0 \in U16 /\ 0 \in U8 /\ Zero \in Sums
  BY ZeroAssumption DEF U16, U8
<1>2. Touched(old, old) /\ Kept(old, old)
  BY <1>0, <1>1, Updates, Keeps
<1> HIDE DEF old
<1>3. old \in Layer /\ Cur = old
  BY <1>1 DEF old, Cur
<1>4. CASE \E kind \in {"Ether", "Raw"} : FinalizeInert(kind)
  <2>1. Continue(old) /\ Settled(old)
    BY <1>3, <1>4 DEF FinalizeInert, Visit, Settled
  <2> QED
    BY <1>2, <2>1
<1>5. CASE FinalizeIpv4
  <2> DEFINE size  == LengthOfLayers(<<Cur>> \o Rest)
             sized == [Cur EXCEPT !.len = size]
             done  == [sized EXCEPT !.sum = Checksum(<<Cleared(sized)>>)]
  <2>1. CASE Fail(Cur)
    BY <1>2, <1>3, <2>1
  <2>2. CASE size \in U16 /\ Continue(done)
    <3>1. sized \in Layer /\ Checksum(<<Cleared(sized)>>) \in Sums
      BY <1>3, <2>2 DEF Layer, ChecksumTyped
    <3>2. Touched(old, done)
      BY <1>0, <1>3, <2>2, <3>1, Updates
    <3>3. Cleared(done) = Cleared(sized)
      BY <3>1, ClearedSum
    <3>4. done.sum = Checksum(<<Cleared(sized)>>) /\ done.kind = sized.kind
      BY <3>1 DEF Layer
    <3>5. sized.kind = "Ipv4"
      BY <1>3, <1>5 DEF Layer, FinalizeIpv4, Visit
    <3>6. Settled(done)
      BY <3>3, <3>4, <3>5 DEF Settled
    <3> QED
      BY <2>2, <3>2, <3>6
  <2> QED
    BY <1>5, <2>1, <2>2 DEF FinalizeIpv4
<1>6. CASE FinalizeIpv6
  <2> DEFINE size == LengthOfLayers(Rest)
             done == [Cur EXCEPT !.len = size]
  <2>1. CASE Fail(Cur)
    BY <1>2, <1>3, <2>1
  <2>2. CASE size \in U16 /\ Continue(done)
    <3>1. Touched(old, done)
      BY <1>0, <1>3, <2>2, Updates
    <3>2. done.kind = "Ipv6"
      BY <1>3, <1>6 DEF Layer, FinalizeIpv6, Visit
    <3> QED
      BY <2>2, <3>1, <3>2 DEF Settled
  <2> QED
    BY <1>6, <2>1, <2>2 DEF FinalizeIpv6
<1>7. CASE FinalizeUdp
  <2> DEFINE size  == LengthOfLayers(<<Cur>> \o Rest)
             sized == [Cur EXCEPT !.len = size]
             sum   == TransportSum(Prev[i - 1], Cleared(Cur), size, Rest)
             done  == [sized EXCEPT !.sum = sum]
  <2>1. sum \in Sums
    BY DEF TransportSum, ChecksumTyped
  <2> HIDE DEF sum
  <2>2. CASE Fail(Cur)
    BY <1>2, <1>3, <2>2
  <2>3. CASE size \in U16 /\ (Continue(sized) \/ Continue(done))
    <3>1. Touched(old, sized) /\ Touched(old, done)
      BY <1>0, <1>3, <2>1, <2>3, Updates
    <3>2. sized.kind = "Udp" /\ done.kind = "Udp"
      BY <1>3, <1>7 DEF Layer, FinalizeUdp, Visit
    <3> QED
      BY <2>3, <3>1, <3>2 DEF Settled
  <2> QED
    BY <1>7, <2>2, <2>3 DEF FinalizeUdp, sum
<1>8. CASE FinalizeTcp
  <2> DEFINE padded == Padded(Cur)
             size   == LengthOfLayers(<<padded>> \o Rest)
             offset == Length(padded) \div 4
             sum    == TransportSum(Prev[i - 1], Cleared(padded), size, Rest)
             summed == [padded EXCEPT !.sum = sum]
  <2>1. sum \in Sums
    BY DEF TransportSum, ChecksumTyped
  <2>2. old.kind = "Tcp"
    BY <1>3, <1>8 DEF FinalizeTcp, Visit
  <2>3. padded \in Layer /\ padded.kind = "Tcp" /\ Length(padded) % 4 = 0
        /\ Length(padded) \in Nat
    BY <1>3, <2>2, PaddedLayer, LengthNat
  <2>4. /\ Touched(old, padded) /\ Kept(old, padded)
        /\ Touched(old, summed) /\ Kept(old, summed)
    BY <1>0, <1>3, <2>1, <2>2, Updates, Keeps
  <2> HIDE DEF padded, sum
  <2>5. ASSUME offset \in U8, NEW m \in {padded, summed}
        PROVE  /\ Touched(old, [m EXCEPT !.words = offset])
               /\ Settled([m EXCEPT !.words = offset])
    <3>1. Touched(old, [m EXCEPT !.words = offset])
      BY <1>0, <1>3, <2>1, <2>2, <2>5, Updates DEF padded
    <3>2. m \in Layer /\ m.kind = "Tcp" /\ Length(m) = Length(padded)
      BY <2>1, <2>3 DEF Layer, Length
    <3>3. /\ [m EXCEPT !.words = offset].kind = "Tcp"
          /\ [m EXCEPT !.words = offset].words = offset
          /\ Length([m EXCEPT !.words = offset]) = Length(padded)
      BY <3>2 DEF Layer, Length
    <3>4. 4 * offset = Length(padded)
      BY <2>3
    <3> QED
      BY <3>1, <3>3, <3>4 DEF Settled
  <2>6. \E m \in {padded, summed} :
           \/ Fail(Cur) \/ Fail(padded) \/ Fail(m)
           \/ offset \in U8 /\ Continue([m EXCEPT !.words = offset])
    BY <1>8 DEF FinalizeTcp, padded, sum
  <2> QED
    BY <1>2, <1>3, <2>4, <2>5, <2>6
<1>9. CASE FinalizeIcmp4
  <2> DEFINE done == [Cur EXCEPT !.sum = Checksum(<<Cleared(Cur)>>)]
  <2>1. Checksum(<<Cleared(Cur)>>) \in Sums
    BY DEF ChecksumTyped
  <2>2. Touched(old, done)
    BY <1>0, <1>3, <2>1, Updates
  <2>3. Cleared(done) = Cleared(Cur)
    BY <1>3, <2>1, ClearedSum
  <2>4. done.kind = "Icmp4" /\ done.sum = Checksum(<<Cleared(Cur)>>)
    BY <1>3, <1>9 DEF Layer, FinalizeIcmp4, Visit
  <2>5. Settled(done)
    BY <2>3, <2>4 DEF Settled
  <2> QED
    BY <1>9, <2>2, <2>5 DEF FinalizeIcmp4
<1> QED
  BY <1>4, <1>5, <1>6, <1>7, <1>8, <1>9 DEF FinalizeStep

-----------------------------------------------------------------------------
(* The owner replaces the layers by layers and forgets their history.      *)
LEMMA OwnerEffect ==
    ASSUME TypeOK, FromLayers \/ LayersMut
    PROVE  \E ls \in Seq(Layer) : Reset(ls)
<1>1. CASE FromLayers
  BY <1>1, UserAssumption DEF FromLayers
<1>2. CASE LayersMut
  <2> PICK j \in DOMAIN layers, l \in UserLayers : Reset([layers EXCEPT ![j] = l])
    BY <1>2 DEF LayersMut
  <2>1. [layers EXCEPT ![j] = l] \in Seq(Layer)
    BY UserAssumption DEF TypeOK
  <2> QED
    BY <2>1
<1> QED
  BY <1>1, <1>2

(* TypeOK is inductive.                                                    *)
LEMMA TypeStep ==
    ASSUME ChecksumTyped, TypeOK, [Next]_vars
    PROVE  TypeOK'
<1>1. CASE FromLayers \/ LayersMut
  <2> PICK ls \in Seq(Layer) : Reset(ls)
    BY <1>1, OwnerEffect
  <2> QED
    BY DEF TypeOK, Reset
<1>2. CASE Finalize
  BY <1>2 DEF TypeOK, Finalize
<1>3. CASE FinalizeStep /\ ~Return
  <2> PICK l : Touched(layers[i], l) /\ (Continue(l) \/ Fail(l))
    BY <1>3, FinalizeEffect
  <2>1. i \in 1 .. Len(layers) /\ pc = "loop"
    BY <1>3, FinalizeEffect
  <2>2. l \in Layer
    BY DEF Touched
  <2>3. [layers EXCEPT ![i] = l] \in Seq(Layer)
        /\ Len([layers EXCEPT ![i] = l]) = Len(layers)
    BY <2>1, <2>2 DEF TypeOK
  <2>4. CASE Continue(l)
    BY <2>1, <2>3, <2>4 DEF TypeOK, Continue
  <2>5. CASE Fail(l)
    BY <2>1, <2>3, <2>5 DEF TypeOK, Fail
  <2> QED
    BY <2>4, <2>5
<1>4. CASE Return
  BY <1>4 DEF TypeOK, Return, MaxPasses
<1>5. CASE UNCHANGED vars
  BY <1>5 DEF TypeOK, vars
<1> QED
  BY <1>1, <1>2, <1>3, <1>4, <1>5 DEF Next

(* Type correctness of Packet.                                             *)
THEOREM TypeCorrect == ChecksumTyped => (Spec => []TypeOK)
<1> SUFFICES ASSUME ChecksumTyped
             PROVE  Spec => []TypeOK
  OBVIOUS
<1>1. Init => TypeOK
  BY DEF Init, TypeOK
<1>2. TypeOK /\ [Next]_vars => TypeOK'
  BY TypeStep
<1> QED
  BY <1>1, <1>2, PTL DEF Spec

-----------------------------------------------------------------------------
(* The inductive invariant: the layers the loop has passed carry a right   *)
(* offset even before the call returns, and a call has no result yet.      *)
PassedOffsets ==
    pc = "loop" => result = "none" /\ \A j \in 1 .. i - 1 : OffsetRight(j)

IInv ==
    /\ TypeOK
    /\ PartialFailure
    /\ OnlyDependentFields
    /\ OwnSumsRight
    /\ PassedOffsets
    /\ OffsetsRight

(* IInv is preserved while the loop of finalize runs.                      *)
LEMMA LoopStep ==
    ASSUME ChecksumTyped, IInv, FinalizeStep, ~Return
    PROVE  /\ PartialFailure' /\ OnlyDependentFields' /\ OwnSumsRight'
           /\ PassedOffsets' /\ OffsetsRight'
<1>1. pc = "loop" /\ i \in 1 .. Len(layers)
  BY FinalizeEffect DEF IInv
<1>2. PICK l : /\ Touched(layers[i], l)
               /\ \/ Continue(l) /\ Settled(l)
                  \/ Fail(l) /\ Kept(layers[i], l)
  BY FinalizeEffect DEF IInv
<1>3. /\ layers' = [layers EXCEPT ![i] = l]
      /\ before' = before
      /\ layers \in Seq(Layer) /\ before \in Seq(Layer)
      /\ layers[i] = before[i] /\ Len(layers) = Len(before)
  BY <1>1, <1>2 DEF Continue, Fail, IInv, TypeOK, PartialFailure
<1>4. /\ Len(layers') = Len(layers) /\ DOMAIN layers' = DOMAIN layers
      /\ DOMAIN layers = 1 .. Len(layers)
      /\ layers'[i] = l
      /\ \A j \in DOMAIN layers : j # i => layers'[j] = layers[j]
  BY <1>1, <1>3
<1>5. OnlyDependentFields'
  <2> SUFFICES ASSUME NEW j \in DOMAIN layers
               PROVE  /\ layers'[j].kind = before[j].kind
                      /\ layers'[j].addr = before[j].addr
                      /\ layers'[j].data = before[j].data
                      /\ \/ layers'[j].opts = before[j].opts
                         \/ /\ layers'[j].kind = "Tcp"
                            /\ layers'[j].opts - before[j].opts \in 1 .. 3
                            /\ Length(layers'[j]) % 4 = 0
    BY <1>3, <1>4 DEF OnlyDependentFields
  <2>1. CASE j = i
    BY <1>2, <1>3, <1>4, <2>1 DEF Touched
  <2>2. CASE j # i
    BY <1>3, <1>4, <2>2 DEF IInv, OnlyDependentFields
  <2> QED
    BY <2>1, <2>2
<1>6. CASE Continue(l) /\ Settled(l)
  <2>1. i' = i + 1 /\ pc' = pc /\ result' = result /\ passes' = passes
    BY <1>6 DEF Continue
  <2>2. PartialFailure'
    BY <1>1, <1>3, <1>4, <2>1 DEF IInv, PartialFailure, PassedOffsets
  <2>3. ASSUME NEW j \in DOMAIN layers
        PROVE  /\ OffsetRight(j)' <=> (j = i \/ OffsetRight(j))
               /\ OwnSumRight(j)' <=> (j = i \/ OwnSumRight(j))
    BY <1>4, <1>6 DEF OffsetRight, OwnSumRight, Settled
  <2>4. OwnSumsRight'
    BY <1>1, <1>4, <2>1, <2>3 DEF IInv, OwnSumsRight
  <2>5. PassedOffsets' /\ OffsetsRight'
    BY <1>1, <1>4, <2>1, <2>3 DEF IInv, PassedOffsets, OffsetsRight
  <2> QED
    BY <1>5, <2>2, <2>4, <2>5
<1>7. CASE Fail(l) /\ Kept(layers[i], l)
  <2>1. pc' = "idle" /\ result' = "error" /\ passes' = 0 /\ i' = i
    BY <1>7 DEF Fail
  <2>2. PartialFailure'
    BY <1>1, <1>2, <1>3, <1>4, <1>7, <2>1 DEF IInv, PartialFailure, Kept
  <2>3. OwnSumsRight'
    <3> SUFFICES ASSUME NEW j \in DOMAIN layers, j < i
                 PROVE  OwnSumRight(j)'
      BY <1>4, <2>1 DEF OwnSumsRight
    <3>1. OwnSumRight(j) /\ layers'[j] = layers[j]
      BY <1>1, <1>4 DEF IInv, OwnSumsRight
    <3> QED
      BY <3>1 DEF OwnSumRight
  <2>4. PassedOffsets' /\ OffsetsRight'
    BY <2>1 DEF PassedOffsets, OffsetsRight
  <2> QED
    BY <1>5, <2>2, <2>3, <2>4
<1> QED
  BY <1>2, <1>5, <1>6, <1>7

(* Replacing the layers establishes the invariant of Packet.               *)
LEMMA ResetInv ==
    ASSUME IInv, NEW ls \in Seq(Layer), Reset(ls)
    PROVE  IInv'
<1>1. /\ layers' = ls /\ before' = ls /\ passes' = 0 /\ result' = "none"
      /\ pc' = "idle" /\ i' = 0
  BY DEF Reset
<1> QED
  BY <1>1 DEF IInv, TypeOK, PartialFailure, OnlyDependentFields, OwnSumsRight,
              PassedOffsets, OffsetsRight

(* IInv is inductive.                                                      *)
LEMMA InvStep ==
    ASSUME ChecksumTyped, IInv, [Next]_vars
    PROVE  IInv'
<1>1. TypeOK'
  BY TypeStep DEF IInv
<1>2. CASE FromLayers \/ LayersMut
  <2> PICK ls \in Seq(Layer) : Reset(ls)
    BY <1>2, OwnerEffect DEF IInv
  <2> QED
    BY ResetInv
<1>3. CASE Finalize
  <2>1. /\ layers' = layers /\ before' = layers /\ passes' = passes
        /\ result' = "none" /\ pc' = "loop" /\ i' = 1
    BY <1>3 DEF Finalize
  <2>2. PartialFailure' /\ OnlyDependentFields'
    BY <2>1 DEF PartialFailure, OnlyDependentFields
  <2>3. OwnSumsRight' /\ PassedOffsets'
    BY <1>1, <2>1 DEF OwnSumsRight, PassedOffsets, TypeOK
  <2>4. OffsetsRight'
    BY <2>1 DEF IInv, OffsetsRight, OffsetRight
  <2> QED
    BY <1>1, <2>2, <2>3, <2>4 DEF IInv
<1>4. CASE FinalizeStep /\ ~Return
  BY <1>1, <1>4, LoopStep DEF IInv
<1>5. CASE Return
  <2>1. /\ layers' = layers /\ before' = before /\ i' = i
        /\ pc = "loop" /\ i > Len(layers) /\ pc' = "idle" /\ result' = "ok"
    BY <1>5 DEF Return
  <2>2. PartialFailure' /\ OnlyDependentFields' /\ PassedOffsets'
    BY <2>1 DEF IInv, PartialFailure, OnlyDependentFields, PassedOffsets
  <2>3. OwnSumsRight'
    BY <2>1 DEF IInv, OwnSumsRight, OwnSumRight
  <2>4. \A j \in DOMAIN layers : OffsetRight(j)
    BY <2>1 DEF IInv, PassedOffsets, TypeOK
  <2>5. OffsetsRight'
    BY <2>1, <2>4 DEF OffsetsRight, OffsetRight
  <2> QED
    BY <1>1, <2>2, <2>3, <2>5 DEF IInv
<1>6. CASE UNCHANGED vars
  BY <1>1, <1>6 DEF IInv, vars, PartialFailure, OnlyDependentFields, OwnSumsRight,
                    OwnSumRight, PassedOffsets, OffsetsRight, OffsetRight
<1> QED
  BY <1>2, <1>3, <1>4, <1>5, <1>6 DEF Next

(* The inductive invariant behind the properties that need no sum of       *)
(* lengths holds in every reachable state.                                 *)
LEMMA Invariance == ChecksumTyped => (Spec => []IInv)
<1> SUFFICES ASSUME ChecksumTyped
             PROVE  Spec => []IInv
  OBVIOUS
<1>1. Init => IInv
  BY DEF Init, IInv, TypeOK, PartialFailure, OnlyDependentFields, OwnSumsRight,
         PassedOffsets, OffsetsRight
<1>2. IInv /\ [Next]_vars => IInv'
  BY InvStep
<1> QED
  BY <1>1, <1>2, PTL DEF Spec

(* Packet::finalize stopped by an error leaves the layers it has not       *)
(* reached as they were, and the failing layer but for Tcp's padding and   *)
(* checksum.                                                               *)
THEOREM PartialFailureHolds == ChecksumTyped => (Spec => []PartialFailure)
<1>1. IInv => PartialFailure
  BY DEF IInv
<1> QED
  BY <1>1, Invariance, PTL

(* finalize writes only dependent fields, and pads only Tcp.               *)
THEOREM OnlyDependentFieldsHolds == ChecksumTyped => (Spec => []OnlyDependentFields)
<1>1. IInv => OnlyDependentFields
  BY DEF IInv
<1> QED
  BY <1>1, Invariance, PTL

(* After a successful finalize every Tcp offset is right, whatever the     *)
(* number and the size of the options.                                     *)
THEOREM OffsetsRightHolds == ChecksumTyped => (Spec => []OffsetsRight)
<1>1. IInv => OffsetsRight
  BY DEF IInv
<1> QED
  BY <1>1, Invariance, PTL

(* The Ipv4 and Icmp4 checksums the loop has written match the layers they *)
(* are in, also after a later layer failed.                                *)
THEOREM OwnSumsRightHolds == ChecksumTyped => (Spec => []OwnSumsRight)
<1>1. IInv => OwnSumsRight
  BY DEF IInv
<1> QED
  BY <1>1, Invariance, PTL

-----------------------------------------------------------------------------
(* Writing what a layer already holds changes nothing.                     *)
LEMMA Rewrite ==
    ASSUME NEW l \in Layer
    PROVE  /\ [l EXCEPT !.len = l.len] = l
           /\ [l EXCEPT !.words = l.words] = l
           /\ [l EXCEPT !.sum = l.sum] = l
           /\ Length(l) % 4 = 0 => Padded(l) = l
<1>1. /\ [l EXCEPT !.len = l.len] = l
      /\ [l EXCEPT !.words = l.words] = l
      /\ [l EXCEPT !.sum = l.sum] = l
      /\ [l EXCEPT !.opts = l.opts] = l
  BY DEF Layer
<1>2. ASSUME Length(l) % 4 = 0
      PROVE  l.opts + PadAmount(l) = l.opts
  BY <1>2, LengthNat DEF PadAmount, Layer
<1> QED
  BY <1>1, <1>2 DEF Padded

(* A step of finalize at a layer that is right writes back what is there.  *)
LEMMA RightStep ==
    ASSUME TypeOK, FinalizeStep, i \in DOMAIN layers => Right(i)
    PROVE  layers' = layers
<1>1. CASE Return
  BY <1>1 DEF Return
<1>2. CASE ~Return
  <2> DEFINE old == layers[i]
  <2>1. i \in DOMAIN layers /\ old \in Layer /\ Cur = old /\ Rest = Inside(i) /\ Right(i)
    BY <1>2 DEF FinalizeStep, FinalizeInert, FinalizeIpv4, FinalizeIpv6, FinalizeTcp,
                FinalizeUdp, FinalizeIcmp4, Visit, TypeOK, Cur, Rest, Inside
  <2>2. [layers EXCEPT ![i] = old] = layers
    BY <2>1 DEF TypeOK
  <2>3. i > 1 => Prev[i - 1] = layers[i - 1]
    BY <2>1 DEF Prev, TypeOK
  <2>4. Prev # <<>> => i > 1
    BY <2>1 DEF Prev, TypeOK
  <2> HIDE DEF old
  <2>5. Continue(old) \/ Fail(old) => layers' = layers
    BY <2>2 DEF Continue, Fail
  <2>6. CASE FinalizeInert("Ether") \/ FinalizeInert("Raw")
    BY <2>1, <2>5, <2>6 DEF FinalizeInert
  <2>7. CASE FinalizeIpv4
    <3>1. old.kind = "Ipv4"
      BY <2>1, <2>7 DEF FinalizeIpv4, Visit
    <3>2. old.len = LengthOfLayers(<<old>> \o Rest)
      BY <2>1, <3>1 DEF Right, LengthRight, old
    <3>3. old.sum = Checksum(<<Cleared(old)>>)
      BY <2>1, <3>1 DEF Right, OwnSumRight, old
    <3>4. [old EXCEPT !.len = LengthOfLayers(<<old>> \o Rest)] = old
      BY <2>1, <3>2, Rewrite
    <3>5. [old EXCEPT !.sum = Checksum(<<Cleared(old)>>)] = old
      BY <2>1, <3>3, Rewrite
    <3>6. Continue(old) \/ Fail(old)
      BY <2>1, <2>7, <3>4, <3>5 DEF FinalizeIpv4
    <3> QED
      BY <2>5, <3>6
  <2>8. CASE FinalizeIpv6
    <3>1. old.len = LengthOfLayers(Rest)
      BY <2>1, <2>8 DEF Right, LengthRight, old, FinalizeIpv6, Visit
    <3> QED
      BY <2>1, <2>5, <2>8, <3>1, Rewrite DEF FinalizeIpv6
  <2>9. CASE FinalizeUdp
    <3>1. old.kind = "Udp"
      BY <2>1, <2>9 DEF FinalizeUdp, Visit
    <3>2. old.len = LengthOfLayers(<<old>> \o Rest)
      BY <2>1, <3>1 DEF Right, LengthRight, old
    <3>3. Prev # <<>> /\ IsIp(Prev[i - 1]) =>
             old.sum = TransportSum(Prev[i - 1], Cleared(old), old.len, Rest)
      BY <2>1, <2>3, <2>4, <3>1, <3>2 DEF Right, TransportSumRight, old
    <3> QED
      BY <2>1, <2>5, <2>9, <3>2, <3>3, Rewrite DEF FinalizeUdp
  <2>10. CASE FinalizeTcp
    <3>1. old.kind = "Tcp"
      BY <2>1, <2>10 DEF FinalizeTcp, Visit
    <3>2. 4 * old.words = Length(old) /\ old.words \in Nat
      BY <2>1, <3>1 DEF Right, OffsetRight, old, Layer, U8
    <3>3. Padded(old) = old /\ Length(old) \div 4 = old.words
      BY <2>1, <3>2, Rewrite
    <3>4. Prev # <<>> /\ IsIp(Prev[i - 1]) =>
             old.sum = TransportSum(Prev[i - 1], Cleared(old),
                                    LengthOfLayers(<<old>> \o Rest), Rest)
      BY <2>1, <2>3, <2>4, <3>1 DEF Right, TransportSumRight, old
    <3> QED
      BY <2>1, <2>5, <2>10, <3>3, <3>4, Rewrite DEF FinalizeTcp
  <2>11. CASE FinalizeIcmp4
    <3>1. old.sum = Checksum(<<Cleared(old)>>)
      BY <2>1, <2>11 DEF Right, OwnSumRight, old, FinalizeIcmp4, Visit
    <3> QED
      BY <2>1, <2>5, <2>11, <3>1, Rewrite DEF FinalizeIcmp4
  <2> QED
    BY <1>2, <2>6, <2>7, <2>8, <2>9, <2>10, <2>11 DEF FinalizeStep
<1> QED
  BY <1>1, <1>2

(* finalize is the identity on a correct packet.                           *)
THEOREM CorrectIsStableHolds == ChecksumTyped => (Spec => CorrectIsStable)
<1>1. TypeOK => [Correct /\ FinalizeStep => layers' = layers]_vars
  BY RightStep DEF Correct
<1> QED
  BY <1>1, TypeCorrect, PTL DEF CorrectIsStable

-----------------------------------------------------------------------------
(* Sums of lengths.  Total is what its recursive function, which exists    *)
(* and is unique, ends with.                                               *)
LEMMA TotalIs ==
    ASSUME NEW s \in Seq(Nat), NEW f, PrefixSums(f, s, Len(s))
    PROVE  Total(s) = f[Len(s)]
<1> DEFINE g == CHOOSE g : g = [n \in 0 .. Len(s) |->
                                  IF n = 0 THEN 0 ELSE g[n - 1] + s[n]]
<1>1. PrefixSums(g, s, Len(s))
  BY DEF PrefixSums
<1>2. Total(s) = g[Len(s)]
  BY DEF Total
<1> HIDE DEF g
<1> QED
  BY <1>1, <1>2, SumsUnique

(* A sum of lengths is a number, and its first member can be split off.    *)
LEMMA TotalNat ==
    ASSUME NEW s \in Seq(Nat)
    PROVE  Total(s) \in Nat
<1>1. PICK f \in [0 .. Len(s) -> Nat] : PrefixSums(f, s, Len(s))
  BY SumsExist
<1>2. Len(s) \in 0 .. Len(s)
  OBVIOUS
<1> QED
  BY <1>1, <1>2, TotalIs

(* The first member of a sum of lengths can be split off.                  *)
LEMMA TotalCons ==
    ASSUME NEW s \in Seq(Nat), NEW x \in Nat
    PROVE  Total(<<x>> \o s) = x + Total(s)
<1> DEFINE t == <<x>> \o s
           L == Len(s)
<1>1. PICK f \in [0 .. L -> Nat] : PrefixSums(f, s, L)
  BY SumsExist
<1>2. /\ t \in Seq(Nat) /\ Len(t) = L + 1 /\ L \in Nat /\ t[1] = x
      /\ \A n \in 2 .. L + 1 : t[n] = s[n - 1]
  OBVIOUS
<1> DEFINE g == [n \in 0 .. L + 1 |-> IF n = 0 THEN 0 ELSE x + f[n - 1]]
<1>3. ASSUME NEW n \in 0 .. L + 1
      PROVE  g[n] = IF n = 0 THEN 0 ELSE g[n - 1] + t[n]
  <2>0. \A m \in 0 .. L : f[m] = IF m = 0 THEN 0 ELSE f[m - 1] + s[m]
    BY <1>1 DEF PrefixSums
  <2> HIDE DEF t
  <2>1. CASE n = 0
    BY <2>1
  <2>2. CASE n = 1
    <3>1. g[0] = 0 /\ g[1] = x + f[0] /\ f[0] = 0
      BY <1>2, <2>0
    <3> QED BY <1>2, <2>2, <3>1
  <2>3. CASE n > 1
    <3> DEFINE m == n - 1
    <3>1. /\ m \in 1 .. L /\ m \in 0 .. L /\ m # 0 /\ m - 1 \in 0 .. L
          /\ g[n] = x + f[m] /\ g[m] = x + f[m - 1]
      BY <1>2, <2>3
    <3>2. t[n] = s[m]
      BY <1>2, <2>3
    <3> HIDE DEF m
    <3>3. f[m] = f[m - 1] + s[m]
      BY <2>0, <3>1
    <3>4. s[m] \in Nat /\ f[m - 1] \in Nat
      BY <1>1, <3>1
    <3>5. g[n] = g[m] + t[n]
      BY <3>1, <3>2, <3>3, <3>4
    <3> QED BY <2>3, <3>5 DEF m
  <2> QED BY <1>2, <2>1, <2>2, <2>3
<1>4. g = [n \in 0 .. L + 1 |-> g[n]] /\ g[L + 1] = x + f[L]
  BY <1>2
<1> HIDE DEF g, t
<1>5. PrefixSums(g, t, Len(t))
  BY <1>2, <1>3, <1>4 DEF PrefixSums
<1>6. Total(t) = g[Len(t)] /\ Total(s) = f[L]
  BY <1>1, <1>2, <1>5, TotalIs
<1> QED
  BY <1>2, <1>4, <1>6 DEF t
-----------------------------------------------------------------------------
(* A suffix of a sequence, member by member.                               *)
LEMMA Suffix ==
    ASSUME NEW S, NEW s \in Seq(S), NEW j \in 0 .. Len(s)
    PROVE  /\ SubSeq(s, j + 1, Len(s)) \in Seq(S)
           /\ Len(SubSeq(s, j + 1, Len(s))) = Len(s) - j
           /\ \A n \in 1 .. Len(s) - j : SubSeq(s, j + 1, Len(s))[n] = s[j + n]
<1>1. SubSeq(s, j + 1, Len(s)) \in Seq(S)
  OBVIOUS
<1>2. Len(SubSeq(s, j + 1, Len(s))) = Len(s) - j
  OBVIOUS
<1>3. \A n \in 1 .. Len(s) - j : SubSeq(s, j + 1, Len(s))[n] = s[j + n]
  OBVIOUS
<1> QED BY <1>1, <1>2, <1>3

(* The bytes of the layers inside layer j.                                 *)
Below(ls, j) == LengthOfLayers(SubSeq(ls, j + 1, Len(ls)))

(* The length of layers is a number.                                       *)
LEMMA LengthOfLayersNat ==
    ASSUME NEW ls \in Seq(Layer)
    PROVE  Lengths(ls) \in Seq(Nat) /\ LengthOfLayers(ls) \in Nat
<1>1. Lengths(ls) \in Seq(Nat)
  BY LengthNat DEF Lengths
<1> QED
  BY <1>1, TotalNat DEF LengthOfLayers

(* The length of the first layer can be split off.                         *)
LEMMA LengthOfLayersCons ==
    ASSUME NEW l \in Layer, NEW ls \in Seq(Layer)
    PROVE  LengthOfLayers(<<l>> \o ls) = Length(l) + LengthOfLayers(ls)
<1>1. Lengths(ls) \in Seq(Nat)
  BY LengthOfLayersNat
<1>2. Lengths(<<l>> \o ls) = <<Length(l)>> \o Lengths(ls)
  <2> DEFINE a == Lengths(<<l>> \o ls)
             b == <<Length(l)>> \o Lengths(ls)
  <2>0. Len(Lengths(ls)) = Len(ls)
    BY DEF Lengths
  <2>1. a \in Seq(Nat) /\ b \in Seq(Nat) /\ Len(a) = Len(ls) + 1 /\ Len(b) = Len(ls) + 1
    BY <1>1, <2>0, LengthNat DEF Lengths
  <2>2. ASSUME NEW n \in 1 .. Len(ls) + 1
        PROVE  a[n] = b[n]
    <3>1. CASE n = 1
      BY <1>1, <2>0, <3>1 DEF Lengths
    <3>2. CASE n # 1
      <4>1. n - 1 \in 1 .. Len(ls) /\ (<<l>> \o ls)[n] = ls[n - 1]
        BY <3>2
      <4>2. a[n] = Length(ls[n - 1])
        BY <4>1 DEF Lengths
      <4>3. b[n] = Lengths(ls)[n - 1]
        BY <1>1, <2>0, <3>2
      <4> QED
        BY <4>1, <4>2, <4>3 DEF Lengths
    <3> QED BY <3>1, <3>2
  <2> HIDE DEF a, b
  <2>3. a = b
    BY <2>1, <2>2
  <2> QED BY <2>3 DEF a, b
<1> QED
  BY <1>1, <1>2, TotalCons, LengthNat DEF LengthOfLayers

(* So can that of the next layer from the bytes of the layers inside one.  *)
LEMMA BelowCons ==
    ASSUME NEW ls \in Seq(Layer), NEW j \in 0 .. Len(ls)
    PROVE  /\ Below(ls, j) \in Nat
           /\ \A l \in Layer :
                 LengthOfLayers(<<l>> \o SubSeq(ls, j + 1, Len(ls))) = Length(l) + Below(ls, j)
           /\ j # Len(ls) => Below(ls, j) = Length(ls[j + 1]) + Below(ls, j + 1)
<1>1. SubSeq(ls, j + 1, Len(ls)) \in Seq(Layer)
  OBVIOUS
<1>2. ASSUME j # Len(ls)
      PROVE  Below(ls, j) = Length(ls[j + 1]) + Below(ls, j + 1)
  <2> DEFINE s == SubSeq(ls, (j + 1) + 1, Len(ls))
             l == ls[j + 1]
  <2>1. l \in Layer /\ s \in Seq(Layer)
    BY <1>2
  <2>2. SubSeq(ls, j + 1, Len(ls)) = <<l>> \o s
    BY <1>2
  <2> QED
    BY <2>1, <2>2, LengthOfLayersCons DEF Below
<1> DEFINE s == SubSeq(ls, j + 1, Len(ls))
<1> HIDE DEF s
<1>3. ASSUME NEW l \in Layer
      PROVE  LengthOfLayers(<<l>> \o s) = Length(l) + LengthOfLayers(s)
  BY <1>1, LengthOfLayersCons DEF s
<1>4. LengthOfLayers(s) \in Nat
  BY <1>1, LengthOfLayersNat DEF s
<1> QED
  BY <1>2, <1>3, <1>4 DEF Below, s

-----------------------------------------------------------------------------
(* LengthRight and TransportSumRight for any sequence of layers.           *)
LenOk(ls, j) ==
    /\ ls[j].kind \in {"Ipv4", "Udp"} => ls[j].len = Length(ls[j]) + Below(ls, j)
    /\ ls[j].kind = "Ipv6" => ls[j].len = Below(ls, j)

SumOk(ls, j) ==
    ls[j].kind \in {"Tcp", "Udp"} /\ j > 1 /\ IsIp(ls[j - 1]) =>
        ls[j].sum = TransportSum(ls[j - 1], Cleared(ls[j]), Length(ls[j]) + Below(ls, j),
                                 SubSeq(ls, j + 1, Len(ls)))

(* What a correct layer is, in terms of the list of layers.                *)
LEMMA RightIs ==
    ASSUME layers \in Seq(Layer), NEW j \in DOMAIN layers
    PROVE  /\ LengthRight(j) <=> LenOk(layers, j)
           /\ TransportSumRight(j) <=> SumOk(layers, j)
<1>1. layers[j] \in Layer /\ j \in 0 .. Len(layers)
  OBVIOUS
<1>2. LengthOfLayers(<<layers[j]>> \o Inside(j)) = Length(layers[j]) + Below(layers, j)
  BY <1>1, BelowCons DEF Inside
<1> QED
  BY <1>2 DEF LengthRight, TransportSumRight, LenOk, SumOk, Below, Inside

(* The same in the next state.                                             *)
LEMMA RightIsNext ==
    ASSUME layers' \in Seq(Layer), NEW j \in DOMAIN layers'
    PROVE  /\ LengthRight(j)' <=> LenOk(layers', j)
           /\ TransportSumRight(j)' <=> SumOk(layers', j)
<1>1. layers'[j] \in Layer /\ j \in 0 .. Len(layers')
  OBVIOUS
<1>2. LengthOfLayers(<<layers'[j]>> \o SubSeq(layers', j + 1, Len(layers')))
         = Length(layers'[j]) + Below(layers', j)
  BY <1>1, BelowCons
<1> QED
  BY <1>2 DEF LengthRight, TransportSumRight, LenOk, SumOk, Below, Inside

(* The two differ at most in layer k, and not in its kind or addr.         *)
SameBut(ls, ms, k) ==
    /\ ms \in Seq(Layer) /\ Len(ms) = Len(ls)
    /\ \A j \in 1 .. Len(ls) : j # k => ms[j] = ls[j]
    /\ ms[k].kind = ls[k].kind /\ ms[k].addr = ls[k].addr

(* A layer is only seen by others through its length, and through its kind *)
(* and addr by the one just inside it.                                     *)
LEMMA EditEffect ==
    ASSUME NEW ls \in Seq(Layer), NEW k \in 1 .. Len(ls), NEW ms, SameBut(ls, ms, k)
    PROVE  /\ \A j \in k .. Len(ls) :
                 /\ SubSeq(ms, j + 1, Len(ms)) = SubSeq(ls, j + 1, Len(ls))
                 /\ Below(ms, j) = Below(ls, j)
           /\ \A j \in k + 1 .. Len(ls) :
                 (LenOk(ms, j) <=> LenOk(ls, j)) /\ (SumOk(ms, j) <=> SumOk(ls, j))
           /\ Length(ms[k]) = Length(ls[k]) =>
                 \A j \in 1 .. Len(ls) : /\ Below(ms, j) = Below(ls, j)
                                         /\ j # k => (LenOk(ms, j) <=> LenOk(ls, j))
<1>1. /\ ms \in Seq(Layer) /\ Len(ms) = Len(ls)
      /\ \A j \in 1 .. Len(ls) : j # k => ms[j] = ls[j]
      /\ ms[k].kind = ls[k].kind /\ ms[k].addr = ls[k].addr
  BY DEF SameBut
<1>2. ASSUME NEW j \in k .. Len(ls)
      PROVE  /\ SubSeq(ms, j + 1, Len(ms)) = SubSeq(ls, j + 1, Len(ls))
             /\ Below(ms, j) = Below(ls, j)
  <2> DEFINE a == SubSeq(ms, j + 1, Len(ls))
             b == SubSeq(ls, j + 1, Len(ls))
  <2>1. /\ a \in Seq(Layer) /\ b \in Seq(Layer)
        /\ Len(a) = Len(ls) - j /\ Len(b) = Len(ls) - j
    <3>1. j \in 0 .. Len(ls) /\ j \in 0 .. Len(ms) /\ a = SubSeq(ms, j + 1, Len(ms))
      BY <1>1
    <3>2. b \in Seq(Layer) /\ Len(b) = Len(ls) - j
      BY <3>1, Suffix
    <3> HIDE DEF a, b
    <3>3. a \in Seq(Layer) /\ Len(a) = Len(ms) - j
      BY <1>1, <3>1, Suffix
    <3> QED
      BY <1>1, <3>2, <3>3
  <2>2. \A n \in 1 .. Len(ls) - j : a[n] = b[n]
    BY <1>1
  <2> HIDE DEF a, b
  <2>3. a = b
    BY <2>1, <2>2, SeqEqual
  <2> QED
    BY <1>1, <2>3 DEF a, b, Below
<1>3. ASSUME NEW j \in k + 1 .. Len(ls)
      PROVE  (LenOk(ms, j) <=> LenOk(ls, j)) /\ (SumOk(ms, j) <=> SumOk(ls, j))
  <2>1. /\ j \in k .. Len(ls) /\ ms[j] = ls[j] /\ j > 1 /\ j - 1 \in 1 .. Len(ls)
        /\ ms[j - 1].kind = ls[j - 1].kind /\ ms[j - 1].addr = ls[j - 1].addr
    BY <1>1
  <2>2. Below(ms, j) = Below(ls, j) /\ SubSeq(ms, j + 1, Len(ms)) = SubSeq(ls, j + 1, Len(ls))
    BY <1>2, <2>1
  <2> QED
    BY <2>1, <2>2 DEF LenOk, SumOk, IsIp, TransportSum, PseudoHeader
<1>4. ASSUME Length(ms[k]) = Length(ls[k]), NEW j \in 1 .. Len(ls)
      PROVE  /\ Below(ms, j) = Below(ls, j)
             /\ j # k => (LenOk(ms, j) <=> LenOk(ls, j))
  <2> DEFINE a == SubSeq(ms, j + 1, Len(ls))
             b == SubSeq(ls, j + 1, Len(ls))
  <2>1. /\ a \in Seq(Layer) /\ b \in Seq(Layer)
        /\ Len(a) = Len(ls) - j /\ Len(b) = Len(ls) - j
    <3>1. j \in 0 .. Len(ls) /\ j \in 0 .. Len(ms) /\ a = SubSeq(ms, j + 1, Len(ms))
      BY <1>1
    <3>2. b \in Seq(Layer) /\ Len(b) = Len(ls) - j
      BY <3>1, Suffix
    <3> HIDE DEF a, b
    <3>3. a \in Seq(Layer) /\ Len(a) = Len(ms) - j
      BY <1>1, <3>1, Suffix
    <3> QED
      BY <1>1, <3>2, <3>3
  <2>2. ASSUME NEW n \in 1 .. Len(ls) - j
        PROVE  Length(a[n]) = Length(b[n])
    <3>1. a[n] = ms[j + n] /\ b[n] = ls[j + n] /\ j + n \in 1 .. Len(ls)
      BY <1>1
    <3> QED
      BY <1>1, <1>4, <3>1
  <2> HIDE DEF a, b
  <2>3. Lengths(a) = Lengths(b)
    <3>1. DOMAIN a = 1 .. Len(ls) - j /\ DOMAIN b = 1 .. Len(ls) - j
      BY <2>1
    <3> QED
      BY <2>2, <3>1 DEF Lengths
  <2>4. Below(ms, j) = Below(ls, j)
    BY <1>1, <2>3 DEF a, b, Below, LengthOfLayers
  <2> QED
    BY <1>1, <2>4 DEF LenOk
<1> QED
  BY <1>1, <1>2, <1>3, <1>4

-----------------------------------------------------------------------------
(* When a layer's finalize succeeds, its new length is the sum of the      *)
(* lengths it sees, and its transport checksum covers what it was.         *)
LEMMA ContinueEffect ==
    ASSUME ChecksumTyped, TypeOK, FinalizeStep, ~Return, pc' = "loop"
    PROVE  LET old == layers[i]
               new == layers'[i]
               aligned == IF old.kind = "Tcp" THEN Padded(old) ELSE old
           IN  /\ i \in 1 .. Len(layers) /\ i' = i + 1 /\ pc = "loop"
               /\ layers' = [layers EXCEPT ![i] = new]
               /\ UNCHANGED <<result, before, passes>>
               /\ Touched(old, new) /\ Settled(new)
               /\ old.kind \in {"Ipv4", "Udp"} => new.len = Length(old) + Below(layers, i)
               /\ old.kind = "Ipv6" => new.len = Below(layers, i)
               /\ IsIp(old) => AllWritable(Rest)
               /\ old.kind = "Udp" => new.words = old.words
               /\ old.kind = "Tcp" => new.len = old.len /\ new.opts = Padded(old).opts
               /\ old.kind \in {"Tcp", "Udp"} /\ i > 1 /\ IsIp(layers[i - 1]) =>
                      new.sum = TransportSum(layers[i - 1], Cleared(aligned),
                                             Length(aligned) + Below(layers, i), Rest)
<1>1. PICK l : /\ Touched(layers[i], l)
               /\ \/ Continue(l) /\ Settled(l)
                  \/ Fail(l) /\ Kept(layers[i], l)
  BY FinalizeEffect
<1>2. Continue(l) /\ Settled(l)
  BY <1>1 DEF Fail
<1> DEFINE old == layers[i]
           aligned == IF old.kind = "Tcp" THEN Padded(old) ELSE old
<1>3. /\ i \in 1 .. Len(layers) /\ pc = "loop" /\ layers \in Seq(Layer) /\ old \in Layer
      /\ Cur = old /\ layers'[i] = l
  BY <1>2, FinalizeEffect DEF TypeOK, Continue, Cur
<1>4. \A m \in Layer : LengthOfLayers(<<m>> \o Rest) = Length(m) + Below(layers, i)
  <2>1. i \in 0 .. Len(layers)
    BY <1>3
  <2> QED
    BY <1>3, <2>1, BelowCons DEF Rest
<1>5. LengthOfLayers(Rest) = Below(layers, i)
  BY DEF Rest, Below
<1>6. i > 1 => Prev # <<>> /\ Prev[i - 1] = layers[i - 1]
  BY <1>3 DEF Prev
<1>7. aligned \in Layer
  BY <1>3, PaddedLayer
<1>8. ASSUME NEW m, Continue(m)
      PROVE  m = l
  BY <1>2, <1>3, <1>8 DEF Continue
<1>9. ~Fail(Cur) /\ \A m : ~Fail(m)
  BY DEF Fail
<1> HIDE DEF old, aligned
<1>10. old.kind = "Ipv4" => /\ l.len = Length(old) + Below(layers, i)
                            /\ AllWritable(Rest)
  <2> SUFFICES ASSUME old.kind = "Ipv4"
               PROVE  l.len = Length(old) + Below(layers, i) /\ AllWritable(Rest)
    OBVIOUS
  <2> DEFINE size  == LengthOfLayers(<<Cur>> \o Rest)
             sized == [Cur EXCEPT !.len = size]
  <2>1. FinalizeIpv4
    BY <1>3 DEF FinalizeStep, FinalizeInert, FinalizeIpv4, FinalizeIpv6, FinalizeTcp,
                FinalizeUdp, FinalizeIcmp4, Visit
  <2>2. /\ AllWritable(Rest)
        /\ Continue([sized EXCEPT !.sum = Checksum(<<Cleared(sized)>>)])
    BY <1>9, <2>1 DEF FinalizeIpv4
  <2>3. l = [sized EXCEPT !.sum = Checksum(<<Cleared(sized)>>)]
    BY <1>8, <2>2
  <2>4. l.len = size
    BY <1>3, <2>3 DEF Layer
  <2> QED
    BY <1>3, <1>4, <2>2, <2>4
<1>11. old.kind = "Ipv6" => l.len = Below(layers, i) /\ AllWritable(Rest)
  <2> SUFFICES ASSUME old.kind = "Ipv6"
               PROVE  l.len = Below(layers, i) /\ AllWritable(Rest)
    OBVIOUS
  <2>1. FinalizeIpv6
    BY <1>3 DEF FinalizeStep, FinalizeInert, FinalizeIpv4, FinalizeIpv6, FinalizeTcp,
                FinalizeUdp, FinalizeIcmp4, Visit
  <2>2. AllWritable(Rest) /\ Continue([Cur EXCEPT !.len = LengthOfLayers(Rest)])
    BY <1>9, <2>1 DEF FinalizeIpv6
  <2>3. l = [Cur EXCEPT !.len = LengthOfLayers(Rest)]
    BY <1>8, <2>2
  <2> QED
    BY <1>3, <1>5, <2>2, <2>3 DEF Layer
<1>12. ASSUME old.kind = "Udp"
       PROVE  /\ l.len = Length(old) + Below(layers, i) /\ l.words = old.words
              /\ i > 1 /\ IsIp(layers[i - 1]) =>
                    l.sum = TransportSum(layers[i - 1], Cleared(old),
                                         Length(old) + Below(layers, i), Rest)
  <2> DEFINE size  == LengthOfLayers(<<Cur>> \o Rest)
             sized == [Cur EXCEPT !.len = size]
             sum   == TransportSum(Prev[i - 1], Cleared(Cur), size, Rest)
  <2>1. FinalizeUdp
    BY <1>3, <1>12 DEF FinalizeStep, FinalizeInert, FinalizeIpv4, FinalizeIpv6, FinalizeTcp,
                FinalizeUdp, FinalizeIcmp4, Visit
  <2>2. \/ Prev # <<>> /\ IsIp(Prev[i - 1]) /\ Continue([sized EXCEPT !.sum = sum])
        \/ ~(Prev # <<>> /\ IsIp(Prev[i - 1])) /\ Continue(sized)
    BY <1>9, <2>1 DEF FinalizeUdp
  <2>3. size = Length(old) + Below(layers, i)
    BY <1>3, <1>4
  <2> HIDE DEF size, sum
  <2>4. CASE Prev # <<>> /\ IsIp(Prev[i - 1]) /\ Continue([sized EXCEPT !.sum = sum])
    <3>1. l = [sized EXCEPT !.sum = sum]
      BY <1>8, <2>4
    <3>2. l.len = size /\ l.sum = sum /\ l.words = old.words
      BY <1>3, <3>1 DEF Layer
    <3> QED
      BY <1>3, <1>6, <2>3, <3>2 DEF sum
  <2>5. CASE ~(Prev # <<>> /\ IsIp(Prev[i - 1])) /\ Continue(sized)
    <3>1. l.len = size /\ l.words = old.words
      BY <1>3, <1>8, <2>5 DEF Layer
    <3> QED
      BY <1>6, <2>3, <2>5, <3>1
  <2> QED
    BY <2>2, <2>4, <2>5
<1>13. ASSUME old.kind = "Tcp"
       PROVE  /\ l.len = old.len /\ l.opts = aligned.opts
              /\ i > 1 /\ IsIp(layers[i - 1]) =>
                    l.sum = TransportSum(layers[i - 1], Cleared(aligned),
                                         Length(aligned) + Below(layers, i), Rest)
  <2> DEFINE padded == Padded(Cur)
             size   == LengthOfLayers(<<padded>> \o Rest)
             offset == Length(padded) \div 4
             sum    == TransportSum(Prev[i - 1], Cleared(padded), size, Rest)
             summed == [padded EXCEPT !.sum = sum]
             overIp == Prev # <<>> /\ IsIp(Prev[i - 1])
             m      == IF overIp THEN summed ELSE padded
  <2>1. FinalizeTcp
    BY <1>3, <1>13 DEF FinalizeStep, FinalizeInert, FinalizeIpv4, FinalizeIpv6, FinalizeTcp,
                FinalizeUdp, FinalizeIcmp4, Visit
  <2>2. Continue([m EXCEPT !.words = offset])
    BY <1>9, <2>1 DEF FinalizeTcp
  <2>3. padded = aligned /\ size = Length(aligned) + Below(layers, i)
        /\ padded \in Layer /\ padded.len = old.len
    BY <1>3, <1>4, <1>7, <1>13, PaddedLayer DEF aligned
  <2> HIDE DEF padded, size, sum, overIp
  <2>4. l = [m EXCEPT !.words = offset]
    BY <1>8, <2>2
  <2> HIDE DEF offset
  <2>5. /\ l.len = old.len /\ l.opts = aligned.opts
        /\ overIp => l.sum = sum
    BY <2>3, <2>4 DEF Layer
  <2>6. i > 1 /\ IsIp(layers[i - 1]) => overIp
    BY <1>6 DEF overIp
  <2> QED
    BY <1>6, <2>3, <2>5, <2>6 DEF sum
<1>14. aligned = IF old.kind = "Tcp" THEN Padded(old) ELSE old
  BY DEF aligned
<1>15. /\ layers' = [layers EXCEPT ![i] = layers'[i]] /\ i' = i + 1
       /\ UNCHANGED <<result, before, passes>>
  BY <1>2, <1>3 DEF Continue
<1> QED
  BY <1>1, <1>2, <1>3, <1>10, <1>11, <1>12, <1>13, <1>14, <1>15 DEF old, aligned, IsIp

-----------------------------------------------------------------------------
(* The length fields of a layer are numbers.                               *)
LEMMA FieldNat ==
    ASSUME NEW l \in Layer
    PROVE  l.words \in Nat /\ l.len \in Nat
<1>1. l.words \in U8 /\ l.len \in U16
  BY DEF Layer
<1>2. U8 \subseteq Nat /\ U16 \subseteq Nat
  BY DEF U8, U16
<1> QED
  BY <1>1, <1>2

(* A layer's own length, offset and header checksum are right as soon as   *)
(* its finalize succeeds; its transport checksum too when the length and   *)
(* offset it covers were right before.                                     *)
LEMMA Visited ==
    ASSUME ChecksumTyped, TypeOK, FinalizeStep, ~Return, pc' = "loop"
    PROVE  /\ LenOk(layers', i) /\ Settled(layers'[i])
           /\ LenOk(layers, i) /\ Settled(layers[i]) => SumOk(layers', i)
           /\ SameBut(layers, layers', i)
           /\ Settled(layers[i]) \/ layers[i].kind # "Tcp" =>
                 Length(layers'[i]) = Length(layers[i])
<1> DEFINE old == layers[i]
           new == layers'[i]
           aligned == IF old.kind = "Tcp" THEN Padded(old) ELSE old
<1>1. /\ i \in 1 .. Len(layers) /\ layers \in Seq(Layer) /\ old \in Layer
      /\ layers' = [layers EXCEPT ![i] = new]
      /\ Touched(old, new) /\ Settled(new)
      /\ old.kind \in {"Ipv4", "Udp"} => new.len = Length(old) + Below(layers, i)
      /\ old.kind = "Ipv6" => new.len = Below(layers, i)
      /\ old.kind = "Udp" => new.words = old.words
      /\ old.kind = "Tcp" => new.len = old.len /\ new.opts = Padded(old).opts
      /\ old.kind \in {"Tcp", "Udp"} /\ i > 1 /\ IsIp(layers[i - 1]) =>
             new.sum = TransportSum(layers[i - 1], Cleared(aligned),
                                    Length(aligned) + Below(layers, i), Rest)
  BY ContinueEffect DEF TypeOK
<1> HIDE DEF new, old, aligned
<1>0. /\ i \in 1 .. Len(layers) /\ layers \in Seq(Layer) /\ old \in Layer
      /\ layers' = [layers EXCEPT ![i] = new]
  BY <1>1
<1>2. /\ new \in Layer /\ new.kind = old.kind /\ new.addr = old.addr /\ new.data = old.data
      /\ old.kind # "Tcp" => new.opts = old.opts
  BY <1>1 DEF Touched
<1>3. /\ SameBut(layers, layers', i)
      /\ Below(layers', i) = Below(layers, i)
      /\ SubSeq(layers', i + 1, Len(layers')) = Rest
      /\ i > 1 => layers'[i - 1] = layers[i - 1]
  <2>1. i \in i .. Len(layers) /\ (i > 1 => i - 1 \in 1 .. Len(layers) /\ i - 1 # i)
    BY <1>0
  <2>2. SameBut(layers, layers', i)
    BY <1>0, <1>2 DEF SameBut, old
  <2>3. \A j \in i .. Len(layers) :
           /\ SubSeq(layers', j + 1, Len(layers')) = SubSeq(layers, j + 1, Len(layers))
           /\ Below(layers', j) = Below(layers, j)
    BY <1>0, <2>2, EditEffect
  <2>4. i > 1 => layers'[i - 1] = layers[i - 1]
    BY <1>0, <2>1
  <2> QED
    BY <2>1, <2>2, <2>3, <2>4 DEF Rest
<1>4. ASSUME Settled(old), old.kind = "Tcp"
      PROVE  /\ Padded(old) = old /\ new.opts = old.opts /\ new.words = old.words
             /\ new.len = old.len
  <2>0. old.words \in Nat /\ new.words \in Nat
    BY <1>0, <1>2, FieldNat
  <2>1. 4 * old.words = Length(old)
    BY <1>4 DEF Settled
  <2>2. Length(old) % 4 = 0
    BY <2>0, <2>1
  <2>3. Padded(old) = old
    BY <1>1, <2>2, Rewrite
  <2>4. new.opts = old.opts /\ Length(new) = Length(old)
    BY <1>1, <1>2, <1>4, <2>3 DEF Length
  <2>5. 4 * new.words = Length(old)
    BY <1>1, <1>2, <1>4, <2>4 DEF Settled
  <2> QED
    BY <1>1, <1>4, <2>0, <2>1, <2>3, <2>4, <2>5
<1>5. Settled(old) \/ old.kind # "Tcp" => Length(new) = Length(old)
  BY <1>2, <1>4 DEF Length
<1>6. LenOk(layers', i)
  BY <1>1, <1>2, <1>3, <1>5 DEF LenOk, old, new
<1>7. ASSUME LenOk(layers, i), Settled(old)
      PROVE  SumOk(layers', i)
  <2> SUFFICES ASSUME old.kind \in {"Tcp", "Udp"}, i > 1, IsIp(layers[i - 1])
               PROVE  new.sum = TransportSum(layers[i - 1], Cleared(new),
                                             Length(new) + Below(layers, i), Rest)
    BY <1>2, <1>3 DEF SumOk, new
  <2>1. aligned = old
    BY <1>4, <1>7 DEF aligned
  <2>2. new.len = old.len /\ new.opts = old.opts /\ new.words = old.words
    BY <1>1, <1>2, <1>4, <1>7 DEF LenOk, old
  <2>3. Cleared(new) = Cleared(old)
    BY <1>1, <1>2, <2>2, ClearedEqual
  <2> QED
    BY <1>1, <1>5, <1>7, <2>1, <2>3
<1> QED
  BY <1>1, <1>3, <1>5, <1>6, <1>7 DEF old, new
-----------------------------------------------------------------------------
(* How many transport layers lie inside layer j.                           *)
Transports(ls, j) == {k \in j + 1 .. Len(ls) : ls[k].kind \in {"Tcp", "Udp"}}

Depth(ls, j) == Cardinality(Transports(ls, j))

(* A layer further inside has no more transport layers inside it, and      *)
(* fewer when it is one.                                                   *)
LEMMA DepthFacts ==
    ASSUME NEW ls \in Seq(Layer), NEW j \in 1 .. Len(ls)
    PROVE  /\ Depth(ls, j) \in Nat
           /\ \A k \in j + 1 .. Len(ls) :
                 /\ Depth(ls, k) \in Nat /\ Depth(ls, k) <= Depth(ls, j)
                 /\ ls[k].kind \in {"Tcp", "Udp"} => Depth(ls, k) + 1 <= Depth(ls, j)
<1>1. ASSUME NEW k \in 1 .. Len(ls)
      PROVE  IsFiniteSet(Transports(ls, k)) /\ Depth(ls, k) \in Nat
  <2>1. IsFiniteSet(k + 1 .. Len(ls))
    BY FS_Interval
  <2>2. Transports(ls, k) \subseteq k + 1 .. Len(ls)
    BY DEF Transports
  <2> QED
    BY <2>1, <2>2, FS_Subset, FS_CardinalityType DEF Depth
<1>2. ASSUME NEW k \in j + 1 .. Len(ls)
      PROVE  /\ Depth(ls, k) \in Nat /\ Depth(ls, k) <= Depth(ls, j)
             /\ ls[k].kind \in {"Tcp", "Udp"} => Depth(ls, k) + 1 <= Depth(ls, j)
  <2>1. k \in 1 .. Len(ls)
    OBVIOUS
  <2>2. Transports(ls, k) \subseteq Transports(ls, j)
    BY DEF Transports
  <2>3. Depth(ls, k) <= Depth(ls, j)
    BY <1>1, <2>2, FS_Subset DEF Depth
  <2>4. ASSUME ls[k].kind \in {"Tcp", "Udp"}
        PROVE  Depth(ls, k) + 1 <= Depth(ls, j)
    <3>1. k \in Transports(ls, j) /\ k \notin Transports(ls, k)
      BY <2>4 DEF Transports
    <3>2. Transports(ls, k) # Transports(ls, j)
      BY <3>1
    <3>3. Depth(ls, k) # Depth(ls, j)
      BY <1>1, <2>2, <3>2, FS_Subset DEF Depth
    <3> QED
      BY <1>1, <2>1, <2>3, <3>3
  <2> QED
    BY <1>1, <2>1, <2>3, <2>4
<1> QED
  BY <1>1, <1>2

-----------------------------------------------------------------------------
(* Right for any sequence of layers.                                       *)
RightOk(ls, j) == LenOk(ls, j) /\ Settled(ls[j]) /\ SumOk(ls, j)

(* The inductive invariant of Converges.  A pass that finds the lengths    *)
(* and offsets right leaves every transport checksum right that covers     *)
(* only layers the pass no longer changes; so one more pass is needed for  *)
(* each transport layer inside.  The last conjunct says it of the layers   *)
(* the running call has passed.                                            *)
CInv ==
    /\ passes >= 1 => \A j \in DOMAIN layers : Settled(layers[j])
    /\ \A j \in DOMAIN layers :
          passes >= 2 \/ (passes >= 1 /\ Depth(layers, j) = 0) => LenOk(layers, j)
    /\ \A j \in DOMAIN layers : passes >= 2 + Depth(layers, j) => RightOk(layers, j)
    /\ pc = "loop" => \A j \in 1 .. i - 1 :
          /\ Settled(layers[j])
          /\ passes >= 1 \/ Depth(layers, j) = 0 => LenOk(layers, j)
          /\ passes >= 1 + Depth(layers, j) => RightOk(layers, j)

(* A correct layer as a property of the list.                              *)
LEMMA RightOkIs ==
    ASSUME layers \in Seq(Layer), NEW j \in DOMAIN layers
    PROVE  Right(j) <=> RightOk(layers, j)
BY RightIs DEF Right, RightOk, Settled, OffsetRight, OwnSumRight

(* A visit of the loop preserves CInv.                                     *)
LEMMA ConvergeVisit ==
    ASSUME ChecksumTyped, TypeOK, CInv, FinalizeStep, ~Return, pc' = "loop"
    PROVE  CInv'
<1> DEFINE ls == layers
           ms == layers'
<1>1. /\ i \in 1 .. Len(ls) /\ i' = i + 1 /\ pc = "loop" /\ passes' = passes
      /\ ls \in Seq(Layer) /\ passes \in Nat
  BY ContinueEffect DEF TypeOK
<1>2. /\ LenOk(ms, i) /\ Settled(ms[i]) /\ SameBut(ls, ms, i)
      /\ LenOk(ls, i) /\ Settled(ls[i]) => SumOk(ms, i)
      /\ Settled(ls[i]) \/ ls[i].kind # "Tcp" => Length(ms[i]) = Length(ls[i])
  BY Visited
<1>3. RightOk(ls, i) => ms = ls
  BY <1>1, RightOkIs, RightStep
<1>4. /\ ms \in Seq(Layer) /\ Len(ms) = Len(ls) /\ DOMAIN ms = 1 .. Len(ls)
      /\ DOMAIN ls = 1 .. Len(ls)
      /\ \A j \in 1 .. Len(ls) : j # i => ms[j] = ls[j]
      /\ \A j \in 1 .. Len(ls) : ms[j].kind = ls[j].kind
  <2>1. /\ ms \in Seq(Layer) /\ Len(ms) = Len(ls)
        /\ \A j \in 1 .. Len(ls) : j # i => ms[j] = ls[j]
        /\ ms[i].kind = ls[i].kind
    BY <1>2 DEF SameBut
  <2> HIDE DEF ls, ms
  <2> QED
    BY <1>1, <2>1
<1> USE DEF CInv
<1>5. /\ passes >= 1 => \A j \in 1 .. Len(ls) : Settled(ls[j])
      /\ \A j \in 1 .. Len(ls) :
            passes >= 2 \/ (passes >= 1 /\ Depth(ls, j) = 0) => LenOk(ls, j)
      /\ \A j \in 1 .. Len(ls) : passes >= 2 + Depth(ls, j) => RightOk(ls, j)
      /\ \A j \in 1 .. i - 1 :
            /\ Settled(ls[j])
            /\ passes >= 1 \/ Depth(ls, j) = 0 => LenOk(ls, j)
            /\ passes >= 1 + Depth(ls, j) => RightOk(ls, j)
  BY <1>1, <1>4
<1> SUFFICES /\ passes >= 1 => \A j \in 1 .. Len(ls) : Settled(ms[j])
             /\ \A j \in 1 .. Len(ls) :
                   passes >= 2 \/ (passes >= 1 /\ Depth(ms, j) = 0) => LenOk(ms, j)
             /\ \A j \in 1 .. Len(ls) : passes >= 2 + Depth(ms, j) => RightOk(ms, j)
             /\ \A j \in 1 .. i :
                   /\ Settled(ms[j])
                   /\ passes >= 1 \/ Depth(ms, j) = 0 => LenOk(ms, j)
                   /\ passes >= 1 + Depth(ms, j) => RightOk(ms, j)
  BY <1>1, <1>4
<1> HIDE DEF ls, ms, CInv
<1>6. ASSUME NEW j \in 1 .. Len(ls)
      PROVE  Depth(ms, j) = Depth(ls, j) /\ Depth(ls, j) \in Nat
  <2>1. Transports(ms, j) = Transports(ls, j)
    BY <1>4 DEF Transports
  <2> QED
    BY <1>1, <2>1, DepthFacts DEF Depth
<1>7. ASSUME NEW j \in 1 .. i - 1
      PROVE  /\ Depth(ls, i) \in Nat /\ Depth(ls, i) <= Depth(ls, j)
             /\ ls[i].kind \in {"Tcp", "Udp"} => Depth(ls, i) + 1 <= Depth(ls, j)
  <2>1. j \in 1 .. Len(ls) /\ i \in j + 1 .. Len(ls)
    BY <1>1
  <2> QED
    BY <1>1, <2>1, DepthFacts
<1>8. ASSUME NEW j \in 1 .. Len(ls), j # i
      PROVE  Settled(ms[j]) <=> Settled(ls[j])
  BY <1>4, <1>8
<1>9. ASSUME NEW j \in 1 .. Len(ls), j # i, passes >= 1 \/ ls[i].kind # "Tcp"
      PROVE  LenOk(ms, j) <=> LenOk(ls, j)
  <2>1. Length(ms[i]) = Length(ls[i])
    BY <1>1, <1>2, <1>5, <1>9
  <2> QED
    BY <1>1, <1>2, <1>9, <2>1, EditEffect
<1>10. ASSUME NEW j \in i + 1 .. Len(ls)
       PROVE  RightOk(ms, j) <=> RightOk(ls, j)
  <2>1. (LenOk(ms, j) <=> LenOk(ls, j)) /\ (SumOk(ms, j) <=> SumOk(ls, j))
    BY <1>1, <1>2, EditEffect
  <2>2. ms[j] = ls[j]
    BY <1>1, <1>4
  <2> QED
    BY <2>1, <2>2 DEF RightOk
<1>11. ASSUME NEW j \in 1 .. Len(ls)
       PROVE  /\ passes >= 1 => Settled(ms[j])
              /\ j <= i => Settled(ms[j])
              /\ passes >= 2 \/ (passes >= 1 /\ Depth(ms, j) = 0) => LenOk(ms, j)
  <2>1. CASE j = i
    BY <1>2, <2>1
  <2>2. CASE j # i
    BY <1>1, <1>5, <1>6, <1>8, <1>9, <2>2
  <2> QED
    BY <2>1, <2>2
<1>12. ASSUME NEW j \in 1 .. Len(ls), passes >= 2 + Depth(ms, j)
       PROVE  RightOk(ms, j)
  <2>1. passes >= 2 + Depth(ls, j) /\ RightOk(ls, j)
    BY <1>5, <1>6, <1>12
  <2>2. CASE j > i
    <3>1. j \in i + 1 .. Len(ls)
      BY <1>1, <2>2
    <3> QED
      BY <1>10, <2>1, <3>1
  <2>3. CASE j = i
    BY <1>3, <2>1, <2>3
  <2>4. CASE j < i
    <3>1. j \in 1 .. i - 1
      BY <1>1, <2>4
    <3>2. passes >= 2 + Depth(ls, i)
      BY <1>1, <1>6, <1>7, <2>1, <3>1
    <3>3. ms = ls
      BY <1>1, <1>3, <1>5, <3>2
    <3> QED
      BY <2>1, <3>3
  <2> QED
    BY <1>1, <2>2, <2>3, <2>4
<1>13. ASSUME NEW j \in 1 .. i, passes >= 1 \/ Depth(ms, j) = 0
       PROVE  LenOk(ms, j)
  <2>1. CASE j = i
    BY <1>2, <2>1
  <2>2. CASE j # i
    <3>1. j \in 1 .. i - 1 /\ j \in 1 .. Len(ls)
      BY <1>1, <2>2
    <3>2. LenOk(ls, j)
      BY <1>5, <1>6, <1>13, <3>1
    <3>3. ls[i].kind = "Tcp" => passes >= 1
      BY <1>6, <1>7, <1>13, <3>1
    <3> QED
      BY <1>9, <2>2, <3>1, <3>2, <3>3
  <2> QED
    BY <2>1, <2>2
<1>14. ASSUME NEW j \in 1 .. i, passes >= 1 + Depth(ms, j)
       PROVE  RightOk(ms, j)
  <2>1. j \in 1 .. Len(ls) /\ passes >= 1 + Depth(ls, j) /\ passes >= 1
    BY <1>1, <1>6, <1>14
  <2>2. CASE j = i
    <3>1. passes >= 2 \/ Depth(ls, i) = 0
      BY <1>1, <1>6, <2>1, <2>2
    <3>2. LenOk(ls, i) /\ Settled(ls[i])
      BY <1>1, <1>5, <2>1, <3>1
    <3> QED
      BY <1>2, <2>2, <3>2 DEF RightOk
  <2>3. CASE j # i
    <3>1. j \in 1 .. i - 1
      BY <1>1, <2>3
    <3>2. RightOk(ls, j)
      BY <1>5, <2>1, <3>1
    <3>3. RightOk(ls, i)
      <4>1. CASE ls[i].kind \in {"Tcp", "Udp"}
        <5>1. passes >= 2 + Depth(ls, i)
          BY <1>1, <1>6, <1>7, <2>1, <3>1, <4>1
        <5> QED
          BY <1>1, <1>5, <5>1
      <4>2. CASE ls[i].kind \notin {"Tcp", "Udp"}
        <5>1. passes >= 2 \/ Depth(ls, i) = 0
          BY <1>1, <1>6, <1>7, <2>1, <3>1
        <5>2. LenOk(ls, i) /\ Settled(ls[i])
          BY <1>1, <1>5, <2>1, <5>1
        <5> QED
          BY <4>2, <5>2 DEF RightOk, SumOk
      <4> QED
        BY <4>1, <4>2
    <3> QED
      BY <1>3, <3>2, <3>3
  <2> QED
    BY <2>2, <2>3
<1>15. \A j \in 1 .. i : j \in 1 .. Len(ls) /\ j <= i
  BY <1>1
<1> QED
  BY <1>11, <1>12, <1>13, <1>14, <1>15

(* CInv is inductive.                                                      *)
LEMMA ConvergeStep ==
    ASSUME ChecksumTyped, TypeOK, TypeOK', CInv, [Next]_vars
    PROVE  CInv'
<1>0. \A j \in DOMAIN layers' : Depth(layers', j) \in Nat
  BY DepthFacts DEF TypeOK
<1>1. ASSUME passes' = 0, pc' = "idle"
      PROVE  CInv'
  BY <1>0, <1>1 DEF CInv
<1>2. CASE FromLayers \/ LayersMut
  BY <1>1, <1>2 DEF FromLayers, LayersMut, Reset
<1>3. CASE Finalize
  <2>1. layers' = layers /\ passes' = passes /\ i' = 1
    BY <1>3 DEF Finalize
  <2> QED
    BY <2>1 DEF CInv
<1>4. CASE FinalizeStep /\ ~Return /\ pc' = "loop"
  BY <1>4, ConvergeVisit
<1>5. CASE FinalizeStep /\ ~Return /\ pc' # "loop"
  <2>1. passes' = 0 /\ pc' = "idle"
    BY <1>5, FinalizeEffect DEF Continue, Fail
  <2> QED
    BY <1>1, <2>1
<1>6. CASE Return
  <2>1. /\ layers' = layers /\ pc = "loop" /\ pc' = "idle"
        /\ passes' = passes \/ passes' = passes + 1
        /\ passes \in Nat
    BY <1>6 DEF Return, TypeOK
  <2>2. DOMAIN layers \subseteq 1 .. i - 1
    BY <1>6 DEF Return, TypeOK
  <2>3. \A j \in DOMAIN layers :
          /\ Settled(layers[j]) /\ Depth(layers, j) \in Nat
          /\ passes >= 1 \/ Depth(layers, j) = 0 => LenOk(layers, j)
          /\ passes >= 1 + Depth(layers, j) => RightOk(layers, j)
          /\ passes >= 2 \/ (passes >= 1 /\ Depth(layers, j) = 0) => LenOk(layers, j)
          /\ passes >= 2 + Depth(layers, j) => RightOk(layers, j)
    BY <1>0, <2>1, <2>2 DEF CInv
  <2>4. \A j \in DOMAIN layers :
          /\ passes' >= 2 \/ (passes' >= 1 /\ Depth(layers, j) = 0) => LenOk(layers, j)
          /\ passes' >= 2 + Depth(layers, j) => RightOk(layers, j)
    BY <2>1, <2>3
  <2> QED
    BY <2>1, <2>3, <2>4 DEF CInv
<1>7. CASE UNCHANGED vars
  BY <1>7 DEF CInv, vars
<1> QED
  BY <1>2, <1>3, <1>4, <1>5, <1>6, <1>7 DEF Next

(* Repeating finalize repairs what a call computed from stale fields: a    *)
(* layer is right after two calls of Packet::finalize and one more for     *)
(* each transport layer inside it, however deep the packet is nested.      *)
THEOREM ConvergesHolds == ChecksumTyped => (Spec => []Converges)
<1> SUFFICES ASSUME ChecksumTyped
             PROVE  Spec => []Converges
  OBVIOUS
<1>1. Init => TypeOK /\ CInv
  BY DEF Init, TypeOK, CInv
<1>2. TypeOK /\ CInv /\ [Next]_vars => TypeOK' /\ CInv'
  BY TypeStep, ConvergeStep
<1>3. TypeOK /\ CInv => Converges
  <2> SUFFICES ASSUME TypeOK, CInv, NEW j \in DOMAIN layers,
                      passes >= 2 + Cardinality(TransportsInside(j))
               PROVE  Right(j)
    BY DEF Converges
  <2>1. passes >= 2 + Depth(layers, j)
    BY DEF TransportsInside, Depth, Transports
  <2> QED
    BY <2>1, RightOkIs DEF CInv, TypeOK
<1> QED
  BY <1>1, <1>2, <1>3, PTL DEF Spec

-----------------------------------------------------------------------------
(* The layers that are not yet visited are those finalize was called with. *)
LEMMA LoopFacts ==
    ASSUME ChecksumTyped, IInv, FinalizeStep, ~Return
    PROVE  /\ pc = "loop" /\ result = "none" /\ i \in 1 .. Len(layers)
           /\ layers \in Seq(Layer) /\ before \in Seq(Layer) /\ Len(layers) = Len(before)
           /\ layers[i] = before[i]
           /\ Rest = SubSeq(before, i + 1, Len(before))
           /\ Below(layers, i) = Below(before, i)
<1>1. /\ pc = "loop" /\ result = "none" /\ i \in 1 .. Len(layers)
      /\ layers \in Seq(Layer) /\ before \in Seq(Layer) /\ Len(layers) = Len(before)
      /\ \A j \in i .. Len(layers) : layers[j] = before[j]
  BY FinalizeEffect DEF IInv, TypeOK, PartialFailure, PassedOffsets
<1>2. Rest = SubSeq(before, i + 1, Len(before))
  <2> DEFINE a == SubSeq(layers, i + 1, Len(layers))
             b == SubSeq(before, i + 1, Len(before))
  <2>0. i \in 0 .. Len(layers) /\ i \in 0 .. Len(before)
    BY <1>1
  <2>1. /\ a \in Seq(Layer) /\ Len(a) = Len(layers) - i
        /\ \A n \in 1 .. Len(layers) - i : a[n] = layers[i + n]
    BY <1>1, <2>0, Suffix
  <2>2. /\ b \in Seq(Layer) /\ Len(b) = Len(before) - i
        /\ \A n \in 1 .. Len(before) - i : b[n] = before[i + n]
    BY <1>1, <2>0, Suffix
  <2> HIDE DEF a, b
  <2>3. \A n \in 1 .. Len(a) : a[n] = b[n]
    BY <1>1, <2>1, <2>2
  <2>4. a = b
    BY <1>1, <2>1, <2>2, <2>3, SeqEqual
  <2> QED
    BY <2>4 DEF a, b, Rest
<1>3. Below(layers, i) = Below(before, i)
  BY <1>2 DEF Below, Rest
<1>4. layers[i] = before[i]
  BY <1>1
<1> QED
  BY <1>1, <1>2, <1>3, <1>4

(* Fewer layers are no longer.                                             *)
LEMMA BelowMono ==
    ASSUME NEW ls \in Seq(Layer), NEW j \in 0 .. Len(ls), NEW k \in j .. Len(ls)
    PROVE  Below(ls, k) <= Below(ls, j)
<1> DEFINE S == {n \in Nat : j + n <= Len(ls) => Below(ls, j + n) <= Below(ls, j)}
<1>1. 0 \in S
  BY BelowCons
<1>2. ASSUME NEW n \in Nat, n \in S, j + (n + 1) <= Len(ls)
      PROVE  Below(ls, j + (n + 1)) <= Below(ls, j)
  <2> DEFINE m == j + n
  <2>1. m \in 0 .. Len(ls) /\ m # Len(ls) /\ m + 1 = j + (n + 1) /\ m + 1 \in 0 .. Len(ls)
        /\ ls[m + 1] \in Layer
    BY <1>2
  <2>2. Below(ls, m) <= Below(ls, j)
    BY <1>2
  <2> HIDE DEF m
  <2>3. Below(ls, m) = Length(ls[m + 1]) + Below(ls, m + 1)
    BY <2>1, BelowCons
  <2>4. Length(ls[m + 1]) \in Nat /\ Below(ls, m + 1) \in Nat /\ Below(ls, j) \in Nat
    BY <2>1, BelowCons, LengthNat
  <2>5. Below(ls, m + 1) <= Below(ls, j)
    BY <2>2, <2>3, <2>4
  <2> QED
    BY <2>1, <2>5
<1>3. \A n \in Nat : n \in S => n + 1 \in S
  BY <1>2
<1> HIDE DEF S
<1>4. Nat \subseteq S
  BY <1>1, <1>3, NatSetInduction
<1>5. k - j \in Nat /\ j + (k - j) = k
  OBVIOUS
<1>6. k - j \in S
  BY <1>4, <1>5
<1>7. Below(ls, j + (k - j)) <= Below(ls, j)
  BY <1>5, <1>6 DEF S
<1> QED
  BY <1>5, <1>7

-----------------------------------------------------------------------------
(* Why a layer's finalize fails.                                           *)
LEMMA FailEffect ==
    ASSUME ChecksumTyped, TypeOK, FinalizeStep, ~Return, pc' # "loop"
    PROVE  LET old == layers[i]
           IN  /\ i \in 1 .. Len(layers) /\ i' = i /\ result' = "error" /\ pc' = "idle"
               /\ before' = before /\ passes' = 0
               /\ layers' = [layers EXCEPT ![i] = layers'[i]]
               /\ layers'[i].kind = old.kind
               /\ \/ IsIp(old)
                  \/ /\ old.kind = "Udp"
                     /\ ~AllWritable(Rest) \/ Length(old) + Below(layers, i) \notin U16
                  \/ /\ old.kind = "Tcp"
                     /\ \/ ~Writable(old) \/ ~AllWritable(Rest)
                        \/ /\ i > 1 /\ layers[i - 1].kind = "Ipv4"
                           /\ Length(Padded(old)) + Below(layers, i) \notin U16
                        \/ Length(layers'[i]) > 4 * 255
<1>1. PICK l : Touched(layers[i], l) /\ Fail(l)
  BY FinalizeEffect DEF Continue
<1> DEFINE old == layers[i]
<1>2. /\ i \in 1 .. Len(layers) /\ layers \in Seq(Layer) /\ old \in Layer
      /\ Cur = old /\ layers'[i] = l
  BY <1>1, FinalizeEffect DEF TypeOK, Fail, Cur
<1>3. \A m \in Layer : LengthOfLayers(<<m>> \o Rest) = Length(m) + Below(layers, i)
  <2>1. i \in 0 .. Len(layers)
    BY <1>2
  <2> QED
    BY <1>2, <2>1, BelowCons DEF Rest
<1>4. /\ i > 1 => Prev[i - 1] = layers[i - 1]
      /\ Prev # <<>> => i > 1
  BY <1>2 DEF Prev
<1>5. ASSUME NEW m, Fail(m)
      PROVE  m = l
  BY <1>1, <1>2, <1>5 DEF Fail
<1>6. \A m : ~Continue(m)
  <2> SUFFICES ASSUME NEW m, Continue(m) PROVE FALSE
    OBVIOUS
  <2>1. pc = "loop"
    BY FinalizeEffect
  <2> QED
    BY <2>1 DEF Continue
<1> HIDE DEF old
<1>7. CASE FinalizeUdp
  <2>1. old.kind = "Udp"
    BY <1>2, <1>7 DEF FinalizeUdp, Visit
  <2>2. ~(AllWritable(Rest) /\ LengthOfLayers(<<Cur>> \o Rest) \in U16)
    BY <1>6, <1>7 DEF FinalizeUdp
  <2>3. LengthOfLayers(<<Cur>> \o Rest) = Length(old) + Below(layers, i)
    BY <1>2, <1>3
  <2> QED
    BY <1>1, <1>2, <2>1, <2>2, <2>3 DEF Fail, Touched, old
<1>8. CASE FinalizeTcp
  <2> DEFINE padded == Padded(Cur)
             size   == LengthOfLayers(<<padded>> \o Rest)
             offset == Length(padded) \div 4
             sum    == TransportSum(Prev[i - 1], Cleared(padded), size, Rest)
             summed == [padded EXCEPT !.sum = sum]
  <2>1. old.kind = "Tcp"
    BY <1>2, <1>8 DEF FinalizeTcp, Visit
  <2>2. padded \in Layer /\ padded = Padded(old) /\ Length(padded) \in Nat
    BY <1>2, PaddedLayer, LengthNat
  <2>3. size = Length(padded) + Below(layers, i)
    BY <1>3, <2>2
  <2>4. \/ ~Writable(Cur)
        \/ ~(Prev = <<>> \/ AllWritable(Rest))
        \/ ~(Prev # <<>> /\ Prev[i - 1].kind = "Ipv4" => size \in U16)
        \/ offset \notin U8 /\ (Fail(summed) \/ Fail(padded))
    BY <1>6, <1>8 DEF FinalizeTcp
  <2> HIDE DEF padded, size, sum
  <2>5. ASSUME offset \notin U8, Fail(summed) \/ Fail(padded)
        PROVE  Length(l) > 4 * 255
    <3>1. l = summed \/ l = padded
      BY <1>5, <2>5
    <3>2. Length(l) = Length(padded)
      BY <2>2, <3>1 DEF Length, Layer
    <3>3. Length(padded) > 4 * 255
      BY <2>2, <2>5 DEF U8
    <3> QED
      BY <3>2, <3>3
  <2>6. \/ ~Writable(old) \/ ~AllWritable(Rest)
        \/ /\ i > 1 /\ layers[i - 1].kind = "Ipv4"
           /\ Length(Padded(old)) + Below(layers, i) \notin U16
        \/ Length(l) > 4 * 255
    BY <1>2, <1>4, <2>2, <2>3, <2>4, <2>5
  <2> QED
    BY <1>1, <1>2, <2>1, <2>6 DEF Fail, Touched, old
<1>9. CASE FinalizeIpv4 \/ FinalizeIpv6
  <2>1. IsIp(old)
    BY <1>2, <1>9 DEF FinalizeIpv4, FinalizeIpv6, Visit, IsIp
  <2> QED
    BY <1>1, <1>2, <2>1 DEF Fail, Touched, old
<1> QED
  BY <1>6, <1>7, <1>8, <1>9 DEF FinalizeStep, FinalizeInert, FinalizeIcmp4

-----------------------------------------------------------------------------
(* The inductive invariant of LengthDeficit and IpGuardsInside: a length   *)
(* field the loop has written counts what the layers inside were when the  *)
(* call began, and behind an IP layer they could all be serialized.        *)
DInv ==
    /\ result = "ok" => i > Len(layers)
    /\ pc = "loop" \/ result = "ok" => \A j \in DOMAIN layers : j < i =>
          /\ layers[j].kind \in {"Ipv4", "Udp"} =>
                layers[j].len = Length(before[j]) + Below(before, j)
          /\ layers[j].kind = "Ipv6" => layers[j].len = Below(before, j)
          /\ IsIp(layers[j]) => AllWritable(SubSeq(before, j + 1, Len(before)))

(* The layers the loop changes are those it is at; the rest stays.         *)
LEMMA LengthsVisit ==
    ASSUME ChecksumTyped, IInv, DInv, FinalizeStep, ~Return, pc' = "loop"
    PROVE  DInv'
<1>1. /\ pc = "loop" /\ result = "none" /\ i \in 1 .. Len(layers)
      /\ layers \in Seq(Layer) /\ before \in Seq(Layer) /\ Len(layers) = Len(before)
      /\ layers[i] = before[i]
      /\ Rest = SubSeq(before, i + 1, Len(before))
      /\ Below(layers, i) = Below(before, i)
  BY LoopFacts
<1> DEFINE old == layers[i]
           new == layers'[i]
<1>2. /\ i' = i + 1 /\ layers' = [layers EXCEPT ![i] = new]
      /\ result' = result /\ before' = before
      /\ new.kind = old.kind
      /\ old.kind \in {"Ipv4", "Udp"} => new.len = Length(old) + Below(layers, i)
      /\ old.kind = "Ipv6" => new.len = Below(layers, i)
      /\ IsIp(old) => AllWritable(Rest)
  BY ContinueEffect DEF IInv, Touched
<1>3. Len(layers') = Len(layers) /\ DOMAIN layers' = 1 .. Len(layers)
      /\ \A j \in 1 .. Len(layers) : j # i => layers'[j] = layers[j]
  BY <1>1, <1>2
<1> SUFFICES ASSUME NEW j \in 1 .. Len(layers), j < i + 1
             PROVE  /\ layers'[j].kind \in {"Ipv4", "Udp"} =>
                          layers'[j].len = Length(before[j]) + Below(before, j)
                    /\ layers'[j].kind = "Ipv6" => layers'[j].len = Below(before, j)
                    /\ IsIp(layers'[j]) => AllWritable(SubSeq(before, j + 1, Len(before)))
  BY <1>1, <1>2, <1>3 DEF DInv
<1>4. CASE j = i
  BY <1>1, <1>2, <1>4 DEF IsIp
<1>5. CASE j # i
  <2>1. j < i /\ j \in DOMAIN layers /\ layers'[j] = layers[j]
    BY <1>1, <1>3, <1>5
  <2> QED
    BY <1>1, <2>1 DEF DInv
<1> QED
  BY <1>4, <1>5

(* Every step preserves DInv.                                              *)
LEMMA LengthsStep ==
    ASSUME ChecksumTyped, IInv, IInv', DInv, [Next]_vars
    PROVE  DInv'
<1>1. CASE FromLayers \/ LayersMut
  BY <1>1 DEF FromLayers, LayersMut, Reset, DInv
<1>2. CASE Finalize
  BY <1>2 DEF Finalize, DInv, IInv, TypeOK
<1>3. CASE FinalizeStep /\ ~Return /\ pc' = "loop"
  BY <1>3, LengthsVisit
<1>4. CASE FinalizeStep /\ ~Return /\ pc' # "loop"
  BY <1>4, FailEffect DEF DInv, IInv
<1>5. CASE Return
  BY <1>5 DEF Return, DInv
<1>6. CASE UNCHANGED vars
  BY <1>6 DEF vars, DInv
<1> QED
  BY <1>1, <1>2, <1>3, <1>4, <1>5, <1>6 DEF Next

(* After a successful finalize each length field is short by exactly the   *)
(* padding the same call pushed into the Tcp layers further inside.        *)
THEOREM LengthDeficitHolds == ChecksumTyped => (Spec => []LengthDeficit)
<1> SUFFICES ASSUME ChecksumTyped
             PROVE  Spec => []LengthDeficit
  OBVIOUS
<1>1. Init => DInv
  BY DEF Init, DInv
<1>2. IInv /\ IInv' /\ DInv /\ [Next]_vars => DInv'
  BY LengthsStep
<1>3. IInv /\ DInv => LengthDeficit
  <2> SUFFICES ASSUME IInv, DInv, result = "ok", NEW j \in DOMAIN layers
               PROVE  LET missing == LengthOfLayers(Inside(j)) -
                             LengthOfLayers(SubSeq(before, j + 1, Len(before)))
                      IN  /\ layers[j].kind \in {"Ipv4", "Udp"} =>
                                 layers[j].len + missing =
                                     LengthOfLayers(<<layers[j]>> \o Inside(j))
                          /\ layers[j].kind = "Ipv6" =>
                                 layers[j].len + missing = LengthOfLayers(Inside(j))
    BY DEF LengthDeficit
  <2>1. /\ layers \in Seq(Layer) /\ before \in Seq(Layer) /\ Len(layers) = Len(before)
        /\ i > Len(layers) /\ i \in Nat /\ layers[j] \in Layer /\ before[j] \in Layer
    BY DEF IInv, DInv, TypeOK, PartialFailure
  <2>2. j \in 0 .. Len(layers) /\ j \in 0 .. Len(before) /\ j < i
    BY <2>1
  <2>3. /\ layers[j].kind \in {"Ipv4", "Udp"} =>
              layers[j].len = Length(before[j]) + Below(before, j)
        /\ layers[j].kind = "Ipv6" => layers[j].len = Below(before, j)
    BY <2>2 DEF DInv
  <2>4. layers[j].kind # "Tcp" => Length(layers[j]) = Length(before[j])
    BY DEF IInv, OnlyDependentFields, Length
  <2>5. LengthOfLayers(<<layers[j]>> \o Inside(j)) = Length(layers[j]) + Below(layers, j)
    BY <2>1, <2>2, BelowCons DEF Inside
  <2>6. /\ Below(layers, j) \in Nat /\ Below(before, j) \in Nat
        /\ Length(layers[j]) \in Nat /\ Length(before[j]) \in Nat
    BY <2>1, <2>2, BelowCons, LengthNat
  <2>7. /\ LengthOfLayers(Inside(j)) = Below(layers, j)
        /\ LengthOfLayers(SubSeq(before, j + 1, Len(before))) = Below(before, j)
    BY DEF Below, Inside
  <2> QED
    BY <2>3, <2>4, <2>5, <2>6, <2>7
<1> QED
  BY <1>1, <1>2, <1>3, Invariance, PTL DEF Spec

-----------------------------------------------------------------------------
(* The range of a length field.                                            *)
LEMMA Range16 ==
    /\ \A l \in Layer : l.len \in Nat /\ l.len <= 65535
    /\ \A n \in Nat : n <= 65535 => n \in U16
<1>1. \A n \in U16 : n \in Nat /\ n <= 65535
  BY DEF U16
<1>2. \A l \in Layer : l.len \in U16
  BY DEF Layer
<1>3. \A n \in Nat : n <= 65535 => n \in U16
  <2> DEFINE most == 65535
  <2>1. most \in Nat /\ U16 = 0 .. most
    BY DEF U16
  <2>2. \A n \in Nat : n <= most => n \in U16
    <3> HIDE DEF most
    <3> QED
      BY <2>1
  <2> QED
    BY <2>2
<1> QED
  BY <1>1, <1>2, <1>3

(* A call that fails inside an IP layer fails at one, or at a Tcp header   *)
(* too large for its offset field.                                         *)
LEMMA GuardStep ==
    ASSUME ChecksumTyped, IInv, DInv, FinalizeStep, ~Return, pc' # "loop"
    PROVE  IpGuardsInside'
<1>1. /\ pc = "loop" /\ i \in 1 .. Len(layers)
      /\ layers \in Seq(Layer) /\ before \in Seq(Layer) /\ Len(layers) = Len(before)
      /\ layers[i] = before[i]
      /\ Rest = SubSeq(before, i + 1, Len(before))
      /\ Below(layers, i) = Below(before, i)
  BY LoopFacts
<1> DEFINE old == layers[i]
           Why == \/ IsIp(old)
                  \/ /\ old.kind = "Udp"
                     /\ ~AllWritable(Rest) \/ Length(old) + Below(layers, i) \notin U16
                  \/ /\ old.kind = "Tcp"
                     /\ \/ ~Writable(old) \/ ~AllWritable(Rest)
                        \/ /\ i > 1 /\ layers[i - 1].kind = "Ipv4"
                           /\ Length(Padded(old)) + Below(layers, i) \notin U16
                        \/ Length(layers'[i]) > 4 * 255
<1>2. /\ i' = i /\ layers' = [layers EXCEPT ![i] = layers'[i]]
      /\ layers'[i].kind = old.kind /\ Why
  BY FailEffect DEF IInv
<1> SUFFICES ASSUME NEW j \in 1 .. i - 1, IsIp(layers'[j]), ~IsIp(old)
             PROVE  old.kind = "Tcp" /\ Length(layers'[i]) > 4 * 255
  BY <1>1, <1>2 DEF IpGuardsInside, IsIp
<1>3. IsIp(layers[j]) /\ j \in DOMAIN layers /\ j < i /\ j \in 0 .. Len(before)
      /\ layers[j] \in Layer /\ before[j] \in Layer /\ old \in Layer
  <2>1. j \in DOMAIN layers /\ j < i /\ j \in 0 .. Len(before) /\ j # i /\ j \in DOMAIN before
    BY <1>1
  <2>2. layers'[j] = layers[j]
    BY <1>1, <1>2, <2>1
  <2> QED
    BY <1>1, <2>1, <2>2
<1> DEFINE bs == SubSeq(before, j + 1, Len(before))
<1>4. AllWritable(bs)
  BY <1>1, <1>3 DEF DInv
<1>5. Writable(old) /\ AllWritable(Rest)
  <2>1. /\ bs \in Seq(Layer) /\ Len(bs) = Len(before) - j
        /\ \A n \in 1 .. Len(before) - j : bs[n] = before[j + n]
    BY <1>1, <1>3, Suffix
  <2>2. i \in 0 .. Len(before)
    BY <1>1
  <2>3. /\ Rest \in Seq(Layer) /\ Len(Rest) = Len(before) - i
        /\ \A n \in 1 .. Len(before) - i : Rest[n] = before[i + n]
    BY <1>1, <2>2, Suffix
  <2> HIDE DEF bs
  <2>4. \A k \in j + 1 .. Len(before) : Writable(before[k])
    <3> SUFFICES ASSUME NEW k \in j + 1 .. Len(before) PROVE Writable(before[k])
      OBVIOUS
    <3>1. k - j \in 1 .. Len(before) - j /\ j + (k - j) = k /\ k - j \in DOMAIN bs
      BY <2>1
    <3>2. Writable(bs[k - j])
      BY <1>4, <3>1 DEF AllWritable
    <3> QED
      BY <2>1, <3>1, <3>2
  <2>5. Writable(old)
    BY <1>1, <2>4
  <2>6. \A n \in DOMAIN Rest : Writable(Rest[n])
    <3> SUFFICES ASSUME NEW n \in DOMAIN Rest PROVE Writable(Rest[n])
      OBVIOUS
    <3>1. n \in 1 .. Len(before) - i /\ i + n \in j + 1 .. Len(before)
      BY <1>1, <2>3
    <3> QED
      BY <2>3, <2>4, <3>1
  <2> QED
    BY <2>5, <2>6 DEF AllWritable
<1> HIDE DEF bs, old
<1>6. /\ i - 1 \in 0 .. Len(before) /\ i - 1 # Len(before) /\ (i - 1) + 1 = i
      /\ i - 1 \in j .. Len(before) /\ i \in 0 .. Len(before)
  BY <1>1, <1>3
<1>7. /\ Below(before, i - 1) = Length(old) + Below(before, i)
      /\ Below(before, i - 1) \in Nat /\ Below(before, i) \in Nat
      /\ Below(before, j) \in Nat /\ Length(old) \in Nat
      /\ Below(before, i - 1) <= Below(before, j)
  <2>1. Below(before, i - 1) = Length(before[(i - 1) + 1]) + Below(before, (i - 1) + 1)
    BY <1>1, <1>6, BelowCons
  <2>2. Below(before, i - 1) <= Below(before, j)
    BY <1>1, <1>3, <1>6, BelowMono
  <2>3. Below(before, i - 1) \in Nat /\ Below(before, i) \in Nat /\ Below(before, j) \in Nat
    BY <1>1, <1>3, <1>6, BelowCons
  <2> QED
    BY <1>1, <1>3, <1>6, <2>1, <2>2, <2>3, LengthNat DEF old
<1>8. Length(before[j]) \in Nat /\ layers[j].len \in Nat /\ layers[j].len <= 65535
  BY <1>3, LengthNat, Range16
<1>9. Below(before, j) <= 65535
  <2>1. \/ layers[j].len = Length(before[j]) + Below(before, j)
        \/ layers[j].len = Below(before, j)
    BY <1>1, <1>3 DEF DInv, IsIp
  <2> QED
    BY <1>7, <1>8, <2>1
<1>10. Length(old) + Below(layers, i) \in U16
  BY <1>1, <1>7, <1>9, Range16
<1>11. ASSUME i > 1, layers[i - 1].kind = "Ipv4", old.kind = "Tcp"
       PROVE  Length(Padded(old)) + Below(layers, i) \in U16
  <2> DEFINE p == i - 1
  <2>1. p \in DOMAIN layers /\ p < i /\ layers[p] \in Layer /\ before[p] \in Layer
    BY <1>1, <1>11
  <2>2. before[p].kind = "Ipv4"
    BY <1>11, <2>1 DEF IInv, OnlyDependentFields
  <2>3. Length(before[p]) \in Nat /\ Length(before[p]) >= 20
    BY <2>1, <2>2 DEF Length, Layer, HeaderBytes, Kinds
  <2>4. layers[p].len = Length(before[p]) + Below(before, p)
    BY <1>1, <1>11, <2>1 DEF DInv
  <2>5. layers[p].len \in Nat /\ layers[p].len <= 65535
    BY <2>1, Range16
  <2> HIDE DEF p
  <2>6. Below(before, p) = Length(old) + Below(before, i) /\ Below(before, p) <= 65515
    <3>1. Below(before, p) = Length(old) + Below(before, i) /\ Below(before, p) \in Nat
      BY <1>7 DEF p
    <3> QED
      BY <2>3, <2>4, <2>5, <3>1
  <2>7. Length(Padded(old)) \in Nat /\ Length(Padded(old)) <= Length(old) + 3
    <3>1. /\ Padded(old) \in Layer /\ Padded(old).kind = old.kind
          /\ Padded(old).opts - old.opts \in 0 .. 3
      BY <1>3, PaddedLayer
    <3>2. Padded(old).opts \in Nat /\ old.opts \in Nat /\ HeaderBytes[old.kind] \in Nat
      BY <1>3, <3>1 DEF Layer, HeaderBytes, Kinds
    <3>3. Length(Padded(old)) <= Length(old) + 3
      BY <3>1, <3>2 DEF Length
    <3> QED
      BY <3>1, <3>3, LengthNat
  <2> QED
    BY <1>1, <1>7, <2>6, <2>7, Range16
<1>12. old.kind = "Tcp" /\ Length(layers'[i]) > 4 * 255
  BY <1>2, <1>5, <1>10, <1>11
<1> QED
  BY <1>12

(* Below an IP layer, Packet::finalize fails only at another IP layer or   *)
(* at a Tcp header larger than its offset can count.                       *)
THEOREM IpGuardsInsideHolds == ChecksumTyped => (Spec => []IpGuardsInside)
<1> SUFFICES ASSUME ChecksumTyped
             PROVE  Spec => []IpGuardsInside
  OBVIOUS
<1>1. Init => DInv /\ IpGuardsInside
  BY DEF Init, DInv, IpGuardsInside
<1>2. ASSUME IInv, IInv', DInv, IpGuardsInside, [Next]_vars
      PROVE  DInv' /\ IpGuardsInside'
  <2>1. DInv'
    BY <1>2, LengthsStep
  <2>2. CASE FinalizeStep /\ ~Return /\ pc' # "loop"
    BY <1>2, <2>1, <2>2, GuardStep
  <2>3. CASE FinalizeStep /\ ~Return /\ pc' = "loop"
    <3>1. result' # "error"
      BY <1>2, <2>3, LoopFacts, ContinueEffect DEF IInv
    <3> QED
      BY <2>1, <3>1 DEF IpGuardsInside
  <2>4. CASE FromLayers \/ LayersMut \/ Finalize \/ Return
    <3>1. result' # "error"
      BY <2>4 DEF FromLayers, LayersMut, Reset, Finalize, Return
    <3> QED
      BY <2>1, <3>1 DEF IpGuardsInside
  <2>5. CASE UNCHANGED vars
    BY <1>2, <2>1, <2>5 DEF vars, IpGuardsInside
  <2> QED
    BY <1>2, <2>2, <2>3, <2>4, <2>5 DEF Next
<1> QED
  BY <1>1, <1>2, Invariance, PTL DEF Spec

-----------------------------------------------------------------------------
(* The hypothesis of OnePassEnough, on the layers finalize was called with. *)
Prepared(bs) ==
    \A j \in DOMAIN bs :
        LET inside == SubSeq(bs, j + 1, Len(bs))
        IN  /\ bs[j].kind = "Tcp" => 4 * bs[j].words = Length(bs[j])
            /\ bs[j].kind = "Udp" =>
                   bs[j].len = LengthOfLayers(<<bs[j]>> \o inside)
            /\ bs[j].kind \in {"Tcp", "Udp"} =>
                   \A n \in DOMAIN inside : inside[n].kind \in {"Ether", "Raw"}

(* The inductive invariant: the layers the loop has passed are right.      *)
OInv ==
    Prepared(before) /\ (pc = "loop" \/ result = "ok") =>
        /\ result = "ok" => i > Len(layers)
        /\ \A j \in DOMAIN layers : j < i => RightOk(layers, j)

(* In a prepared packet a visit of the loop leaves a correct layer.        *)
LEMMA PreparedVisit ==
    ASSUME ChecksumTyped, IInv, OInv, FinalizeStep, ~Return, pc' = "loop",
           Prepared(before)
    PROVE  \A j \in 1 .. i : RightOk(layers', j)
<1> DEFINE ls == layers
           ms == layers'
<1>1. /\ pc = "loop" /\ i \in 1 .. Len(ls)
      /\ ls \in Seq(Layer) /\ before \in Seq(Layer) /\ Len(ls) = Len(before)
      /\ ls[i] = before[i] /\ Below(ls, i) = Below(before, i)
  BY LoopFacts
<1>2. /\ LenOk(ms, i) /\ Settled(ms[i]) /\ SameBut(ls, ms, i)
      /\ LenOk(ls, i) /\ Settled(ls[i]) => SumOk(ms, i)
      /\ Settled(ls[i]) \/ ls[i].kind # "Tcp" => Length(ms[i]) = Length(ls[i])
  BY Visited DEF IInv
<1>3. RightOk(ls, i) => ms = ls
  BY <1>1, RightOkIs, RightStep DEF IInv
<1>4. \A j \in 1 .. i - 1 : RightOk(ls, j)
  BY <1>1 DEF OInv
<1>5. /\ i \in DOMAIN before /\ i \in 0 .. Len(before)
      /\ \A j \in 1 .. i - 1 : j \in 1 .. Len(ls) /\ j # i /\ j \in DOMAIN before
  BY <1>1
<1>6. \A j \in 1 .. Len(ls) : ls[j].kind = before[j].kind
  BY <1>1 DEF IInv, OnlyDependentFields
<1> HIDE DEF ls, ms
<1>7. ls[i].kind \in {"Tcp", "Udp"} => LenOk(ls, i) /\ Settled(ls[i])
  <2> SUFFICES ASSUME ls[i].kind \in {"Tcp", "Udp"}
               PROVE  LenOk(ls, i) /\ Settled(ls[i])
    OBVIOUS
  <2>1. /\ before[i].kind = "Tcp" => 4 * before[i].words = Length(before[i])
        /\ before[i].kind = "Udp" => before[i].len =
              LengthOfLayers(<<before[i]>> \o SubSeq(before, i + 1, Len(before)))
    BY <1>5 DEF Prepared
  <2>2. LengthOfLayers(<<before[i]>> \o SubSeq(before, i + 1, Len(before)))
           = Length(before[i]) + Below(before, i)
    <3>1. before[i] \in Layer
      BY <1>1, <1>5
    <3> QED
      BY <1>1, <1>5, <3>1, BelowCons
  <2> QED
    BY <1>1, <2>1, <2>2 DEF LenOk, Settled
<1>8. SumOk(ms, i)
  <2>1. CASE ls[i].kind \in {"Tcp", "Udp"}
    BY <1>2, <1>7, <2>1
  <2>2. CASE ls[i].kind \notin {"Tcp", "Udp"}
    BY <1>2, <2>2 DEF SumOk, SameBut
  <2> QED
    BY <2>1, <2>2
<1>9. Length(ms[i]) = Length(ls[i])
  BY <1>2, <1>7
<1>10. ASSUME NEW j \in 1 .. i - 1
       PROVE  RightOk(ms, j)
  <2>1. RightOk(ls, j) /\ j \in 1 .. Len(ls) /\ j # i
    BY <1>4, <1>5
  <2>2. CASE ls[j].kind \in {"Tcp", "Udp"}
    <3> DEFINE inside == SubSeq(before, j + 1, Len(before))
    <3>1. \A n \in DOMAIN inside : inside[n].kind \in {"Ether", "Raw"}
      BY <1>5, <1>6, <2>1, <2>2 DEF Prepared
    <3>2. /\ inside \in Seq(Layer) /\ Len(inside) = Len(before) - j
          /\ \A n \in 1 .. Len(before) - j : inside[n] = before[j + n]
      <4>1. j \in 0 .. Len(before)
        BY <1>1
      <4> QED
        BY <1>1, <4>1, Suffix
    <3>3. i - j \in 1 .. Len(before) - j /\ j + (i - j) = i
      BY <1>1
    <3> HIDE DEF inside
    <3>4. ls[i].kind \in {"Ether", "Raw"}
      <4>1. i - j \in DOMAIN inside
        BY <3>2, <3>3
      <4>2. inside[i - j] = before[i]
        BY <3>2, <3>3
      <4> QED
        BY <1>1, <3>1, <4>1, <4>2
    <3>5. RightOk(ls, i)
      BY <3>4 DEF RightOk, LenOk, SumOk, Settled
    <3> QED
      BY <1>3, <2>1, <3>5
  <2>3. CASE ls[j].kind \notin {"Tcp", "Udp"}
    <3>1. ms[j] = ls[j]
      BY <1>2, <2>1 DEF SameBut
    <3>2. LenOk(ms, j) <=> LenOk(ls, j)
      BY <1>1, <1>2, <1>9, <2>1, EditEffect
    <3> QED
      BY <2>1, <2>3, <3>1, <3>2 DEF RightOk, SumOk
  <2> QED
    BY <2>2, <2>3
<1>11. RightOk(ms, i)
  BY <1>2, <1>8 DEF RightOk
<1>12. \A j \in 1 .. i : j = i \/ j \in 1 .. i - 1
  BY <1>1
<1> QED
  BY <1>10, <1>11, <1>12 DEF ms

(* Every step preserves OInv.                                              *)
LEMMA PreparedStep ==
    ASSUME ChecksumTyped, IInv, IInv', OInv, [Next]_vars
    PROVE  OInv'
<1>1. CASE FromLayers \/ LayersMut
  BY <1>1 DEF FromLayers, LayersMut, Reset, OInv
<1>2. CASE Finalize
  BY <1>2 DEF Finalize, OInv, IInv, TypeOK
<1>3. CASE FinalizeStep /\ ~Return /\ pc' = "loop"
  <2>1. /\ i' = i + 1 /\ before' = before /\ result' = "none" /\ i \in 1 .. Len(layers)
    BY <1>3, LoopFacts, ContinueEffect DEF IInv
  <2>2. \A j \in DOMAIN layers' : j < i' => j \in 1 .. i
    BY <2>1 DEF IInv, TypeOK
  <2>3. Prepared(before) => \A j \in 1 .. i : RightOk(layers', j)
    BY <1>3, PreparedVisit
  <2> QED
    BY <2>1, <2>2, <2>3 DEF OInv
<1>4. CASE FinalizeStep /\ ~Return /\ pc' # "loop"
  BY <1>4, FailEffect DEF OInv, IInv
<1>5. CASE Return
  BY <1>5 DEF Return, OInv
<1>6. CASE UNCHANGED vars
  BY <1>6 DEF vars, OInv
<1> QED
  BY <1>1, <1>2, <1>3, <1>4, <1>5, <1>6 DEF Next

(* One call of Packet::finalize is enough when Tcp headers are aligned and *)
(* counted, Udp lengths right beforehand and no transport layer encloses a *)
(* layer with fields to finalize.                                          *)
THEOREM OnePassEnoughHolds == ChecksumTyped => (Spec => []OnePassEnough)
<1> SUFFICES ASSUME ChecksumTyped
             PROVE  Spec => []OnePassEnough
  OBVIOUS
<1>1. Init => OInv
  BY DEF Init, OInv
<1>2. IInv /\ IInv' /\ OInv /\ [Next]_vars => OInv'
  BY PreparedStep
<1>3. IInv /\ OInv => OnePassEnough
  <2> SUFFICES ASSUME IInv, OInv, result = "ok", Prepared(before)
               PROVE  Correct
    BY DEF OnePassEnough, Prepared
  <2>1. layers \in Seq(Layer) /\ i > Len(layers) /\ i \in Nat
    BY DEF OInv, IInv, TypeOK
  <2>2. \A j \in DOMAIN layers : RightOk(layers, j)
    BY <2>1 DEF OInv
  <2> QED
    BY <2>1, <2>2, RightOkIs DEF Correct
<1> QED
  BY <1>1, <1>2, <1>3, Invariance, PTL DEF Spec

-----------------------------------------------------------------------------

(* What a protocol number announces is what Names lists, or Raw.           *)
LEMMA FollowedByIs ==
    ASSUME NEW l
    PROVE  /\ FollowedBy(l) = IF <<l.kind, l.addr>> \in Names THEN l.addr ELSE "Raw"
           /\ FollowedBy(l) \in Kinds \ {"Ether"}
BY DEF FollowedBy, Names, Kinds

(* The parser looks for a kind everywhere, first of all for Ether.         *)
LEMMA WantedIs ==
    ASSUME NEW j \in Nat
    PROVE  Wanted(j) \in Kinds /\ Wanted(1) = "Ether" /\ ~TakesAll(Wanted(1))
BY FollowedByIs DEF Wanted, Kinds, TakesAll

(* It stops reading header by header at one layer, or behind the last.     *)
StopsAt(j) ==
    /\ j \in 1 .. Len(wire) + 1
    /\ j > Len(wire) \/ TakesAll(Wanted(j))
    /\ \A k \in 1 .. j - 1 : ~TakesAll(Wanted(k))

(* There is such a layer, which is Stop, and only one.                     *)
LEMMA StopIs ==
    ASSUME wire \in Seq(Layer), wire # <<>>
    PROVE  /\ StopsAt(Stop) /\ Stop \in Nat /\ Stop > 1
           /\ \A j : StopsAt(j) => Stop = j
<1>1. \E j : StopsAt(j)
  <2> SUFFICES ASSUME \A j : ~StopsAt(j)
               PROVE  FALSE
    OBVIOUS
  <2> DEFINE S == {m \in Nat : \A k \in 1 .. m : k <= Len(wire) => ~TakesAll(Wanted(k))}
  <2>1. 0 \in S
    OBVIOUS
  <2>2. ASSUME NEW m \in Nat, m \in S
        PROVE  m + 1 \in S
    <3>1. CASE m + 1 <= Len(wire)
      <4>1. \A k \in 1 .. m : ~TakesAll(Wanted(k))
        BY <2>2, <3>1
      <4>2. ~TakesAll(Wanted(m + 1))
        BY <3>1, <4>1 DEF StopsAt
      <4> QED
        BY <4>1, <4>2
    <3>2. CASE m + 1 > Len(wire)
      BY <2>2, <3>2
    <3> QED
      BY <3>1, <3>2
  <2> HIDE DEF S
  <2>3. Len(wire) \in S
    BY <2>1, <2>2, NatSetInduction
  <2>4. StopsAt(Len(wire) + 1)
    BY <2>3 DEF S, StopsAt
  <2> QED
    BY <2>4
<1>2. StopsAt(Stop)
  <2>1. \E j \in 1 .. Len(wire) + 1 :
            /\ j > Len(wire) \/ TakesAll(Wanted(j))
            /\ \A k \in 1 .. j - 1 : ~TakesAll(Wanted(k))
    BY <1>1 DEF StopsAt
  <2> QED
    BY <2>1 DEF Stop, StopsAt
<1>3. Stop \in Nat /\ Stop > 1
  <2>1. Len(wire) >= 1
    OBVIOUS
  <2> QED
    BY <1>2, <2>1, WantedIs DEF StopsAt
<1>4. ASSUME NEW j, StopsAt(j)
      PROVE  Stop = j
  <2>1. j \in Nat /\ Stop \in Nat
    BY <1>2, <1>4 DEF StopsAt
  <2>2. ~(j < Stop)
    BY <1>2, <1>4, <2>1 DEF StopsAt
  <2>3. ~(Stop < j)
    BY <1>2, <1>4, <2>1 DEF StopsAt
  <2> QED
    BY <2>1, <2>2, <2>3
<1> QED
  BY <1>2, <1>3, <1>4

(* No layers are no bytes.                                                 *)
LEMMA LengthOfNone == LengthOfLayers(<<>>) = 0
<1>1. Lengths(<<>>) \in Seq(Nat) /\ Len(Lengths(<<>>)) = 0
  BY DEF Lengths
<1>2. PICK f \in [0 .. 0 -> Nat] : PrefixSums(f, Lengths(<<>>), 0)
  BY <1>1, SumsExist
<1>3. f[0] = 0
  BY <1>2 DEF PrefixSums
<1> QED
  BY <1>1, <1>2, <1>3, TotalIs DEF LengthOfLayers

(* What the parser makes of the bytes that are left there.                 *)
LEMMA LastLayerIs ==
    ASSUME wire \in Seq(Layer), wire # <<>>, pad \in Nat, NEW size,
           size = Below(wire, Stop - 1) + pad
    PROVE  /\ size \in Nat
           /\ Stop <= Len(wire) =>
                 size = Length(wire[Stop]) + Below(wire, Stop) + pad
           /\ Stop > Len(wire) => size = pad
           /\ size = 0 => LastLayer = <<>>
           /\ size # 0 /\ (Stop > Len(wire) \/ wire[Stop].kind # Wanted(Stop)) =>
                 LastLayer = <<RawLayer(size)>> /\ RawLayer(size) \in Layer
           /\ size # 0 /\ Stop <= Len(wire) /\ wire[Stop].kind = Wanted(Stop) =>
                 \E l \in Layer :
                    /\ LastLayer = <<l>>
                    /\ l.kind = wire[Stop].kind /\ l.addr = wire[Stop].addr
                    /\ l.len = wire[Stop].len /\ l.words = wire[Stop].words
                    /\ Length(l) = size
                    /\ size = Length(wire[Stop]) => l = wire[Stop]
<1>1. /\ Stop \in 1 .. Len(wire) + 1 /\ Stop \in Nat /\ Len(wire) \in Nat
      /\ Stop - 1 \in 0 .. Len(wire) /\ (Stop - 1) + 1 = Stop
  BY StopIs DEF StopsAt
<1> DEFINE left == SubSeq(wire, Stop, Len(wire))
<1>2. size = LengthOfLayers(left) + pad
  BY <1>1 DEF Below
<1>3. size \in Nat
  BY <1>1, BelowCons
<1>4. /\ left \in Seq(Layer) /\ Len(left) = Len(wire) - (Stop - 1)
      /\ Stop <= Len(wire) => left # <<>> /\ left[1] = wire[Stop] /\ wire[Stop] \in Layer
      /\ Stop > Len(wire) => left = <<>>
  <2>1. /\ left \in Seq(Layer) /\ Len(left) = Len(wire) - (Stop - 1)
        /\ \A n \in 1 .. Len(wire) - (Stop - 1) : left[n] = wire[(Stop - 1) + n]
    BY <1>1, Suffix
  <2> HIDE DEF left
  <2>2. Stop <= Len(wire) => left # <<>> /\ left[1] = wire[Stop] /\ wire[Stop] \in Layer
    BY <1>1, <2>1
  <2>3. Stop > Len(wire) => left = <<>>
    BY <1>1, <2>1
  <2> QED
    BY <2>1, <2>2, <2>3
<1>5. Stop <= Len(wire) => size = Length(wire[Stop]) + Below(wire, Stop) + pad
  <2> SUFFICES ASSUME Stop <= Len(wire)
               PROVE  size = Length(wire[Stop]) + Below(wire, Stop) + pad
    OBVIOUS
  <2>1. Stop - 1 # Len(wire)
    BY <1>1
  <2>2. Below(wire, Stop - 1) = Length(wire[(Stop - 1) + 1]) + Below(wire, (Stop - 1) + 1)
    BY <1>1, <2>1, BelowCons
  <2> QED
    BY <1>1, <2>2
<1>6. Stop > Len(wire) => size = pad
  <2> SUFFICES ASSUME Stop > Len(wire)
               PROVE  LengthOfLayers(left) = 0
    BY <1>2
  <2> QED
    BY <1>4, LengthOfNone
<1>7. LastLayer =
        IF size = 0 THEN <<>>
        ELSE IF left = <<>> \/ left[1].kind # Wanted(Stop) THEN <<RawLayer(size)>>
        ELSE IF size = Length(left[1]) THEN <<left[1]>>
        ELSE <<[left[1] EXCEPT !.opts = size - HeaderBytes[left[1].kind], !.data = Joined]>>
  BY <1>2 DEF LastLayer
<1> HIDE DEF left
<1>8. RawLayer(size) \in Layer
  <2>1. wire[1] \in Layer
    OBVIOUS
  <2>2. Addr # {}
    BY <2>1 DEF Layer
  <2>3. (CHOOSE a \in Addr : TRUE) \in Addr
    BY <2>2
  <2>4. 0 \in U16 /\ 0 \in U8
    BY DEF U16, U8
  <2> QED
    BY <1>3, <2>3, <2>4, ZeroAssumption, PadsAssumption DEF RawLayer, Layer, Kinds
<1>9. ASSUME size # 0, Stop <= Len(wire), wire[Stop].kind = Wanted(Stop)
      PROVE  \E l \in Layer :
                    /\ LastLayer = <<l>>
                    /\ l.kind = wire[Stop].kind /\ l.addr = wire[Stop].addr
                    /\ l.len = wire[Stop].len /\ l.words = wire[Stop].words
                    /\ Length(l) = size
                    /\ size = Length(wire[Stop]) => l = wire[Stop]
  <2> DEFINE next == wire[Stop]
             more == size - HeaderBytes[next.kind]
             grown == [next EXCEPT !.opts = more, !.data = Joined]
  <2>1. /\ next \in Layer /\ Length(next) \in Nat /\ size >= Length(next)
    <3>1. Stop \in 0 .. Len(wire)
      BY <1>1, <1>9
    <3>2. next \in Layer /\ Length(next) \in Nat /\ Below(wire, Stop) \in Nat
      BY <1>4, <1>9, <3>1, LengthNat, BelowCons
    <3> QED
      BY <1>5, <1>9, <3>2
  <2>2. LastLayer = IF size = Length(next) THEN <<next>> ELSE <<grown>>
    BY <1>4, <1>7, <1>9
  <2> HIDE DEF next
  <2>3. CASE size = Length(next)
    BY <2>1, <2>2, <2>3 DEF next
  <2>4. CASE size # Length(next)
    <3>1. HeaderBytes[next.kind] \in Nat /\ more \in Nat
      BY <1>3, <2>1 DEF Length, Layer, HeaderBytes, Kinds
    <3> HIDE DEF more
    <3>2. grown \in Layer /\ Length(grown) = HeaderBytes[next.kind] + more
      BY <2>1, <3>1, PadsAssumption DEF Layer, Length
    <3>3. Length(grown) = size
      BY <1>3, <3>1, <3>2 DEF more
    <3>4. /\ grown.kind = next.kind /\ grown.addr = next.addr
          /\ grown.len = next.len /\ grown.words = next.words
      BY <2>1 DEF Layer
    <3> QED
      BY <2>2, <2>4, <3>2, <3>3, <3>4 DEF next
  <2> QED
    BY <2>3, <2>4
<1>10. size # 0 /\ (Stop > Len(wire) \/ wire[Stop].kind # Wanted(Stop)) =>
          LastLayer = <<RawLayer(size)>>
  <2>1. Stop > Len(wire) \/ Stop <= Len(wire)
    BY <1>1
  <2> QED
    BY <1>4, <1>7, <2>1
<1>11. size = 0 => LastLayer = <<>>
  BY <1>7
<1> QED
  BY <1>3, <1>5, <1>6, <1>8, <1>9, <1>10, <1>11

(* The packet the parser returns: the layers up to Stop, then at most one. *)
LEMMA ParsedIs ==
    ASSUME wire \in Seq(Layer), wire # <<>>, pad \in Nat
    PROVE  /\ LastLayer \in Seq(Layer) /\ Len(LastLayer) \in {0, 1}
           /\ Parsed \in Seq(Layer) /\ Len(Parsed) = Stop - 1 + Len(LastLayer)
           /\ \A j \in 1 .. Stop - 1 : Parsed[j] = wire[j]
           /\ Len(LastLayer) = 1 => Parsed[Stop] = LastLayer[1]
<1>1. Stop \in 1 .. Len(wire) + 1 /\ Stop \in Nat /\ Len(wire) \in Nat
  BY StopIs DEF StopsAt
<1>2. LastLayer \in Seq(Layer) /\ Len(LastLayer) \in {0, 1}
  <2> DEFINE size == Below(wire, Stop - 1) + pad
  <2> HIDE DEF size
  <2>1. \/ LastLayer = <<>>
        \/ \E l \in Layer : LastLayer = <<l>>
    <3>1. Stop <= Len(wire) \/ Stop > Len(wire)
      BY <1>1
    <3> QED
      BY <3>1, LastLayerIs DEF size
  <2>2. CASE LastLayer = <<>>
    BY <2>2
  <2>3. ASSUME NEW l \in Layer, LastLayer = <<l>>
        PROVE  LastLayer \in Seq(Layer) /\ Len(LastLayer) = 1
    BY <2>3
  <2> QED
    BY <2>1, <2>2, <2>3
<1> DEFINE head == SubSeq(wire, 1, Stop - 1)
<1>3. head \in Seq(Layer) /\ Len(head) = Stop - 1 /\ \A j \in 1 .. Stop - 1 : head[j] = wire[j]
  BY <1>1
<1>4. Parsed = head \o LastLayer
  BY DEF Parsed
<1> HIDE DEF head
<1>5. /\ Parsed \in Seq(Layer) /\ Len(Parsed) = Stop - 1 + Len(LastLayer)
      /\ \A j \in 1 .. Stop - 1 : Parsed[j] = wire[j]
      /\ Len(LastLayer) = 1 => Parsed[Stop] = LastLayer[1]
  <2> DEFINE last == LastLayer
  <2>1. last \in Seq(Layer) /\ Len(last) \in {0, 1} /\ Parsed = head \o last
    BY <1>2, <1>4
  <2> HIDE DEF last
  <2>2. Parsed \in Seq(Layer) /\ Len(Parsed) = Len(head) + Len(last)
    BY <1>3, <2>1, ConcatProperties
  <2>3. \A j \in 1 .. Stop - 1 : Parsed[j] = wire[j]
    BY <1>1, <1>3, <2>1
  <2>4. Len(last) = 1 => Parsed[Stop] = last[1]
    <3> SUFFICES ASSUME Len(last) = 1
                 PROVE  Parsed[Stop] = last[1]
      OBVIOUS
    <3>1. Stop \in 1 .. Len(head) + Len(last) /\ Stop > Len(head) /\ Stop - Len(head) = 1
      BY <1>1, <1>3
    <3>2. (head \o last)[Stop] = last[Stop - Len(head)]
      BY <1>3, <2>1, <3>1, ConcatProperties
    <3> QED
      BY <2>1, <3>1, <3>2
  <2> QED
    BY <1>3, <2>2, <2>3, <2>4 DEF last
<1> QED
  BY <1>2, <1>5

(* A described packet is read header by header up to its last layer, which *)
(* the parser reads to the end of the frame if it is Raw or Icmp4.         *)
LEMMA DescribedStop ==
    ASSUME wire \in Seq(Layer), wire # <<>>, Described(wire)
    PROVE  /\ \A j \in 1 .. Len(wire) : Wanted(j) = wire[j].kind
           /\ Stop = IF TakesAll(wire[Len(wire)].kind) THEN Len(wire) ELSE Len(wire) + 1
<1> DEFINE n == Len(wire)
<1>1. n \in Nat /\ n >= 1
  OBVIOUS
<1> HIDE DEF n
<1>2. ASSUME NEW j \in 1 .. n
      PROVE  Wanted(j) = wire[j].kind
  <2>1. CASE j = 1
    BY <2>1 DEF Wanted, Described
  <2>2. CASE j # 1
    <3>1. j - 1 \in 1 .. n - 1 /\ (j - 1) + 1 = j
      BY <1>1, <2>2
    <3>2. wire[(j - 1) + 1].kind =
             IF <<wire[j - 1].kind, wire[j - 1].addr>> \in Names THEN wire[j - 1].addr ELSE "Raw"
      BY <3>1 DEF Described, n
    <3> QED
      BY <2>2, <3>1, <3>2, FollowedByIs DEF Wanted
  <2> QED
    BY <2>1, <2>2
<1>3. \A j \in 1 .. n - 1 : ~TakesAll(Wanted(j))
  <2> SUFFICES ASSUME NEW j \in 1 .. n - 1
               PROVE  ~TakesAll(Wanted(j))
    OBVIOUS
  <2>0. j \in 1 .. n /\ j \in 1 .. Len(wire) - 1
    BY <1>1 DEF n
  <2>1. wire[j].kind \notin {"Raw", "Icmp4"}
    BY <2>0 DEF Described
  <2> QED
    BY <1>2, <2>0, <2>1 DEF TakesAll
<1>4. n \in 1 .. n /\ Wanted(n) = wire[n].kind
  BY <1>1, <1>2
<1>5. CASE TakesAll(wire[n].kind)
  <2>1. StopsAt(n)
    BY <1>1, <1>3, <1>4, <1>5 DEF StopsAt, n
  <2> QED
    BY <1>2, <1>5, <2>1, StopIs DEF n
<1>6. CASE ~TakesAll(wire[n].kind)
  <2>1. \A j \in 1 .. (n + 1) - 1 : ~TakesAll(Wanted(j))
    BY <1>1, <1>3, <1>4, <1>6
  <2>2. StopsAt(n + 1)
    BY <1>1, <2>1 DEF StopsAt, n
  <2> QED
    BY <1>2, <1>6, <2>2, StopIs DEF n
<1> QED
  BY <1>5, <1>6

(* Serializing keeps a layer but for the high bits of its header size.     *)
LEMMA WiresIs ==
    ASSUME NEW ls \in Seq(Layer)
    PROVE  /\ Wires(ls) \in Seq(Layer) /\ Len(Wires(ls)) = Len(ls)
           /\ \A j \in 1 .. Len(ls) :
                 /\ Wires(ls)[j].kind = ls[j].kind /\ Wires(ls)[j].addr = ls[j].addr
                 /\ Wires(ls)[j].data = ls[j].data
                 /\ Length(Wires(ls)[j]) = Length(ls[j])
                 /\ Wires(ls)[j].words \in 0 .. 15
                 /\ ls[j].words < 16 => Wires(ls)[j] = ls[j]
           /\ (\A j \in 1 .. Len(ls) : ls[j].words < 16) => Wires(ls) = ls
<1>1. ASSUME NEW l \in Layer
      PROVE  /\ Wire(l) \in Layer /\ Wire(l).kind = l.kind /\ Wire(l).addr = l.addr
             /\ Wire(l).data = l.data
             /\ Length(Wire(l)) = Length(l) /\ Wire(l).words \in 0 .. 15
             /\ l.words < 16 => Wire(l) = l
  <2>0. \A w \in 0 .. 255 : w % 16 \in 0 .. 15 /\ (w < 16 => w % 16 = w)
    BY SMT
  <2>1. l.words \in U8 /\ l.words % 16 \in 0 .. 15 /\ l.words % 16 \in U8
        /\ (l.words < 16 => l.words % 16 = l.words)
    <3>1. l.words \in 0 .. 255
      BY DEF Layer, U8
    <3>2. l.words % 16 \in 0 .. 15 /\ (l.words < 16 => l.words % 16 = l.words)
      BY <2>0, <3>1
    <3>3. \A w \in 0 .. 15 : w \in U8
      BY DEF U8
    <3> QED
      BY <3>1, <3>2, <3>3 DEF U8
  <2>3. /\ Wire(l) \in Layer /\ Wire(l).kind = l.kind /\ Wire(l).addr = l.addr
        /\ Wire(l).opts = l.opts /\ Wire(l).words = l.words % 16 /\ Wire(l).data = l.data
    BY <2>1 DEF Wire, Layer
  <2>4. l.words < 16 => Wire(l) = l
    BY <2>1, Rewrite DEF Wire
  <2> QED
    BY <2>1, <2>3, <2>4 DEF Length
<1>2. DOMAIN ls = 1 .. Len(ls) /\ \A j \in 1 .. Len(ls) : ls[j] \in Layer
  OBVIOUS
<1>3. Wires(ls) = [j \in 1 .. Len(ls) |-> Wire(ls[j])]
  BY <1>2 DEF Wires
<1>4. Wires(ls) \in Seq(Layer) /\ Len(Wires(ls)) = Len(ls)
  BY <1>1, <1>2, <1>3
<1>5. \A j \in 1 .. Len(ls) : Wires(ls)[j] = Wire(ls[j])
  BY <1>3
<1>6. (\A j \in 1 .. Len(ls) : ls[j].words < 16) => Wires(ls) = ls
  BY <1>1, <1>2, <1>4, <1>5, SeqEqual
<1> QED
  BY <1>1, <1>2, <1>4, <1>5, <1>6

(* Whatever the frame is, the parser that understands it loses no byte of  *)
(* it and invents none: what it returns is as long as the frame, from any  *)
(* layer on that it read by its header.                                    *)
LEMMA ParsedBytes ==
    ASSUME wire \in Seq(Layer), wire # <<>>, pad \in Nat
    PROVE  \A j \in 0 .. Stop - 1 : Below(Parsed, j) = Below(wire, j) + pad
<1> DEFINE b == Stop - 1
           size == Below(wire, b) + pad
<1>1. /\ b \in Nat /\ b <= Len(wire) /\ Len(wire) \in Nat /\ b \in 0 .. Len(wire)
      /\ b + 1 = Stop
  BY StopIs DEF StopsAt
<1>2. /\ Parsed \in Seq(Layer) /\ Len(Parsed) = b + Len(LastLayer)
      /\ Len(LastLayer) \in {0, 1}
      /\ \A j \in 1 .. b : Parsed[j] = wire[j]
      /\ Len(LastLayer) = 1 => Parsed[b + 1] = LastLayer[1]
  BY <1>1, ParsedIs
<1>3. Below(Parsed, b) = size
  <2>1. /\ size \in Nat
        /\ size = 0 => LastLayer = <<>>
        /\ size # 0 => \E l \in Layer : LastLayer = <<l>> /\ Length(l) = size
    <3>1. Stop <= Len(wire) \/ Stop > Len(wire)
      BY <1>1
    <3>2. size \in Nat => Length(RawLayer(size)) = size
      BY DEF RawLayer, Length, HeaderBytes, Kinds
    <3> HIDE DEF size
    <3> QED
      BY <3>1, <3>2, LastLayerIs DEF size
  <2> HIDE DEF size, b
  <2>2. CASE size = 0
    <3>1. Len(Parsed) = b
      BY <1>1, <1>2, <2>1, <2>2
    <3>2. SubSeq(Parsed, b + 1, Len(Parsed)) = <<>>
      BY <1>1, <1>2, <3>1
    <3> QED
      BY <2>2, <3>2, LengthOfNone DEF Below
  <2>3. CASE size # 0
    <3>1. PICK l \in Layer : LastLayer = <<l>> /\ Length(l) = size
      BY <2>1, <2>3
    <3>2. Len(LastLayer) = 1 /\ LastLayer[1] = l
      BY <3>1
    <3>3. Len(Parsed) = b + 1 /\ Parsed[b + 1] = l /\ b \in 0 .. Len(Parsed) /\ b # Len(Parsed)
      BY <1>1, <1>2, <3>2
    <3>4. Below(Parsed, b) = Length(l) + Below(Parsed, b + 1)
      BY <1>2, <3>3, BelowCons
    <3>5. SubSeq(Parsed, (b + 1) + 1, Len(Parsed)) = <<>>
      BY <1>1, <1>2, <3>3
    <3>6. Below(Parsed, b + 1) = 0
      BY <3>5, LengthOfNone DEF Below
    <3> QED
      BY <2>1, <3>1, <3>4, <3>6
  <2> QED
    BY <2>2, <2>3
<1> DEFINE S == {m \in Nat : m <= b => Below(Parsed, b - m) = Below(wire, b - m) + pad}
<1> HIDE DEF b
<1>4. 0 \in S
  BY <1>1, <1>3
<1>5. ASSUME NEW m \in Nat, m \in S
      PROVE  m + 1 \in S
  <2> SUFFICES ASSUME m + 1 <= b
               PROVE  Below(Parsed, b - (m + 1)) = Below(wire, b - (m + 1)) + pad
    OBVIOUS
  <2> DEFINE j == b - (m + 1)
  <2>1. /\ j \in 0 .. Len(wire) /\ j # Len(wire) /\ j \in 0 .. Len(Parsed) /\ j # Len(Parsed)
        /\ j + 1 = b - m /\ j + 1 \in 1 .. b
    BY <1>1, <1>2
  <2>2. Below(Parsed, j + 1) = Below(wire, j + 1) + pad
    <3>1. m <= b
      BY <1>1
    <3>2. Below(Parsed, b - m) = Below(wire, b - m) + pad
      BY <1>5, <3>1
    <3> HIDE DEF j
    <3> QED
      BY <2>1, <3>2
  <2>3. Parsed[j + 1] = wire[j + 1] /\ wire[j + 1] \in Layer
    BY <1>1, <1>2, <2>1
  <2> HIDE DEF j
  <2>4. Below(Parsed, j) = Length(wire[j + 1]) + Below(Parsed, j + 1)
    BY <1>2, <2>1, <2>3, BelowCons
  <2>5. Below(wire, j) = Length(wire[j + 1]) + Below(wire, j + 1)
    BY <2>1, BelowCons
  <2>6. Length(wire[j + 1]) \in Nat /\ Below(wire, j + 1) \in Nat
    <3>1. j + 1 \in 0 .. Len(wire)
      BY <1>1, <2>1
    <3> QED
      BY <2>3, <3>1, LengthNat, BelowCons
  <2> QED
    BY <2>2, <2>4, <2>5, <2>6 DEF j
<1> HIDE DEF S
<1>6. Nat \subseteq S
  BY <1>4, <1>5, NatSetInduction
<1> SUFFICES ASSUME NEW j \in 0 .. b
             PROVE  Below(Parsed, j) = Below(wire, j) + pad
  BY DEF b
<1>7. b - j \in Nat /\ b - j <= b /\ b - (b - j) = j
  BY <1>1
<1> QED
  BY <1>6, <1>7 DEF S

(* What becomes of a described frame: the padding ends up in the last      *)
(* layer, or in a Raw layer of its own; everything else is as it was sent. *)
LEMMA ParsedWell ==
    ASSUME wire \in Seq(Layer), wire # <<>>, pad \in Nat, Described(wire), Understood
    PROVE  /\ Parsed \in Seq(Layer) /\ Len(Parsed) >= Len(wire)
           /\ \A j \in 1 .. Len(wire) :
                 /\ Parsed[j].kind = wire[j].kind /\ Parsed[j].addr = wire[j].addr
                 /\ Parsed[j].len = wire[j].len /\ Parsed[j].words = wire[j].words
                 /\ ~TakesAll(wire[j].kind) => /\ Parsed[j] = wire[j]
                                              /\ Below(Parsed, j) = Below(wire, j) + pad
           /\ \A j \in 1 .. Len(Parsed) : j > Len(wire) => Parsed[j].kind = "Raw"
           /\ LengthOfLayers(Parsed) = LengthOfLayers(wire) + pad
           /\ pad = 0 => Parsed = wire
<1> DEFINE n == Len(wire)
<1>1. n \in Nat /\ n >= 1 /\ n \in 1 .. n /\ wire[n] \in Layer
  OBVIOUS
<1> HIDE DEF n
<1>2. /\ Parsed \in Seq(Layer) /\ Len(Parsed) = Stop - 1 + Len(LastLayer)
      /\ Len(LastLayer) \in {0, 1}
      /\ \A j \in 1 .. Stop - 1 : Parsed[j] = wire[j]
      /\ Len(LastLayer) = 1 => Parsed[Stop] = LastLayer[1]
  BY ParsedIs
<1>3. LengthOfLayers(Parsed) = LengthOfLayers(wire) + pad
  <2>1. SubSeq(Parsed, 0 + 1, Len(Parsed)) = Parsed /\ SubSeq(wire, 0 + 1, Len(wire)) = wire
    BY <1>2
  <2>2. 0 \in 0 .. Stop - 1
    BY StopIs
  <2> QED
    BY <2>1, <2>2, ParsedBytes DEF Below
<1>4. CASE TakesAll(wire[n].kind)
  <2>1. Stop = n /\ Wanted(n) = wire[n].kind
    BY <1>1, <1>4, DescribedStop DEF n
  <2> DEFINE size == Below(wire, Stop - 1) + pad
  <2>2. size \in Nat /\ size = Length(wire[n]) + pad
    <3>1. size \in Nat /\ size = Length(wire[n]) + Below(wire, n) + pad
      <4> HIDE DEF size
      <4> QED
        BY <1>1, <2>1, LastLayerIs DEF size, n
    <3>2. SubSeq(wire, n + 1, Len(wire)) = <<>>
      BY <1>1 DEF n
    <3>3. Below(wire, n) = 0
      BY <3>2, LengthOfNone DEF Below
    <3> QED
      BY <1>1, <3>1, <3>3, LengthNat
  <2>3. size # 0
    <3>1. wire[n].opts > 0 \/ wire[n].kind = "Icmp4"
      BY <1>4 DEF Described, TakesAll, n
    <3>2. Length(wire[n]) > 0
      BY <1>1, <1>4, <3>1 DEF Length, Layer, HeaderBytes, Kinds, TakesAll
    <3> QED
      BY <1>1, <2>2, <3>2, LengthNat
  <2>4. PICK l \in Layer :
            /\ LastLayer = <<l>>
            /\ l.kind = wire[n].kind /\ l.addr = wire[n].addr
            /\ l.len = wire[n].len /\ l.words = wire[n].words
            /\ size = Length(wire[n]) => l = wire[n]
    <3> HIDE DEF size
    <3> QED
      BY <1>1, <2>1, <2>3, LastLayerIs DEF size, n
  <2>5. Len(Parsed) = n /\ Parsed[n] = l /\ \A j \in 1 .. n - 1 : Parsed[j] = wire[j]
    <3>1. Len(LastLayer) = 1 /\ LastLayer[1] = l
      BY <2>4
    <3> QED
      BY <1>1, <1>2, <2>1, <3>1
  <2>6. ASSUME NEW j \in 1 .. n
        PROVE  /\ Parsed[j].kind = wire[j].kind /\ Parsed[j].addr = wire[j].addr
               /\ Parsed[j].len = wire[j].len /\ Parsed[j].words = wire[j].words
               /\ ~TakesAll(wire[j].kind) => /\ Parsed[j] = wire[j]
                                            /\ Below(Parsed, j) = Below(wire, j) + pad
    <3>1. CASE j = n
      BY <1>4, <2>4, <2>5, <3>1
    <3>2. CASE j # n
      <4>1. j \in 1 .. n - 1 /\ j \in 0 .. Stop - 1
        BY <1>1, <2>1, <3>2
      <4> QED
        BY <2>5, <4>1, ParsedBytes
    <3> QED
      BY <3>1, <3>2
  <2>7. pad = 0 => Parsed = wire
    <3> SUFFICES ASSUME pad = 0 PROVE Parsed = wire
      OBVIOUS
    <3>1. Parsed[n] = wire[n]
      BY <1>1, <2>2, <2>4, <2>5, LengthNat
    <3>2. \A j \in 1 .. n : Parsed[j] = wire[j]
      BY <1>1, <2>5, <3>1
    <3> QED
      BY <1>2, <2>5, <3>2, SeqEqual DEF n
  <2> QED
    BY <1>1, <1>2, <1>3, <2>5, <2>6, <2>7 DEF n
<1>5. CASE ~TakesAll(wire[n].kind)
  <2>1. Stop = n + 1
    BY <1>1, <1>5, DescribedStop DEF n
  <2> DEFINE size == Below(wire, Stop - 1) + pad
  <2>2. /\ size = pad
        /\ size = 0 => LastLayer = <<>>
        /\ size # 0 => LastLayer = <<RawLayer(size)>>
    <3> HIDE DEF size
    <3> QED
      BY <1>1, <2>1, LastLayerIs DEF size, n
  <2> HIDE DEF size
  <2>3. \A j \in 1 .. n : Parsed[j] = wire[j] /\ Below(Parsed, j) = Below(wire, j) + pad
    <3>1. \A j \in 1 .. n : j \in 1 .. Stop - 1 /\ j \in 0 .. Stop - 1
      BY <1>1, <2>1
    <3> QED
      BY <1>2, <3>1, ParsedBytes
  <2>4. Len(Parsed) >= n /\ Len(Parsed) \in Nat /\ Len(Parsed) <= n + 1
    <3>1. Stop - 1 = n
      BY <1>1, <2>1
    <3>2. Len(Parsed) = n \/ Len(Parsed) = n + 1
      <4>1. Len(LastLayer) = 0 \/ Len(LastLayer) = 1
        BY <1>2
      <4>2. Len(Parsed) = n + Len(LastLayer)
        BY <1>2, <3>1
      <4>3. CASE Len(LastLayer) = 0
        BY <1>1, <4>2, <4>3
      <4>4. CASE Len(LastLayer) = 1
        BY <4>2, <4>4
      <4> QED
        BY <4>1, <4>3, <4>4
    <3> QED
      BY <1>1, <3>2
  <2>5. ASSUME NEW j \in 1 .. Len(Parsed), j > n
        PROVE  Parsed[j].kind = "Raw"
    <3>1. Len(LastLayer) = 1 /\ j = Stop
      BY <1>1, <1>2, <2>1, <2>4, <2>5
    <3>2. LastLayer = <<RawLayer(size)>>
      <4>1. LastLayer # <<>>
        <5>1. Len(<<>>) # 1
          OBVIOUS
        <5> QED
          BY <3>1, <5>1
      <4> QED
        BY <2>2, <4>1
    <3>3. LastLayer[1] = RawLayer(size)
      BY <3>2
    <3> QED
      BY <1>2, <3>1, <3>3 DEF RawLayer
  <2>6. pad = 0 => Parsed = wire
    <3> SUFFICES ASSUME pad = 0 PROVE Parsed = wire
      OBVIOUS
    <3>1. LastLayer = <<>>
      BY <2>2
    <3>2. Len(Parsed) = n
      BY <1>1, <1>2, <2>1, <3>1
    <3> QED
      BY <1>2, <2>3, <3>2, SeqEqual DEF n
  <2> QED
    BY <1>2, <1>3, <2>3, <2>4, <2>5, <2>6 DEF n
<1> QED
  BY <1>4, <1>5

(* Which header sizes count the options.                                   *)
LEMMA CountedIs ==
    ASSUME NEW l \in Layer
    PROVE  Counted(l) <=>
              /\ l.kind = "Tcp" => 4 * l.words = Length(l)
              /\ l.kind = "Ipv4" =>
                    4 * l.words = Length(l) \/ (l.words < 5 /\ l.opts = 0)
<1> DEFINE w == l.words
           o == l.opts
<1>1. w \in Nat /\ o \in Nat
  BY DEF Layer, U8
<1>2. l.kind \in {"Ipv4", "Tcp"} => Length(l) = 20 + o
  BY DEF Length, HeaderBytes, Kinds
<1> HIDE DEF w, o
<1>3. CASE l.kind = "Tcp"
  <2>1. OptionBytes(l) = 4 * (w - 5)
    BY <1>3 DEF OptionBytes, w
  <2> QED
    BY <1>1, <1>2, <1>3, <2>1 DEF Counted, w, o
<1>4. CASE l.kind = "Ipv4"
  <2>1. OptionBytes(l) = IF w < 5 THEN 0 ELSE 4 * (w - 5)
    BY <1>4 DEF OptionBytes, w
  <2>2. (IF w < 5 THEN 0 ELSE 4 * (w - 5)) = o <=> 4 * w = 20 + o \/ (w < 5 /\ o = 0)
    BY <1>1
  <2> QED
    BY <1>2, <1>4, <2>1, <2>2 DEF Counted, w, o
<1> QED
  BY <1>3, <1>4 DEF Counted

(* A frame whose headers say what they hold and whose protocol numbers     *)
(* describe it is understood.                                              *)
LEMMA DescribedUnderstood ==
    ASSUME wire \in Seq(Layer), wire # <<>>, pad = 0, Described(wire),
           \A j \in 1 .. Len(wire) : Counted(wire[j]) /\ Legible(wire[j])
    PROVE  Understood
<1>1. /\ Stop \in 1 .. Len(wire) + 1 /\ Stop \in Nat /\ Len(wire) \in Nat
  BY StopIs DEF StopsAt
<1>2. \A j \in 1 .. Len(wire) : Wanted(j) = wire[j].kind
  BY DescribedStop
<1>3. \A j \in 1 .. Stop - 1 :
          wire[j].kind = Wanted(j) /\ Counted(wire[j]) /\ Legible(wire[j])
  BY <1>1, <1>2
<1>4. Stop <= Len(wire) => wire[Stop].kind = Wanted(Stop) /\ Legible(wire[Stop])
  BY <1>1, <1>2
<1> QED
  BY <1>3, <1>4 DEF Understood

(* A frame that comes back unchanged was described by its protocol         *)
(* numbers, and its headers say what they hold.                            *)
LEMMA BackDescribed ==
    ASSUME NEW ls \in Seq(Layer), ls # <<>>, wire = Wires(ls), pad = 0,
           Understood, Parsed = ls
    PROVE  Described(ls) /\ HeadersFit(ls)
<1> DEFINE n == Len(ls)
<1>1. /\ wire \in Seq(Layer) /\ Len(wire) = n /\ wire # <<>> /\ n \in Nat /\ n >= 1
      /\ DOMAIN ls = 1 .. n
      /\ \A j \in 1 .. n : /\ wire[j].kind = ls[j].kind /\ wire[j].addr = ls[j].addr
                           /\ wire[j].data = ls[j].data
                           /\ Length(wire[j]) = Length(ls[j])
                           /\ wire[j].words \in 0 .. 15 /\ ls[j] \in Layer
  BY WiresIs
<1> HIDE DEF n
<1>2. /\ StopsAt(Stop) /\ Stop \in Nat /\ Stop > 1 /\ Stop \in 1 .. n + 1 /\ pad \in Nat
  BY <1>1, StopIs DEF StopsAt
<1>3. /\ n = Stop - 1 + Len(LastLayer) /\ Len(LastLayer) \in {0, 1}
      /\ \A j \in 1 .. Stop - 1 : ls[j] = wire[j]
      /\ Len(LastLayer) = 1 => ls[Stop] = LastLayer[1]
  BY <1>1, <1>2, ParsedIs DEF n
<1>4. \/ Stop = n + 1 /\ Len(LastLayer) = 0
      \/ Stop = n /\ Len(LastLayer) = 1
  <2>1. CASE Len(LastLayer) = 0
    BY <1>1, <1>2, <1>3, <2>1
  <2>2. CASE Len(LastLayer) = 1
    BY <1>1, <1>2, <1>3, <2>2
  <2> QED
    BY <1>3, <2>1, <2>2
<1>5. \A j \in 1 .. Stop - 1 : /\ ls[j] = wire[j] /\ wire[j].kind = Wanted(j)
                               /\ Counted(wire[j]) /\ Legible(wire[j])
                               /\ ~TakesAll(wire[j].kind)
  BY <1>2, <1>3 DEF Understood, StopsAt
<1> DEFINE size == Below(wire, Stop - 1) + pad
<1>6. ASSUME Stop = n
      PROVE  /\ ls[n].kind = Wanted(n) /\ TakesAll(Wanted(n)) /\ ls[n].words < 16
             /\ ls[n].kind = "Raw" => ls[n].opts > 0
  <2> HIDE DEF size
  <2>1. Len(LastLayer) = 1 /\ ls[n] = LastLayer[1] /\ TakesAll(Wanted(n))
    BY <1>1, <1>2, <1>3, <1>4, <1>6 DEF StopsAt
  <2>2. size # 0 /\ size \in Nat
    <3>1. Len(<<>>) # 1
      OBVIOUS
    <3>2. LastLayer # <<>>
      BY <2>1, <3>1
    <3> QED
      BY <1>1, <1>2, <3>2, LastLayerIs DEF size
  <2>3. CASE wire[n].kind = Wanted(n)
    <3>1. PICK l \in Layer : /\ LastLayer = <<l>> /\ l.kind = wire[n].kind
                             /\ l.words = wire[n].words /\ Length(l) = size
      BY <1>1, <1>2, <1>6, <2>2, <2>3, LastLayerIs DEF size
    <3>2. ls[n] = l
      BY <2>1, <3>1
    <3>3. l.kind = "Raw" => l.opts > 0
      BY <2>2, <3>1 DEF Length, Layer, HeaderBytes, Kinds
    <3>4. l.words < 16
      <4>1. n \in 1 .. n
        BY <1>1
      <4>2. l.words \in 0 .. 15
        BY <1>1, <3>1, <4>1
      <4> QED
        BY <4>2
    <3> QED
      BY <2>1, <2>3, <3>1, <3>2, <3>3, <3>4
  <2>4. CASE wire[n].kind # Wanted(n)
    <3>1. LastLayer = <<RawLayer(size)>>
      BY <1>1, <1>2, <1>6, <2>2, <2>4, LastLayerIs DEF size
    <3>2. ls[n] = RawLayer(size)
      BY <2>1, <3>1
    <3>3. Wanted(n) = "Raw"
      BY <1>1, <1>6, <2>1, <2>4 DEF Understood, TakesAll
    <3> QED
      BY <2>1, <2>2, <3>2, <3>3 DEF RawLayer
  <2> QED
    BY <2>3, <2>4
<1>7. \A j \in 1 .. n : ls[j].kind = Wanted(j) /\ ls[j].words < 16
  <2> SUFFICES ASSUME NEW j \in 1 .. n
               PROVE  ls[j].kind = Wanted(j) /\ ls[j].words < 16
    OBVIOUS
  <2>1. CASE j \in 1 .. Stop - 1
    <3>1. wire[j].words \in 0 .. 15
      BY <1>1
    <3> QED
      BY <1>5, <2>1, <3>1
  <2>2. CASE j \notin 1 .. Stop - 1
    <3>1. j = n /\ Stop = n
      BY <1>1, <1>2, <1>4, <2>2
    <3> QED
      BY <1>6, <3>1
  <2> QED
    BY <2>1, <2>2
<1>8. \A j \in 1 .. n - 1 : j \in 1 .. Stop - 1
  BY <1>1, <1>2, <1>4
<1>9. HeadersFit(ls)
  <2> SUFFICES ASSUME NEW j \in 1 .. n
               PROVE  /\ ls[j].words < 16
                      /\ ls[j].kind = "Ipv4" =>
                            4 * ls[j].words = Length(ls[j]) \/ (ls[j].words < 5 /\ ls[j].opts = 0)
                      /\ ls[j].kind # "Raw" => ls[j].data \in Regular
    BY <1>1 DEF HeadersFit
  <2>1. CASE j \in 1 .. Stop - 1
    <3>1. Counted(ls[j]) /\ Legible(ls[j]) /\ ls[j].words < 16 /\ ls[j] \in Layer
      BY <1>1, <1>5, <1>7, <2>1
    <3> QED
      BY <3>1, CountedIs DEF Legible
  <2>2. CASE j \notin 1 .. Stop - 1
    <3>1. j = n /\ Stop = n
      BY <1>1, <1>2, <1>4, <2>2
    <3>2. ls[n].kind \in {"Raw", "Icmp4"} /\ ls[n].kind = Wanted(n) /\ n \in 1 .. n
      BY <1>1, <1>6, <3>1 DEF TakesAll
    <3>3. ASSUME ls[n].kind = "Icmp4" PROVE ls[n].data \in Regular
      <4>1. wire[n].kind = "Icmp4" /\ Legible(wire[n])
        BY <1>1, <3>1, <3>2, <3>3 DEF Understood
      <4> QED
        BY <1>1, <3>2, <4>1 DEF Legible
    <3> QED
      BY <1>7, <3>1, <3>2, <3>3
  <2> QED
    BY <2>1, <2>2
<1>10. ls[1].kind = "Ether"
  BY <1>1, <1>7, WantedIs
<1>11. ASSUME NEW j \in 1 .. n - 1
       PROVE  /\ ls[j].kind \notin {"Raw", "Icmp4"}
              /\ ls[j + 1].kind = IF <<ls[j].kind, ls[j].addr>> \in Names
                                  THEN ls[j].addr ELSE "Raw"
  <2>1. j \in 1 .. Stop - 1 /\ j + 1 \in 1 .. n /\ j + 1 # 1 /\ (j + 1) - 1 = j
    BY <1>1, <1>8
  <2>2. ls[j].kind \notin {"Raw", "Icmp4"} /\ ls[j] = wire[j]
    BY <1>5, <2>1 DEF TakesAll
  <2>3. ls[j + 1].kind = FollowedBy(wire[j])
    BY <1>7, <2>1 DEF Wanted
  <2> QED
    BY <2>2, <2>3, FollowedByIs
<1>12. ls[n].kind = "Raw" => ls[n].opts > 0
  <2>1. CASE Stop = n
    BY <1>6, <2>1
  <2>2. CASE Stop = n + 1
    <3>1. n \in 1 .. Stop - 1
      BY <1>1, <2>2
    <3> QED
      BY <1>5, <3>1 DEF TakesAll
  <2> QED
    BY <1>4, <2>1, <2>2
<1> QED
  BY <1>9, <1>10, <1>11, <1>12 DEF Described, n

(* Both together: when a finalized packet comes back from its bytes.       *)
LEMMA ComesBack ==
    ASSUME NEW ls \in Seq(Layer), ls # <<>>, wire = Wires(ls), pad = 0,
           \A j \in 1 .. Len(ls) : ls[j].kind = "Tcp" => 4 * ls[j].words = Length(ls[j])
    PROVE  (IF Understood THEN Parsed ELSE <<>>) = ls <=> Described(ls) /\ HeadersFit(ls)
<1>1. ASSUME Described(ls), HeadersFit(ls)
      PROVE  Understood /\ Parsed = ls
  <2>1. \A j \in 1 .. Len(ls) :
           /\ ls[j].words < 16 /\ ls[j] \in Layer
           /\ ls[j].kind = "Ipv4" =>
                 4 * ls[j].words = Length(ls[j]) \/ (ls[j].words < 5 /\ ls[j].opts = 0)
           /\ ls[j].kind # "Raw" => ls[j].data \in Regular
    BY <1>1 DEF HeadersFit
  <2>2. wire = ls
    BY <2>1, WiresIs
  <2>3. ASSUME NEW j \in 1 .. Len(wire)
        PROVE  Counted(wire[j]) /\ Legible(wire[j])
    <3>1. /\ wire[j] \in Layer
          /\ wire[j].kind = "Tcp" => 4 * wire[j].words = Length(wire[j])
          /\ wire[j].kind = "Ipv4" =>
                4 * wire[j].words = Length(wire[j]) \/ (wire[j].words < 5 /\ wire[j].opts = 0)
      BY <2>1, <2>2
    <3> QED
      BY <2>1, <2>2, <3>1, CountedIs DEF Legible
  <2>4. Understood
    BY <1>1, <2>2, <2>3, DescribedUnderstood
  <2>5. pad \in Nat
    OBVIOUS
  <2> QED
    BY <1>1, <2>2, <2>4, <2>5, ParsedWell
<1> QED
  BY <1>1, BackDescribed

-----------------------------------------------------------------------------
(* What Correct says, of any list of layers.                               *)
AllRight(ls) ==
    \A j \in DOMAIN ls :
        /\ LenOk(ls, j) /\ SumOk(ls, j)
        /\ ls[j].kind = "Tcp" => 4 * ls[j].words = Length(ls[j])
        /\ ls[j].kind \in {"Ipv4", "Icmp4"} => ls[j].sum = Checksum(<<Cleared(ls[j])>>)

(* It is what Correct says of the packet in hand.                          *)
LEMMA CorrectIs ==
    ASSUME layers \in Seq(Layer)
    PROVE  Correct <=> AllRight(layers)
BY RightIs DEF Correct, Right, AllRight, OffsetRight, OwnSumRight

(* finalize of a correct packet that can be serialized does not fail.      *)
LEMMA NoFail ==
    ASSUME ChecksumTyped, TypeOK, FinalizeStep, AllRight(layers), AllWritable(layers),
           result # "error"
    PROVE  result' # "error"
<1>1. CASE Return
  BY <1>1 DEF Return
<1>2. CASE ~Return
  <2>1. /\ pc = "loop" /\ i \in 1 .. Len(layers) /\ layers \in Seq(Layer)
        /\ layers[i] \in Layer /\ i \in DOMAIN layers
    BY <1>2, FinalizeEffect DEF TypeOK
  <2> DEFINE old == layers[i]
  <2>2. /\ Cur = old /\ old \in Layer /\ Length(old) \in Nat /\ old.len \in U16
        /\ old.words \in U8 /\ i \in 0 .. Len(layers)
    BY <2>1, LengthNat DEF Cur, Layer
  <2>3. /\ LengthOfLayers(Rest) = Below(layers, i) /\ Below(layers, i) \in Nat
        /\ LengthOfLayers(<<old>> \o Rest) = Length(old) + Below(layers, i)
    BY <2>1, <2>2, BelowCons DEF Rest, Below
  <2>4. Writable(old) /\ AllWritable(Rest)
    <3>1. /\ Len(Rest) = Len(layers) - i
          /\ \A n \in 1 .. Len(layers) - i : Rest[n] = layers[i + n]
          /\ Rest \in Seq(Layer)
      BY <2>1, <2>2, Suffix DEF Rest
    <3>2. \A n \in 1 .. Len(layers) : Writable(layers[n])
      BY <2>1 DEF AllWritable
    <3>3. DOMAIN Rest = 1 .. Len(layers) - i
      BY <3>1
    <3>4. ASSUME NEW n \in DOMAIN Rest
          PROVE  Writable(Rest[n])
      <4>1. n \in 1 .. Len(layers) - i /\ i + n \in 1 .. Len(layers)
        BY <2>1, <3>3, <3>4
      <4> QED
        BY <3>1, <3>2, <4>1
    <3> QED
      BY <2>1, <3>2, <3>4 DEF AllWritable
  <2>5. /\ old.kind \in {"Ipv4", "Udp"} => old.len = Length(old) + Below(layers, i)
        /\ old.kind = "Ipv6" => old.len = Below(layers, i)
        /\ old.kind = "Tcp" => 4 * old.words = Length(old)
    BY <2>1 DEF AllRight, LenOk
  <2>6. /\ Prev # <<>> => i > 1 /\ Prev[i - 1] = layers[i - 1]
    BY <2>1 DEF Prev
  <2> HIDE DEF old
  <2>7. ASSUME NEW l, Continue(l)
        PROVE  result' # "error"
    BY <2>7 DEF Continue
  <2>8. CASE FinalizeInert("Ether") \/ FinalizeInert("Raw") \/ FinalizeIcmp4
    BY <2>7, <2>8 DEF FinalizeInert, FinalizeIcmp4
  <2>9. CASE FinalizeIpv4
    <3>1. Writable(Cur) /\ AllWritable(Rest) /\ LengthOfLayers(<<Cur>> \o Rest) \in U16
      BY <2>2, <2>3, <2>4, <2>5, <2>9 DEF FinalizeIpv4, Visit
    <3> QED
      BY <2>7, <2>9, <3>1 DEF FinalizeIpv4
  <2>10. CASE FinalizeIpv6
    <3>1. AllWritable(Rest) /\ LengthOfLayers(Rest) \in U16
      BY <2>2, <2>3, <2>4, <2>5, <2>10 DEF FinalizeIpv6, Visit
    <3> QED
      BY <2>7, <2>10, <3>1 DEF FinalizeIpv6
  <2>11. CASE FinalizeUdp
    <3>1. AllWritable(Rest) /\ LengthOfLayers(<<Cur>> \o Rest) \in U16
      BY <2>2, <2>3, <2>4, <2>5, <2>11 DEF FinalizeUdp, Visit
    <3> QED
      BY <2>7, <2>11, <3>1 DEF FinalizeUdp
  <2>12. CASE FinalizeTcp
    <3>0. old.kind = "Tcp"
      BY <2>2, <2>12 DEF FinalizeTcp, Visit
    <3>1. 4 * old.words = Length(old) /\ old.words \in Nat
      <4>1. \A w \in U8 : w \in Nat
        BY DEF U8
      <4> QED
        BY <2>2, <2>5, <3>0, <4>1
    <3>2. Padded(Cur) = old /\ Length(old) \div 4 = old.words
      BY <2>2, <3>1, Rewrite
    <3>3. Prev # <<>> /\ Prev[i - 1].kind = "Ipv4" =>
             LengthOfLayers(<<old>> \o Rest) \in U16
      <4> SUFFICES ASSUME Prev # <<>>, Prev[i - 1].kind = "Ipv4"
                   PROVE  Length(old) + Below(layers, i) \in U16
        BY <2>3
      <4> DEFINE h == i - 1
      <4>1. /\ h \in 1 .. Len(layers) /\ h \in 0 .. Len(layers) /\ h # Len(layers)
            /\ layers[h] \in Layer /\ layers[h].kind = "Ipv4" /\ h + 1 = i /\ h \in DOMAIN layers
        BY <2>1, <2>6
      <4> HIDE DEF h
      <4>2. layers[h].len = Length(layers[h]) + Below(layers, h)
        BY <4>1 DEF AllRight, LenOk
      <4>3. Below(layers, h) = Length(old) + Below(layers, i)
        BY <2>1, <4>1, BelowCons DEF old
      <4>4. layers[h].len \in Nat /\ layers[h].len <= 65535 /\ Length(layers[h]) \in Nat
        BY <4>1, LengthNat, Range16
      <4>5. Length(old) + Below(layers, i) \in Nat
        BY <2>2, <2>3
      <4> DEFINE len == layers[h].len
                 own == Length(layers[h])
                 all == Length(old) + Below(layers, i)
      <4>6. len = own + all /\ len \in Nat /\ len <= 65535 /\ own \in Nat /\ all \in Nat
        BY <4>2, <4>3, <4>4, <4>5
      <4> HIDE DEF len, own, all
      <4>7. all \in U16
        <5>1. all <= 65535
          BY <4>6
        <5> QED
          BY <4>6, <5>1, Range16
      <4> QED
        BY <4>7 DEF all
    <3> QED
      BY <2>2, <2>4, <2>7, <2>12, <3>2, <3>3 DEF FinalizeTcp
  <2> QED
    BY <1>2, <2>8, <2>9, <2>10, <2>11, <2>12 DEF FinalizeStep
<1> QED
  BY <1>1, <1>2

(* A layer's finalize leaves header sizes alone but Tcp's, and stores a    *)
(* length only in the layers that have one.                                *)
LEMMA ContinueKeeps ==
    ASSUME ChecksumTyped, TypeOK, FinalizeStep, ~Return, pc' = "loop"
    PROVE  /\ layers[i].kind # "Tcp" => layers'[i].words = layers[i].words
           /\ layers[i].kind \notin {"Ipv4", "Ipv6", "Udp"} => layers'[i].len = layers[i].len
<1>1. /\ pc = "loop" /\ i \in 1 .. Len(layers) /\ layers \in Seq(Layer) /\ layers[i] \in Layer
  BY FinalizeEffect DEF TypeOK
<1>2. ASSUME NEW l, Continue(l)
      PROVE  layers'[i] = l
  BY <1>1, <1>2 DEF Continue
<1>3. \A l : ~Fail(l)
  BY DEF Fail
<1> DEFINE old == layers[i]
<1>4. Cur = old /\ old \in Layer
  BY <1>1 DEF Cur
<1> HIDE DEF old
<1>5. CASE FinalizeInert("Ether") \/ FinalizeInert("Raw")
  BY <1>2, <1>4, <1>5 DEF FinalizeInert, old
<1>6. CASE FinalizeIpv4
  <2> DEFINE sized == [old EXCEPT !.len = LengthOfLayers(<<old>> \o Rest)]
             done  == [sized EXCEPT !.sum = Checksum(<<Cleared(sized)>>)]
  <2>1. Continue(done)
    BY <1>3, <1>4, <1>6 DEF FinalizeIpv4
  <2>2. done.words = old.words
    BY <1>4 DEF Layer
  <2> HIDE DEF done
  <2> QED
    BY <1>2, <1>4, <1>6, <2>1, <2>2 DEF FinalizeIpv4, Visit, old
<1>7. CASE FinalizeIpv6
  <2> DEFINE done == [old EXCEPT !.len = LengthOfLayers(Rest)]
  <2>1. Continue(done)
    BY <1>3, <1>4, <1>7 DEF FinalizeIpv6
  <2>2. done.words = old.words
    BY <1>4 DEF Layer
  <2> HIDE DEF done
  <2> QED
    BY <1>2, <1>4, <1>7, <2>1, <2>2 DEF FinalizeIpv6, Visit, old
<1>8. CASE FinalizeUdp
  <2>1. old.kind = "Udp"
    BY <1>4, <1>8 DEF FinalizeUdp, Visit
  <2> QED
    BY <2>1, ContinueEffect DEF old
<1>9. CASE FinalizeTcp
  <2>1. old.kind = "Tcp"
    BY <1>4, <1>9 DEF FinalizeTcp, Visit
  <2> QED
    BY <2>1, ContinueEffect DEF old
<1>10. CASE FinalizeIcmp4
  <2> DEFINE done == [old EXCEPT !.sum = Checksum(<<Cleared(old)>>)]
  <2>1. Continue(done)
    BY <1>4, <1>10 DEF FinalizeIcmp4
  <2>2. done.words = old.words /\ done.len = old.len
    BY <1>4 DEF Layer
  <2> HIDE DEF done
  <2> QED
    BY <1>2, <2>1, <2>2 DEF old
<1> QED
  BY <1>5, <1>6, <1>7, <1>8, <1>9, <1>10 DEF FinalizeStep

-----------------------------------------------------------------------------
(* What the parser returns depends on the frame alone.                     *)
LEMMA SameFrame ==
    ASSUME wire' = wire, pad' = pad
    PROVE  /\ Stop' = Stop
           /\ LastLayer' = LastLayer
           /\ Understood' <=> Understood
           /\ Parsed' = Parsed
<1>0. \A j : Wanted(j)' = Wanted(j)
  BY DEF Wanted
<1>1. Stop' = Stop
  BY DEF Stop, Wanted
<1>2. LastLayer' = LastLayer
  BY <1>0, <1>1 DEF LastLayer
<1>3. Understood' <=> Understood
  BY <1>0, <1>1 DEF Understood
<1>4. Parsed' = Parsed
  BY <1>1, <1>2 DEF Parsed
<1> QED
  BY <1>1, <1>2, <1>3, <1>4

(* The inductive invariant of RoundTrip.  The frame is what was sent.      *)
FrameSent ==
    stage # "own" =>
        /\ sent.layers \in Seq(Layer) /\ sent.layers # <<>>
        /\ wire = Wires(sent.layers) /\ AllWritable(sent.layers)
        /\ sent.finalized => \A j \in 1 .. Len(sent.layers) :
              sent.layers[j].kind = "Tcp" =>
                  4 * sent.layers[j].words = Length(sent.layers[j])
        /\ sent.correct => AllRight(sent.layers)

(* A capture starts as what the parser made of the frame.                  *)
Stages ==
    /\ stage \in {"own", "wire", "captured", "misread"}
    /\ pad \in Nat
    /\ stage \in {"wire", "misread"} => pc = "idle"
    /\ stage = "captured" => Understood
    /\ stage \in {"captured", "misread"} /\ result = "none" /\ pc = "idle" =>
          layers = IF Understood THEN Parsed ELSE <<>>

(* finalize leaves kinds, addresses and sizes of a capture as the parser   *)
(* read them, and a length it has written counts the padding.              *)
Alike(l, m) ==
    l.kind = m.kind /\ l.addr = m.addr /\ l.opts = m.opts /\ l.words = m.words

Sized(l) == l.kind \in {"Ipv4", "Ipv6", "Udp"}

Adopting ==
    stage = "captured" /\ SentWell =>
        /\ Len(layers) = Len(Parsed)
        /\ \A j \in 1 .. Len(Parsed) : Alike(layers[j], Parsed[j])
        /\ \A j \in 1 .. Len(sent.layers) :
              /\ Sized(sent.layers[j]) /\ (passes > 0 \/ (pc = "loop" /\ j < i)) =>
                    layers[j].len = sent.layers[j].len + pad
              /\ ~Sized(sent.layers[j]) => layers[j].len = sent.layers[j].len
        /\ pad = 0 => layers = sent.layers /\ result # "error"

RTInv == IInv /\ FrameSent /\ Stages /\ Adopting

(* Layers that are alike are as long.                                      *)
LEMMA AlikeBelow ==
    ASSUME NEW ls \in Seq(Layer), NEW ms \in Seq(Layer), Len(ls) = Len(ms),
           \A j \in 1 .. Len(ms) : Alike(ls[j], ms[j])
    PROVE  /\ LengthOfLayers(ls) = LengthOfLayers(ms)
           /\ \A j \in 0 .. Len(ms) : Below(ls, j) = Below(ms, j)
<1>1. ASSUME NEW j \in 0 .. Len(ms)
      PROVE  Below(ls, j) = Below(ms, j)
  <2> DEFINE a == SubSeq(ls, j + 1, Len(ls))
             b == SubSeq(ms, j + 1, Len(ms))
  <2>1. /\ a \in Seq(Layer) /\ Len(a) = Len(ms) - j
        /\ \A n \in 1 .. Len(ms) - j : a[n] = ls[j + n]
    BY Suffix
  <2>2. /\ b \in Seq(Layer) /\ Len(b) = Len(ms) - j
        /\ \A n \in 1 .. Len(ms) - j : b[n] = ms[j + n]
    BY Suffix
  <2> HIDE DEF a, b
  <2>3. ASSUME NEW n \in 1 .. Len(ms) - j
        PROVE  Length(a[n]) = Length(b[n])
    <3>1. a[n] = ls[j + n] /\ b[n] = ms[j + n] /\ j + n \in 1 .. Len(ms)
      BY <2>1, <2>2
    <3> QED
      BY <3>1 DEF Length, Alike
  <2>4. DOMAIN a = 1 .. Len(ms) - j /\ DOMAIN b = 1 .. Len(ms) - j
    BY <2>1, <2>2
  <2>5. Lengths(a) = Lengths(b)
    BY <2>3, <2>4 DEF Lengths
  <2> QED
    BY <2>5 DEF a, b, Below, LengthOfLayers
<1>2. SubSeq(ls, 0 + 1, Len(ls)) = ls /\ SubSeq(ms, 0 + 1, Len(ms)) = ms
  OBVIOUS
<1>3. 0 \in 0 .. Len(ms)
  OBVIOUS
<1> QED
  BY <1>1, <1>2, <1>3 DEF Below

(* The captured frame and what was sent.                                   *)
LEMMA CaptureFacts ==
    ASSUME RTInv, stage = "captured", SentWell
    PROVE  /\ wire = sent.layers /\ wire \in Seq(Layer) /\ wire # <<>> /\ pad \in Nat
           /\ AllRight(wire) /\ AllWritable(wire) /\ Understood
           /\ Parsed \in Seq(Layer) /\ Len(Parsed) >= Len(wire)
           /\ \A j \in 1 .. Len(wire) :
                 /\ Parsed[j].kind = wire[j].kind /\ Parsed[j].addr = wire[j].addr
                 /\ Parsed[j].len = wire[j].len /\ Parsed[j].words = wire[j].words
                 /\ ~TakesAll(wire[j].kind) => /\ Parsed[j] = wire[j]
                                              /\ Below(Parsed, j) = Below(wire, j) + pad
           /\ \A j \in 1 .. Len(Parsed) : j > Len(wire) => Parsed[j].kind = "Raw"
           /\ LengthOfLayers(Parsed) = LengthOfLayers(wire) + pad
           /\ pad = 0 => Parsed = wire
<1>1. /\ wire = sent.layers /\ wire \in Seq(Layer) /\ wire # <<>> /\ Described(wire)
      /\ AllRight(wire) /\ AllWritable(wire)
  BY DEF RTInv, FrameSent, SentWell
<1>2. Understood /\ pad \in Nat
  BY DEF RTInv, Stages
<1> QED
  BY <1>1, <1>2, ParsedWell

(* A step of finalize keeps kind, address and sizes of a captured layer,   *)
(* and the length it stores counts the padding.                            *)
LEMMA AdoptLayer ==
    ASSUME ChecksumTyped, RTInv, stage = "captured", SentWell, FinalizeStep, ~Return
    PROVE  /\ i \in 1 .. Len(layers)
           /\ layers' = [layers EXCEPT ![i] = layers'[i]]
           /\ Alike(layers'[i], Parsed[i])
           /\ i <= Len(wire) =>
                 /\ Sized(wire[i]) /\ pc' = "loop" => layers'[i].len = wire[i].len + pad
                 /\ ~Sized(wire[i]) => layers'[i].len = wire[i].len
<1>1. TypeOK /\ layers \in Seq(Layer)
  BY DEF RTInv, IInv, TypeOK
<1>2. /\ pc = "loop" /\ i \in 1 .. Len(layers)
  BY <1>1, FinalizeEffect
<1>3. PICK l : /\ Touched(layers[i], l)
               /\ \/ Continue(l) /\ Settled(l)
                  \/ Fail(l) /\ Kept(layers[i], l)
  BY <1>1, FinalizeEffect
<1> DEFINE old == layers[i]
           got == Parsed[i]
<1>4. /\ layers' = [layers EXCEPT ![i] = l] /\ layers'[i] = l /\ old \in Layer /\ l \in Layer
  BY <1>1, <1>2, <1>3 DEF Continue, Fail, Touched
<1>5. /\ Len(layers) = Len(Parsed) /\ Alike(old, got) /\ got \in Layer
      /\ \A j \in 1 .. Len(Parsed) : Alike(layers[j], Parsed[j])
  BY <1>2, CaptureFacts DEF RTInv, Adopting
<1>6. Length(old) = Length(got) /\ Length(old) \in Nat /\ Length(l) \in Nat
  BY <1>4, <1>5, LengthNat DEF Alike, Length
<1>7. got.kind = "Tcp" => /\ 4 * got.words = Length(got) /\ got.words \in Nat
  <2> SUFFICES ASSUME got.kind = "Tcp"
               PROVE  4 * got.words = Length(got) /\ got.words \in Nat
    OBVIOUS
  <2>1. i \in 1 .. Len(wire)
    BY <1>2, <1>5, CaptureFacts
  <2>2. got = wire[i] /\ i \in DOMAIN wire
    BY <2>1, CaptureFacts DEF TakesAll
  <2>3. \A w \in U8 : w \in Nat
    BY DEF U8
  <2> QED
    BY <1>5, <2>2, <2>3, CaptureFacts DEF AllRight, Layer
<1> HIDE DEF old, got
<1>8. l.opts = got.opts
  <2>1. CASE l.opts = old.opts
    BY <1>5, <2>1 DEF Alike
  <2>2. CASE l.opts # old.opts
    <3>1. l.kind = "Tcp" /\ l.kind = old.kind /\ l.opts - old.opts \in 1 .. 3 /\ Length(l) % 4 = 0
      BY <1>3, <2>2 DEF Touched, old
    <3>2. got.kind = "Tcp" /\ 4 * got.words = Length(old) /\ got.words \in Nat
      BY <1>5, <1>6, <1>7, <3>1 DEF Alike
    <3>3. Length(l) = Length(old) + (l.opts - old.opts)
      BY <1>4, <3>1 DEF Length, Layer, HeaderBytes, Kinds
    <3> DEFINE more == l.opts - old.opts
    <3> HIDE DEF more
    <3>4. more \in 1 .. 3 /\ (4 * got.words + more) % 4 = 0
      BY <3>1, <3>2, <3>3 DEF more
    <3> QED
      BY <3>2, <3>4
  <2> QED
    BY <2>1, <2>2
<1>9. l.kind = old.kind /\ l.addr = old.addr
  BY <1>3 DEF Touched, old
<1>10. Length(l) = Length(old)
  BY <1>5, <1>8, <1>9 DEF Length, Alike
<1>11. Continue(l) => pc' = "loop"
  BY <1>2 DEF Continue
<1>12. Fail(l) => pc' # "loop"
  BY DEF Fail
<1>13. l.words = got.words
  <2>1. CASE Fail(l) /\ Kept(layers[i], l)
    BY <1>5, <2>1 DEF Kept, Alike, old
  <2>2. CASE Continue(l) /\ Settled(l) /\ old.kind = "Tcp"
    <3>1. 4 * l.words = Length(l)
      BY <1>9, <2>2 DEF Settled
    <3>2. 4 * got.words = Length(l) /\ got.words \in Nat
      BY <1>5, <1>6, <1>7, <1>10, <2>2 DEF Alike
    <3>3. l.words \in Nat
      BY <1>4 DEF Layer, U8
    <3> QED
      BY <3>1, <3>2, <3>3
  <2>3. CASE Continue(l) /\ old.kind # "Tcp"
    <3>1. l.words = old.words
      BY <1>1, <1>4, <1>11, <2>3, ContinueKeeps DEF old
    <3> QED
      BY <1>5, <3>1 DEF Alike
  <2> QED
    BY <1>3, <2>1, <2>2, <2>3
<1>14. Alike(l, got)
  BY <1>5, <1>8, <1>9, <1>13 DEF Alike
<1>15. ASSUME i <= Len(wire)
       PROVE  /\ Sized(wire[i]) /\ pc' = "loop" => l.len = wire[i].len + pad
              /\ ~Sized(wire[i]) => l.len = wire[i].len
  <2>1. i \in 1 .. Len(wire) /\ wire[i] \in Layer /\ i \in DOMAIN wire
    BY <1>2, <1>15, CaptureFacts
  <2>2. old.kind = wire[i].kind
    BY <1>5, <2>1, CaptureFacts DEF Alike, got
  <2>3. ASSUME Sized(wire[i]), pc' = "loop"
        PROVE  l.len = wire[i].len + pad
    <3>1. got = wire[i] /\ Below(Parsed, i) = Below(wire, i) + pad
      BY <2>1, <2>3, CaptureFacts DEF Sized, TakesAll, got
    <3>2. Below(layers, i) = Below(Parsed, i)
      <4>1. i \in 0 .. Len(Parsed)
        BY <1>2, <1>5
      <4> QED
        BY <1>1, <1>5, <4>1, AlikeBelow, CaptureFacts
    <3>3. /\ old.kind \in {"Ipv4", "Udp"} => l.len = Length(old) + Below(layers, i)
          /\ old.kind = "Ipv6" => l.len = Below(layers, i)
      BY <1>1, <1>4, <2>3, ContinueEffect DEF old
    <3>4. LenOk(wire, i)
      BY <2>1, CaptureFacts DEF AllRight
    <3>5. /\ Below(wire, i) \in Nat /\ Length(wire[i]) \in Nat
          /\ Length(old) = Length(wire[i]) /\ pad \in Nat
      <4>1. i \in 0 .. Len(wire) /\ wire \in Seq(Layer)
        BY <2>1, CaptureFacts
      <4> QED
        BY <1>6, <2>1, <3>1, <4>1, BelowCons, LengthNat, CaptureFacts
    <3> QED
      BY <2>2, <2>3, <3>1, <3>2, <3>3, <3>4, <3>5 DEF LenOk, Sized
  <2>4. ASSUME ~Sized(wire[i])
        PROVE  l.len = wire[i].len
    <3>1. old.len = wire[i].len
      BY <2>1, <2>4, CaptureFacts DEF RTInv, Adopting, old
    <3>2. CASE Continue(l)
      BY <1>1, <1>4, <1>11, <2>2, <2>4, <3>1, <3>2, ContinueKeeps DEF Sized, old
    <3>3. CASE Fail(l) /\ Kept(layers[i], l)
      BY <3>1, <3>3 DEF Kept, old
    <3> QED
      BY <1>3, <3>2, <3>3
  <2> QED
    BY <2>3, <2>4
<1> QED
  BY <1>2, <1>4, <1>14, <1>15 DEF got

(* Finalizing a capture preserves Adopting.                                *)
LEMMA AdoptStep ==
    ASSUME ChecksumTyped, RTInv, stage = "captured", SentWell, Finalize \/ FinalizeStep,
           UNCHANGED <<stage, wire, pad, sent>>
    PROVE  Adopting'
<1>1. Parsed' = Parsed /\ (SentWell' <=> SentWell)
  BY SameFrame DEF SentWell, Described
<1>2. /\ wire = sent.layers /\ wire \in Seq(Layer) /\ pad \in Nat /\ AllRight(wire)
      /\ AllWritable(wire) /\ Len(wire) <= Len(Parsed) /\ Parsed \in Seq(Layer)
  BY CaptureFacts
<1>3. /\ Len(layers) = Len(Parsed)
      /\ \A j \in 1 .. Len(Parsed) : Alike(layers[j], Parsed[j])
      /\ \A j \in 1 .. Len(wire) :
            /\ Sized(wire[j]) /\ (passes > 0 \/ (pc = "loop" /\ j < i)) =>
                  layers[j].len = wire[j].len + pad
            /\ ~Sized(wire[j]) => layers[j].len = wire[j].len
      /\ pad = 0 => layers = wire /\ result # "error"
      /\ TypeOK /\ layers \in Seq(Layer)
  BY <1>2 DEF RTInv, Adopting, IInv, TypeOK
<1>4. pad = 0 => layers' = wire /\ result' # "error"
  <2> SUFFICES ASSUME pad = 0
               PROVE  layers' = wire /\ result' # "error"
    OBVIOUS
  <2>1. layers = wire /\ result # "error"
    BY <1>3
  <2>2. CASE Finalize
    BY <2>1, <2>2 DEF Finalize
  <2>3. CASE FinalizeStep
    <3>1. Correct
      BY <1>2, <1>3, <2>1, CorrectIs
    <3>2. layers' = layers
      BY <1>3, <2>3, <3>1, RightStep DEF Correct
    <3> QED
      BY <1>2, <1>3, <2>1, <2>3, <3>2, NoFail
  <2> QED
    BY <2>2, <2>3
<1> SUFFICES /\ Len(layers') = Len(Parsed)
             /\ \A j \in 1 .. Len(Parsed) : Alike(layers'[j], Parsed[j])
             /\ \A j \in 1 .. Len(wire) :
                   /\ Sized(wire[j]) /\ (passes' > 0 \/ (pc' = "loop" /\ j < i')) =>
                         layers'[j].len = wire[j].len + pad
                   /\ ~Sized(wire[j]) => layers'[j].len = wire[j].len
  BY <1>1, <1>2, <1>4 DEF Adopting, Alike, Sized
<1>5. CASE Finalize
  <2>1. layers' = layers /\ passes' = passes /\ i' = 1
    BY <1>5 DEF Finalize
  <2>2. \A j \in 1 .. Len(wire) : ~(j < i')
    BY <2>1
  <2> QED
    BY <1>3, <2>1, <2>2
<1>6. CASE FinalizeStep /\ ~Return
  <2>1. /\ i \in 1 .. Len(layers)
        /\ layers' = [layers EXCEPT ![i] = layers'[i]]
        /\ Alike(layers'[i], Parsed[i])
        /\ i <= Len(wire) =>
              /\ Sized(wire[i]) /\ pc' = "loop" => layers'[i].len = wire[i].len + pad
              /\ ~Sized(wire[i]) => layers'[i].len = wire[i].len
    BY <1>6, AdoptLayer
  <2>2. /\ Len(layers') = Len(Parsed)
        /\ \A j \in 1 .. Len(Parsed) : j # i => layers'[j] = layers[j]
    BY <1>3, <2>1
  <2>3. \A j \in 1 .. Len(Parsed) : Alike(layers'[j], Parsed[j])
    BY <1>3, <2>1, <2>2
  <2>4. \/ pc' = "loop" /\ pc = "loop" /\ passes' = passes /\ i' = i + 1
        \/ pc' # "loop" /\ passes' = 0
    <3>1. PICK l : Continue(l) \/ Fail(l)
      BY <1>3, <1>6, FinalizeEffect
    <3> QED
      BY <1>3, <1>6, <3>1, FinalizeEffect DEF Continue, Fail
  <2>5. ASSUME NEW j \in 1 .. Len(wire)
        PROVE  /\ Sized(wire[j]) /\ (passes' > 0 \/ (pc' = "loop" /\ j < i')) =>
                     layers'[j].len = wire[j].len + pad
               /\ ~Sized(wire[j]) => layers'[j].len = wire[j].len
    <3>1. CASE j = i
      <4>1. i <= Len(wire)
        BY <3>1
      <4>2. passes' > 0 \/ pc' = "loop" => pc' = "loop"
        BY <2>4
      <4> QED
        BY <2>1, <3>1, <4>1, <4>2
    <3>2. CASE j # i
      <4>1. layers'[j] = layers[j]
        BY <1>2, <2>2, <3>2
      <4>2. passes' > 0 \/ (pc' = "loop" /\ j < i') => passes > 0 \/ (pc = "loop" /\ j < i)
        BY <2>1, <2>4, <3>2
      <4> QED
        BY <1>3, <4>1, <4>2
    <3> QED
      BY <3>1, <3>2
  <2> QED
    BY <2>2, <2>3, <2>5
<1>7. CASE Return
  <2>1. layers' = layers /\ pc = "loop" /\ i > Len(layers) /\ pc' = "idle"
    BY <1>7 DEF Return
  <2>2. \A j \in 1 .. Len(wire) : j < i
    BY <1>2, <1>3, <2>1 DEF TypeOK
  <2> QED
    BY <1>3, <2>1, <2>2
<1> QED
  BY <1>5, <1>6, <1>7

(* RTInv is inductive.                                                     *)
LEMMA RTStep ==
    ASSUME ChecksumTyped, RTInv, [RTNext]_rtvars
    PROVE  RTInv'
<1>0. IInv /\ TypeOK /\ layers \in Seq(Layer)
  BY DEF RTInv, IInv, TypeOK
<1>1. CASE Edit
  <2>1. IInv'
    BY <1>0, <1>1, InvStep DEF Edit, Next
  <2>2. stage' = "own" /\ pad' = pad
    BY <1>1 DEF Edit
  <2>3. FrameSent' /\ Adopting'
    BY <2>2 DEF FrameSent, Adopting
  <2>4. Stages'
    BY <2>2 DEF Stages, RTInv
  <2> QED
    BY <2>1, <2>3, <2>4 DEF RTInv
<1>2. CASE Finalizing
  <2>1. /\ stage' = stage /\ wire' = wire /\ pad' = pad /\ sent' = sent
        /\ Finalize \/ FinalizeStep
        /\ stage \in {"own", "captured"}
    BY <1>2 DEF Finalizing
  <2>2. IInv'
    BY <1>0, <2>1, InvStep DEF Next
  <2>3. FrameSent'
    BY <2>1 DEF RTInv, FrameSent
  <2>4. ~(result' = "none" /\ pc' = "idle")
    <3>1. CASE Finalize \/ Return
      BY <3>1 DEF Finalize, Return
    <3>2. CASE FinalizeStep /\ ~Return
      <4>1. PICK l : Continue(l) \/ Fail(l)
        BY <1>0, <3>2, FinalizeEffect
      <4>2. pc = "loop"
        BY <1>0, <3>2, FinalizeEffect
      <4> QED
        BY <4>1, <4>2 DEF Continue, Fail
    <3> QED
      BY <2>1, <3>1, <3>2
  <2>5. Understood' <=> Understood
    BY <2>1, SameFrame
  <2>6. Stages'
    BY <2>1, <2>4, <2>5 DEF RTInv, Stages
  <2>7. Adopting'
    <3>1. CASE stage = "captured" /\ SentWell
      BY <2>1, <3>1, AdoptStep
    <3>2. CASE ~(stage = "captured" /\ SentWell)
      <4>1. ~(stage' = "captured" /\ SentWell')
        BY <2>1, <3>2 DEF SentWell, Described
      <4> QED
        BY <4>1 DEF Adopting
    <3> QED
      BY <3>1, <3>2
  <2> QED
    BY <2>2, <2>3, <2>6, <2>7 DEF RTInv
<1>3. CASE Transmit
  <2>1. /\ stage' = "wire" /\ wire' = Wires(layers) /\ pc = "idle" /\ layers # <<>>
        /\ sent' = [layers |-> layers, finalized |-> passes > 0, correct |-> Correct]
        /\ AllWritable(layers) /\ UNCHANGED <<layers, pc, i, result, before, passes, pad>>
    BY <1>3 DEF Transmit
  <2>2. IInv'
    BY <1>0, <2>1, InvStep DEF vars
  <2>3. /\ sent'.layers = layers
        /\ sent'.finalized => passes > 0
        /\ sent'.correct => Correct
    BY <2>1
  <2>4. passes > 0 => \A j \in 1 .. Len(layers) :
            layers[j].kind = "Tcp" => 4 * layers[j].words = Length(layers[j])
    BY <1>0 DEF IInv, OffsetsRight, OffsetRight
  <2>5. FrameSent'
    BY <1>0, <2>1, <2>3, <2>4, CorrectIs DEF FrameSent
  <2>6. Stages' /\ Adopting'
    BY <2>1 DEF RTInv, Stages, Adopting
  <2> QED
    BY <2>2, <2>5, <2>6 DEF RTInv
<1>4. CASE Carry
  <2>1. /\ stage = "wire" /\ stage' = "wire" /\ pad' \in Nat /\ wire' = wire /\ sent' = sent
        /\ UNCHANGED vars
    BY <1>4, PadsAssumption DEF Carry, vars
  <2>2. IInv'
    BY <1>0, <2>1, InvStep
  <2>3. FrameSent' /\ Stages' /\ Adopting'
    BY <2>1 DEF RTInv, FrameSent, Stages, Adopting, vars
  <2> QED
    BY <2>2, <2>3 DEF RTInv
<1>5. CASE Receive
  <2> DEFINE got == IF Understood THEN Parsed ELSE <<>>
  <2>1. /\ stage = "wire" /\ stage' = IF Understood THEN "captured" ELSE "misread"
        /\ layers' = got /\ before' = got /\ passes' = 0 /\ i' = 0 /\ result' = "none"
        /\ pc' = pc /\ wire' = wire /\ pad' = pad /\ sent' = sent
    BY <1>5 DEF Receive
  <2>2. /\ sent.layers \in Seq(Layer) /\ sent.layers # <<>> /\ wire = Wires(sent.layers)
        /\ pad \in Nat /\ pc = "idle"
    BY <2>1 DEF RTInv, FrameSent, Stages
  <2>3. wire \in Seq(Layer) /\ wire # <<>>
    BY <2>2, WiresIs
  <2>4. got \in Seq(Layer)
    BY <2>2, <2>3, ParsedIs
  <2> HIDE DEF got
  <2>5. Reset(got)
    BY <2>1, <2>2 DEF Reset
  <2>6. IInv'
    BY <1>0, <2>4, <2>5, ResetInv
  <2>7. /\ Understood' <=> Understood
        /\ Parsed' = Parsed
        /\ SentWell' <=> SentWell
    BY <2>1, SameFrame DEF SentWell, Described
  <2>8. FrameSent'
    BY <2>1 DEF RTInv, FrameSent
  <2>9. Stages'
    BY <2>1, <2>2, <2>7 DEF Stages, got
  <2>10. Adopting'
    <3> SUFFICES ASSUME stage' = "captured", SentWell
                 PROVE  /\ Len(layers') = Len(Parsed)
                        /\ \A j \in 1 .. Len(Parsed) : Alike(layers'[j], Parsed[j])
                        /\ \A j \in 1 .. Len(sent.layers) :
                              /\ ~(passes' > 0 \/ (pc' = "loop" /\ j < i'))
                              /\ layers'[j].len = sent.layers[j].len
                        /\ pad = 0 => layers' = sent.layers /\ result' # "error"
      BY <2>1, <2>7 DEF Adopting, Alike, Sized
    <3>1. Understood /\ layers' = Parsed
      BY <2>1 DEF got
    <3>2. wire = sent.layers /\ Described(wire)
      BY DEF SentWell
    <3>3. /\ \A j \in 1 .. Len(wire) : Parsed[j].len = wire[j].len
          /\ pad = 0 => Parsed = wire
      BY <2>2, <2>3, <3>1, <3>2, ParsedWell
    <3> QED
      BY <2>1, <2>2, <3>1, <3>2, <3>3 DEF Alike
  <2> QED
    BY <2>6, <2>8, <2>9, <2>10 DEF RTInv
<1>6. CASE UNCHANGED rtvars
  <2>1. /\ UNCHANGED vars /\ layers' = layers /\ pc' = pc /\ i' = i /\ result' = result
        /\ passes' = passes
        /\ stage' = stage /\ wire' = wire /\ pad' = pad /\ sent' = sent
    BY <1>6 DEF rtvars, vars
  <2>2. IInv'
    BY <1>0, <2>1, InvStep
  <2>3. /\ Understood' <=> Understood
        /\ Parsed' = Parsed
        /\ SentWell' <=> SentWell
    BY <2>1, SameFrame DEF SentWell, Described
  <2>4. FrameSent' /\ Stages'
    BY <2>1, <2>3 DEF RTInv, FrameSent, Stages
  <2>5. Adopting'
    BY <2>1, <2>3 DEF RTInv, Adopting, Alike, Sized
  <2> QED
    BY <2>2, <2>4, <2>5 DEF RTInv
<1> QED
  BY <1>1, <1>2, <1>3, <1>4, <1>5, <1>6 DEF RTNext

(* RTInv holds in every reachable state of RoundTrip.                      *)
LEMMA RTInvariance == ChecksumTyped => (RTSpec => []RTInv)
<1> SUFFICES ASSUME ChecksumTyped
             PROVE  RTSpec => []RTInv
  OBVIOUS
<1>1. RTInit => RTInv
  <2> SUFFICES ASSUME RTInit PROVE RTInv
    OBVIOUS
  <2>1. IInv
    BY DEF RTInit, Init, IInv, TypeOK, PartialFailure, OnlyDependentFields, OwnSumsRight,
           PassedOffsets, OffsetsRight
  <2>2. FrameSent /\ Stages /\ Adopting
    BY DEF RTInit, FrameSent, Stages, Adopting
  <2> QED
    BY <2>1, <2>2 DEF RTInv
<1>2. RTInv /\ [RTNext]_rtvars => RTInv'
  BY RTStep
<1> QED
  BY <1>1, <1>2, PTL DEF RTSpec

(* A finalized packet comes back from its bytes, parsed with the default   *)
(* bindings, exactly when its protocol numbers describe it and its headers *)
(* say what they hold: for packets of any layers and any length.           *)
THEOREM FinalizedComesBackHolds == ChecksumTyped => (RTSpec => []FinalizedComesBack)
<1>1. RTInv => FinalizedComesBack
  <2> SUFFICES ASSUME RTInv, stage \in {"captured", "misread"}, result = "none",
                      pc = "idle", pad = 0, sent.finalized
               PROVE  (layers = sent.layers) =
                          (Described(sent.layers) /\ HeadersFit(sent.layers))
    BY DEF FinalizedComesBack
  <2>1. /\ sent.layers \in Seq(Layer) /\ sent.layers # <<>> /\ wire = Wires(sent.layers)
        /\ \A j \in 1 .. Len(sent.layers) :
              sent.layers[j].kind = "Tcp" =>
                  4 * sent.layers[j].words = Length(sent.layers[j])
    BY DEF RTInv, FrameSent
  <2>2. layers = IF Understood THEN Parsed ELSE <<>>
    BY DEF RTInv, Stages
  <2>3. layers = sent.layers <=> Described(sent.layers) /\ HeadersFit(sent.layers)
    BY <2>1, <2>2, ComesBack
  <2> QED
    BY <2>3
<1> QED
  BY <1>1, RTInvariance, PTL

(* A correct frame that is captured unpadded stays as it was sent, however *)
(* often the receiver finalizes it, and no finalize of it fails.           *)
THEOREM CaptureStableHolds == ChecksumTyped => (RTSpec => []CaptureStable)
<1>1. RTInv => CaptureStable
  BY DEF RTInv, Adopting, CaptureStable
<1> QED
  BY <1>1, RTInvariance, PTL

(* A successful finalize of a padded capture adds the padding to every     *)
(* length field, whatever its amount, and keeps the other header fields.   *)
THEOREM PaddingAdoptedHolds == ChecksumTyped => (RTSpec => []PaddingAdopted)
<1>1. RTInv => PaddingAdopted
  <2> SUFFICES ASSUME RTInv, stage = "captured", SentWell, passes > 0
               PROVE  /\ LengthOfLayers(layers) = LengthOfLayers(sent.layers) + pad
                      /\ \A j \in DOMAIN sent.layers :
                            LET was == sent.layers[j]
                                grown == IF was.kind \in {"Ipv4", "Ipv6", "Udp"} THEN pad ELSE 0
                            IN  /\ layers[j].len = was.len + grown
                                /\ layers[j].words = was.words /\ layers[j].addr = was.addr
    BY DEF PaddingAdopted
  <2>1. /\ wire = sent.layers /\ wire \in Seq(Layer) /\ pad \in Nat /\ Parsed \in Seq(Layer)
        /\ Len(Parsed) >= Len(wire) /\ LengthOfLayers(Parsed) = LengthOfLayers(wire) + pad
        /\ \A j \in 1 .. Len(wire) : /\ Parsed[j].addr = wire[j].addr
                                     /\ Parsed[j].words = wire[j].words
    BY CaptureFacts
  <2>2. /\ Len(layers) = Len(Parsed) /\ layers \in Seq(Layer)
        /\ \A j \in 1 .. Len(Parsed) : Alike(layers[j], Parsed[j])
        /\ \A j \in 1 .. Len(wire) :
              /\ Sized(wire[j]) /\ (passes > 0 \/ (pc = "loop" /\ j < i)) =>
                    layers[j].len = wire[j].len + pad
              /\ ~Sized(wire[j]) => layers[j].len = wire[j].len
    BY <2>1 DEF RTInv, Adopting, IInv, TypeOK
  <2>3. LengthOfLayers(layers) = LengthOfLayers(sent.layers) + pad
    BY <2>1, <2>2, AlikeBelow
  <2>4. ASSUME NEW j \in DOMAIN sent.layers
        PROVE  /\ Sized(sent.layers[j]) => layers[j].len = sent.layers[j].len + pad
               /\ ~Sized(sent.layers[j]) => layers[j].len = sent.layers[j].len + 0
               /\ layers[j].words = sent.layers[j].words /\ layers[j].addr = sent.layers[j].addr
    <3>1. j \in 1 .. Len(sent.layers) /\ j \in 1 .. Len(wire) /\ j \in 1 .. Len(Parsed)
      BY <2>1
    <3>2. Alike(layers[j], Parsed[j])
      BY <2>2, <3>1
    <3>3. layers[j].words = wire[j].words /\ layers[j].addr = wire[j].addr
      BY <2>1, <3>1, <3>2 DEF Alike
    <3>4. /\ Sized(wire[j]) => layers[j].len = wire[j].len + pad
          /\ ~Sized(wire[j]) => layers[j].len = wire[j].len
      BY <2>2, <3>1
    <3>5. wire[j].len \in Nat
      BY <2>1, <3>1, Range16
    <3> QED
      BY <2>1, <3>3, <3>4, <3>5
  <2> QED
    BY <2>3, <2>4 DEF Sized
<1> QED
  BY <1>1, RTInvariance, PTL
=============================================================================
