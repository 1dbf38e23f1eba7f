--------------------------- MODULE OptionsProofs ---------------------------
(***************************************************************************)
(* Machine-checked properties of Options, for every list of options a      *)
(* program can build and all bytes a header may arrive with.               *)
(***************************************************************************)
EXTENDS Options, NatLemmas, SequenceTheorems

-----------------------------------------------------------------------------
(* Concatenation of all members of a sequence of sequences.  f holds the   *)
(* concatenations of the first members of ss, as FlattenSeq defines them.  *)
Flattens(f, ss, n) ==
    f = [i \in 1 .. n |-> IF i = 1 THEN ss[i] ELSE f[i - 1] \o ss[i]]

(* What such a function holds, a member at a time.                         *)
LEMMA FlattensAt ==
    ASSUME NEW ss, NEW f, NEW n \in Nat, Flattens(f, ss, n), NEW i \in 1 .. n
    PROVE  f[i] = IF i = 1 THEN ss[i] ELSE f[i - 1] \o ss[i]
<1> DEFINE g == [m \in 1 .. n |-> IF m = 1 THEN ss[m] ELSE f[m - 1] \o ss[m]]
<1>1. f = g
  BY Zenon DEF Flattens
<1>2. g[i] = IF i = 1 THEN ss[i] ELSE f[i - 1] \o ss[i]
  BY Zenon
<1> HIDE DEF g
<1> QED BY <1>1, <1>2, Zenon

(* Such a function exists for every sequence of sequences.                 *)
LEMMA FlattensExist ==
    ASSUME NEW S, NEW ss \in Seq(Seq(S))
    PROVE  \E f \in [1 .. Len(ss) -> Seq(S)] : Flattens(f, ss, Len(ss))
<1> DEFINE P(n) == n <= Len(ss) => \E f \in [1 .. n -> Seq(S)] : Flattens(f, ss, n)
           N == {n \in Nat : P(n)}
<1>1. 0 \in N
  <2> DEFINE f == [m \in 1 .. 0 |-> <<>>]
  <2>1. f \in [1 .. 0 -> Seq(S)]
    OBVIOUS
  <2>2. Flattens(f, ss, 0)
    BY DEF Flattens
  <2> HIDE DEF f
  <2> QED BY <2>1, <2>2
<1>2. ASSUME NEW n \in Nat, n \in N, n + 1 <= Len(ss)
      PROVE  \E f \in [1 .. n + 1 -> Seq(S)] : Flattens(f, ss, n + 1)
  <2>1. PICK g \in [1 .. n -> Seq(S)] : Flattens(g, ss, n)
    BY <1>2
  <2>2. ss[n + 1] \in Seq(S)
    BY <1>2
  <2> DEFINE last == IF n = 0 THEN ss[n + 1] ELSE g[n] \o ss[n + 1]
             f == [m \in 1 .. n + 1 |-> IF m = n + 1 THEN last ELSE g[m]]
  <2>3. last \in Seq(S)
    BY <2>1, <2>2
  <2>4. ASSUME NEW m \in 1 .. n + 1
        PROVE  f[m] = IF m = 1 THEN ss[m] ELSE f[m - 1] \o ss[m]
    <3>1. CASE m = n + 1
      <4>1. f[m] = last
        BY <3>1
      <4>2. CASE n = 0
        BY <3>1, <4>1, <4>2
      <4>3. CASE n # 0
        <5>1. m # 1 /\ f[m - 1] = g[n]
          BY <3>1, <4>3
        <5> QED BY <3>1, <4>1, <4>3, <5>1
      <4> QED BY <4>2, <4>3
    <3>2. CASE m # n + 1
      <4>1. m \in 1 .. n /\ f[m] = g[m] /\ (m # 1 => f[m - 1] = g[m - 1])
        BY <3>2
      <4>2. g[m] = IF m = 1 THEN ss[m] ELSE g[m - 1] \o ss[m]
        BY <2>1, <4>1, FlattensAt
      <4> QED BY <4>1, <4>2, Zenon
    <3> QED BY <3>1, <3>2
  <2>5. f \in [1 .. n + 1 -> Seq(S)]
    <3> HIDE DEF last
    <3> QED BY <2>1, <2>3
  <2>6. f = [m \in 1 .. n + 1 |-> f[m]]
    OBVIOUS
  <2> HIDE DEF f
  <2>7. Flattens(f, ss, n + 1)
    BY <2>4, <2>6 DEF Flattens
  <2> QED BY <2>5, <2>7
<1>3. \A n \in Nat : n \in N => n + 1 \in N
  <2> SUFFICES ASSUME NEW n \in Nat, n \in N PROVE n + 1 \in N
    OBVIOUS
  <2>1. n + 1 <= Len(ss) => \E f \in [1 .. n + 1 -> Seq(S)] : Flattens(f, ss, n + 1)
    BY <1>2
  <2> HIDE DEF P
  <2>2. P(n + 1)
    BY <2>1 DEF P
  <2> QED BY <2>2
<1> HIDE DEF N
<1>4. Nat \subseteq N
  BY <1>1, <1>3, NatSetInduction
<1> QED BY <1>4 DEF N

(* It is the only one.                                                     *)
LEMMA FlattensUnique ==
    ASSUME NEW ss, NEW n \in Nat, NEW f, Flattens(f, ss, n), NEW g, Flattens(g, ss, n)
    PROVE  f = g
<1> DEFINE N == {i \in Nat : i \in 1 .. n => f[i] = g[i]}
<1>1. 0 \in N
  OBVIOUS
<1>2. \A i \in Nat : i \in N => i + 1 \in N
  <2> SUFFICES ASSUME NEW i \in Nat, i \in N, i + 1 \in 1 .. n
               PROVE  f[i + 1] = g[i + 1]
    OBVIOUS
  <2>1. /\ f[i + 1] = IF i + 1 = 1 THEN ss[i + 1] ELSE f[(i + 1) - 1] \o ss[i + 1]
        /\ g[i + 1] = IF i + 1 = 1 THEN ss[i + 1] ELSE g[(i + 1) - 1] \o ss[i + 1]
    BY FlattensAt
  <2>2. i + 1 # 1 => (i + 1) - 1 = i /\ f[i] = g[i]
    OBVIOUS
  <2> QED BY <2>1, <2>2
<1> HIDE DEF N
<1>3. Nat \subseteq N
  BY <1>1, <1>2, NatSetInduction
<1>4. \A i \in 1 .. n : f[i] = g[i]
  BY <1>3 DEF N
<1>5. f = [i \in 1 .. n |-> f[i]] /\ g = [i \in 1 .. n |-> g[i]]
  BY DEF Flattens
<1> QED BY <1>4, <1>5

(* So FlattenSeq is the last value of any such function.                   *)
LEMMA FlattenIs ==
    ASSUME NEW S, NEW ss \in Seq(Seq(S)), NEW f, Flattens(f, ss, Len(ss)), ss # <<>>
    PROVE  FlattenSeq(ss) = f[Len(ss)]
<1> DEFINE g == CHOOSE g : g = [i \in 1 .. Len(ss) |->
                                  IF i = 1 THEN ss[i] ELSE g[i - 1] \o ss[i]]
<1>1. Flattens(g, ss, Len(ss))
  BY Zenon DEF Flattens
<1>2. Len(ss) # 0 /\ Len(ss) \in Nat
  OBVIOUS
<1>3. FlattenSeq(ss) = g[Len(ss)]
  BY <1>2, Zenon DEF FlattenSeq
<1> HIDE DEF g
<1> QED
  BY <1>1, <1>2, <1>3, FlattensUnique, Zenon

(* The concatenation of sequences over S is one.                           *)
LEMMA FlattenSeqType ==
    ASSUME NEW S, NEW ss \in Seq(Seq(S))
    PROVE  FlattenSeq(ss) \in Seq(S)
<1>1. PICK f \in [1 .. Len(ss) -> Seq(S)] : Flattens(f, ss, Len(ss))
  BY FlattensExist
<1>2. CASE ss = <<>>
  BY <1>2 DEF FlattenSeq
<1>3. CASE ss # <<>>
  <2>1. Len(ss) \in 1 .. Len(ss)
    BY <1>3
  <2>2. f[Len(ss)] \in Seq(S)
    BY <1>1, <2>1
  <2>3. FlattenSeq(ss) = f[Len(ss)]
    BY <1>1, <1>3, FlattenIs
  <2> QED BY <2>2, <2>3
<1> QED BY <1>2, <1>3

(* The last member of a list of sequences is the end of their              *)
(* concatenation.                                                          *)
LEMMA FlattenAppend ==
    ASSUME NEW S, NEW ss \in Seq(Seq(S)), NEW s \in Seq(S)
    PROVE  FlattenSeq(Append(ss, s)) = FlattenSeq(ss) \o s
<1> DEFINE tt == Append(ss, s)
           n == Len(ss)
<1>1. /\ tt \in Seq(Seq(S)) /\ tt # <<>> /\ Len(tt) = n + 1 /\ n \in Nat
      /\ tt[n + 1] = s /\ \A i \in 1 .. n : tt[i] = ss[i]
  BY AppendProperties, LenProperties
<1>0. n + 1 \in Nat
  BY <1>1
<1> HIDE DEF tt
<1>2. PICK f \in [1 .. n + 1 -> Seq(S)] : Flattens(f, tt, n + 1)
  BY <1>1, FlattensExist
<1>3. FlattenSeq(tt) = f[n + 1]
  BY <1>1, <1>2, FlattenIs
<1>4. CASE n = 0
  <2>1. ss = <<>> /\ FlattenSeq(ss) = <<>>
    BY <1>4 DEF FlattenSeq
  <2>2. f[1] = tt[1]
    BY <1>1, <1>2, <1>4, FlattensAt
  <2>3. <<>> \o s = s
    OBVIOUS
  <2> QED BY <1>1, <1>3, <1>4, <2>1, <2>2, <2>3 DEF tt
<1>5. CASE n # 0
  <2> DEFINE g == [i \in 1 .. n |-> f[i]]
  <2>1. ASSUME NEW i \in 1 .. n
        PROVE  g[i] = IF i = 1 THEN ss[i] ELSE g[i - 1] \o ss[i]
    <3>1. i \in 1 .. n + 1 /\ g[i] = f[i] /\ (i # 1 => g[i - 1] = f[i - 1])
      BY <1>1
    <3>2. f[i] = IF i = 1 THEN tt[i] ELSE f[i - 1] \o tt[i]
      BY <1>0, <1>2, <3>1, FlattensAt
    <3> QED BY <1>1, <3>1, <3>2, Zenon
  <2>2. g = [i \in 1 .. n |-> g[i]]
    OBVIOUS
  <2>3. g[n] = f[n]
    BY <1>1, <1>5
  <2> HIDE DEF g
  <2>4. Flattens(g, ss, n)
    BY <2>1, <2>2 DEF Flattens
  <2>5. FlattenSeq(ss) = g[n]
    BY <1>5, <2>4, FlattenIs
  <2>6. f[n + 1] = f[n] \o tt[n + 1]
    <3>1. n + 1 \in 1 .. n + 1 /\ n + 1 # 1 /\ (n + 1) - 1 = n
      BY <1>1, <1>5
    <3>2. f[n + 1] = IF n + 1 = 1 THEN tt[n + 1] ELSE f[(n + 1) - 1] \o tt[n + 1]
      BY <1>0, <1>2, <3>1, FlattensAt
    <3> QED BY <3>1, <3>2
  <2> QED BY <1>1, <1>3, <2>3, <2>5, <2>6 DEF tt
<1> QED BY <1>4, <1>5

-----------------------------------------------------------------------------
(* The bytes of options.                                                   *)

Protocols == {"Tcp", "Ipv4"}

(* The fields of an option that can be built or read, and their ranges.    *)
LEMMA BuildableFields ==
    ASSUME NEW p, NEW o \in Buildable(p)
    PROVE  /\ o \in Option
           /\ o.copied \in 0 .. 1 /\ o.class \in 0 .. 3 /\ o.type \in Byte
           /\ o.length \in Byte /\ o.value \in Seq(Byte) /\ Len(o.value) \in Nat
  BY DEF Buildable, Option

(* The first byte of an option, and what Split makes of it.                *)
Id(o) == 128 * o.copied + 32 * o.class + o.type

(* The first byte of an option that can be built fits a byte.              *)
LEMMA IdByte ==
    ASSUME NEW p \in Protocols, NEW o \in Buildable(p)
    PROVE  Id(o) \in Byte
<1>1. /\ o.copied \in 0 .. 1 /\ o.class \in 0 .. 3 /\ o.type \in Byte
  BY BuildableFields
<1>2. (p = "Ipv4" /\ o.type < 32) \/ (p = "Tcp" /\ o.copied = 0 /\ o.class = 0)
  BY DEF Buildable, Protocols
<1> QED BY <1>1, <1>2 DEF Id, Byte

(* An option is one byte long, or two bytes and its value.                 *)
LEMMA OptionBytes ==
    ASSUME NEW p \in Protocols, NEW o \in Buildable(p)
    PROVE  /\ OptionToBytes(o) \in Seq(Byte)
           /\ Len(OptionToBytes(o)) = IF HasLength(o.type) THEN 2 + Len(o.value) ELSE 1
           /\ OptionToBytes(o)[1] = Id(o)
           /\ HasLength(o.type) =>
                  /\ OptionToBytes(o)[2] = o.length
                  /\ \A i \in 1 .. Len(o.value) : OptionToBytes(o)[2 + i] = o.value[i]
<1>1. Id(o) \in Byte /\ o.length \in Byte /\ o.value \in Seq(Byte)
  BY IdByte, BuildableFields
<1>2. OptionToBytes(o) = IF HasLength(o.type) THEN <<Id(o), o.length>> \o o.value ELSE <<Id(o)>>
  BY DEF OptionToBytes, Id
<1> DEFINE i == Id(o)
           l == o.length
           v == o.value
<1> HIDE DEF i, l, v
<1>3. <<i, l>> \in Seq(Byte) /\ Len(<<i, l>>) = 2 /\ <<i>> \in Seq(Byte) /\ Len(<<i>>) = 1
  BY <1>1 DEF i, l
<1>4. /\ <<i, l>> \o v \in Seq(Byte)
      /\ Len(<<i, l>> \o v) = 2 + Len(v)
      /\ \A k \in 1 .. 2 + Len(v) :
             (<<i, l>> \o v)[k] = IF k <= 2 THEN <<i, l>>[k] ELSE v[k - 2]
  BY <1>1, <1>3, ConcatProperties DEF v
<1>5. Len(v) \in Nat
  BY <1>1, LenProperties DEF v
<1>6. /\ (<<i, l>> \o v)[1] = i /\ (<<i, l>> \o v)[2] = l
      /\ \A k \in 1 .. Len(v) : (<<i, l>> \o v)[2 + k] = v[k]
  BY <1>4, <1>5
<1> QED BY <1>2, <1>3, <1>4, <1>6 DEF i, l, v

(* The empty list has no bytes.                                            *)
LEMMA ToBytesEmpty == ToBytes(<<>>) = <<>>
<1>1. [j \in DOMAIN <<>> |-> OptionToBytes(<<>>[j])] = <<>>
  OBVIOUS
<1> QED BY <1>1 DEF ToBytes, FlattenSeq

(* The bytes of the options of a list, one sequence of bytes for each.     *)
LEMMA ToBytesSeq ==
    ASSUME NEW p \in Protocols, NEW os \in Seq(Buildable(p))
    PROVE  [j \in DOMAIN os |-> OptionToBytes(os[j])] \in Seq(Seq(Byte))
<1>1. DOMAIN os = 1 .. Len(os) /\ Len(os) \in Nat
  BY LenProperties
<1>2. \A j \in 1 .. Len(os) : OptionToBytes(os[j]) \in Seq(Byte)
  BY OptionBytes, ElementOfSeq
<1> QED BY <1>1, <1>2

(* The bytes of a list are bytes.                                          *)
LEMMA ToBytesType ==
    ASSUME NEW p \in Protocols, NEW os \in Seq(Buildable(p))
    PROVE  ToBytes(os) \in Seq(Byte)
  BY ToBytesSeq, FlattenSeqType DEF ToBytes

(* The bytes of the last option are at the end.                            *)
LEMMA ToBytesAppend ==
    ASSUME NEW p \in Protocols, NEW os \in Seq(Buildable(p)), NEW o \in Buildable(p)
    PROVE  ToBytes(Append(os, o)) = ToBytes(os) \o OptionToBytes(o)
<1> DEFINE f == [j \in DOMAIN os |-> OptionToBytes(os[j])]
           ps == Append(os, o)
           g == [j \in DOMAIN ps |-> OptionToBytes(ps[j])]
           b == OptionToBytes(o)
<1>1. f \in Seq(Seq(Byte)) /\ b \in Seq(Byte)
  BY ToBytesSeq, OptionBytes
<1>2. /\ ps \in Seq(Buildable(p)) /\ Len(ps) = Len(os) + 1
      /\ \A j \in 1 .. Len(os) : ps[j] = os[j]
      /\ ps[Len(os) + 1] = o /\ Len(os) \in Nat
  BY AppendProperties, LenProperties
<1>3. DOMAIN os = 1 .. Len(os) /\ DOMAIN ps = 1 .. Len(os) + 1
  BY <1>2, LenProperties
<1>4. g \in Seq(Seq(Byte))
  BY <1>2, ToBytesSeq
<1>5. Len(f) = Len(os) /\ Len(g) = Len(os) + 1
  BY <1>1, <1>3, <1>4, <1>2
<1>6. /\ Append(f, b) \in Seq(Seq(Byte)) /\ Len(Append(f, b)) = Len(os) + 1
      /\ \A j \in 1 .. Len(os) : Append(f, b)[j] = f[j]
      /\ Append(f, b)[Len(os) + 1] = b
  BY <1>1, <1>5, AppendProperties
<1>7. \A j \in 1 .. Len(os) + 1 : g[j] = Append(f, b)[j]
  <2> SUFFICES ASSUME NEW j \in 1 .. Len(os) + 1 PROVE g[j] = Append(f, b)[j]
    OBVIOUS
  <2>1. CASE j = Len(os) + 1
    BY <1>2, <1>3, <1>6, <2>1
  <2>2. CASE j \in 1 .. Len(os)
    <3>1. g[j] = OptionToBytes(ps[j]) /\ f[j] = OptionToBytes(os[j])
      BY <1>3, <2>2
    <3> QED BY <1>2, <1>6, <2>2, <3>1
  <2> QED BY <1>2, <2>1, <2>2
<1> HIDE DEF f, g, b
<1>8. g = Append(f, b)
  BY <1>4, <1>5, <1>6, <1>7, SeqEqual
<1>9. FlattenSeq(g) = FlattenSeq(f) \o b
  BY <1>1, <1>8, FlattenAppend
<1> QED BY <1>9 DEF ToBytes, f, g, b

-----------------------------------------------------------------------------
(* Reading one option.                                                     *)

(* The two types without a length.                                         *)
LEMMA NoLength ==
    ASSUME NEW t \in Byte
    PROVE  t \in {0, 1} <=> ~HasLength(t)
  BY DEF HasLength, Byte

(* What Split takes apart, Id puts together again.                         *)
LEMMA SplitFields ==
    ASSUME proto \in Protocols, NEW b \in Byte
    PROVE  /\ Split(b).copied \in 0 .. 1 /\ Split(b).class \in 0 .. 3 /\ Split(b).type \in Byte
           /\ proto = "Ipv4" => Split(b).type < 32
           /\ proto = "Tcp" => Split(b).copied = 0 /\ Split(b).class = 0
           /\ Id(Split(b)) = b
<1>1. CASE proto = "Tcp"
  BY <1>1 DEF Split, Byte, Id
<1>2. CASE proto = "Ipv4"
  <2>1. Split(b) = [copied |-> b \div 128, class |-> (b \div 32) % 4, type |-> b % 32]
    BY <1>2 DEF Split
  <2>2. /\ b \div 128 \in 0 .. 1 /\ (b \div 32) % 4 \in 0 .. 3 /\ b % 32 \in 0 .. 31
        /\ 128 * (b \div 128) + 32 * ((b \div 32) % 4) + (b % 32) = b
    BY DEF Byte
  <2> QED BY <1>2, <2>1, <2>2 DEF Id, Byte
<1> QED BY <1>1, <1>2 DEF Protocols

(* And the other way round, for an option that can be built.               *)
LEMMA SplitId ==
    ASSUME proto \in Protocols, NEW o \in Buildable(proto)
    PROVE  /\ Split(Id(o)).copied = o.copied
           /\ Split(Id(o)).class = o.class
           /\ Split(Id(o)).type = o.type
<1>1. /\ o.copied \in 0 .. 1 /\ o.class \in 0 .. 3 /\ o.type \in Byte
  BY BuildableFields
<1> DEFINE c == o.copied
           k == o.class
           t == o.type
<1>2. CASE proto = "Tcp"
  <2>1. o.copied = 0 /\ o.class = 0
    BY <1>2 DEF Buildable
  <2> QED BY <1>1, <1>2, <2>1 DEF Split, Id, Byte
<1>3. CASE proto = "Ipv4"
  <2>1. t \in 0 .. 31 /\ c \in 0 .. 1 /\ k \in 0 .. 3
    <3>1. o.type < 32
      BY <1>3 DEF Buildable
    <3> QED BY <1>1, <3>1 DEF Byte
  <2>2. Id(o) = 128 * c + 32 * k + t
    BY DEF Id
  <2> HIDE DEF c, k, t
  <2>3. /\ Id(o) \div 128 = c /\ (Id(o) \div 32) % 4 = k /\ Id(o) % 32 = t
    BY <2>1, <2>2
  <2> QED BY <1>3, <2>3 DEF Split, c, k, t
<1> QED BY <1>2, <1>3 DEF Protocols

(* The bytes that are left.                                                *)
LEMMA RestBytes ==
    ASSUME TypeOK
    PROVE  /\ Rest \in Seq(Byte) /\ Len(Rest) = Len(input) - read /\ Len(Rest) \in Nat
           /\ \A i \in 1 .. Len(Rest) : Rest[i] = input[read + i] /\ Rest[i] \in Byte
           /\ Rest # <<>> <=> Len(Rest) > 0
<1>1. input \in Seq(Byte) /\ read \in 0 .. Len(input) /\ Len(input) \in Nat
  BY LenProperties DEF TypeOK
<1>2. \A i \in read + 1 .. Len(input) : input[i] \in Byte
  BY <1>1, ElementOfSeq
<1>3. read + 1 \in Int /\ Len(input) \in Int
  BY <1>1
<1>4. /\ Rest \in Seq(Byte)
      /\ Len(Rest) = IF read + 1 <= Len(input) THEN Len(input) - (read + 1) + 1 ELSE 0
      /\ \A i \in 1 .. Len(input) - (read + 1) + 1 : Rest[i] = input[(read + 1) + i - 1]
  BY <1>2, <1>3, SubSeqProperties DEF Rest
<1>5. Len(Rest) = Len(input) - read /\ Len(Rest) \in Nat
  BY <1>1, <1>4
<1>6. \A i \in 1 .. Len(Rest) : Rest[i] = input[read + i] /\ Rest[i] \in Byte
  <2> SUFFICES ASSUME NEW i \in 1 .. Len(Rest)
               PROVE  Rest[i] = input[read + i] /\ Rest[i] \in Byte
    OBVIOUS
  <2>1. i \in 1 .. Len(input) - (read + 1) + 1 /\ (read + 1) + i - 1 = read + i
    BY <1>1, <1>5
  <2> QED BY <1>4, <2>1, ElementOfSeq
<1>7. Rest # <<>> <=> Len(Rest) > 0
  BY <1>4, EmptySeq
<1> QED BY <1>4, <1>5, <1>6, <1>7

(* The option that the next bytes hold, as ReadOption puts it together.    *)
Parsed ==
    LET id    == Split(Rest[1])
        valued == HasLength(id.type)
    IN  [copied |-> id.copied, class |-> id.class, type |-> id.type,
         length |-> IF valued THEN Rest[2] ELSE 0,
         value  |-> IF valued
                    THEN SubSeq(Rest, 3, 2 + ValueBytes(id.type, Rest[2]))
                    ELSE <<>>]

(* When the next option is neither refused nor cut off, its type is known, *)
(* and what it takes of the input is there.                                *)
LEMMA Readable ==
    ASSUME TypeOK, ~Refused, ~CutOff
    PROVE  LET type == Split(Rest[1]).type
               size == ValueBytes(type, Rest[2])
           IN  /\ Len(Rest) > 0 /\ Known(type)
               /\ HasLength(type) =>
                      /\ Len(Rest) > 1 /\ size \in Nat /\ 2 + size <= Len(Rest)
                      /\ proto = "Tcp" => 
                             \/ <<type, size>> \in {<<2, 2>>, <<3, 1>>, <<4, 0>>, <<8, 8>>}
                             \/ type = 5 /\ size % 8 = 0
<1> DEFINE type == Split(Rest[1]).type
           size == ValueBytes(type, Rest[2])
<1>1. /\ Len(Rest) \in Nat /\ Rest # <<>> <=> Len(Rest) > 0
      /\ \A i \in 1 .. Len(Rest) : Rest[i] \in Byte
  BY RestBytes
<1>2. Rest # <<>>
  BY DEF CutOff
<1>3. Known(type) /\ (LengthCounts(type) /\ Len(Rest) > 1 => ~(Rest[2] < 2))
  BY <1>2 DEF Refused
<1>4. HasLength(type) => Len(Rest) > 1 /\ ~(Len(Rest) < 2 + size)
  BY <1>2 DEF CutOff
<1>5. proto \in Protocols
  BY DEF TypeOK, Protocols
<1>6. Rest[1] \in Byte
  BY <1>1, <1>2
<1>7. type \in Byte
  BY <1>5, <1>6, SplitFields
<1> DEFINE l == Rest[2]
<1> HIDE DEF type
<1>8. ASSUME HasLength(type)
      PROVE  /\ size \in Nat
             /\ proto = "Tcp" => 
                             \/ <<type, size>> \in {<<2, 2>>, <<3, 1>>, <<4, 0>>, <<8, 8>>}
                             \/ type = 5 /\ size % 8 = 0
  <2>1. l \in Byte /\ (LengthCounts(type) => l >= 2) /\ l \in Nat
    <3>1. 2 \in 1 .. Len(Rest)
      BY <1>1, <1>4, <1>8
    <3>2. l \in Byte /\ (LengthCounts(type) => ~(l < 2))
      BY <1>1, <1>3, <1>4, <1>8, <3>1
    <3> QED BY <3>2 DEF Byte
  <2> HIDE DEF l
  <2>2. CASE proto = "Ipv4"
    <3>1. LengthCounts(type)
      BY <1>8, <2>2 DEF LengthCounts
    <3> QED BY <2>1, <2>2, <3>1 DEF ValueBytes, l
  <2>3. CASE proto = "Tcp"
    <3>1. type \in {2, 3, 4, 5, 8}
      BY <1>3, <1>7, <1>8, <2>3 DEF Known, HasLength, Byte
    <3>2. CASE type = 5
      <4>1. LengthCounts(type)
        BY <1>8, <3>2 DEF LengthCounts
      <4>2. size = 8 * ((l - 2) \div 8)
        BY <2>3, <3>2 DEF ValueBytes, l
      <4> QED BY <2>1, <3>2, <4>1, <4>2
    <3>3. CASE type # 5
      BY <2>3, <3>1, <3>3 DEF ValueBytes
    <3> QED BY <3>2, <3>3
  <2> QED BY <1>5, <2>2, <2>3 DEF Protocols
<1>9. HasLength(type) => 2 + size <= Len(Rest)
  BY <1>1, <1>4, <1>8
<1> QED BY <1>1, <1>2, <1>3, <1>4, <1>8, <1>9 DEF type

(* The fields of the option that is read.                                  *)
LEMMA ParsedFields ==
    ASSUME TypeOK, ~Refused, ~CutOff
    PROVE  /\ Id(Parsed) = Rest[1] /\ Parsed.type = Split(Rest[1]).type
           /\ IF HasLength(Parsed.type)
              THEN /\ Parsed.length = Rest[2]
                   /\ Len(Parsed.value) = ValueBytes(Parsed.type, Rest[2])
                   /\ 2 + Len(Parsed.value) <= Len(Rest)
                   /\ \A i \in 1 .. Len(Parsed.value) : Parsed.value[i] = Rest[2 + i]
              ELSE Parsed.length = 0 /\ Parsed.value = <<>>
           /\ Parsed \in Buildable(proto)
<1> DEFINE id == Split(Rest[1])
           size == ValueBytes(id.type, Rest[2])
           val == SubSeq(Rest, 3, 2 + size)
<1>0. proto \in Protocols
  BY DEF TypeOK, Protocols
<1>1. /\ Rest \in Seq(Byte) /\ Len(Rest) \in Nat
      /\ \A i \in 1 .. Len(Rest) : Rest[i] \in Byte
  BY RestBytes
<1>2. /\ Len(Rest) > 0 /\ Known(id.type)
      /\ HasLength(id.type) =>
             /\ Len(Rest) > 1 /\ size \in Nat /\ 2 + size <= Len(Rest)
             /\ proto = "Tcp" =>
                    \/ <<id.type, size>> \in {<<2, 2>>, <<3, 1>>, <<4, 0>>, <<8, 8>>}
                    \/ id.type = 5 /\ size % 8 = 0
  BY Readable
<1>3. Rest[1] \in Byte
  BY <1>1, <1>2
<1>4. /\ id.copied \in 0 .. 1 /\ id.class \in 0 .. 3 /\ id.type \in Byte
      /\ proto = "Ipv4" => id.type < 32
      /\ proto = "Tcp" => id.copied = 0 /\ id.class = 0
      /\ Id(id) = Rest[1]
  BY <1>0, <1>3, SplitFields
<1>5. /\ Parsed.copied = id.copied /\ Parsed.class = id.class /\ Parsed.type = id.type
      /\ Parsed.length = IF HasLength(id.type) THEN Rest[2] ELSE 0
      /\ Parsed.value = IF HasLength(id.type) THEN val ELSE <<>>
      /\ Parsed = [copied |-> Parsed.copied, class |-> Parsed.class, type |-> Parsed.type,
                   length |-> Parsed.length, value |-> Parsed.value]
  BY DEF Parsed
<1>6. Id(Parsed) = Rest[1]
  BY <1>4, <1>5 DEF Id
<1> HIDE DEF id
<1>7. ASSUME HasLength(id.type)
      PROVE  /\ val \in Seq(Byte) /\ Len(val) = size
             /\ \A i \in 1 .. size : val[i] = Rest[2 + i]
  <2> HIDE DEF size
  <2>1. size \in Nat /\ 2 + size <= Len(Rest)
    BY <1>2, <1>7
  <2>2. 3 \in Int /\ 2 + size \in Int /\ \A i \in 3 .. 2 + size : Rest[i] \in Byte
    BY <1>1, <2>1
  <2>3. /\ val \in Seq(Byte)
        /\ Len(val) = IF 3 <= 2 + size THEN (2 + size) - 3 + 1 ELSE 0
        /\ \A i \in 1 .. (2 + size) - 3 + 1 : val[i] = Rest[3 + i - 1]
    BY <2>2, SubSeqProperties
  <2>4. \A i \in 1 .. size : i \in 1 .. (2 + size) - 3 + 1 /\ 3 + i - 1 = 2 + i
    BY <2>1
  <2> HIDE DEF val
  <2>5. Len(val) = size
    BY <2>1, <2>3
  <2> QED BY <2>3, <2>4, <2>5
<1> HIDE DEF val, size
<1>8. Parsed.value \in Seq(Byte) /\ Parsed.length \in Byte
  <2>1. HasLength(id.type) => Rest[2] \in Byte
    BY <1>1, <1>2
  <2>2. 0 \in Byte /\ <<>> \in Seq(Byte)
    BY DEF Byte
  <2> QED BY <1>5, <1>7, <2>1, <2>2
<1>9. Parsed \in Option
  BY <1>4, <1>5, <1>8 DEF Option
<1>10. Parsed.type \in {0, 1} <=> ~HasLength(Parsed.type)
  BY <1>4, <1>5, NoLength
<1>11. proto = "Tcp" =>
           \/ <<Parsed.type, Len(Parsed.value)>> \in
                  {<<0, 0>>, <<1, 0>>, <<2, 2>>, <<3, 1>>, <<4, 0>>, <<8, 8>>}
           \/ Parsed.type = 5 /\ Len(Parsed.value) % 8 = 0
  <2>1. CASE HasLength(id.type)
    BY <1>2, <1>5, <1>7, <2>1
  <2>2. CASE ~HasLength(id.type)
    BY <1>5, <1>10, <2>2
  <2> QED BY <2>1, <2>2
<1>12. Parsed \in Buildable(proto)
  <2>1. Parsed.type \in {0, 1} => Parsed.length = 0 /\ Parsed.value = <<>>
    BY <1>5, <1>10
  <2> QED BY <1>4, <1>5, <1>9, <1>11, <2>1 DEF Buildable
<1>13. HasLength(id.type) =>
          /\ Parsed.length = Rest[2] /\ Len(Parsed.value) = size
          /\ 2 + size <= Len(Rest)
          /\ \A i \in 1 .. size : Parsed.value[i] = Rest[2 + i]
  BY <1>2, <1>5, <1>7
<1> QED BY <1>5, <1>6, <1>12, <1>13 DEF id, size

(* It is written as the bytes it was read from.                            *)
LEMMA ParsedBytes ==
    ASSUME TypeOK, ~Refused, ~CutOff
    PROVE  LET n == Len(OptionToBytes(Parsed))
           IN  /\ n \in 1 .. Len(Rest)
               /\ OptionToBytes(Parsed) = SubSeq(input, read + 1, read + n)
<1> DEFINE b == OptionToBytes(Parsed)
           n == Len(b)
           v == Len(Parsed.value)
           c == SubSeq(input, read + 1, read + n)
<1>1. /\ Parsed \in Buildable(proto) /\ proto \in Protocols
      /\ Id(Parsed) = Rest[1]
      /\ IF HasLength(Parsed.type)
              THEN /\ Parsed.length = Rest[2]
                   /\ 2 + v <= Len(Rest)
                   /\ \A i \in 1 .. v : Parsed.value[i] = Rest[2 + i]
              ELSE Parsed.length = 0 /\ Parsed.value = <<>>
  BY ParsedFields DEF TypeOK, Protocols
<1>2. /\ b \in Seq(Byte) /\ n = IF HasLength(Parsed.type) THEN 2 + v ELSE 1
      /\ b[1] = Id(Parsed) /\ v \in Nat
      /\ HasLength(Parsed.type) =>
             /\ b[2] = Parsed.length
             /\ \A i \in 1 .. v : b[2 + i] = Parsed.value[i]
  BY <1>1, OptionBytes, BuildableFields
<1>3. /\ Len(Rest) = Len(input) - read /\ Len(Rest) \in Nat /\ Len(Rest) > 0
      /\ \A i \in 1 .. Len(Rest) : Rest[i] = input[read + i] /\ Rest[i] \in Byte
  BY RestBytes, Readable
<1> HIDE DEF b, v
<1>4. n \in 1 .. Len(Rest)
  BY <1>1, <1>2, <1>3
<1>5. \A i \in 1 .. n : b[i] = Rest[i]
  <2> SUFFICES ASSUME NEW i \in 1 .. n PROVE b[i] = Rest[i]
    OBVIOUS
  <2>1. CASE i = 1
    BY <1>1, <1>2, <2>1
  <2>2. CASE i = 2
    BY <1>1, <1>2, <2>2
  <2>3. CASE i > 2
    <3>1. HasLength(Parsed.type) /\ i - 2 \in 1 .. v /\ 2 + (i - 2) = i
      BY <1>2, <1>4, <2>3
    <3> QED BY <1>1, <1>2, <3>1
  <2> QED BY <1>4, <2>1, <2>2, <2>3
<1>6. read \in Nat /\ Len(input) \in Nat
  BY LenProperties DEF TypeOK
<1>7. read + 1 \in Int /\ read + n \in Int /\ \A i \in read + 1 .. read + n : input[i] \in Byte
  <2> SUFFICES ASSUME NEW i \in read + 1 .. read + n PROVE input[i] \in Byte
    BY <1>4, <1>6
  <2>1. i - read \in 1 .. Len(Rest) /\ read + (i - read) = i
    BY <1>3, <1>4, <1>6
  <2> QED BY <1>3, <2>1
<1>8. /\ c \in Seq(Byte)
      /\ Len(c) = IF read + 1 <= read + n THEN (read + n) - (read + 1) + 1 ELSE 0
      /\ \A i \in 1 .. (read + n) - (read + 1) + 1 : c[i] = input[(read + 1) + i - 1]
  BY <1>7, SubSeqProperties
<1> HIDE DEF c
<1>9. Len(c) = n
  BY <1>4, <1>6, <1>8
<1>10. \A i \in 1 .. n : c[i] = b[i]
  <2> SUFFICES ASSUME NEW i \in 1 .. n PROVE c[i] = b[i]
    OBVIOUS
  <2>1. /\ i \in 1 .. (read + n) - (read + 1) + 1 /\ (read + 1) + i - 1 = read + i
        /\ i \in 1 .. Len(Rest)
    BY <1>4, <1>6
  <2> QED BY <1>3, <1>5, <1>8, <2>1
<1>11. b = c
  BY <1>2, <1>8, <1>9, <1>10, SeqEqual
<1> QED BY <1>4, <1>11 DEF b, c

-----------------------------------------------------------------------------
(* The inductive invariant: what was built can be built, what was read     *)
(* could have been built, and is written as the bytes it was read from.    *)
Inv ==
    /\ TypeOK
    /\ built \in Seq(Buildable(proto))
    /\ options \in Seq(Buildable(proto))
    /\ ToBytes(options) = SubSeq(input, 1, read)
    /\ result = "none" => read = 0 /\ options = <<>>

(* Lists of buildable options are lists of options.                        *)
LEMMA Subtype == Seq(Buildable(proto)) \subseteq Seq(Option)
<1>1. Buildable(proto) \subseteq Option
  BY DEF Buildable
<1> QED BY <1>1, SeqMonotonic

(* An updated option can be built.                                         *)
LEMMA UpdateBuildable ==
    ASSUME NEW p \in Protocols, NEW o \in Buildable(p), NEW n \in Byte, HasLength(o.type)
    PROVE  [o EXCEPT !.length = n] \in Buildable(p)
<1> DEFINE q == [o EXCEPT !.length = n]
<1>1. o \in Option
  BY DEF Buildable
<1>2. q \in Option
  BY <1>1 DEF Option
<1>3. /\ q.copied = o.copied /\ q.class = o.class /\ q.type = o.type
      /\ q.value = o.value /\ q.length = n
  BY <1>1 DEF Option
<1>4. o.type \notin {0, 1}
  BY BuildableFields, NoLength
<1> HIDE DEF q
<1>5. q \in Buildable(p)
  BY <1>2, <1>3, <1>4 DEF Buildable
<1> QED BY <1>5 DEF q

(* What an update changes: one length field.                               *)
LEMMA UpdateEffect ==
    ASSUME Inv, NEW j \in DOMAIN built, Update(j)
    PROVE  /\ built' \in Seq(Buildable(proto)) /\ DOMAIN built' = DOMAIN built
           /\ built'[j].length = NewLength(built'[j])
           /\ \A i \in DOMAIN built \ {j} : built'[i] = built[i]
<1> DEFINE e == [built[j] EXCEPT !.length = NewLength(built[j])]
<1>1. /\ built \in Seq(Buildable(proto)) /\ j \in 1 .. Len(built) /\ proto \in Protocols
      /\ DOMAIN built = 1 .. Len(built)
  BY LenProperties DEF Inv, TypeOK, Protocols
<1>2. built[j] \in Buildable(proto)
  BY <1>1, ElementOfSeq
<1>3. HasLength(built[j].type) /\ NewLength(built[j]) \in Byte /\ built' = [built EXCEPT ![j] = e]
  BY DEF Update, LengthCounts
<1>4. e \in Buildable(proto)
  BY <1>1, <1>2, <1>3, UpdateBuildable
<1>5. built[j] \in Option
  BY <1>2, BuildableFields
<1>6. e.length = NewLength(built[j]) /\ e.value = built[j].value
  BY <1>5 DEF Option
<1> HIDE DEF e
<1>7. /\ built' \in Seq(Buildable(proto)) /\ Len(built') = Len(built)
      /\ \A i \in 1 .. Len(built) : built'[i] = IF i = j THEN e ELSE built[i]
  BY <1>1, <1>3, <1>4, ExceptSeq
<1>8. DOMAIN built' = DOMAIN built
  BY <1>1, <1>7, LenProperties
<1>9. built'[j] = e /\ \A i \in DOMAIN built \ {j} : built'[i] = built[i]
  BY <1>1, <1>7
<1>10. NewLength(built'[j]) = NewLength(built[j])
  BY <1>6, <1>9 DEF NewLength
<1> QED BY <1>6, <1>7, <1>8, <1>9, <1>10

(* The padding of Tcp::finalize can be built.                              *)
LEMMA PaddedType ==
    ASSUME proto \in Protocols, NEW os \in Seq(Buildable(proto))
    PROVE  Padded(os) \in Seq(Buildable(proto))
<1> DEFINE pad == IF proto = "Tcp" THEN (-Len(ToBytes(os))) % 4 ELSE 0
           z == [j \in 1 .. pad |-> EndOfList]
<1>1. Len(ToBytes(os)) \in Nat
  BY ToBytesType, LenProperties
<1>2. pad \in Nat
  BY <1>1
<1>3. EndOfList \in Buildable(proto)
  <2>1. <<>> \in Seq(Byte) /\ Len(<<>>) = 0
    OBVIOUS
  <2>2. EndOfList \in Option
    BY <2>1 DEF EndOfList, Option, Byte
  <2> QED BY <2>1, <2>2 DEF EndOfList, Buildable
<1> HIDE DEF pad
<1>4. z \in Seq(Buildable(proto))
  BY <1>2, <1>3
<1>5. Padded(os) = os \o z
  BY DEF Padded, pad
<1> HIDE DEF z
<1> QED BY <1>4, <1>5, ConcatProperties

(* The bytes of a header a program sends are bytes, and what counts them   *)
(* fits four bits.                                                         *)
LEMMA SendStep ==
    ASSUME Inv, Send
    PROVE  Inv'
<1> DEFINE bytes == ToBytes(Padded(built))
<1>1. /\ proto \in Protocols /\ built \in Seq(Buildable(proto)) /\ options \in Seq(Buildable(proto))
      /\ read = 0 /\ options = <<>>
  BY DEF Inv, TypeOK, Protocols, Send
<1>2. bytes \in Seq(Byte) /\ Len(bytes) \in Nat
  BY <1>1, PaddedType, ToBytesType, LenProperties
<1>3. /\ Len(bytes) <= 40
      /\ count' \in IF proto = "Tcp" THEN {5 + Len(bytes) \div 4} ELSE Counts
      /\ \E p \in Payloads : input' = bytes \o p
      /\ result' = "reading"
      /\ UNCHANGED <<proto, built, updated, read, options>>
  BY DEF Send
<1> HIDE DEF bytes
<1>4. count' \in 0 .. 15
  BY <1>2, <1>3, CountsAssumption
<1>5. input' \in Seq(Byte)
  <2>1. PICK p \in Payloads : input' = bytes \o p
    BY <1>3
  <2>2. p \in Seq(Byte)
    BY BytesAssumption
  <2> QED BY <1>2, <2>1, <2>2, ConcatProperties
<1>6. Len(input') \in Nat
  BY <1>5, LenProperties
<1>7. ToBytes(options)' = SubSeq(input', 1, read')
  <2>1. SubSeq(input', 1, 0) = <<>>
    BY SubSeqEmpty
  <2> QED BY <1>1, <1>3, <2>1, ToBytesEmpty
<1>8. TypeOK'
  BY <1>1, <1>3, <1>4, <1>5, <1>6, Subtype DEF Inv, TypeOK
<1> QED BY <1>1, <1>3, <1>7, <1>8 DEF Inv

(* The bytes of a header that arrives.                                     *)
LEMMA ReceiveStep ==
    ASSUME Inv, Receive
    PROVE  Inv'
<1>1. /\ read = 0 /\ options = <<>>
      /\ input' \in Received /\ count' \in Counts
      /\ result' \in {"error", "reading"}
      /\ UNCHANGED <<proto, built, updated, read, options>>
  BY DEF Receive, Inv
<1>2. input' \in Seq(Byte) /\ count' \in 0 .. 15
  BY <1>1, BytesAssumption, CountsAssumption
<1>3. Len(input') \in Nat
  BY <1>2, LenProperties
<1>4. ToBytes(options)' = SubSeq(input', 1, read')
  <2>1. SubSeq(input', 1, 0) = <<>>
    BY SubSeqEmpty
  <2> QED BY <1>1, <2>1, ToBytesEmpty
<1>5. TypeOK'
  BY <1>1, <1>2, <1>3 DEF Inv, TypeOK
<1> QED BY <1>1, <1>4, <1>5 DEF Inv

(* Reading an option: it takes the bytes that it is written as.            *)
LEMMA ReadOptionEffect ==
    ASSUME ReadOption
    PROVE  /\ result = "reading" /\ ~Reached /\ ~Refused /\ ~CutOff
           /\ options' = Append(options, Parsed)
           /\ read' = read + Len(OptionToBytes(Parsed))
           /\ UNCHANGED <<proto, built, updated, count, input, result>>
  BY Zenon DEF ReadOption, Parsed

(* Reading an option preserves the inductive invariant.                    *)
LEMMA ReadOptionStep ==
    ASSUME Inv, ReadOption
    PROVE  Inv'
<1> DEFINE n == Len(OptionToBytes(Parsed))
<1>1. /\ result = "reading" /\ ~Refused /\ ~CutOff
      /\ options' = Append(options, Parsed) /\ read' = read + n
      /\ UNCHANGED <<proto, built, updated, count, input, result>>
  BY ReadOptionEffect
<1>2. TypeOK /\ proto \in Protocols
  BY DEF Inv, TypeOK, Protocols
<1>3. Parsed \in Buildable(proto)
  BY <1>1, <1>2, ParsedFields
<1>4. /\ n \in 1 .. Len(Rest)
      /\ OptionToBytes(Parsed) = SubSeq(input, read + 1, read + n)
  BY <1>1, <1>2, ParsedBytes
<1>5. options \in Seq(Buildable(proto)) /\ options' \in Seq(Buildable(proto))
  BY <1>1, <1>3, AppendProperties DEF Inv
<1>6. /\ read \in Nat /\ read <= Len(input) /\ Len(input) \in Nat /\ input \in Seq(Byte)
      /\ Len(Rest) = Len(input) - read
  BY <1>2, RestBytes, LenProperties DEF TypeOK
<1> HIDE DEF n
<1>7. read' \in 0 .. Len(input)
  BY <1>1, <1>4, <1>6
<1>8. ToBytes(options)' = SubSeq(input', 1, read')
  <2>1. ToBytes(Append(options, Parsed)) = ToBytes(options) \o OptionToBytes(Parsed)
    BY <1>2, <1>3, <1>5, ToBytesAppend
  <2>2. ToBytes(options) = SubSeq(input, 1, read)
    BY DEF Inv
  <2>3. 1 \in 1 .. Len(input) + 1 /\ read \in 1 - 1 .. Len(input) /\ read + n \in read .. Len(input)
    BY <1>4, <1>6
  <2>4. SubSeq(input, 1, read) \o SubSeq(input, read + 1, read + n) = SubSeq(input, 1, read + n)
    BY <1>6, <2>3, ConcatAdjacentSubSeq
  <2> QED BY <1>1, <1>4, <2>1, <2>2, <2>4
<1>9. options' \in Seq(Option)
  BY <1>5, Subtype
<1>10. TypeOK'
  BY <1>1, <1>2, <1>7, <1>9 DEF TypeOK
<1> QED BY <1>1, <1>5, <1>8, <1>10 DEF Inv

(* The invariant holds in every reachable state.                           *)
LEMMA Invariance == Spec => []Inv
<1>1. Init => Inv
  <2> SUFFICES ASSUME Init PROVE Inv
    OBVIOUS
  <2>1. SubSeq(<<>>, 1, 0) = <<>>
    BY SubSeqEmpty
  <2>2. <<>> \in Seq(Byte) /\ <<>> \in Seq(Option) /\ <<>> \in Seq(Buildable(proto)) /\ Len(<<>>) = 0
    BY EmptySeq
  <2>3. TypeOK
    BY <2>2 DEF Init, TypeOK
  <2> QED BY <2>1, <2>2, <2>3, ToBytesEmpty DEF Init, Inv
<1>2. Inv /\ [Next]_vars => Inv'
  <2> SUFFICES ASSUME Inv, [Next]_vars PROVE Inv'
    OBVIOUS
  <2>1. CASE Build
    <3>1. /\ built' \in Built[proto] /\ built = <<>>
          /\ UNCHANGED <<proto, updated, count, input, read, options, result>>
      BY <2>1 DEF Build
    <3>2. built' \in Seq(Buildable(proto)) /\ built' \in Seq(Option)
      BY <3>1, BuiltAssumption, Subtype DEF Inv, TypeOK
    <3>3. updated = {}
      BY <3>1 DEF Inv, TypeOK
    <3>4. TypeOK'
      BY <3>1, <3>2, <3>3 DEF Inv, TypeOK
    <3> QED BY <3>1, <3>2, <3>4 DEF Inv
  <2>2. CASE Send
    BY <2>2, SendStep
  <2>3. CASE Receive
    BY <2>3, ReceiveStep
  <2>4. CASE Finish
    BY <2>4 DEF Finish, Return, Inv, TypeOK
  <2>5. CASE ReadFails
    BY <2>5 DEF ReadFails, Return, Inv, TypeOK
  <2>6. CASE ReadOption
    BY <2>6, ReadOptionStep
  <2>7. ASSUME NEW j \in DOMAIN built, Update(j) PROVE Inv'
    <3>1. /\ updated' = updated \cup {j}
          /\ UNCHANGED <<proto, count, input, read, options, result>>
      BY <2>7 DEF Update
    <3>2. built' \in Seq(Buildable(proto)) /\ DOMAIN built' = DOMAIN built
      BY <2>7, UpdateEffect
    <3>3. built' \in Seq(Option)
      BY <3>2, Subtype
    <3>4. TypeOK'
      BY <3>1, <3>2, <3>3 DEF Inv, TypeOK
    <3> QED BY <3>1, <3>2, <3>4 DEF Inv
  <2>8. CASE UNCHANGED vars
    BY <2>8 DEF vars, Inv, TypeOK
  <2> QED BY <2>1, <2>2, <2>3, <2>4, <2>5, <2>6, <2>7, <2>8 DEF Next, ReadStep
<1> QED BY <1>1, <1>2, PTL DEF Spec

(* Every variable has its type, and what was read never reaches beyond the *)
(* input, whatever lengths the options of a header claim.                  *)
THEOREM TypeCorrect == Spec => []TypeOK
<1>1. Inv => TypeOK
  BY DEF Inv
<1> QED BY <1>1, Invariance, PTL

(* A header that parses holds exactly the bytes it counts, and to_bytes    *)
(* gives them back.                                                        *)
THEOREM HeaderExactHolds == Spec => []HeaderExact
<1> DEFINE J == result = "ok" => read = Limit
<1>1. Init => J
  BY DEF Init
<1>2. J /\ [Next]_vars => J'
  <2> SUFFICES ASSUME J, [Next]_vars PROVE J'
    OBVIOUS
  <2>1. CASE Build
    BY <2>1 DEF Build, Limit
  <2>2. CASE Send
    BY <2>2 DEF Send
  <2>3. CASE Receive
    BY <2>3 DEF Receive
  <2>4. CASE Finish
    BY <2>4 DEF Finish, Return, Reached, Limit
  <2>5. CASE ReadFails
    BY <2>5 DEF ReadFails, Return
  <2>6. CASE ReadOption
    BY <2>6 DEF ReadOption
  <2>7. ASSUME NEW j \in DOMAIN built, Update(j) PROVE J'
    BY <2>7 DEF Update
  <2>8. CASE UNCHANGED vars
    BY <2>8 DEF vars, Limit
  <2> QED BY <2>1, <2>2, <2>3, <2>4, <2>5, <2>6, <2>7, <2>8 DEF Next, ReadStep
<1>3. Inv /\ J => HeaderExact
  BY DEF Inv, HeaderExact
<1> QED BY <1>1, <1>2, <1>3, Invariance, PTL DEF Spec

-----------------------------------------------------------------------------
(* Options that a program builds come back.                                *)

(* The first members of a list, one more at a time.                        *)
LEMMA PrefixAppend ==
    ASSUME NEW S, NEW s \in Seq(S), NEW n \in Nat, n + 1 <= Len(s)
    PROVE  /\ SubSeq(s, 1, n) \in Seq(S) /\ Len(SubSeq(s, 1, n)) = n
           /\ SubSeq(s, 1, n + 1) = Append(SubSeq(s, 1, n), s[n + 1])
<1>1. Len(s) \in Nat
  BY LenProperties
<1>2. \A i \in 1 .. n : s[i] \in S
  BY <1>1, ElementOfSeq
<1>3. s[n + 1] \in S /\ 1 \in Int /\ n \in Int
  BY <1>1, ElementOfSeq
<1>4. SubSeq(s, 1, n) \in Seq(S) /\ Len(SubSeq(s, 1, n)) = IF 1 <= n THEN n - 1 + 1 ELSE 0
  BY <1>2, <1>3, SubSeqProperties
<1>5. 1 \in 1 .. Len(s) /\ n + 1 \in 1 .. Len(s) /\ (n + 1) - 1 = n
  BY <1>1
<1>6. SubSeq(s, 1, n + 1) = SubSeq(s, 1, n) \o <<s[n + 1]>>
  BY <1>5, SubSeqRecursiveSecond
<1>7. Append(SubSeq(s, 1, n), s[n + 1]) = SubSeq(s, 1, n) \o <<s[n + 1]>>
  BY <1>3, <1>4, AppendIsConcat
<1> QED BY <1>4, <1>6, <1>7

(* Concatenation of bytes is associative.                                  *)
LEMMA Regroup ==
    ASSUME NEW a \in Seq(Byte), NEW b \in Seq(Byte), NEW c \in Seq(Byte)
    PROVE  (a \o b) \o c = a \o (b \o c)
  BY ConcatAssociative

(* The bytes of a list go on with those of any option behind the bytes of  *)
(* the options in front of it.                                             *)
LEMMA PrefixBytes ==
    ASSUME NEW p \in Protocols, NEW os \in Seq(Buildable(p)), NEW n \in Nat, n + 1 <= Len(os)
    PROVE  \E r \in Seq(Byte) :
               ToBytes(os) = (ToBytes(SubSeq(os, 1, n)) \o OptionToBytes(os[n + 1])) \o r
<1> DEFINE head == ToBytes(SubSeq(os, 1, n)) \o OptionToBytes(os[n + 1])
           P(k) == n + 1 + k <= Len(os) =>
                       \E r \in Seq(Byte) : ToBytes(SubSeq(os, 1, n + 1 + k)) = head \o r
           K == {k \in Nat : P(k)}
<1>0. Len(os) \in Nat
  BY LenProperties
<1>1. ASSUME NEW m \in Nat, m + 1 <= Len(os)
      PROVE  /\ SubSeq(os, 1, m) \in Seq(Buildable(p)) /\ os[m + 1] \in Buildable(p)
             /\ ToBytes(SubSeq(os, 1, m + 1)) = ToBytes(SubSeq(os, 1, m)) \o OptionToBytes(os[m + 1])
             /\ ToBytes(SubSeq(os, 1, m)) \in Seq(Byte) /\ OptionToBytes(os[m + 1]) \in Seq(Byte)
  <2>1. m + 1 \in 1 .. Len(os)
    BY <1>0, <1>1
  <2>2. os[m + 1] \in Buildable(p)
    BY <2>1, ElementOfSeq
  <2>3. /\ SubSeq(os, 1, m) \in Seq(Buildable(p))
        /\ SubSeq(os, 1, m + 1) = Append(SubSeq(os, 1, m), os[m + 1])
    BY <1>1, PrefixAppend
  <2> QED BY <2>2, <2>3, ToBytesAppend, ToBytesType, OptionBytes
<1>2. head \in Seq(Byte)
  BY <1>1, ConcatProperties
<1>3. 0 \in K
  <2>1. ToBytes(SubSeq(os, 1, n + 1)) = head
    BY <1>1
  <2>2. <<>> \in Seq(Byte) /\ head \o <<>> = head /\ n + 1 + 0 = n + 1
    BY <1>2, EmptySeq, ConcatEmptySeq
  <2> HIDE DEF head
  <2> QED BY <2>1, <2>2
<1> HIDE DEF head
<1>4. ASSUME NEW k \in Nat, P(k), n + 1 + (k + 1) <= Len(os)
      PROVE  \E r \in Seq(Byte) : ToBytes(SubSeq(os, 1, n + 1 + (k + 1))) = head \o r
  <2> DEFINE m == n + 1 + k
  <2>1. m \in Nat /\ m + 1 <= Len(os) /\ m + 1 = n + 1 + (k + 1) /\ m <= Len(os)
    BY <1>0, <1>4
  <2>2. PICK r \in Seq(Byte) : ToBytes(SubSeq(os, 1, m)) = head \o r
    BY <1>4, <2>1
  <2> DEFINE b == OptionToBytes(os[m + 1])
  <2> HIDE DEF m
  <2>3. ToBytes(SubSeq(os, 1, m + 1)) = ToBytes(SubSeq(os, 1, m)) \o b /\ b \in Seq(Byte)
    BY <1>1, <2>1
  <2> HIDE DEF b
  <2>4. (head \o r) \o b = head \o (r \o b)
    BY <1>2, <2>3, Regroup
  <2>5. r \o b \in Seq(Byte)
    BY <2>3, ConcatProperties, Zenon
  <2>6. ToBytes(SubSeq(os, 1, m + 1)) = head \o (r \o b)
    BY <2>2, <2>3, <2>4
  <2> QED BY <2>1, <2>5, <2>6, Zenon
<1>5. Nat \subseteq K
  <2>1. \A k \in Nat : P(k) => P(k + 1)
    BY <1>4
  <2> HIDE DEF P
  <2>2. \A k \in Nat : k \in K => k + 1 \in K
    BY <2>1
  <2> HIDE DEF K
  <2> QED BY <1>3, <2>2, NatSetInduction
<1> HIDE DEF K
<1> DEFINE k == Len(os) - (n + 1)
<1>6. k \in Nat /\ n + 1 + k = Len(os)
  BY <1>0
<1>7. k \in K
  BY <1>5, <1>6
<1>8. SubSeq(os, 1, Len(os)) = os
  BY SubSeqFull
<1> HIDE DEF k
<1>9. \E r \in Seq(Byte) : ToBytes(os) = head \o r
  <2>1. P(k)
    BY <1>7 DEF K
  <2>2. n + 1 + k <= Len(os)
    BY <1>0, <1>6
  <2>3. \E r \in Seq(Byte) : ToBytes(SubSeq(os, 1, n + 1 + k)) = head \o r
    BY <2>1, <2>2, Zenon
  <2> QED BY <1>6, <1>8, <2>3, Zenon
<1> QED BY <1>9 DEF head

(* A byte is a number.                                                     *)
LEMMA ByteNat == \A b \in Byte : b \in Nat
  BY DEF Byte

(* What a length field that is right says of the size of a value.          *)
LEMMA LengthGap ==
    ASSUME NEW l \in Nat, NEW v \in Nat, l - 2 - v \in 0 .. 7
    PROVE  /\ ~(l < 2)
           /\ l - 2 - v = 0 => l - 2 = v
           /\ v % 8 = 0 => 8 * ((l - 2) \div 8) = v
<1>1. l >= 2 /\ l - 2 \in Nat /\ v <= l - 2 /\ l - 2 <= v + 7
  OBVIOUS
<1>2. ASSUME v % 8 = 0 PROVE 8 * ((l - 2) \div 8) = v
  <2>1. PICK k \in Nat : v = 8 * k
    <3>1. v = 8 * (v \div 8) /\ v \div 8 \in Nat
      BY <1>2
    <3> QED BY <3>1
  <2>2. (l - 2) \div 8 = k
    BY <1>1, <2>1
  <2> QED BY <2>1, <2>2
<1> QED BY <1>1, <1>2

(* The parser reads an option back from its bytes, whatever follows them,  *)
(* when its length field is right.                                         *)
LEMMA ReadBack ==
    ASSUME TypeOK, NEW o \in Buildable(proto), LengthRight(o),
           NEW q \in Seq(Byte), Rest = OptionToBytes(o) \o q
    PROVE  ~Refused /\ ~CutOff /\ Parsed = o
<1> DEFINE b == OptionToBytes(o)
           v == o.value
<1>0. proto \in Protocols
  BY DEF TypeOK, Protocols
<1>1. /\ o \in Option /\ o.type \in Byte /\ o.length \in Byte /\ v \in Seq(Byte) /\ Len(v) \in Nat
  BY BuildableFields
<1>2. /\ b \in Seq(Byte) /\ Len(b) = IF HasLength(o.type) THEN 2 + Len(v) ELSE 1
      /\ b[1] = Id(o)
      /\ HasLength(o.type) =>
             b[2] = o.length /\ \A i \in 1 .. Len(v) : b[2 + i] = v[i]
  BY <1>0, OptionBytes
<1> HIDE DEF b
<1>3. /\ Rest \in Seq(Byte) /\ Len(Rest) = Len(b) + Len(q) /\ Len(q) \in Nat
      /\ \A i \in 1 .. Len(b) : Rest[i] = b[i]
  <2>1. /\ b \o q \in Seq(Byte) /\ Len(b \o q) = Len(b) + Len(q)
        /\ \A i \in 1 .. Len(b) + Len(q) :
               (b \o q)[i] = IF i <= Len(b) THEN b[i] ELSE q[i - Len(b)]
    BY <1>2, ConcatProperties
  <2>2. Len(b) \in Nat /\ Len(q) \in Nat
    BY <1>2, LenProperties
  <2>3. Rest = b \o q
    BY DEF b
  <2> QED BY <2>1, <2>2, <2>3
<1>4. Rest[1] = Id(o) /\ Len(Rest) > 0 /\ Rest # <<>>
  BY <1>1, <1>2, <1>3
<1>5. HasLength(o.type) =>
          /\ Rest[2] = o.length /\ Len(Rest) > 1 /\ 2 + Len(v) <= Len(Rest)
          /\ \A i \in 1 .. Len(v) : Rest[2 + i] = v[i]
  BY <1>1, <1>2, <1>3
<1>6. Split(Rest[1]).type = o.type /\ Split(Rest[1]).class = o.class /\ Split(Rest[1]).copied = o.copied
  BY <1>0, <1>4, SplitId
<1>7. Known(o.type)
  BY <1>0 DEF Known, Buildable, Protocols
<1>7a. o.length \in Nat /\ Len(v) \in Nat
  BY <1>1, ByteNat
<1>8. ASSUME HasLength(o.type)
      PROVE  ValueBytes(o.type, o.length) = Len(v)
  <2>1. CASE proto = "Ipv4"
    <3>1. o.length - 2 - Len(v) = 0
      BY <1>8, <2>1 DEF LengthCounts, LengthRight
    <3>2. ValueBytes(o.type, o.length) = o.length - 2
      BY <2>1 DEF ValueBytes
    <3> QED BY <1>7a, <3>1, <3>2, LengthGap
  <2>2. CASE proto = "Tcp" /\ o.type = 5
    <3>1. o.length - 2 - Len(v) \in 0 .. 7
      BY <1>8, <2>2 DEF LengthCounts, LengthRight
    <3>2. Len(v) % 8 = 0
      <4>1. \/ <<o.type, Len(v)>> \in {<<0, 0>>, <<1, 0>>, <<2, 2>>, <<3, 1>>, <<4, 0>>, <<8, 8>>}
            \/ o.type = 5 /\ Len(v) % 8 = 0
        BY <2>2 DEF Buildable
      <4>2. <<o.type, Len(v)>> \notin {<<0, 0>>, <<1, 0>>, <<2, 2>>, <<3, 1>>, <<4, 0>>, <<8, 8>>}
        BY <2>2
      <4> QED BY <4>1, <4>2, Zenon
    <3>3. ValueBytes(o.type, o.length) = 8 * ((o.length - 2) \div 8)
      BY <2>2 DEF ValueBytes
    <3> QED BY <1>7a, <3>1, <3>2, <3>3, LengthGap
  <2>3. CASE proto = "Tcp" /\ o.type # 5
    <3>1. <<o.type, Len(v)>> \in {<<0, 0>>, <<1, 0>>, <<2, 2>>, <<3, 1>>, <<4, 0>>, <<8, 8>>}
      BY <2>3 DEF Buildable
    <3>2. o.type > 1
      BY <1>8 DEF HasLength
    <3>3. <<o.type, Len(v)>> \in {<<2, 2>>, <<3, 1>>, <<4, 0>>, <<8, 8>>}
      BY <3>1, <3>2
    <3>4. /\ o.type = 2 => ValueBytes(o.type, o.length) = 2
          /\ o.type = 3 => ValueBytes(o.type, o.length) = 1
          /\ o.type = 4 => ValueBytes(o.type, o.length) = 0
          /\ o.type = 8 => ValueBytes(o.type, o.length) = 8
      BY <2>3 DEF ValueBytes
    <3> QED BY <3>3, <3>4
  <2> QED BY <1>0, <2>1, <2>2, <2>3 DEF Protocols
<1>9. ~Refused
  <2>1. ASSUME LengthCounts(o.type) PROVE ~(Rest[2] < 2)
    <3>1. HasLength(o.type) /\ o.length - 2 - Len(v) \in 0 .. 7
      BY <2>1 DEF LengthCounts, LengthRight
    <3>2. ~(o.length < 2)
      BY <1>7a, <3>1, LengthGap
    <3> QED BY <1>5, <3>1, <3>2
  <2> QED BY <1>6, <1>7, <2>1 DEF Refused
<1>10. ~CutOff
  <2>1. HasLength(o.type) => Len(Rest) > 1 /\ ~(Len(Rest) < 2 + ValueBytes(o.type, Rest[2]))
    BY <1>1, <1>3, <1>5, <1>8
  <2> QED BY <1>4, <1>6, <2>1 DEF CutOff
<1>11. Parsed.length = o.length /\ Parsed.value = v
  <2>1. CASE HasLength(o.type)
    <3>1. /\ Parsed.length = o.length /\ Len(Parsed.value) = Len(v)
          /\ \A i \in 1 .. Len(v) : Parsed.value[i] = v[i]
          /\ Parsed \in Buildable(proto)
      <4>1. Parsed.type = o.type
        BY <1>6, <1>9, <1>10, ParsedFields
      <4>2. /\ Parsed.length = Rest[2]
            /\ Len(Parsed.value) = ValueBytes(o.type, Rest[2])
            /\ \A i \in 1 .. Len(Parsed.value) : Parsed.value[i] = Rest[2 + i]
            /\ Parsed \in Buildable(proto)
        BY <1>9, <1>10, <2>1, <4>1, ParsedFields
      <4>3. Len(Parsed.value) = Len(v)
        BY <1>5, <1>8, <2>1, <4>2
      <4>4. Parsed.length = o.length
        BY <1>5, <2>1, <4>2
      <4> HIDE DEF v
      <4> QED BY <1>5, <2>1, <4>2, <4>3, <4>4
    <3>2. Parsed.value \in Seq(Byte)
      BY <3>1, BuildableFields
    <3> QED BY <1>1, <3>1, <3>2, SeqEqual
  <2>2. CASE ~HasLength(o.type)
    <3>1. o.length = 0 /\ v = <<>>
      BY <1>1, <2>2, NoLength DEF Buildable
    <3> QED BY <1>6, <1>9, <1>10, <2>2, <3>1, ParsedFields
  <2> QED BY <2>1, <2>2
<1>12. /\ Parsed.type = o.type /\ Parsed.class = o.class /\ Parsed.copied = o.copied
       /\ Parsed = [copied |-> Parsed.copied, class |-> Parsed.class, type |-> Parsed.type,
                    length |-> Parsed.length, value |-> Parsed.value]
  BY <1>6 DEF Parsed
<1>13. o = [copied |-> o.copied, class |-> o.class, type |-> o.type,
            length |-> o.length, value |-> o.value]
  BY <1>1 DEF Option
<1> QED BY <1>9, <1>10, <1>11, <1>12, <1>13

(* The length field of an option that was read is right.                   *)
LEMMA ParsedRight ==
    ASSUME TypeOK, ~Refused, ~CutOff
    PROVE  LengthRight(Parsed)
<1> DEFINE o == Parsed
           l == o.length
           v == Len(o.value)
<1>0. proto \in Protocols
  BY DEF TypeOK, Protocols
<1>1. o.type = Split(Rest[1]).type /\ o \in Buildable(proto)
  BY ParsedFields
<1>2. HasLength(o.type) => l = Rest[2] /\ v = ValueBytes(o.type, l) /\ Len(Rest) > 1
  BY <1>1, ParsedFields, Readable
<1>3. LengthCounts(o.type) => ~(l < 2)
  <2>1. Rest # <<>>
    BY DEF CutOff
  <2>2. LengthCounts(o.type) /\ Len(Rest) > 1 => ~(Rest[2] < 2)
    BY <1>1, <2>1 DEF Refused
  <2> HIDE DEF o
  <2> QED BY <1>2, <2>2 DEF LengthCounts
<1>4. l \in Nat /\ v \in Nat
  <2>1. o.length \in Byte /\ Len(o.value) \in Nat
    <3> HIDE DEF o
    <3> QED BY <1>1, BuildableFields
  <2> QED BY <2>1, ByteNat
<1> HIDE DEF o, l, v
<1>5. CASE proto = "Tcp"
  <2>1. ASSUME LengthCounts(o.type) PROVE l - 2 - v \in 0 .. 7
    <3>1. HasLength(o.type) /\ o.type = 5
      BY <1>5, <2>1 DEF LengthCounts
    <3>2. v = 8 * ((l - 2) \div 8)
      BY <1>2, <1>5, <3>1 DEF ValueBytes
    <3> QED BY <1>3, <1>4, <2>1, <3>2
  <2> QED BY <1>5, <2>1 DEF LengthRight, o, l, v
<1>6. CASE proto = "Ipv4"
  <2>1. ASSUME LengthCounts(o.type) PROVE l - 2 - v \in {0}
    <3>1. HasLength(o.type)
      BY <2>1 DEF LengthCounts
    <3>2. v = l - 2
      BY <1>2, <1>6, <3>1 DEF ValueBytes
    <3> QED BY <1>4, <3>2
  <2> QED BY <1>6, <2>1 DEF LengthRight, o, l, v
<1> QED BY <1>0, <1>5, <1>6 DEF Protocols

(* The header counts all options, and every length field that the parser   *)
(* looks at is right.                                                      *)
Counted ==
    /\ \A j \in DOMAIN built : LengthRight(built[j])
    /\ 4 * (count - 5) = Len(ToBytes(Padded(built)))

(* As long as such options are read, those read so far are the first ones. *)
Came ==
    /\ result \in {"reading", "ok"}
    /\ Len(options) <= Len(Padded(built))
    /\ options = SubSeq(Padded(built), 1, Len(options))
    /\ result = "ok" => read = Limit

UInv ==
    /\ \A j \in updated : built[j].length = NewLength(built[j])
    /\ \A j \in 1 .. Len(options) : LengthRight(options[j])
    /\ result # "none" /\ built # <<>> =>
           /\ \E q \in Seq(Byte) : input = ToBytes(Padded(built)) \o q
           /\ Counted => Came

(* Padding appends list ends to the options and leaves them in place.      *)
LEMMA PaddedIs ==
    ASSUME Inv
    PROVE  /\ DOMAIN built = 1 .. Len(built) /\ Len(built) \in Nat
           /\ Len(Padded(built)) \in Nat /\ Len(built) <= Len(Padded(built))
           /\ \A j \in 1 .. Len(Padded(built)) :
                  Padded(built)[j] = IF j <= Len(built) THEN built[j] ELSE EndOfList
<1> DEFINE pad == IF proto = "Tcp" THEN (-Len(ToBytes(built))) % 4 ELSE 0
           z == [i \in 1 .. pad |-> EndOfList]
<1>1. built \in Seq(Buildable(proto)) /\ proto \in Protocols /\ Len(built) \in Nat
      /\ DOMAIN built = 1 .. Len(built)
  BY LenProperties DEF Inv, TypeOK, Protocols
<1>2. Len(ToBytes(built)) \in Nat
  BY <1>1, ToBytesType, LenProperties
<1>3. pad \in Nat
  BY <1>2
<1>4. Padded(built) = built \o z
  BY DEF Padded
<1> HIDE DEF pad
<1>5. z \in Seq({EndOfList}) /\ Len(z) = pad
  BY <1>3
<1>6. /\ Len(built \o z) = Len(built) + pad
      /\ \A i \in 1 .. Len(built) + pad :
             (built \o z)[i] = IF i <= Len(built) THEN built[i] ELSE z[i - Len(built)]
  <2> DEFINE S == Buildable(proto) \cup {EndOfList}
  <2>1. built \in Seq(S) /\ z \in Seq(S)
    <3>1. Buildable(proto) \subseteq S /\ {EndOfList} \subseteq S
      OBVIOUS
    <3> HIDE DEF S, z
    <3> QED BY <1>1, <1>5, <3>1, SeqMonotonic
  <2> HIDE DEF S, z
  <2> QED BY <1>5, <2>1, ConcatProperties
<1>7. ASSUME NEW j \in 1 .. Len(Padded(built)), ~(j <= Len(built))
      PROVE  Padded(built)[j] = EndOfList
  <2>1. j - Len(built) \in 1 .. pad
    BY <1>1, <1>3, <1>4, <1>6, <1>7
  <2> QED BY <1>1, <1>3, <1>4, <1>6, <1>7, <2>1
<1>8. Len(Padded(built)) = Len(built) + pad
  BY <1>4, <1>6
<1> HIDE DEF z
<1>9. \A j \in 1 .. Len(Padded(built)) : j <= Len(built) => Padded(built)[j] = built[j]
  BY <1>4, <1>6
<1> QED BY <1>1, <1>3, <1>7, <1>8, <1>9

(* The length fields of such a list stay right when it is padded.          *)
LEMMA PaddedLengths ==
    ASSUME Inv, Counted, NEW j \in 1 .. Len(Padded(built))
    PROVE  LengthRight(Padded(built)[j])
<1>1. CASE j <= Len(built)
  <2>1. j \in DOMAIN built /\ Padded(built)[j] = built[j]
    BY <1>1, PaddedIs
  <2> QED BY <2>1 DEF Counted
<1>2. CASE ~(j <= Len(built))
  <2>1. Padded(built)[j] = EndOfList
    BY <1>2, PaddedIs
  <2> QED BY <2>1 DEF LengthRight, LengthCounts, HasLength, EndOfList
<1> QED BY <1>1, <1>2

(* Reading what a program sent: either all options were read and the limit *)
(* is reached, or the next one is read back.                               *)
LEMMA ComesNext ==
    ASSUME Inv, UInv, Counted, result # "none", built # <<>>
    PROVE  LET P == Padded(built)
               n == Len(options)
           IN  \/ Reached /\ n = Len(P) /\ options = P
               \/ /\ ~Reached /\ n + 1 <= Len(P) /\ ~Refused /\ ~CutOff
                  /\ Parsed = P[n + 1]
<1> DEFINE P == Padded(built)
           n == Len(options)
           B == ToBytes(P)
<1>1. TypeOK /\ proto \in Protocols /\ P \in Seq(Buildable(proto)) /\ options \in Seq(Buildable(proto))
  BY PaddedType DEF Inv, TypeOK, Protocols
<1>2. B \in Seq(Byte) /\ Len(B) \in Nat /\ n \in Nat /\ Len(P) \in Nat
  BY <1>1, ToBytesType, LenProperties
<1>3. n <= Len(P) /\ options = SubSeq(P, 1, n)
  BY DEF UInv, Came
<1>4. PICK q \in Seq(Byte) : input = B \o q
  BY DEF UInv
<1>5. Limit = Len(B)
  <2>1. count \in Nat /\ 4 * (count - 5) = Len(B)
    BY <1>1 DEF Counted, TypeOK
  <2> HIDE DEF B
  <2> QED BY <1>2, <2>1 DEF Limit
<1>6. /\ input \in Seq(Byte) /\ Len(input) \in Nat /\ read \in Nat /\ read <= Len(input)
  BY <1>1, LenProperties DEF TypeOK
<1>7. Len(ToBytes(options)) = read
  <2>1. ToBytes(options) = SubSeq(input, 1, read)
    BY DEF Inv
  <2>2. 1 \in Int /\ read \in Int /\ \A i \in 1 .. read : input[i] \in Byte
    BY <1>6, ElementOfSeq
  <2>3. Len(SubSeq(input, 1, read)) = IF 1 <= read THEN read - 1 + 1 ELSE 0
    BY <2>2, SubSeqProperties
  <2> QED BY <1>6, <2>1, <2>3
<1>8. CASE n = Len(P)
  <2>1. options = P
    BY <1>1, <1>3, <1>8, SubSeqFull
  <2> QED BY <1>5, <1>7, <1>8, <2>1 DEF Reached
<1>9. CASE n # Len(P)
  <2>1. n + 1 <= Len(P) /\ n + 1 \in 1 .. Len(P)
    BY <1>2, <1>3, <1>9
  <2> DEFINE o == P[n + 1]
             b == OptionToBytes(o)
             h == ToBytes(options)
  <2>2. o \in Buildable(proto)
    BY <1>1, <2>1, ElementOfSeq
  <2>3. b \in Seq(Byte) /\ Len(b) \in Nat /\ Len(b) > 0
    <3>1. /\ b \in Seq(Byte)
          /\ Len(b) = IF HasLength(o.type) THEN 2 + Len(o.value) ELSE 1
          /\ Len(o.value) \in Nat
      BY <1>1, <2>2, OptionBytes, BuildableFields
    <3> HIDE DEF b, o
    <3> QED BY <3>1
  <2>4. PICK r \in Seq(Byte) : B = (h \o b) \o r
    BY <1>1, <1>2, <1>3, <2>1, PrefixBytes
  <2>5. h \in Seq(Byte) /\ Len(r) \in Nat
    BY <1>1, ToBytesType, LenProperties
  <2>6. LengthRight(o)
    BY <2>1, PaddedLengths
  <2> HIDE DEF b, h, o, B
  <2>7. h \o b \in Seq(Byte) /\ Len(h \o b) = Len(h) + Len(b)
    BY <2>3, <2>5, ConcatProperties
  <2>8. Len(B) = Len(h) + Len(b) + Len(r)
    BY <2>4, <2>7, ConcatProperties
  <2>9. ~Reached
    BY <1>2, <1>5, <1>6, <1>7, <2>3, <2>5, <2>8 DEF Reached, h
  <2>10. r \o q \in Seq(Byte) /\ b \o (r \o q) \in Seq(Byte)
    BY <2>3, ConcatProperties
  <2>11. input = h \o (b \o (r \o q))
    <3>1. input = ((h \o b) \o r) \o q
      BY <1>4, <2>4
    <3>2. ((h \o b) \o r) \o q = (h \o b) \o (r \o q)
      BY <2>7, Regroup
    <3>3. (h \o b) \o (r \o q) = h \o (b \o (r \o q))
      BY <2>3, <2>5, <2>10, Regroup
    <3> QED BY <3>1, <3>2, <3>3
  <2>12. Rest = b \o (r \o q)
    <3> DEFINE t == b \o (r \o q)
    <3>1. /\ Rest \in Seq(Byte) /\ Len(Rest) = Len(input) - read
          /\ \A i \in 1 .. Len(Rest) : Rest[i] = input[read + i]
      BY <1>1, RestBytes
    <3>2. t \in Seq(Byte) /\ Len(t) \in Nat /\ input = h \o t /\ Len(h) = read
      BY <1>7, <2>10, <2>11, LenProperties DEF h
    <3> HIDE DEF t
    <3>3. /\ Len(input) = Len(h) + Len(t)
          /\ \A i \in 1 .. Len(h) + Len(t) :
                 input[i] = IF i <= Len(h) THEN h[i] ELSE t[i - Len(h)]
      BY <2>5, <3>2, ConcatProperties
    <3>4. Len(Rest) = Len(t)
      BY <1>6, <3>1, <3>2, <3>3
    <3>5. \A i \in 1 .. Len(Rest) : Rest[i] = t[i]
      <4> SUFFICES ASSUME NEW i \in 1 .. Len(Rest) PROVE Rest[i] = t[i]
        OBVIOUS
      <4>1. read + i \in 1 .. Len(h) + Len(t) /\ ~(read + i <= Len(h)) /\ (read + i) - Len(h) = i
        BY <1>6, <3>2, <3>4
      <4> QED BY <3>1, <3>3, <4>1
    <3>6. Rest = t
      BY <3>1, <3>2, <3>4, <3>5, SeqEqual
    <3> QED BY <3>6 DEF t
  <2>13. ~Refused /\ ~CutOff /\ Parsed = o
    BY <1>1, <2>2, <2>6, <2>10, <2>12, ReadBack DEF b
  <2> QED BY <2>1, <2>9, <2>13 DEF o
<1> QED BY <1>8, <1>9

(* What the property of the list to be sent depends on.                    *)
LEMMA CountedSame ==
    ASSUME UNCHANGED <<proto, built, updated, count>>
    PROVE  /\ Counted' <=> Counted
           /\ Padded(built)' = Padded(built)
           /\ Limit' = Limit
           /\ \A o : LengthRight(o)' <=> LengthRight(o)
  BY DEF Counted, LengthRight, LengthCounts, Padded, Limit

(* The invariant that says so.                                             *)
LEMMA UpdatedInvariance == Spec => []UInv
<1>1. Init => UInv
  BY DEF Init, UInv
<1>2. Inv /\ UInv /\ [Next]_vars => UInv'
  <2> SUFFICES ASSUME Inv, UInv, [Next]_vars PROVE UInv'
    OBVIOUS
  <2> DEFINE ReadRight == \A j \in 1 .. Len(options) : LengthRight(options[j])
  <2>0. ASSUME UNCHANGED <<proto, options>> PROVE ReadRight'
    <3>1. ReadRight
      BY DEF UInv
    <3> QED BY <2>0, <3>1 DEF LengthRight, LengthCounts
  <2>1. CASE Build
    <3>1. result' = "none" /\ built = <<>> /\ updated' = updated
      BY <2>1 DEF Build
    <3>2. updated' = {}
      BY <3>1 DEF Inv, TypeOK
    <3>3. ReadRight'
      BY <2>0, <2>1 DEF Build
    <3> QED BY <3>1, <3>2, <3>3 DEF UInv
  <2>2. CASE Send
    <3>1. /\ \E p \in Payloads : input' = ToBytes(Padded(built)) \o p
          /\ result = "none" /\ result' = "reading"
          /\ UNCHANGED <<proto, built, updated, read, options>>
      BY <2>2 DEF Send
    <3>2. Padded(built)' = Padded(built)
      BY <3>1 DEF Padded
    <3>3. \E q \in Seq(Byte) : input' = ToBytes(Padded(built)') \o q
      BY <3>1, <3>2, BytesAssumption
    <3>4. options = <<>>
      BY <3>1 DEF Inv
    <3>5. Came'
      <4>1. Len(<<>>) = 0 /\ SubSeq(Padded(built), 1, 0) = <<>>
        BY SubSeqEmpty
      <4>2. Padded(built) \in Seq(Buildable(proto))
        BY PaddedType DEF Inv, TypeOK, Protocols
      <4>3. 0 <= Len(Padded(built))
        BY <4>2, LenProperties
      <4> QED BY <3>1, <3>2, <3>4, <4>1, <4>3 DEF Came
    <3>6. \A j \in updated' : built'[j].length = NewLength(built'[j])
      BY <3>1 DEF UInv
    <3>7. ReadRight'
      BY <2>0, <3>1
    <3> QED BY <3>3, <3>5, <3>6, <3>7 DEF UInv
  <2>3. CASE Receive
    <3>1. built' = <<>> /\ updated' = updated /\ built = <<>>
      BY <2>3 DEF Receive
    <3>2. updated' = {}
      BY <3>1 DEF Inv, TypeOK
    <3>3. ReadRight'
      BY <2>0, <2>3 DEF Receive
    <3> QED BY <3>1, <3>2, <3>3 DEF UInv
  <2>4. CASE ReadStep
    <3>1. /\ UNCHANGED <<proto, built, updated, count, input>> /\ result = "reading"
      BY <2>4 DEF ReadStep, Finish, ReadFails, ReadOption, Return
    <3>2. (Counted' <=> Counted) /\ Padded(built)' = Padded(built) /\ Limit' = Limit
      BY <3>1, CountedSame
    <3>3. ASSUME built # <<>>, Counted PROVE Came'
      <4> DEFINE P == Padded(built)
                 n == Len(options)
      <4>1. \/ Reached /\ n = Len(P) /\ options = P
            \/ /\ ~Reached /\ n + 1 <= Len(P) /\ ~Refused /\ ~CutOff
               /\ Parsed = P[n + 1]
        BY <3>1, <3>3, ComesNext
      <4>2. Came /\ P \in Seq(Buildable(proto)) /\ n \in Nat
        BY <3>1, <3>3, PaddedType, LenProperties DEF UInv, Inv, TypeOK, Protocols
      <4>3. CASE Finish
        <5>1. read = Limit /\ result' = "ok" /\ UNCHANGED <<read, options>>
          BY <4>3 DEF Finish, Return, Reached
        <5> QED BY <3>2, <4>2, <5>1 DEF Came
      <4>4. CASE ReadFails
        BY <4>1, <4>4 DEF ReadFails
      <4>5. CASE ReadOption
        <5>1. options' = Append(options, Parsed) /\ result' = "reading" /\ ~Reached
          BY <3>1, <4>5, ReadOptionEffect
        <5>2. n + 1 <= Len(P) /\ Parsed = P[n + 1] /\ options = SubSeq(P, 1, n)
          BY <4>1, <4>2, <5>1 DEF Came
        <5>3. /\ Len(SubSeq(P, 1, n)) = n
              /\ SubSeq(P, 1, n + 1) = Append(SubSeq(P, 1, n), P[n + 1])
          BY <4>2, <5>2, PrefixAppend
        <5>4. options \in Seq(Buildable(proto)) /\ Parsed \in Buildable(proto)
          <6>1. n + 1 \in 1 .. Len(P)
            BY <4>2, <5>2, LenProperties
          <6> QED BY <4>2, <5>2, <6>1, ElementOfSeq DEF Inv
        <5>5. Len(options') = n + 1
          BY <5>1, <5>4, AppendProperties
        <5>6. options' = SubSeq(P, 1, n + 1)
          BY <5>1, <5>2, <5>3
        <5> QED BY <3>2, <5>1, <5>2, <5>5, <5>6 DEF Came
      <4> QED BY <2>4, <4>3, <4>4, <4>5 DEF ReadStep
    <3>4. built # <<>> => \E q \in Seq(Byte) : input = ToBytes(Padded(built)) \o q
      BY <3>1 DEF UInv
    <3>5. \A j \in updated' : built'[j].length = NewLength(built'[j])
      BY <3>1 DEF UInv
    <3>6. ReadRight'
      <4>1. CASE Finish \/ ReadFails
        <5>1. UNCHANGED <<proto, options>>
          BY <4>1 DEF Finish, ReadFails, Return
        <5> QED BY <2>0, <5>1
      <4>2. CASE ReadOption
        <5>1. options' = Append(options, Parsed) /\ ~Refused /\ ~CutOff
          BY <4>2, ReadOptionEffect DEF ReadOption
        <5>2. LengthRight(Parsed) /\ Parsed \in Option /\ options \in Seq(Option)
          BY <5>1, ParsedRight, ParsedFields, BuildableFields DEF Inv, TypeOK, Protocols
        <5>3. /\ Len(options) \in Nat /\ Len(options') = Len(options) + 1
              /\ \A j \in 1 .. Len(options) : options'[j] = options[j]
              /\ options'[Len(options) + 1] = Parsed
          <6> HIDE DEF Parsed
          <6> QED BY <5>1, <5>2, AppendProperties, LenProperties
        <5>4. ASSUME NEW j \in 1 .. Len(options') PROVE LengthRight(options'[j])
          <6>1. CASE j = Len(options) + 1
            BY <5>2, <5>3, <6>1
          <6>2. CASE j # Len(options) + 1
            <7>1. j \in 1 .. Len(options)
              BY <5>3, <6>2
            <7> QED BY <5>3, <7>1 DEF UInv
          <6> QED BY <6>1, <6>2
        <5> QED BY <3>1, <5>4 DEF LengthRight, LengthCounts
      <4> QED BY <2>4, <4>1, <4>2 DEF ReadStep
    <3> QED BY <3>1, <3>2, <3>3, <3>4, <3>5, <3>6 DEF UInv
  <2>5. ASSUME NEW j \in DOMAIN built, Update(j) PROVE UInv'
    <3>1. result' = "none" /\ updated' = updated \cup {j}
      BY <2>5 DEF Update
    <3>2. /\ built'[j].length = NewLength(built'[j])
          /\ \A i \in DOMAIN built \ {j} : built'[i] = built[i]
      BY <2>5, UpdateEffect
    <3>3. updated \subseteq DOMAIN built
      BY DEF Inv, TypeOK
    <3>4. ASSUME NEW i \in updated' PROVE built'[i].length = NewLength(built'[i])
      <4>1. CASE i = j
        BY <3>2, <4>1
      <4>2. CASE i # j
        <5>1. i \in updated /\ i \in DOMAIN built \ {j}
          BY <3>1, <3>3, <3>4, <4>2
        <5> QED BY <3>2, <5>1 DEF UInv
      <4> QED BY <4>1, <4>2
    <3>5. ReadRight'
      BY <2>0, <2>5 DEF Update
    <3> QED BY <3>1, <3>4, <3>5 DEF UInv
  <2>6. CASE UNCHANGED vars
    <3>1. UNCHANGED <<proto, built, updated, count, input, read, options, result>>
      BY <2>6 DEF vars
    <3>2. (Counted' <=> Counted) /\ Padded(built)' = Padded(built) /\ Limit' = Limit
      BY <3>1, CountedSame
    <3>3. Came' <=> Came
      BY <3>1, <3>2 DEF Came
    <3>4. \A j \in updated' : built'[j].length = NewLength(built'[j])
      BY <3>1 DEF UInv
    <3>5. ReadRight'
      BY <2>0, <3>1
    <3> QED BY <3>1, <3>2, <3>3, <3>4, <3>5 DEF UInv
  <2> QED BY <2>1, <2>2, <2>3, <2>4, <2>5, <2>6 DEF Next
<1> QED BY <1>1, <1>2, Invariance, PTL DEF Spec

(* The options a program builds are those a receiver of the header reads,  *)
(* padding included and whatever payload follows, exactly when their       *)
(* length fields are right, as update makes them; the header counts them.  *)
THEOREM OptionsComeBackHolds == Spec => []OptionsComeBack
<1>1. Inv /\ UInv => OptionsComeBack
  <2> DEFINE Right == \A j \in DOMAIN built : LengthRight(built[j])
             Back == result = "ok" /\ options = Padded(built)
  <2> SUFFICES ASSUME Inv, UInv, result \notin {"none", "reading"}, built # <<>>,
                      4 * (count - 5) = Len(ToBytes(Padded(built)))
               PROVE  /\ Back = Right
                      /\ (\A j \in DOMAIN built : LengthCounts(built[j].type) => j \in updated)
                            => Right
    BY DEF OptionsComeBack
  <2>1. ASSUME Right PROVE Back
    <3>1. Counted
      BY <2>1 DEF Counted
    <3>2. result = "ok" /\ read = Limit
      BY <3>1 DEF UInv, Came
    <3> QED BY <3>1, <3>2, ComesNext DEF Reached
  <2>2. ASSUME Back PROVE Right
    <3> SUFFICES ASSUME NEW j \in DOMAIN built PROVE LengthRight(built[j])
      OBVIOUS
    <3>1. j \in 1 .. Len(options) /\ options[j] = built[j]
      BY <2>2, PaddedIs
    <3> QED BY <3>1 DEF UInv
  <2>3. ASSUME \A j \in DOMAIN built : LengthCounts(built[j].type) => j \in updated
        PROVE  Right
    <3> SUFFICES ASSUME NEW j \in DOMAIN built, LengthCounts(built[j].type)
                 PROVE  LengthRight(built[j])
      BY DEF LengthRight
    <3> DEFINE l == built[j].length
               v == Len(built[j].value)
    <3>1. l = 2 + v
      BY <2>3 DEF UInv, NewLength
    <3>2. v \in Nat
      <4>1. built[j] \in Buildable(proto) /\ proto \in Protocols
        BY ElementOfSeq, LenProperties DEF Inv, TypeOK, Protocols
      <4> QED BY <4>1, BuildableFields, LenProperties
    <3> HIDE DEF l, v
    <3>3. l - 2 - v = 0
      BY <3>1, <3>2
    <3> QED BY <3>3 DEF LengthRight, l, v
  <2> QED BY <2>1, <2>2, <2>3
<1> QED BY <1>1, Invariance, UpdatedInvariance, PTL

-----------------------------------------------------------------------------
(* Well-formed options are accepted.                                       *)

(* One step of the walk over the options by their length bytes, the        *)
(* function that holds its results, and the place of the next option.      *)
TypeAt(p) == Split(input[p + 1]).type

NextAt(p) == p + IF HasLength(TypeAt(p)) THEN input[p + 2] ELSE 1

Walk(f, p) ==
    \/ p = Limit
    \/ TypeAt(p) = 0 /\ \A q \in p + 1 .. Limit : input[q] = 0
    \/ /\ TypeAt(p) # 0
       /\ HasLength(TypeAt(p)) => p + 1 < Limit /\ RightLength(TypeAt(p), input[p + 2])
       /\ NextAt(p) <= Limit /\ f[NextAt(p)]

From == CHOOSE f : f = [p \in 0 .. Limit |-> Walk(f, p)]

(* Well-formedness in terms of the walk.                                   *)
LEMMA WellFormedIs == WellFormed <=> Len(input) >= Limit /\ From[0]
  BY Zenon DEF WellFormed, From, Walk, NextAt, TypeAt

(* A right length is at least two, and the one that the parser takes.      *)
LEMMA RightLengths ==
    ASSUME proto \in Protocols, NEW type \in Byte, NEW l \in Byte, RightLength(type, l)
    PROVE  l >= 2 /\ Known(type) /\ (HasLength(type) => ValueBytes(type, l) = l - 2)
<1>1. CASE proto = "Ipv4"
  <2>1. l >= 2
    BY <1>1 DEF RightLength
  <2> QED BY <1>1, <2>1 DEF Known, ValueBytes
<1>2. CASE proto = "Tcp" /\ type = 5
  <2>1. l % 8 = 2
    <3>1. <<type, l>> \notin {<<2, 4>>, <<3, 3>>, <<4, 2>>, <<8, 10>>}
      BY <1>2
    <3> QED BY <1>2, <3>1, Zenon DEF RightLength
  <2>2. l \in Nat
    BY DEF Byte
  <2>3. ValueBytes(type, l) = 8 * ((l - 2) \div 8)
    BY <1>2 DEF ValueBytes
  <2>4. l >= 2 /\ 8 * ((l - 2) \div 8) = l - 2
    BY <2>1, <2>2
  <2> QED BY <1>2, <2>3, <2>4 DEF Known
<1>3. CASE proto = "Tcp" /\ type # 5
  <2>1. <<type, l>> \in {<<2, 4>>, <<3, 3>>, <<4, 2>>, <<8, 10>>}
    BY <1>3 DEF RightLength
  <2>2. /\ type = 2 => ValueBytes(type, l) = 2
        /\ type = 3 => ValueBytes(type, l) = 1
        /\ type = 4 => ValueBytes(type, l) = 0
        /\ type = 8 => ValueBytes(type, l) = 8
    BY <1>3 DEF ValueBytes
  <2> QED BY <1>3, <2>1, <2>2 DEF Known
<1> QED BY <1>1, <1>2, <1>3 DEF Protocols

(* The walk moves forward, so its result at p depends on results behind p  *)
(* only.                                                                   *)
LEMMA WalkForward ==
    ASSUME TypeOK, Len(input) >= Limit, NEW p \in Nat, p < Limit,
           HasLength(TypeAt(p)) => p + 1 < Limit /\ RightLength(TypeAt(p), input[p + 2])
    PROVE  /\ NextAt(p) \in Nat /\ NextAt(p) > p
           /\ TypeAt(p) \in Byte
           /\ HasLength(TypeAt(p)) => input[p + 2] \in Byte
<1>1. /\ input \in Seq(Byte) /\ Len(input) \in Nat /\ proto \in Protocols
      /\ Limit \in Nat
  BY LenProperties DEF TypeOK, Protocols, Limit
<1>2. input[p + 1] \in Byte
  <2>1. p + 1 \in 1 .. Len(input)
    BY <1>1
  <2> QED BY <1>1, <2>1, ElementOfSeq
<1>3. TypeAt(p) \in Byte
  BY <1>1, <1>2, SplitFields DEF TypeAt
<1>4. CASE HasLength(TypeAt(p))
  <2>1. p + 2 \in 1 .. Len(input)
    BY <1>1, <1>4
  <2>2. input[p + 2] \in Byte
    BY <1>1, <2>1, ElementOfSeq
  <2>3. input[p + 2] >= 2
    BY <1>1, <1>3, <1>4, <2>2, RightLengths
  <2>4. NextAt(p) = p + input[p + 2] /\ input[p + 2] \in Nat
    <3>1. NextAt(p) = p + input[p + 2]
      BY <1>4 DEF NextAt
    <3>2. Byte \subseteq Nat
      BY DEF Byte
    <3> QED BY <2>2, <3>1, <3>2
  <2> QED BY <1>3, <2>2, <2>3, <2>4
<1>5. CASE ~HasLength(TypeAt(p))
  <2>1. NextAt(p) = p + 1
    BY <1>5 DEF NextAt
  <2> QED BY <1>3, <1>5, <2>1
<1> QED BY <1>4, <1>5

(* Functions that agree behind p give the walk the same result at p.       *)
LEMMA WalkSame ==
    ASSUME TypeOK, Len(input) >= Limit, NEW p \in 0 .. Limit, NEW f, NEW g,
           \A q \in p + 1 .. Limit : f[q] = g[q]
    PROVE  Walk(f, p) <=> Walk(g, p)
<1>0. Limit \in Nat
  BY DEF TypeOK, Limit
<1>1. CASE p = Limit
  BY <1>1 DEF Walk
<1>2. CASE p # Limit
  <2>1. p \in Nat /\ p < Limit
    BY <1>0, <1>2
  <2>2. ASSUME HasLength(TypeAt(p)) => p + 1 < Limit /\ RightLength(TypeAt(p), input[p + 2]),
               NextAt(p) <= Limit
        PROVE  f[NextAt(p)] = g[NextAt(p)]
    <3>1. NextAt(p) \in Nat /\ NextAt(p) > p
      BY <2>1, <2>2, WalkForward
    <3>2. NextAt(p) \in p + 1 .. Limit
      BY <1>0, <2>1, <2>2, <3>1
    <3> QED BY <3>2
  <2> QED BY <2>2, Zenon DEF Walk
<1> QED BY <1>1, <1>2

(* The function that holds the results of the walk exists, so From is it.  *)
LEMMA FromExists ==
    ASSUME TypeOK, Len(input) >= Limit
    PROVE  \E f : f = [p \in 0 .. Limit |-> Walk(f, p)]
<1> DEFINE P(k) == k <= Limit => \E f : f = [p \in Limit - k .. Limit |-> Walk(f, p)]
           K == {k \in Nat : P(k)}
<1>0. Limit \in Nat
  BY DEF TypeOK, Limit
<1>1. ASSUME NEW a \in Nat, a <= Limit, NEW g
      PROVE  LET f == [p \in a .. Limit |-> IF p = a THEN Walk(g, p) ELSE g[p]]
             IN  (\A p \in a + 1 .. Limit : g[p] = Walk(g, p)) =>
                     f = [p \in a .. Limit |-> Walk(f, p)]
  <2> DEFINE f == [p \in a .. Limit |-> IF p = a THEN Walk(g, p) ELSE g[p]]
  <2> SUFFICES ASSUME \A p \in a + 1 .. Limit : g[p] = Walk(g, p)
               PROVE  f = [p \in a .. Limit |-> Walk(f, p)]
    OBVIOUS
  <2>1. ASSUME NEW p \in a .. Limit PROVE f[p] = Walk(f, p)
    <3>1. \A q \in p + 1 .. Limit : q \in a .. Limit /\ q # a
      BY <1>0, <1>1
    <3>2. \A q \in p + 1 .. Limit : f[q] = g[q]
      BY <3>1, Zenon
    <3>3. p \in 0 .. Limit
      BY <1>0, <1>1
    <3> HIDE DEF f
    <3>4. Walk(f, p) <=> Walk(g, p)
      BY <3>2, <3>3, WalkSame
    <3>5. Walk(f, p) \in BOOLEAN /\ Walk(g, p) \in BOOLEAN
      BY Zenon DEF Walk
    <3>6. Walk(f, p) = Walk(g, p)
      BY <3>4, <3>5
    <3>7. CASE p = a
      <4>1. f[p] = Walk(g, p)
        BY <3>7, Zenon DEF f
      <4> QED BY <3>6, <4>1, Zenon
    <3>8. CASE p # a
      <4>1. p \in a + 1 .. Limit
        BY <1>0, <1>1, <3>8
      <4>2. f[p] = g[p]
        BY <3>8, Zenon DEF f
      <4>3. g[p] = Walk(g, p)
        BY <4>1, Zenon
      <4> QED BY <3>6, <4>2, <4>3, Zenon
    <3> QED BY <3>7, <3>8
  <2>2. f = [p \in a .. Limit |-> f[p]]
    BY Zenon
  <2> HIDE DEF f
  <2>3. [p \in a .. Limit |-> f[p]] = [p \in a .. Limit |-> Walk(f, p)]
    BY <2>1, Zenon
  <2> QED BY <2>2, <2>3, Zenon
<1>2. 0 \in K
  <2>1. \A p \in Limit + 1 .. Limit : FALSE
    BY <1>0
  <2>2. Limit - 0 = Limit
    BY <1>0
  <2> DEFINE e == <<>>
             f == [p \in Limit .. Limit |-> IF p = Limit THEN Walk(e, p) ELSE e[p]]
  <2> HIDE DEF e
  <2>3. f = [p \in Limit .. Limit |-> Walk(f, p)]
    <3>1. Limit <= Limit
      BY <1>0
    <3>2. \A p \in Limit + 1 .. Limit : e[p] = Walk(e, p)
      BY <2>1
    <3> QED BY <1>0, <1>1, <3>1, <3>2, Zenon
  <2> HIDE DEF f
  <2>4. \E g : g = [p \in Limit - 0 .. Limit |-> Walk(g, p)]
    BY <2>2, <2>3, Zenon
  <2> QED BY <2>4, Zenon
<1>3. ASSUME NEW k \in Nat, P(k), k + 1 <= Limit
      PROVE  \E f : f = [p \in Limit - (k + 1) .. Limit |-> Walk(f, p)]
  <2> DEFINE a == Limit - (k + 1)
  <2>1. a \in Nat /\ a <= Limit /\ a + 1 = Limit - k /\ k <= Limit
    BY <1>0, <1>3
  <2>2. PICK g : g = [p \in Limit - k .. Limit |-> Walk(g, p)]
    BY <1>3, <2>1
  <2> HIDE DEF a
  <2>3. \A p \in a + 1 .. Limit : g[p] = Walk(g, p)
    <3> DEFINE h == [p \in Limit - k .. Limit |-> Walk(g, p)]
    <3>1. \A p \in Limit - k .. Limit : h[p] = Walk(g, p)
      BY Zenon
    <3>2. g = h
      BY <2>2, Zenon
    <3> HIDE DEF h
    <3> QED BY <2>1, <3>1, <3>2, Zenon
  <2> DEFINE f == [p \in a .. Limit |-> IF p = a THEN Walk(g, p) ELSE g[p]]
  <2>4. f = [p \in a .. Limit |-> Walk(f, p)]
    BY <1>1, <2>1, <2>3
  <2> HIDE DEF f
  <2> QED BY <2>4, Zenon DEF a
<1>4. Nat \subseteq K
  <2>1. \A k \in Nat : P(k) => P(k + 1)
    BY <1>3
  <2> HIDE DEF P
  <2>2. \A k \in Nat : k \in K => k + 1 \in K
    BY <2>1
  <2> HIDE DEF K
  <2> QED BY <1>2, <2>2, NatSetInduction
<1>5. Limit \in K
  BY <1>0, <1>4
<1>6. Limit - Limit = 0 /\ Limit <= Limit
  BY <1>0
<1> QED BY <1>5, <1>6, Zenon

(* From satisfies the equation of the walk.                                *)
LEMMA FromIs ==
    ASSUME TypeOK, Len(input) >= Limit, NEW p \in 0 .. Limit
    PROVE  From[p] <=> Walk(From, p)
<1> DEFINE h == [q \in 0 .. Limit |-> Walk(From, q)]
<1>1. From = h
  BY FromExists, Zenon DEF From
<1>2. h[p] = Walk(From, p)
  BY Zenon
<1> HIDE DEF h
<1> QED BY <1>1, <1>2, Zenon

(* At a place from which the options are well formed, the parser reads an  *)
(* option, of the length it states, and gets to such a place again.        *)
LEMMA WalkReads ==
    ASSUME TypeOK, Len(input) >= Limit, read < Limit, From[read]
    PROVE  LET n == Len(OptionToBytes(Parsed))
           IN  /\ ~Refused /\ ~CutOff
               /\ read + n <= Limit /\ From[read + n]
               /\ HasLength(Parsed.type) => Parsed.length = n
<1> DEFINE n == Len(OptionToBytes(Parsed))
           type == TypeAt(read)
           l == input[read + 2]
<1>1. /\ Limit \in Nat /\ read \in Nat /\ Len(input) \in Nat /\ proto \in Protocols
      /\ input \in Seq(Byte)
  BY LenProperties DEF TypeOK, Limit, Protocols
<1>2. read \in 0 .. Limit /\ read # Limit
  BY <1>1
<1>3. Walk(From, read)
  BY <1>2, FromIs
<1>4. /\ Len(Rest) = Len(input) - read /\ Len(Rest) \in Nat
      /\ Rest # <<>> <=> Len(Rest) > 0
      /\ \A i \in 1 .. Len(Rest) : Rest[i] = input[read + i] /\ Rest[i] \in Byte
  BY RestBytes
<1>5. Len(Rest) > 0 /\ Rest # <<>> /\ Rest[1] = input[read + 1] /\ Rest[1] \in Byte
  BY <1>1, <1>2, <1>4
<1>6. Split(Rest[1]).type = type /\ type \in Byte
  BY <1>1, <1>5, SplitFields DEF TypeAt
<1>7. ASSUME ~Refused, ~CutOff
      PROVE  /\ Parsed.type = type
             /\ ~HasLength(type) => n = 1
             /\ HasLength(type) => n = 2 + ValueBytes(type, Rest[2]) /\ Parsed.length = Rest[2]
  <2>1. /\ Parsed.type = type /\ Parsed \in Buildable(proto)
        /\ HasLength(type) => /\ Parsed.length = Rest[2]
                              /\ Len(Parsed.value) = ValueBytes(type, Rest[2])
    BY <1>6, <1>7, ParsedFields
  <2>2. n = IF HasLength(Parsed.type) THEN 2 + Len(Parsed.value) ELSE 1
    BY <1>1, <2>1, OptionBytes
  <2> QED BY <2>1, <2>2
<1>8. CASE ~HasLength(type)
  <2>1. Known(type)
    BY <1>6, <1>8, NoLength DEF Known
  <2>2. ~Refused
    BY <1>6, <1>8, <2>1 DEF Refused, LengthCounts
  <2>3. ~CutOff
    BY <1>5, <1>6, <1>8 DEF CutOff
  <2>4. n = 1 /\ Parsed.type = type
    BY <1>7, <1>8, <2>2, <2>3
  <2>5. From[read + 1]
    <3>1. CASE type # 0
      <4>1. NextAt(read) <= Limit /\ From[NextAt(read)]
        BY <1>2, <1>3, <3>1, Zenon DEF Walk
      <4>2. NextAt(read) = read + 1
        BY <1>8 DEF NextAt
      <4> QED BY <4>1, <4>2, Zenon
    <3>2. CASE type = 0
      <4>1. \A q \in read + 1 .. Limit : input[q] = 0
        BY <1>2, <1>3, <3>2, Zenon DEF Walk
      <4>2. read + 1 \in 0 .. Limit
        BY <1>1, <1>2
      <4>3. CASE read + 1 = Limit
        <5>1. Walk(From, read + 1)
          BY <4>3 DEF Walk
        <5> QED BY <4>2, <5>1, FromIs
      <4>4. CASE read + 1 # Limit
        <5>1. \A q \in (read + 1) + 1 .. Limit : input[q] = 0
          BY <1>1, <4>1
        <5>2. input[(read + 1) + 1] = 0
          BY <1>1, <4>2, <4>4, <5>1
        <5>3. Split(0).type = 0
          BY <1>1 DEF Split, Protocols
        <5>4. TypeAt(read + 1) = 0
          BY <5>2, <5>3 DEF TypeAt
        <5>5. Walk(From, read + 1)
          BY <5>1, <5>4, Zenon DEF Walk
        <5> QED BY <4>2, <5>5, FromIs
      <4> QED BY <4>3, <4>4
    <3> QED BY <3>1, <3>2
  <2>6. read + 1 <= Limit
    BY <1>1
  <2> QED BY <1>8, <2>2, <2>3, <2>4, <2>5, <2>6
<1>9. CASE HasLength(type)
  <2>1. type # 0
    BY <1>9 DEF HasLength
  <2>2. /\ read + 1 < Limit /\ RightLength(type, l)
        /\ NextAt(read) <= Limit /\ From[NextAt(read)]
    BY <1>2, <1>3, <1>9, <2>1, Zenon DEF Walk
  <2>3. 2 \in 1 .. Len(Rest)
    BY <1>1, <1>4, <2>2
  <2>4. Rest[2] = l /\ l \in Byte
    BY <1>4, <2>3
  <2>5. l >= 2 /\ Known(type) /\ ValueBytes(type, l) = l - 2
    BY <1>1, <1>6, <1>9, <2>2, <2>4, RightLengths
  <2>6. NextAt(read) = read + l
    BY <1>9 DEF NextAt
  <2>7. l \in Nat
    <3>1. Byte \subseteq Nat
      BY DEF Byte
    <3> QED BY <2>4, <3>1
  <2>8. ~Refused
    <3>1. ~(Rest[2] < 2)
      BY <2>4, <2>5, <2>7
    <3> QED BY <1>6, <2>5, <3>1 DEF Refused
  <2> HIDE DEF l
  <2>9. ~(Len(Rest) < 2 + ValueBytes(type, Rest[2])) /\ Len(Rest) > 1
    BY <1>1, <1>4, <2>2, <2>3, <2>4, <2>5, <2>6, <2>7
  <2>10. ~CutOff
    BY <1>5, <1>6, <2>9 DEF CutOff
  <2>11. n = 2 + ValueBytes(type, Rest[2]) /\ Parsed.length = Rest[2] /\ Parsed.type = type
    BY <1>7, <1>9, <2>8, <2>10
  <2>12. n = l
    BY <2>4, <2>5, <2>7, <2>11
  <2> HIDE DEF n
  <2>13. read + n <= Limit /\ From[read + n] /\ Parsed.length = n
    BY <2>2, <2>4, <2>6, <2>11, <2>12
  <2> QED BY <2>8, <2>10, <2>13 DEF n
<1> QED BY <1>8, <1>9

(* The invariant: while the options of a well-formed header are read, the  *)
(* parser is at a place of the walk.                                       *)
OnWalk ==
    /\ result \in {"reading", "ok"}
    /\ read <= Limit /\ From[read]
    /\ \A j \in DOMAIN options : LET o == options[j] IN
           HasLength(o.type) => o.length = Len(OptionToBytes(o))

WInv == result # "none" /\ count >= 5 /\ WellFormed => OnWalk

(* A header never counts a negative number of option bytes.                *)
LEMMA LimitSign == Inv => 0 <= Limit
  BY DEF Inv, TypeOK, Limit

(* It holds in every reachable state.                                      *)
LEMMA WellFormedInvariance == Spec => []WInv
<1>1. Init => WInv
  BY DEF Init, WInv
<1>2. Inv /\ Inv' /\ WInv /\ [Next]_vars => WInv'
  <2> SUFFICES ASSUME Inv, Inv', WInv, [Next]_vars PROVE WInv'
    OBVIOUS
  <2>0. ASSUME read' = 0, options' = <<>>, result' = "reading", WellFormed' PROVE OnWalk'
    <3>1. From'[0]
      <4>1. WellFormed' <=> (Len(input) >= Limit /\ From[0])'
        BY WellFormedIs, PTL
      <4> QED BY <2>0, <4>1
    <3>2. (0 <= Limit)'
      BY LimitSign, PTL
    <3> QED BY <2>0, <3>1, <3>2 DEF OnWalk
  <2>1. CASE Build
    BY <2>1 DEF Build, WInv
  <2>2. CASE Send
    BY <2>0, <2>2 DEF Send, Inv, WInv
  <2>3. CASE Receive
    <3>1. result' = "error" => count' < 5
      BY <2>3 DEF Receive
    <3>2. count' \in Nat
      BY DEF Inv, TypeOK
    <3>3. result' # "error" => read' = 0 /\ options' = <<>> /\ result' = "reading"
      BY <2>3 DEF Receive, Inv
    <3> QED BY <2>0, <3>1, <3>2, <3>3 DEF WInv
  <2>4. CASE ReadStep
    <3>1. UNCHANGED <<proto, built, updated, count, input>> /\ result = "reading"
      BY <2>4 DEF ReadStep, Finish, ReadFails, ReadOption, Return
    <3>2. Limit' = Limit /\ From' = From /\ (WellFormed' <=> WellFormed)
      BY <3>1 DEF Limit, From, Walk, TypeAt, NextAt, Split, HasLength, RightLength, WellFormed
    <3> SUFFICES ASSUME count >= 5, WellFormed PROVE OnWalk'
      BY <3>1, <3>2 DEF WInv
    <3>3. OnWalk /\ TypeOK /\ Len(input) >= Limit /\ Limit \in Nat /\ read \in Nat
      BY <3>1, WellFormedIs DEF WInv, Inv, TypeOK, Limit
    <3>4. CASE Finish
      <4>1. result' = "ok" /\ UNCHANGED <<read, options>>
        BY <3>4 DEF Finish, Return
      <4> QED BY <3>2, <3>3, <4>1 DEF OnWalk
    <3>5. ASSUME ~Reached
          PROVE  LET n == Len(OptionToBytes(Parsed))
                 IN  /\ ~Refused /\ ~CutOff
                     /\ read + n <= Limit /\ From[read + n]
                     /\ HasLength(Parsed.type) => Parsed.length = n
      <4>1. read < Limit /\ From[read]
        BY <3>3, <3>5 DEF Reached, OnWalk
      <4> QED BY <3>3, <4>1, WalkReads
    <3>6. CASE ReadFails
      BY <3>5, <3>6 DEF ReadFails
    <3>7. CASE ReadOption
      <4>1. /\ ~Reached /\ options' = Append(options, Parsed) /\ result' = "reading"
            /\ read' = read + Len(OptionToBytes(Parsed)) /\ ~Refused /\ ~CutOff
        BY <3>1, <3>7, ReadOptionEffect
      <4>2. read' <= Limit /\ From[read']
        BY <3>5, <4>1
      <4>3. Parsed \in Buildable(proto) /\ options \in Seq(Buildable(proto))
        BY <3>3, <4>1, ParsedFields DEF Inv
      <4>4. ASSUME NEW j \in DOMAIN options', HasLength(options'[j].type)
            PROVE  options'[j].length = Len(OptionToBytes(options'[j]))
        <5>1. /\ DOMAIN options = 1 .. Len(options) /\ Len(options) \in Nat
              /\ DOMAIN options' = 1 .. Len(options) + 1
              /\ \A i \in 1 .. Len(options) : options'[i] = options[i]
              /\ options'[Len(options) + 1] = Parsed
          BY <4>1, <4>3, AppendProperties, LenProperties
        <5>2. CASE j \in DOMAIN options
          <6>1. options'[j] = options[j]
            BY <5>1, <5>2
          <6> QED BY <3>3, <4>4, <5>2, <6>1 DEF OnWalk
        <5>3. CASE j \notin DOMAIN options
          <6>1. options'[j] = Parsed
            BY <5>1, <5>3
          <6> QED BY <3>5, <4>1, <4>4, <6>1
        <5> QED BY <5>2, <5>3
      <4>5. \A j \in DOMAIN options' : LET o == options'[j] IN
                HasLength(o.type) => o.length = Len(OptionToBytes(o))
        BY <4>4
      <4> QED BY <3>2, <4>1, <4>2, <4>5 DEF OnWalk
    <3> QED BY <2>4, <3>4, <3>6, <3>7 DEF ReadStep
  <2>5. ASSUME NEW j \in DOMAIN built, Update(j) PROVE WInv'
    BY <2>5 DEF Update, WInv
  <2>6. CASE UNCHANGED vars
    <3>1. UNCHANGED <<proto, built, updated, count, input, read, options, result>>
      BY <2>6 DEF vars
    <3>2. Limit' = Limit /\ From' = From /\ (WellFormed' <=> WellFormed)
      BY <3>1 DEF Limit, From, Walk, TypeAt, NextAt, Split, HasLength, RightLength, WellFormed
    <3> QED BY <3>1, <3>2 DEF WInv, OnWalk
  <2> QED BY <2>1, <2>2, <2>3, <2>4, <2>5, <2>6 DEF Next
<1> QED BY <1>1, <1>2, Invariance, PTL DEF Spec

(* A header whose options are well formed by their length bytes alone is   *)
(* accepted, and split into options of just these lengths.                 *)
THEOREM WellFormedAcceptedHolds == Spec => []WellFormedAccepted
<1>1. WInv => WellFormedAccepted
  BY DEF WInv, OnWalk, WellFormedAccepted
<1> QED BY <1>1, WellFormedInvariance, PTL
=============================================================================
