-------------------------- MODULE IpChecksumProofs --------------------------
(***************************************************************************)
(* Machine-checked properties of IpChecksum for every base B, 256 of the   *)
(* code included, and every set of inputs.                                 *)
(***************************************************************************)
EXTENDS IpChecksum, NatLemmas

(* The widths: a u16 has at least four values.                             *)
LEMMA Widths == W \in Nat /\ W >= 4 /\ Acc = W * W /\ Acc \in Nat /\ Acc > 0
<1>1. W \in Nat /\ W >= 4
  BY BaseAssumption DEF W
<1>2. W * W >= 1 /\ W * W \in Nat
  BY <1>1
<1> QED
  BY <1>1, <1>2 DEF Acc

(* The elements of a sequence.                                             *)
LEMMA ElementType ==
    ASSUME NEW S, NEW d \in Seq(S), NEW j \in 1 .. Len(d)
    PROVE  d[j] \in S
OBVIOUS

(* Two bytes make a u16.                                                   *)
LEMMA WordType ==
    ASSUME NEW hi \in 0 .. B - 1, NEW lo \in 0 .. B - 1
    PROVE  Word(hi, lo) \in 0 .. W - 1
<1>1. hi \in Nat /\ lo \in Nat /\ B \in Nat /\ hi + 1 <= B /\ lo <= B - 1
  BY BaseAssumption
<1>2. hi * B \in Nat /\ (hi + 1) * B <= B * B /\ (hi + 1) * B = hi * B + B
  BY <1>1
<1> QED
  BY <1>1, <1>2 DEF Word, W

(* Dividing a u32 by the u16 range leaves two u16s.                        *)
LEMMA Halves ==
    ASSUME NEW s \in 0 .. Acc - 1
    PROVE  /\ s % W \in 0 .. W - 1
           /\ s \div W \in 0 .. W - 1
           /\ s = (s \div W) * W + (s % W)
<1>1. W \in Nat /\ W > 0 /\ s \in Nat /\ s < W * W
  BY Widths
<1>2. s % W \in 0 .. W - 1 /\ s = W * (s \div W) + (s % W) /\ s \div W \in Nat
  BY <1>1
<1>3. s \div W < W
  <2>1. SUFFICES ASSUME s \div W >= W PROVE FALSE
    BY <1>1, <1>2
  <2>2. W * (s \div W) >= W * W
    BY <1>1, <1>2, <2>1
  <2> QED
    BY <1>1, <1>2, <2>2
<1> QED
  BY <1>1, <1>2, <1>3

(* After one fold the carry is at most one, after two there is none.       *)
LEMMA TwoFolds ==
    ASSUME NEW s \in 0 .. Acc - 1
    PROVE  CarryAdd(CarryAdd(s)) \in 0 .. W - 1
<1> DEFINE c == CarryAdd(s)
<1>1. W \in Nat /\ W >= 4
  BY Widths
<1>2. c \in 0 .. 2 * W - 2
  BY <1>1, Halves DEF CarryAdd
<1> HIDE DEF c
<1>3. CASE c < W
  <2>1. c % W = c /\ c \div W = 0
    BY <1>1, <1>2, <1>3
  <2> QED
    BY <1>1, <1>2, <1>3, <2>1 DEF CarryAdd, c
<1>4. CASE c >= W
  <2>1. c \div W = 1 /\ c % W = c - W
    BY <1>1, <1>2, <1>4
  <2> QED
    BY <1>1, <1>2, <1>4, <2>1 DEF CarryAdd, c
<1> QED
  BY <1>1, <1>2, <1>3, <1>4

-----------------------------------------------------------------------------
(* Words added so far: the odd byte counts once the chunks are done.       *)
Added == IF pc \in {"fold", "done"} /\ Len(input) % 2 = 1 THEN k + 1 ELSE k

(* The inductive invariant: the accumulator is at most W - 1 for each word *)
(* added, as long as the input is short enough.                            *)
SumBound == Added * (W - 1)

IInv ==
    /\ TypeOK
    /\ pc \in {"fold", "done"} => k = Chunks(input)
    /\ Fits(input) => pc # "panic" /\ sum <= SumBound

(* A u16 added to a bounded sum stays within the accumulator.              *)
LEMMA NoOverflow ==
    ASSUME NEW n \in Nat, n + 1 <= W + 1, NEW s \in Nat, s <= n * (W - 1),
           NEW w \in 0 .. W - 1
    PROVE  s + w <= (n + 1) * (W - 1) /\ s + w < Acc /\ (s + w) % Acc = s + w
<1>1. W \in Nat /\ W >= 4 /\ Acc = W * W /\ Acc \in Nat
  BY Widths
<1>2. (n + 1) * (W - 1) = n * (W - 1) + (W - 1) /\ n * (W - 1) \in Nat
  BY <1>1
<1>3. s + w <= (n + 1) * (W - 1)
  BY <1>1, <1>2
<1>4. (n + 1) * (W - 1) <= (W + 1) * (W - 1) /\ (W + 1) * (W - 1) = W * W - 1
  BY <1>1
<1>5. s + w < Acc
  BY <1>1, <1>2, <1>3, <1>4
<1> QED
  BY <1>1, <1>3, <1>5

(* Chunks and words of a byte string.                                      *)
LEMMA Counts ==
    ASSUME NEW d \in Seq(0 .. B - 1)
    PROVE  /\ Chunks(d) \in Nat /\ Words(d) \in Nat
           /\ Len(d) % 2 = 0 => Words(d) = Chunks(d) /\ Len(d) = 2 * Chunks(d)
           /\ Len(d) % 2 = 1 => Words(d) = Chunks(d) + 1 /\ Len(d) = 2 * Chunks(d) + 1
           /\ Len(d) % 2 \in {0, 1}
BY DEF Chunks, Words

(* Adding a word keeps the accumulator a u32 and, for a short input, its   *)
(* bound.                                                                  *)
LEMMA AddEffect ==
    ASSUME IInv, NEW w \in 0 .. W - 1, NEW then, Add(w, then),
           Fits(input) => Added + 1 <= W + 1
    PROVE  /\ sum' \in 0 .. Acc - 1
           /\ pc' \in {then, "panic"}
           /\ Fits(input) => /\ pc' # "panic" \/ then = "panic"
                             /\ sum' <= (Added + 1) * (W - 1)
                             /\ sum' = sum + w
<1>1. W \in Nat /\ W >= 4 /\ Acc \in Nat /\ Acc > 0 /\ sum \in 0 .. Acc - 1
  BY Widths DEF IInv, TypeOK
<1>2. (sum + w) % Acc \in 0 .. Acc - 1
  BY <1>1
<1>3. sum' \in 0 .. Acc - 1 /\ pc' \in {then, "panic"}
  BY <1>1, <1>2 DEF Add
<1>4. ASSUME Fits(input)
      PROVE  pc' = then /\ sum' <= (Added + 1) * (W - 1) /\ sum' = sum + w
  <2>1. Added \in Nat
    BY Counts DEF IInv, TypeOK, Added
  <2>2. sum \in Nat /\ sum <= Added * (W - 1)
    BY <1>1, <1>4 DEF IInv, SumBound
  <2> HIDE DEF Added
  <2>3. /\ sum + w <= (Added + 1) * (W - 1) /\ sum + w < Acc
        /\ (sum + w) % Acc = sum + w
    BY <1>4, <2>1, <2>2, NoOverflow
  <2> QED
    BY <1>1, <2>3 DEF Add
<1> QED
  BY <1>3, <1>4

(* IInv is inductive.                                                      *)
LEMMA InvStep ==
    ASSUME IInv, [Next]_vars
    PROVE  IInv'
<1>1. W \in Nat /\ W >= 4 /\ Acc \in Nat /\ Acc > 0
  BY Widths
<1>2. CASE Call
  <2>1. input' \in Seq(0 .. B - 1) /\ k' = 0 /\ sum' = 0 /\ pc' = "chunks" /\ out' = out
    BY <1>2, InputsAssumption DEF Call
  <2>2. Chunks(input') \in Nat
    BY <2>1, Counts
  <2>3. Added' = 0
    BY <2>1 DEF Added
  <2> QED
    BY <1>1, <2>1, <2>2, <2>3 DEF IInv, TypeOK, SumBound
<1>3. CASE AddChunk
  <2> DEFINE w == Word(input[2 * k + 1], input[2 * k + 2])
  <2>1. /\ pc = "chunks" /\ k < Chunks(input) /\ k \in Nat /\ k' = k + 1
        /\ input' = input /\ out' = out /\ Added = k /\ input \in Seq(0 .. B - 1)
        /\ Chunks(input) \in Nat
    BY <1>3, Counts DEF AddChunk, IInv, TypeOK, Added
  <2>2. 2 * k + 1 \in 1 .. Len(input) /\ 2 * k + 2 \in 1 .. Len(input)
    BY <2>1, Counts
  <2>3. w \in 0 .. W - 1
    <3>1. input[2 * k + 1] \in 0 .. B - 1 /\ input[2 * k + 2] \in 0 .. B - 1
      BY <2>1, <2>2, ElementType
    <3> QED
      BY <3>1, WordType
  <2>4. Fits(input) => Added + 1 <= W + 1
    BY <1>1, <2>1, Counts DEF Fits
  <2>5. Add(w, "chunks")
    BY <1>3 DEF AddChunk
  <2> HIDE DEF w
  <2>6. /\ sum' \in 0 .. Acc - 1 /\ pc' \in {"chunks", "panic"}
        /\ Fits(input) => pc' # "panic" /\ sum' <= (Added + 1) * (W - 1)
    BY <2>3, <2>4, <2>5, AddEffect
  <2>7. Added' = k + 1
    BY <2>1, <2>6 DEF Added
  <2> QED
    BY <1>1, <2>1, <2>6, <2>7 DEF IInv, TypeOK, SumBound
<1>4. CASE AddRemainder
  <2> DEFINE w == Word(input[Len(input)], 0)
  <2>1. /\ pc = "chunks" /\ k = Chunks(input) /\ k \in Nat /\ k' = k
        /\ input' = input /\ out' = out /\ Added = k /\ input \in Seq(0 .. B - 1)
        /\ Len(input) % 2 = 1
    BY <1>4, Counts DEF AddRemainder, IInv, TypeOK, Added
  <2>2. Len(input) \in 1 .. Len(input) /\ 0 \in 0 .. B - 1
    BY <2>1, Counts, BaseAssumption
  <2>3. w \in 0 .. W - 1
    <3>1. input[Len(input)] \in 0 .. B - 1
      BY <2>1, <2>2, ElementType
    <3> QED
      BY <2>2, <3>1, WordType
  <2>4. Fits(input) => Added + 1 <= W + 1
    BY <1>1, <2>1, Counts DEF Fits
  <2>5. Add(w, "fold")
    BY <1>4 DEF AddRemainder
  <2> HIDE DEF w
  <2>6. /\ sum' \in 0 .. Acc - 1 /\ pc' \in {"fold", "panic"}
        /\ Fits(input) => pc' # "panic" /\ sum' <= (Added + 1) * (W - 1)
    BY <2>3, <2>4, <2>5, AddEffect
  <2>7. Fits(input) => Added' = k + 1
    BY <2>1, <2>6 DEF Added
  <2> QED
    BY <1>1, <2>1, <2>6, <2>7 DEF IInv, TypeOK, SumBound
<1>5. CASE NoRemainder
  BY <1>5 DEF NoRemainder, IInv, TypeOK, SumBound, Added
<1>6. CASE Fold
  <2>1. CarryAdd(CarryAdd(sum)) \in 0 .. W - 1
    BY TwoFolds DEF IInv, TypeOK
  <2>2. CarryAdd(CarryAdd(sum)) % W \in 0 .. W - 1
    BY <1>1, <2>1
  <2>3. out' \in 0 .. W - 1
    BY <1>1, <1>6, <2>2 DEF Fold
  <2> QED
    BY <1>6, <2>3 DEF Fold, IInv, TypeOK, SumBound, Added
<1>7. CASE UNCHANGED vars
  BY <1>7 DEF vars, IInv, TypeOK, SumBound, Added
<1> QED
  BY <1>2, <1>3, <1>4, <1>5, <1>6, <1>7 DEF Next

(* The inductive invariant holds in every state.                           *)
LEMMA Invariance == Spec => []IInv
<1>1. Init => IInv
  <2>1. <<>> \in Seq(0 .. B - 1) /\ Chunks(<<>>) = 0
    BY DEF Chunks
  <2> QED
    BY <2>1, Widths DEF Init, IInv, TypeOK, SumBound, Added
<1>2. IInv /\ [Next]_vars => IInv'
  BY InvStep
<1> QED
  BY <1>1, <1>2, PTL DEF Spec

(* The accumulator stays a u32 and the result a u16.                       *)
THEOREM TypeCorrect == Spec => []TypeOK
<1>1. IInv => TypeOK
  BY DEF IInv
<1> QED
  BY <1>1, Invariance, PTL

(* ip::checksum never overflows on at most W + 1 words: 131074 bytes with  *)
(* the code's widths, more than any length an Ipv4, Ipv6 or Udp finalize   *)
(* accepts.                                                                *)
THEOREM NoPanicHolds == Spec => []NoPanic
<1>1. IInv => NoPanic
  BY DEF IInv, NoPanic
<1> QED
  BY <1>1, Invariance, PTL

(* Two carry folds bring every accumulator value into a u16.               *)
THEOREM CastExactHolds == Spec => []CastExact
<1>1. IInv => CastExact
  BY TwoFolds, Widths DEF IInv, TypeOK, CastExact
<1> QED
  BY <1>1, Invariance, PTL

-----------------------------------------------------------------------------
(* One's complement sums are sums modulo W - 1 in which W - 1 stands for   *)
(* every non-zero multiple: a is the one's complement value of the number s. *)
Mod == W - 1

Ones(a, s) ==
    /\ a \in 0 .. W - 1
    /\ a = 0 <=> s = 0
    /\ \E q \in Nat : s = Mod * q + a

(* The modulus of one's complement sums is one less than that of u16.      *)
LEMMA ModIs == Mod \in Nat \ {0} /\ W = Mod + 1 /\ Mod >= 3
BY Widths DEF Mod

(* A number has one such value.                                            *)
LEMMA OnesUnique ==
    ASSUME NEW s \in Nat, NEW a, Ones(a, s), NEW b, Ones(b, s)
    PROVE  a = b
<1>1. PICK p \in Nat : s = Mod * p + a
  BY DEF Ones
<1>2. PICK q \in Nat : s = Mod * q + b
  BY DEF Ones
<1>3. a \in Nat /\ b \in Nat /\ a <= Mod /\ b <= Mod /\ (a = 0 <=> s = 0) /\ (b = 0 <=> s = 0)
  BY ModIs DEF Ones
<1>4. p - q \in Int /\ Mod * (p - q) = Mod * p - Mod * q
  BY ModIs
<1>5. Mod * (p - q) = b - a
  <2>1. Mod * p \in Nat /\ Mod * q \in Nat
    BY ModIs
  <2> QED
    BY <1>1, <1>2, <1>3, <1>4, <2>1
<1>6. CASE s = 0
  BY <1>3, <1>6
<1>7. CASE s # 0
  <2>1. a \in 1 .. Mod /\ b \in 1 .. Mod
    BY <1>3, <1>7, ModIs
  <2>2. p - q = 0
    <3> DEFINE d == p - q
    <3> HIDE DEF d
    <3>1. d \in Int /\ Mod * d = b - a
      BY <1>4, <1>5 DEF d
    <3>2. d # 0 => Mod * d >= Mod \/ Mod * d <= -Mod
      BY <3>1, ModIs, Multiple
    <3>3. d = 0
      BY <2>1, <3>1, <3>2, ModIs
    <3> QED
      BY <3>3 DEF d
  <2>3. Mod * (p - q) = 0
    BY <2>2, ModIs
  <2> QED
    BY <1>3, <1>5, <2>3
<1> QED
  BY <1>6, <1>7

(* Adding a word, with the carry brought round.                            *)
LEMMA OnesAdd ==
    ASSUME NEW s \in Nat, NEW a, Ones(a, s), NEW w \in 0 .. W - 1
    PROVE  Ones(EndAround(a, w), s + w)
<1>1. PICK q \in Nat : s = Mod * q + a
  BY DEF Ones
<1>2. a \in Nat /\ a <= Mod /\ w \in Nat /\ w <= Mod /\ (a = 0 <=> s = 0)
      /\ W = Mod + 1 /\ Mod \in Nat /\ Mod >= 3
  BY ModIs DEF Ones
<1>3. Mod * q \in Nat /\ Mod * (q + 1) = Mod * q + Mod /\ q + 1 \in Nat
  BY <1>2
<1>4. CASE a + w < W
  <2>1. EndAround(a, w) = a + w /\ a + w \in 0 .. W - 1
    BY <1>2, <1>4 DEF EndAround
  <2>2. s + w = Mod * q + (a + w) /\ (a + w = 0 <=> s + w = 0)
    BY <1>1, <1>2, <1>3
  <2> QED
    BY <2>1, <2>2 DEF Ones
<1>5. CASE a + w >= W
  <2>1. EndAround(a, w) = a + w - Mod /\ a + w - Mod \in 1 .. Mod
    BY <1>2, <1>5 DEF EndAround, Mod
  <2>2. s + w = Mod * (q + 1) + (a + w - Mod) /\ s + w # 0
    BY <1>1, <1>2, <1>3, <1>5
  <2> QED
    BY <1>2, <1>3, <2>1, <2>2 DEF Ones
<1> QED
  BY <1>2, <1>4, <1>5

(* A carry fold changes neither the value modulo W - 1 nor whether it is   *)
(* zero, so that two of them give the one's complement value.              *)
LEMMA OnesFold ==
    ASSUME NEW s \in 0 .. Acc - 1
    PROVE  Ones(CarryAdd(CarryAdd(s)), s)
<1>0. W = Mod + 1 /\ Mod \in Nat /\ Mod >= 3
  BY ModIs
<1>1. ASSUME NEW t \in 0 .. Acc - 1
      PROVE  /\ CarryAdd(t) \in Nat /\ CarryAdd(t) <= t /\ (CarryAdd(t) = 0 <=> t = 0)
             /\ \E q \in Nat : t = Mod * q + CarryAdd(t)
  <2> DEFINE h == t \div W
             l == t % W
  <2>1. h \in Nat /\ l \in Nat /\ t = h * W + l
    BY <1>0, Halves
  <2>2. CarryAdd(t) = l + h
    BY DEF CarryAdd
  <2> HIDE DEF h, l
  <2>3. h * W = Mod * h + h /\ Mod * h \in Nat
    BY <1>0, <2>1
  <2>4. t = Mod * h + CarryAdd(t)
    BY <2>1, <2>2, <2>3
  <2>5. h # 0 => h * W > 0
    BY <1>0, <2>1, <2>3
  <2>6. \E q \in Nat : t = Mod * q + CarryAdd(t)
    BY <2>1, <2>4
  <2>7. CarryAdd(t) \in Nat /\ CarryAdd(t) <= t
    BY <2>1, <2>2, <2>3
  <2>8. CarryAdd(t) = 0 <=> t = 0
    <3>1. CASE h = 0
      BY <1>0, <2>1, <2>2, <3>1
    <3>2. CASE h # 0
      BY <2>1, <2>2, <2>3, <2>5, <3>2
    <3> QED BY <3>1, <3>2
  <2> QED
    BY <2>6, <2>7, <2>8
<1> DEFINE c == CarryAdd(s)
           e == CarryAdd(c)
<1>2. Acc \in Nat /\ s \in Nat
  BY Widths
<1>3. PICK p \in Nat : s = Mod * p + c
  BY <1>1
<1>4. c \in 0 .. Acc - 1 /\ (c = 0 <=> s = 0)
  <2>1. c \in Nat /\ c <= s /\ (c = 0 <=> s = 0)
    BY <1>1
  <2> HIDE DEF c
  <2> QED
    BY <1>2, <2>1
<1> HIDE DEF c
<1>5. PICK q \in Nat : c = Mod * q + e
  BY <1>1, <1>4
<1>6. e = 0 <=> s = 0
  BY <1>1, <1>4
<1>7. e \in 0 .. W - 1
  BY TwoFolds DEF c
<1> HIDE DEF e
<1>8. Mod * (p + q) = Mod * p + Mod * q /\ Mod * p \in Nat /\ Mod * q \in Nat /\ p + q \in Nat
  BY <1>0
<1>9. s = Mod * (p + q) + e
  <2>1. e \in Nat
    BY <1>0, <1>7
  <2> QED
    BY <1>3, <1>5, <1>8, <2>1
<1>10. Ones(e, s)
  BY <1>6, <1>7, <1>8, <1>9 DEF Ones
<1> QED
  BY <1>10 DEF e, c
-----------------------------------------------------------------------------
(* The recursive function of OnesSum: it exists and is unique, and so has  *)
(* the values its definition says.                                         *)
Partial(d) ==
    CHOOSE f : f = [n \in 0 .. Words(d) |->
                      IF n = 0 THEN 0 ELSE EndAround(f[n - 1], WordAt(d, n))]

(* Every word of a byte string is a u16.                                   *)
LEMMA WordAtType ==
    ASSUME NEW d \in Seq(0 .. B - 1), NEW n \in 1 .. Words(d)
    PROVE  WordAt(d, n) \in 0 .. W - 1
<1>1. 2 * n - 1 \in 1 .. Len(d) /\ (2 * n <= Len(d) => 2 * n \in 1 .. Len(d))
  BY Counts
<1>2. d[2 * n - 1] \in 0 .. B - 1
  BY <1>1, ElementType
<1>3. (IF 2 * n <= Len(d) THEN d[2 * n] ELSE 0) \in 0 .. B - 1
  <2>1. 2 * n <= Len(d) => d[2 * n] \in 0 .. B - 1
    BY <1>1, ElementType
  <2>2. 0 \in 0 .. B - 1
    BY BaseAssumption
  <2> QED
    BY <2>1, <2>2
<1> QED
  BY <1>2, <1>3, WordType DEF WordAt

(* End-around addition stays within a u16.                                 *)
LEMMA EndAroundType ==
    ASSUME NEW a \in 0 .. W - 1, NEW b \in 0 .. W - 1
    PROVE  EndAround(a, b) \in 0 .. W - 1
BY Widths DEF EndAround

(* The function that holds the reference sums of the first words exists.   *)
LEMMA PartialExists ==
    ASSUME NEW d \in Seq(0 .. B - 1)
    PROVE  \E f : f = [n \in 0 .. Words(d) |->
                         IF n = 0 THEN 0 ELSE EndAround(f[n - 1], WordAt(d, n))]
<1> DEFINE Q(f, n) == \A m \in 0 .. n :
               f[m] = IF m = 0 THEN 0 ELSE EndAround(f[m - 1], WordAt(d, m))
           S == {n \in Nat : \E f : f = [m \in 0 .. n |-> f[m]] /\ Q(f, n)}
<1>0. Words(d) \in Nat
  BY Counts
<1>1. 0 \in S
  <2> DEFINE f == [m \in 0 .. 0 |-> 0]
  <2>1. f = [m \in 0 .. 0 |-> f[m]] /\ Q(f, 0)
    OBVIOUS
  <2> QED BY <2>1
<1>2. ASSUME NEW n \in Nat, n \in S
      PROVE  n + 1 \in S
  <2>1. PICK g : g = [m \in 0 .. n |-> g[m]] /\ Q(g, n)
    BY <1>2
  <2> DEFINE f == [m \in 0 .. n + 1 |->
                     IF m = n + 1 THEN EndAround(g[n], WordAt(d, n + 1)) ELSE g[m]]
  <2>2. ASSUME NEW m \in 0 .. n + 1
        PROVE  f[m] = IF m = 0 THEN 0 ELSE EndAround(f[m - 1], WordAt(d, m))
    <3>1. CASE m = n + 1
      <4>1. m - 1 = n /\ n \in 0 .. n + 1 /\ n # n + 1 /\ m # 0
        BY <3>1
      <4>2. f[m - 1] = g[n]
        BY <4>1
      <4> QED BY <3>1, <4>1, <4>2
    <3>2. CASE m # n + 1
      <4>1. m \in 0 .. n /\ (m # 0 => m - 1 \in 0 .. n + 1 /\ m - 1 # n + 1)
        BY <3>2
      <4>2. f[m] = g[m] /\ (m # 0 => f[m - 1] = g[m - 1])
        BY <3>2, <4>1
      <4>3. g[m] = IF m = 0 THEN 0 ELSE EndAround(g[m - 1], WordAt(d, m))
        BY <2>1, <4>1
      <4> QED BY <4>2, <4>3
    <3> QED BY <3>1, <3>2
  <2>3. f = [m \in 0 .. n + 1 |-> f[m]]
    OBVIOUS
  <2> HIDE DEF f
  <2>4. Q(f, n + 1) /\ n + 1 \in Nat
    BY <2>2
  <2> QED BY <2>3, <2>4
<1> HIDE DEF S
<1>3. Nat \subseteq S
  BY <1>1, <1>2, NatSetInduction
<1>4. PICK f : f = [m \in 0 .. Words(d) |-> f[m]] /\ Q(f, Words(d))
  BY <1>0, <1>3 DEF S
<1>5. f = [n \in 0 .. Words(d) |->
             IF n = 0 THEN 0 ELSE EndAround(f[n - 1], WordAt(d, n))]
  BY <1>4
<1> QED BY <1>5

(* So the reference sum is its last value, and each value follows from the *)
(* one before it.                                                          *)
LEMMA PartialIs ==
    ASSUME NEW d \in Seq(0 .. B - 1)
    PROVE  /\ OnesSum(d) = Partial(d)[Words(d)]
           /\ Partial(d)[0] = 0
           /\ \A n \in 1 .. Words(d) :
                 Partial(d)[n] = EndAround(Partial(d)[n - 1], WordAt(d, n))
<1>0. Words(d) \in Nat
  BY Counts
<1>1. OnesSum(d) = Partial(d)[Words(d)]
  BY DEF OnesSum, Partial
<1>2. Partial(d) = [n \in 0 .. Words(d) |->
        IF n = 0 THEN 0 ELSE EndAround(Partial(d)[n - 1], WordAt(d, n))]
  BY PartialExists DEF Partial
<1>3. \A n \in 0 .. Words(d) : Partial(d)[n] =
        IF n = 0 THEN 0 ELSE EndAround(Partial(d)[n - 1], WordAt(d, n))
  BY <1>2
<1>4. 0 \in 0 .. Words(d) /\ \A n \in 1 .. Words(d) : n \in 0 .. Words(d) /\ n # 0
  BY <1>0
<1> QED
  BY <1>1, <1>3, <1>4

-----------------------------------------------------------------------------
(* The inductive invariant of MatchesReference: the accumulator has the    *)
(* one's complement value of the words added so far.                       *)
RInv ==
    /\ Fits(input) /\ pc \in {"chunks", "fold", "done"} => Ones(Partial(input)[Added], sum)
    /\ pc = "done" => out = (W - 1) - (CarryAdd(CarryAdd(sum)) % W)

(* Adding the next word of the input.                                      *)
LEMMA ReferenceAdd ==
    ASSUME IInv, RInv, NEW w, NEW then \in {"chunks", "fold"}, Add(w, then),
           pc = "chunks", k + 1 <= Words(input), w = WordAt(input, k + 1),
           Fits(input)
    PROVE  Ones(Partial(input)[k + 1], sum') /\ pc' = then
<1>1. /\ k \in Nat /\ input \in Seq(0 .. B - 1) /\ Added = k /\ Words(input) \in Nat
      /\ sum \in Nat
  BY Widths, Counts DEF IInv, TypeOK, Added
<1>2. k + 1 \in 1 .. Words(input) /\ (k + 1) - 1 = k
  BY <1>1
<1>3. w \in 0 .. W - 1
  BY <1>1, <1>2, WordAtType
<1>4. Added + 1 <= W + 1
  BY <1>1, <1>2, Widths DEF Fits
<1>5. sum' = sum + w /\ pc' = then
  BY <1>3, <1>4, AddEffect
<1>6. Ones(Partial(input)[k], sum)
  BY <1>1 DEF RInv
<1>7. Partial(input)[k + 1] = EndAround(Partial(input)[k], w)
  BY <1>1, <1>2, PartialIs
<1> QED
  BY <1>1, <1>3, <1>5, <1>6, <1>7, OnesAdd

(* Every step preserves that the accumulator has the value of the          *)
(* reference sum.                                                          *)
LEMMA ReferenceStep ==
    ASSUME IInv, IInv', RInv, [Next]_vars
    PROVE  RInv'
<1>0. 0 \in 0 .. W - 1 /\ 0 = Mod * 0 + 0
  BY Widths, ModIs
<1>1. CASE Call
  <2>1. input' \in Seq(0 .. B - 1) /\ sum' = 0 /\ pc' = "chunks" /\ k' = 0 /\ Added' = 0
    BY <1>1, InputsAssumption DEF Call, Added
  <2>2. Ones(0, 0)
    BY <1>0 DEF Ones
  <2>3. Partial(input')[0] = 0
    BY <2>1, PartialIs
  <2> QED
    BY <2>1, <2>2, <2>3 DEF RInv
<1>2. CASE AddChunk
  <2> DEFINE w == Word(input[2 * k + 1], input[2 * k + 2])
  <2>1. /\ pc = "chunks" /\ k < Chunks(input) /\ k \in Nat /\ k' = k + 1
        /\ input' = input /\ input \in Seq(0 .. B - 1)
    BY <1>2, Counts DEF AddChunk, IInv, TypeOK
  <2>2. k + 1 <= Words(input) /\ 2 * (k + 1) <= Len(input)
        /\ 2 * (k + 1) - 1 = 2 * k + 1 /\ 2 * (k + 1) = 2 * k + 2
    BY <2>1, Counts
  <2>3. w = WordAt(input, k + 1)
    BY <2>2 DEF WordAt
  <2>4. Add(w, "chunks")
    BY <1>2 DEF AddChunk
  <2> HIDE DEF w
  <2>5. Fits(input) => Ones(Partial(input)[k + 1], sum')
    BY <2>1, <2>2, <2>3, <2>4, ReferenceAdd
  <2>6. pc' \in {"chunks", "panic"}
    BY <2>4 DEF Add
  <2>7. Added' = k + 1
    BY <2>1, <2>6 DEF Added
  <2> QED
    BY <2>1, <2>5, <2>6, <2>7 DEF RInv
<1>3. CASE AddRemainder
  <2> DEFINE w == Word(input[Len(input)], 0)
  <2>1. /\ pc = "chunks" /\ k = Chunks(input) /\ k \in Nat /\ k' = k
        /\ input' = input /\ input \in Seq(0 .. B - 1) /\ Len(input) % 2 = 1
    BY <1>3, Counts DEF AddRemainder, IInv, TypeOK
  <2>2. /\ k + 1 <= Words(input) /\ ~(2 * (k + 1) <= Len(input))
        /\ 2 * (k + 1) - 1 = Len(input)
    BY <2>1, Counts
  <2>3. w = WordAt(input, k + 1)
    BY <2>2 DEF WordAt
  <2>4. Add(w, "fold")
    BY <1>3 DEF AddRemainder
  <2> HIDE DEF w
  <2>5. Fits(input) => Ones(Partial(input)[k + 1], sum')
    BY <2>1, <2>2, <2>3, <2>4, ReferenceAdd
  <2>6. pc' \in {"fold", "panic"}
    BY <2>4 DEF Add
  <2>7. pc' = "fold" => Added' = k + 1
    BY <2>1, <2>6 DEF Added
  <2> QED
    BY <2>1, <2>5, <2>6, <2>7 DEF RInv
<1>4. CASE NoRemainder
  <2>1. /\ pc = "chunks" /\ pc' = "fold" /\ input' = input /\ k' = k /\ sum' = sum
        /\ Len(input) % 2 = 0
    BY <1>4 DEF NoRemainder
  <2>2. Added = k /\ Added' = k
    BY <2>1 DEF Added
  <2> QED
    BY <2>1, <2>2 DEF RInv
<1>5. CASE Fold
  <2>1. /\ pc = "fold" /\ pc' = "done" /\ input' = input /\ k' = k /\ sum' = sum
        /\ out' = (W - 1) - (CarryAdd(CarryAdd(sum)) % W)
    BY <1>5 DEF Fold
  <2>2. Added' = Added
    BY <2>1 DEF Added
  <2> QED
    BY <2>1, <2>2 DEF RInv
<1>6. CASE UNCHANGED vars
  BY <1>6 DEF vars, RInv, Added
<1> QED
  BY <1>1, <1>2, <1>3, <1>4, <1>5, <1>6 DEF Next

(* RInv gives the value returned.                                          *)
LEMMA Reference ==
    ASSUME IInv, RInv, pc = "done", Fits(input)
    PROVE  out = (W - 1) - OnesSum(input) /\ Ones(OnesSum(input), sum) /\ sum \in Nat
<1>1. /\ input \in Seq(0 .. B - 1) /\ sum \in 0 .. Acc - 1 /\ sum \in Nat
      /\ k = Chunks(input)
  BY Widths DEF IInv, TypeOK
<1>2. Added = Words(input)
  BY <1>1, Counts DEF Added
<1>3. Ones(OnesSum(input), sum)
  BY <1>1, <1>2, PartialIs DEF RInv
<1> DEFINE c == CarryAdd(CarryAdd(sum))
<1>4. c = OnesSum(input)
  BY <1>1, <1>3, OnesFold, OnesUnique
<1>5. c \in 0 .. W - 1 /\ out = (W - 1) - (c % W)
  BY <1>1, TwoFolds DEF RInv
<1> HIDE DEF c
<1>6. c % W = c
  BY <1>5, Widths
<1> QED
  BY <1>1, <1>3, <1>4, <1>5, <1>6

(* So it holds in every reachable state.                                   *)
LEMMA ReferenceInvariance == Spec => []RInv
<1>1. Init => RInv
  BY DEF Init, RInv
<1>2. IInv /\ IInv' /\ RInv /\ [Next]_vars => RInv'
  BY ReferenceStep
<1> QED
  BY <1>1, <1>2, Invariance, PTL DEF Spec

(* ip::checksum, which folds its carries at the end, returns the           *)
(* complement of the one's complement sum, for inputs of every length up   *)
(* to W + 1 words.                                                         *)
THEOREM MatchesReferenceHolds == Spec => []MatchesReference
<1>1. IInv /\ RInv => MatchesReference
  BY Reference DEF MatchesReference
<1> QED
  BY <1>1, Invariance, ReferenceInvariance, PTL

-----------------------------------------------------------------------------
(* Storing a u16 in a cleared word of the input.                           *)
LEMMA Stored ==
    ASSUME NEW d \in Seq(0 .. B - 1), NEW n \in 1 .. Chunks(d), NEW c \in 0 .. W - 1
    PROVE  LET e == StoredAt(d, n, c)
           IN  /\ e \in Seq(0 .. B - 1) /\ Words(e) = Words(d)
               /\ WordAt(e, n) = c
               /\ \A m \in 1 .. Words(d) : m # n => WordAt(e, m) = WordAt(d, m)
<1> DEFINE e == StoredAt(d, n, c)
           p == 2 * n - 1
           q == 2 * n
           hi == c \div B
           lo == c % B
<1>1. p \in 1 .. Len(d) /\ q \in 1 .. Len(d) /\ p # q /\ n \in Nat
  BY Counts
<1>2. B \in Nat \ {0} /\ c \in Nat /\ W = B * B /\ c < B * B
  BY BaseAssumption, Widths DEF W
<1>3. hi \in Nat /\ lo \in 0 .. B - 1 /\ c = B * hi + lo
  BY <1>2, Euclid
<1>4. hi \in 0 .. B - 1
  <2> HIDE DEF hi, lo
  <2>1. SUFFICES ASSUME hi >= B PROVE FALSE
    BY <1>2, <1>3
  <2>2. B * hi >= B * B
    <3>1. hi - B \in Nat /\ B * (hi - B) = B * hi - B * B /\ B * (hi - B) \in Nat
      BY <1>2, <1>3, <2>1
    <3> QED BY <1>2, <1>3, <3>1
  <2> QED
    BY <1>2, <1>3, <2>2
<1> HIDE DEF hi, lo
<1>5. e = [d EXCEPT ![p] = hi, ![q] = lo]
  BY DEF StoredAt, hi, lo
<1> HIDE DEF e
<1>6. /\ e \in Seq(0 .. B - 1) /\ Len(e) = Len(d) /\ e[p] = hi /\ e[q] = lo
      /\ \A m \in 1 .. Len(d) : m # p /\ m # q => e[m] = d[m]
  <2> HIDE DEF p, q
  <2> QED
    BY <1>1, <1>3, <1>4, <1>5
<1>7. WordAt(e, n) = c
  <2>1. WordAt(e, n) = Word(hi, lo)
    BY <1>1, <1>6 DEF WordAt
  <2>2. hi * B = B * hi
    BY <1>2, <1>3
  <2> QED
    BY <1>3, <2>1, <2>2 DEF Word
<1>8. ASSUME NEW m \in 1 .. Words(d), m # n
      PROVE  WordAt(e, m) = WordAt(d, m)
  <2>1. /\ 2 * m - 1 \in 1 .. Len(d) /\ 2 * m - 1 # p /\ 2 * m - 1 # q
        /\ 2 * m <= Len(d) => 2 * m \in 1 .. Len(d)
        /\ 2 * m # p /\ 2 * m # q
    BY <1>1, <1>8, Counts
  <2>2. e[2 * m - 1] = d[2 * m - 1] /\ (2 * m <= Len(d) => e[2 * m] = d[2 * m])
    BY <1>6, <2>1
  <2> QED
    BY <1>6, <2>2 DEF WordAt
<1>9. Words(e) = Words(d)
  BY <1>6 DEF Words
<1> QED
  BY <1>6, <1>7, <1>8, <1>9 DEF e

(* The sums with and without the stored word go side by side.              *)
LEMMA SideBySide ==
    ASSUME NEW d \in Seq(0 .. B - 1), NEW n \in 1 .. Chunks(d), NEW c \in 0 .. W - 1,
           WordAt(d, n) = 0
    PROVE  \E s \in Nat : /\ Ones(OnesSum(d), s)
                          /\ Ones(OnesSum(StoredAt(d, n, c)), s + c)
<1> DEFINE e == StoredAt(d, n, c)
<1>1. /\ e \in Seq(0 .. B - 1) /\ Words(e) = Words(d) /\ WordAt(e, n) = c
      /\ \A m \in 1 .. Words(d) : m # n => WordAt(e, m) = WordAt(d, m)
  BY Stored
<1> HIDE DEF e
<1> DEFINE More(m) == IF m >= n THEN c ELSE 0
           Both(m) == \E s \in Nat : /\ Ones(Partial(d)[m], s)
                                     /\ Ones(Partial(e)[m], s + More(m))
           S == {m \in Nat : m <= Words(d) => Both(m)}
<1>2. /\ Words(d) \in Nat /\ n \in 1 .. Words(d) /\ c \in Nat
  BY Counts, Widths
<1>3. /\ Partial(d)[0] = 0 /\ Partial(e)[0] = 0
      /\ OnesSum(d) = Partial(d)[Words(d)] /\ OnesSum(e) = Partial(e)[Words(d)]
      /\ \A m \in 1 .. Words(d) :
            /\ Partial(d)[m] = EndAround(Partial(d)[m - 1], WordAt(d, m))
            /\ Partial(e)[m] = EndAround(Partial(e)[m - 1], WordAt(e, m))
  BY <1>1, PartialIs
<1>4. 0 \in S
  <2>1. Ones(0, 0)
    <3>1. 0 \in 0 .. W - 1 /\ 0 = Mod * 0 + 0
      BY Widths, ModIs
    <3> QED BY <3>1 DEF Ones
  <2>2. More(0) = 0
    BY <1>2
  <2> HIDE DEF More
  <2>3. Both(0)
    BY <1>3, <2>1, <2>2
  <2> QED BY <2>3
<1>5. ASSUME NEW m \in Nat, m \in S, m + 1 <= Words(d)
      PROVE  Both(m + 1)
  <2>1. PICK s \in Nat : Ones(Partial(d)[m], s) /\ Ones(Partial(e)[m], s + More(m))
    BY <1>5, <1>2
  <2>2. m + 1 \in 1 .. Words(d) /\ (m + 1) - 1 = m /\ More(m) \in Nat
    BY <1>2, <1>5
  <2> DEFINE v == WordAt(d, m + 1)
             w == WordAt(e, m + 1)
  <2>3. v \in 0 .. W - 1 /\ w \in 0 .. W - 1 /\ v \in Nat /\ w \in Nat
    BY <1>1, <2>2, WordAtType, Widths
  <2>4. /\ Partial(d)[m + 1] = EndAround(Partial(d)[m], v)
        /\ Partial(e)[m + 1] = EndAround(Partial(e)[m], w)
    BY <1>3, <2>2
  <2>5. More(m) + w = v + More(m + 1)
    <3>1. CASE m + 1 = n
      BY <1>1, <1>2, <2>3, <3>1
    <3>2. CASE m + 1 # n
      <4>1. v = w
        BY <1>1, <2>2, <3>2
      <4>2. More(m) = More(m + 1)
        BY <1>2, <3>2
      <4> QED BY <2>2, <2>3, <4>1, <4>2
    <3> QED BY <3>1, <3>2
  <2> HIDE DEF v, w
  <2>6. Ones(Partial(d)[m + 1], s + v)
    BY <2>1, <2>3, <2>4, OnesAdd
  <2>7. Ones(Partial(e)[m + 1], (s + More(m)) + w)
    <3>1. s + More(m) \in Nat
      BY <2>1, <2>2
    <3> HIDE DEF More
    <3> QED
      BY <2>1, <2>3, <2>4, <3>1, OnesAdd
  <2>8. More(m + 1) \in Nat
    BY <1>2
  <2> HIDE DEF More
  <2>9. (s + More(m)) + w = (s + v) + More(m + 1) /\ s + v \in Nat
    <3> DEFINE x == More(m)
               y == More(m + 1)
    <3>1. x \in Nat /\ y \in Nat /\ x + w = v + y /\ v \in Nat /\ w \in Nat
      BY <2>2, <2>3, <2>5, <2>8
    <3> HIDE DEF x, y
    <3>2. (s + x) + w = (s + v) + y /\ s + v \in Nat
      BY <3>1
    <3> QED
      BY <3>2 DEF x, y
  <2> QED
    BY <2>6, <2>7, <2>9
<1> HIDE DEF More
<1>6. \A m \in Nat : m \in S => m + 1 \in S
  <2> SUFFICES ASSUME NEW m \in Nat, m \in S PROVE m + 1 \in S
    OBVIOUS
  <2>1. m + 1 <= Words(d) => Both(m + 1)
    BY <1>5
  <2> HIDE DEF Both
  <2> QED BY <2>1
<1> HIDE DEF S
<1>7. Nat \subseteq S
  BY <1>4, <1>6, NatSetInduction
<1>8. Both(Words(d)) /\ More(Words(d)) = c
  BY <1>2, <1>7 DEF S, More
<1> QED
  BY <1>3, <1>8 DEF e

(* A receiver that sums the bytes with the checksum in its cleared,        *)
(* aligned place gets all ones: what the validate cases of the unit tests  *)
(* rely on.                                                                *)
THEOREM VerifiesToZeroHolds == Spec => []VerifiesToZero
<1>1. IInv /\ RInv => VerifiesToZero
  <2> SUFFICES ASSUME IInv, RInv, pc = "done", Fits(input),
                      NEW n \in 1 .. Chunks(input), WordAt(input, n) = 0
               PROVE  OnesSum(StoredAt(input, n, out)) = W - 1
    BY DEF VerifiesToZero
  <2> DEFINE a == OnesSum(input)
             b == OnesSum(StoredAt(input, n, out))
  <2>1. input \in Seq(0 .. B - 1) /\ out \in 0 .. W - 1 /\ out = (W - 1) - a
    BY Reference DEF IInv, TypeOK
  <2>2. PICK s \in Nat : Ones(a, s) /\ Ones(b, s + out)
    BY <2>1, SideBySide
  <2> HIDE DEF a, b
  <2>3. PICK q \in Nat : s = Mod * q + a
    BY <2>2 DEF Ones
  <2>4. a \in Nat /\ W = Mod + 1 /\ Mod \in Nat /\ Mod >= 3 /\ Mod * q \in Nat
    BY <2>2, ModIs DEF Ones
  <2>5. s + out = Mod * q + Mod /\ s + out \in Nat /\ s + out # 0
    BY <2>1, <2>3, <2>4
  <2>6. Mod \in 0 .. W - 1 /\ Mod # 0
    BY <2>4
  <2>7. Ones(Mod, s + out)
    BY <2>5, <2>6 DEF Ones
  <2>8. b = Mod
    BY <2>2, <2>5, <2>7, OnesUnique
  <2> QED
    BY <2>8 DEF b, Mod
<1> QED
  BY <1>1, Invariance, ReferenceInvariance, PTL
=============================================================================
