----------------------------- MODULE IpChecksum -----------------------------
(***************************************************************************)
(* ip::checksum as the loop it is: 16-bit big-endian chunks added into a   *)
(* 32-bit accumulator, an odd last byte padded with zero, two carry folds  *)
(* and a complement.  Bytes are digits in base B (256 in the code), so     *)
(* that the widths can be scaled together and overflow can be reached.     *)
(***************************************************************************)
EXTENDS Integers, Sequences

CONSTANTS
    B,        \* values of a byte
    Inputs    \* byte strings the function is called with

ASSUME BaseAssumption == B \in Nat /\ B >= 2
ASSUME InputsAssumption == Inputs \subseteq Seq(0 .. B - 1)

VARIABLES
    input,   \* the argument
    k,       \* chunks added so far
    sum,     \* the u32 accumulator
    pc,      \* "idle", "chunks", "fold", "done" or "panic"
    out      \* the value returned

vars == <<input, k, sum, pc, out>>

W   == B * B    \* values of a u16

(* Mutant: the accumulator is a u16.                                       *)
AccNarrow == W

Acc == W * W    \* values of a u32

Chunks(d) == Len(d) \div 2

Word(hi, lo) == hi * B + lo

Init ==
    /\ input = <<>>
    /\ k = 0
    /\ sum = 0
    /\ pc = "idle"
    /\ out = 0

Call ==
    /\ pc = "idle"
    /\ \E d \in Inputs : input' = d
    /\ k' = 0
    /\ sum' = 0
    /\ pc' = "chunks"
    /\ UNCHANGED out

(* sum += w: beyond a u32 a build with overflow checks panics, one without *)
(* wraps.                                                                  *)
Add(w, then) ==
    \/ /\ sum' = (sum + w) % Acc
       /\ pc' = then
    \/ /\ sum + w >= Acc
       /\ pc' = "panic"
       /\ UNCHANGED sum

AddChunk ==
    /\ pc = "chunks" /\ k < Chunks(input)
    /\ Add(Word(input[2 * k + 1], input[2 * k + 2]), "chunks")
    /\ k' = k + 1
    /\ UNCHANGED <<input, out>>

(* Mutant: the odd byte is taken for the low one of its chunk.             *)
AddRemainderLow ==
    /\ pc = "chunks" /\ k = Chunks(input) /\ Len(input) % 2 = 1
    /\ Add(Word(0, input[Len(input)]), "fold")
    /\ UNCHANGED <<input, k, out>>

AddRemainder ==
    /\ pc = "chunks" /\ k = Chunks(input) /\ Len(input) % 2 = 1
    /\ Add(Word(input[Len(input)], 0), "fold")
    /\ UNCHANGED <<input, k, out>>

NoRemainder ==
    /\ pc = "chunks" /\ k = Chunks(input) /\ Len(input) % 2 = 0
    /\ pc' = "fold"
    /\ UNCHANGED <<input, k, sum, out>>

(* Mutant: the carry is shifted down by one byte only.                     *)
CarryAddByte(s) == (s % W) + (s \div B)

CarryAdd(s) == (s % W) + (s \div W)

(* Mutants: a single fold; no complement.                                  *)
FoldOnce ==
    /\ pc = "fold"
    /\ out' = (W - 1) - CarryAdd(sum)
    /\ pc' = "done"
    /\ UNCHANGED <<input, k, sum>>

FoldPlain ==
    /\ pc = "fold"
    /\ out' = CarryAdd(CarryAdd(sum)) % W
    /\ pc' = "done"
    /\ UNCHANGED <<input, k, sum>>

(* The cast to u16 keeps the low digits; ! is the complement in a u16.     *)
Fold ==
    /\ pc = "fold"
    /\ out' = (W - 1) - (CarryAdd(CarryAdd(sum)) % W)
    /\ pc' = "done"
    /\ UNCHANGED <<input, k, sum>>

Next == Call \/ AddChunk \/ AddRemainder \/ NoRemainder \/ Fold

Spec == Init /\ [][Next]_vars

-----------------------------------------------------------------------------
(* The reference: one's complement addition, which brings the carry round  *)
(* after every word.                                                       *)

Words(d) == (Len(d) + 1) \div 2

WordAt(d, n) == Word(d[2 * n - 1], IF 2 * n <= Len(d) THEN d[2 * n] ELSE 0)

EndAround(a, b) == IF a + b < W THEN a + b ELSE a + b - (W - 1)

OnesSum(d) ==
    LET upTo[n \in 0 .. Words(d)] ==
            IF n = 0 THEN 0 ELSE EndAround(upTo[n - 1], WordAt(d, n))
    IN  upTo[Words(d)]

(* Inputs short enough for the accumulator: 65537 words in the code.       *)
Fits(d) == Words(d) <= W + 1

-----------------------------------------------------------------------------
(* Properties.                                                             *)

(* Every variable has its type; the accumulator is a u32 and the result a  *)
(* u16.                                                                    *)
TypeOK ==
    /\ input \in Seq(0 .. B - 1)
    /\ k \in 0 .. Chunks(input)
    /\ sum \in 0 .. Acc - 1
    /\ pc \in {"idle", "chunks", "fold", "done", "panic"}
    /\ out \in 0 .. W - 1

(* The accumulator of ip::checksum does not overflow, and so no build      *)
(* panics, on any input of at most W + 1 words.                            *)
NoPanic == Fits(input) => pc # "panic"

(* Two folds are enough: whatever the u32 accumulator holds, the cast to   *)
(* u16 at the end of ip::checksum drops nothing.                           *)
CastExact == CarryAdd(CarryAdd(sum)) < W

(* Postponing the carries to two folds at the end gives the complement of  *)
(* the one's complement sum, odd lengths included.                         *)
MatchesReference ==
    pc = "done" /\ Fits(input) => out = (W - 1) - OnesSum(input)

(* A receiver that sums the bytes with the checksum stored in any cleared, *)
(* 16-bit aligned place of the input gets all ones, whose complement is    *)
(* zero: what the validate cases of the unit tests check for two inputs.   *)
StoredAt(d, n, c) == [d EXCEPT ![2 * n - 1] = c \div B, ![2 * n] = c % B]

VerifiesToZero ==
    pc = "done" /\ Fits(input) =>
        \A n \in 1 .. Chunks(input) :
            WordAt(input, n) = 0 => OnesSum(StoredAt(input, n, out)) = W - 1
=============================================================================
