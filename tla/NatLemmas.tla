------------------------------ MODULE NatLemmas ------------------------------
(***************************************************************************)
(* Facts about the natural numbers that the proofs of several components   *)
(* rest on: remainders for every modulus, and induction.  Induction is     *)
(* stated for a set of numbers, not for a predicate, so that every step of *)
(* it is first-order; it follows from the well-foundedness of strict       *)
(* inclusion on finite sets.                                               *)
(***************************************************************************)
EXTENDS Integers, Sequences, FiniteSets, FiniteSetTheorems,
        WellFoundedInduction, TLAPS

(* A non-zero multiple is at least as far from zero as the modulus.        *)
LEMMA Multiple ==
    ASSUME NEW M \in Nat \ {0}, NEW d \in Int, d # 0
    PROVE  M * d >= M \/ M * d <= -M
<1>1. CASE d >= 1
  <2>1. M * (d - 1) >= 0
    BY <1>1, SMT
  <2>2. M * (d - 1) = M * d - M
    BY SMT
  <2> QED BY <2>1, <2>2
<1>2. CASE d <= -1
  <2>1. M * (-1 - d) >= 0
    BY <1>2, SMT
  <2>2. M * (-1 - d) = -M - M * d
    BY SMT
  <2> QED BY <2>1, <2>2
<1> QED BY <1>1, <1>2

(* Division with remainder.                                                *)
LEMMA Euclid ==
    ASSUME NEW M \in Nat \ {0}, NEW x \in Nat
    PROVE  /\ x \div M \in Nat /\ x % M \in 0 .. M - 1
           /\ x = M * (x \div M) + (x % M)
  BY SMT

(* A remainder may be taken before an addition as well as after it: the    *)
(* wrapping additions of the code can be regrouped.                        *)
LEMMA ModAdd ==
    ASSUME NEW M \in Nat \ {0}, NEW a \in Nat, NEW b \in Nat
    PROVE  ((a % M) + b) % M = (a + b) % M
<1> DEFINE q == a \div M
           r == a % M
           p == (r + b) \div M
           s == (r + b) % M
           u == (a + b) \div M
           v == (a + b) % M
<1>1. q \in Nat /\ r \in 0 .. M - 1 /\ a = M * q + r
  BY Euclid
<1>2. r + b \in Nat /\ a + b \in Nat
  BY <1>1, SMT
<1>3. p \in Nat /\ s \in 0 .. M - 1 /\ r + b = M * p + s
  BY <1>2, Euclid
<1>4. u \in Nat /\ v \in 0 .. M - 1 /\ a + b = M * u + v
  BY <1>2, Euclid
<1> HIDE DEF q, r, p, s, u, v
<1>5. M * (q + p) = M * q + M * p
  BY <1>1, <1>3, SMT
<1>6. M * (q + p) + s = M * u + v
  BY <1>1, <1>3, <1>4, <1>5, SMT
<1> DEFINE t == q + p
<1>7. t \in Int /\ u \in Int /\ M * t + s = M * u + v
  BY <1>1, <1>3, <1>4, <1>6, SMT
<1> HIDE DEF t
<1>8. M * (t - u) = v - s
  <2>1. M * (t - u) = M * t - M * u
    BY <1>7, SMT
  <2> QED BY <1>3, <1>4, <1>7, <2>1, SMT
<1>9. t = u
  BY <1>3, <1>4, <1>7, <1>8, Multiple, SMT
<1>10. s = v
  BY <1>3, <1>4, <1>7, <1>9, SMT
<1> QED BY <1>10 DEF r, s, v

(* A set that holds zero and every successor of its members holds every    *)
(* natural number.                                                         *)
THEOREM NatSetInduction ==
    ASSUME NEW S, 0 \in S, \A n \in Nat : n \in S => n + 1 \in S
    PROVE  Nat \subseteq S
<1> SUFFICES ASSUME NEW n \in Nat, n \notin S
             PROVE  FALSE
  OBVIOUS
<1> DEFINE T == {0 .. k : k \in {i \in Nat : i \notin S}}
<1>1. T \subseteq FiniteSubsetsOf(Nat)
  <2> SUFFICES ASSUME NEW k \in Nat PROVE 0 .. k \in FiniteSubsetsOf(Nat)
    OBVIOUS
  <2>1. IsFiniteSet(0 .. k)
    BY FS_Interval
  <2> QED BY <2>1 DEF FiniteSubsetsOf
<1>2. PICK x \in T : \A y \in T : <<y, x>> \notin StrictSubsetOrdering(Nat)
  <2>1. T # {}
    OBVIOUS
  <2> QED BY <1>1, <2>1, FS_StrictSubsetOrderingWellFounded, WFMin
<1>3. PICK k \in Nat : k \notin S /\ x = 0 .. k
  OBVIOUS
<1>4. k # 0 /\ k - 1 \in Nat /\ (k - 1) + 1 = k
  BY <1>3
<1>5. k - 1 \notin S
  BY <1>3, <1>4
<1>6. 0 .. (k - 1) \in T
  BY <1>4, <1>5
<1>7. <<0 .. (k - 1), 0 .. k>> \in StrictSubsetOrdering(Nat)
  BY <1>4 DEF StrictSubsetOrdering
<1> QED BY <1>2, <1>3, <1>6, <1>7

-----------------------------------------------------------------------------
(* f holds the sums of the first members of s, as the recursive functions  *)
(* of the models define them.                                              *)
PrefixSums(f, s, n) ==
    f = [m \in 0 .. n |-> IF m = 0 THEN 0 ELSE f[m - 1] + s[m]]

(* Such a function exists for every sequence of numbers, and its values    *)
(* are numbers.                                                            *)
LEMMA SumsExist ==
    ASSUME NEW s \in Seq(Nat)
    PROVE  \E f \in [0 .. Len(s) -> Nat] : PrefixSums(f, s, Len(s))
<1> DEFINE P(n) == n <= Len(s) => \E f \in [0 .. n -> Nat] : PrefixSums(f, s, n)
           S == {n \in Nat : P(n)}
<1>1. 0 \in S
  <2> DEFINE f == [m \in 0 .. 0 |-> 0]
  <2>1. f \in [0 .. 0 -> Nat] /\ PrefixSums(f, s, 0)
    BY DEF PrefixSums
  <2> QED BY <2>1
<1>2. ASSUME NEW n \in Nat, n \in S, n + 1 <= Len(s)
      PROVE  \E f \in [0 .. n + 1 -> Nat] : PrefixSums(f, s, n + 1)
  <2>1. PICK g \in [0 .. n -> Nat] : PrefixSums(g, s, n)
    BY <1>2
  <2>2. s[n + 1] \in Nat
    BY <1>2
  <2> DEFINE f == [m \in 0 .. n + 1 |-> IF m = n + 1 THEN g[n] + s[n + 1] ELSE g[m]]
  <2>3. f \in [0 .. n + 1 -> Nat]
    BY <2>1, <2>2
  <2>4. ASSUME NEW m \in 0 .. n + 1
        PROVE  f[m] = IF m = 0 THEN 0 ELSE f[m - 1] + s[m]
    <3>1. CASE m = n + 1
      BY <3>1, <2>2
    <3>2. CASE m # n + 1
      <4>1. m \in 0 .. n /\ f[m] = g[m] /\ (m # 0 => f[m - 1] = g[m - 1])
        BY <3>2
      <4>2. g[m] = IF m = 0 THEN 0 ELSE g[m - 1] + s[m]
        BY <2>1, <4>1 DEF PrefixSums
      <4> QED BY <4>1, <4>2
    <3> QED BY <3>1, <3>2
  <2>5. f = [m \in 0 .. n + 1 |-> f[m]]
    OBVIOUS
  <2> HIDE DEF f
  <2>6. PrefixSums(f, s, n + 1)
    BY <2>4, <2>5 DEF PrefixSums
  <2> QED BY <2>3, <2>6
<1>3. \A n \in Nat : n \in S => n + 1 \in S
  <2> SUFFICES ASSUME NEW n \in Nat, n \in S PROVE n + 1 \in S
    OBVIOUS
  <2>1. n + 1 <= Len(s) => \E f \in [0 .. n + 1 -> Nat] : PrefixSums(f, s, n + 1)
    BY <1>2
  <2> HIDE DEF P
  <2>2. P(n + 1)
    BY <2>1 DEF P
  <2> QED BY <2>2
<1> HIDE DEF S
<1>4. Nat \subseteq S
  BY <1>1, <1>3, NatSetInduction
<1> QED BY <1>4 DEF S

(* It is the only one.                                                     *)
LEMMA SumsUnique ==
    ASSUME NEW s \in Seq(Nat), NEW f, PrefixSums(f, s, Len(s)),
           NEW g, PrefixSums(g, s, Len(s))
    PROVE  f[Len(s)] = g[Len(s)]
<1> DEFINE S == {n \in Nat : n <= Len(s) => f[n] = g[n]}
<1>0. \A n \in 0 .. Len(s) : /\ f[n] = IF n = 0 THEN 0 ELSE f[n - 1] + s[n]
                             /\ g[n] = IF n = 0 THEN 0 ELSE g[n - 1] + s[n]
  BY DEF PrefixSums
<1>1. 0 \in S
  BY <1>0
<1>2. \A n \in Nat : n \in S => n + 1 \in S
  <2> SUFFICES ASSUME NEW n \in Nat, n \in S, n + 1 <= Len(s)
               PROVE  f[n + 1] = g[n + 1]
    OBVIOUS
  <2>1. n + 1 \in 0 .. Len(s) /\ n + 1 # 0 /\ (n + 1) - 1 = n /\ f[n] = g[n]
    OBVIOUS
  <2> QED BY <1>0, <2>1
<1> HIDE DEF S
<1>3. Nat \subseteq S
  BY <1>1, <1>2, NatSetInduction
<1> QED BY <1>3 DEF S
=============================================================================
