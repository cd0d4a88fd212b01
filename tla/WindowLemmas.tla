---------------------------- MODULE WindowLemmas ----------------------------
(***************************************************************************)
(* Facts about numbers and finite sets that the proofs about windows of    *)
(* times need.  That a set of numbers has a least one is shown from the    *)
(* order of finite sets by inclusion, so that no scheme of induction has   *)
(* to be instantiated.                                                     *)
(***************************************************************************)
EXTENDS Integers, Sequences, FiniteSetTheorems, SequenceTheorems, TLAPS

LEMMA LeastNatural ==
    ASSUME NEW T \in SUBSET Nat, T # {}
    PROVE  \E x \in T : \A y \in T : x <= y
<1> DEFINE Below == {0 .. n : n \in T}
<1>1. Below \subseteq FiniteSubsetsOf(Nat) /\ Below # {}
  <2>1. \A n \in T : 0 .. n \in SUBSET Nat /\ IsFiniteSet(0 .. n)
    BY FS_Interval
  <2> QED
    BY <2>1 DEF FiniteSubsetsOf
<1>2. IsWellFoundedOn(StrictSubsetOrdering(Nat), FiniteSubsetsOf(Nat))
  BY FS_StrictSubsetOrderingWellFounded
<1>3. PICK b \in Below : \A c \in Below : <<c, b>> \notin StrictSubsetOrdering(Nat)
  BY <1>1, <1>2, WFMin
<1>4. PICK x \in T : b = 0 .. x
  BY <1>3
<1>5. ASSUME NEW y \in T, y < x PROVE FALSE
  <2>1. 0 .. y \in Below /\ 0 .. y \subseteq 0 .. x /\ 0 .. y # 0 .. x
    BY <1>5
  <2>2. <<0 .. y, b>> \in StrictSubsetOrdering(Nat)
    BY <1>1, <1>4, <2>1 DEF StrictSubsetOrdering, FiniteSubsetsOf
  <2> QED
    BY <1>3, <2>1, <2>2
<1> QED
  BY <1>4, <1>5

LEMMA GreatestNatural ==
    ASSUME NEW n \in Nat, NEW T \in SUBSET (1 .. n), T # {}
    PROVE  \E x \in T : \A y \in T : y <= x
<1> DEFINE Above == {m \in 0 .. n : \E t \in T : m = n - t}
<1>1. Above \in SUBSET Nat /\ Above # {}
  <2>1. PICK t \in T : TRUE
    OBVIOUS
  <2>2. n - t \in 0 .. n
    OBVIOUS
  <2>3. n - t \in Above
    BY <2>2
  <2>4. Above \subseteq 0 .. n /\ 0 .. n \subseteq Nat
    OBVIOUS
  <2> QED
    BY <2>3, <2>4
<1>2. PICK m \in Above : \A k \in Above : m <= k
  BY <1>1, LeastNatural
<1>3. PICK x \in T : m = n - x
  BY <1>2
<1>4. \A y \in T : n - y \in Above
  OBVIOUS
<1>5. ASSUME NEW y \in T PROVE y <= x
  <2>1. m <= n - y
    BY <1>2, <1>4
  <2> QED
    BY <1>3, <2>1
<1> QED
  BY <1>5

(* Of the places 1 .. n, those before the first that is kept are old.      *)
LEMMA FirstKept ==
    ASSUME NEW n \in Nat, NEW Old \in SUBSET (1 .. n)
    PROVE  \E k \in 0 .. n : 1 .. k \subseteq Old /\ (k < n => k + 1 \notin Old)
<1> DEFINE Kept == (1 .. n + 1) \ Old
<1>1. n + 1 \in Kept /\ Kept \subseteq Nat
  OBVIOUS
<1>2. PICK x \in Kept : \A y \in Kept : x <= y
  BY <1>1, LeastNatural
<1>3. x - 1 \in 0 .. n /\ 1 .. (x - 1) \subseteq Old /\ (x - 1) + 1 = x
  BY <1>1, <1>2
<1> QED
  BY <1>2, <1>3

(* A sequence holds no more elements than it is long. *)
LEMMA RangeIsSmall ==
    ASSUME NEW S, NEW s \in Seq(S), NEW T \in SUBSET S, \A x \in T : \E n \in DOMAIN s : s[n] = x
    PROVE  IsFiniteSet(T) /\ Cardinality(T) <= Len(s)
<1> DEFINE R == {s[n] : n \in 1 .. Len(s)}
<1>1. Len(s) \in Nat /\ DOMAIN s = 1 .. Len(s)
  BY LenProperties
<1>2. IsFiniteSet(1 .. Len(s)) /\ Cardinality(1 .. Len(s)) = Len(s)
  BY <1>1, FS_Interval
<1> DEFINE f == [n \in 1 .. Len(s) |-> s[n]]
<1>3. f \in Surjection(1 .. Len(s), R)
  BY DEF Surjection
<1>4. IsFiniteSet(R) /\ Cardinality(R) <= Len(s)
  BY <1>2, <1>3, FS_Surjection
<1>5. T \subseteq R
  BY <1>1
<1>6. Cardinality(T) \in Nat /\ Cardinality(R) \in Nat /\ IsFiniteSet(T) /\ Cardinality(T) <= Cardinality(R)
  BY <1>4, <1>5, FS_Subset, FS_CardinalityType
<1> QED
  BY <1>1, <1>4, <1>6
=============================================================================
