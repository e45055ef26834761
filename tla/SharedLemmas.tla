----------------------------- MODULE SharedLemmas -----------------------------
(***************************************************************************)
(* Lemmas that the proofs about several components rest on.  Induction is  *)
(* used in the form that a set of natural numbers that is not empty has a  *)
(* least element; from it, that a function on 0 .. n can be defined from   *)
(* its own value at the number before.  And what becomes of a sequence     *)
(* whose first part is moved to its end.                                   *)
(***************************************************************************)
EXTENDS Integers, Sequences, NaturalsInduction, WellFoundedInduction, TLAPS

\* Every set of natural numbers that is not empty has a least element.
LEMMA Least ==
    ASSUME NEW S \in SUBSET Nat, S # {}
    PROVE  \E m \in S : \A k \in S : m <= k
  <1> DEFINE less == {ss \in Nat \X Nat : ss[1] < ss[2]}
  <1>1. IsWellFoundedOn(less, Nat)
    BY NatLessThanWellFounded, Zenon DEF OpToRel
  <1> HIDE DEF less
  <1>2. PICK m \in S : \A k \in S : <<k, m>> \notin less
    BY <1>1, WFMin
  <1>3. ASSUME NEW k \in S PROVE ~ (k < m)
    <2>1. <<k, m>> \in Nat \X Nat /\ <<k, m>>[1] = k /\ <<k, m>>[2] = m
      OBVIOUS
    <2> QED
      BY <2>1, <1>2 DEF less
  <1> QED
    BY <1>3

\* A set with 0, and with every number up to n after one of its numbers.
LEMMA Upwards ==
    ASSUME NEW n \in Nat, NEW T, 0 \in T, \A k \in 1 .. n : k - 1 \in T => k \in T
    PROVE  0 .. n \subseteq T
  <1> DEFINE Missing == (0 .. n) \ T
  <1> SUFFICES ASSUME Missing # {} PROVE FALSE
    OBVIOUS
  <1>1. PICK m \in Missing : \A k \in Missing : m <= k
    <2>1. Missing \in SUBSET Nat
      OBVIOUS
    <2> HIDE DEF Missing
    <2> QED
      BY <2>1, Least
  <1>2. m \in 0 .. n /\ m \notin T /\ m # 0
    OBVIOUS
  <1>3. m \in 1 .. n /\ m - 1 \in 0 .. n /\ ~ (m <= m - 1)
    BY <1>2
  <1>4. m - 1 \in T
    BY <1>1, <1>3
  <1> QED
    BY <1>2, <1>3, <1>4

\* Each value is computed by F from the one before and its own number.
Follows(g, n, R, base, F) ==
    /\ g \in [0 .. n -> R] /\ g[0] = base
    /\ \A k \in 1 .. n : g[k] = F[<<g[k - 1], k>>]

LEMMA DefinedFromBefore ==
    ASSUME NEW n \in Nat, NEW R, NEW base \in R, NEW F \in [R \X (1 .. n) -> R]
    PROVE  \E g : Follows(g, n, R, base, F)
  <1> DEFINE Defines(m, g) == Follows(g, m, R, base, F)
             Good == {m \in 0 .. n : \E g : Defines(m, g)}
  <1>1. 0 \in Good
    <2> DEFINE g == [k \in 0 .. 0 |-> base]
    <2>1. Defines(0, g)
      BY DEF Follows
    <2> HIDE DEF Defines, g
    <2> QED
      BY <2>1
  <1>2. ASSUME NEW m \in 1 .. n, m - 1 \in Good PROVE m \in Good
    <2>1. PICK f : Defines(m - 1, f)
      <3> HIDE DEF Defines
      <3> QED
        BY <1>2
    <2> DEFINE g == [k \in 0 .. m |-> IF k < m THEN f[k] ELSE F[<<f[m - 1], m>>]]
    <2>2. f \in [0 .. m - 1 -> R] /\ f[0] = base
          /\ \A k \in 1 .. m - 1 : f[k] = F[<<f[k - 1], k>>]
      BY <2>1 DEF Follows
    <2>3. F[<<f[m - 1], m>>] \in R
      <3>1. <<f[m - 1], m>> \in R \X (1 .. n)
        BY <2>2
      <3> QED
        BY <3>1
    <2>4. g \in [0 .. m -> R] /\ g[0] = base
      BY <2>2, <2>3
    <2>5. ASSUME NEW k \in 1 .. m PROVE g[k] = F[<<g[k - 1], k>>]
      <3>1. k - 1 \in 0 .. m - 1 /\ k \in 0 .. m /\ k - 1 \in 0 .. m /\ k - 1 < m
        OBVIOUS
      <3>2. g[k - 1] = f[k - 1]
        BY <3>1
      <3>3. CASE k < m
        <4>1. g[k] = f[k] /\ k \in 1 .. m - 1
          BY <3>3
        <4> QED
          BY <4>1, <3>2, <2>2
      <3>4. CASE k = m
        BY <3>4, <3>1, <3>2
      <3> QED
        BY <3>3, <3>4
    <2>6. Defines(m, g)
      BY <2>4, <2>5 DEF Follows
    <2> HIDE DEF Defines, g
    <2>7. m \in 0 .. n /\ \E h : Defines(m, h)
      BY <2>6
    <2> QED
      BY <2>7
  <1> HIDE DEF Defines
  <1>3. 0 .. n \subseteq Good
    <2> HIDE DEF Good
    <2> QED
      BY <1>1, <1>2, Upwards
  <1>4. PICK g : Defines(n, g)
    BY <1>3
  <1> QED
    BY <1>4 DEF Defines

\* A sequence that is turned so that it begins with what was at m.
TurnedTo(s, m) == SubSeq(s, m, Len(s)) \o SubSeq(s, 1, m - 1)
Permutes(from, n) ==
    /\ from \in [1 .. n -> 1 .. n]
    /\ \A i, j \in 1 .. n : from[i] = from[j] => i = j
    /\ \A k \in 1 .. n : \E i \in 1 .. n : from[i] = k
Rearranges(r, s, from) == \A i \in 1 .. Len(s) : r[i] = s[from[i]]

LEMMA Rotation ==
    ASSUME NEW R, NEW s \in Seq(R), NEW m \in 1 .. Len(s)
    PROVE  /\ TurnedTo(s, m) \in Seq(R) /\ Len(TurnedTo(s, m)) = Len(s)
           /\ \E from : from[1] = m /\ Permutes(from, Len(s)) /\ Rearranges(TurnedTo(s, m), s, from)
  <1> DEFINE n == Len(s)
             r == SubSeq(s, m, n) \o SubSeq(s, 1, m - 1)
             from == [i \in 1 .. n |-> IF i <= n - m + 1 THEN m + i - 1 ELSE i - (n - m + 1)]
  <1>1. n \in Nat /\ m \in 1 .. n /\ DOMAIN s = 1 .. n /\ \A i \in 1 .. n : s[i] \in R
    OBVIOUS
  <1> HIDE DEF n
  <1>2. /\ SubSeq(s, m, n) \in Seq(R) /\ Len(SubSeq(s, m, n)) = n - m + 1
        /\ \A i \in 1 .. n - m + 1 : SubSeq(s, m, n)[i] = s[m + i - 1]
    BY <1>1 DEF n
  <1>3. /\ SubSeq(s, 1, m - 1) \in Seq(R) /\ Len(SubSeq(s, 1, m - 1)) = m - 1
        /\ \A i \in 1 .. m - 1 : SubSeq(s, 1, m - 1)[i] = s[i]
    BY <1>1 DEF n
  <1>4. r \in Seq(R) /\ Len(r) = n
    BY <1>1, <1>2, <1>3
  <1>5. from \in [1 .. n -> 1 .. n] /\ from[1] = m
    BY <1>1
  <1>6. ASSUME NEW i \in 1 .. n PROVE r[i] = s[from[i]]
    <2>1. CASE i <= n - m + 1
      <3>1. i \in 1 .. n - m + 1 /\ from[i] = m + i - 1
        BY <2>1, <1>1
      <3>2. r[i] = SubSeq(s, m, n)[i]
        BY <3>1, <1>1, <1>2, <1>3
      <3> QED
        BY <3>1, <3>2, <1>2
    <2>2. CASE ~ (i <= n - m + 1)
      <3>1. i - (n - m + 1) \in 1 .. m - 1 /\ from[i] = i - (n - m + 1)
        BY <2>2, <1>1
      <3>2. r[i] = SubSeq(s, 1, m - 1)[i - (n - m + 1)]
        BY <2>2, <3>1, <1>1, <1>2, <1>3
      <3> QED
        BY <3>1, <3>2, <1>3
    <2> QED
      BY <2>1, <2>2
  <1>7. \A i, j \in 1 .. n : from[i] = from[j] => i = j
    BY <1>1
  <1>8. ASSUME NEW k \in 1 .. n PROVE \E i \in 1 .. n : from[i] = k
    <2>1. CASE k >= m
      <3>1. k - m + 1 \in 1 .. n /\ from[k - m + 1] = k
        BY <1>1, <2>1
      <3> QED
        BY <3>1
    <2>2. CASE k < m
      <3>1. k + n - m + 1 \in 1 .. n /\ from[k + n - m + 1] = k
        BY <1>1, <2>2
      <3> QED
        BY <3>1
    <2> QED
      BY <1>1, <2>1, <2>2
  <1> HIDE DEF from, r
  <1>9. from[1] = m /\ Permutes(from, n) /\ Rearranges(r, s, from)
    BY <1>5, <1>6, <1>7, <1>8 DEF Permutes, Rearranges, n
  <1>10. r = TurnedTo(s, m)
    BY DEF TurnedTo, r, n
  <1> QED
    BY <1>4, <1>9, <1>10 DEF n
=============================================================================
