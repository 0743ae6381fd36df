----------------------------- MODULE ListLemmas -----------------------------
(***************************************************************************)
(* Facts about numbers and lists that the proofs of several components     *)
(* use.                                                                    *)
(***************************************************************************)
EXTENDS Integers, Sequences, TLAPS, WellFoundedInduction, SequenceTheorems

(* A set of naturals that is not empty has a least element.                  *)
LEMMA LeastOfSet ==
  ASSUME NEW T \in SUBSET Nat, T # {}
  PROVE  \E x \in T : \A y \in T : x <= y
<1> DEFINE R == OpToRel(<, Nat)
<1>1. IsWellFoundedOn(R, Nat)
  BY NatLessThanWellFounded, Zenon
<1>2. PICK x \in T : \A y \in T : ~ (<<y, x>> \in R)
  <2> HIDE DEF R
  <2> QED BY <1>1, WFMin
<1>3. \A y \in T : ~ (y < x)
  BY <1>2 DEF OpToRel
<1> QED BY <1>3

(* Induction up to n, over a set.                                            *)
LEMMA StepByStep ==
  ASSUME NEW n \in Nat, NEW T, 0 \in T, \A k \in 1..n : k - 1 \in T => k \in T
  PROVE  \A k \in 0..n : k \in T
<1> DEFINE U == {k \in 0..n : k \notin T}
<1> SUFFICES ASSUME U # {} PROVE FALSE
  OBVIOUS
<1>1. PICK m \in U : \A y \in U : m <= y
  <2>1. U \in SUBSET Nat
    OBVIOUS
  <2> HIDE DEF U
  <2> QED BY <2>1, LeastOfSet
<1>2. m \in 1..n
  OBVIOUS
<1>3. m - 1 \in 0..n /\ ~(m <= m - 1)
  BY <1>2
<1>4. m - 1 \in T
  BY <1>1, <1>3
<1> QED BY <1>2, <1>4

(* A function that is defined by steps from an initial value exists.         *)
Repeats(f, b, n, F) == f[0] = b /\ \A k \in 1..n : f[k] = F[k][f[k - 1]]
(* By induction on the number of steps.                                       *)
LEMMA RepeatedSteps ==
  ASSUME NEW S, NEW b \in S, NEW n \in Nat, NEW F \in [1..n -> [S -> S]]
  PROVE  \E f \in [0..n -> S] : Repeats(f, b, n, F)
<1> DEFINE Up(m) == \E f \in [0..m -> S] : Repeats(f, b, m, F)
           T == {m \in 0..n : Up(m)}
<1>1. Up(0)
  <2> DEFINE z == [k \in 0..0 |-> b]
  <2>1. z \in [0..0 -> S] /\ z[0] = b
    OBVIOUS
  <2>2. \A k \in 1..0 : FALSE
    OBVIOUS
  <2> HIDE DEF z
  <2> QED BY <2>1, <2>2 DEF Repeats
<1>2. ASSUME NEW m \in 1..n, Up(m - 1) PROVE Up(m)
  <2>1. PICK f \in [0..(m - 1) -> S] : f[0] = b /\ \A k \in 1..(m - 1) : f[k] = F[k][f[k - 1]]
    BY <1>2 DEF Repeats
  <2> DEFINE g == [k \in 0..m |-> IF k = m THEN F[m][f[m - 1]] ELSE f[k]]
  <2>2. f[m - 1] \in S /\ F[m] \in [S -> S]
    BY <2>1
  <2>3. g \in [0..m -> S]
    <3>1. F[m][f[m - 1]] \in S
      BY <2>2
    <3>2. \A k \in 0..m : k = m \/ k \in 0..(m - 1)
      OBVIOUS
    <3> QED BY <2>1, <3>1, <3>2
  <2>4. ASSUME NEW k \in 1..m PROVE g[k] = F[k][g[k - 1]]
    <3>1. k \in 0..m /\ k - 1 \in 0..m /\ k - 1 # m
      OBVIOUS
    <3>2. g[k - 1] = f[k - 1]
      BY <3>1
    <3>3. CASE k = m
      BY <3>1, <3>2, <3>3
    <3>4. CASE k # m
      <4>1. k \in 1..(m - 1)
        BY <3>4
      <4>2. g[k] = f[k]
        BY <3>1, <3>4
      <4> HIDE DEF g
      <4> QED BY <2>1, <3>2, <4>1, <4>2
    <3> QED BY <3>3, <3>4
  <2>5. g[0] = b
    BY <2>1
  <2> HIDE DEF g
  <2> QED BY <2>3, <2>4, <2>5 DEF Repeats
<1>3. 0 \in T /\ \A m \in 1..n : m - 1 \in T => m \in T
  <2> HIDE DEF Up
  <2> QED BY <1>1, <1>2
<1>4. n \in T
  <2> HIDE DEF T
  <2>1. \A k \in 0..n : k \in T
    BY <1>3, StepByStep
  <2> QED BY <2>1
<1> QED BY <1>4

(* An element added at the end.                                              *)
LEMMA Appended ==
  ASSUME NEW S, NEW w \in Seq(S), NEW c \in S
  PROVE  /\ Append(w, c) \in Seq(S) /\ Len(w) \in Nat /\ Len(Append(w, c)) = Len(w) + 1
         /\ \A k \in 1..Len(w) : Append(w, c)[k] = w[k]
         /\ Append(w, c)[Len(w) + 1] = c /\ Append(w, c) # <<>>
<1>1. Len(w) \in Nat
  BY LenProperties
<1>2. Append(w, c) \in Seq(S) /\ Len(Append(w, c)) = Len(w) + 1
  OBVIOUS
<1>3. Append(w, c) # <<>>
  BY <1>1, <1>2, EmptySeq
<1> QED BY <1>1, <1>2, <1>3

(* The part of a list from one place to another.                             *)
LEMMA Segment ==
  ASSUME NEW S, NEW s, NEW a \in Int, NEW b \in Int, a <= b, \A k \in (a + 1)..b : s[k] \in S
  PROVE  /\ SubSeq(s, a + 1, b) \in Seq(S) /\ Len(SubSeq(s, a + 1, b)) = b - a
         /\ \A k \in 1..(b - a) : SubSeq(s, a + 1, b)[k] = s[a + k]
<1> DEFINE m == a + 1
           u == SubSeq(s, m, b)
<1>1. m \in Int /\ b - m + 1 = b - a /\ (m <= b \/ b - a = 0)
  OBVIOUS
<1>2. \A k \in m..b : s[k] \in S
  OBVIOUS
<1> HIDE DEF m
<1>3. /\ u \in Seq(S) /\ Len(u) = (IF m <= b THEN b - m + 1 ELSE 0)
      /\ \A k \in 1..(b - m + 1) : u[k] = s[m + k - 1]
  BY <1>1, <1>2, SubSeqProperties
<1> HIDE DEF u
<1>4. Len(u) = b - a
  BY <1>1, <1>3
<1>5. ASSUME NEW k \in 1..(b - a) PROVE u[k] = s[a + k]
  <2>1. m + k - 1 = a + k
    BY DEF m
  <2> QED BY <1>1, <1>3, <2>1
<1> QED BY <1>3, <1>4, <1>5 DEF m, u

(* Two lists put together.                                                   *)
LEMMA Together ==
  ASSUME NEW S, NEW a \in Seq(S), NEW b \in Seq(S)
  PROVE  /\ a \o b \in Seq(S) /\ Len(a \o b) = Len(a) + Len(b)
         /\ \A i \in 1..Len(a) : (a \o b)[i] = a[i]
         /\ \A i \in (Len(a) + 1)..(Len(a) + Len(b)) : (a \o b)[i] = b[i - Len(a)]
<1>1. Len(a) \in Nat /\ Len(b) \in Nat
  BY LenProperties
<1> QED BY <1>1, ConcatProperties

(* A list without its k-th element.                                          *)
Without(s, k) == SubSeq(s, 1, k - 1) \o SubSeq(s, k + 1, Len(s))
(* The others keep their order.                                               *)
LEMMA WithoutElement ==
  ASSUME NEW S, NEW s \in Seq(S), NEW k \in 1..Len(s)
  PROVE  /\ Without(s, k) \in Seq(S) /\ Len(Without(s, k)) = Len(s) - 1
         /\ \A j \in 1..(k - 1) : Without(s, k)[j] = s[j]
         /\ \A j \in k..(Len(s) - 1) : Without(s, k)[j] = s[j + 1]
<1> DEFINE n == Len(s)
           a == SubSeq(s, 1, k - 1)
           b == SubSeq(s, k + 1, n)
           t == Without(s, k)
<1>0. n \in Nat /\ \A i \in 1..n : s[i] \in S
  BY ElementOfSeq, LenProperties
<1>1. /\ a \in Seq(S) /\ Len(a) = k - 1
      /\ \A i \in 1..(k - 1) : a[i] = s[i]
  <2>1. \A i \in 1..(k - 1) : s[i] \in S
    BY <1>0
  <2> QED BY <1>0, <2>1, SubSeqProperties
<1>2. /\ b \in Seq(S) /\ Len(b) = n - k
      /\ \A i \in 1..(n - k) : b[i] = s[k + i]
  <2>1. \A i \in (k + 1)..n : s[i] \in S
    BY <1>0
  <2> QED BY <1>0, <2>1, SubSeqProperties
<1>3. t = a \o b
  BY DEF Without
<1>4. k \in 1..n
  OBVIOUS
<1> HIDE DEF a, b, n, t
<1>5. /\ t \in Seq(S) /\ Len(t) = n - 1
      /\ \A i \in 1..(k - 1) : t[i] = a[i]
      /\ \A i \in k..(n - 1) : t[i] = b[i - (k - 1)]
  <2>1. /\ t \in Seq(S) /\ Len(t) = Len(a) + Len(b)
        /\ \A i \in 1..Len(a) : t[i] = a[i]
        /\ \A i \in (Len(a) + 1)..(Len(a) + Len(b)) : t[i] = b[i - Len(a)]
    <3>1. a \in Seq(S) /\ b \in Seq(S)
      BY <1>1, <1>2
    <3> QED BY <3>1, <1>3, Together
  <2>2. Len(a) = k - 1 /\ Len(b) = n - k /\ k \in Int /\ n \in Int
    BY <1>0, <1>1, <1>2, <1>4
  <2>3. (k - 1) + (n - k) = n - 1 /\ (k - 1) + 1 = k
    BY <2>2
  <2> QED BY <2>1, <2>2, <2>3, Zenon
<1>6. \A j \in k..(n - 1) : t[j] = s[j + 1]
  <2> TAKE j \in k..(n - 1)
  <2>1. j - (k - 1) \in 1..(n - k) /\ k + (j - (k - 1)) = j + 1
    BY <1>0, <1>4
  <2>2. t[j] = b[j - (k - 1)]
    BY <1>5
  <2>3. b[j - (k - 1)] = s[k + (j - (k - 1))]
    BY <2>1, <1>2
  <2> QED BY <2>1, <2>2, <2>3
<1> QED BY <1>1, <1>5, <1>6 DEF n, t

(* An element put at the end of the second of two lists.                     *)
LEMMA AppendAfter ==
  ASSUME NEW S, NEW a \in Seq(S), NEW b \in Seq(S), NEW x \in S
  PROVE  a \o Append(b, x) = Append(a \o b, x)
<1>1. <<x>> \in Seq(S) /\ a \o b \in Seq(S)
  BY ConcatProperties
<1>2. Append(b, x) = b \o <<x>> /\ Append(a \o b, x) = (a \o b) \o <<x>>
  BY <1>1, AppendIsConcat
<1> QED BY <1>1, <1>2, ConcatAssociative

(* The first element of the second of two lists moved to the end of the      *)
(* first.                                                                    *)
LEMMA MoveOver ==
  ASSUME NEW S, NEW a \in Seq(S), NEW b \in Seq(S), b # <<>>
  PROVE  Append(a, Head(b)) \o Tail(b) = a \o b
<1>1. /\ Head(b) \in S /\ Tail(b) \in Seq(S) /\ Len(Tail(b)) = Len(b) - 1 /\ Len(b) \in Nat \ {0}
      /\ \A i \in 1..Len(Tail(b)) : Tail(b)[i] = b[i + 1]
  BY HeadTailProperties, EmptySeq
<1>2. <<Head(b)>> \in Seq(S) /\ Len(<<Head(b)>>) = 1 /\ <<Head(b)>>[1] = b[1]
  BY <1>1
<1>3. <<Head(b)>> \o Tail(b) = b
  <2> DEFINE t == <<Head(b)>> \o Tail(b)
  <2>1. /\ t \in Seq(S) /\ Len(t) = 1 + Len(Tail(b)) /\ t[1] = b[1]
        /\ \A i \in 2..(1 + Len(Tail(b))) : t[i] = Tail(b)[i - 1]
    <3>1. 1 \in 1..Len(<<Head(b)>>) /\ Len(<<Head(b)>>) + 1 = 2
      BY <1>2
    <3> QED BY <1>1, <1>2, <3>1, Together
  <2> HIDE DEF t
  <2>2. Len(t) = Len(b)
    BY <1>1, <2>1
  <2>3. \A i \in 1..Len(t) : t[i] = b[i]
    <3> SUFFICES ASSUME NEW i \in 1..Len(t) PROVE t[i] = b[i]
      OBVIOUS
    <3>1. CASE i = 1
      BY <3>1, <2>1
    <3>2. CASE i # 1
      <4>1. i \in 2..(1 + Len(Tail(b))) /\ i - 1 \in 1..Len(Tail(b)) /\ (i - 1) + 1 = i
        BY <3>2, <1>1, <2>1
      <4> QED BY <4>1, <1>1, <2>1
    <3> QED BY <3>1, <3>2
  <2>4. t = b
    BY <2>1, <2>2, <2>3, SeqEqual
  <2> QED BY <2>4 DEF t
<1>4. Append(a, Head(b)) = a \o <<Head(b)>>
  BY <1>1, AppendIsConcat
<1> QED BY <1>1, <1>2, <1>3, <1>4, ConcatAssociative

(* What comes first in a list is a prefix of it, by the definition of        *)
(* IsPrefix in SequencesExt.                                                 *)
LEMMA FirstIsPrefix ==
  ASSUME NEW S, NEW a \in Seq(S), NEW b \in Seq(S)
  PROVE  Len(a) <= Len(a \o b) /\ SubSeq(a, 1, Len(a)) = SubSeq(a \o b, 1, Len(a))
<1>1. Len(a) \in Nat /\ Len(b) \in Nat /\ Len(a \o b) = Len(a) + Len(b) /\ a \o b \in Seq(S)
  BY Together
<1>2. CASE Len(a) = 0
  <2>1. SubSeq(a, 1, 0) = <<>> /\ SubSeq(a \o b, 1, 0) = <<>>
    BY SubSeqEmpty
  <2> QED BY <1>1, <1>2, <2>1
<1>3. CASE Len(a) # 0
  <2>1. 1 \in 1..Len(a) /\ Len(a) \in 1..Len(a)
    BY <1>1, <1>3
  <2>2. SubSeq(a \o b, 1, Len(a)) = SubSeq(a, 1, Len(a))
    BY <2>1, SubSeqOfConcat1
  <2> QED BY <1>1, <2>2
<1> QED BY <1>2, <1>3
=============================================================================
