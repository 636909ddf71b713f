------------------------------- MODULE FoldFacts -------------------------------
(***************************************************************************)
(* Induction on the natural numbers, for sets of numbers, and with it what *)
(* the recursive functions of SequencesExt compute: that the function of a *)
(* fold exists, the elements of a flattened sequence, and a list without   *)
(* one of its elements.                                                    *)
(***************************************************************************)
EXTENDS Integers, Sequences, SequencesExt, SequenceTheorems,
        WellFoundedInduction, TLAPS

(* A property of some number is one of a least number. *)
LEMMA LeastNumber ==
  ASSUME NEW T, T \subseteq Nat, T # {}
  PROVE  \E n \in T : \A m \in T : n <= m
<1> DEFINE R == OpToRel(<, Nat)
<1>1. IsWellFoundedOn(R, Nat)
  BY NatLessThanWellFounded
<1>2. \A x, y \in Nat : y < x => <<y, x>> \in R
  BY DEF OpToRel
<1> HIDE DEF R
<1>3. PICK x \in T : \A y \in T : ~ (<<y, x>> \in R)
  BY <1>1, WFMin, Zenon
<1>4. \A y \in T : ~ (y < x)  BY <1>2, <1>3
<1>5. \A y \in T : x <= y  BY <1>4
<1> QED  BY <1>5

(* A set that holds 0, and with each number the next, holds all numbers.   *)
LEMMA InductionOnNat ==
  ASSUME NEW S, 0 \in S, \A n \in Nat : n \in S => n + 1 \in S
  PROVE  Nat \subseteq S
<1> DEFINE T == Nat \ S
<1> SUFFICES ASSUME T # {} PROVE FALSE
  OBVIOUS
<1>1. PICK n \in T : \A m \in T : n <= m
  BY LeastNumber
<1>2. n # 0 /\ n - 1 \in Nat /\ n - 1 \notin T
  BY <1>1
<1> QED  BY <1>2

(* A finite set of numbers has a highest. *)
LEMMA MaxOfNumbers ==
  ASSUME NEW N \in Nat, NEW s, s \subseteq 1 .. N, s # {}
  PROVE  Max(s) \in s /\ \A m \in s : m <= Max(s)
<1> DEFINE above == {n \in Nat : \A m \in s : m <= n}
<1>1. N \in above /\ above \subseteq Nat  OBVIOUS
<1>2. PICK n \in above : \A k \in above : n <= k
  BY <1>1, LeastNumber
<1>3. n \in s
  <2> SUFFICES ASSUME n \notin s PROVE FALSE
    OBVIOUS
  <2>1. PICK m \in s : TRUE  OBVIOUS
  <2>2. n \in Nat /\ \A k \in s : k < n  BY <1>2
  <2>3. n - 1 \in above  BY <2>1, <2>2
  <2> QED  BY <1>2, <2>2, <2>3
<1>4. n \in Nat /\ \A m \in s : n >= m  BY <1>2
<1>5. Max(s) \in s /\ \A m \in s : Max(s) >= m
  BY <1>3, <1>4 DEF Max
<1> QED  BY <1>5

(* The function of a fold that takes the elements from the last on: it is  *)
(* the one of the first elements, extended.                                *)
IsFold(g, N, base, step) ==
  \A s \in SUBSET (1 .. N) :
    g[s] = IF s = {} THEN base ELSE step[Max(s)][g[s \ {Max(s)}]]

(* There is such a function for every sequence of steps. *)
LEMMA FoldExists ==
  ASSUME NEW N \in Nat, NEW T, NEW base \in T, NEW step \in [1 .. N -> [T -> T]]
  PROVE  \E g \in [SUBSET (1 .. N) -> T] : IsFold(g, N, base, step)
<1> USE DEF IsFold
<1> DEFINE Good(k, g) == IsFold(g, k, base, step)
           Exists(k) == \E g \in [SUBSET (1 .. k) -> T] : Good(k, g)
           K == {k \in Nat : k <= N => Exists(k)}
<1>1. Exists(0)
  <2> DEFINE g == [s \in SUBSET (1 .. 0) |-> base]
  <2>1. \A s \in SUBSET (1 .. 0) : s = {}  OBVIOUS
  <2>2. g \in [SUBSET (1 .. 0) -> T] /\ Good(0, g)  BY <2>1
  <2> HIDE DEF g, Good
  <2> QED  BY <2>2
<1>2. ASSUME NEW k \in Nat, k + 1 <= N, Exists(k) PROVE Exists(k + 1)
  <2>1. PICK g \in [SUBSET (1 .. k) -> T] : Good(k, g)
    BY <1>2
  <2> DEFINE h == [s \in SUBSET (1 .. k + 1) |->
                     IF k + 1 \in s THEN step[k + 1][g[s \ {k + 1}]] ELSE g[s]]
  <2>2. \A s \in SUBSET (1 .. k + 1) :
          /\ s \ {k + 1} \in SUBSET (1 .. k)
          /\ k + 1 \notin s => s \in SUBSET (1 .. k)
    OBVIOUS
  <2>3. k + 1 \in 1 .. N  BY <1>2
  <2>4. h \in [SUBSET (1 .. k + 1) -> T]  BY <2>2, <2>3
  <2>5. ASSUME NEW s \in SUBSET (1 .. k + 1)
        PROVE  h[s] = IF s = {} THEN base
                                ELSE step[Max(s)][h[s \ {Max(s)}]]
    <3>1. CASE k + 1 \in s
      <4>1. Max(s) \in s /\ k + 1 <= Max(s)
        <5>1. s \subseteq 1 .. k + 1 /\ s # {} /\ k + 1 \in Nat  BY <3>1
        <5> QED  BY <3>1, <5>1, MaxOfNumbers
      <4>2. Max(s) = k + 1
        <5>1. Max(s) \in 1 .. k + 1  BY <4>1
        <5> QED  BY <4>1, <5>1
      <4>3. s \ {k + 1} \in SUBSET (1 .. k + 1) /\ k + 1 \notin s \ {k + 1}
        OBVIOUS
      <4>4. h[s \ {k + 1}] = g[s \ {k + 1}]  BY <4>3
      <4>5. h[s] = step[k + 1][g[s \ {k + 1}]]  BY <3>1
      <4> QED  BY <3>1, <4>2, <4>4, <4>5
    <3>2. CASE k + 1 \notin s
      <4>1. s \in SUBSET (1 .. k) /\ h[s] = g[s]  BY <2>2, <3>2
      <4>2. CASE s = {}  BY <2>1, <4>1, <4>2
      <4>3. CASE s # {}
        <5>1. s \ {Max(s)} \in SUBSET (1 .. k)  BY <4>1
        <5>2. k + 1 \notin s \ {Max(s)}  BY <3>2
        <5>3. s \ {Max(s)} \in SUBSET (1 .. k + 1)  OBVIOUS
        <5>4. h[s \ {Max(s)}] = g[s \ {Max(s)}]  BY <5>2, <5>3
        <5> QED  BY <2>1, <4>1, <4>3, <5>4
      <4> QED  BY <4>2, <4>3
    <3> QED  BY <3>1, <3>2
  <2> HIDE DEF h
  <2>6. Good(k + 1, h)  BY <2>5
  <2> HIDE DEF Good
  <2> QED  BY <2>4, <2>6
<1>3. Exists(N)
  <2> HIDE DEF Exists
  <2>1. 0 \in K /\ \A k \in Nat : k \in K => k + 1 \in K  BY <1>1, <1>2
  <2> HIDE DEF K
  <2>2. N \in K  BY <2>1, InductionOnNat
  <2> QED  BY <2>2 DEF K
<1> QED  BY <1>3

(* The last of the first n numbers, and those before it. *)
LEMMA MaxOfInterval ==
  ASSUME NEW n \in Nat \ {0}
  PROVE  Max(1 .. n) = n /\ (1 .. n) \ {n} = 1 .. n - 1
<1>1. Max(1 .. n) \in 1 .. n /\ \A m \in 1 .. n : m <= Max(1 .. n)
  BY MaxOfNumbers, n \in 1 .. n
<1>2. n <= Max(1 .. n)  BY <1>1
<1> QED  BY <1>1, <1>2

-----------------------------------------------------------------------------
(* The concatenation of two sequences: its elements, and when it has none  *)
(* twice.                                                                  *)
LEMMA ConcatElements ==
  ASSUME NEW T, NEW s \in Seq(T), NEW t \in Seq(T)
  PROVE  /\ s \o t \in Seq(T)
         /\ Range(s \o t) = Range(s) \cup Range(t)
         /\ IsInjective(s) /\ IsInjective(t) /\ Range(s) \cap Range(t) = {}
              => IsInjective(s \o t)
<1>1. /\ s \o t \in Seq(T)
      /\ Len(s \o t) = Len(s) + Len(t)
      /\ \A i \in 1 .. Len(s) + Len(t) :
           (s \o t)[i] = IF i <= Len(s) THEN s[i] ELSE t[i - Len(s)]
  BY ConcatProperties
<1>2. DOMAIN (s \o t) = 1 .. Len(s) + Len(t)
      /\ DOMAIN s = 1 .. Len(s) /\ DOMAIN t = 1 .. Len(t)
      /\ Len(s) \in Nat /\ Len(t) \in Nat
  BY <1>1
<1>3. ASSUME IsInjective(s), IsInjective(t), Range(s) \cap Range(t) = {},
             NEW i \in 1 .. Len(s) + Len(t), NEW j \in 1 .. Len(s) + Len(t),
             (s \o t)[i] = (s \o t)[j]
      PROVE  i = j
  <2>1. CASE i <= Len(s) /\ j <= Len(s)
    BY <1>1, <1>2, <1>3, <2>1 DEF IsInjective
  <2>2. CASE i > Len(s) /\ j > Len(s)
    <3>1. i - Len(s) \in 1 .. Len(t) /\ j - Len(s) \in 1 .. Len(t)
      BY <1>2, <2>2
    <3>2. t[i - Len(s)] = t[j - Len(s)]  BY <1>1, <1>2, <1>3, <2>2
    <3> QED  BY <1>2, <1>3, <3>1, <3>2 DEF IsInjective
  <2>3. CASE i <= Len(s) /\ j > Len(s)
    <3>1. s[i] \in Range(s) /\ t[j - Len(s)] \in Range(t)
      BY <1>2, <2>3 DEF Range
    <3> QED  BY <1>1, <1>2, <1>3, <2>3, <3>1
  <2>4. CASE i > Len(s) /\ j <= Len(s)
    <3>1. s[j] \in Range(s) /\ t[i - Len(s)] \in Range(t)
      BY <1>2, <2>4 DEF Range
    <3> QED  BY <1>1, <1>2, <1>3, <2>4, <3>1
  <2> QED  BY <1>2, <2>1, <2>2, <2>3, <2>4
<1> QED  BY <1>1, <1>2, <1>3, RangeConcatenation DEF IsInjective

(* The elements of a sequence and of one with another appended. *)
LEMMA AppendElements ==
  ASSUME NEW T, NEW s \in Seq(T), NEW e \in T
  PROVE  /\ Append(s, e) \in Seq(T)
         /\ Range(Append(s, e)) = Range(s) \cup {e}
         /\ IsInjective(s) /\ e \notin Range(s) => IsInjective(Append(s, e))
<1>1. <<e>> \in Seq(T) /\ Range(<<e>>) = {e} /\ IsInjective(<<e>>)
  BY DEF Range, IsInjective
<1>2. Append(s, e) = s \o <<e>>  BY AppendIsConcat
<1> DEFINE t == <<e>>
<1>3. t \in Seq(T) /\ Range(t) = {e} /\ IsInjective(t)  BY <1>1
<1> HIDE DEF t
<1>4. /\ s \o t \in Seq(T)
      /\ Range(s \o t) = Range(s) \cup {e}
      /\ IsInjective(s) /\ e \notin Range(s) => IsInjective(s \o t)
  BY <1>3, ConcatElements
<1> QED  BY <1>2, <1>4 DEF t

(* A list from which one element was taken: what list_remove leaves.       *)
LEMMA RemoveFirstElements ==
  ASSUME NEW T, NEW s \in Seq(T), IsInjective(s), NEW e
  PROVE  /\ RemoveFirst(s, e) \in Seq(T)
         /\ Range(RemoveFirst(s, e)) = Range(s) \ {e}
         /\ IsInjective(RemoveFirst(s, e))
<1>1. DOMAIN s = 1 .. Len(s) /\ Len(s) \in Nat
  OBVIOUS
<1>2. CASE e \notin Range(s)
  BY <1>1, <1>2 DEF RemoveFirst, Range
<1>3. CASE e \in Range(s)
  <2>1. PICK i \in 1 .. Len(s) : s[i] = e
    BY <1>1, <1>3 DEF Range
  <2>2. {j \in 1 .. Len(s) : s[j] = e} = {i}
    BY <1>1, <2>1 DEF IsInjective
  <2>3. Min({i}) = i
    BY <2>1 DEF Min
  <2>4. SelectInSeq(s, LAMBDA v : v = e) = i
    BY <2>2, <2>3 DEF SelectInSeq
  <2> DEFINE before == SubSeq(s, 1, i - 1)
             after == SubSeq(s, i + 1, Len(s))
  <2>5. RemoveFirst(s, e) = before \o after
    BY <2>1, <2>4 DEF RemoveFirst, RemoveAt
  <2>6. /\ before \in Seq(T) /\ Len(before) = i - 1
        /\ \A j \in 1 .. i - 1 : before[j] = s[j]
    <3>1. \A j \in 1 .. i - 1 : s[j] \in T  BY <1>1, <2>1, ElementOfSeq
    <3>2. 1 \in Int /\ i - 1 \in Int  BY <2>1
    <3>3. /\ before \in Seq(T)
          /\ Len(before) = IF 1 <= i - 1 THEN i - 1 - 1 + 1 ELSE 0
          /\ \A j \in 1 .. i - 1 - 1 + 1 : before[j] = s[1 + j - 1]
      BY <3>1, <3>2, SubSeqProperties
    <3> QED  BY <2>1, <3>3
  <2>7. /\ after \in Seq(T) /\ Len(after) = Len(s) - i
        /\ \A j \in 1 .. Len(s) - i : after[j] = s[i + j]
    <3>1. \A j \in i + 1 .. Len(s) : s[j] \in T  BY <1>1, <2>1, ElementOfSeq
    <3>2. i + 1 \in Int /\ Len(s) \in Int  BY <1>1, <2>1
    <3>3. /\ after \in Seq(T)
          /\ Len(after) = IF i + 1 <= Len(s) THEN Len(s) - (i + 1) + 1 ELSE 0
          /\ \A j \in 1 .. Len(s) - (i + 1) + 1 : after[j] = s[i + 1 + j - 1]
      BY <3>1, <3>2, SubSeqProperties
    <3> HIDE DEF after
    <3>4. \A j \in 1 .. Len(s) - i : i + 1 + j - 1 = i + j
          /\ j \in 1 .. Len(s) - (i + 1) + 1
      BY <1>1, <2>1
    <3>5. Len(after) = Len(s) - i
      <4>1. Len(after) = IF i + 1 <= Len(s) THEN Len(s) - (i + 1) + 1 ELSE 0
        BY <3>3
      <4> DEFINE n == Len(s)
                 m == Len(after)
      <4>2. n \in Nat /\ i \in 1 .. n  BY <1>1, <2>1
      <4>3. m = IF i + 1 <= n THEN n - (i + 1) + 1 ELSE 0  BY <4>1
      <4> HIDE DEF n, m
      <4>4. m = n - i  BY <4>2, <4>3
      <4> QED  BY <4>4 DEF n, m
    <3> QED  BY <3>3, <3>4, <3>5
  <2>8. DOMAIN before = 1 .. i - 1 /\ DOMAIN after = 1 .. Len(s) - i
    BY <2>6, <2>7
  <2> HIDE DEF before, after
  <2>9. IsInjective(before) /\ IsInjective(after)
        /\ Range(before) \cap Range(after) = {}
    <3>1. IsInjective(before)
      BY <1>1, <2>1, <2>6, <2>8 DEF IsInjective
    <3>2. IsInjective(after)
      <4>1. ASSUME NEW j \in 1 .. Len(s) - i, NEW k \in 1 .. Len(s) - i,
                   after[j] = after[k]
            PROVE  j = k
        <5>1. i + j \in 1 .. Len(s) /\ i + k \in 1 .. Len(s)  BY <1>1, <2>1
        <5>2. s[i + j] = s[i + k]
          <6>1. after[j] = s[i + j] /\ after[k] = s[i + k]  BY <2>7
          <6> QED  BY <4>1, <6>1
        <5>3. i + j = i + k  BY <1>1, <5>1, <5>2 DEF IsInjective
        <5> QED  BY <2>1, <5>3
      <4> QED  BY <2>8, <4>1 DEF IsInjective
    <3>3. ASSUME NEW j \in 1 .. i - 1, NEW k \in 1 .. Len(s) - i
          PROVE  before[j] # after[k]
      <4>1. i + k \in 1 .. Len(s) /\ j \in 1 .. Len(s) /\ j # i + k
        BY <1>1, <2>1
      <4>2. s[j] # s[i + k]  BY <1>1, <4>1 DEF IsInjective
      <4> QED  BY <2>6, <2>7, <4>2
    <3> QED  BY <2>8, <3>1, <3>2, <3>3 DEF Range
  <2>10. Range(before) \cup Range(after) = Range(s) \ {e}
    <3>1. ASSUME NEW j \in 1 .. i - 1
          PROVE  before[j] \in Range(s) \ {e}
      BY <1>1, <2>1, <2>6 DEF IsInjective, Range
    <3>2. ASSUME NEW j \in 1 .. Len(s) - i
          PROVE  after[j] \in Range(s) \ {e}
      <4>1. i + j \in 1 .. Len(s) /\ i + j # i  BY <1>1, <2>1
      <4> QED  BY <1>1, <2>1, <2>7, <4>1 DEF IsInjective, Range
    <3>3. ASSUME NEW j \in 1 .. Len(s), s[j] # e
          PROVE  s[j] \in Range(before) \cup Range(after)
      <4>1. CASE j < i
        BY <1>1, <2>1, <2>6, <2>8, <4>1 DEF Range
      <4>2. CASE j > i
        <5>1. j - i \in 1 .. Len(s) - i /\ after[j - i] = s[j]
          <6>1. j - i \in 1 .. Len(s) - i  BY <1>1, <2>1, <4>2
          <6>2. i + (j - i) = j  BY <2>1
          <6> QED  BY <2>7, <6>1, <6>2
        <5> QED  BY <2>8, <5>1 DEF Range
      <4> QED  BY <2>1, <3>3, <4>1, <4>2
    <3> QED  BY <1>1, <2>8, <3>1, <3>2, <3>3 DEF Range
  <2> QED  BY <2>5, <2>6, <2>7, <2>9, <2>10, ConcatElements
<1> QED  BY <1>2, <1>3

-----------------------------------------------------------------------------
(* The sequences of a flattened sequence make it up, one after the other.  *)
LEMMA FlattenRecursion ==
  ASSUME NEW T, NEW seqs \in Seq(Seq(T))
  PROVE  \E flat \in [0 .. Len(seqs) -> Seq(T)] :
           /\ flat[0] = <<>>
           /\ flat[Len(seqs)] = FlattenSeq(seqs)
           /\ \A n \in 1 .. Len(seqs) : flat[n] = flat[n - 1] \o seqs[n]
<1> DEFINE N == Len(seqs)
           Join(s, n) == s \o seqs[n]
           Flat(k, f) == /\ f \in [0 .. k -> Seq(T)]
                         /\ f[0] = <<>>
                         /\ \A n \in 1 .. k : f[n] = Join(f[n - 1], n)
           Exists(k) == \E f : Flat(k, f)
           K == {k \in Nat : k <= N => Exists(k)}
<1>1. N \in Nat /\ \A n \in 1 .. N : seqs[n] \in Seq(T)  OBVIOUS
<1>7. \A n \in 1 .. N : /\ Join(<<>>, n) = seqs[n]
                        /\ \A s \in Seq(T) : Join(s, n) \in Seq(T)
  BY <1>1, ConcatEmptySeq, ConcatProperties
<1> HIDE DEF Join
<1>2. Exists(0)
  <2>1. Flat(0, [n \in 0 .. 0 |-> <<>>])  OBVIOUS
  <2> HIDE DEF Flat
  <2> QED  BY <2>1
<1>3. ASSUME NEW k \in Nat, k + 1 <= N, Exists(k) PROVE Exists(k + 1)
  <2>1. PICK f : Flat(k, f)  BY <1>3
  <2> DEFINE g == [n \in 0 .. k + 1 |->
                     IF n = k + 1 THEN Join(f[k], k + 1) ELSE f[n]]
  <2>2. Join(f[k], k + 1) \in Seq(T)
    <3>1. f[k] \in Seq(T) /\ k + 1 \in 1 .. N  BY <1>1, <1>3, <2>1
    <3> QED  BY <1>7, <3>1
  <2>3. g \in [0 .. k + 1 -> Seq(T)]  BY <2>1, <2>2
  <2>4. g[0] = <<>>  BY <2>1
  <2>5. \A n \in 1 .. k + 1 : g[n] = Join(g[n - 1], n)  BY <2>1
  <2>6. Flat(k + 1, g)  BY <2>3, <2>4, <2>5
  <2> HIDE DEF Flat
  <2> QED  BY <2>6
<1>4. PICK f : Flat(N, f)
  <2> HIDE DEF Exists
  <2>1. 0 \in K /\ \A k \in Nat : k \in K => k + 1 \in K  BY <1>2, <1>3
  <2> HIDE DEF K
  <2>2. N \in K  BY <1>1, <2>1, InductionOnNat
  <2> QED  BY <2>2 DEF K, Exists
<1>5. CASE N = 0
  BY <1>1, <1>4, <1>5 DEF FlattenSeq
<1>6. CASE N # 0
  <2> DEFINE Def(h) == h = [i \in 1 .. N |-> IF i = 1 THEN seqs[i]
                                             ELSE Join(h[i - 1], i)]
             flatten == CHOOSE h : Def(h)
             h1 == [i \in 1 .. N |-> f[i]]
  <2>1. f[1] = seqs[1]
    <3>1. 1 \in 1 .. N /\ f[1] = Join(f[1 - 1], 1) /\ f[0] = <<>>
      BY <1>1, <1>4, <1>6
    <3>2. f[1 - 1] = <<>>  BY <3>1
    <3> QED  BY <1>7, <3>1, <3>2
  <2>2. \A i \in 1 .. N : h1[i] = IF i = 1 THEN seqs[i] ELSE Join(h1[i - 1], i)
    BY <1>1, <1>4, <2>1
  <2>3. Def(h1)
    <3> HIDE DEF h1
    <3>1. h1 = [i \in 1 .. N |-> h1[i]]  BY DEF h1
    <3> QED  BY <2>2, <3>1
  <2>4. Def(flatten)
    <3> HIDE DEF Def
    <3> QED  BY <2>3
  <2>5. FlattenSeq(seqs) = flatten[N]
    BY <1>6, Zenon DEF FlattenSeq, Join
  <2>6. \A i \in 1 .. N : flatten[i] = IF i = 1 THEN seqs[i]
                                       ELSE Join(flatten[i - 1], i)
    <3> HIDE DEF flatten
    <3> QED  BY <2>4
  <2>7. \A n \in 1 .. N : f[n] = Join(f[n - 1], n)  BY <1>4
  <2> DEFINE M == {k \in Nat : k \in 1 .. N => flatten[k] = f[k]}
  <2> HIDE DEF flatten, Flat, h1, Def
  <2>8. ASSUME NEW k \in Nat, k \in M PROVE k + 1 \in M
    <3> SUFFICES ASSUME k + 1 \in 1 .. N
                 PROVE  flatten[k + 1] = f[k + 1]
      OBVIOUS
    <3>1. CASE k = 0  BY <2>1, <2>6, <3>1
    <3>2. CASE k # 0
      <4>1. k \in 1 .. N /\ k + 1 # 1 /\ k + 1 - 1 = k  BY <1>1, <3>2
      <4>2. flatten[k] = f[k]  BY <2>8, <4>1
      <4>3. flatten[k + 1] = Join(flatten[k], k + 1)  BY <2>6, <4>1
      <4>4. f[k + 1] = Join(f[k], k + 1)  BY <2>7, <4>1
      <4> QED  BY <4>2, <4>3, <4>4
    <3> QED  BY <3>1, <3>2
  <2>9. 0 \in M  BY <1>1
  <2>10. N \in M
    <3> HIDE DEF M, N
    <3> QED  BY <1>1, <2>8, <2>9, InductionOnNat
  <2>11. flatten[N] = f[N]  BY <1>1, <1>6, <2>10
  <2>12. f \in [0 .. N -> Seq(T)] /\ f[0] = <<>>  BY <1>4 DEF Flat
  <2> QED  BY <1>1, <2>5, <2>7, <2>11, <2>12 DEF Join
<1> QED  BY <1>5, <1>6

(* The elements of a concatenation are those of its sequences. *)
LEMMA FlattenElements ==
  ASSUME NEW T, NEW seqs \in Seq(Seq(T))
  PROVE  /\ FlattenSeq(seqs) \in Seq(T)
         /\ Range(FlattenSeq(seqs)) = UNION {Range(seqs[i]) : i \in 1 .. Len(seqs)}
         /\ /\ \A i \in 1 .. Len(seqs) : IsInjective(seqs[i])
            /\ \A i, j \in 1 .. Len(seqs) :
                 i # j => Range(seqs[i]) \cap Range(seqs[j]) = {}
            => IsInjective(FlattenSeq(seqs))
<1> DEFINE N == Len(seqs)
           Apart == /\ \A i \in 1 .. N : IsInjective(seqs[i])
                    /\ \A i, j \in 1 .. N :
                         i # j => Range(seqs[i]) \cap Range(seqs[j]) = {}
           Upto(k) == UNION {Range(seqs[i]) : i \in 1 .. k}
<1>1. N \in Nat /\ \A n \in 1 .. N : seqs[n] \in Seq(T)  OBVIOUS
<1>2. PICK flat \in [0 .. N -> Seq(T)] :
        /\ flat[0] = <<>>
        /\ flat[N] = FlattenSeq(seqs)
        /\ \A n \in 1 .. N : flat[n] = flat[n - 1] \o seqs[n]
  BY FlattenRecursion
<1> DEFINE Right(k) == /\ Range(flat[k]) = Upto(k)
                       /\ Apart => IsInjective(flat[k])
           K == {k \in Nat : k <= N => Right(k)}
<1>3. Right(0)
  <2>1. Range(<<>>) = {} /\ IsInjective(<<>>)  BY DEF Range, IsInjective
  <2> QED  BY <1>2, <2>1
<1>4. ASSUME NEW k \in Nat, k + 1 <= N, Right(k) PROVE Right(k + 1)
  <2>1. flat[k + 1] = flat[k] \o seqs[k + 1] /\ k + 1 \in 1 .. N
    <3>1. k + 1 \in 1 .. N /\ (k + 1) - 1 = k  BY <1>1, <1>4
    <3>2. flat[k + 1] = flat[(k + 1) - 1] \o seqs[k + 1]  BY <1>2, <3>1
    <3> QED  BY <3>1, <3>2
  <2>2. flat[k] \in Seq(T) /\ seqs[k + 1] \in Seq(T)  BY <1>1, <1>2, <1>4
  <2>3. /\ Range(flat[k + 1]) = Range(flat[k]) \cup Range(seqs[k + 1])
        /\ /\ IsInjective(flat[k]) /\ IsInjective(seqs[k + 1])
           /\ Range(flat[k]) \cap Range(seqs[k + 1]) = {}
           => IsInjective(flat[k + 1])
    BY <2>1, <2>2, ConcatElements
  <2>4. Upto(k + 1) = Upto(k) \cup Range(seqs[k + 1])
    <3>1. 1 .. k + 1 = (1 .. k) \cup {k + 1}  OBVIOUS
    <3> QED  BY <3>1
  <2>5. Apart => Upto(k) \cap Range(seqs[k + 1]) = {}
    <3>1. \A i \in 1 .. k : i \in 1 .. N /\ i # k + 1  BY <1>1, <1>4
    <3> QED  BY <2>1, <3>1
  <2>6. Apart => IsInjective(seqs[k + 1])  BY <2>1
  <2> HIDE DEF Apart, Upto
  <2> QED  BY <1>4, <2>3, <2>4, <2>5, <2>6
<1>5. Right(N)
  <2> HIDE DEF Right
  <2>1. 0 \in K /\ \A k \in Nat : k \in K => k + 1 \in K  BY <1>3, <1>4
  <2> HIDE DEF K
  <2>2. N \in K  BY <1>1, <2>1, InductionOnNat
  <2> QED  BY <1>1, <2>2 DEF K
<1>6. FlattenSeq(seqs) \in Seq(T)  BY <1>1, <1>2
<1>7. Range(FlattenSeq(seqs)) = Upto(N) /\ (Apart => IsInjective(FlattenSeq(seqs)))
  BY <1>2, <1>5
<1> QED  BY <1>6, <1>7
===============================================================================
