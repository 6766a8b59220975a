------------------------------ MODULE DataLemmas ------------------------------
(* Facts about numbers and sequences that the proofs share.  A claim about     *)
(* every number holds if the set of its counterexamples can have no least      *)
(* element, which is how the proofs do without an induction rule.              *)
EXTENDS Integers, SequencesExt, SequenceTheorems, FiniteSetTheorems, WellFoundedInduction, TLAPS

(* A set of natural numbers that is not empty has a least element: of the      *)
(* intervals 1..k that end in it, one contains no other.                       *)
LEMMA LeastNumber ==
    ASSUME NEW S \in SUBSET Nat, S # {}
    PROVE  \E m \in S : \A k \in S : m <= k
<1> DEFINE T == {1..k : k \in S}
<1>1. T \subseteq FiniteSubsetsOf(Nat) /\ T # {}
  <2>1. \A k \in S : 1..k \subseteq Nat /\ IsFiniteSet(1..k)
    BY FS_Interval
  <2> QED BY <2>1 DEF FiniteSubsetsOf
<1>2. PICK X \in T : \A Y \in T : ~(<<Y, X>> \in StrictSubsetOrdering(Nat))
  <2> HIDE DEF T
  <2> QED BY <1>1, FS_StrictSubsetOrderingWellFounded, WFMin
<1>3. PICK m \in S : X = 1..m
  OBVIOUS
<1>4. ASSUME NEW k \in S, k < m PROVE FALSE
  <2>1. 1..k \in T /\ 1..k \subseteq Nat /\ 1..m \subseteq Nat
    OBVIOUS
  <2>2. 1..k \subseteq 1..m /\ 1..k # 1..m
    <3>1. m \in 1..m /\ m \notin 1..k
      BY <1>4
    <3> QED BY <1>4, <3>1
  <2>3. <<1..k, 1..m>> \in StrictSubsetOrdering(Nat)
    BY <2>1, <2>2 DEF StrictSubsetOrdering
  <2> QED BY <1>2, <1>3, <2>1, <2>3
<1> QED BY <1>4

(* A set of positions that is not empty has a greatest element.                *)
LEMMA GreatestNumber ==
    ASSUME NEW n \in Nat, NEW S \in SUBSET (1..n), S # {}
    PROVE  \E m \in S : \A k \in S : m >= k
<1> DEFINE T == {j \in Nat : \E k \in S : j = n - k}
<1>1. T \in SUBSET Nat /\ T # {}
  <2>1. PICK k \in S : TRUE
    OBVIOUS
  <2>2. n - k \in Nat
    OBVIOUS
  <2> QED BY <2>2
<1>2. PICK x \in T : \A y \in T : x <= y
  <2> HIDE DEF T
  <2> QED BY <1>1, LeastNumber
<1>3. PICK m \in S : x = n - m
  OBVIOUS
<1>4. ASSUME NEW k \in S PROVE m >= k
  <2>1. n - k \in T
    OBVIOUS
  <2>2. n - m <= n - k
    BY <1>2, <1>3, <2>1
  <2> QED BY <2>2
<1> QED BY <1>4

(* w[k] is the sum of the first k values of d.                                 *)
IsRunningSum(w, d, n) == w = [k \in 0..n |-> IF k = 0 THEN 0 ELSE w[k - 1] + d[k]]

LEMMA RunningSumExists ==
    ASSUME NEW d, NEW n \in Nat
    PROVE  \E w : IsRunningSum(w, d, n)
<1> DEFINE Bad == {k \in Nat : ~\E w : IsRunningSum(w, d, k)}
<1> SUFFICES ASSUME Bad # {} PROVE FALSE
  OBVIOUS
<1>1. PICK m \in Bad : \A k \in Bad : m <= k
  <2>1. Bad \in SUBSET Nat
    OBVIOUS
  <2> HIDE DEF Bad
  <2> QED BY <2>1, LeastNumber
<1>2. m \in Nat /\ ~\E w : IsRunningSum(w, d, m)
  OBVIOUS
<1>3. m # 0
  <2>1. SUFFICES ASSUME m = 0 PROVE FALSE
    OBVIOUS
  <2> DEFINE w == [k \in 0..0 |-> 0]
  <2>2. IsRunningSum(w, d, 0)
    BY DEF IsRunningSum
  <2> QED BY <1>2, <2>1, <2>2
<1>4. m - 1 \in Nat /\ m - 1 \notin Bad
  <2>1. m - 1 \in Nat /\ ~(m <= m - 1)
    BY <1>2, <1>3
  <2> HIDE DEF Bad
  <2> QED BY <1>1, <2>1
<1>5. PICK w : IsRunningSum(w, d, m - 1)
  BY <1>4
<1> DEFINE v == [k \in 0..m |-> IF k = m THEN w[m - 1] + d[m] ELSE w[k]]
<1>6. \A k \in 0..m : v[k] = IF k = 0 THEN 0 ELSE v[k - 1] + d[k]
  <2> TAKE k \in 0..m
  <2> HIDE DEF Bad
  <2>1. m \in Nat /\ m # 0 /\ k \in Nat /\ k <= m
    BY <1>2, <1>3
  <2>2. CASE k = m
    <3>1. m - 1 \in 0..m /\ m - 1 # m
      BY <2>1
    <3> QED BY <2>1, <2>2, <3>1
  <2>3. CASE k # m
    <3>1. k \in 0..m - 1 /\ (k # 0 => k - 1 \in 0..m /\ k - 1 # m)
      BY <2>1, <2>3
    <3>2. w[k] = IF k = 0 THEN 0 ELSE w[k - 1] + d[k]
      BY <1>5, <3>1 DEF IsRunningSum
    <3> QED BY <2>1, <2>3, <3>1, <3>2
  <2> QED BY <2>2, <2>3
<1>7. IsRunningSum(v, d, m)
  <2> HIDE DEF Bad
  <2>1. DOMAIN v = 0..m /\ v = [k \in 0..m |-> v[k]]
    OBVIOUS
  <2> HIDE DEF v
  <2> QED BY <1>6, <2>1 DEF IsRunningSum
<1> QED BY <1>2, <1>7
--------------------------------------------------------------------------------
(* A sequence and one more element behind it, position by position.            *)
LEMMA OneMoreBehind ==
    ASSUME NEW S, NEW u \in Seq(S), NEW e \in S, NEW n \in Nat, n = Len(u) + 1
    PROVE  /\ Len(u \o <<e>>) = n /\ (u \o <<e>>)[n] = e
           /\ \A i \in 1..(n - 1) : (u \o <<e>>)[i] = u[i]
<1>1. Len(u) \in Nat /\ <<e>> \in Seq(S) /\ Len(<<e>>) = 1 /\ <<e>>[1] = e
  OBVIOUS
<1>2. Len(u \o <<e>>) = Len(u) + 1
  BY <1>1, ConcatProperties
<1>3. \A i \in 1..(Len(u) + 1) :
        (u \o <<e>>)[i] = IF i <= Len(u) THEN u[i] ELSE <<e>>[i - Len(u)]
  BY <1>1, ConcatProperties
<1> QED BY <1>1, <1>2, <1>3

(* What is in a sequence after an Append.                                      *)
LEMMA RangeOfAppend ==
    ASSUME NEW S, NEW s \in Seq(S), NEW e \in S
    PROVE  /\ Append(s, e) \in Seq(S) /\ Range(Append(s, e)) = Range(s) \cup {e}
           /\ IsInjective(s) /\ e \notin Range(s) => IsInjective(Append(s, e))
<1> DEFINE r == Append(s, e)
<1>1. /\ r \in Seq(S) /\ Len(r) = Len(s) + 1 /\ r[Len(s) + 1] = e
      /\ \A i \in 1..Len(s) : r[i] = s[i]
      /\ Len(s) \in Nat /\ DOMAIN s = 1..Len(s)
  BY AppendProperties, LenProperties
<1>2. DOMAIN r = 1..Len(s) + 1
  BY <1>1, LenProperties
<1> HIDE DEF r
<1>3. \A i \in 1..Len(s) + 1 : (i \in 1..Len(s) /\ r[i] = s[i]) \/ (i = Len(s) + 1 /\ r[i] = e)
  BY <1>1
<1>4. Range(r) = Range(s) \cup {e}
  BY <1>1, <1>2, <1>3 DEF Range
<1>5. ASSUME IsInjective(s), e \notin Range(s) PROVE IsInjective(r)
  <2>1. \A i \in 1..Len(s) : s[i] # e
    BY <1>1, <1>5 DEF Range
  <2>2. \A i, j \in 1..Len(s) : s[i] = s[j] => i = j
    BY <1>1, <1>5 DEF IsInjective
  <2>3. \A i, j \in 1..Len(s) + 1 : r[i] = r[j] => i = j
    BY <1>3, <2>1, <2>2
  <2> QED BY <1>2, <2>3 DEF IsInjective
<1> QED BY <1>1, <1>4, <1>5 DEF r

(* What is in the two parts of a sequence that is split.                       *)
LEMMA RangeOfSplit ==
    ASSUME NEW S, NEW s \in Seq(S), NEW n \in 0..Len(s)
    PROVE  LET a == SubSeq(s, 1, n)
               b == SubSeq(s, n + 1, Len(s))
           IN  /\ a \in Seq(S) /\ Len(a) = n /\ b \in Seq(S) /\ Len(b) = Len(s) - n
               /\ Range(s) = Range(a) \cup Range(b)
               /\ IsInjective(s) => /\ IsInjective(a) /\ IsInjective(b)
                                    /\ Range(a) \cap Range(b) = {}
<1> DEFINE a == SubSeq(s, 1, n)
           b == SubSeq(s, n + 1, Len(s))
<1>1. Len(s) \in Nat /\ DOMAIN s = 1..Len(s) /\ n \in Nat /\ n <= Len(s)
      /\ \A i \in 1..Len(s) : s[i] \in S
  BY LenProperties, ElementOfSeq
<1>2. a \in Seq(S) /\ Len(a) = n /\ \A i \in 1..n : a[i] = s[i]
  <2>1. \A i \in 1..n : s[i] \in S
    BY <1>1
  <2>2. a \in Seq(S) /\ Len(a) = (IF 1 <= n THEN n - 1 + 1 ELSE 0)
        /\ \A i \in 1..(n - 1 + 1) : a[i] = s[1 + i - 1]
    BY <1>1, <2>1, SubSeqProperties
  <2> HIDE DEF a
  <2> QED BY <1>1, <2>2
<1>3. b \in Seq(S) /\ Len(b) = Len(s) - n /\ \A i \in 1..Len(s) - n : b[i] = s[n + i]
  <2>1. \A i \in n + 1..Len(s) : s[i] \in S
    BY <1>1
  <2>2. b \in Seq(S) /\ Len(b) = (IF n + 1 <= Len(s) THEN Len(s) - (n + 1) + 1 ELSE 0)
        /\ \A i \in 1..(Len(s) - (n + 1) + 1) : b[i] = s[n + 1 + i - 1]
    BY <1>1, <2>1, SubSeqProperties
  <2> HIDE DEF b
  <2> DEFINE l == Len(s)
  <2>3. l \in Nat /\ l - (n + 1) + 1 = l - n /\ \A i \in 1..l - n : n + 1 + i - 1 = n + i
    BY <1>1
  <2>4. Len(b) = l - n
    <3>1. Len(b) = (IF n + 1 <= l THEN l - (n + 1) + 1 ELSE 0)
      BY <2>2
    <3>2. l \in Nat /\ n \in Nat /\ n <= l
      BY <1>1
    <3> HIDE DEF l
    <3> QED BY <3>1, <3>2
  <2> QED BY <2>2, <2>3, <2>4
<1>4. DOMAIN a = 1..n /\ DOMAIN b = 1..Len(s) - n
  BY <1>2, <1>3, LenProperties
<1> HIDE DEF a, b
<1>5. \A i \in 1..Len(s) : (i \in 1..n /\ a[i] = s[i])
                          \/ (i - n \in 1..Len(s) - n /\ b[i - n] = s[i])
  <2> TAKE i \in 1..Len(s)
  <2>1. i \in 1..n \/ (i - n \in 1..Len(s) - n /\ n + (i - n) = i)
    BY <1>1
  <2> QED BY <1>2, <1>3, <2>1
<1>6. \A i \in 1..n : i \in 1..Len(s)
  BY <1>1
<1>7. \A i \in 1..Len(s) - n : n + i \in 1..Len(s)
  BY <1>1
<1>8. Range(s) = Range(a) \cup Range(b)
  <2>1. Range(s) \subseteq Range(a) \cup Range(b)
    BY <1>1, <1>4, <1>5 DEF Range
  <2>2. Range(a) \subseteq Range(s)
    BY <1>1, <1>2, <1>4, <1>6 DEF Range
  <2>3. Range(b) \subseteq Range(s)
    BY <1>1, <1>3, <1>4, <1>7 DEF Range
  <2> QED BY <2>1, <2>2, <2>3
<1>9. ASSUME IsInjective(s) PROVE IsInjective(a) /\ IsInjective(b) /\ Range(a) \cap Range(b) = {}
  <2>1. \A i, j \in 1..Len(s) : s[i] = s[j] => i = j
    BY <1>1, <1>9 DEF IsInjective
  <2>2. IsInjective(a)
    BY <1>2, <1>4, <1>6, <2>1 DEF IsInjective
  <2>3. \A i, j \in 1..Len(s) - n : b[i] = b[j] => i = j
    <3>1. \A i, j \in 1..Len(s) - n : n + i = n + j => i = j
      BY <1>1
    <3> QED BY <1>3, <1>7, <2>1, <3>1
  <2>4. \A i \in 1..n, j \in 1..Len(s) - n : a[i] # b[j]
    <3>1. \A i \in 1..n, j \in 1..Len(s) - n : i # n + j
      BY <1>1
    <3> QED BY <1>2, <1>3, <1>6, <1>7, <2>1, <3>1
  <2> QED BY <1>4, <2>2, <2>3, <2>4 DEF IsInjective, Range
<1> QED BY <1>2, <1>3, <1>8, <1>9 DEF a, b

(* What is left of a sequence without its last element.                        *)
LEMMA FrontAndLast ==
    ASSUME NEW S, NEW s \in Seq(S), s # <<>>
    PROVE  /\ Front(s) \in Seq(S) /\ Last(s) \in S /\ Range(s) = Range(Front(s)) \cup {Last(s)}
           /\ IsInjective(s) => IsInjective(Front(s)) /\ Last(s) \notin Range(Front(s))
<1> DEFINE n == Len(s) - 1
           a == SubSeq(s, 1, n)
<1>1. /\ n \in Nat /\ n + 1 = Len(s) /\ DOMAIN s = 1..n + 1
      /\ \A i \in 1..n + 1 : s[i] \in S
  BY EmptySeq, LenProperties, ElementOfSeq
<1>2. a \in Seq(S) /\ DOMAIN a = 1..n /\ \A i \in 1..n : a[i] = s[i]
  <2> HIDE DEF n
  <2>1. \A i \in 1..n : s[i] \in S
    BY <1>1
  <2>2. a \in Seq(S) /\ Len(a) = (IF 1 <= n THEN n - 1 + 1 ELSE 0)
        /\ \A i \in 1..(n - 1 + 1) : a[i] = s[1 + i - 1]
    BY <1>1, <2>1, SubSeqProperties
  <2>3. DOMAIN a = 1..Len(a)
    BY <2>2, LenProperties
  <2> HIDE DEF a
  <2>4. \A i \in 1..n : 1 + i - 1 = i
    BY <1>1
  <2> QED BY <1>1, <2>2, <2>3, <2>4
<1>3. Front(s) = a /\ Last(s) = s[n + 1]
  BY <1>1 DEF Front, Last
<1> HIDE DEF n, a
<1>4. \A i \in 1..n + 1 : i \in 1..n \/ i = n + 1
  BY <1>1
<1>5. n + 1 \in 1..n + 1 /\ n + 1 \notin 1..n /\ \A i \in 1..n : i \in 1..n + 1
  BY <1>1
<1>6. Range(s) = Range(a) \cup {s[n + 1]}
  <2>1. Range(s) \subseteq Range(a) \cup {s[n + 1]}
    BY <1>1, <1>2, <1>4 DEF Range
  <2>2. Range(a) \cup {s[n + 1]} \subseteq Range(s)
    BY <1>1, <1>2, <1>5 DEF Range
  <2> QED BY <2>1, <2>2
<1>7. IsInjective(s) => IsInjective(a) /\ s[n + 1] \notin Range(a)
  BY <1>1, <1>2, <1>5 DEF IsInjective, Range
<1> QED BY <1>1, <1>2, <1>3, <1>5, <1>6, <1>7

(* SetToSeq lists a finite set, each element once.                             *)
LEMMA ListOfSet ==
    ASSUME NEW S, IsFiniteSet(S)
    PROVE  /\ SetToSeq(S) \in Seq(S) /\ IsInjective(SetToSeq(S))
           /\ Range(SetToSeq(S)) = S
<1> DEFINE n == Cardinality(S)
<1>1. n \in Nat /\ ExistsBijection(1..n, S)
  BY FS_CardinalityType
<1>2. PICK f \in [1..n -> S] : IsInjective(f)
  BY <1>1 DEF ExistsBijection, Bijection, Injection, IsInjective
<1>3. SetToSeq(S) \in [1..n -> S] /\ IsInjective(SetToSeq(S))
  BY <1>2 DEF SetToSeq
<1> DEFINE s == SetToSeq(S)
<1>4. s \in Surjection(1..n, S)
  <2>1. s \in Injection(1..n, S)
    BY <1>3 DEF Injection
  <2>2. Cardinality(1..n) = n
    BY <1>1, FS_Interval
  <2> QED BY <2>1, <2>2, FS_Injection
<1>5. Range(s) = S
  BY <1>3, <1>4 DEF Surjection, Range
<1>6. s \in Seq(S)
  BY <1>1, <1>3, SeqDef
<1> QED BY <1>3, <1>5, <1>6

(* A sequence without its first occurrence of an element.                      *)
LEMMA WithoutFirst ==
    ASSUME NEW S, NEW s \in Seq(S), NEW e, IsInjective(s)
    PROVE  /\ RemoveFirst(s, e) \in Seq(S) /\ IsInjective(RemoveFirst(s, e))
           /\ Range(RemoveFirst(s, e)) = Range(s) \ {e}
<1>1. Len(s) \in Nat /\ DOMAIN s = 1..Len(s)
  BY LenProperties
<1>2. CASE ~\E i \in 1..Len(s) : s[i] = e
  BY <1>1, <1>2 DEF RemoveFirst, Range
<1>3. CASE \E i \in 1..Len(s) : s[i] = e
  <2> DEFINE I == {i \in 1..Len(s) : s[i] = e}
             k == Min(I)
             a == SubSeq(s, 1, k - 1)
             b == SubSeq(s, k + 1, Len(s))
  <2>1. RemoveFirst(s, e) = a \o b
    BY <1>3, Zenon DEF RemoveFirst, RemoveAt, SelectInSeq
  <2>2. k \in I
    <3>1. I \in SUBSET Nat /\ I # {}
      BY <1>3
    <3> HIDE DEF I
    <3> QED BY <3>1, LeastNumber DEF Min
  <2>3. k \in 1..Len(s) /\ s[k] = e
    <3> HIDE DEF k
    <3> QED BY <2>2
  <2> HIDE DEF I, k
  <2> DEFINE n == Len(s)
             m == n - k
  <2>4. n \in Nat /\ k \in Nat /\ 1 <= k /\ k <= n /\ k - 1 \in 0..n /\ k \in 0..n /\ m \in Nat /\ k - 1 \in Nat /\ k + m = n
    BY <1>1, <2>3
  <2>5. a \in Seq(S) /\ Len(a) = k - 1 /\ \A i \in 1..k - 1 : a[i] = s[i]
    <3>1. \A i \in 1..k - 1 : s[i] \in S /\ 1 + i - 1 = i
      BY <2>4, ElementOfSeq
    <3>2. a \in Seq(S) /\ Len(a) = (IF 1 <= k - 1 THEN k - 1 - 1 + 1 ELSE 0)
          /\ \A i \in 1..(k - 1 - 1 + 1) : a[i] = s[1 + i - 1]
      BY <2>4, <3>1, SubSeqProperties
    <3>3. k - 1 - 1 + 1 = k - 1
      BY <2>4
    <3> HIDE DEF a, n
    <3> QED BY <2>4, <3>1, <3>2, <3>3
  <2>6. b \in Seq(S) /\ Len(b) = m /\ \A i \in 1..m : b[i] = s[k + i]
    <3>1. \A i \in k + 1..n : s[i] \in S
      BY <2>4, ElementOfSeq
    <3>2. b \in Seq(S) /\ Len(b) = (IF k + 1 <= n THEN n - (k + 1) + 1 ELSE 0)
          /\ \A i \in 1..(n - (k + 1) + 1) : b[i] = s[k + 1 + i - 1]
      BY <2>4, <3>1, SubSeqProperties
    <3>3. n - (k + 1) + 1 = m /\ \A i \in 1..m : k + 1 + i - 1 = k + i
      BY <2>4
    <3> HIDE DEF b, n
    <3> QED BY <2>4, <3>2, <3>3 DEF m
  <2> DEFINE r == a \o b
  <2> HIDE DEF a, b, n, m
  <2>7. r \in Seq(S) /\ Len(r) = k - 1 + m /\ DOMAIN r = 1..k - 1 + m
        /\ \A i \in 1..k - 1 + m : r[i] = IF i <= k - 1 THEN a[i] ELSE b[i - (k - 1)]
    <3>1. /\ r \in Seq(S) /\ Len(r) = Len(a) + Len(b)
          /\ \A i \in 1..Len(a) + Len(b) : r[i] = IF i <= Len(a) THEN a[i] ELSE b[i - Len(a)]
      BY Zenon, <2>5, <2>6, ConcatProperties
    <3> HIDE DEF r
    <3>2. DOMAIN r = 1..Len(r)
      BY <3>1, LenProperties
    <3> QED BY Zenon, <2>5, <2>6, <3>1, <3>2
  <2> HIDE DEF r
  <2>8. \A i \in 1..k - 1 + m : r[i] = s[IF i <= k - 1 THEN i ELSE i + 1]
    <3> TAKE i \in 1..k - 1 + m
    <3>1. CASE i <= k - 1
      <4>1. i \in 1..k - 1
        BY <2>4, <3>1
      <4> QED BY <2>5, <2>7, <3>1, <4>1
    <3>2. CASE ~(i <= k - 1)
      <4>1. i - (k - 1) \in 1..m /\ k + (i - (k - 1)) = i + 1
        BY <2>4, <3>2
      <4> QED BY <2>6, <2>7, <3>2, <4>1
    <3> QED BY <3>1, <3>2
  <2>9. \A i, j \in 1..n : s[i] = s[j] => i = j
    BY <1>1 DEF IsInjective, n
  <2>10. \A i \in 1..k - 1 + m : (IF i <= k - 1 THEN i ELSE i + 1) \in (1..n) \ {k}
    BY <2>4
  <2>11. IsInjective(r)
    <3>1. \A i, j \in 1..k - 1 + m : (IF i <= k - 1 THEN i ELSE i + 1) = (IF j <= k - 1 THEN j ELSE j + 1) => i = j
      BY <2>4
    <3> QED BY <2>7, <2>8, <2>9, <2>10, <3>1 DEF IsInjective
  <2>12. Range(r) \subseteq Range(s) \ {e}
    <3>1. \A i \in 1..k - 1 + m : r[i] \in Range(s)
      BY <1>1, <2>8, <2>10 DEF Range, n
    <3>2. \A i \in 1..k - 1 + m : r[i] # e
      BY <2>3, <2>8, <2>9, <2>10 DEF n
    <3> QED BY <2>7, <3>1, <3>2 DEF Range
  <2>13. Range(s) \ {e} \subseteq Range(r)
    <3> SUFFICES ASSUME NEW i \in 1..n, s[i] # e PROVE s[i] \in Range(r)
      BY <1>1 DEF Range, n
    <3>1. CASE i < k
      <4>1. i \in 1..k - 1 + m /\ i <= k - 1
        BY <2>4, <3>1
      <4> QED BY <2>7, <2>8, <4>1 DEF Range
    <3>2. CASE i > k
      <4>1. i - 1 \in 1..k - 1 + m /\ ~(i - 1 <= k - 1) /\ i - 1 + 1 = i
        BY <2>4, <3>2
      <4>2. r[i - 1] = s[i]
        BY <2>8, <4>1
      <4> QED BY <2>7, <4>1, <4>2 DEF Range
    <3>3. i # k
      BY <2>3
    <3> QED BY <2>4, <3>1, <3>2, <3>3
  <2> QED BY <2>1, <2>7, <2>11, <2>12, <2>13 DEF r
<1> QED BY <1>2, <1>3

(* A list without repetitions is as long as the set of its elements is large.  *)
LEMMA LengthOfList ==
    ASSUME NEW S, NEW s \in Seq(S), IsInjective(s)
    PROVE  IsFiniteSet(Range(s)) /\ Cardinality(Range(s)) = Len(s)
<1> DEFINE n == Len(s)
<1>1. n \in Nat /\ DOMAIN s = 1..n
  BY LenProperties
<1>2. s \in [1..n -> Range(s)]
  <2>1. s \in [1..n -> S]
    BY LenProperties
  <2>2. s = [i \in 1..n |-> s[i]] /\ \A i \in 1..n : s[i] \in Range(s)
    BY <1>1, <2>1 DEF Range
  <2> HIDE DEF n
  <2> QED BY <2>2
<1> HIDE DEF n
<1>3. s \in Bijection(1..n, Range(s))
  <2>1. s \in Injection(1..n, Range(s))
    BY <1>1, <1>2 DEF Injection, IsInjective
  <2>2. s \in Surjection(1..n, Range(s))
    BY <1>1, <1>2 DEF Surjection, Range
  <2> QED BY <2>1, <2>2 DEF Bijection
<1>4. ExistsBijection(1..n, Range(s))
  BY <1>3 DEF ExistsBijection
<1>5. IsFiniteSet(1..n) /\ Cardinality(1..n) = n
  BY <1>1, FS_Interval
<1> QED BY <1>4, <1>5, FS_Bijection DEF n
--------------------------------------------------------------------------------
(* A family of finite sets that is not empty has a member that contains no     *)
(* other.                                                                      *)
LEMMA SmallestSet ==
    ASSUME NEW S, IsFiniteSet(S), NEW T \in SUBSET (SUBSET S), T # {}
    PROVE  \E X \in T : \A Y \in SUBSET X : Y # X => Y \notin T
<1>1. IsWellFoundedOn(StrictSubsetOrdering(S), SUBSET S)
  BY FS_StrictSubsetOrderingWellFounded, FS_FiniteSubsetsOfFinite
<1>2. PICK X \in T : \A Y \in T : ~(<<Y, X>> \in StrictSubsetOrdering(S))
  BY <1>1, WFMin
<1>3. ASSUME NEW Y \in SUBSET X, Y # X, Y \in T PROVE FALSE
  <2>1. <<Y, X>> \in StrictSubsetOrdering(S)
    BY <1>3 DEF StrictSubsetOrdering
  <2> QED BY <1>2, <1>3, <2>1
<1> QED BY <1>3

(* The sum of what f gives the elements of S.                                  *)
SumOver(f, S) == MapThenSumSet(LAMBDA x : f[x], S)

One(T) == CHOOSE x \in T : TRUE
IsSum(w, f, S) == w = [T \in SUBSET S |-> IF T = {} THEN 0 ELSE f[One(T)] + w[T \ {One(T)}]]
SumTable(f, S) == CHOOSE w : IsSum(w, f, S)

LEMMA SumIsFold ==
    ASSUME NEW f, NEW S
    PROVE  SumOver(f, S) = SumTable(f, S)[S]
BY Zenon DEF SumOver, MapThenSumSet, MapThenFoldSet, SumTable, IsSum, One

LEMMA OneOf == ASSUME NEW T, T # {} PROVE One(T) \in T
BY DEF One

(* Two functions that add up the same values agree where both do.              *)
LEMMA SumsOfSetsAgree ==
    ASSUME NEW f, NEW S, IsFiniteSet(S), NEW R \in SUBSET S,
           NEW v, IsSum(v, f, S), NEW w, IsSum(w, f, R)
    PROVE  v[R] = w[R]
<1> DEFINE Bad == {U \in SUBSET R : v[U] # w[U]}
<1>1. ASSUME Bad # {} PROVE FALSE
  <2>1. PICK U \in Bad : \A Y \in SUBSET U : Y # U => Y \notin Bad
    <3>1. IsFiniteSet(R) /\ Bad \in SUBSET (SUBSET R)
      BY FS_Subset
    <3> HIDE DEF Bad
    <3> QED BY <1>1, <3>1, SmallestSet
  <2>2. U \in SUBSET R /\ U \in SUBSET S
    OBVIOUS
  <2>3. CASE U = {}
    BY <2>2, <2>3 DEF IsSum
  <2>4. CASE U # {}
    <3> DEFINE y == One(U)
               Y == U \ {y}
    <3>1. y \in U
      BY <2>4, OneOf
    <3>2. v[U] = f[y] + v[Y] /\ w[U] = f[y] + w[Y]
      BY Zenon, <2>2, <2>4 DEF IsSum
    <3>3. v[Y] = w[Y]
      BY <2>1, <3>1
    <3> HIDE DEF y, Y
    <3> QED BY <3>2, <3>3
  <2> QED BY <2>3, <2>4
<1> QED BY <1>1

(* There is such a function for every finite set.                              *)
LEMMA SumsOfSetsExist ==
    ASSUME NEW f, NEW S, IsFiniteSet(S)
    PROVE  IsSum(SumTable(f, S), f, S)
<1> DEFINE Bad == {U \in SUBSET S : ~IsSum(SumTable(f, U), f, U)}
<1>1. ASSUME Bad # {} PROVE FALSE
  <2>1. PICK U \in Bad : \A Y \in SUBSET U : Y # U => Y \notin Bad
    <3>1. Bad \in SUBSET (SUBSET S)
      OBVIOUS
    <3> HIDE DEF Bad
    <3> QED BY <1>1, <3>1, SmallestSet
  <2>2. \A Y \in SUBSET U : Y # U => IsSum(SumTable(f, Y), f, Y)
    BY <2>1
  <2> DEFINE g(Y) == SumTable(f, Y)[Y]
             h(Y) == IF Y = {} THEN 0 ELSE f[One(Y)] + g(Y \ {One(Y)})
             w == [Y \in SUBSET U |-> h(Y)]
  <2>3. ASSUME NEW Y \in SUBSET U, Y # U PROVE h(Y) = g(Y)
    <3>1. IsSum(SumTable(f, Y), f, Y) /\ Y \in SUBSET Y
      BY <2>2, <2>3
    <3>2. CASE Y = {}
      BY Zenon, <3>1, <3>2 DEF IsSum
    <3>3. CASE Y # {}
      <4> DEFINE y == One(Y)
                 Z == Y \ {y}
      <4>1. y \in Y /\ Z \in SUBSET Y /\ Z \in SUBSET U /\ Z # U /\ IsFiniteSet(Y)
        BY <3>3, OneOf, FS_Subset
      <4>2. IsSum(SumTable(f, Z), f, Z)
        BY <2>2, <4>1
      <4>3. SumTable(f, Y)[Z] = g(Z)
        BY <3>1, <4>1, <4>2, SumsOfSetsAgree
      <4>4. g(Y) = f[y] + SumTable(f, Y)[Z]
        BY Zenon, <3>1, <3>3 DEF IsSum
      <4>5. h(Y) = f[y] + g(Z)
        BY Zenon, <3>3
      <4> HIDE DEF g, h, y, Z
      <4> QED BY <4>3, <4>4, <4>5
    <3> QED BY <3>2, <3>3
  <2>4. IsSum(w, f, U)
    <3>1. ASSUME NEW Y \in SUBSET U, Y # {} PROVE w[Y \ {One(Y)}] = g(Y \ {One(Y)})
      <4> DEFINE Z == Y \ {One(Y)}
      <4>1. Z \in SUBSET U /\ Z # U
        BY <3>1, OneOf
      <4> HIDE DEF Z, g, h
      <4>2. w[Z] = g(Z)
        BY <2>3, <4>1
      <4> QED BY <4>2 DEF Z
    <3> HIDE DEF g
    <3>2. w = [Y \in SUBSET U |-> IF Y = {} THEN 0 ELSE f[One(Y)] + w[Y \ {One(Y)}]]
      BY <3>1
    <3> HIDE DEF w
    <3> QED BY <3>2 DEF IsSum
  <2>5. IsSum(SumTable(f, U), f, U)
    <3> HIDE DEF w
    <3> QED BY Zenon, <2>4 DEF SumTable
  <2> QED BY <2>1, <2>5
<1>2. S \notin Bad
  BY <1>1
<1> QED BY <1>2

LEMMA SumOfNothing == ASSUME NEW f PROVE SumOver(f, {}) = 0
<1>1. IsSum(SumTable(f, {}), f, {}) /\ {} \in SUBSET {}
  BY SumsOfSetsExist, FS_EmptySet
<1>2. SumTable(f, {})[{}] = 0
  BY Zenon, <1>1 DEF IsSum
<1> QED BY <1>2, SumIsFold

(* A sum adds the value of one element to the sum of the others.               *)
LEMMA SumWithoutOne ==
    ASSUME NEW f, NEW S, IsFiniteSet(S), S # {}
    PROVE  SumOver(f, S) = f[One(S)] + SumOver(f, S \ {One(S)})
<1> DEFINE y == One(S)
           R == S \ {y}
<1>1. y \in S /\ R \in SUBSET S /\ IsFiniteSet(R)
  BY OneOf, FS_Subset
<1>2. IsSum(SumTable(f, S), f, S) /\ IsSum(SumTable(f, R), f, R)
  BY <1>1, SumsOfSetsExist
<1>3. SumTable(f, S)[R] = SumTable(f, R)[R]
  BY <1>1, <1>2, SumsOfSetsAgree
<1>4. S \in SUBSET S
  OBVIOUS
<1>5. SumTable(f, S)[S] = f[y] + SumTable(f, S)[R]
  BY Zenon, <1>2, <1>4 DEF IsSum
<1> HIDE DEF y, R
<1>6. SumOver(f, S) = f[y] + SumOver(f, R)
  BY <1>3, <1>5, SumIsFold
<1> QED BY <1>6 DEF y, R

(* What the lemmas below are about: the sum of natural numbers.                *)
LEMMA SumIsNatural ==
    ASSUME NEW D, NEW f \in [D -> Nat], NEW S \in SUBSET D, IsFiniteSet(S)
    PROVE  SumOver(f, S) \in Nat
<1> DEFINE Bad == {U \in SUBSET S : SumOver(f, U) \notin Nat}
<1>1. ASSUME Bad # {} PROVE FALSE
  <2>1. PICK U \in Bad : \A Y \in SUBSET U : Y # U => Y \notin Bad
    <3>1. Bad \in SUBSET (SUBSET S)
      OBVIOUS
    <3> HIDE DEF Bad
    <3> QED BY <1>1, <3>1, SmallestSet
  <2>2. U \in SUBSET S /\ IsFiniteSet(U) /\ SumOver(f, U) \notin Nat
    BY FS_Subset
  <2>3. U # {}
    BY <2>2, SumOfNothing
  <2>4. One(U) \in U /\ One(U) \in D
    BY <2>2, <2>3, OneOf
  <2>5. SumOver(f, U \ {One(U)}) \in Nat
    BY <2>1, <2>2, <2>4
  <2>6. f[One(U)] \in Nat
    BY <2>4
  <2>7. SumOver(f, U) = f[One(U)] + SumOver(f, U \ {One(U)})
    BY <2>2, <2>3, SumWithoutOne
  <2> HIDE DEF Bad
  <2> QED BY <2>2, <2>5, <2>6, <2>7
<1>2. S \notin Bad
  BY <1>1
<1> QED BY <1>2

(* It does not matter which element is taken out first.                        *)
LEMMA SumWithout ==
    ASSUME NEW D, NEW f \in [D -> Nat], NEW S \in SUBSET D, IsFiniteSet(S), NEW e \in S
    PROVE  SumOver(f, S) = f[e] + SumOver(f, S \ {e})
<1> DEFINE Bad == {U \in SUBSET S : \E x \in U : SumOver(f, U) # f[x] + SumOver(f, U \ {x})}
<1>1. ASSUME Bad # {} PROVE FALSE
  <2>1. PICK U \in Bad : \A Y \in SUBSET U : Y # U => Y \notin Bad
    <3>1. Bad \in SUBSET (SUBSET S)
      OBVIOUS
    <3> HIDE DEF Bad
    <3> QED BY <1>1, <3>1, SmallestSet
  <2>2. PICK x \in U : SumOver(f, U) # f[x] + SumOver(f, U \ {x})
    OBVIOUS
  <2>3. U \in SUBSET S /\ IsFiniteSet(U) /\ U # {}
    BY FS_Subset
  <2>4. \A Y \in SUBSET U : Y # U => \A z \in Y : SumOver(f, Y) = f[z] + SumOver(f, Y \ {z})
    BY <2>1, <2>3
  <2> DEFINE y == One(U)
             V == U \ {x, y}
  <2>5. y \in U
    BY <2>3, OneOf
  <2>6. SumOver(f, U) = f[y] + SumOver(f, U \ {y})
    BY <2>3, SumWithoutOne
  <2> HIDE DEF y
  <2>7. y # x
    BY <2>2, <2>6
  <2>8. SumOver(f, U \ {y}) = f[x] + SumOver(f, V)
    <3>1. U \ {y} # U /\ U \ {y} \in SUBSET U /\ x \in U \ {y} /\ (U \ {y}) \ {x} = V
      BY <2>5, <2>7
    <3> QED BY <2>4, <3>1
  <2>9. SumOver(f, U \ {x}) = f[y] + SumOver(f, V)
    <3>1. U \ {x} # U /\ U \ {x} \in SUBSET U /\ y \in U \ {x} /\ (U \ {x}) \ {y} = V
      BY <2>5, <2>7
    <3> QED BY <2>4, <3>1
  <2>10. f[x] \in Nat /\ f[y] \in Nat /\ SumOver(f, V) \in Nat
    <3>1. V \in SUBSET D /\ IsFiniteSet(V)
      BY <2>3, FS_Subset
    <3>2. SumOver(f, V) \in Nat
      <4> HIDE DEF V
      <4> QED BY <3>1, SumIsNatural
    <3> QED BY <2>3, <2>5, <3>2
  <2> HIDE DEF Bad, V
  <2> QED BY <2>2, <2>6, <2>8, <2>9, <2>10
<1>2. S \notin Bad
  BY <1>1
<1>3. S \in SUBSET S
  OBVIOUS
<1> QED BY <1>2, <1>3

(* The sum over two sets that share nothing is the sum of their sums.          *)
LEMMA SumOfUnion ==
    ASSUME NEW D, NEW f \in [D -> Nat], NEW S \in SUBSET D, IsFiniteSet(S),
           NEW R \in SUBSET D, IsFiniteSet(R), S \cap R = {}
    PROVE  SumOver(f, S \cup R) = SumOver(f, S) + SumOver(f, R)
<1> DEFINE Bad == {U \in SUBSET S : SumOver(f, U \cup R) # SumOver(f, U) + SumOver(f, R)}
<1>1. ASSUME Bad # {} PROVE FALSE
  <2>1. PICK U \in Bad : \A Y \in SUBSET U : Y # U => Y \notin Bad
    <3>1. Bad \in SUBSET (SUBSET S)
      OBVIOUS
    <3> HIDE DEF Bad
    <3> QED BY <1>1, <3>1, SmallestSet
  <2>2. U \in SUBSET S /\ IsFiniteSet(U) /\ SumOver(f, U \cup R) # SumOver(f, U) + SumOver(f, R)
    BY FS_Subset
  <2>3. SumOver(f, R) \in Nat
    BY SumIsNatural
  <2>4. U # {}
    <3>1. ASSUME U = {} PROVE FALSE
      <4>1. SumOver(f, U \cup R) = SumOver(f, R) /\ SumOver(f, U) = 0
        <5>1. U \cup R = R
          BY <3>1
        <5> QED BY <3>1, <5>1, SumOfNothing
      <4> HIDE DEF Bad
      <4> QED BY <2>2, <2>3, <4>1
    <3> QED BY <3>1
  <2>5. PICK y \in U : TRUE
    BY <2>4
  <2> DEFINE V == U \ {y}
  <2>6. V \in SUBSET D /\ IsFiniteSet(V) /\ U \in SUBSET D /\ y \in D
    BY <2>2, FS_Subset
  <2>7. SumOver(f, V \cup R) = SumOver(f, V) + SumOver(f, R)
    BY <2>1, <2>2
  <2>8. SumOver(f, U) = f[y] + SumOver(f, V)
    BY <2>2, <2>6, SumWithout
  <2>9. SumOver(f, U \cup R) = f[y] + SumOver(f, V \cup R)
    <3>1. (U \cup R) \ {y} = V \cup R /\ U \cup R \in SUBSET D /\ y \in U \cup R
      BY <2>2, <2>6
    <3>2. IsFiniteSet(U \cup R)
      BY <2>2, FS_Union
    <3>3. SumOver(f, U \cup R) = f[y] + SumOver(f, (U \cup R) \ {y})
      <4> DEFINE W == U \cup R
      <4> HIDE DEF W, Bad
      <4>1. W \in SUBSET D /\ y \in W /\ IsFiniteSet(W)
        BY <3>1, <3>2 DEF W
      <4>2. SumOver(f, W) = f[y] + SumOver(f, W \ {y})
        BY <4>1, SumWithout
      <4> QED BY <4>2 DEF W
    <3> QED BY <3>1, <3>3
  <2>10. f[y] \in Nat /\ SumOver(f, V) \in Nat
    <3>1. SumOver(f, V) \in Nat
      <4> HIDE DEF V
      <4> QED BY <2>6, SumIsNatural
    <3> QED BY <2>6, <3>1
  <2> HIDE DEF Bad, V
  <2> QED BY <2>2, <2>3, <2>7, <2>8, <2>9, <2>10
<1>2. S \notin Bad
  BY <1>1
<1>3. S \in SUBSET S
  OBVIOUS
<1> QED BY <1>2, <1>3

(* A part of a set adds up to no more than the whole.                          *)
LEMMA SumOfPart ==
    ASSUME NEW D, NEW f \in [D -> Nat], NEW S \in SUBSET D, IsFiniteSet(S), NEW R \in SUBSET S
    PROVE  /\ SumOver(f, S) = SumOver(f, R) + SumOver(f, S \ R)
           /\ SumOver(f, R) \in Nat /\ SumOver(f, S \ R) \in Nat
<1> DEFINE Q == S \ R
<1>1. R \in SUBSET D /\ IsFiniteSet(R) /\ Q \in SUBSET D /\ IsFiniteSet(Q) /\ R \cap Q = {} /\ R \cup Q = S
  BY FS_Subset
<1> HIDE DEF Q
<1>2. SumOver(f, R \cup Q) = SumOver(f, R) + SumOver(f, Q)
  BY <1>1, SumOfUnion
<1>3. SumOver(f, R) \in Nat /\ SumOver(f, Q) \in Nat
  BY <1>1, SumIsNatural
<1> QED BY <1>1, <1>2, <1>3 DEF Q

(* Zeros add up to zero.                                                       *)
LEMMA SumOfZeros ==
    ASSUME NEW D, NEW f \in [D -> Nat], NEW S \in SUBSET D, IsFiniteSet(S), \A x \in S : f[x] = 0
    PROVE  SumOver(f, S) = 0
<1> DEFINE Bad == {U \in SUBSET S : SumOver(f, U) # 0}
<1>1. ASSUME Bad # {} PROVE FALSE
  <2>1. PICK U \in Bad : \A Y \in SUBSET U : Y # U => Y \notin Bad
    <3>1. Bad \in SUBSET (SUBSET S)
      OBVIOUS
    <3> HIDE DEF Bad
    <3> QED BY <1>1, <3>1, SmallestSet
  <2>2. U \in SUBSET S /\ IsFiniteSet(U) /\ SumOver(f, U) # 0
    BY FS_Subset
  <2>3. PICK y \in U : TRUE
    BY <2>2, SumOfNothing
  <2>4. SumOver(f, U \ {y}) = 0
    BY <2>1, <2>2
  <2>5. SumOver(f, U) = f[y] + SumOver(f, U \ {y})
    BY <2>2, SumWithout
  <2>6. f[y] = 0
    BY <2>2
  <2> HIDE DEF Bad
  <2> QED BY <2>2, <2>4, <2>5, <2>6
<1>2. S \notin Bad
  BY <1>1
<1>3. S \in SUBSET S
  OBVIOUS
<1> QED BY <1>2, <1>3

(* Two sums are equal if each term of the one is a term of the other, and all  *)
(* else is zero.                                                               *)
LEMMA SumOfSame ==
    ASSUME NEW D, NEW f \in [D -> Nat], NEW S \in SUBSET D, IsFiniteSet(S),
           NEW E, NEW g \in [E -> Nat], NEW R \in SUBSET E, IsFiniteSet(R),
           NEW h \in [R -> S], \A x, y \in R : h[x] = h[y] => x = y,
           \A x \in R : g[x] = f[h[x]],
           \A y \in S : (\A x \in R : h[x] # y) => f[y] = 0
    PROVE  SumOver(g, R) = SumOver(f, S)
<1> DEFINE Image(U) == {h[x] : x \in U}
           Bad == {U \in SUBSET R : SumOver(g, U) # SumOver(f, Image(U))}
<1>1. ASSUME Bad # {} PROVE FALSE
  <2>1. PICK U \in Bad : \A Y \in SUBSET U : Y # U => Y \notin Bad
    <3>1. Bad \in SUBSET (SUBSET R)
      OBVIOUS
    <3> HIDE DEF Bad
    <3> QED BY <1>1, <3>1, SmallestSet
  <2>2. U \in SUBSET R /\ IsFiniteSet(U) /\ SumOver(g, U) # SumOver(f, Image(U))
    BY FS_Subset
  <2>3. U # {}
    <3>1. ASSUME U = {} PROVE FALSE
      <4>1. Image(U) = {}
        BY <3>1
      <4> HIDE DEF Bad, Image
      <4> QED BY <2>2, <3>1, <4>1, SumOfNothing
    <3> QED BY <3>1
  <2>4. PICK y \in U : TRUE
    BY <2>3
  <2> DEFINE V == U \ {y}
             I == Image(U)
  <2>5. SumOver(g, V) = SumOver(f, Image(V))
    BY <2>1, <2>2
  <2>6. I \in SUBSET S /\ I \in SUBSET D /\ h[y] \in I /\ I \ {h[y]} = Image(V) /\ IsFiniteSet(I)
    <3>1. I \in SUBSET S /\ h[y] \in I /\ I \ {h[y]} = Image(V)
      BY <2>2
    <3> HIDE DEF I, Image
    <3> QED BY <3>1, FS_Subset
  <2>7. SumOver(g, U) = g[y] + SumOver(g, V)
    BY <2>2, SumWithout
  <2>8. g[y] = f[h[y]]
    BY <2>2
  <2> HIDE DEF Bad, Image, V, I
  <2>9. SumOver(f, I) = f[h[y]] + SumOver(f, I \ {h[y]})
    BY <2>6, SumWithout
  <2> QED BY <2>2, <2>5, <2>6, <2>7, <2>8, <2>9 DEF I
<1>2. R \notin Bad
  BY <1>1
<1>3. SumOver(g, R) = SumOver(f, Image(R))
  <2>1. R \in SUBSET R
    OBVIOUS
  <2> QED BY <1>2, <2>1
<1> DEFINE I == Image(R)
<1>4. I \in SUBSET S /\ S \ I \in SUBSET D /\ \A y \in S \ I : f[y] = 0
  OBVIOUS
<1> HIDE DEF Bad, Image, I
<1>5. SumOver(f, S) = SumOver(f, I) + SumOver(f, S \ I) /\ SumOver(f, I) \in Nat
  BY <1>4, SumOfPart
<1>6. SumOver(f, S \ I) = 0
  <2>1. IsFiniteSet(S \ I)
    BY FS_Subset
  <2> DEFINE Q == S \ I
  <2>2. Q \in SUBSET D /\ \A y \in Q : f[y] = 0
    BY <1>4
  <2>3. IsFiniteSet(Q)
    BY <2>1
  <2> HIDE DEF Q
  <2>4. SumOver(f, Q) = 0
    BY <2>2, <2>3, SumOfZeros
  <2> QED BY <2>4 DEF Q
<1> QED BY <1>3, <1>5, <1>6 DEF I

(* Terms that are no larger add up to no more.                                 *)
LEMMA SumAtMost ==
    ASSUME NEW D, NEW f \in [D -> Nat], NEW g \in [D -> Nat], NEW S \in SUBSET D, IsFiniteSet(S),
           \A x \in S : g[x] <= f[x]
    PROVE  SumOver(g, S) <= SumOver(f, S)
<1> DEFINE Bad == {U \in SUBSET S : ~(SumOver(g, U) <= SumOver(f, U))}
<1>1. ASSUME Bad # {} PROVE FALSE
  <2>1. PICK U \in Bad : \A Y \in SUBSET U : Y # U => Y \notin Bad
    <3>1. Bad \in SUBSET (SUBSET S)
      OBVIOUS
    <3> HIDE DEF Bad
    <3> QED BY <1>1, <3>1, SmallestSet
  <2>2. U \in SUBSET S /\ U \in SUBSET D /\ IsFiniteSet(U) /\ ~(SumOver(g, U) <= SumOver(f, U))
    BY FS_Subset
  <2>3. PICK y \in U : TRUE
    <3>1. SumOver(g, {}) = 0 /\ SumOver(f, {}) = 0
      BY SumOfNothing
    <3> HIDE DEF Bad
    <3> QED BY <2>2, <3>1
  <2> DEFINE V == U \ {y}
  <2>4. V \in SUBSET D /\ IsFiniteSet(V) /\ SumOver(g, V) <= SumOver(f, V)
    <3>1. V \notin Bad /\ V \in SUBSET S
      BY <2>1, <2>2
    <3> QED BY <2>2, <3>1, FS_Subset
  <2>5. SumOver(f, U) = f[y] + SumOver(f, V) /\ SumOver(g, U) = g[y] + SumOver(g, V)
    BY <2>2, SumWithout
  <2>6. g[y] <= f[y] /\ g[y] \in Nat /\ f[y] \in Nat
    BY <2>2
  <2> HIDE DEF Bad, V
  <2>7. SumOver(g, V) \in Nat /\ SumOver(f, V) \in Nat
    BY <2>4, SumIsNatural
  <2> QED BY <2>2, <2>4, <2>5, <2>6, <2>7
<1>2. S \notin Bad
  BY <1>1
<1>3. S \in SUBSET S
  OBVIOUS
<1> QED BY <1>2, <1>3

(* Changing one term changes the sum by as much.                               *)
LEMMA SumChanged ==
    ASSUME NEW D, NEW f \in [D -> Nat], NEW g \in [D -> Nat], IsFiniteSet(D), NEW e \in D,
           \A x \in D \ {e} : g[x] = f[x]
    PROVE  \E rest \in Nat : SumOver(f, D) = f[e] + rest /\ SumOver(g, D) = g[e] + rest
<1> DEFINE R == D \ {e}
           h == [x \in R |-> x]
<1>1. R \in SUBSET D /\ D \in SUBSET D /\ \A x \in R : g[x] = f[x]
  OBVIOUS
<1>2. IsFiniteSet(R)
  BY FS_Subset
<1>3. SumOver(f, D) = f[e] + SumOver(f, R) /\ SumOver(g, D) = g[e] + SumOver(g, R)
  BY <1>1, SumWithout
<1>4. /\ h \in [R -> R] /\ \A x, y \in R : h[x] = h[y] => x = y
      /\ \A x \in R : g[x] = f[h[x]]
      /\ \A y \in R : (\A x \in R : h[x] # y) => f[y] = 0
  BY <1>1
<1> HIDE DEF R, h
<1>5. SumOver(g, R) = SumOver(f, R)
  BY <1>1, <1>2, <1>4, SumOfSame
<1>6. SumOver(f, R) \in Nat
  BY <1>1, <1>2, SumIsNatural
<1> QED BY <1>3, <1>5, <1>6

(* The library's sum of a function is the sum over its domain.                 *)
LEMMA SumOfFunction == ASSUME NEW f PROVE SumFunction(f) = SumOver(f, DOMAIN f)
BY Zenon DEF SumOver, MapThenSumSet, MapThenFoldSet, SumFunction, SumFunctionOnSet, FoldFunctionOnSet

(* Remainders: one step round a ring of n, and two numbers less than n apart.  *)
LEMMA Wrap ==
    ASSUME NEW n \in Nat \ {0}, NEW a \in Nat, a < n + n
    PROVE  a % n = IF a < n THEN a ELSE a - n
OBVIOUS

LEMMA RemainderBounded == ASSUME NEW n \in Nat \ {0}, NEW a \in Nat PROVE a % n \in 0..(n - 1)
OBVIOUS

LEMMA QuotientBounded ==
    ASSUME NEW n \in Nat \ {0}, NEW a \in Nat
    PROVE  a \div n \in Nat /\ a \div n <= a
OBVIOUS

LEMMA RemaindersDiffer ==
    ASSUME NEW n \in Nat \ {0}, NEW a \in Nat, NEW b \in Nat, a < b, b < a + n
    PROVE  a % n # b % n
<1>1. SUFFICES ASSUME a % n = b % n PROVE FALSE
  OBVIOUS
<1> DEFINE p == a \div n
           q == b \div n
           r == a % n
<1>2. a = n * p + r /\ b = n * q + r /\ p \in Nat /\ q \in Nat /\ r \in Nat
  BY <1>1
<1> HIDE DEF p, q, r
<1>3. q > p
  <2>1. ASSUME q <= p PROVE FALSE
    <3>1. n * q <= n * p
      BY <1>2, <2>1
    <3> DEFINE x == n * q
               y == n * p
    <3>2. x \in Nat /\ y \in Nat /\ a = y + r /\ b = x + r /\ x <= y
      BY <1>2, <3>1
    <3> HIDE DEF x, y
    <3> QED BY <1>2, <3>2
  <2> QED BY <1>2, <2>1
<1>4. PICK k \in Nat : q = p + 1 + k
  <2>1. q - p - 1 \in Nat /\ q = p + 1 + (q - p - 1)
    BY <1>2, <1>3
  <2> QED BY <2>1
<1>5. n * q = n * p + n + n * k /\ n * k \in Nat
  BY <1>2, <1>4
<1> DEFINE x == n * q
           y == n * p
           z == n * k
<1>6. x \in Nat /\ y \in Nat /\ z \in Nat /\ a = y + r /\ b = x + r /\ x = y + n + z
  BY <1>2, <1>5
<1> HIDE DEF x, y, z
<1> QED BY <1>2, <1>6
--------------------------------------------------------------------------------
(* What holds of 0, and of n + 1 if it does of n, holds of every number: a set  *)
(* stands for the claim.                                                       *)
LEMMA EveryNumber ==
    ASSUME NEW P, 0 \in P, \A n \in Nat : n \in P => n + 1 \in P
    PROVE  Nat \subseteq P
<1> DEFINE Bad == Nat \ P
<1> SUFFICES ASSUME Bad # {} PROVE FALSE
  OBVIOUS
<1>1. PICK m \in Bad : \A k \in Bad : m <= k
  <2>1. Bad \in SUBSET Nat
    OBVIOUS
  <2> HIDE DEF Bad
  <2> QED BY <2>1, LeastNumber
<1>2. m \in Nat /\ m \notin P /\ m # 0
  OBVIOUS
<1>3. m - 1 \in Nat /\ ~(m <= m - 1) /\ (m - 1) + 1 = m
  BY <1>2
<1>4. m - 1 \in P
  BY <1>1, <1>3
<1> QED BY <1>2, <1>3, <1>4

(* The same of sequences: the empty one, and one more element behind.          *)
LEMMA EverySequence ==
    ASSUME NEW S, NEW P, << >> \in P, \A s \in Seq(S), e \in S : s \in P => Append(s, e) \in P
    PROVE  Seq(S) \subseteq P
<1> DEFINE Q == {n \in Nat : \A s \in Seq(S) : Len(s) = n => s \in P}
<1>1. 0 \in Q
  <2>1. \A s \in Seq(S) : Len(s) = 0 => s = << >>
    BY EmptySeq
  <2> QED BY <2>1
<1>2. ASSUME NEW n \in Nat, n \in Q PROVE n + 1 \in Q
  <2> SUFFICES ASSUME NEW s \in Seq(S), Len(s) = n + 1 PROVE s \in P
    OBVIOUS
  <2>1. s # << >>
    BY EmptySeq
  <2>2. PICK t \in Seq(S), e \in S : s = Append(t, e)
    BY <2>1, SequenceEmptyOrAppend
  <2>3. Len(t) = n
    BY <2>2, AppendProperties, LenProperties
  <2>4. t \in P
    BY <1>2, <2>3
  <2> QED BY <2>2, <2>4
<1> HIDE DEF Q
<1>3. Nat \subseteq Q
  BY <1>1, <1>2, EveryNumber
<1> SUFFICES ASSUME NEW s \in Seq(S) PROVE s \in P
  OBVIOUS
<1>4. Len(s) \in Q
  BY <1>3, LenProperties
<1> QED BY <1>4 DEF Q

(* An element behind two sequences is one behind the second.                   *)
LEMMA AppendBehind ==
    ASSUME NEW S, NEW s \in Seq(S), NEW t \in Seq(S), NEW e \in S
    PROVE  s \o Append(t, e) = Append(s \o t, e)
<1>1. <<e>> \in Seq(S) /\ s \o t \in Seq(S)
  BY ConcatProperties
<1>2. Append(t, e) = t \o <<e>> /\ Append(s \o t, e) = (s \o t) \o <<e>>
  BY <1>1, AppendIsConcat
<1>3. (s \o t) \o <<e>> = s \o (t \o <<e>>)
  BY <1>1, ConcatAssociative, SMTT(30)
<1> QED BY <1>2, <1>3

(* A stretch of a sequence, and two sequences in one.                         *)
LEMMA PartOf ==
    ASSUME NEW S, NEW s \in Seq(S), NEW m \in 1..(Len(s) + 1), NEW n \in 0..Len(s)
    PROVE  SubSeq(s, m, n) \in Seq(S)
<1>1. m \in Int /\ n \in Int /\ \A i \in m..n : s[i] \in S
  BY LenProperties, ElementOfSeq
<1> QED BY <1>1, SubSeqProperties

LEMMA ConcatInSeq == ASSUME NEW S, NEW s \in Seq(S), NEW t \in Seq(S) PROVE s \o t \in Seq(S)
BY ConcatProperties

(* The start of a sequence.                                                    *)
LEMMA BeginningOf ==
    ASSUME NEW S, NEW s \in Seq(S), NEW n \in Nat, n <= Len(s)
    PROVE  SubSeq(s, 1, n) \in Seq(S) /\ Len(SubSeq(s, 1, n)) = n /\ \A i \in 1..n : SubSeq(s, 1, n)[i] = s[i]
<1> DEFINE x == SubSeq(s, 1, n)
<1>1. 1 \in Int /\ n \in Int /\ \A i \in 1..n : s[i] \in S
  BY LenProperties, ElementOfSeq
<1>2. /\ x \in Seq(S) /\ Len(x) = (IF 1 <= n THEN n - 1 + 1 ELSE 0)
      /\ \A i \in 1..(n - 1 + 1) : x[i] = s[1 + i - 1]
  BY <1>1, SubSeqProperties
<1> HIDE DEF x
<1>3. Len(x) = n /\ \A i \in 1..n : x[i] = s[i]
  <2>1. \A i \in 1..n : i \in 1..(n - 1 + 1) /\ 1 + i - 1 = i
    OBVIOUS
  <2> QED BY <1>2, <2>1
<1> QED BY <1>2, <1>3 DEF x

(* What begins like another begins with it, element by element.               *)
LEMMA PrefixIs ==
    ASSUME NEW S, NEW b \in Seq(S), NEW t \in Seq(S)
    PROVE  IsPrefix(b, t) <=> Len(b) <= Len(t) /\ \A i \in 1..Len(b) : b[i] = t[i]
<1> DEFINE n == Len(b)
           x == SubSeq(b, 1, n)
           y == SubSeq(t, 1, n)
<1>1. n \in Nat /\ n <= Len(b)
  BY LenProperties
<1>2. x \in Seq(S) /\ Len(x) = n /\ \A i \in 1..n : x[i] = b[i]
  BY <1>1, BeginningOf
<1>3. n <= Len(t) => y \in Seq(S) /\ Len(y) = n /\ \A i \in 1..n : y[i] = t[i]
  BY <1>1, BeginningOf
<1>4. IsPrefix(b, t) <=> n <= Len(t) /\ x = y
  BY DEF IsPrefix
<1> HIDE DEF n, x, y
<1>5. ASSUME n <= Len(t), \A i \in 1..n : b[i] = t[i] PROVE x = y
  <2>1. \A i \in 1..n : x[i] = y[i]
    BY <1>2, <1>3, <1>5
  <2> QED BY <1>2, <1>3, <1>5, <2>1, SeqEqual
<1>6. ASSUME n <= Len(t), x = y PROVE \A i \in 1..n : b[i] = t[i]
  BY <1>2, <1>3, <1>6
<1> QED BY <1>4, <1>5, <1>6 DEF n

(* Sequences one after the other.                                              *)
LEMMA FlattenByStep ==
    ASSUME NEW seqs, Len(seqs) \in Nat \ {0}
    PROVE  \E w : /\ FlattenSeq(seqs) = w[Len(seqs)] /\ w[1] = seqs[1]
                  /\ \A k \in 2..Len(seqs) : w[k] = w[k - 1] \o seqs[k]
<1> DEFINE n == Len(seqs)
           IsWay(w, m) == w = [k \in 1..m |-> IF k = 1 THEN seqs[k] ELSE w[k - 1] \o seqs[k]]
           P == {m \in Nat : \E w : IsWay(w, m)}
<1>1. 0 \in P
  <2> DEFINE w == [k \in 1..0 |-> seqs[k]]
  <2>1. IsWay(w, 0)
    OBVIOUS
  <2> HIDE DEF w, IsWay
  <2> QED BY <2>1
<1>2. ASSUME NEW m \in Nat, m \in P PROVE m + 1 \in P
  <2>1. PICK w : IsWay(w, m)
    <3> HIDE DEF IsWay
    <3> QED BY <1>2
  <2> DEFINE new == IF m = 0 THEN seqs[1] ELSE w[m] \o seqs[m + 1]
             v == [k \in 1..(m + 1) |-> IF k = m + 1 THEN new ELSE w[k]]
  <2>2. \A k \in 1..(m + 1) : v[k] = IF k = 1 THEN seqs[k] ELSE v[k - 1] \o seqs[k]
    <3> TAKE k \in 1..(m + 1)
    <3> HIDE DEF P
    <3>1. CASE k = m + 1
      <4> HIDE DEF new
      <4>1. v[k] = new /\ (k # 1 => k - 1 = m /\ m \in 1..(m + 1) /\ m # m + 1 /\ m # 0) /\ (k = 1 => m = 0)
        BY <3>1
      <4>2. k # 1 => v[k - 1] = w[m]
        BY <4>1
      <4> QED BY <3>1, <4>1, <4>2 DEF new
    <3>2. CASE k # m + 1
      <4>1. k \in 1..m /\ (k # 1 => k - 1 \in 1..(m + 1) /\ k - 1 # m + 1)
        BY <3>2
      <4>2. w[k] = IF k = 1 THEN seqs[k] ELSE w[k - 1] \o seqs[k]
        BY <2>1, <4>1
      <4> HIDE DEF new
      <4> QED BY <3>2, <4>1, <4>2
    <3> QED BY <3>1, <3>2
  <2>3. IsWay(v, m + 1)
    <3>1. v = [k \in 1..(m + 1) |-> v[k]]
      OBVIOUS
    <3> HIDE DEF v, P
    <3> QED BY <2>2, <3>1
  <2> HIDE DEF IsWay, v
  <2>4. m + 1 \in Nat
    OBVIOUS
  <2> QED BY <2>3, <2>4
<1>3. PICK w : IsWay(w, n)
  <2>1. Nat \subseteq P
    <3> HIDE DEF P
    <3> QED BY <1>1, <1>2, EveryNumber
  <2> HIDE DEF IsWay
  <2> QED BY <2>1
<1> DEFINE flatten == CHOOSE u : IsWay(u, n)
<1>4. IsWay(flatten, n)
  <2> HIDE DEF IsWay
  <2> QED BY <1>3
<1>5. FlattenSeq(seqs) = flatten[n]
  <2>1. ~(Len(seqs) = 0)
    OBVIOUS
  <2> QED BY <2>1, Zenon DEF FlattenSeq
<1> HIDE DEF flatten
<1>6. flatten[1] = seqs[1] /\ \A k \in 2..n : flatten[k] = flatten[k - 1] \o seqs[k]
  <2>1. 1 \in 1..n /\ \A k \in 2..n : k \in 1..n /\ k # 1
    OBVIOUS
  <2> QED BY <1>4, <2>1
<1> QED BY <1>5, <1>6

LEMMA FlattenNothing == FlattenSeq(<< >>) = << >>
<1>1. Len(<< >>) = 0
  BY EmptySeq
<1> QED BY <1>1 DEF FlattenSeq

LEMMA FlattenMore ==
    ASSUME NEW S, NEW seqs \in Seq(Seq(S)), NEW e \in Seq(S)
    PROVE  FlattenSeq(Append(seqs, e)) = FlattenSeq(seqs) \o e
<1> DEFINE n == Len(seqs)
           more == Append(seqs, e)
<1>1. n \in Nat /\ Len(more) = n + 1 /\ more[n + 1] = e /\ \A i \in 1..n : more[i] = seqs[i]
  BY LenProperties, AppendProperties
<1> HIDE DEF more, n
<1>2. PICK v : /\ FlattenSeq(more) = v[n + 1] /\ v[1] = more[1]
               /\ \A k \in 2..(n + 1) : v[k] = v[k - 1] \o more[k]
  <2>1. Len(more) \in Nat \ {0}
    BY <1>1
  <2>2. \E v : /\ FlattenSeq(more) = v[Len(more)] /\ v[1] = more[1]
               /\ \A k \in 2..Len(more) : v[k] = v[k - 1] \o more[k]
    BY <2>1, FlattenByStep, Zenon
  <2> QED BY <1>1, <2>2
<1>3. CASE n = 0
  <2>1. seqs = << >>
    BY <1>3, EmptySeq DEF n
  <2>2. FlattenSeq(more) = e
    BY <1>1, <1>2, <1>3
  <2> QED BY <2>1, <2>2, FlattenNothing, ConcatEmptySeq DEF more
<1>4. CASE n # 0
  <2>1. PICK w : /\ FlattenSeq(seqs) = w[n] /\ w[1] = seqs[1]
                 /\ \A k \in 2..n : w[k] = w[k - 1] \o seqs[k]
    <3>1. Len(seqs) \in Nat \ {0}
      BY <1>1, <1>4 DEF n
    <3>2. \E w : /\ FlattenSeq(seqs) = w[Len(seqs)] /\ w[1] = seqs[1]
                 /\ \A k \in 2..Len(seqs) : w[k] = w[k - 1] \o seqs[k]
      BY <3>1, FlattenByStep, Zenon
    <3> QED BY <3>2 DEF n
  <2> DEFINE P == {k \in Nat : k \in 1..n => v[k] = w[k]}
  <2>2. 0 \in P
    OBVIOUS
  <2>3. ASSUME NEW k \in Nat, k \in P PROVE k + 1 \in P
    <3> SUFFICES ASSUME k + 1 \in 1..n PROVE v[k + 1] = w[k + 1]
      OBVIOUS
    <3>1. CASE k = 0
      BY <1>1, <1>2, <1>4, <2>1, <3>1
    <3>2. CASE k # 0
      <4>1. k \in 1..n /\ k + 1 \in 2..n /\ k + 1 \in 2..(n + 1) /\ (k + 1) - 1 = k
        BY <1>1, <3>2
      <4>2. v[k] = w[k] /\ more[k + 1] = seqs[k + 1]
        BY <1>1, <2>3, <4>1
      <4>3. v[k + 1] = v[k] \o more[k + 1] /\ w[k + 1] = w[k] \o seqs[k + 1]
        BY <1>2, <2>1, <4>1
      <4> QED BY <4>2, <4>3
    <3> QED BY <3>1, <3>2
  <2>4. v[n] = w[n]
    <3>1. Nat \subseteq P
      <4> HIDE DEF P
      <4> QED BY <2>2, <2>3, EveryNumber
    <3> QED BY <1>1, <1>4, <3>1
  <2>5. v[n + 1] = v[n] \o e
    <3>1. n + 1 \in 2..(n + 1) /\ (n + 1) - 1 = n
      BY <1>1, <1>4
    <3> QED BY <1>1, <1>2, <3>1
  <2> QED BY <1>2, <2>1, <2>4, <2>5 DEF more
<1> QED BY <1>3, <1>4 DEF more
================================================================================
