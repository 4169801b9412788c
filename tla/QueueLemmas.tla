---------------------------- MODULE QueueLemmas ----------------------------
(***************************************************************************)
(* Lemmas about sequences used as queues without repetition: what happens  *)
(* to the elements when one is appended, taken from the head or removed.   *)
(***************************************************************************)
EXTENDS Naturals, Rings, SequenceTheorems, WellFoundedInduction, TLAPS

\* A nonempty set of naturals has a least element, which Min chooses.
LEMMA LeastNatural ==
  ASSUME NEW I, I \subseteq Nat, I # {}
  PROVE  Min(I) \in I /\ \A y \in I : Min(I) <= y
<1> DEFINE R == OpToRel(<, Nat)
<1>1. \A a, b \in Nat : <<a, b>> \in R <=> a < b
  BY DEF OpToRel
<1>2. IsWellFoundedOn(R, Nat)
  BY NatLessThanWellFounded
<1> HIDE DEF R
<1>3. PICK x \in I : \A y \in I : ~(<<y, x>> \in R)
  BY <1>2, WFMin
<1>4. ASSUME NEW y \in I PROVE x <= y
  <2>1. x \in Nat /\ y \in Nat
    OBVIOUS
  <2>2. ~(y < x)
    BY <1>1, <1>3, <2>1
  <2>3. QED BY <2>1, <2>2
<1>5. QED BY <1>4 DEF Min

\* The elements of a queue after something is put at its end.
LEMMA RangeOfAppend ==
  ASSUME NEW S, NEW s \in Seq(S), NEW e \in S
  PROVE  /\ Range(Append(s, e)) = Range(s) \cup {e}
         /\ IsInjective(s) /\ e \notin Range(s) => IsInjective(Append(s, e))
<1> DEFINE a == Append(s, e)
<1>1. /\ Len(s) \in Nat /\ DOMAIN s = 1..Len(s) /\ DOMAIN a = 1..(Len(s) + 1)
      /\ \A i \in 1..Len(s) : a[i] = s[i]
      /\ a[Len(s) + 1] = e
  BY AppendProperties, LenProperties
<1> HIDE DEF a
<1>2. Range(a) = Range(s) \cup {e}
  BY <1>1 DEF Range
<1>3. IsInjective(s) /\ e \notin Range(s) => IsInjective(a)
  BY <1>1 DEF Range, IsInjective
<1>4. QED BY <1>2, <1>3 DEF a

\* What is put at the end of a queue leaves its head alone.
LEMMA HeadAppend ==
  ASSUME NEW S, NEW s \in Seq(S), NEW e \in S
  PROVE  Append(s, e) # << >> /\ (s # << >> => Head(Append(s, e)) = Head(s))
<1>1. Append(s, e) \in Seq(S) /\ Append(s, e) # << >>
  BY AppendProperties
<1>2. \A q \in Seq(S) : q # << >> => Head(q) = q[1] /\ Len(q) > 0
  OBVIOUS
<1>3. s # << >> => Append(s, e)[1] = s[1]
  BY <1>2, AppendProperties
<1>4. QED BY <1>1, <1>2, <1>3

\* The elements of a queue after its head is taken.
LEMMA RangeOfTail ==
  ASSUME NEW S, NEW s \in Seq(S), s # << >>
  PROVE  /\ Range(s) = Range(Tail(s)) \cup {Head(s)}
         /\ IsInjective(s) => IsInjective(Tail(s)) /\ Head(s) \notin Range(Tail(s))
<1> DEFINE r == Tail(s)
<1>1. /\ Len(s) \in Nat \ {0} /\ DOMAIN s = 1..Len(s) /\ DOMAIN r = 1..(Len(s) - 1)
      /\ \A i \in 1..(Len(s) - 1) : r[i] = s[i + 1]
      /\ Head(s) = s[1]
  BY HeadTailProperties, LenProperties, EmptySeq
<1> HIDE DEF r
<1>2. Range(s) \subseteq Range(r) \cup {Head(s)}
  <2> SUFFICES ASSUME NEW i \in 1..Len(s), i # 1 PROVE s[i] \in Range(r)
    BY <1>1 DEF Range
  <2> i - 1 \in 1..(Len(s) - 1) /\ r[i - 1] = s[i]
    BY <1>1
  <2> QED BY <1>1 DEF Range
<1>3. Range(r) \cup {Head(s)} \subseteq Range(s)
  BY <1>1 DEF Range
<1>4. ASSUME IsInjective(s) PROVE IsInjective(r) /\ Head(s) \notin Range(r)
  <2>1. ASSUME NEW i \in DOMAIN r, NEW j \in DOMAIN r, r[i] = r[j] PROVE i = j
    <3>1. i + 1 \in DOMAIN s /\ j + 1 \in DOMAIN s /\ s[i + 1] = s[j + 1]
      BY <1>1, <2>1
    <3>2. i + 1 = j + 1
      BY <1>4, <3>1 DEF IsInjective
    <3>3. QED BY <3>2, <1>1
  <2>2. ASSUME NEW i \in DOMAIN r PROVE r[i] # Head(s)
    <3>1. i + 1 \in DOMAIN s /\ 1 \in DOMAIN s /\ i + 1 # 1
      BY <1>1
    <3>2. s[i + 1] # s[1]
      BY <1>4, <3>1 DEF IsInjective
    <3>3. QED BY <3>2, <1>1
  <2>3. QED BY <2>1, <2>2 DEF Range, IsInjective
<1>5. QED BY <1>2, <1>3, <1>4 DEF r

\* The elements of a queue after an item is removed from it.
LEMMA RangeOfRemove ==
  ASSUME NEW S, NEW s \in Seq(S), NEW e
  PROVE  /\ RemoveFirst(s, e) \in Seq(S)
         /\ Range(RemoveFirst(s, e)) \subseteq Range(s)
         /\ \A x \in Range(s) : x # e => x \in Range(RemoveFirst(s, e))
         /\ IsInjective(s) => /\ IsInjective(RemoveFirst(s, e))
                              /\ e \notin Range(RemoveFirst(s, e))
<1>1. CASE ~\E i \in 1..Len(s) : s[i] = e
  <2>1. RemoveFirst(s, e) = s
    BY <1>1 DEF RemoveFirst
  <2>2. e \notin Range(s)
    BY <1>1, LenProperties DEF Range
  <2>3. QED BY <2>1, <2>2
<1>2. CASE \E i \in 1..Len(s) : s[i] = e
  <2> DEFINE I == {i \in 1..Len(s) : s[i] = e}
             k == Min(I)
             r == SubSeq(s, 1, k - 1) \o SubSeq(s, k + 1, Len(s))
  <2>1. Len(s) \in Nat /\ DOMAIN s = 1..Len(s) /\ \A i \in 1..Len(s) : s[i] \in S
    BY LenProperties
  <2>2. k \in 1..Len(s) /\ s[k] = e
    <3>1. I \subseteq Nat /\ I # {}
      BY <1>2, <2>1
    <3>2. k \in I
      BY <3>1, LeastNatural
    <3>3. QED BY <3>2
  <2>3. RemoveFirst(s, e) = r
    BY <1>2 DEF RemoveFirst
  <2> HIDE DEF k, I
  <2> DEFINE a == SubSeq(s, 1, k - 1)
             b == SubSeq(s, k + 1, Len(s))
  <2>4. a \in Seq(S) /\ Len(a) = k - 1 /\ \A i \in 1..(k - 1) : a[i] = s[i]
    BY <2>1, <2>2, SubSeqProperties
  <2>5. b \in Seq(S) /\ Len(b) = Len(s) - k /\ \A i \in 1..(Len(s) - k) : b[i] = s[k + i]
    <3>1. /\ k + 1 \in Int /\ Len(s) \in Int
          /\ \A i \in (k + 1)..Len(s) : s[i] \in S
      BY <2>1, <2>2
    <3>2. /\ b \in Seq(S)
          /\ Len(b) = IF k + 1 <= Len(s) THEN Len(s) - (k + 1) + 1 ELSE 0
          /\ \A i \in 1..(Len(s) - (k + 1) + 1) : b[i] = s[(k + 1) + i - 1]
      BY <3>1, SubSeqProperties
    <3> HIDE DEF a, b, r
    <3>3. Len(b) = Len(s) - k
      <4>1. Len(s) \in Nat /\ k \in Nat /\ k <= Len(s)
        BY <2>1, <2>2
      <4>2. (IF k + 1 <= Len(s) THEN Len(s) - (k + 1) + 1 ELSE 0) = Len(s) - k
        BY <4>1
      <4>3. QED BY <4>2, <3>2
    <3>4. ASSUME NEW i \in 1..(Len(s) - k) PROVE b[i] = s[k + i]
      <4>1. i \in 1..(Len(s) - (k + 1) + 1) /\ (k + 1) + i - 1 = k + i
        BY <2>1, <2>2
      <4>2. QED BY <4>1, <3>2
    <3>5. QED BY <3>2, <3>3, <3>4
  <2>6. r = a \o b
    BY DEF r, a, b
  <2> HIDE DEF a, b, r
  <2>7. r \in Seq(S) /\ Len(r) = Len(a) + Len(b)
        /\ \A i \in 1..(Len(a) + Len(b)) : r[i] = IF i <= Len(a) THEN a[i] ELSE b[i - Len(a)]
    BY <2>4, <2>5, <2>6, ConcatProperties
  <2>8. Len(r) = Len(s) - 1 /\ DOMAIN r = 1..(Len(s) - 1)
    BY <2>1, <2>2, <2>4, <2>5, <2>7, LenProperties
  <2>9. ASSUME NEW i \in 1..(Len(s) - 1)
        PROVE  r[i] = IF i < k THEN s[i] ELSE s[i + 1]
    <3>1. i \in 1..(Len(a) + Len(b))
      BY <2>1, <2>2, <2>4, <2>5
    <3>2. r[i] = IF i <= Len(a) THEN a[i] ELSE b[i - Len(a)]
      BY <3>1, <2>7
    <3>3. i \in Int /\ k \in Int /\ Len(a) = k - 1
      BY <2>2, <2>4
    <3>4. CASE i < k
      <4>1. i <= Len(a) /\ i \in 1..(k - 1)
        BY <3>4, <3>3
      <4>2. QED BY <4>1, <3>4, <3>2, <2>4
    <3>5. CASE ~(i < k)
      <4>1. i - Len(a) \in 1..(Len(s) - k) /\ k + (i - Len(a)) = i + 1
        BY <3>5, <2>1, <2>2, <2>4
      <4>2. b[i - Len(a)] = s[i + 1]
        BY <4>1, <2>5
      <4>3. ~(i <= Len(a))
        BY <3>5, <3>3
      <4>4. QED BY <4>2, <4>3, <3>5, <3>2
    <3>6. QED BY <3>4, <3>5
  \* Position i of r is position old(i) of s, and old skips k only.
  <2> DEFINE old(i) == IF i < k THEN i ELSE i + 1
  <2>10. \A i \in DOMAIN r : old(i) \in DOMAIN s /\ old(i) # k /\ r[i] = s[old(i)]
    BY <2>1, <2>2, <2>8, <2>9
  <2>11. \A i, j \in DOMAIN r : old(i) = old(j) => i = j
    BY <2>2, <2>8
  <2>12. \A i \in DOMAIN s : i # k => \E j \in DOMAIN r : old(j) = i
    <3> SUFFICES ASSUME NEW i \in DOMAIN s, i # k PROVE \E j \in DOMAIN r : old(j) = i
      OBVIOUS
    <3>1. CASE i < k
      <4>1. i \in DOMAIN r /\ old(i) = i
        BY <3>1, <2>1, <2>2, <2>8
      <4>2. QED BY <4>1
    <3>2. CASE i > k
      <4>1. i - 1 \in DOMAIN r /\ old(i - 1) = i
        BY <3>2, <2>1, <2>2, <2>8
      <4>2. QED BY <4>1
    <3>3. QED BY <3>1, <3>2, <2>1, <2>2
  <2> HIDE DEF old
  <2>13. Range(r) \subseteq Range(s)
    BY <2>10 DEF Range
  <2>14. ASSUME NEW x \in Range(s), x # e PROVE x \in Range(r)
    <3>1. PICK i \in DOMAIN s : s[i] = x
      BY DEF Range
    <3>2. PICK j \in DOMAIN r : old(j) = i
      BY <3>1, <2>2, <2>12, <2>14
    <3>3. QED BY <3>1, <3>2, <2>10 DEF Range
  <2>15. ASSUME IsInjective(s) PROVE IsInjective(r) /\ e \notin Range(r)
    <3>1. k \in DOMAIN s
      BY <2>1, <2>2
    <3>2. e \notin Range(r)
      BY <3>1, <2>2, <2>10, <2>15 DEF Range, IsInjective
    <3>3. IsInjective(r)
      BY <2>10, <2>11, <2>15 DEF IsInjective
    <3>4. QED BY <3>2, <3>3
  <2>16. QED BY <2>3, <2>7, <2>13, <2>14, <2>15
<1>3. QED BY <1>1, <1>2

=============================================================================
