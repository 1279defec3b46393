--------------------------- MODULE SequenceFacts ---------------------------
(***************************************************************************)
(* Facts about sequences that the proofs of several components use: what   *)
(* is in a sequence after an element is appended, removed at a place or    *)
(* taken from its head, and how often.                                     *)
(***************************************************************************)
EXTENDS Naturals, Sequences, FiniteSets, SequencesExt, SequenceTheorems,
        FiniteSetTheorems, TLAPS

\* What RemoveAt leaves: one element less, the others in their order.
LEMMA RemoveAtIndex ==
  ASSUME NEW S, NEW s \in Seq(S), NEW i \in 1..Len(s)
  PROVE  /\ RemoveAt(s, i) \in Seq(S)
         /\ Len(RemoveAt(s, i)) = Len(s) - 1
         /\ \A j \in 1..(Len(s) - 1) :
              RemoveAt(s, i)[j] = IF j < i THEN s[j] ELSE s[j + 1]
<1> DEFINE l == SubSeq(s, 1, i - 1)  r == SubSeq(s, i + 1, Len(s))
<1>1. l \in Seq(S) /\ Len(l) = i - 1 /\ \A j \in 1..(i - 1) : l[j] = s[j]
  OBVIOUS
<1>2. r \in Seq(S) /\ Len(r) = Len(s) - i /\ \A j \in 1..(Len(s) - i) : r[j] = s[j + i]
  OBVIOUS
<1>3. RemoveAt(s, i) = l \o r
  BY DEF RemoveAt
<1> HIDE DEF l, r
<1>4. /\ l \o r \in Seq(S) /\ Len(l \o r) = Len(s) - 1
      /\ \A j \in 1..(Len(s) - 1) :
           (l \o r)[j] = IF j <= Len(l) THEN l[j] ELSE r[j - Len(l)]
  <2>1. l \in Seq(S) /\ r \in Seq(S)
    BY <1>1, <1>2
  <2>2. /\ l \o r \in Seq(S) /\ Len(l \o r) = Len(l) + Len(r)
        /\ \A j \in 1..(Len(l) + Len(r)) :
             (l \o r)[j] = IF j <= Len(l) THEN l[j] ELSE r[j - Len(l)]
    BY <2>1, ConcatProperties
  <2>3. Len(l) + Len(r) = Len(s) - 1
    BY <1>1, <1>2
  <2> QED BY <2>2, <2>3
<1>5. ASSUME NEW j \in 1..(Len(s) - 1)
      PROVE  (l \o r)[j] = IF j < i THEN s[j] ELSE s[j + 1]
  <2>1. CASE j < i
    BY <2>1, <1>1, <1>4
  <2>2. CASE ~(j < i)
    <3>1. j - Len(l) \in 1..(Len(s) - i) /\ (j - Len(l)) + i = j + 1
      BY <2>2, <1>1
    <3>2. (l \o r)[j] = r[j - Len(l)]
      BY <2>2, <1>1, <1>4
    <3> QED BY <2>2, <3>1, <3>2, <1>2
  <2> QED BY <2>1, <2>2
<1> QED BY <1>3, <1>4, <1>5

\* Removing one of distinct elements removes it and no other.
LEMMA RemoveAtRange ==
  ASSUME NEW S, NEW s \in Seq(S), NEW i \in 1..Len(s),
         \A j, k \in 1..Len(s) : s[j] = s[k] => j = k
  PROVE  /\ Range(RemoveAt(s, i)) = Range(s) \ {s[i]}
         /\ \A j, k \in 1..Len(RemoveAt(s, i)) :
              RemoveAt(s, i)[j] = RemoveAt(s, i)[k] => j = k
<1> DEFINE q == RemoveAt(s, i)
<1>1. /\ q \in Seq(S) /\ Len(q) = Len(s) - 1
      /\ \A j \in 1..(Len(s) - 1) : q[j] = IF j < i THEN s[j] ELSE s[j + 1]
  BY RemoveAtIndex
<1> HIDE DEF q
<1>2. Range(q) = {q[j] : j \in 1..Len(q)} /\ Range(s) = {s[j] : j \in 1..Len(s)}
  BY <1>1 DEF Range
<1>3. ASSUME NEW j \in 1..Len(q) PROVE q[j] \in Range(s) \ {s[i]}
  BY <1>1, <1>2, <1>3
<1>4. ASSUME NEW j \in 1..Len(s), s[j] # s[i] PROVE s[j] \in Range(q)
  <2>1. CASE j < i
    <3>1. j \in 1..Len(q) /\ q[j] = s[j]
      BY <1>1, <2>1
    <3> QED BY <1>2, <3>1
  <2>2. CASE j > i
    <3>1. j - 1 \in 1..Len(q) /\ q[j - 1] = s[j]
      BY <1>1, <2>2
    <3> QED BY <1>2, <3>1
  <2> QED BY <1>4, <2>1, <2>2
<1>5. \A j, k \in 1..Len(q) : q[j] = q[k] => j = k
  BY <1>1
<1>6. Range(q) = Range(s) \ {s[i]}
  BY <1>2, <1>3, <1>4
<1> QED BY <1>5, <1>6 DEF q

\* Appending a new element keeps the elements distinct.
LEMMA AppendRange ==
  ASSUME NEW S, NEW s \in Seq(S), NEW e \in S
  PROVE  /\ Append(s, e) \in Seq(S) /\ Len(Append(s, e)) = Len(s) + 1
         /\ Range(Append(s, e)) = Range(s) \cup {e}
         /\ (e \notin Range(s) /\ \A j, k \in 1..Len(s) : s[j] = s[k] => j = k)
              => \A j, k \in 1..Len(Append(s, e)) :
                   Append(s, e)[j] = Append(s, e)[k] => j = k
<1> DEFINE q == Append(s, e)
<1>1. /\ q \in Seq(S) /\ Len(q) = Len(s) + 1 /\ q[Len(s) + 1] = e
      /\ \A j \in 1..Len(s) : q[j] = s[j]
  OBVIOUS
<1> HIDE DEF q
<1>2. Range(q) = {q[j] : j \in 1..Len(q)} /\ Range(s) = {s[j] : j \in 1..Len(s)}
  BY <1>1 DEF Range
<1>3. ASSUME NEW j \in 1..Len(q) PROVE q[j] \in Range(s) \cup {e}
  BY <1>1, <1>2, <1>3
<1>4. e \in Range(q) /\ \A j \in 1..Len(s) : s[j] \in Range(q)
  <2>1. Len(s) + 1 \in 1..Len(q) /\ \A j \in 1..Len(s) : j \in 1..Len(q)
    BY <1>1
  <2> QED BY <1>1, <1>2, <2>1
<1>5. Range(q) = Range(s) \cup {e}
  BY <1>2, <1>3, <1>4
<1>6. ASSUME e \notin Range(s), \A j, k \in 1..Len(s) : s[j] = s[k] => j = k
      PROVE  \A j, k \in 1..Len(q) : q[j] = q[k] => j = k
  <2>1. \A j \in 1..Len(s) : s[j] # e
    BY <1>2, <1>6
  <2> QED BY <1>1, <1>6, <2>1
<1> QED BY <1>1, <1>5, <1>6 DEF q

-----------------------------------------------------------------------------
\* Where an element stands in a sequence.
Places(s, e) == {i \in DOMAIN s : s[i] = e}

LEMMA PlacesFinite ==
  ASSUME NEW S, NEW s \in Seq(S), NEW e
  PROVE  IsFiniteSet(Places(s, e)) /\ Cardinality(Places(s, e)) \in Nat
<1>1. Places(s, e) \in SUBSET (1..Len(s)) /\ IsFiniteSet(1..Len(s))
  BY FS_Interval DEF Places
<1> QED BY <1>1, FS_Subset, FS_CardinalityType

\* One more of what is appended.
LEMMA PlacesAppend ==
  ASSUME NEW S, NEW s \in Seq(S), NEW m \in S, NEW e
  PROVE  Cardinality(Places(Append(s, m), e))
           = Cardinality(Places(s, e)) + (IF m = e THEN 1 ELSE 0)
<1>1. /\ DOMAIN s = 1..Len(s) /\ DOMAIN Append(s, m) = 1..Len(s) + 1 /\ Len(s) \in Nat
      /\ Append(s, m)[Len(s) + 1] = m
      /\ \A i \in DOMAIN s : Append(s, m)[i] = s[i]
  OBVIOUS
<1>2. Places(Append(s, m), e)
        = IF m = e THEN Places(s, e) \cup {Len(s) + 1} ELSE Places(s, e)
  <2>1. ASSUME NEW i \in DOMAIN Append(s, m)
        PROVE  i \in Places(Append(s, m), e) <=>
                 i \in Places(s, e) \/ (m = e /\ i = Len(s) + 1)
    <3>1. CASE i = Len(s) + 1
      BY <1>1, <3>1 DEF Places
    <3>2. CASE i # Len(s) + 1
      <4>1. i \in DOMAIN s
        BY <1>1, <3>2
      <4> QED BY <1>1, <3>2, <4>1 DEF Places
    <3> QED BY <3>1, <3>2
  <2>2. Places(s, e) \subseteq DOMAIN Append(s, m) /\ Len(s) + 1 \in DOMAIN Append(s, m)
        /\ Places(Append(s, m), e) \subseteq DOMAIN Append(s, m)
    BY <1>1 DEF Places
  <2> QED BY <2>1, <2>2
<1>3. Len(s) + 1 \notin Places(s, e)
  BY <1>1 DEF Places
<1>4. IsFiniteSet(Places(s, e)) /\ Cardinality(Places(s, e)) \in Nat
  BY PlacesFinite
<1>5. Cardinality(Places(s, e) \cup {Len(s) + 1}) = Cardinality(Places(s, e)) + 1
  BY <1>3, <1>4, FS_AddElement
<1>6. CASE m = e
  BY <1>2, <1>5, <1>6
<1>7. CASE m # e
  BY <1>2, <1>4, <1>7
<1> QED BY <1>6, <1>7

\* One less of what is taken.
LEMMA PlacesTail ==
  ASSUME NEW S, NEW s \in Seq(S), s # <<>>, NEW e
  PROVE  Cardinality(Places(s, e))
           = Cardinality(Places(Tail(s), e)) + (IF Head(s) = e THEN 1 ELSE 0)
<1>1. /\ DOMAIN s = 1..Len(s) /\ DOMAIN Tail(s) = 1..Len(s) - 1 /\ Len(s) \in Nat
      /\ Len(s) > 0 /\ Head(s) = s[1] /\ Tail(s) \in Seq(S)
      /\ \A i \in 1..Len(s) - 1 : Tail(s)[i] = s[i + 1]
  OBVIOUS
<1> DEFINE T == Places(Tail(s), e)
           R == Places(s, e) \ {1}
           f == [i \in T |-> i + 1]
<1>2. f \in Bijection(T, R)
  <2>1. \A i \in T : i \in Nat /\ i + 1 \in R
    BY <1>1 DEF Places
  <2> HIDE DEF T, R
  <2>2. f \in [T -> R]
    BY <2>1
  <2>3. \A i, j \in T : f[i] = f[j] => i = j
    BY <2>1
  <2>4. ASSUME NEW k \in R PROVE \E i \in T : f[i] = k
    <3>1. k - 1 \in T /\ f[k - 1] = k
      BY <1>1 DEF Places, T, R
    <3> QED BY <3>1
  <2> HIDE DEF f
  <2>5. f \in Injection(T, R)
    BY <2>2, <2>3 DEF Injection, IsInjective
  <2>6. f \in Surjection(T, R)
    BY <2>2, <2>4 DEF Surjection
  <2> QED BY <2>5, <2>6 DEF Bijection
<1>3. Cardinality(R) = Cardinality(T)
  <2>1. IsFiniteSet(T)
    BY <1>1, PlacesFinite
  <2>2. ExistsBijection(T, R)
    BY <1>2 DEF ExistsBijection
  <2> HIDE DEF T, R
  <2> QED BY <2>1, <2>2, FS_Bijection
<1>4. IsFiniteSet(Places(s, e)) /\ Cardinality(Places(s, e)) \in Nat
  BY PlacesFinite
<1>5. (1 \in Places(s, e)) <=> Head(s) = e
  BY <1>1 DEF Places
<1>6. Cardinality(R) = IF 1 \in Places(s, e) THEN Cardinality(Places(s, e)) - 1
                                            ELSE Cardinality(Places(s, e))
  BY <1>4, FS_RemoveElement
<1> HIDE DEF T, R
<1>7. Cardinality(T) \in Nat
  BY <1>1, PlacesFinite DEF T
<1> QED BY <1>3, <1>4, <1>5, <1>6, <1>7 DEF T
=============================================================================
