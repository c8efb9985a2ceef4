------------------------------ MODULE Counting ------------------------------
(***************************************************************************)
(* How many elements of a sequence are in a set, and what Append and Tail  *)
(* make of that number.  The proofs about start-up count the connections   *)
(* of a rank in an accept queue with it, those about the broadcasts the    *)
(* barrier tokens on a TCP stream.                                         *)
(***************************************************************************)
EXTENDS Integers, Sequences, FiniteSets, Functions, FiniteSetTheorems,
        SequenceTheorems, TLAPS

Occurrences(s, V) == Cardinality({i \in DOMAIN s : s[i] \in V})

\* The places of a sequence are finitely many.
LEMMA PlacesFinite ==
  ASSUME NEW T, NEW s \in Seq(T), NEW V
  PROVE  IsFiniteSet({i \in DOMAIN s : s[i] \in V})
  <1>1. DOMAIN s = 1 .. Len(s) /\ Len(s) \in Nat
    BY LenProperties
  <1>2. IsFiniteSet(1 .. Len(s))
    BY <1>1, FS_Interval
  <1>3. {i \in DOMAIN s : s[i] \in V} \in SUBSET (1 .. Len(s))
    BY <1>1
  <1> QED
    BY <1>2, <1>3, FS_Subset

LEMMA OccurrencesType ==
  ASSUME NEW T, NEW s \in Seq(T), NEW V
  PROVE  Occurrences(s, V) \in Nat
  BY PlacesFinite, FS_CardinalityType DEF Occurrences

LEMMA OccurrencesEmpty ==
  ASSUME NEW V
  PROVE  Occurrences(<<>>, V) = 0
  <1>1. {i \in DOMAIN <<>> : <<>>[i] \in V} = {}
    OBVIOUS
  <1> QED
    BY <1>1, FS_EmptySet DEF Occurrences

\* Something at place i is counted.
LEMMA OccurrencesPositive ==
  ASSUME NEW T, NEW s \in Seq(T), NEW V, NEW i \in DOMAIN s, s[i] \in V
  PROVE  Occurrences(s, V) >= 1
  <1> DEFINE P == {j \in DOMAIN s : s[j] \in V}
  <1>1. IsFiniteSet(P) /\ i \in P
    BY PlacesFinite
  <1>2. {i} \in SUBSET P
    BY <1>1
  <1>3. Cardinality({i}) = 1 /\ Cardinality({i}) <= Cardinality(P)
    BY <1>1, <1>2, FS_Singleton, FS_Subset
  <1>4. Cardinality(P) \in Nat
    BY <1>1, FS_CardinalityType
  <1> HIDE DEF P
  <1>5. Cardinality(P) >= 1
    BY <1>3, <1>4
  <1> QED
    BY <1>5 DEF Occurrences, P

LEMMA OccurrencesAppend ==
  ASSUME NEW T, NEW s \in Seq(T), NEW x \in T, NEW V
  PROVE  Occurrences(Append(s, x), V) = Occurrences(s, V) + (IF x \in V THEN 1 ELSE 0)
  <1> DEFINE P == {i \in DOMAIN s : s[i] \in V}
             Q == {i \in DOMAIN Append(s, x) : Append(s, x)[i] \in V}
  <1>1. /\ DOMAIN s = 1 .. Len(s) /\ Len(s) \in Nat
        /\ DOMAIN Append(s, x) = 1 .. Len(s) + 1
        /\ Append(s, x)[Len(s) + 1] = x
        /\ \A i \in 1 .. Len(s) : Append(s, x)[i] = s[i]
    BY AppendProperties, LenProperties
  <1>2. IsFiniteSet(P) /\ Cardinality(P) \in Nat
    BY PlacesFinite, FS_CardinalityType
  <1>3. Occurrences(s, V) = Cardinality(P) /\ Occurrences(Append(s, x), V) = Cardinality(Q)
    BY DEF Occurrences
  <1>4. CASE x \in V
    <2>1. Q = P \cup {Len(s) + 1}
      BY <1>1, <1>4
    <2>2. Len(s) + 1 \notin P
      BY <1>1
    <2> HIDE DEF P, Q
    <2>3. Cardinality(Q) = Cardinality(P) + 1
      BY <1>2, <2>1, <2>2, FS_AddElement
    <2> QED
      BY <1>4, <1>3, <2>3
  <1>5. CASE x \notin V
    <2>1. Q = P
      BY <1>1, <1>5
    <2> HIDE DEF P, Q
    <2> QED
      BY <1>2, <1>5, <1>3, <2>1
  <1> QED
    BY <1>4, <1>5

\* What the tail of a sequence has is what is behind the head, one place up.
LEMMA OccurrencesTail ==
  ASSUME NEW T, NEW s \in Seq(T), s # <<>>, NEW V
  PROVE  Occurrences(Tail(s), V) = Occurrences(s, V) - (IF Head(s) \in V THEN 1 ELSE 0)
  <1> DEFINE P == {i \in DOMAIN Tail(s) : Tail(s)[i] \in V}
             Q == {i \in 2 .. Len(s) : s[i] \in V}
             R == {i \in DOMAIN s : s[i] \in V}
             f == [i \in P |-> i + 1]
  <1>1. /\ DOMAIN s = 1 .. Len(s) /\ Len(s) \in Nat /\ Len(s) >= 1
        /\ Tail(s) \in Seq(T) /\ DOMAIN Tail(s) = 1 .. Len(s) - 1
        /\ \A i \in 1 .. Len(s) - 1 : Tail(s)[i] = s[i+1]
        /\ Head(s) = s[1]
    BY HeadTailProperties, LenProperties, EmptySeq
  <1>2. IsFiniteSet(P) /\ IsFiniteSet(R)
    BY <1>1, PlacesFinite
  <1>3. Cardinality(Q) = Cardinality(P)
    <2>1. f \in [P -> Q]
      BY <1>1
    <2>2. \A i, j \in P : f[i] = f[j] => i = j
      BY <1>1
    <2>3. \A k \in Q : k - 1 \in P /\ f[k - 1] = k
      BY <1>1
    <2> HIDE DEF P, Q, f
    <2>4. f \in Bijection(P, Q)
      BY <2>1, <2>2, <2>3 DEF Bijection, Injection, Surjection, IsInjective
    <2> QED
      BY <1>2, <2>4, FS_Bijection DEF ExistsBijection
  <1>4. Cardinality(P) \in Nat /\ Cardinality(R) \in Nat /\ IsFiniteSet(Q)
    <2>1. Q \in SUBSET R
      BY <1>1
    <2> HIDE DEF P, Q, R
    <2> QED
      BY <1>2, <2>1, FS_CardinalityType, FS_Subset
  <1>5. Occurrences(s, V) = Cardinality(R) /\ Occurrences(Tail(s), V) = Cardinality(P)
    BY DEF Occurrences
  <1>6. CASE Head(s) \in V
    <2>1. R = Q \cup {1} /\ 1 \notin Q
      BY <1>1, <1>6
    <2> HIDE DEF P, Q, R
    <2>2. Cardinality(R) = Cardinality(Q) + 1
      BY <1>4, <2>1, FS_AddElement
    <2> QED
      BY <1>3, <1>4, <1>6, <1>5, <2>2
  <1>7. CASE Head(s) \notin V
    <2>1. R = Q
      BY <1>1, <1>7
    <2> HIDE DEF P, Q, R
    <2> QED
      BY <1>3, <1>4, <1>7, <1>5, <2>1
  <1> QED
    BY <1>6, <1>7
=============================================================================
