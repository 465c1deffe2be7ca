--------------------------- MODULE CollectionLemmas ---------------------------
(***************************************************************************)
(* Lemmas about the sequences and sets of requests under way that the      *)
(* proofs about the client share.                                          *)
(***************************************************************************)
EXTENDS Integers, SequencesExt, FiniteSetTheorems, SequenceTheorems, TLAPS

\* A sequence without one of its elements: what is left, and its last one.
LEMMA RemoveAtKeeps ==
    ASSUME NEW S, NEW s \in Seq(S), NEW i \in DOMAIN s
    PROVE  /\ RemoveAt(s, i) \in Seq(S) /\ Len(RemoveAt(s, i)) = Len(s) - 1
           /\ i # Len(s) => RemoveAt(s, i)[Len(s) - 1] = s[Len(s)]
<1> DEFINE a == SubSeq(s, 1, i - 1)
           b == SubSeq(s, i + 1, Len(s))
<1>1. i \in 1..Len(s) /\ Len(s) \in Nat
      OBVIOUS
<1>2. a \in Seq(S) /\ Len(a) = i - 1
      BY <1>1
<1>3. b \in Seq(S) /\ Len(b) = Len(s) - i
      BY <1>1
<1>4. i # Len(s) => b[Len(s) - i] = s[Len(s)]
  <2>1. \A n \in Nat : \A j \in 1..n :
           /\ (j + 1) + (n - j) - 1 = n
           /\ j # n => n - j \in 1..(n - (j + 1) + 1)
        OBVIOUS
  <2>2. i + 1 \in Int /\ Len(s) \in Int /\ \A j \in i + 1..Len(s) : s[j] \in S
        BY <1>1
  <2>3. \A j \in 1..(Len(s) - (i + 1) + 1) : b[j] = s[(i + 1) + j - 1]
        BY <2>2, SubSeqProperties
  <2> QED BY <1>1, <2>1, <2>3
<1>5. RemoveAt(s, i) = a \o b
      BY DEF RemoveAt
<1> HIDE DEF a, b
<1>6. a \o b \in Seq(S) /\ Len(a \o b) = Len(s) - 1
      BY <1>1, <1>2, <1>3
<1>7. i # Len(s) => (a \o b)[Len(s) - 1] = b[Len(s) - 1 - (i - 1)]
      BY <1>1, <1>2, <1>3
<1>8. Len(s) - 1 - (i - 1) = Len(s) - i
      BY <1>1
<1> QED BY <1>4, <1>5, <1>6, <1>7, <1>8

LEMMA FirstRemains ==
    ASSUME NEW S, NEW s \in Seq(S), NEW i \in DOMAIN s, i # 1
    PROVE  RemoveAt(s, i)[1] = s[1]
<1> DEFINE a == SubSeq(s, 1, i - 1)
           b == SubSeq(s, i + 1, Len(s))
<1>1. i \in 1..Len(s) /\ Len(s) \in Nat /\ i - 1 \in 1..Len(s)
      OBVIOUS
<1>2. a \in Seq(S) /\ Len(a) = i - 1 /\ a[1] = s[1]
      BY <1>1
<1>3. b \in Seq(S)
      BY <1>1
<1>4. RemoveAt(s, i) = a \o b
      BY DEF RemoveAt
<1> HIDE DEF a, b
<1>5. (a \o b)[1] = a[1]
      BY <1>1, <1>2, <1>3
<1> QED BY <1>2, <1>4, <1>5

\* Requests that leave together.
LEMMA TwoAreFinite ==
    \A x, y : IsFiniteSet({x, y}) /\ IsFiniteSet({x}) /\ Cardinality({x, y}) <= 2
<1> SUFFICES ASSUME NEW x, NEW y
             PROVE  IsFiniteSet({x, y}) /\ IsFiniteSet({x}) /\ Cardinality({x, y}) <= 2
    OBVIOUS
<1>1. IsFiniteSet({x}) /\ Cardinality({x}) = 1
      BY FS_Singleton
<1>2. /\ IsFiniteSet({x} \cup {y})
      /\ Cardinality({x} \cup {y}) = IF y \in {x} THEN Cardinality({x}) ELSE Cardinality({x}) + 1
      BY <1>1, FS_AddElement
<1>3. {x, y} = {x} \cup {y}
      OBVIOUS
<1>4. Cardinality({x, y}) = 1 \/ Cardinality({x, y}) = 2
      BY <1>1, <1>2, <1>3
<1>5. \A n : n = 1 \/ n = 2 => n <= 2
      OBVIOUS
<1> QED BY <1>1, <1>2, <1>3, <1>4, <1>5, Zenon

\* What an element of a finite set is turned into.
LEMMA ImageIsFinite ==
    ASSUME NEW S, IsFiniteSet(S), NEW f, f = [x \in S |-> f[x]]
    PROVE  LET T == {f[x] : x \in S}
           IN IsFiniteSet(T) /\ Cardinality(T) <= Cardinality(S)
<1> DEFINE T == {f[x] : x \in S}
<1>1. f \in Surjection(S, T)
      BY DEF Surjection
<1> HIDE DEF T
<1>2. IsFiniteSet(T) /\ Cardinality(T) <= Cardinality(S)
      BY <1>1, FS_Surjection
<1> QED BY <1>2 DEF T

\* A frame put at the end of a queue, and the one taken from its head.
LEMMA Queued ==
  ASSUME NEW S, NEW q \in Seq(S), NEW f \in S
  PROVE  /\ Append(q, f) \in Seq(S) /\ Len(Append(q, f)) = Len(q) + 1
         /\ \A i \in DOMAIN Append(q, f) :
              \/ i \in DOMAIN q /\ Append(q, f)[i] = q[i]
              \/ i = Len(q) + 1 /\ Append(q, f)[i] = f
OBVIOUS

LEMMA Dequeued ==
  ASSUME NEW S, NEW q \in Seq(S), q # <<>>
  PROVE  /\ Head(q) \in S /\ Tail(q) \in Seq(S) /\ Len(Tail(q)) = Len(q) - 1
         /\ 1 \in DOMAIN q /\ Head(q) = q[1]
         /\ \A i \in DOMAIN Tail(q) : i + 1 \in DOMAIN q /\ Tail(q)[i] = q[i + 1]
OBVIOUS
===============================================================================
