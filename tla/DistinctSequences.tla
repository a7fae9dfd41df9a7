------------------------- MODULE DistinctSequences -------------------------
(***************************************************************************)
(* Queues and lists that hold nobody twice: what is in them after one more *)
(* has come, the first has gone, or one in the middle was taken out.       *)
(***************************************************************************)
EXTENDS SequencesExt, SequenceTheorems, FiniteSetTheorems, TLAPS

Distinct(s) == \A i, j \in 1..Len(s) : s[i] = s[j] => i = j

Entry(s, w) == \E i \in 1..Len(s) : s[i] = w

Increasing(s) == \A i, j \in 1..Len(s) : i < j => s[i] < s[j]

-----------------------------------------------------------------------------
(* What the operations on them do *)

\* A sequence that has lost one of its places.
LEMMA Dropped ==
  ASSUME NEW S, NEW s \in Seq(S), NEW t \in Seq(S), NEW i \in 1..Len(s),
         Distinct(s), Len(t) = Len(s) - 1,
         \A j \in 1..Len(t) : t[j] = IF j < i THEN s[j] ELSE s[j + 1]
  PROVE  /\ Distinct(t)
         /\ \A w : Entry(t, w) <=> Entry(s, w) /\ w # s[i]
         /\ Increasing(s) => Increasing(t)
<1>1. Len(s) \in Nat /\ Len(t) \in Nat
  BY LenProperties
<1>2. Distinct(t)
  BY <1>1 DEF Distinct
<1>3. ASSUME NEW w, Entry(t, w) PROVE Entry(s, w) /\ w # s[i]
  <2>1. PICK j \in 1..Len(t) : t[j] = w
    BY <1>3 DEF Entry
  <2>2. CASE j < i
    BY <1>1, <2>1, <2>2 DEF Entry, Distinct
  <2>3. CASE ~(j < i)
    <3>1. w = s[j + 1] /\ j + 1 \in 1..Len(s) /\ j + 1 # i
      BY <1>1, <2>1, <2>3
    <3> QED
      BY <3>1 DEF Entry, Distinct
  <2> QED
    BY <2>2, <2>3
<1>4. ASSUME NEW w, Entry(s, w), w # s[i] PROVE Entry(t, w)
  <2>1. PICK k \in 1..Len(s) : s[k] = w
    BY <1>4 DEF Entry
  <2>2. CASE k < i
    <3>1. k \in 1..Len(t) /\ t[k] = w
      BY <1>1, <2>1, <2>2
    <3> QED
      BY <3>1 DEF Entry
  <2>3. CASE k > i
    <3>1. k - 1 \in 1..Len(t) /\ t[k - 1] = w
      BY <1>1, <2>1, <2>3
    <3> QED
      BY <3>1 DEF Entry
  <2> QED
    BY <1>1, <1>4, <2>1, <2>2, <2>3
<1>5. Increasing(s) => Increasing(t)
  <2> SUFFICES ASSUME Increasing(s), NEW j \in 1..Len(t), NEW k \in 1..Len(t), j < k
               PROVE  t[j] < t[k]
    BY DEF Increasing
  <2>1. /\ j \in 1..Len(s) /\ j + 1 \in 1..Len(s)
        /\ k \in 1..Len(s) /\ k + 1 \in 1..Len(s)
    BY <1>1
  <2>2. CASE k < i
    BY <1>1, <2>1, <2>2 DEF Increasing
  <2>3. CASE ~(k < i) /\ j < i
    <3>1. t[j] = s[j] /\ t[k] = s[k + 1] /\ j < k + 1
      BY <1>1, <2>3
    <3> QED
      BY <2>1, <3>1 DEF Increasing
  <2>4. CASE ~(j < i)
    <3>1. t[j] = s[j + 1] /\ t[k] = s[k + 1] /\ j + 1 < k + 1
      BY <1>1, <2>4
    <3> QED
      BY <2>1, <3>1 DEF Increasing
  <2> QED
    BY <2>2, <2>3, <2>4
<1> QED
  BY <1>2, <1>3, <1>4, <1>5

\* A place taken out: RemoveAt(s, i).
LEMMA RemoveOne ==
  ASSUME NEW S, NEW s \in Seq(S), Distinct(s), NEW i \in 1..Len(s)
  PROVE  /\ RemoveAt(s, i) \in Seq(S)
         /\ Distinct(RemoveAt(s, i))
         /\ \A w : Entry(RemoveAt(s, i), w) <=> Entry(s, w) /\ w # s[i]
         /\ Increasing(s) => Increasing(RemoveAt(s, i))
<1> DEFINE a == SubSeq(s, 1, i - 1)
           b == SubSeq(s, i + 1, Len(s))
<1>1. Len(s) \in Nat
  BY LenProperties
<1>2. a \in Seq(S) /\ Len(a) = i - 1 /\ \A j \in 1..Len(a) : a[j] = s[j]
  BY <1>1, SubSeqProperties
<1>3. b \in Seq(S) /\ Len(b) = Len(s) - i /\ \A j \in 1..Len(b) : b[j] = s[i + j]
  <2>1. /\ b \in Seq(S)
        /\ Len(b) = IF i + 1 <= Len(s) THEN Len(s) - (i + 1) + 1 ELSE 0
        /\ \A j \in 1..Len(s) - (i + 1) + 1 : b[j] = s[(i + 1) + j - 1]
    BY <1>1, SubSeqProperties
  <2> QED
    BY <1>1, <2>1
<1> HIDE DEF a, b
<1>4. /\ a \o b \in Seq(S) /\ Len(a \o b) = Len(s) - 1
      /\ \A j \in 1..Len(a \o b) : (a \o b)[j] = IF j < i THEN s[j] ELSE s[j + 1]
  <2>1. /\ a \o b \in Seq(S) /\ Len(a \o b) = Len(a) + Len(b)
        /\ \A j \in 1..Len(a) + Len(b) : (a \o b)[j] = IF j <= Len(a) THEN a[j] ELSE b[j - Len(a)]
    BY <1>2, <1>3, ConcatProperties
  <2>2. Len(a) + Len(b) = Len(s) - 1
    BY <1>1, <1>2, <1>3
  <2>3. ASSUME NEW j \in 1..Len(s) - 1
        PROVE  (a \o b)[j] = IF j < i THEN s[j] ELSE s[j + 1]
    <3>1. CASE j < i
      BY <1>1, <1>2, <2>1, <2>2, <3>1
    <3>2. CASE ~(j < i)
      <4>1. j - Len(a) \in 1..Len(b) /\ i + (j - Len(a)) = j + 1
        BY <1>1, <1>2, <1>3, <3>2
      <4>2. (a \o b)[j] = b[j - Len(a)]
        BY <1>1, <1>2, <2>1, <2>2, <3>2
      <4> QED
        BY <1>3, <3>2, <4>1, <4>2
    <3> QED
      BY <3>1, <3>2
  <2> QED
    BY <2>1, <2>2, <2>3
<1> DEFINE t == a \o b
<1>5. RemoveAt(s, i) = t
  BY DEF RemoveAt, a, b
<1>6. /\ t \in Seq(S) /\ Len(t) = Len(s) - 1
      /\ \A j \in 1..Len(t) : t[j] = IF j < i THEN s[j] ELSE s[j + 1]
  BY <1>4
<1> HIDE DEF t
<1> QED
  BY <1>5, <1>6, Dropped

\* The first place taken out.
LEMMA TailOne ==
  ASSUME NEW S, NEW s \in Seq(S), Distinct(s), s # << >>
  PROVE  /\ Tail(s) \in Seq(S) /\ Head(s) \in S /\ Entry(s, Head(s))
         /\ Distinct(Tail(s))
         /\ \A w : Entry(Tail(s), w) <=> Entry(s, w) /\ w # Head(s)
<1>1. /\ Head(s) \in S /\ Tail(s) \in Seq(S)
      /\ Len(Tail(s)) = Len(s) - 1
      /\ \A j \in 1..Len(Tail(s)) : Tail(s)[j] = s[j + 1]
      /\ Len(s) \in Nat \ {0}
  BY HeadTailProperties, EmptySeq
<1>2. Head(s) = s[1] /\ 1 \in 1..Len(s)
  BY <1>1
<1>3. \A j \in 1..Len(Tail(s)) : Tail(s)[j] = IF j < 1 THEN s[j] ELSE s[j + 1]
  BY <1>1
<1> DEFINE t == Tail(s)
<1>4. /\ t \in Seq(S) /\ Len(t) = Len(s) - 1
      /\ \A j \in 1..Len(t) : t[j] = IF j < 1 THEN s[j] ELSE s[j + 1]
  BY <1>1, <1>3
<1> HIDE DEF t
<1>5. Distinct(t) /\ \A w : Entry(t, w) <=> Entry(s, w) /\ w # s[1]
  BY <1>2, <1>4, Dropped
<1>6. Entry(s, Head(s))
  BY <1>2 DEF Entry
<1> QED
  BY <1>1, <1>2, <1>5, <1>6 DEF t

\* One more at the end, who was not there.
LEMMA AppendOne ==
  ASSUME NEW S, NEW s \in Seq(S), Distinct(s), NEW x \in S, ~Entry(s, x)
  PROVE  /\ Append(s, x) \in Seq(S) /\ Len(Append(s, x)) = Len(s) + 1
         /\ Distinct(Append(s, x))
         /\ \A w : Entry(Append(s, x), w) <=> Entry(s, w) \/ w = x
         /\ \A i \in 1..Len(s) : Append(s, x)[i] = s[i]
         /\ Append(s, x)[Len(s) + 1] = x
<1> DEFINE t == Append(s, x)
<1>1. /\ t \in Seq(S) /\ Len(t) = Len(s) + 1 /\ Len(s) \in Nat
      /\ \A i \in 1..Len(s) : t[i] = s[i]
      /\ t[Len(s) + 1] = x
  BY AppendProperties, LenProperties
<1> HIDE DEF t
<1>2. \A i \in 1..Len(t) : i \in 1..Len(s) \/ i = Len(s) + 1
  BY <1>1
<1>3. Distinct(t)
  BY <1>1, <1>2 DEF Distinct, Entry
<1>4. \A w : Entry(t, w) <=> Entry(s, w) \/ w = x
  BY <1>1, <1>2 DEF Entry
<1> QED
  BY <1>1, <1>3, <1>4 DEF t

\* As many entries as there are numbers to enter, at most.
LEMMA NoMoreThan ==
  ASSUME NEW m \in Nat, NEW s \in Seq(Nat), Distinct(s),
         \A i \in 1..Len(s) : s[i] \in 1..m
  PROVE  Len(s) <= m
<1>1. Len(s) \in Nat /\ s \in [1..Len(s) -> 1..m]
  BY LenProperties
<1>2. s \in Injection(1..Len(s), 1..m)
  BY <1>1 DEF Injection, IsInjective, Distinct
<1>3. IsFiniteSet(1..m) /\ Cardinality(1..m) = m
  BY FS_Interval
<1>4. Cardinality(1..Len(s)) <= Cardinality(1..m)
  BY <1>2, <1>3, FS_Injection
<1>5. Cardinality(1..Len(s)) = Len(s)
  BY <1>1, FS_Interval
<1> QED
  BY <1>3, <1>4, <1>5
=============================================================================
