------------------------- MODULE IndexAdviceProofs -------------------------
(***************************************************************************)
(* Proofs about IndexRules and IndexAdvice, for every catalog.             *)
(***************************************************************************)
EXTENDS IndexAdvice, FiniteSetTheorems, WellFoundedInduction, TLAPS

(* t is a prefix of s when they agree where t is defined. *)
LEMMA PrefixPointwise ==
  ASSUME NEW S, NEW T, NEW s \in Seq(S), NEW t \in Seq(T), Len(t) <= Len(s)
  PROVE  SubSeq(s, 1, Len(t)) = t <=> \A x \in 1..Len(t) : s[x] = t[x]
<1>1. /\ Len(t) \in Nat /\ Len(s) \in Nat
      /\ Len(SubSeq(s, 1, Len(t))) = Len(t)
      /\ SubSeq(s, 1, Len(t)) \in Seq(S)
      /\ \A x \in 1..Len(t) : SubSeq(s, 1, Len(t))[x] = s[x]
  OBVIOUS
<1>2. ASSUME \A x \in 1..Len(t) : s[x] = t[x]
      PROVE  SubSeq(s, 1, Len(t)) = t
  <2>1. /\ DOMAIN SubSeq(s, 1, Len(t)) = 1..Len(t) /\ DOMAIN t = 1..Len(t)
        /\ SubSeq(s, 1, Len(t)) = [x \in 1..Len(t) |-> SubSeq(s, 1, Len(t))[x]]
        /\ t = [x \in 1..Len(t) |-> t[x]]
    BY <1>1
  <2>2. [x \in 1..Len(t) |-> SubSeq(s, 1, Len(t))[x]] = [x \in 1..Len(t) |-> t[x]]
    BY <1>1, <1>2
  <2> QED
    BY <2>1, <2>2
<1> QED
  BY <1>1, <1>2

IsIndex(i) == i.key \in Seq(i.all_columns \X {"asc", "desc"})

LEMMA ServesPointwise ==
  ASSUME NEW i, NEW j, IsIndex(i), IsIndex(j)
  PROVE  Serves(j, i) <=>
           /\ j.access = i.access
           /\ Len(i.key) <= Len(j.key)
           /\ \A x \in 1..Len(i.key) : j.key[x] = i.key[x]
  BY PrefixPointwise DEF Serves, IsIndex

LEMMA ServesTransitive ==
  ASSUME NEW i, NEW j, NEW k, IsIndex(i), IsIndex(j), IsIndex(k),
         Serves(i, j), Serves(j, k)
  PROVE  Serves(i, k)
<1>1. Len(i.key) \in Nat /\ Len(j.key) \in Nat /\ Len(k.key) \in Nat
  BY DEF IsIndex
<1> QED
  BY <1>1, ServesPointwise

(* covers is what it is used as: a strict order. *)
THEOREM CoversTransitive ==
  ASSUME NEW i, NEW j, NEW k, IsIndex(i), IsIndex(j), IsIndex(k),
         Covers(i, j), Covers(j, k)
  PROVE  Covers(i, k) /\ ~Covers(k, i)
<1>1. Len(i.key) \in Nat /\ Len(j.key) \in Nat /\ Len(k.key) \in Nat
  BY DEF IsIndex
<1>2. Len(k.key) < Len(j.key) /\ Len(j.key) < Len(i.key)
  BY DEF Covers
<1>3. Serves(i, j) /\ Serves(j, k)
  BY <1>1, <1>2 DEF Covers, Serves
<1>4. Serves(i, k)
  BY <1>3, ServesTransitive
<1> QED
  BY <1>1, <1>2, <1>4 DEF Covers, Serves

LEMMA SameShapeServes ==
  ASSUME NEW i, NEW j, IsIndex(i), IsIndex(j), Shape(i) = Shape(j)
  PROVE  Serves(i, j)
<1>1. i.access = j.access /\ i.key = j.key /\ Len(i.key) \in Nat
  BY DEF Shape, IsIndex
<1> QED
  BY <1>1, ServesPointwise

LEMMA CoverServes ==
  ASSUME NEW w, NEW n, IsIndex(w), IsIndex(n), Covers(w, n)
  PROVE  Serves(w, n) /\ Len(n.key) < Len(w.key)
<1>1. Len(w.key) \in Nat /\ Len(n.key) \in Nat
  BY DEF IsIndex
<1> QED
  BY <1>1 DEF Covers, Serves

(* A group has one keeper at most. *)
LEMMA OneKeeper ==
  ASSUME NEW c, IsCatalog(c), NEW i \in c, NEW j \in c,
         IsKeeper(c, i), IsKeeper(c, j), Shape(i) = Shape(j)
  PROVE  i = j
<1> SUFFICES ASSUME i # j PROVE FALSE
  OBVIOUS
<1>1. i \in Group(c, j) /\ j \in Group(c, i)
  BY DEF Group, IsKeeper
<1>2. SortsBefore(i, j) /\ SortsBefore(j, i)
  BY <1>1 DEF IsKeeper
<1>3. i.name \in Nat /\ j.name \in Nat /\ i.size \in Nat /\ j.size \in Nat
  BY DEF IsCatalog
<1>4. Protected(i) = Protected(j)
  BY <1>2 DEF SortsBefore, Protected, IsCatalog
<1> QED
  BY <1>2, <1>3, <1>4 DEF SortsBefore

(* What a finding of each check says of the indexes it was made from. *)
LEMMA FindingMeans ==
  ASSUME NEW f \in Findings
  PROVE  /\ f.subject \in indexes
         /\ \/ f.check = "index.invalid" /\ ~f.subject.valid
            \/ /\ f.check = "index.duplicate" /\ f.keep \in indexes
               /\ IsCopyOf(indexes, f.subject, f.keep)
            \/ /\ f.check = "index.redundant" /\ f.keep \in indexes
               /\ f.subject.valid /\ ~Protected(f.subject)
               /\ f.keep.valid /\ Covers(f.keep, f.subject)
            \/ f.check = "index.unused" /\ f.subject.valid /\ ~Protected(f.subject)
<1>1. CASE \E i \in Invalid(indexes) :
              f = Drop("index.invalid", i, IF i.unique THEN "critical" ELSE "warning")
  BY <1>1 DEF Invalid, Drop
<1>2. CASE \E p \in Duplicates(indexes) : f = DropFor("index.duplicate", p, "warning")
  BY <1>2 DEF Duplicates, DropFor
<1>3. CASE \E p \in Redundant(indexes) : f = DropFor("index.redundant", p, "notice")
  BY <1>3 DEF Redundant, DropFor, FirstCover
<1>4. CASE \E i \in Unused(indexes, counted, MinSize) :
              f = Drop("index.unused", i, IF stats_reset THEN "warning" ELSE "notice")
  BY <1>4 DEF Unused, Drop
<1> QED
  BY <1>1, <1>2, <1>3, <1>4 DEF Findings

LEMMA CopyMeans ==
  ASSUME NEW c, NEW copy, NEW keeper, IsCopyOf(c, copy, keeper)
  PROVE  /\ copy.valid /\ keeper.valid /\ copy # keeper
         /\ Shape(copy) = Shape(keeper) /\ IsKeeper(c, keeper)
  BY DEF IsCopyOf, Group

(* The command and what is done with its report are well typed. *)
THEOREM AdviceTyped == Spec => []TypeOK
<1>1. Init => TypeOK
  BY CatalogsAssumption, FS_EmptySet DEF Init, TypeOK, IsCatalog
<1>2. TypeOK /\ [Next]_vars => TypeOK'
  <2> SUFFICES ASSUME TypeOK, [Next]_vars PROVE TypeOK'
    OBVIOUS
  <2> USE DEF TypeOK
  <2>1. ASSUME NEW i \in catalog, ScanIndex(i) PROVE TypeOK'
    BY <2>1 DEF ScanIndex, Findings
  <2>2. CASE ResetStatistics
    BY <2>2 DEF ResetStatistics, Findings
  <2>3. CASE LoadIndexes
    BY <2>3 DEF LoadIndexes, Findings
  <2>4. CASE ReadStatsReset
    BY <2>4 DEF ReadStatsReset
  <2>5. CASE Report
    BY <2>5 DEF Report, Findings
  <2>6. ASSUME NEW f \in findings, Follow(f) PROVE TypeOK'
    <3>1. IsFiniteSet(catalog')
      BY <2>6, FS_Subset DEF Follow, IsCatalog
    <3>2. IsCatalog(catalog')
      BY <2>6, <3>1 DEF Follow, IsCatalog
    <3> QED
      BY <2>6, <3>2 DEF Follow, Findings
  <2>7. CASE UNCHANGED vars
    BY <2>7 DEF vars, Findings
  <2> QED
    BY <2>1, <2>2, <2>3, <2>4, <2>5, <2>6, <2>7 DEF Next
<1> QED
  BY <1>1, <1>2, PTL DEF Spec

-----------------------------------------------------------------------------
(* One DROP INDEX takes nothing away that no other index has. *)

(* No advice names the keeper of a group of protected indexes, and what has *)
(* been dropped was dropped on advice, so the keeper is still there.        *)
LEMMA ProtectedKeeperStays ==
  ASSUME TypeOK, DroppedOnAdvice, phase = "printed",
         NEW k \in indexes, IsKeeper(indexes, k), Protected(k)
  PROVE  k \in catalog
<1> SUFFICES ASSUME k \notin catalog PROVE FALSE
  OBVIOUS
<1>1. PICK g \in applied : g.subject = k
  BY DEF DroppedOnAdvice
<1>2. g \in Findings /\ k.valid
  BY DEF TypeOK, IsKeeper
<1>3. IsCopyOf(indexes, k, g.keep) /\ g.keep \in indexes
  BY <1>1, <1>2, FindingMeans
<1>4. k # g.keep /\ Shape(k) = Shape(g.keep) /\ IsKeeper(indexes, g.keep)
  BY <1>3, CopyMeans
<1> QED
  BY <1>3, <1>4, OneKeeper DEF TypeOK

LEMMA FollowKeepsEnforcement ==
  ASSUME TypeOK, DroppedOnAdvice, EnforcementKept, NEW f \in findings, Follow(f)
  PROVE  EnforcementKept'
<1>1. /\ phase = "printed" /\ phase' = phase /\ indexes' = indexes
      /\ catalog' = catalog \ {f.subject} /\ f \in Findings /\ catalog \subseteq indexes
  BY DEF Follow, TypeOK
<1> SUFFICES ASSUME NEW i \in indexes, i.valid, Protected(i)
             PROVE  \E j \in catalog \ {f.subject} :
                       j.valid /\ Protected(j) /\ Shape(j) = Shape(i)
  BY <1>1 DEF EnforcementKept
<1>2. PICK j \in catalog : j.valid /\ Protected(j) /\ Shape(j) = Shape(i)
  BY <1>1 DEF EnforcementKept
<1>3. CASE j # f.subject
  BY <1>2, <1>3
<1>4. CASE j = f.subject
  <2>1. f.keep \in indexes /\ IsCopyOf(indexes, j, f.keep)
    BY <1>1, <1>2, <1>4, FindingMeans
  <2>2. /\ f.keep.valid /\ f.keep # j /\ Shape(f.keep) = Shape(i)
        /\ IsKeeper(indexes, f.keep)
    BY <1>2, <2>1, CopyMeans
  <2>3. SortsBefore(f.keep, j)
    BY <1>1, <1>2, <2>2 DEF IsKeeper, Group
  <2>4. Protected(f.keep)
    BY <1>2, <2>3 DEF SortsBefore
  <2>5. f.keep \in catalog
    BY <1>1, <2>1, <2>2, <2>4, ProtectedKeeperStays
  <2> QED
    BY <1>4, <2>2, <2>4, <2>5
<1> QED
  BY <1>3, <1>4

(* The keeper of a duplicate may itself have gone as redundant; then what   *)
(* covered it, or what serves in the place of that, is a longer index.      *)
LEMMA AnotherServes ==
  ASSUME TypeOK, DroppedOnAdvice, PathsKept, phase = "printed",
         \A g \in applied : g.check # "index.unused",
         NEW f \in findings, f.check # "index.unused",
         f.subject \in catalog, f.subject.valid
  PROVE  \E j \in catalog \ {f.subject} : j.valid /\ Serves(j, f.subject)
<1> DEFINE n == f.subject
<1>1. \A i \in indexes : IsIndex(i) /\ Len(i.key) \in Nat
  <2>1. \A i \in indexes : IsIndex(i)
    BY DEF TypeOK, IsCatalog, IsIndex
  <2> QED
    BY <2>1 DEF IsIndex
<1>2. f \in Findings /\ n \in indexes /\ catalog \subseteq indexes
  BY DEF TypeOK
<1>3. ASSUME NEW w \in indexes, w.valid, Serves(w, n), Len(n.key) < Len(w.key)
      PROVE  \E j \in catalog \ {n} : j.valid /\ Serves(j, n)
  <2>1. PICK j \in catalog : j.valid /\ Serves(j, w)
    BY <1>3 DEF PathsKept
  <2>2. Len(w.key) <= Len(j.key) /\ Serves(j, n)
    BY <1>1, <1>2, <1>3, <2>1, ServesTransitive DEF Serves
  <2>3. j # n
    BY <1>1, <1>2, <1>3, <2>2
  <2> QED
    BY <2>1, <2>2, <2>3
<1>4. CASE f.check = "index.redundant"
  <2>1. f.keep \in indexes /\ f.keep.valid /\ Covers(f.keep, n)
    BY <1>2, <1>4, FindingMeans
  <2> QED
    BY <1>1, <1>2, <1>3, <2>1, CoverServes
<1>5. CASE f.check = "index.duplicate"
  <2> DEFINE k == f.keep
  <2>1. k \in indexes /\ IsCopyOf(indexes, n, k)
    BY <1>2, <1>5, FindingMeans
  <2>2. k.valid /\ k # n /\ Shape(k) = Shape(n) /\ IsKeeper(indexes, k)
    BY <2>1, CopyMeans
  <2>3. Serves(k, n) /\ Len(k.key) = Len(n.key)
    BY <1>1, <1>2, <2>1, <2>2, SameShapeServes DEF Shape
  <2>4. CASE k \in catalog
    BY <2>2, <2>3, <2>4
  <2>5. CASE k \notin catalog
    <3>1. PICK g \in applied : g.subject = k
      BY <2>1, <2>5 DEF DroppedOnAdvice
    <3>2. g \in Findings /\ g.check # "index.unused"
      BY DEF TypeOK
    <3>3. ~(g.keep \in indexes /\ IsCopyOf(indexes, k, g.keep))
      BY <2>1, <2>2, CopyMeans, OneKeeper DEF TypeOK
    <3>4. g.keep \in indexes /\ g.keep.valid /\ Covers(g.keep, k)
      BY <2>2, <3>1, <3>2, <3>3, FindingMeans
    <3>5. Serves(g.keep, k) /\ Len(k.key) < Len(g.keep.key)
      BY <1>1, <2>1, <3>4, CoverServes
    <3>6. Serves(g.keep, n)
      BY <1>1, <1>2, <2>1, <2>3, <3>4, <3>5, ServesTransitive
    <3> QED
      BY <1>3, <2>3, <3>4, <3>5, <3>6
  <2> QED
    BY <2>4, <2>5
<1>6. f.check \in {"index.redundant", "index.duplicate"}
  BY <1>2, FindingMeans
<1> QED
  BY <1>4, <1>5, <1>6

LEMMA FollowKeepsPaths ==
  ASSUME TypeOK, DroppedOnAdvice, PathsKept, NEW f \in findings, Follow(f)
  PROVE  PathsKept'
<1>1. /\ phase = "printed" /\ phase' = phase /\ indexes' = indexes
      /\ catalog' = catalog \ {f.subject} /\ applied' = applied \cup {f}
      /\ catalog \subseteq indexes /\ f.subject \in catalog
  BY DEF Follow, TypeOK
<1> SUFFICES ASSUME \A g \in applied \cup {f} : g.check # "index.unused",
                    NEW i \in indexes, i.valid
             PROVE  \E j \in catalog \ {f.subject} : j.valid /\ Serves(j, i)
  BY <1>1 DEF PathsKept
<1>2. PICK j \in catalog : j.valid /\ Serves(j, i)
  BY <1>1 DEF PathsKept
<1>3. CASE j # f.subject
  BY <1>2, <1>3
<1>4. CASE j = f.subject
  <2>1. PICK k \in catalog \ {j} : k.valid /\ Serves(k, j)
    BY <1>1, <1>2, <1>4, AnotherServes
  <2>2. IsIndex(i) /\ IsIndex(j) /\ IsIndex(k)
    BY <1>1 DEF TypeOK, IsCatalog, IsIndex
  <2> QED
    BY <1>2, <1>4, <2>1, <2>2, ServesTransitive
<1> QED
  BY <1>3, <1>4

(* Nor is a column lost, for the same reason, unless the copy and its keeper *)
(* differ in one: covering an index includes having its columns.            *)
LEMMA AnotherServesFromIndex ==
  ASSUME TypeOK, DroppedOnAdvice, ColumnsKept, phase = "printed",
         \A g \in applied : g.check # "index.unused" /\ ~LosesColumns(g),
         NEW f \in findings, f.check # "index.unused", ~LosesColumns(f),
         f.subject \in catalog, f.subject.valid
  PROVE  \E j \in catalog \ {f.subject} : j.valid /\ ServesFromIndex(j, f.subject)
<1> DEFINE n == f.subject
<1>1. \A i \in indexes : IsIndex(i) /\ Len(i.key) \in Nat
  <2>1. \A i \in indexes : IsIndex(i)
    BY DEF TypeOK, IsCatalog, IsIndex
  <2> QED
    BY <2>1 DEF IsIndex
<1>2. f \in Findings /\ n \in indexes /\ catalog \subseteq indexes
  BY DEF TypeOK
<1>3. ASSUME NEW w \in indexes, w.valid, ServesFromIndex(w, n), Len(n.key) < Len(w.key)
      PROVE  \E j \in catalog \ {n} : j.valid /\ ServesFromIndex(j, n)
  <2>1. PICK j \in catalog : j.valid /\ ServesFromIndex(j, w)
    BY <1>3 DEF ColumnsKept
  <2>2. Len(w.key) <= Len(j.key) /\ ServesFromIndex(j, n)
    BY <1>1, <1>2, <1>3, <2>1, ServesTransitive DEF Serves, ServesFromIndex
  <2>3. j # n
    BY <1>1, <1>2, <1>3, <2>2
  <2> QED
    BY <2>1, <2>2, <2>3
<1>4. CASE f.check = "index.redundant"
  <2>1. f.keep \in indexes /\ f.keep.valid /\ Covers(f.keep, n)
    BY <1>2, <1>4, FindingMeans
  <2>2. ServesFromIndex(f.keep, n) /\ Len(n.key) < Len(f.keep.key)
    BY <1>1, <1>2, <2>1, CoverServes DEF ServesFromIndex, Covers
  <2> QED
    BY <1>3, <2>1, <2>2
<1>5. CASE f.check = "index.duplicate"
  <2> DEFINE k == f.keep
  <2>1. k \in indexes /\ IsCopyOf(indexes, n, k)
    BY <1>2, <1>5, FindingMeans
  <2>2. k.valid /\ k # n /\ Shape(k) = Shape(n) /\ IsKeeper(indexes, k)
    BY <2>1, CopyMeans
  <2>3. Serves(k, n) /\ Len(k.key) = Len(n.key)
    BY <1>1, <1>2, <2>1, <2>2, SameShapeServes DEF Shape
  <2>4. n.all_columns \subseteq k.all_columns
    BY <1>5 DEF LosesColumns
  <2>5. CASE k \in catalog
    BY <2>2, <2>3, <2>4, <2>5 DEF ServesFromIndex
  <2>6. CASE k \notin catalog
    <3>1. PICK g \in applied : g.subject = k
      BY <2>1, <2>6 DEF DroppedOnAdvice
    <3>2. g \in Findings /\ g.check # "index.unused"
      BY DEF TypeOK
    <3>3. ~(g.keep \in indexes /\ IsCopyOf(indexes, k, g.keep))
      BY <2>1, <2>2, CopyMeans, OneKeeper DEF TypeOK
    <3>4. g.keep \in indexes /\ g.keep.valid /\ Covers(g.keep, k)
      BY <2>2, <3>1, <3>2, <3>3, FindingMeans
    <3>5. Serves(g.keep, k) /\ Len(k.key) < Len(g.keep.key)
      BY <1>1, <2>1, <3>4, CoverServes
    <3>6. Serves(g.keep, n)
      BY <1>1, <1>2, <2>1, <2>3, <3>4, <3>5, ServesTransitive
    <3>7. ServesFromIndex(g.keep, n)
      BY <2>4, <3>4, <3>6 DEF Covers, ServesFromIndex
    <3> QED
      BY <1>3, <2>3, <3>4, <3>5, <3>7
  <2> QED
    BY <2>5, <2>6
<1>6. f.check \in {"index.redundant", "index.duplicate"}
  BY <1>2, FindingMeans
<1> QED
  BY <1>4, <1>5, <1>6

LEMMA FollowKeepsColumns ==
  ASSUME TypeOK, DroppedOnAdvice, ColumnsKept, NEW f \in findings, Follow(f)
  PROVE  ColumnsKept'
<1>1. /\ phase = "printed" /\ phase' = phase /\ indexes' = indexes
      /\ catalog' = catalog \ {f.subject} /\ applied' = applied \cup {f}
      /\ catalog \subseteq indexes /\ f.subject \in catalog
  BY DEF Follow, TypeOK
<1> SUFFICES ASSUME \A g \in applied \cup {f} : g.check # "index.unused" /\ ~LosesColumns(g),
                    NEW i \in indexes, i.valid
             PROVE  \E j \in catalog \ {f.subject} : j.valid /\ ServesFromIndex(j, i)
  BY <1>1 DEF ColumnsKept
<1>2. PICK j \in catalog : j.valid /\ ServesFromIndex(j, i)
  BY <1>1 DEF ColumnsKept
<1>3. CASE j # f.subject
  BY <1>2, <1>3
<1>4. CASE j = f.subject
  <2>1. PICK k \in catalog \ {j} : k.valid /\ ServesFromIndex(k, j)
    BY <1>1, <1>2, <1>4, AnotherServesFromIndex
  <2>2. IsIndex(i) /\ IsIndex(j) /\ IsIndex(k)
    BY <1>1 DEF TypeOK, IsCatalog, IsIndex
  <2>3. ServesFromIndex(k, i)
    BY <1>2, <2>1, <2>2, ServesTransitive DEF ServesFromIndex
  <2> QED
    BY <1>4, <2>1, <2>3
<1> QED
  BY <1>3, <1>4

-----------------------------------------------------------------------------
(* The invariant of following advice: what is gone went on the word of a     *)
(* finding, and what is to be kept of the catalog that was read is kept.     *)
THEOREM AdviceInvariant == Spec => []AdviceInv
<1>1. Init => AdviceInv
  BY CatalogsAssumption, FS_EmptySet
     DEF Init, AdviceInv, TypeOK, IsCatalog, DroppedOnAdvice, PathsKept, ColumnsKept,
         EnforcementKept
<1>2. TypeOK' /\ AdviceInv /\ [Next]_vars => AdviceInv'
  <2> SUFFICES ASSUME TypeOK, DroppedOnAdvice, PathsKept, ColumnsKept, EnforcementKept, [Next]_vars
               PROVE  DroppedOnAdvice' /\ PathsKept' /\ ColumnsKept' /\ EnforcementKept'
    BY DEF AdviceInv
  <2>1. ASSUME NEW i \in catalog, ScanIndex(i)
        PROVE  DroppedOnAdvice' /\ PathsKept' /\ ColumnsKept' /\ EnforcementKept'
    BY <2>1 DEF ScanIndex, DroppedOnAdvice, PathsKept, ColumnsKept, EnforcementKept
  <2>2. CASE ResetStatistics
    BY <2>2 DEF ResetStatistics, DroppedOnAdvice, PathsKept, ColumnsKept, EnforcementKept
  <2>3. CASE LoadIndexes
    BY <2>3 DEF LoadIndexes, DroppedOnAdvice, PathsKept, ColumnsKept, EnforcementKept
  <2>4. CASE ReadStatsReset
    BY <2>4 DEF ReadStatsReset, DroppedOnAdvice, PathsKept, ColumnsKept, EnforcementKept
  <2>5. CASE Report
    <3>1. /\ phase' = "printed" /\ catalog' = indexes' /\ indexes' = indexes
          /\ applied' = {}
      BY <2>5 DEF Report, DroppedOnAdvice
    <3>2. \A i \in indexes : Serves(i, i)
      BY SameShapeServes DEF TypeOK, IsCatalog, IsIndex
    <3> QED
      BY <3>1, <3>2
         DEF DroppedOnAdvice, PathsKept, ColumnsKept, ServesFromIndex, EnforcementKept
  <2>6. ASSUME NEW f \in findings, Follow(f)
        PROVE  DroppedOnAdvice' /\ PathsKept' /\ ColumnsKept' /\ EnforcementKept'
    <3>1. DroppedOnAdvice'
      BY <2>6 DEF Follow, DroppedOnAdvice
    <3> QED
      BY <2>6, <3>1, FollowKeepsPaths, FollowKeepsColumns, FollowKeepsEnforcement
  <2>7. CASE UNCHANGED vars
    BY <2>7 DEF vars, DroppedOnAdvice, PathsKept, ColumnsKept, EnforcementKept
  <2> QED
    BY <2>1, <2>2, <2>3, <2>4, <2>5, <2>6, <2>7 DEF Next
<1> QED
  BY <1>1, <1>2, AdviceTyped, PTL DEF Spec, AdviceInv

(* Following the invalid, duplicate and redundant advice of a report, any    *)
(* part of it in any order, leaves an index that serves in the place of      *)
(* every valid one the report saw (indexes.py:159-212).                      *)
THEOREM AdviceKeepsPaths == Spec => []PathsKept
  BY AdviceInvariant, PTL DEF AdviceInv

(* Nor does it lose a column of the index, and with it index-only scans,     *)
(* but for duplicates that differ in INCLUDE columns (indexes.py:183-185).   *)
THEOREM AdviceKeepsColumns == Spec => []ColumnsKept
  BY AdviceInvariant, PTL DEF AdviceInv

(* Following any of the advice, unused included, leaves a protected index of *)
(* the same shape for every protected index (indexes.py:166-171, 222).       *)
THEOREM AdviceKeepsEnforcement == Spec => []EnforcementKept
  BY AdviceInvariant, PTL DEF AdviceInv

-----------------------------------------------------------------------------
(* A report names every copy and every index with a cover, so the next one *)
(* has none left to name.                                                  *)

LEMMA LeastNat ==
  ASSUME NEW S \in SUBSET Nat, S # {}
  PROVE  \E n \in S : \A m \in S : n <= m
<1>1. PICK n \in S : \A m \in S : ~(<<m, n>> \in OpToRel(<, Nat))
  BY WFMin, NatLessThanWellFounded, Zenon
<1>2. \A m \in S : ~(m < n)
  BY <1>1 DEF OpToRel
<1> QED
  BY <1>2

(* The sort key of find_duplicates puts any two indexes in one order. *)
LEMMA SortOrder ==
  ASSUME NEW c, IsCatalog(c), NEW h \in c, NEW i \in c, NEW j \in c
  PROVE  /\ ~SortsBefore(i, i)
         /\ i # j => SortsBefore(i, j) \/ SortsBefore(j, i)
         /\ SortsBefore(h, i) /\ SortsBefore(i, j) => SortsBefore(h, j)
<1>1. /\ h.name \in Nat /\ h.size \in Nat
      /\ i.name \in Nat /\ i.size \in Nat
      /\ j.name \in Nat /\ j.size \in Nat
      /\ i.name = j.name => i = j
  BY DEF IsCatalog
<1>2. Protected(h) \in BOOLEAN /\ Protected(i) \in BOOLEAN /\ Protected(j) \in BOOLEAN
  BY DEF Protected
<1> QED
  BY <1>1, <1>2 DEF SortsBefore

(* Every group has a keeper: the one that the fewest sort before. *)
LEMMA KeeperExists ==
  ASSUME NEW c, IsCatalog(c), NEW i \in c, i.valid
  PROVE  \E k \in Group(c, i) : IsKeeper(c, k)
<1> DEFINE g == Group(c, i)
           Before(k) == {h \in g : SortsBefore(h, k)}
           counts == {Cardinality(Before(k)) : k \in g}
<1>1. i \in g /\ g \subseteq c /\ IsFiniteSet(c)
  BY DEF Group, IsCatalog
<1>2. ASSUME NEW k \in g
      PROVE  IsFiniteSet(Before(k)) /\ Cardinality(Before(k)) \in Nat
  <2>1. Before(k) \in SUBSET c
    BY <1>1
  <2> QED
    BY <1>1, <2>1, FS_Subset, FS_CardinalityType
<1>3. PICK k \in g : \A j \in g : Cardinality(Before(k)) <= Cardinality(Before(j))
  <2>1. counts \in SUBSET Nat /\ counts # {}
    BY <1>1, <1>2
  <2>2. PICK n \in counts : \A m \in counts : n <= m
    BY <2>1, LeastNat
  <2> QED
    BY <2>2
<1>4. ASSUME NEW j \in Before(k) PROVE FALSE
  <2>1. j \in g /\ j \in c /\ k \in c /\ SortsBefore(j, k)
    BY <1>1
  <2>2. j \notin Before(j)
    BY <2>1, SortOrder
  <2>3. Before(j) \in SUBSET Before(k)
    BY <1>1, <2>1, SortOrder
  <2>4. /\ Cardinality(Before(j)) <= Cardinality(Before(k))
        /\ Cardinality(Before(j)) # Cardinality(Before(k))
    BY <1>2, <2>2, <2>3, FS_Subset
  <2> QED
    BY <1>2, <1>3, <2>1, <2>4
<1>5. k.valid /\ Group(c, k) = g
  BY DEF Group
<1>6. ASSUME NEW j \in g \ {k} PROVE SortsBefore(k, j)
  <2>1. j \in c /\ k \in c /\ ~SortsBefore(j, k)
    BY <1>1, <1>4
  <2> QED
    BY <2>1, SortOrder
<1> QED
  BY <1>5, <1>6 DEF IsKeeper

(* Of the covers of an index there is a first by name. *)
LEMMA FirstCoverExists ==
  ASSUME NEW c, IsCatalog(c), NEW i, NEW w \in c, w.valid, Covers(w, i)
  PROVE  \E v \in c : FirstCover(c, i, v)
<1> DEFINE covers == {v \in c : v.valid /\ Covers(v, i)}
           names == {v.name : v \in covers}
<1>1. names \in SUBSET Nat /\ names # {}
  BY DEF IsCatalog
<1>2. PICK n \in names : \A m \in names : n <= m
  BY <1>1, LeastNat
<1>3. PICK v \in covers : v.name = n
  OBVIOUS
<1> QED
  BY <1>2, <1>3 DEF FirstCover

(* What was printed is all there was to find. *)
LEMMA ReportComplete == Spec => [](phase = "printed" => findings = Findings)
<1>1. Init => (phase = "printed" => findings = Findings)
  BY DEF Init
<1>2. (phase = "printed" => findings = Findings) /\ [Next]_vars
        => (phase = "printed" => findings = Findings)'
  BY DEF Next, vars, ScanIndex, ResetStatistics, LoadIndexes, ReadStatsReset, Report, Follow,
         Findings
<1> QED
  BY <1>1, <1>2, PTL DEF Spec

(* Once the duplicate and redundant indexes of a report are gone, a report   *)
(* names no more of them, whatever else was dropped (indexes.py:159-212).    *)
THEOREM AdviceIsExhausted == Spec => []AdviceConverges
<1>1. TypeOK /\ (phase = "printed" => findings = Findings) => AdviceConverges
  <2> SUFFICES ASSUME TypeOK, phase = "printed", findings = Findings,
                      \A f \in findings : f.check \in {"index.duplicate", "index.redundant"}
                                             => f.subject \notin catalog
               PROVE  Duplicates(catalog) = {} /\ Redundant(catalog) = {}
    BY DEF AdviceConverges
  <2>1. catalog \subseteq indexes /\ IsCatalog(indexes)
    BY DEF TypeOK
  <2>2. ASSUME NEW p \in Duplicates(indexes) PROVE p[1] \notin catalog
    <3>1. DropFor("index.duplicate", p, "warning") \in findings
      BY DEF Findings
    <3> QED
      BY <3>1 DEF DropFor
  <2>3. ASSUME NEW p \in Redundant(indexes) PROVE p[1] \notin catalog
    <3>1. DropFor("index.redundant", p, "notice") \in findings
      BY DEF Findings
    <3> QED
      BY <3>1 DEF DropFor
  <2>4. ASSUME NEW copy \in catalog, NEW keeper \in catalog, IsCopyOf(catalog, copy, keeper)
        PROVE  FALSE
    <3>1. copy \in indexes /\ keeper \in indexes /\ copy # keeper
          /\ copy.valid /\ keeper.valid /\ Shape(copy) = Shape(keeper)
      BY <2>1, <2>4, CopyMeans
    <3>2. PICK k \in Group(indexes, copy) : IsKeeper(indexes, k)
      BY <2>1, <3>1, KeeperExists
    <3>3. k \in indexes /\ k \in Group(indexes, keeper)
      BY <3>1, <3>2 DEF Group
    <3>4. copy # k => <<copy, k>> \in Duplicates(indexes)
      BY <3>1, <3>2, <3>3 DEF Duplicates, IsCopyOf
    <3>5. keeper # k => <<keeper, k>> \in Duplicates(indexes)
      BY <3>1, <3>2, <3>3 DEF Duplicates, IsCopyOf
    <3> QED
      BY <2>2, <2>4, <3>1, <3>4, <3>5
  <2>5. ASSUME NEW i \in catalog, NEW w \in catalog, i.valid, ~Protected(i),
               FirstCover(catalog, i, w)
        PROVE  FALSE
    <3>1. i \in indexes /\ w \in indexes /\ w.valid /\ Covers(w, i)
      BY <2>1, <2>5 DEF FirstCover
    <3>2. PICK v \in indexes : FirstCover(indexes, i, v)
      BY <2>1, <3>1, FirstCoverExists
    <3>3. <<i, v>> \in Redundant(indexes)
      BY <2>5, <3>1, <3>2 DEF Redundant
    <3> QED
      BY <2>3, <2>5, <3>3
  <2>6. Duplicates(catalog) = {}
    BY <2>4 DEF Duplicates
  <2>7. Redundant(catalog) = {}
    BY <2>5 DEF Redundant
  <2> QED
    BY <2>6, <2>7
<1> QED
  BY <1>1, AdviceTyped, ReportComplete, PTL
=============================================================================
