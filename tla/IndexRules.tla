----------------------------- MODULE IndexRules -----------------------------
(***************************************************************************)
(* The rules of pgtk/indexes.py that end in a DROP INDEX, on a set of      *)
(* IndexInfo records.  A record is reduced to what the rules compare:      *)
(*   name         orders the inventory and breaks ties                     *)
(*   access       schema, table, amname, predicate and expressions, which  *)
(*                every rule compares together                             *)
(*   key          key_columns: column, operator class and option of each   *)
(*   all_columns  the columns of the index, INCLUDE columns too            *)
(*   unique, replident, constrains    is_unique, is_replident, and         *)
(*                is_primary or backs_constraint                           *)
(*   valid, size  is_valid, size_bytes                                     *)
(***************************************************************************)
EXTENDS Integers, Sequences

\* Indexes that enforce something.
Protected(i) == i.unique \/ i.replident \/ i.constrains

Shape(i) == <<i.access, i.key>>

\* Slip: sorted by protected, so that the protected index comes last.
SortsBeforeReversed(i, j) ==
  IF Protected(i) # Protected(j) THEN Protected(j)
  ELSE i.size > j.size \/ (i.size = j.size /\ i.name < j.name)

\* sort key (not protected, -size_bytes, name): i comes before j.
SortsBefore(i, j) ==
  IF Protected(i) # Protected(j) THEN Protected(i)
  ELSE i.size > j.size \/ (i.size = j.size /\ i.name < j.name)

\* Every valid index of the shape of i.
Group(indexes, i) == {j \in indexes : j.valid /\ Shape(j) = Shape(i)}

IsKeeper(indexes, i) ==
  i.valid /\ \A j \in Group(indexes, i) \ {i} : SortsBefore(i, j)

IsCopyOf(indexes, copy, keeper) ==
  /\ copy.valid /\ copy # keeper
  /\ keeper \in Group(indexes, copy)
  /\ IsKeeper(indexes, keeper)

\* find_duplicates, as the pairs <<copy, keeper>> the caller unpacks.
Duplicates(indexes) == {p \in indexes \X indexes : IsCopyOf(indexes, p[1], p[2])}

\* Slip: an index of the same length counts as wider.
CoversEqual(wider, narrower) ==
  /\ wider # narrower
  /\ wider.access = narrower.access
  /\ Len(narrower.key) <= Len(wider.key)
  /\ SubSeq(wider.key, 1, Len(narrower.key)) = narrower.key
  /\ narrower.all_columns \subseteq wider.all_columns

\* Slip: only the key columns are looked at.
CoversKeyOnly(wider, narrower) ==
  /\ wider # narrower
  /\ wider.access = narrower.access
  /\ Len(narrower.key) < Len(wider.key)
  /\ SubSeq(wider.key, 1, Len(narrower.key)) = narrower.key

Covers(wider, narrower) ==
  /\ wider # narrower
  /\ wider.access = narrower.access
  /\ Len(narrower.key) < Len(wider.key)
  /\ SubSeq(wider.key, 1, Len(narrower.key)) = narrower.key
  /\ narrower.all_columns \subseteq wider.all_columns

\* The first valid index of the inventory, which is sorted by name, to cover i.
FirstCover(indexes, i, w) ==
  /\ w.valid /\ Covers(w, i)
  /\ \A v \in indexes : v.valid /\ Covers(v, i) => w.name <= v.name

\* Slip: only the first index that has a cover is reported.
RedundantFirst(indexes) ==
  {p \in indexes \X indexes :
     /\ p[1].valid /\ ~Protected(p[1])
     /\ FirstCover(indexes, p[1], p[2])
     /\ \A i \in indexes : i.name < p[1].name =>
          ~\E w \in indexes : w.valid /\ Covers(w, i)}

\* find_redundant: the pairs <<redundant, covering>>.
Redundant(indexes) ==
  {p \in indexes \X indexes :
     /\ p[1].valid /\ ~Protected(p[1])
     /\ FirstCover(indexes, p[1], p[2])}

\* The indexes _unused_findings reports; scanned is the set with idx_scan > 0.
Unused(indexes, scanned, minSize) ==
  {i \in indexes : i.valid /\ ~Protected(i) /\ i \notin scanned /\ i.size >= minSize}

Invalid(indexes) == {i \in indexes : ~i.valid}
=============================================================================
