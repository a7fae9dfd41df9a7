---------------------------- MODULE IndexAdvice ----------------------------
(***************************************************************************)
(* analyze_indexes of pgtk/indexes.py and what becomes of its advice.  The *)
(* report is read with three statements in autocommit mode, queries go on  *)
(* scanning indexes and anyone may reset the statistics between them; then *)
(* somebody runs the DROP INDEX statements it printed, some of them, one   *)
(* at a time, in an order of their own.                                    *)
(***************************************************************************)
EXTENDS IndexRules, FiniteSets

CONSTANTS Catalogs,   \* the sets of indexes the database may start with
          Followed,   \* the checks whose advice is followed
          MinSize     \* --min-unused-bytes

IsCatalog(c) ==
  /\ IsFiniteSet(c)
  /\ \A i \in c :
       /\ i.key \in Seq(i.all_columns \X {"asc", "desc"})
       /\ i.name \in Nat /\ i.size \in Nat
       /\ {i.unique, i.replident, i.constrains, i.valid} \subseteq BOOLEAN
  /\ \A i, j \in c : i.name = j.name => i = j

ASSUME CatalogsAssumption ==
  /\ \A c \in Catalogs : IsCatalog(c)
  /\ Followed \subseteq {"index.invalid", "index.duplicate", "index.redundant", "index.unused"}
  /\ MinSize \in Nat

VARIABLES catalog,    \* the indexes that exist
          scanned,    \* those whose idx_scan is not zero
          window,     \* stats_reset is a date (TRUE) or NULL
          phase,      \* which statement of the command comes next
          indexes,    \* load_indexes
          counted,    \* of those, the ones read with idx_scan > 0
          stats_reset,\* the window read after them
          findings,   \* what was printed
          applied     \* the findings whose DROP INDEX was run

vars == <<catalog, scanned, window, phase, indexes, counted, stats_reset, findings, applied>>

Init ==
  /\ catalog \in Catalogs
  /\ scanned = {}
  /\ window \in BOOLEAN
  /\ phase = "load"
  /\ indexes = {} /\ counted = {} /\ stats_reset = FALSE
  /\ findings = {} /\ applied = {}

-----------------------------------------------------------------------------
(* The server *)

\* A query uses an index.  idx_scan is read by LoadIndexes and never again, so
\* a scan after that changes nothing the report or its reader looks at.
ScanIndex(i) ==
  /\ phase = "load"
  /\ i \in catalog \ scanned /\ i.valid
  /\ scanned' = scanned \cup {i}
  /\ UNCHANGED <<catalog, window, phase, indexes, counted, stats_reset, findings, applied>>

\* pg_stat_reset, until the window is read for the last time.
ResetStatistics ==
  /\ phase \in {"load", "window"}
  /\ scanned' = {} /\ window' = TRUE
  /\ UNCHANGED <<catalog, phase, indexes, counted, stats_reset, findings, applied>>

-----------------------------------------------------------------------------
(* The command *)

LoadIndexes ==
  /\ phase = "load"
  /\ phase' = "window"
  /\ indexes' = catalog /\ counted' = scanned
  /\ UNCHANGED <<catalog, scanned, window, stats_reset, findings, applied>>

ReadStatsReset ==
  /\ phase = "window"
  /\ phase' = "findings"
  /\ stats_reset' = window
  /\ UNCHANGED <<catalog, scanned, window, indexes, counted, findings, applied>>

Drop(check, i, severity) == [check |-> check, subject |-> i, keep |-> i, severity |-> severity]
DropFor(check, pair, severity) ==
  [check |-> check, subject |-> pair[1], keep |-> pair[2], severity |-> severity]

Findings ==
  {Drop("index.invalid", i, IF i.unique THEN "critical" ELSE "warning") : i \in Invalid(indexes)}
  \cup {DropFor("index.duplicate", p, "warning") : p \in Duplicates(indexes)}
  \cup {DropFor("index.redundant", p, "notice") : p \in Redundant(indexes)}
  \cup {Drop("index.unused", i, IF stats_reset THEN "warning" ELSE "notice")
          : i \in Unused(indexes, counted, MinSize)}

\* Slip: findings handed out as they come, while the report is still being made.
ReportPiecemeal ==
  /\ phase = "findings"
  /\ \E some \in SUBSET Findings : findings' = some
  /\ UNCHANGED <<catalog, scanned, window, phase, indexes, counted, stats_reset, applied>>

Report ==
  /\ phase = "findings"
  /\ phase' = "printed"
  /\ findings' = Findings
  /\ UNCHANGED <<catalog, scanned, window, indexes, counted, stats_reset, applied>>

-----------------------------------------------------------------------------
(* Whoever reads the report *)

\* DROP INDEX CONCURRENTLY of one finding.  PostgreSQL turns down the drop of an
\* index that a constraint depends on, and then nothing changes.
Follow(f) ==
  /\ phase = "printed"
  /\ f \in findings /\ f.check \in Followed
  /\ f.subject \in catalog /\ ~f.subject.constrains
  /\ catalog' = catalog \ {f.subject}
  /\ scanned' = scanned \ {f.subject}
  /\ applied' = applied \cup {f}
  /\ UNCHANGED <<window, phase, indexes, counted, stats_reset, findings>>

Next ==
  \/ \E i \in catalog : ScanIndex(i)
  \/ ResetStatistics
  \/ LoadIndexes
  \/ ReadStatsReset
  \/ Report
  \/ \E f \in findings : Follow(f)

Spec == Init /\ [][Next]_vars

-----------------------------------------------------------------------------
TypeOK ==
  /\ IsCatalog(catalog) /\ IsCatalog(indexes)
  /\ phase # "load" => catalog \subseteq indexes
  /\ scanned \subseteq catalog /\ counted \subseteq indexes
  /\ window \in BOOLEAN /\ stats_reset \in BOOLEAN
  /\ phase \in {"load", "window", "findings", "printed"}
  /\ findings \subseteq Findings /\ (phase # "printed" => findings = {})
  /\ applied \subseteq findings

\* j finds whatever a search through i finds: the leading key columns of j are
\* those of i.
Serves(j, i) ==
  /\ j.access = i.access
  /\ Len(i.key) <= Len(j.key)
  /\ SubSeq(j.key, 1, Len(i.key)) = i.key

\* Whatever part of the invalid, duplicate and redundant advice is followed, in
\* whatever order, every valid index the report saw still has one that serves in
\* its place, although the index a finding relies on may itself have been dropped
\* on the word of another (indexes.py:159-212).
PathsKept ==
  phase = "printed" /\ (\A f \in applied : f.check # "index.unused") =>
    \A i \in indexes : i.valid => \E j \in catalog : j.valid /\ Serves(j, i)

\* And j holds every column i does, so that no index-only scan is lost.
ServesFromIndex(j, i) == Serves(j, i) /\ i.all_columns \subseteq j.all_columns

\* find_duplicates does not compare INCLUDE columns: the copy may hold one the keeper
\* lacks (indexes.py:103-105).
LosesColumns(f) ==
  f.check = "index.duplicate" /\ ~(f.subject.all_columns \subseteq f.keep.all_columns)

\* "Losing one turns an index-only scan back into a heap access" (indexes.py:183-185):
\* whatever part of that advice is followed, in whatever order, but for the duplicates
\* that differ in INCLUDE columns, no column is lost from the index that serves.
ColumnsKept ==
  /\ phase = "printed"
  /\ \A f \in applied : f.check # "index.unused" /\ ~LosesColumns(f)
  => \A i \in indexes : i.valid => \E j \in catalog : j.valid /\ ServesFromIndex(j, i)

\* Whatever advice is followed, unused included, something that enforces what a
\* protected index enforced on its columns is still there (the keeper of a group
\* is a protected one, indexes.py:166-171).
EnforcementKept ==
  phase = "printed" =>
    \A i \in indexes : i.valid /\ Protected(i) =>
       \E j \in catalog : j.valid /\ Protected(j) /\ Shape(j) = Shape(i)

\* Once all the duplicate and redundant indexes of a report are gone, the next
\* report has no more of them to name.
AdviceConverges ==
  /\ phase = "printed"
  /\ \A f \in findings :
        f.check \in {"index.duplicate", "index.redundant"} => f.subject \notin catalog
  => Duplicates(catalog) = {} /\ Redundant(catalog) = {}

-----------------------------------------------------------------------------
(* Why it holds: the inductive invariant *)

\* Nothing is dropped before the report is printed, and then only on its word.
DroppedOnAdvice ==
  /\ phase \in {"window", "findings"} => catalog = indexes
  /\ phase # "printed" => applied = {}
  /\ phase = "printed" =>
       \A i \in indexes \ catalog : \E f \in applied : f.subject = i

AdviceInv == TypeOK /\ DroppedOnAdvice /\ PathsKept /\ ColumnsKept /\ EnforcementKept

-----------------------------------------------------------------------------
(* What the source says of its advice *)

\* indexes.py:98-100: "Indexes that enforce something. Never advise dropping
\* these."
ProtectedNeverAdvised ==
  \A f \in findings : ~(f.subject.valid /\ Protected(f.subject))

\* indexes.py:318: a duplicate finding tells to keep an index; following the
\* report does not drop it.
KeepIsKept ==
  \A f \in applied : f.check = "index.duplicate" => f.keep \in catalog
=============================================================================
