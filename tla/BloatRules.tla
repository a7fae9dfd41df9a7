----------------------------- MODULE BloatRules -----------------------------
(***************************************************************************)
(* The arithmetic of pgtk/bloat.py.  The two estimating queries turn       *)
(* planner statistics into the number of pages a relation should have; a   *)
(* BloatRow keeps what the verdict looks at.  Widths are whole bytes       *)
(* (avg_width times the share that is not null, summed), and a table has   *)
(* no TOAST relation.                                                      *)
(***************************************************************************)
EXTENDS Findings

CONSTANTS MinBloatBytes, MinBloatPct,   \* the options --min-bytes and --min-pct
          CriticalBytes                 \* 512 MB

ASSUME BloatAssumption ==
  MinBloatBytes \in Nat /\ MinBloatPct \in 0..100 /\ CriticalBytes \in Nat

BlockSize == 8192
MaxAlign == 8
PageHeader == 24
BtreeSpecial == 16   \* pageopqdata

CeilDiv(a, b) == (a + b - 1) \div b

\* Slip: rounded down.
PaddedDown(size) == size - (size % MaxAlign)

\* size + ma - CASE WHEN size % ma = 0 THEN ma ELSE size % ma END
Padded(size) ==
  size + MaxAlign - (IF size % MaxAlign = 0 THEN MaxAlign ELSE size % MaxAlign)

\* tpl_size: line pointer, header with its null bitmap, data.
TupleSize(columns, nullable, width) ==
  4 + Padded(23 + (IF nullable THEN (7 + columns) \div 8 ELSE 0)) + Padded(width)

\* Slip: the fillfactor left out.
EstimatedTablePagesFull(reltuples, tuple_size, fillfactor) ==
  CeilDiv(reltuples * tuple_size, BlockSize - PageHeader)

\* est_tblpages_ff: the division is of rationals and is rounded up once.
EstimatedTablePages(reltuples, tuple_size, fillfactor) ==
  CeilDiv(reltuples * tuple_size * 100, (BlockSize - PageHeader) * fillfactor)

\* 4 + nulldatahdrwidth; the header is 2 bytes, or 6 with nulls.
IndexTupleSize(nullable, width) ==
  4 + Padded(IF nullable THEN 6 ELSE 2) + Padded(width)

\* est_pages_ff: whole tuples to a page, and the metapage; no page at all when
\* not even one tuple fits.
EstimatedIndexPages(reltuples, tuple_size, fillfactor) ==
  LET perPage == ((BlockSize - BtreeSpecial - PageHeader) * fillfactor)
                   \div (100 * tuple_size)
  IN IF perPage = 0 THEN 0 ELSE 1 + CeilDiv(reltuples, perPage)

\* A BloatRow whose bloat_pct is kept as the pair waste of real.
BloatRow(kind, name, real_bytes, bloat_bytes, method, stats_unusable) ==
  [kind |-> kind, name |-> name, real_bytes |-> real_bytes, bloat_bytes |-> bloat_bytes,
   method |-> method, stats_unusable |-> stats_unusable]

AtLeastPct(row, pct) == 100 * row.bloat_bytes >= pct * row.real_bytes

\* estimate_table_bloat and estimate_index_bloat, of one relation.
EstimateRow(kind, name, pages, estimated, stats_unusable) ==
  BloatRow(kind, name, BlockSize * pages,
           IF pages > estimated THEN BlockSize * (pages - estimated) ELSE 0,
           "estimate", stats_unusable)

\* The filter of analyze_bloat.
Candidate(row) == row.bloat_bytes >= MinBloatBytes /\ AtLeastPct(row, MinBloatPct)

BloatSeverity(row) ==
  IF AtLeastPct(row, 50) /\ row.bloat_bytes >= CriticalBytes THEN Critical
  ELSE IF AtLeastPct(row, 30) THEN Warning ELSE Notice

\* _table_remediation, and the REINDEX of an index.
BloatRemedy(row) ==
  IF row.kind = "index" THEN "reindex"
  ELSE IF AtLeastPct(row, 50) THEN "rewrite" ELSE "vacuum"

BloatFinding(row) ==
  Finding(IF row.kind = "index" THEN "bloat.index" ELSE "bloat.table",
          IF row.stats_unusable /\ BloatSeverity(row) > Notice
          THEN Notice ELSE BloatSeverity(row),
          <<row.name, row.kind>>, BloatRemedy(row))
=============================================================================
