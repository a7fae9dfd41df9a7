---------------------------- MODULE Maintenance -----------------------------
(***************************************************************************)
(* The vacuum and bloat commands (analyze_vacuum of pgtk/vacuum.py and     *)
(* analyze_bloat of pgtk/bloat.py) against a server that goes on working   *)
(* between their statements, and a reader who runs what they print, one    *)
(* statement at a time, and asks again.                                    *)
(***************************************************************************)
EXTENDS HeapTable, VacuumRules, BloatRules, Sequences

CONSTANT MaxSteps     \* bound: steps of the server in a behaviour, time passing and sessions ending aside

\* exact is the bloat command with --exact.
ASSUME CommandsAssumption ==
  /\ MaxSteps \in Nat
  /\ \A p \in Profiles : p.asked \subseteq {"vacuum", "bloat", "exact"}

\* MAXALIGN, as the server computes it.
Aligned(size) == 8 * ((size + 7) \div 8)

\* Rows as the server stores them, of columns as wide as the statistics say and the bytes
\* between them that align each for its type: a boolean before a bigint is followed by
\* seven.  Line pointer, aligned header, aligned data; no key of the index is null.
RowSize(p, padding) ==
  4 + Aligned(23 + (IF p.nullable THEN (p.columns + 7) \div 8 ELSE 0))
    + Aligned(p.width + padding)
EntrySize(p, padding) == 4 + Aligned(8) + Aligned(p.iwidth + padding)

ASSUME WidthsAssumption ==
  \A p \in Profiles :
    /\ p.columns \in Nat /\ p.nullable \in BOOLEAN
    /\ {p.width, p.padding, p.iwidth, p.ipadding} \subseteq Nat
    /\ p.tuple = RowSize(p, p.padding) /\ p.ituple = EntrySize(p, p.ipadding)

VARIABLES cmd,       \* the command that is asked again and again
          pc,        \* its next statement, or how it ended
          settings,  \* VacuumSettings
          rows,      \* the BloatRows, estimated or measured
          findings,  \* found so far; once printed, those not yet acted upon
          quiet,     \* nobody else did anything since the command began
          steps      \* of the server so far

toolVars == <<cmd, pc, settings, rows, findings, quiet, steps>>
vars == <<serverVars, toolVars>>

NotRead == << >>

First == IF cmd = "vacuum" THEN "settings" ELSE "tables"
Ended == pc \in {"printed", "failed"}

Init ==
  /\ ServerInit
  /\ cmd \in profile.asked
  /\ pc = First
  /\ settings = NotRead
  /\ rows = << >>
  /\ findings = {}
  /\ quiet = TRUE
  /\ steps = 0

-----------------------------------------------------------------------------
(* analyze_vacuum: four reads, in autocommit mode *)

LoadSettings ==
  /\ pc = "settings"
  /\ settings' = [Cluster EXCEPT !.autovacuum_on = autovacuum]
  /\ findings' = ClusterFindings(settings')
  /\ pc' = "databases"
  /\ UNCHANGED <<serverVars, cmd, rows, quiet, steps>>

ReadDatabases ==
  /\ pc = "databases"
  /\ findings' = findings \cup
       DatabaseFindings([own |-> xid - dbfrozen, other |-> xid - OtherDatabaseFrozen], settings)
  /\ pc' = "relations"
  /\ UNCHANGED <<serverVars, cmd, settings, rows, quiet, steps>>

\* Every relation with its age; a catalog or TOAST relation has no more than that.
RelationRow(r) ==
  LET system == r = "system"
  IN [name |-> r, system |-> system, xid_age |-> xid - frozen[r],
      mxid_age |-> IF system THEN 0 ELSE table.mxid_age,
      reltuples |-> IF system THEN 0 ELSE Max({0, table.seen.tuples * Batch}),
      n_dead_tup |-> IF system THEN 0 ELSE table.n_dead * Batch,
      options |-> [profile.options EXCEPT !.enabled = table.enabled],
      last |-> IF system THEN Never ELSE table.last]

ReadRelations ==
  /\ pc = "relations"
  /\ findings' = findings \cup
       UNION {RelationFindings(RelationRow(r), settings) :
                r \in {s \in Relations : s = "table" => table.exists}}
  /\ pc' = "holders"
  /\ UNCHANGED <<serverVars, cmd, settings, rows, quiet, steps>>

\* Slip: sessions only.
SessionsHolding == [s \in Holders \cap {"backend"} |-> xid - hold[s]]

\* XMIN_HOLDERS_SQL: prepared transactions, slots, and sessions by their backend_xmin,
\* which a writer between two statements does not have.
HoldersRead == [s \in Holders \ {"writer"} |-> xid - hold[s]]

\* The last of the four: then all is printed.
ReadHolders ==
  /\ pc = "holders"
  /\ findings' = findings \cup XminFindings(HoldersRead)
  /\ settings' = NotRead
  /\ pc' = "printed"
  /\ UNCHANGED <<serverVars, cmd, rows, quiet, steps>>

-----------------------------------------------------------------------------
(* analyze_bloat: tables, indexes, and one measurement for each candidate *)

TableRow ==
  EstimateRow("table", "table", table.seen.pages,
    EstimatedTablePages(Batch * table.seen.tuples,
      IF table.analyzed THEN TupleSize(profile.columns, profile.nullable, profile.width)
      ELSE TupleSize(profile.columns, FALSE, 0), profile.fillfactor),
    ~table.analyzed)

IndexRow ==
  EstimateRow("index", "table", table.seen.ipages,
    EstimatedIndexPages(Batch * table.seen.ituples,
      IF table.analyzed THEN IndexTupleSize(profile.nullable, profile.iwidth)
      ELSE IndexTupleSize(FALSE, 1024), profile.ifillfactor),
    ~table.analyzed)

\* Slip: an empty relation taken for one that was never counted.
EstimatedNonEmpty(tuples, pages) == table.exists /\ pages > 0 /\ tuples > 0

\* relpages > 0 and reltuples >= 0; a table that was never counted has neither.
Estimated(tuples, pages) == table.exists /\ pages > 0 /\ tuples >= 0

EstimateTables ==
  /\ pc = "tables"
  /\ rows' = IF Estimated(table.seen.tuples, table.seen.pages) THEN <<TableRow>> ELSE << >>
  /\ pc' = "indexes"
  /\ UNCHANGED <<serverVars, cmd, settings, findings, quiet, steps>>

ReportBloat(measured) ==
  /\ findings' = {BloatFinding(measured[i]) : i \in DOMAIN measured}
  /\ pc' = "printed"

\* Slip: every bloat command measures.
MeasuresAlways == TRUE

\* if exact
Measures == cmd = "exact"

\* The filter of analyze_bloat, of the one row a query of this model returns, or none.
Candidates(list) == IF list # << >> /\ ~Candidate(list[1]) THEN << >> ELSE list

\* The filter follows the second query; without --exact the findings follow at once.
EstimateIndexes ==
  /\ pc = "indexes"
  /\ LET indexes == IF Estimated(table.seen.ituples, table.seen.ipages) THEN <<IndexRow>> ELSE << >>
         candidates == Candidates(rows) \o Candidates(indexes)
     IN /\ rows' = candidates
        /\ IF Measures /\ candidates # << >>
           THEN pc' = "measure" /\ findings' = findings
           ELSE ReportBloat(candidates)
  /\ UNCHANGED <<serverVars, cmd, settings, quiet, steps>>

\* The filter is not applied again to what was measured.
ExactRow(row) ==
  LET size == BlockSize * (IF row.kind = "table" THEN table.pages ELSE table.ipages)
  IN BloatRow(row.kind, row.name, size,
              IF row.kind = "table" THEN FreeAndDead ELSE (size * LeafSlack) \div 100,
              "exact", FALSE)

\* measure_exact, one row of it: '...'::regclass of a relation that is gone ends
\* the command, and what was measured is not printed either.
Measure ==
  /\ pc = "measure"
  /\ LET i == Min({j \in DOMAIN rows : rows[j].method = "estimate"})
     IN IF ~table.exists
        THEN /\ pc' = "failed"
             /\ UNCHANGED <<rows, findings>>
        ELSE /\ rows' = [rows EXCEPT ![i] = ExactRow(rows[i])]
             /\ IF i = Len(rows) THEN ReportBloat(rows') ELSE UNCHANGED <<pc, findings>>
  /\ UNCHANGED <<serverVars, cmd, settings, quiet, steps>>

Tool ==
  \/ LoadSettings \/ ReadDatabases \/ ReadRelations \/ ReadHolders
  \/ EstimateTables \/ EstimateIndexes \/ Measure

-----------------------------------------------------------------------------
(* Everybody else *)

Printable(f) == f.remedy \notin {"find_session", "find_relation"}

\* The statement of one finding is run, the worst first.
Follow(f) ==
  /\ pc = "printed" /\ f \in findings /\ Printable(f)
  /\ \A g \in findings : Printable(g) => g.severity <= f.severity
  /\ Run(f.remedy, f.subject)
  /\ findings' = findings \ {f}
  /\ quiet' = FALSE
  /\ UNCHANGED <<cmd, pc, settings, rows, steps>>

\* All that can be run was run: the same command again.
Again ==
  /\ Ended
  /\ \A f \in findings : ~Printable(f)
  /\ pc' = First
  /\ rows' = << >> /\ findings' = {}
  /\ quiet' = TRUE
  /\ UNCHANGED <<serverVars, cmd, settings, steps>>

\* At any time: between two statements of a command, and of its reader.
ServerActs ==
  /\ \/ (Tick \/ SessionEnds) /\ steps' = steps
     \/ steps < MaxSteps /\ ServerStep(XminReportAge) /\ steps' = steps + 1
  /\ quiet' = FALSE
  /\ UNCHANGED <<cmd, pc, settings, rows, findings>>

Next ==
  \/ Tool
  \/ \E f \in findings : Follow(f)
  \/ Again
  \/ ServerActs

Spec == Init /\ [][Next]_vars

\* The command is not kept waiting for ever, its reader does what it says and asks
\* again; transaction ids are used up and sessions come to their end.  Autovacuum is
\* owed to nobody: it may be off.
FairSpec ==
  /\ Spec
  /\ WF_vars(Tool)
  /\ WF_vars(\E f \in findings : Follow(f))
  /\ WF_vars(Again)
  /\ WF_vars(ServerActs /\ Tick)
  /\ WF_vars(ServerActs /\ SessionEnds)

-----------------------------------------------------------------------------
Rows ==
  [kind : {"table", "index"}, name : {"table"}, real_bytes : Nat, bloat_bytes : Nat,
   method : {"estimate", "exact"}, stats_unusable : BOOLEAN]

TypeOK ==
  /\ table.live \in 0..MaxLive /\ table.dead \subseteq 1..(xid - 1)
  /\ table.pages >= HeapPages(table.live + Cardinality(table.dead))
  /\ xid \in StartXid..MaxXid
  /\ dbfrozen <= frozen["system"] /\ (table.exists => dbfrozen <= frozen["table"])
  /\ \A r \in Relations : frozen[r] \in 0..xid
  /\ \A s \in Sources : hold[s] \in 0..xid
  /\ cmd \in profile.asked
  /\ pc \in IF cmd = "vacuum" THEN {"settings", "databases", "relations", "holders", "printed"}
             ELSE {"tables", "indexes", "printed"}
                    \cup (IF cmd = "exact" THEN {"measure", "failed"} ELSE {})
  /\ rows \in Seq(Rows) /\ Len(rows) <= 2
  /\ \A i \in DOMAIN rows : rows[i].bloat_bytes <= rows[i].real_bytes
  /\ \A f \in findings : f.severity \in Severities
  /\ quiet \in BOOLEAN /\ steps \in 0..MaxSteps

\* A report that was made, and is read, while nothing else happened.
Current(commands) == pc = "printed" /\ quiet /\ cmd \in commands

Says(check) == \E f \in findings : f.check = check

\* What rows of one size leave of a file, in whole pages: of each page the end that no
\* further row fits into, and of the last one all but a row.
Unfilled(pages, share, row, perPage) ==
  Max({0, ((pages - 1) * (share - perPage * row) + share - row) \div share})

\* In hundredths of bytes, of the share of a page that a fillfactor grants to rows of
\* so many bytes: what the padding of the rows there takes counts as unfilled.
HeapUnfilled(pages, fillfactor, row) ==
  Unfilled(pages, 8168 * fillfactor, 100 * row, PerPage(HeapRoom, profile.tuple))
LeavesUnfilled(leaves) ==
  Unfilled(leaves, 8152 * profile.ifillfactor, 100 * EntrySize(profile, 0),
           PerPage(IndexRoom, profile.ituple))

Reaches(waste, pages) ==
  BlockSize * waste >= MinBloatBytes /\ 100 * waste >= MinBloatPct * pages

\* What the ends, the padding and the pages above the leaves come to in an index whose
\* leaves hold so many rows.
IndexKept(batches) == LeavesUnfilled(Leaves(batches)) + table.ipages - 1 - Leaves(batches)

\* Nothing is called bloated for nothing (bloat.py:43-52, 135-148 and 330-334): what a
\* rewrite would take off the file, the ends of pages and the padding inside rows that no
\* rewrite takes off, and of an index the pages above its leaves, reach both thresholds.
\* So a fresh file may be called bloated, and then for its ends and its padding alone.
\* The estimate of an index has no page at all if not one row fits.
BloatIsExplained ==
  Current({"bloat", "exact"}) /\ table.exists /\ table.analyzed /\ Accurate =>
    /\ Says("bloat.table") =>
         LET fresh == HeapPages(table.live)
             kept == HeapUnfilled(fresh, profile.fillfactor, RowSize(profile, 0))
         IN Reaches(table.pages - fresh + kept, table.pages)
    /\ profile.ituple <= IndexRoom /\ Says("bloat.index") =>
         Reaches(IndexKept(table.live), table.ipages)

\* The tests say of their healthy tables "a freshly written table is not reported as
\* bloated" (tests/test_pg_bloat.py:42): of any table that was just written and analyzed
\* it is not so, if its rows are padded enough.
FreshTableNotReported ==
  Current({"bloat"}) /\ table.exists /\ table.analyzed /\ Accurate
    /\ table.pages = HeapPages(table.live) => ~Says("bloat.table")

Wasteful(pages, fresh) == pages > fresh /\ Reaches(pages - fresh, pages)

\* With fresh statistics nothing that a rewrite would shrink by the two thresholds
\* or more is left out of the report: the estimate errs in one direction only, unless
\* not even one row fits into what the fillfactor lets be filled.
WasteIsReported ==
  Current({"bloat", "exact"}) /\ table.exists /\ table.analyzed /\ Accurate =>
    /\ profile.tuple <= HeapRoom /\ Wasteful(table.pages, HeapPages(table.live))
         => Says("bloat.table")
    /\ Wasteful(table.ipages, BtreePages(table.live)) => Says("bloat.index")

\* "rewrite required to return ... to the filesystem" (bloat.py:311): what was counted
\* comes back, but for the rows that somebody's horizon keeps and the rewrite carries
\* along, for the ends of the new pages and the padding inside their rows, and for a page
\* more or less.  With --exact the padding was not counted, but what the fillfactor
\* keeps free was.
RewriteReturnsSpace ==
  Current({"bloat", "exact"}) /\ table.exists
    /\ (cmd = "exact" \/ (table.analyzed /\ Accurate)) =>
    \A i \in DOMAIN rows : rows[i].kind = "table" /\ BloatRemedy(rows[i]) = "rewrite" =>
       LET fresh == HeapPages(table.live)
           held == Rewritten.pages - fresh
           kept == IF cmd = "exact" THEN HeapUnfilled(fresh, 100, profile.tuple)
                   ELSE HeapUnfilled(fresh, profile.fillfactor, RowSize(profile, 0))
       IN rows[i].bloat_bytes < BlockSize * (table.pages - Rewritten.pages + held + kept + 1)

\* "if dead tuples do not drop afterwards, the xmin horizon is held open - see
\* vacuum.xmin_horizon" (vacuum.py:384): then there is one to see, unless whoever
\* holds the horizon is younger than xmin_report_age, or is a session that has written
\* and waits for its client: the query reads backend_xmin, not backend_xid (vacuum.py:72-75).
HorizonIsNamed ==
  Current({"vacuum"}) /\ table.exists /\ (\E f \in findings : f.remedy = "vacuum")
    /\ Batch * Cardinality(RecentlyDead) >= MinDeadTuples =>
    \/ Says("vacuum.xmin_horizon")
    \/ \A s \in Holders : s = "writer" \/ xid - hold[s] < XminReportAge

\* "the whole database is only as young as its oldest relation; find it in the
\* vacuum.wraparound findings below" (vacuum.py:211): this database is reported
\* exactly if one of its relations is, unless its oldest one is gone.
OwnDatabaseExplained ==
  Current({"vacuum"}) /\ table.exists =>
    ((\E f \in findings : f.subject = <<"own", "database">>) <=> Says("vacuum.wraparound"))

\* "The number autovacuum itself compares n_dead_tup against. Reimplemented rather
\* than approximated" (vacuum.py:139-144): among tables with min_dead_tuples dead rows
\* the report names those autovacuum is due for, and those just at the threshold,
\* where autovacuum still waits.
BacklogIsAutovacuums ==
  Current({"vacuum"}) /\ table.exists /\ Batch * table.n_dead >= MinDeadTuples =>
    ((Says("vacuum.skipped") \/ Says("vacuum.backlog"))
       <=> (DueForAutovacuum \/ 100 * Batch * table.n_dead = AutovacuumThreshold))

\* A table over its threshold that autovacuum is not going to visit comes with the
\* statement that changes this, unless it was turned off in a word the command does
\* not know (vacuum.py:347).
UntendedIsTold ==
  Current({"vacuum"}) /\ table.exists /\ ~TendedByAutovacuum /\ DueForAutovacuum
    /\ Batch * table.n_dead >= MinDeadTuples /\ ~(autovacuum /\ table.enabled = "off") =>
    \E f \in findings : f.remedy \in {"enable_autovacuum", "autovacuum_on"}

\* What may be printed again however often it is followed: a database has no
\* statement of its own, a plain VACUUM does not shrink the file, and the estimate
\* of a table that was never analyzed does not change with a rewrite.  And a rewrite
\* carries the rows along that somebody's horizon keeps, of which the bloat command
\* says nothing: VACUUM FULL and VACUUM may take turns until he is found.  And REINDEX is
\* printed for ever of an index that is no larger than its entries ask for, if its ends
\* and its padding reach the thresholds by themselves.
Standing(f) ==
  \/ f.check = "vacuum.database_wraparound"
  \/ f.check = "bloat.table" /\ (f.remedy = "vacuum" \/ ~table.analyzed \/ RecentlyDead # {})
  \/ /\ f.check = "bloat.index" /\ table.ipages = BtreePages(Entries)
     /\ Reaches(IndexKept(Entries), table.ipages)

\* The advice comes to an end: once the work is over, following the reports leads
\* to one that has nothing more to ask for, whoever held the horizon meanwhile.
AdviceSettles == <>[](pc = "printed" => \A f \in findings : Standing(f))
=============================================================================
