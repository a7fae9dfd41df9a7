------------------------- MODULE MaintenanceProofs --------------------------
(***************************************************************************)
(* For all tables, settings and thresholds: what a report of the vacuum    *)
(* and bloat commands says is true of the server as it is when nothing     *)
(* happened since the command began.                                       *)
(***************************************************************************)
EXTENDS Maintenance, FiniteSetTheorems, SequenceTheorems, WellFoundedInduction, TLAPS

IsFinding(f) == f.severity \in Severities

\* Each command goes through statements of its own.
PhasesOf(command) ==
  IF command = "vacuum" THEN {"settings", "databases", "relations", "holders", "printed"}
  ELSE {"tables", "indexes", "printed"}
         \cup (IF command = "exact" THEN {"measure", "failed"} ELSE {})

FindingsOK == \A f \in findings : IsFinding(f)

PhaseOK == cmd \in {"vacuum", "bloat", "exact"} /\ cmd \in profile.asked /\ pc \in PhasesOf(cmd)

-----------------------------------------------------------------------------
(* What is reported is a finding, of a severity there is *)

LEMMA ClusterFindingsAre == \A s : \A f \in ClusterFindings(s) : IsFinding(f)
  BY DEF ClusterFindings, Finding, IsFinding, Severities, Critical, Info

LEMMA AgeFindingsAre ==
  ASSUME NEW check, NEW subject, NEW age, NEW limit, NEW f \in AgeFindings(check, subject, age, limit)
  PROVE  /\ f.check = check /\ f.subject = subject /\ f.remedy = "freeze"
         /\ f.severity \in Severities /\ DOMAIN f = {"check", "severity", "subject", "remedy"}
  BY DEF AgeFindings, AgeSeverity, Finding, Severities, Critical, Warning, Notice, Info

LEMMA DatabaseFindingsAre ==
  ASSUME NEW rows_, NEW s, NEW f \in DatabaseFindings(rows_, s)
  PROVE  IsFinding(f)
<1>1. PICK d \in DOMAIN rows_ :
        \E g \in AgeFindings("vacuum.database_wraparound", <<d, "database">>,
                             rows_[d], s.freeze_max_age) : f = [g EXCEPT !.remedy = "find_relation"]
  BY DEF DatabaseFindings
<1>2. PICK g \in AgeFindings("vacuum.database_wraparound", <<d, "database">>,
                            rows_[d], s.freeze_max_age) : f = [g EXCEPT !.remedy = "find_relation"]
  BY <1>1
<1>3. g.severity \in Severities /\ DOMAIN g = {"check", "severity", "subject", "remedy"}
  BY AgeFindingsAre
<1> QED
  BY <1>2, <1>3 DEF IsFinding

LEMMA DeadTupleFindingIs == \A row : IsFinding(DeadTupleFinding(row))
  BY DEF DeadTupleFinding, Finding, IsFinding, Severities, Critical, Warning, Notice, Info

LEMMA RelationFindingsAre == \A row, s : \A f \in RelationFindings(row, s) : IsFinding(f)
  BY AgeFindingsAre, DeadTupleFindingIs DEF RelationFindings, IsFinding

LEMMA XminFindingsAre == \A read : \A f \in XminFindings(read) : IsFinding(f)
  BY DEF XminFindings, XminSeverity, XminRemedy, Finding, IsFinding, Severities,
         Critical, Warning, Notice, Info

LEMMA BloatFindingIs == \A row : IsFinding(BloatFinding(row))
  BY DEF BloatFinding, BloatSeverity, BloatRemedy, Finding, IsFinding, Severities,
         Critical, Warning, Notice, Info

LEMMA FindingsOKStep == FindingsOK /\ [Next]_vars => FindingsOK'
<1> SUFFICES ASSUME FindingsOK, [Next]_vars
             PROVE  FindingsOK'
  OBVIOUS
<1>1. CASE LoadSettings
  BY <1>1, ClusterFindingsAre DEF LoadSettings, FindingsOK
<1>2. CASE ReadDatabases
  BY <1>2, DatabaseFindingsAre DEF ReadDatabases, FindingsOK
<1>3. CASE ReadRelations
  <2>1. \A f \in findings' : f \in findings \/ \E r : f \in RelationFindings(RelationRow(r), settings)
    BY <1>3 DEF ReadRelations
  <2> QED
    BY <2>1, RelationFindingsAre DEF FindingsOK
<1>4. CASE ReadHolders
  BY <1>4, XminFindingsAre DEF ReadHolders, FindingsOK
<1>5. CASE EstimateIndexes \/ Measure
  <2>1. findings' = findings \/ \E measured : ReportBloat(measured)
    BY <1>5 DEF EstimateIndexes, Measure
  <2> QED
    BY <2>1, BloatFindingIs DEF ReportBloat, FindingsOK
<1>6. CASE findings' \subseteq findings
  BY <1>6 DEF FindingsOK
<1>7. EstimateTables \/ (\E f \in findings : Follow(f)) \/ Again \/ ServerActs \/ UNCHANGED vars
        => findings' \subseteq findings
  BY DEF EstimateTables, Follow, Again, ServerActs, vars, toolVars
<1> QED
  BY <1>1, <1>2, <1>3, <1>4, <1>5, <1>6, <1>7 DEF Next, Tool

-----------------------------------------------------------------------------
(* Whatever happens, happens to the server in one of these ways *)

\* What a printed statement does.
Statement ==
  \/ SetAutovacuumOn
  \/ \E s \in Sources : Close(s)
  \/ FreezeSystem /\ UNCHANGED <<profile, autovacuum, xid, hold>>
  \/ FreezeTable /\ UNCHANGED <<profile, autovacuum, xid, hold>>
  \/ VacuumTable /\ UNCHANGED <<profile, autovacuum, xid, hold>>
  \/ AlterEnabled
  \/ table' \in {Rewritten, Reindexed}
       /\ UNCHANGED <<profile, frozen, dbfrozen, autovacuum, xid, hold>>

ServerMove ==
  \/ Tick \/ SessionEnds \/ ServerStep(XminReportAge)
  \/ Statement
  \/ UNCHANGED serverVars

LEMMA RunIsStatement ==
  ASSUME NEW remedy, NEW subject, Run(remedy, subject)
  PROVE  Statement \/ UNCHANGED serverVars
<1>1. CASE remedy \in {"rollback_prepared", "drop_slot"} /\ Close(subject[1])
  BY <1>1 DEF Statement, Close, Holders
<1>2. CASE table.exists /\ RunOnTable(remedy)
  BY <1>2 DEF RunOnTable, Statement
<1> QED
  BY <1>1, <1>2 DEF Run, Statement

LEMMA NextMovesServer == [Next]_vars => ServerMove
<1> SUFFICES ASSUME [Next]_vars
             PROVE  ServerMove
  OBVIOUS
<1>1. CASE Tool \/ Again
  BY <1>1 DEF Tool, LoadSettings, ReadDatabases, ReadRelations, ReadHolders, EstimateTables,
              EstimateIndexes, Measure, Again, ServerMove
<1>2. CASE \E f \in findings : Follow(f)
  <2>1. PICK f \in findings : Follow(f)
    BY <1>2
  <2>2. Run(f.remedy, f.subject)
    BY <2>1 DEF Follow
  <2> QED
    BY <2>2, RunIsStatement DEF ServerMove
<1>3. CASE ServerActs
  BY <1>3 DEF ServerActs, ServerMove
<1>4. CASE UNCHANGED vars
  BY <1>4 DEF vars, ServerMove
<1> QED
  BY <1>1, <1>2, <1>3, <1>4 DEF Next

LEMMA SameProfile == ServerMove => profile' = profile
<1>1. Tick \/ SessionEnds \/ ServerStep(XminReportAge) => profile' = profile
  BY DEF ServerStep, Tick, SessionEnds, Close, Change, Open, Drop, DayPasses,
         Autovacuum, PreventWraparound, Analyze
<1>2. Statement \/ UNCHANGED serverVars => profile' = profile
  BY DEF Statement, serverVars, SetAutovacuumOn, Close, AlterEnabled
<1> QED
  BY <1>1, <1>2 DEF ServerMove

-----------------------------------------------------------------------------
(* The statements of a command *)

LEMMA PhaseOKInit == Init => PhaseOK
<1> SUFFICES ASSUME Init PROVE PhaseOK
  OBVIOUS
<1>1. profile \in Profiles /\ cmd \in profile.asked /\ pc = First
  BY DEF Init, ServerInit
<1>2. cmd \in {"vacuum", "bloat", "exact"}
  BY <1>1, CommandsAssumption
<1> QED
  BY <1>1, <1>2 DEF PhaseOK, PhasesOf, First

\* Only the tool and who asks again change the statement; nobody changes the command.
LEMMA PhaseOKStep == PhaseOK /\ [Next]_vars => PhaseOK'
<1> SUFFICES ASSUME PhaseOK, [Next]_vars
             PROVE  PhaseOK'
  OBVIOUS
<1>1. cmd' = cmd
  BY DEF Next, Tool, LoadSettings, ReadDatabases, ReadRelations, ReadHolders, EstimateTables,
         EstimateIndexes, Measure, Follow, Again, ServerActs, vars, toolVars
<1>2. profile' = profile
  BY NextMovesServer, SameProfile
<1>3. pc' \in PhasesOf(cmd)
  <2>1. CASE Tool
    BY <2>1 DEF Tool, LoadSettings, ReadDatabases, ReadRelations, ReadHolders, EstimateTables,
                EstimateIndexes, Measure, ReportBloat, Measures, PhaseOK, PhasesOf
  <2>2. CASE Again
    BY <2>2 DEF Again, First, PhaseOK, PhasesOf
  <2>3. CASE pc' = pc
    BY <2>3 DEF PhaseOK
  <2>4. (\E f \in findings : Follow(f)) \/ ServerActs \/ UNCHANGED vars => pc' = pc
    BY DEF Follow, ServerActs, vars, toolVars
  <2> QED
    BY <2>1, <2>2, <2>3, <2>4 DEF Next
<1> QED
  BY <1>1, <1>2, <1>3 DEF PhaseOK

\* What the four reads of analyze_vacuum return of the server as it is.
Now == [Cluster EXCEPT !.autovacuum_on = autovacuum]
OfCluster == ClusterFindings(Now)
OfDatabases ==
  DatabaseFindings([own |-> xid - dbfrozen, other |-> xid - OtherDatabaseFrozen], Now)
OfRelations ==
  UNION {RelationFindings(RelationRow(r), Now) :
           r \in {s \in Relations : s = "table" => table.exists}}
OfHolders == XminFindings(HoldersRead)

\* As long as nobody else acts, what the vacuum command keeps is what it would find now.
VacuumCurrent ==
  quiet /\ cmd = "vacuum" =>
    /\ pc \in {"databases", "relations", "holders"} => settings = Now
    /\ pc = "databases" => findings = OfCluster
    /\ pc = "relations" => findings = OfCluster \cup OfDatabases
    /\ pc = "holders" => findings = OfCluster \cup OfDatabases \cup OfRelations
    /\ pc = "printed" => findings = OfCluster \cup OfDatabases \cup OfRelations \cup OfHolders

LEMMA VacuumCurrentInit == Init => VacuumCurrent
  BY DEF Init, VacuumCurrent, First

\* A tool step does not touch the server.
LEMMA SameServer ==
  ASSUME UNCHANGED serverVars
  PROVE  UNCHANGED <<Now, OfCluster, OfDatabases, OfRelations, OfHolders>>
<1>1. UNCHANGED <<profile, table, frozen, dbfrozen, autovacuum, xid, hold>>
  BY DEF serverVars
<1>2. Now' = Now
  BY <1>1 DEF Now
<1>3. OfCluster' = OfCluster
  BY <1>2 DEF OfCluster
<1>4. OfDatabases' = OfDatabases
  BY <1>1, <1>2 DEF OfDatabases
<1>5. OfRelations' = OfRelations
  BY <1>1, <1>2 DEF OfRelations, RelationRow
<1>6. OfHolders' = OfHolders
  BY <1>1 DEF OfHolders, HoldersRead, Holders
<1> QED
  BY <1>2, <1>3, <1>4, <1>5, <1>6

LEMMA VacuumCurrentStep == PhaseOK /\ VacuumCurrent /\ [Next]_vars => VacuumCurrent'
<1> SUFFICES ASSUME PhaseOK, VacuumCurrent, [Next]_vars
             PROVE  VacuumCurrent'
  OBVIOUS
<1>1. CASE LoadSettings
  <2>1. UNCHANGED serverVars /\ cmd' = cmd /\ quiet' = quiet /\ pc' = "databases"
    BY <1>1 DEF LoadSettings
  <2>2. settings' = Now /\ findings' = OfCluster
    BY <1>1 DEF LoadSettings, Now, OfCluster
  <2> QED
    BY <2>1, <2>2, SameServer DEF VacuumCurrent
<1>2. CASE ReadDatabases
  <2>1. /\ UNCHANGED serverVars /\ cmd' = cmd /\ quiet' = quiet /\ settings' = settings
        /\ pc = "databases" /\ pc' = "relations"
    BY <1>2 DEF ReadDatabases
  <2>2. quiet /\ cmd = "vacuum" => settings = Now /\ findings' = OfCluster \cup OfDatabases
    BY <1>2, <2>1 DEF ReadDatabases, VacuumCurrent, OfDatabases
  <2> QED
    BY <2>1, <2>2, SameServer DEF VacuumCurrent
<1>3. CASE ReadRelations
  <2>1. /\ UNCHANGED serverVars /\ cmd' = cmd /\ quiet' = quiet /\ settings' = settings
        /\ pc = "relations" /\ pc' = "holders"
    BY <1>3 DEF ReadRelations
  <2>2. quiet /\ cmd = "vacuum" =>
          settings = Now /\ findings' = OfCluster \cup OfDatabases \cup OfRelations
    BY <1>3, <2>1 DEF ReadRelations, VacuumCurrent, OfRelations
  <2> QED
    BY <2>1, <2>2, SameServer DEF VacuumCurrent
<1>4. CASE ReadHolders
  <2>1. /\ UNCHANGED serverVars /\ cmd' = cmd /\ quiet' = quiet
        /\ pc = "holders" /\ pc' = "printed"
    BY <1>4 DEF ReadHolders
  <2>2. quiet /\ cmd = "vacuum" =>
          findings' = OfCluster \cup OfDatabases \cup OfRelations \cup OfHolders
    BY <1>4, <2>1 DEF ReadHolders, VacuumCurrent, OfHolders
  <2> QED
    BY <2>1, <2>2, SameServer DEF VacuumCurrent
<1>5. CASE EstimateTables
  <2>1. /\ UNCHANGED <<serverVars, cmd, settings, findings, quiet>>
        /\ pc = "tables" /\ pc' = "indexes"
    BY <1>5 DEF EstimateTables
  <2> QED
    BY <2>1 DEF VacuumCurrent
<1>6. CASE EstimateIndexes \/ Measure
  <2>1. cmd' = cmd /\ pc \in {"indexes", "measure"}
    BY <1>6 DEF EstimateIndexes, Measure
  <2>2. cmd # "vacuum"
    BY <2>1 DEF PhaseOK, PhasesOf
  <2> QED
    BY <2>1, <2>2 DEF VacuumCurrent
<1>7. CASE Again
  BY <1>7 DEF Again, VacuumCurrent, First
<1>8. CASE ServerActs \/ \E f \in findings : Follow(f)
  <2>1. quiet' = FALSE
    BY <1>8 DEF ServerActs, Follow
  <2> QED
    BY <2>1 DEF VacuumCurrent
<1>9. CASE UNCHANGED vars
  <2>1. UNCHANGED serverVars /\ UNCHANGED <<cmd, pc, settings, findings, quiet>>
    BY <1>9 DEF vars, toolVars
  <2> QED
    BY <2>1, SameServer DEF VacuumCurrent
<1> QED
  BY <1>1, <1>2, <1>3, <1>4, <1>5, <1>6, <1>7, <1>8, <1>9 DEF Next, Tool

-----------------------------------------------------------------------------
(* Pages *)

LEMMA QuotientIs ==
  ASSUME NEW a \in Nat, NEW k \in Nat \ {0}
  PROVE  a \div k \in Nat /\ k * (a \div k) <= a /\ a < k * (a \div k) + k
  OBVIOUS

\* A page more is begun only for rows that do not fit into the others.
LEMMA PagesSuffice ==
  ASSUME NEW n \in Nat, NEW k \in Nat \ {0}
  PROVE  Pages(n, k) \in Nat /\ n <= k * Pages(n, k) /\ k * Pages(n, k) < n + k
<1>1. n + k - 1 \in Nat
  OBVIOUS
<1> QED
  BY <1>1, QuotientIs DEF Pages

LEMMA TimesMonotone ==
  ASSUME NEW a \in Nat, NEW b \in Nat, NEW k \in Nat, a <= b
  PROVE  a * k <= b * k /\ k * a <= k * b /\ a * k \in Nat
  OBVIOUS

LEMMA PagesMonotone ==
  ASSUME NEW m \in Nat, NEW n \in Nat, m <= n, NEW k \in Nat \ {0}
  PROVE  Pages(m, k) <= Pages(n, k)
<1> DEFINE p == Pages(m, k)  q == Pages(n, k)
<1>1. p \in Nat /\ q \in Nat /\ k * p < m + k /\ n <= k * q
  BY PagesSuffice
<1>2. k * p < k * q + k
  BY <1>1
<1> HIDE DEF p, q
<1>3. CASE q + 1 <= p
  <2>1. k * (q + 1) <= k * p
    BY <1>1, <1>3, TimesMonotone
  <2>2. k * (q + 1) = k * q + k
    BY <1>1
  <2> QED
    BY <1>1, <1>2, <2>1, <2>2
<1> QED
  BY <1>1, <1>3 DEF p, q

LEMMA PerPageIs ==
  ASSUME NEW room \in Int, NEW size \in Nat \ {0}, NEW page \in Nat, room <= page, size <= page
  PROVE  /\ PerPage(room, size) \in Nat \ {0}
         /\ size * PerPage(room, size) <= page
         /\ size <= room => size * PerPage(room, size) <= room
<1>1. CASE room < size
  BY <1>1 DEF PerPage
<1>2. CASE size <= room
  <2>1. room \div size \in Nat /\ size * (room \div size) <= room
           /\ room < size * (room \div size) + size
    BY <1>2, QuotientIs
  <2>2. room \div size # 0
    BY <1>2, <2>1
  <2> QED
    BY <1>2, <2>1, <2>2 DEF PerPage
<1> QED
  BY <1>1, <1>2

HeapPerPage == PerPage(HeapRoom, profile.tuple)
IndexPerPage == PerPage(IndexRoom, profile.ituple)

LEMMA RowsPerPage ==
  ASSUME profile \in Profiles
  PROVE  /\ HeapPerPage \in Nat \ {0} /\ profile.tuple * HeapPerPage <= 8168
         /\ IndexPerPage \in Nat \ {0} /\ profile.ituple * IndexPerPage <= 8152
<1>1. /\ profile.tuple \in Nat /\ profile.ituple \in Nat
      /\ profile.fillfactor \in Nat /\ profile.ifillfactor \in Nat
      /\ 28 <= profile.tuple /\ profile.tuple <= 2000
      /\ 12 <= profile.ituple /\ profile.ituple <= 2000
      /\ 10 <= profile.fillfactor /\ profile.fillfactor <= 100
      /\ 10 <= profile.ifillfactor /\ profile.ifillfactor <= 100
  BY ServerAssumption
<1>2. HeapRoom \in Int /\ HeapRoom <= 8168 /\ IndexRoom \in Int /\ IndexRoom <= 8152
  <2>1. (8192 * (100 - profile.fillfactor)) \div 100 \in Nat
    BY <1>1, QuotientIs
  <2>2. (8192 * (100 - profile.ifillfactor)) \div 100 \in Nat
    BY <1>1, QuotientIs
  <2> QED
    BY <2>1, <2>2 DEF HeapRoom, IndexRoom
<1> DEFINE size == profile.tuple  isize == profile.ituple  page == 8168  leaf == 8152
<1>3. /\ size \in Nat \ {0} /\ size <= page /\ page \in Nat /\ HeapRoom \in Int /\ HeapRoom <= page
      /\ isize \in Nat \ {0} /\ isize <= leaf /\ leaf \in Nat /\ IndexRoom \in Int /\ IndexRoom <= leaf
  BY <1>1, <1>2
<1>4. HeapPerPage = PerPage(HeapRoom, size) /\ IndexPerPage = PerPage(IndexRoom, isize)
  BY DEF HeapPerPage, IndexPerPage
<1> HIDE DEF size, isize, page, leaf
<1>5. PerPage(HeapRoom, size) \in Nat \ {0} /\ size * PerPage(HeapRoom, size) <= page
  BY <1>3, PerPageIs, Zenon
<1>6. PerPage(IndexRoom, isize) \in Nat \ {0} /\ isize * PerPage(IndexRoom, isize) <= leaf
  BY <1>3, PerPageIs, Zenon
<1> QED
  BY <1>4, <1>5, <1>6 DEF size, isize, page, leaf

LEMMA HeapPagesAre ==
  ASSUME profile \in Profiles, NEW n \in Nat
  PROVE  /\ HeapPages(n) = Pages(n * Batch, HeapPerPage) /\ HeapPages(n) \in Nat
         /\ \A m \in 0..n : HeapPages(m) <= HeapPages(n)
<1>1. \A m \in Nat : HeapPages(m) = Pages(m * Batch, HeapPerPage)
  BY DEF HeapPages, HeapPerPage
<1>2. HeapPerPage \in Nat \ {0} /\ Batch \in Nat
  BY RowsPerPage, ServerAssumption
<1>3. \A m \in Nat : m * Batch \in Nat
  BY <1>2
<1>4. \A m \in 0..n : m * Batch <= n * Batch
  BY <1>2, TimesMonotone
<1>5. HeapPages(n) \in Nat
  BY <1>1, <1>2, <1>3, PagesSuffice
<1>6. \A m \in 0..n : HeapPages(m) <= HeapPages(n)
  BY <1>1, <1>2, <1>3, <1>4, PagesMonotone
<1> QED
  BY <1>1, <1>5, <1>6

LEMMA BtreePagesAre ==
  ASSUME profile \in Profiles, NEW n \in Nat
  PROVE  /\ Leaves(n) = Pages(n * Batch, IndexPerPage) /\ Leaves(n) \in Nat
         /\ BtreePages(n) \in Nat /\ 1 + Leaves(n) <= BtreePages(n)
         /\ \A m \in 0..n : BtreePages(m) <= BtreePages(n)
<1>1. \A m \in Nat : Leaves(m) = Pages(m * Batch, IndexPerPage)
  BY DEF Leaves, IndexPerPage
<1>2. IndexPerPage \in Nat \ {0} /\ Batch \in Nat
  BY RowsPerPage, ServerAssumption
<1>3. \A m \in Nat : m * Batch \in Nat
  BY <1>2
<1>4. \A m \in 0..n : m * Batch <= n * Batch
  BY <1>2, TimesMonotone
<1>5. \A m \in Nat : Leaves(m) \in Nat
  BY <1>1, <1>2, <1>3, PagesSuffice
<1>6. \A m \in 0..n : Leaves(m) <= Leaves(n)
  BY <1>1, <1>2, <1>3, <1>4, PagesMonotone
<1> QED
  BY <1>1, <1>5, <1>6 DEF BtreePages

-----------------------------------------------------------------------------
(* The table *)

\* Of two numbers.
LEMMA TwoNumbers ==
  ASSUME NEW a \in Int, NEW b \in Int
  PROVE  /\ Max({a, b}) = IF a <= b THEN b ELSE a
         /\ Min({a, b}) = IF a <= b THEN a ELSE b
<1>1. \A x \in {a, b} : (\A y \in {a, b} : x >= y) <=> x = IF a <= b THEN b ELSE a
  OBVIOUS
<1>2. \A x \in {a, b} : (\A y \in {a, b} : x <= y) <=> x = IF a <= b THEN a ELSE b
  OBVIOUS
<1>3. (IF a <= b THEN b ELSE a) \in {a, b} /\ (IF a <= b THEN a ELSE b) \in {a, b}
  OBVIOUS
<1>4. Max({a, b}) \in {a, b} /\ \A y \in {a, b} : Max({a, b}) >= y
  BY <1>1, <1>3 DEF Max
<1>5. Min({a, b}) \in {a, b} /\ \A y \in {a, b} : Min({a, b}) <= y
  BY <1>2, <1>3 DEF Min
<1> QED
  BY <1>1, <1>2, <1>4, <1>5

Statistics ==
  [tuples : Nat \cup {-1}, ituples : Nat \cup {-1}, pages : Nat, ipages : Nat]

Tables ==
  [exists : BOOLEAN, analyzed : BOOLEAN, enabled : Spellings, live : Nat, dead : SUBSET Nat,
   indexed : SUBSET Nat, n_dead : Nat, pages : Nat, ipages : Nat, seen : Statistics,
   last : Int, mxid_age : Nat]

\* Its file and its index have room for every row that is there.
Sound(t) ==
  /\ t \in Tables
  /\ t.live <= MaxLive
  /\ t.dead \subseteq 1..(xid - 1) /\ t.indexed \subseteq t.dead
  /\ HeapPages(t.live + Cardinality(t.dead)) <= t.pages
  /\ BtreePages(t.live + Cardinality(t.indexed)) <= t.ipages

TableOK == profile \in Profiles /\ autovacuum \in BOOLEAN /\ xid \in Nat \ {0} /\ Sound(table)

LEMMA SomeXids ==
  ASSUME xid \in Nat \ {0}, NEW D \in SUBSET (1..(xid - 1))
  PROVE  /\ IsFiniteSet(D) /\ Cardinality(D) \in Nat /\ xid \notin D /\ D \in SUBSET Nat
         /\ Cardinality(D \cup {xid}) = Cardinality(D) + 1
         /\ \A E \in SUBSET D : Cardinality(E) \in Nat /\ Cardinality(E) <= Cardinality(D)
<1>1. IsFiniteSet(1..(xid - 1))
  BY FS_Interval
<1>2. IsFiniteSet(D)
  BY <1>1, FS_Subset
<1>3. xid \notin D
  OBVIOUS
<1>4. Cardinality(D \cup {xid}) = Cardinality(D) + 1
  BY <1>2, <1>3, FS_AddElement
<1>5. \A E \in SUBSET D : IsFiniteSet(E) /\ Cardinality(E) <= Cardinality(D)
  BY <1>2, FS_Subset
<1> QED
  BY <1>2, <1>3, <1>4, <1>5, FS_CardinalityType

LEMMA TableOKInit == Init => TableOK
<1> SUFFICES ASSUME Init PROVE TableOK
  OBVIOUS
<1>1. profile \in Profiles
  BY DEF Init, ServerInit
<1>2. /\ profile.live \in Nat /\ profile.live <= MaxLive /\ profile.mxid_age \in Nat
      /\ profile.enabled \in Spellings /\ profile.analyzed \in BOOLEAN /\ profile.autovacuum \in BOOLEAN
      /\ StartXid \in Nat \ {0}
  BY <1>1, ServerAssumption
<1>3. HeapPages(profile.live) \in Nat /\ BtreePages(profile.live) \in Nat
  BY <1>1, <1>2, HeapPagesAre, BtreePagesAre
<1>4. (IF profile.analyzed
       THEN Seen(profile.live, profile.live, HeapPages(profile.live), BtreePages(profile.live))
       ELSE Unseen) \in Statistics
  BY <1>2, <1>3 DEF Seen, Unseen, Statistics
<1>5. Cardinality({}) = 0
  BY FS_EmptySet
<1>6. table \in Tables
  BY <1>2, <1>3, <1>4 DEF Init, ServerInit, Tables
<1>7. /\ table.live = profile.live /\ table.dead = {} /\ table.indexed = {}
      /\ table.pages = HeapPages(profile.live) /\ table.ipages = BtreePages(profile.live)
  BY DEF Init, ServerInit
<1>8. profile.live + 0 = profile.live
  BY <1>2
<1>9. Sound(table)
  BY <1>2, <1>3, <1>5, <1>6, <1>7, <1>8 DEF Sound
<1> QED
  BY <1>1, <1>2, <1>9 DEF TableOK, Init, ServerInit

LEMMA FewerRows ==
  ASSUME TableOK, NEW D \in SUBSET table.dead
  PROVE  /\ Cardinality(D) \in Nat /\ Cardinality(D) <= Cardinality(table.dead)
         /\ D \in SUBSET Nat /\ D \subseteq 1..(xid - 1)
         /\ HeapPages(table.live + Cardinality(D)) \in Nat
         /\ HeapPages(table.live + Cardinality(D)) <= table.pages
         /\ BtreePages(table.live + Cardinality(D)) \in Nat
         /\ D \subseteq table.indexed => BtreePages(table.live + Cardinality(D)) <= table.ipages
<1>1. /\ profile \in Profiles /\ xid \in Nat \ {0} /\ table.live \in Nat
      /\ table.dead \in SUBSET (1..(xid - 1)) /\ table.indexed \in SUBSET table.dead
      /\ table.pages \in Nat /\ table.ipages \in Nat
      /\ HeapPages(table.live + Cardinality(table.dead)) <= table.pages
      /\ BtreePages(table.live + Cardinality(table.indexed)) <= table.ipages
  BY DEF TableOK, Sound, Tables
<1>2. /\ Cardinality(D) \in Nat /\ Cardinality(D) <= Cardinality(table.dead)
      /\ Cardinality(table.dead) \in Nat /\ Cardinality(table.indexed) \in Nat
  BY <1>1, SomeXids
<1>3. D \subseteq 1..(xid - 1) /\ D \in SUBSET Nat
  BY <1>1, SomeXids
<1> DEFINE some == table.live + Cardinality(D)
           dead == table.live + Cardinality(table.dead)
           indexed == table.live + Cardinality(table.indexed)
<1>4. some \in Nat /\ dead \in Nat /\ indexed \in Nat /\ some \in 0..dead
  BY <1>1, <1>2
<1>5. D \subseteq table.indexed => some \in 0..indexed
  <2>1. SUFFICES ASSUME D \subseteq table.indexed PROVE some \in 0..indexed
    OBVIOUS
  <2>2. table.indexed \in SUBSET (1..(xid - 1))
    BY <1>1
  <2>3. Cardinality(D) <= Cardinality(table.indexed)
    BY <1>1, <2>1, <2>2, SomeXids
  <2> QED
    BY <1>1, <1>2, <2>3
<1> HIDE DEF some, dead, indexed
<1>6. HeapPages(some) \in Nat /\ HeapPages(dead) \in Nat /\ HeapPages(some) <= HeapPages(dead)
  BY <1>1, <1>4, HeapPagesAre
<1>7. BtreePages(some) \in Nat /\ BtreePages(indexed) \in Nat
  BY <1>1, <1>4, BtreePagesAre
<1>8. some \in 0..indexed => BtreePages(some) <= BtreePages(indexed)
  BY <1>1, <1>4, BtreePagesAre
<1>9. HeapPages(some) <= table.pages
  BY <1>1, <1>6 DEF dead
<1>10. D \subseteq table.indexed => BtreePages(some) <= table.ipages
  BY <1>1, <1>5, <1>7, <1>8 DEF indexed
<1> QED
  BY <1>2, <1>3, <1>6, <1>7, <1>9, <1>10 DEF some

LEMMA AnalyzedIsSound ==
  ASSUME TableOK, NEW t, Sound(t)
  PROVE  Sound(Analyzed(t)) /\ Analyzed(t).exists = t.exists
<1>1. t.dead \in SUBSET (1..(xid - 1)) /\ Cardinality(t.dead) \in Nat
  BY SomeXids DEF TableOK, Sound
<1>2. Seen(t.live, t.live, t.pages, t.ipages) \in Statistics
  BY DEF Sound, Tables, Statistics, Seen
<1>3. /\ Analyzed(t) \in Tables /\ Analyzed(t).exists = t.exists
      /\ Analyzed(t).live = t.live /\ Analyzed(t).dead = t.dead /\ Analyzed(t).indexed = t.indexed
      /\ Analyzed(t).pages = t.pages /\ Analyzed(t).ipages = t.ipages
  BY <1>1, <1>2 DEF Sound, Tables, Analyzed
<1> QED
  BY <1>3 DEF Sound

LEMMA VacuumedIsSound ==
  ASSUME TableOK
  PROVE  Sound(Vacuumed) /\ Vacuumed.exists = table.exists
<1> DEFINE indexed == table.indexed \cap RecentlyDead
<1>1. table \in Tables /\ table.live <= MaxLive /\ table.indexed \subseteq table.dead
  BY DEF TableOK, Sound
<1>2. RecentlyDead \in SUBSET table.dead /\ indexed \in SUBSET table.dead /\ indexed \subseteq table.indexed
  BY <1>1 DEF RecentlyDead
<1>3. /\ Cardinality(RecentlyDead) \in Nat /\ RecentlyDead \in SUBSET Nat
      /\ RecentlyDead \subseteq 1..(xid - 1)
      /\ HeapPages(table.live + Cardinality(RecentlyDead)) <= table.pages
  BY <1>2, FewerRows
<1>4. /\ Cardinality(indexed) \in Nat /\ indexed \in SUBSET Nat
      /\ BtreePages(table.live + Cardinality(indexed)) <= table.ipages
  BY <1>2, FewerRows
<1>5. Vacuumed = [table EXCEPT !.dead = RecentlyDead, !.indexed = indexed, !.last = 0,
                               !.n_dead = Cardinality(RecentlyDead),
                               !.seen = Seen(table.live, table.live + Cardinality(indexed),
                                             table.pages, table.ipages)]
  BY DEF Vacuumed
<1> HIDE DEF indexed
<1>6. Seen(table.live, table.live + Cardinality(indexed), table.pages, table.ipages) \in Statistics
  BY <1>1, <1>4 DEF Tables, Statistics, Seen
<1>7. /\ Vacuumed \in Tables /\ Vacuumed.exists = table.exists
      /\ Vacuumed.live = table.live /\ Vacuumed.dead = RecentlyDead /\ Vacuumed.indexed = indexed
      /\ Vacuumed.pages = table.pages /\ Vacuumed.ipages = table.ipages
  <2> DEFINE count == Cardinality(RecentlyDead)  today == 0
             seen == Seen(table.live, table.live + Cardinality(indexed), table.pages, table.ipages)
  <2>1. table \in Tables /\ RecentlyDead \in SUBSET Nat /\ indexed \in SUBSET Nat
    BY <1>1, <1>3, <1>4
  <2>2. count \in Nat /\ seen \in Statistics /\ today \in Int
    BY <1>3, <1>6
  <2>3. Vacuumed = [table EXCEPT !.dead = RecentlyDead, !.indexed = indexed, !.last = today,
                                 !.n_dead = count, !.seen = seen]
    BY <1>5
  <2> HIDE DEF count, seen, today
  <2> QED
    BY <2>1, <2>2, <2>3 DEF Tables
<1>8. indexed \subseteq RecentlyDead
  BY DEF indexed
<1> QED
  BY <1>1, <1>3, <1>4, <1>7, <1>8 DEF Sound

LEMMA VacuumedAnalyzedIsSound ==
  ASSUME TableOK
  PROVE  Sound(VacuumedAnalyzed) /\ VacuumedAnalyzed.exists = table.exists
<1>1. /\ Sound(Vacuumed) /\ Vacuumed.exists = table.exists
      /\ Sound(Analyzed(Vacuumed)) /\ Analyzed(Vacuumed).exists = table.exists
  BY VacuumedIsSound, AnalyzedIsSound
<1> DEFINE v == Vacuumed  a == Analyzed(Vacuumed)
<1>2. v \in Tables /\ a \in Tables /\ VacuumedAnalyzed = [a EXCEPT !.seen = v.seen]
  BY <1>1 DEF Sound, VacuumedAnalyzed
<1>3. Sound(a) /\ a.exists = table.exists
  BY <1>1
<1> HIDE DEF v, a
<1>4. v.seen \in Statistics
  BY <1>2 DEF Tables
<1>5. /\ VacuumedAnalyzed \in Tables /\ VacuumedAnalyzed.exists = a.exists
      /\ VacuumedAnalyzed.live = a.live /\ VacuumedAnalyzed.dead = a.dead
      /\ VacuumedAnalyzed.indexed = a.indexed
      /\ VacuumedAnalyzed.pages = a.pages /\ VacuumedAnalyzed.ipages = a.ipages
  BY <1>2, <1>4 DEF Tables
<1> QED
  BY <1>3, <1>5 DEF Sound

LEMMA RewrittenIsSound ==
  ASSUME TableOK
  PROVE  Sound(Rewritten) /\ Rewritten.exists = table.exists
<1> DEFINE kept == table.live + Cardinality(RecentlyDead)
<1>1. table \in Tables /\ table.live <= MaxLive
  BY DEF TableOK, Sound
<1>2. RecentlyDead \in SUBSET table.dead
  BY DEF RecentlyDead
<1>3. /\ Cardinality(RecentlyDead) \in Nat /\ RecentlyDead \in SUBSET Nat
      /\ RecentlyDead \subseteq 1..(xid - 1)
      /\ HeapPages(kept) \in Nat /\ BtreePages(kept) \in Nat
  BY <1>2, FewerRows
<1>4. kept \in Nat
  BY <1>1, <1>3 DEF Tables
<1>5. /\ kept = table.live + Cardinality(RecentlyDead)
      /\ Rewritten = [table EXCEPT !.dead = RecentlyDead, !.indexed = RecentlyDead,
                                   !.pages = HeapPages(kept), !.ipages = BtreePages(kept),
                                   !.seen = Seen(kept, kept, HeapPages(kept), BtreePages(kept))]
  BY DEF Rewritten
<1> HIDE DEF kept
<1>6. Seen(kept, kept, HeapPages(kept), BtreePages(kept)) \in Statistics
  BY <1>3, <1>4 DEF Statistics, Seen
<1>7. /\ Rewritten \in Tables /\ Rewritten.exists = table.exists
      /\ Rewritten.live = table.live /\ Rewritten.dead = RecentlyDead
      /\ Rewritten.indexed = RecentlyDead
      /\ Rewritten.pages = HeapPages(kept) /\ Rewritten.ipages = BtreePages(kept)
  BY <1>1, <1>3, <1>5, <1>6 DEF Tables
<1> QED
  BY <1>1, <1>3, <1>5, <1>7 DEF Sound

LEMMA ReindexedIsSound ==
  ASSUME TableOK
  PROVE  Sound(Reindexed) /\ Reindexed.exists = table.exists
<1>1. table \in Tables /\ Sound(table) /\ profile \in Profiles
  BY DEF TableOK, Sound
<1>2. table.live \in Nat /\ table.seen \in Statistics /\ BtreePages(table.live) \in Nat
  BY <1>1, BtreePagesAre DEF Tables
<1>3. [table.seen EXCEPT !.ituples = table.live, !.ipages = BtreePages(table.live)] \in Statistics
  BY <1>2 DEF Statistics
<1>4. Reindexed = [table EXCEPT !.indexed = {}, !.ipages = BtreePages(table.live),
                     !.seen = [table.seen EXCEPT !.ituples = table.live,
                                                 !.ipages = BtreePages(table.live)]]
  BY <1>1, <1>2 DEF Reindexed, Tables, Statistics
<1>5. /\ Reindexed \in Tables /\ Reindexed.exists = table.exists
      /\ Reindexed.live = table.live /\ Reindexed.dead = table.dead /\ Reindexed.indexed = {}
      /\ Reindexed.pages = table.pages /\ Reindexed.ipages = BtreePages(table.live)
  BY <1>1, <1>2, <1>3, <1>4 DEF Tables
<1>6. Cardinality({}) = 0 /\ table.live + 0 = table.live
  BY <1>2, FS_EmptySet
<1> QED
  BY <1>1, <1>2, <1>5, <1>6 DEF Sound

LEMMA LongerRange ==
  ASSUME NEW m \in Nat, NEW n \in Nat, m <= n
  PROVE  1..(m - 1) \subseteq 1..(n - 1)
  OBVIOUS

LEMMA SoundAfter ==
  ASSUME NEW t, Sound(t), table' = t, profile' = profile,
         xid \in Nat, xid' \in Nat, xid <= xid'
  PROVE  Sound(table)'
<1>1. \A n : HeapPages(n)' = HeapPages(n) /\ BtreePages(n)' = BtreePages(n)
  BY DEF HeapPages, BtreePages, Leaves, HeapRoom, IndexRoom
<1>2. 1..(xid - 1) \subseteq 1..(xid' - 1)
  BY LongerRange
<1>3. /\ table' \in Tables /\ table.live' <= MaxLive
      /\ table.dead' \subseteq 1..(xid' - 1) /\ table.indexed' \subseteq table.dead'
  BY <1>2 DEF Sound
<1>4. /\ HeapPages(table.live + Cardinality(table.dead))' <= table.pages'
      /\ BtreePages(table.live + Cardinality(table.indexed))' <= table.ipages'
  BY <1>1 DEF Sound
<1> QED
  BY <1>3, <1>4 DEF Sound

\* A row version more needs room, in the heap and in the index.
LEMMA ChangedIsSound ==
  ASSUME TableOK, NEW replace \in BOOLEAN, Change(replace)
  PROVE  TableOK' /\ table'.exists = table.exists
<1> DEFINE more == IF replace THEN 1 ELSE 0
           less == IF replace THEN 0 ELSE 1
           live == table.live - less
           dead == table.dead \cup {xid}
           indexed == table.indexed \cup {xid}
           count == table.n_dead + 1
           rows_ == table.live + Cardinality(table.dead) + more
           entries == Entries + more
           pages == Max({table.pages, HeapPages(rows_)})
           ipages == Max({table.ipages, BtreePages(entries)})
<1>1. /\ table' = [table EXCEPT !.live = live, !.dead = dead, !.indexed = indexed,
                               !.n_dead = count, !.pages = pages, !.ipages = ipages]
      /\ xid' = xid + 1 /\ profile' = profile /\ autovacuum' = autovacuum
      /\ table.live > 0
  BY DEF Change
<1>2. /\ profile \in Profiles /\ autovacuum \in BOOLEAN /\ xid \in Nat \ {0} /\ table \in Tables
      /\ table.live \in Nat /\ table.live <= MaxLive /\ table.n_dead \in Nat
      /\ table.pages \in Nat /\ table.ipages \in Nat
      /\ table.dead \in SUBSET (1..(xid - 1)) /\ table.indexed \in SUBSET (1..(xid - 1))
      /\ table.indexed \subseteq table.dead /\ MaxLive \in Nat
  BY ServerAssumption DEF TableOK, Sound, Tables
<1>3. /\ Cardinality(dead) = Cardinality(table.dead) + 1 /\ Cardinality(table.dead) \in Nat
      /\ Cardinality(indexed) = Cardinality(table.indexed) + 1 /\ Cardinality(table.indexed) \in Nat
  BY <1>2, SomeXids
<1>4. rows_ \in Nat /\ entries \in Nat /\ live \in Nat /\ live <= MaxLive
  BY <1>1, <1>2, <1>3 DEF Entries
<1>5. live + Cardinality(dead) = rows_ /\ live + Cardinality(indexed) = entries
  BY <1>2, <1>3 DEF Entries
<1>6. dead \subseteq 1..(xid' - 1) /\ dead \in SUBSET Nat /\ indexed \in SUBSET Nat /\ indexed \subseteq dead
  BY <1>1, <1>2
<1>7. count \in Nat
  BY <1>2
<1> HIDE DEF live, dead, indexed, count, rows_, entries
<1>8. HeapPages(rows_) \in Nat /\ BtreePages(entries) \in Nat
  BY <1>2, <1>4, HeapPagesAre, BtreePagesAre
<1>9. /\ pages \in Nat /\ HeapPages(rows_) <= pages
      /\ ipages \in Nat /\ BtreePages(entries) <= ipages
  BY <1>2, <1>8, TwoNumbers
<1> HIDE DEF pages, ipages
<1>10. /\ table' \in Tables /\ table'.exists = table.exists
       /\ table'.live = live /\ table'.dead = dead /\ table'.indexed = indexed
       /\ table'.pages = pages /\ table'.ipages = ipages
  BY <1>1, <1>2, <1>4, <1>6, <1>7, <1>9 DEF Tables
<1>11. \A n : HeapPages(n)' = HeapPages(n) /\ BtreePages(n)' = BtreePages(n)
  BY <1>1 DEF HeapPages, BtreePages, Leaves, HeapRoom, IndexRoom
<1>12. /\ HeapPages(table.live + Cardinality(table.dead))' <= table'.pages
       /\ BtreePages(table.live + Cardinality(table.indexed))' <= table'.ipages
  BY <1>5, <1>9, <1>10, <1>11
<1>13. Sound(table)'
  BY <1>4, <1>6, <1>10, <1>12 DEF Sound
<1> QED
  BY <1>1, <1>2, <1>10, <1>13 DEF TableOK

LEMMA SameTableIsSound ==
  ASSUME TableOK, UNCHANGED <<profile, table>>, autovacuum' \in BOOLEAN,
         xid' \in Nat, xid <= xid'
  PROVE  TableOK'
<1>1. Sound(table)'
  BY SoundAfter DEF TableOK
<1>2. xid' \in Nat \ {0}
  BY DEF TableOK
<1> QED
  BY <1>1, <1>2 DEF TableOK

LEMMA NewTableIsSound ==
  ASSUME TableOK, NEW t, Sound(t), table' = t, UNCHANGED <<profile, autovacuum, xid>>
  PROVE  TableOK'
<1>1. Sound(table)'
  BY SoundAfter DEF TableOK
<1> QED
  BY <1>1 DEF TableOK

LEMMA FrozenIsSound ==
  ASSUME TableOK
  PROVE  LET t == [Vacuumed EXCEPT !.mxid_age = IF Holders = {} THEN 0 ELSE @]
         IN  Sound(t) /\ t.exists = table.exists
<1> DEFINE v == Vacuumed
           age == IF Holders = {} THEN 0 ELSE v.mxid_age
           t == [v EXCEPT !.mxid_age = age]
<1>1. Sound(v) /\ v.exists = table.exists
  BY VacuumedIsSound
<1> HIDE DEF v
<1>2. v \in Tables /\ age \in Nat
  BY <1>1 DEF Sound, Tables
<1> HIDE DEF age
<1>3. /\ t \in Tables /\ t.exists = v.exists /\ t.live = v.live /\ t.dead = v.dead
      /\ t.indexed = v.indexed /\ t.pages = v.pages /\ t.ipages = v.ipages
  BY <1>2 DEF Tables
<1>4. [Vacuumed EXCEPT !.mxid_age = IF Holders = {} THEN 0 ELSE @] = t
  BY DEF v, age
<1> HIDE DEF t
<1>5. Sound(t) /\ t.exists = table.exists
  BY <1>1, <1>3 DEF Sound
<1> QED
  BY <1>4, <1>5

\* None of these is about rows.
LEMMA OtherFields ==
  ASSUME TableOK
  PROVE  /\ \A gone \in BOOLEAN : Sound([table EXCEPT !.exists = gone])
         /\ \A spelled \in Spellings : Sound([table EXCEPT !.enabled = spelled])
         /\ \A days \in Int : Sound([table EXCEPT !.last = days])
<1>1. table \in Tables /\ Sound(table)
  BY DEF TableOK, Sound
<1>2. ASSUME NEW t, t \in Tables, t.live = table.live, t.dead = table.dead,
             t.indexed = table.indexed, t.pages = table.pages, t.ipages = table.ipages
      PROVE  Sound(t)
  BY <1>1, <1>2 DEF Sound
<1>3. \A gone \in BOOLEAN : Sound([table EXCEPT !.exists = gone])
  BY <1>1, <1>2 DEF Tables
<1>4. \A spelled \in Spellings : Sound([table EXCEPT !.enabled = spelled])
  BY <1>1, <1>2 DEF Tables
<1>5. \A days \in Int : Sound([table EXCEPT !.last = days])
  BY <1>1, <1>2 DEF Tables
<1> QED
  BY <1>3, <1>4, <1>5

\* A table that is gone does not come back.
LEMMA TableOKStep ==
  ASSUME TableOK, ServerMove
  PROVE  TableOK' /\ (table'.exists => table.exists)
<1>1. xid \in Nat /\ Sound(table) /\ autovacuum \in BOOLEAN
  BY DEF TableOK
<1>2. CASE \E replace \in BOOLEAN : Change(replace)
  BY <1>2, ChangedIsSound
<1>3. CASE Tick
  BY <1>1, <1>3, SameTableIsSound DEF Tick
<1>4. CASE SessionEnds \/ (\E s \in Sources : Open(s, XminReportAge) \/ Close(s))
             \/ UNCHANGED serverVars \/ SetAutovacuumOn
  <2>1. UNCHANGED <<profile, table, xid>> /\ autovacuum' \in BOOLEAN
    BY <1>1, <1>4 DEF SessionEnds, Close, Open, serverVars, SetAutovacuumOn
  <2> QED
    BY <1>1, <2>1, SameTableIsSound
<1>5. CASE Drop \/ DayPasses \/ AlterEnabled
  <2>1. UNCHANGED <<profile, autovacuum, xid>>
    BY <1>5 DEF Drop, DayPasses, AlterEnabled
  <2>2. CASE Drop
    <3>1. FALSE \in BOOLEAN
      OBVIOUS
    <3>2. Sound([table EXCEPT !.exists = FALSE])
      BY <3>1, OtherFields, Zenon
    <3> QED
      BY <2>1, <2>2, <3>2, NewTableIsSound DEF Drop
  <2>3. CASE DayPasses
    <3>1. 2 \in Int
      OBVIOUS
    <3>2. Sound([table EXCEPT !.last = 2])
      BY <3>1, OtherFields, Zenon
    <3> QED
      BY <2>1, <2>3, <3>2, NewTableIsSound DEF DayPasses
  <2>4. CASE AlterEnabled
    <3>1. "true" \in Spellings
      BY DEF Spellings
    <3>2. Sound([table EXCEPT !.enabled = "true"])
      BY <3>1, OtherFields, Zenon
    <3> QED
      BY <2>1, <2>4, <3>2, NewTableIsSound DEF AlterEnabled
  <2>5. table'.exists => table.exists
    BY <1>1, <1>5 DEF Drop, DayPasses, AlterEnabled, Sound, Tables
  <2> QED
    BY <1>5, <2>2, <2>3, <2>4, <2>5
<1>6. CASE Autovacuum \/ (VacuumTable /\ UNCHANGED <<profile, autovacuum, xid, hold>>)
  <2>1. table' = VacuumedAnalyzed /\ UNCHANGED <<profile, autovacuum, xid>>
    BY <1>6 DEF Autovacuum, VacuumTable
  <2> QED
    BY <2>1, VacuumedAnalyzedIsSound, NewTableIsSound
<1>7. CASE FreezeTable /\ UNCHANGED <<profile, autovacuum, xid, hold>>
  BY <1>7, FrozenIsSound, NewTableIsSound DEF FreezeTable
<1>8. CASE FreezeSystem /\ UNCHANGED <<profile, autovacuum, xid, hold>>
  BY <1>1, <1>8, NewTableIsSound DEF FreezeSystem
<1>9. CASE \E r \in Relations : PreventWraparound(r)
  <2>1. (FreezeTable \/ FreezeSystem) /\ UNCHANGED <<profile, autovacuum, xid, hold>>
    BY <1>9 DEF PreventWraparound
  <2> QED
    BY <1>7, <1>8, <2>1
<1>10. CASE Analyze
  BY <1>1, <1>10, AnalyzedIsSound, NewTableIsSound DEF Analyze
<1>11. CASE /\ table' \in {Rewritten, Reindexed}
            /\ UNCHANGED <<profile, frozen, dbfrozen, autovacuum, xid, hold>>
  BY <1>11, RewrittenIsSound, ReindexedIsSound, NewTableIsSound
<1> QED
  BY <1>2, <1>3, <1>4, <1>5, <1>6, <1>7, <1>8, <1>9, <1>10, <1>11
  DEF ServerMove, ServerStep, Statement

-----------------------------------------------------------------------------
(* The ages *)

\* The database is as old as the oldest of its relations, unless that one was dropped.
AgesOK ==
  /\ xid \in StartXid..MaxXid
  /\ hold \in [Sources -> 0..xid]
  /\ frozen \in [Relations -> 0..xid]
  /\ dbfrozen \in Nat /\ dbfrozen <= frozen["system"]
  /\ table.exists =>
       /\ dbfrozen <= frozen["table"]
       /\ dbfrozen \in {frozen["system"], frozen["table"]}

\* Nobody holds a later xid than the next one.
LEMMA HorizonIs ==
  ASSUME AgesOK
  PROVE  Horizon \in 0..xid
<1> DEFINE held == {xid} \cup {hold[s] : s \in Holders}
<1>1. xid \in Nat /\ Holders \subseteq {"backend", "writer", "prepared_xact", "replication_slot"}
  BY ServerAssumption DEF AgesOK, Holders, Sources, Sessions
<1>2. held \subseteq 0..xid /\ xid \in held
  BY <1>1 DEF AgesOK, Holders
<1> HIDE DEF held
<1>3. \E x \in held : \A y \in held : x <= y
  <2>1. held \subseteq Nat
    BY <1>2
  <2>2. PICK x \in held : \A y \in held : ~(<<y, x>> \in OpToRel(<, Nat))
    BY <1>2, <2>1, WFMin, NatLessThanWellFounded, Zenon
  <2>3. \A y \in held : ~(y < x)
    BY <2>1, <2>2 DEF OpToRel
  <2> QED
    BY <2>1, <2>3
<1>4. Horizon \in held
  BY <1>3 DEF Horizon, Min, held
<1> QED
  BY <1>2, <1>4

LEMMA AgesOKInit == Init => AgesOK
<1> SUFFICES ASSUME Init PROVE AgesOK
  OBVIOUS
<1>1. profile \in Profiles
  BY DEF Init, ServerInit
<1>2. profile.frozen \in Nat /\ profile.frozen <= StartXid /\ StartXid \in Nat
      /\ MaxXid \in Nat /\ StartXid <= MaxXid
  BY <1>1, ServerAssumption
<1>3. xid = StartXid /\ dbfrozen = profile.frozen /\ hold = [s \in Sources |-> Nobody]
      /\ frozen = [r \in Relations |-> profile.frozen]
  BY DEF Init, ServerInit
<1>4. hold \in [Sources -> 0..xid]
  BY <1>2, <1>3 DEF Nobody
<1>5. frozen \in [Relations -> 0..xid]
  BY <1>2, <1>3
<1>6. frozen["system"] = profile.frozen /\ frozen["table"] = profile.frozen
  BY <1>3 DEF Relations
<1> QED
  BY <1>2, <1>3, <1>4, <1>5, <1>6 DEF AgesOK

\* The end of a vacuum, whatever it froze.
LEMMA SetFrozenIs ==
  ASSUME AgesOK, NEW new \in [Relations -> 0..xid], SetFrozen(new),
         xid' = xid, hold' = hold, table'.exists => table.exists
  PROVE  AgesOK'
<1>1. /\ xid \in Nat /\ new["system"] \in Nat /\ new["table"] \in Nat
      /\ new["system"] \in Int /\ new["table"] \in Int
  BY ServerAssumption DEF AgesOK, Relations
<1>2. frozen' = new /\ dbfrozen' = Min({new[r] : r \in {s \in Relations : s = "table" => table.exists}})
  BY DEF SetFrozen
<1>3. CASE table.exists
  <2>1. {new[r] : r \in {s \in Relations : s = "table" => table.exists}}
          = {new["system"], new["table"]}
    BY <1>3 DEF Relations
  <2>2. dbfrozen' = IF new["system"] <= new["table"] THEN new["system"] ELSE new["table"]
    BY <1>1, <1>2, <2>1, TwoNumbers
  <2> QED
    BY <1>1, <1>2, <2>2 DEF AgesOK
<1>4. CASE ~table.exists
  <2>1. {new[r] : r \in {s \in Relations : s = "table" => table.exists}}
          = {new["system"], new["system"]}
    BY <1>4 DEF Relations
  <2>2. dbfrozen' = new["system"]
    BY <1>1, <1>2, <2>1, TwoNumbers
  <2> QED
    BY <1>1, <1>2, <1>4, <2>2 DEF AgesOK
<1> QED
  BY <1>3, <1>4

\* A relation that is frozen is as young as the horizon allows, and never older than it was.
LEMMA FrozenAt ==
  ASSUME AgesOK, NEW r \in Relations
  PROVE  [frozen EXCEPT ![r] = Max({@, Horizon})] \in [Relations -> 0..xid]
<1>1. frozen \in [Relations -> 0..xid] /\ Horizon \in 0..xid /\ xid \in Nat
  BY HorizonIs, ServerAssumption DEF AgesOK
<1>2. frozen[r] \in 0..xid /\ frozen[r] \in Int /\ Horizon \in Int
  BY <1>1
<1>3. Max({frozen[r], Horizon}) \in 0..xid
  BY <1>1, <1>2, TwoNumbers
<1> QED
  BY <1>1, <1>3

LEMMA SameAges ==
  ASSUME AgesOK, UNCHANGED <<frozen, dbfrozen>>, table'.exists => table.exists,
         xid' \in Nat, xid <= xid', xid' <= MaxXid, hold' \in [Sources -> 0..xid']
  PROVE  AgesOK'
<1>1. xid \in Nat /\ StartXid <= xid /\ xid' \in StartXid..MaxXid
  BY ServerAssumption DEF AgesOK
<1>2. \A x \in 0..xid : x \in 0..xid'
  BY <1>1
<1>3. frozen' \in [Relations -> 0..xid']
  BY <1>2 DEF AgesOK
<1> QED
  BY <1>1, <1>3 DEF AgesOK

LEMMA AgesOKStep ==
  ASSUME TableOK, AgesOK, ServerMove
  PROVE  AgesOK'
<1>1. table'.exists => table.exists
  BY TableOKStep
<1>2. /\ xid \in Nat /\ xid <= MaxXid /\ hold \in [Sources -> 0..xid]
      /\ frozen \in [Relations -> 0..xid] /\ MaxXid \in Nat
  BY ServerAssumption DEF AgesOK
<1>3. CASE Tick \/ \E replace \in BOOLEAN : Change(replace)
  <2>1. /\ UNCHANGED <<frozen, dbfrozen, hold>> /\ xid' = xid + 1 /\ xid < MaxXid
    BY <1>3 DEF Tick, Change
  <2>2. hold \in [Sources -> 0..(xid + 1)]
    BY <1>2
  <2> QED
    BY <1>1, <1>2, <2>1, <2>2, SameAges
<1>4. CASE \E s \in Sources : Open(s, XminReportAge) \/ Close(s)
  <2>1. UNCHANGED <<frozen, dbfrozen, xid>> /\ hold' \in [Sources -> 0..xid]
    BY <1>2, <1>4 DEF Open, Close, Nobody
  <2> QED
    BY <1>1, <1>2, <2>1, SameAges
<1>5. CASE UNCHANGED <<frozen, dbfrozen, xid, hold>>
  BY <1>1, <1>2, <1>5, SameAges
<1>6. CASE FreezeTable /\ UNCHANGED <<profile, autovacuum, xid, hold>>
  <2>1. "table" \in Relations
    BY DEF Relations
  <2> QED
    BY <1>1, <1>6, <2>1, FrozenAt, SetFrozenIs DEF FreezeTable
<1>7. CASE FreezeSystem /\ UNCHANGED <<profile, autovacuum, xid, hold>>
  <2>1. "system" \in Relations
    BY DEF Relations
  <2> QED
    BY <1>1, <1>7, <2>1, FrozenAt, SetFrozenIs DEF FreezeSystem
<1>8. CASE VacuumTable /\ UNCHANGED <<profile, autovacuum, xid, hold>>
  BY <1>1, <1>2, <1>8, SetFrozenIs DEF VacuumTable
<1>9. CASE ServerStep(XminReportAge)
  <2>1. Autovacuum => VacuumTable /\ UNCHANGED <<profile, autovacuum, xid, hold>>
    BY DEF Autovacuum
  <2>2. \A r \in Relations : PreventWraparound(r) =>
          (FreezeTable \/ FreezeSystem) /\ UNCHANGED <<profile, autovacuum, xid, hold>>
    BY DEF PreventWraparound
  <2>3. Drop \/ DayPasses \/ Analyze => UNCHANGED <<frozen, dbfrozen, xid, hold>>
    BY DEF Drop, DayPasses, Analyze
  <2> QED
    BY <1>3, <1>4, <1>5, <1>6, <1>7, <1>8, <1>9, <2>1, <2>2, <2>3 DEF ServerStep
<1>10. CASE Statement
  <2>1. SetAutovacuumOn \/ AlterEnabled
           \/ (/\ table' \in {Rewritten, Reindexed}
               /\ UNCHANGED <<profile, frozen, dbfrozen, autovacuum, xid, hold>>)
        => UNCHANGED <<frozen, dbfrozen, xid, hold>>
    BY DEF SetAutovacuumOn, AlterEnabled
  <2> QED
    BY <1>4, <1>5, <1>6, <1>7, <1>8, <1>10, <2>1 DEF Statement
<1>11. CASE SessionEnds
  <2>1. \E s \in Sources : Close(s)
    BY <1>11 DEF SessionEnds, Sources
  <2> QED
    BY <1>4, <2>1
<1>12. CASE UNCHANGED serverVars
  BY <1>5, <1>12 DEF serverVars
<1> QED
  BY <1>3, <1>9, <1>10, <1>11, <1>12 DEF ServerMove

-----------------------------------------------------------------------------
(* What a report of the vacuum command says *)

LEMMA OtherKind == \A a, b, c, d : <<a, b>> = <<c, d>> => a = c /\ b = d
  OBVIOUS

LEMMA AgeFindingExists ==
  ASSUME NEW check, NEW subject, NEW age, NEW limit
  PROVE  (\E f \in AgeFindings(check, subject, age, limit) : TRUE) <=> 2 * age >= limit
  BY DEF AgeFindings

LEMMA ClusterFindingsSay ==
  ASSUME NEW s, NEW f \in ClusterFindings(s)
  PROVE  /\ f.check = "vacuum.disabled" /\ f.subject = <<"cluster", "cluster">>
         /\ f.remedy = "autovacuum_on"
  BY DEF ClusterFindings, Finding

LEMMA DatabaseFindingsSay ==
  ASSUME NEW read, NEW s
  PROVE  /\ \A f \in DatabaseFindings(read, s) :
              f.check = "vacuum.database_wraparound" /\ f.remedy = "find_relation"
         /\ \A d \in DOMAIN read :
              (\E f \in DatabaseFindings(read, s) : f.subject = <<d, "database">>)
                 <=> 2 * read[d] >= s.freeze_max_age
<1> DEFINE ages(d) == AgeFindings("vacuum.database_wraparound", <<d, "database">>,
                                  read[d], s.freeze_max_age)
<1>1. \A f : f \in DatabaseFindings(read, s) <=>
        \E d \in DOMAIN read : \E g \in ages(d) : f = [g EXCEPT !.remedy = "find_relation"]
  BY DEF DatabaseFindings
<1>2. \A d : \A g \in ages(d) :
        /\ g.check = "vacuum.database_wraparound" /\ g.subject = <<d, "database">>
        /\ DOMAIN g = {"check", "severity", "subject", "remedy"}
  BY AgeFindingsAre
<1>3. \A d : (\E g \in ages(d) : TRUE) <=> 2 * read[d] >= s.freeze_max_age
  BY AgeFindingExists
<1> HIDE DEF ages
<1>4. \A d : \A g \in ages(d) :
        LET f == [g EXCEPT !.remedy = "find_relation"]
        IN  /\ f.check = "vacuum.database_wraparound" /\ f.remedy = "find_relation"
            /\ f.subject = <<d, "database">>
  BY <1>2
<1>5. ASSUME NEW d \in DOMAIN read
      PROVE  (\E f \in DatabaseFindings(read, s) : f.subject = <<d, "database">>)
                <=> 2 * read[d] >= s.freeze_max_age
  <2>1. ASSUME NEW f \in DatabaseFindings(read, s), f.subject = <<d, "database">>
        PROVE  \E g \in ages(d) : TRUE
    <3>1. PICK e \in DOMAIN read : \E g \in ages(e) : f = [g EXCEPT !.remedy = "find_relation"]
      BY <1>1
    <3>2. f.subject = <<e, "database">>
      BY <1>4, <3>1
    <3>3. e = d
      BY <2>1, <3>2, OtherKind
    <3> QED
      BY <3>1, <3>3
  <2>2. ASSUME NEW g \in ages(d)
        PROVE  \E f \in DatabaseFindings(read, s) : f.subject = <<d, "database">>
    <3> DEFINE f == [g EXCEPT !.remedy = "find_relation"]
    <3>1. f.subject = <<d, "database">>
      BY <1>4, <2>2
    <3>2. f \in DatabaseFindings(read, s)
      BY <1>1, <2>2
    <3> QED
      BY <3>1, <3>2
  <2> QED
    BY <1>3, <2>1, <2>2
<1>6. ASSUME NEW f \in DatabaseFindings(read, s)
      PROVE  f.check = "vacuum.database_wraparound" /\ f.remedy = "find_relation"
  <2>1. PICK d \in DOMAIN read : \E g \in ages(d) : f = [g EXCEPT !.remedy = "find_relation"]
    BY <1>1, <1>6
  <2>2. PICK g \in ages(d) : f = [g EXCEPT !.remedy = "find_relation"]
    BY <2>1
  <2> QED
    BY <1>4, <2>2
<1> QED
  BY <1>5, <1>6

LEMMA RelationFindingsSay ==
  ASSUME NEW row, NEW s
  PROVE  /\ \A f \in RelationFindings(row, s) : f.subject = <<row.name, "table">>
         /\ (\E f \in RelationFindings(row, s) : f.check = "vacuum.wraparound")
              <=> 2 * row.xid_age >= s.freeze_max_age
         /\ (\E f \in RelationFindings(row, s) : f.check \in {"vacuum.skipped", "vacuum.backlog"})
              <=> ~row.system /\ OverThreshold(row.n_dead_tup, row.reltuples, row.options, s)
         /\ ~row.system /\ OverThreshold(row.n_dead_tup, row.reltuples, row.options, s)
              => DeadTupleFinding(row) \in RelationFindings(row, s)
         /\ \A f \in RelationFindings(row, s) : f.check # "vacuum.xmin_horizon"
<1> DEFINE old == AgeFindings("vacuum.wraparound", <<row.name, "table">>,
                              row.xid_age, s.freeze_max_age)
           multi == AgeFindings("vacuum.multixact_wraparound", <<row.name, "table">>,
                                row.mxid_age, s.multixact_freeze_max_age)
           over == ~row.system /\ OverThreshold(row.n_dead_tup, row.reltuples, row.options, s)
           dead == {DeadTupleFinding(r) :
                      r \in {x \in {row} : ~x.system
                               /\ OverThreshold(x.n_dead_tup, x.reltuples, x.options, s)}}
<1>1. RelationFindings(row, s) = (old \cup multi) \cup dead
  BY DEF RelationFindings
<1>2. \A f : f \in dead <=> over /\ f = DeadTupleFinding(row)
  OBVIOUS
<1>3. /\ DeadTupleFinding(row).check \in {"vacuum.skipped", "vacuum.backlog"}
      /\ DeadTupleFinding(row).subject = <<row.name, "table">>
  BY DEF DeadTupleFinding, Finding
<1>4. \A f \in old : f.check = "vacuum.wraparound" /\ f.subject = <<row.name, "table">>
  BY AgeFindingsAre
<1>5. \A f \in multi : f.check = "vacuum.multixact_wraparound" /\ f.subject = <<row.name, "table">>
  BY AgeFindingsAre
<1>6. (\E f \in old : TRUE) <=> 2 * row.xid_age >= s.freeze_max_age
  BY AgeFindingExists
<1> HIDE DEF old, multi, dead
<1>7. \A f \in RelationFindings(row, s) : f.subject = <<row.name, "table">>
  BY <1>1, <1>2, <1>3, <1>4, <1>5
<1>8. (\E f \in RelationFindings(row, s) : f.check = "vacuum.wraparound")
        <=> \E f \in old : TRUE
  BY <1>1, <1>2, <1>3, <1>4, <1>5
<1>9. (\E f \in RelationFindings(row, s) : f.check \in {"vacuum.skipped", "vacuum.backlog"}) <=> over
  BY <1>1, <1>2, <1>3, <1>4, <1>5
<1>10. over => DeadTupleFinding(row) \in RelationFindings(row, s)
  BY <1>1, <1>2
<1>11. \A f \in RelationFindings(row, s) : f.check # "vacuum.xmin_horizon"
  BY <1>1, <1>2, <1>3, <1>4, <1>5
<1> QED
  BY <1>6, <1>7, <1>8, <1>9, <1>10, <1>11

LEMMA XminFindingsSay ==
  ASSUME NEW read
  PROVE  /\ \A f \in XminFindings(read) :
              f.check = "vacuum.xmin_horizon" /\ \E h \in DOMAIN read : f.subject = <<h, "holder">>
         /\ \A h \in DOMAIN read : read[h] >= XminReportAge =>
              \E f \in XminFindings(read) : f.subject = <<h, "holder">>
<1> DEFINE of(h) == Finding("vacuum.xmin_horizon", XminSeverity(read[h]), <<h, "holder">>, XminRemedy(h))
<1>1. XminFindings(read) = {of(h) : h \in {g \in DOMAIN read : read[g] >= XminReportAge}}
  BY DEF XminFindings
<1>2. \A h : of(h).check = "vacuum.xmin_horizon" /\ of(h).subject = <<h, "holder">>
  BY DEF Finding
<1> HIDE DEF of
<1>3. ASSUME NEW f \in XminFindings(read)
      PROVE  f.check = "vacuum.xmin_horizon" /\ \E h \in DOMAIN read : f.subject = <<h, "holder">>
  <2>1. PICK h \in DOMAIN read : f = of(h)
    BY <1>1
  <2> QED
    BY <1>2, <2>1
<1>4. ASSUME NEW h \in DOMAIN read, read[h] >= XminReportAge
      PROVE  \E f \in XminFindings(read) : f.subject = <<h, "holder">>
  <2>1. of(h) \in XminFindings(read)
    BY <1>1, <1>4
  <2> QED
    BY <1>2, <2>1
<1> QED
  BY <1>3, <1>4

-----------------------------------------------------------------------------
(* The properties of the vacuum command *)

VacuumInv == TableOK /\ AgesOK /\ FindingsOK /\ PhaseOK /\ VacuumCurrent

LEMMA VacuumInvariant == Spec => []VacuumInv
<1>1. Init => VacuumInv
  <2>1. Init => FindingsOK
    BY DEF Init, FindingsOK
  <2> QED
    BY <2>1, TableOKInit, AgesOKInit, PhaseOKInit, VacuumCurrentInit DEF VacuumInv
<1>2. VacuumInv /\ [Next]_vars => VacuumInv'
  BY NextMovesServer, TableOKStep, AgesOKStep, FindingsOKStep, PhaseOKStep, VacuumCurrentStep
  DEF VacuumInv
<1> QED
  BY <1>1, <1>2, PTL DEF Spec

\* The cluster as it is read, field by field.
LEMMA NowIs ==
  /\ Now.freeze_max_age = Cluster.freeze_max_age /\ Now.freeze_max_age \in Nat
  /\ Now.vacuum_threshold = Cluster.vacuum_threshold /\ Now.vacuum_threshold \in Nat
  /\ Now.vacuum_scale_percent = Cluster.vacuum_scale_percent /\ Now.vacuum_scale_percent \in Nat
  /\ Now.autovacuum_on = autovacuum
  BY ServerAssumption DEF Now

LEMMA OfRelationsIs ==
  ASSUME table.exists
  PROVE  OfRelations = RelationFindings(RelationRow("table"), Now)
                         \cup RelationFindings(RelationRow("system"), Now)
  BY DEF OfRelations, Relations

\* What the printed report consists of.
LEMMA ReportIs ==
  ASSUME VacuumInv, Current({"vacuum"})
  PROVE  findings = OfCluster \cup OfDatabases \cup OfRelations \cup OfHolders
  BY DEF VacuumInv, VacuumCurrent, Current

\* A quiet report names this database (vacuum.py:199-215) exactly if it also names one
\* of its relations for the same reason (vacuum.py:285-311).
THEOREM OwnDatabase == Spec => []OwnDatabaseExplained
<1>1. ASSUME VacuumInv
      PROVE  OwnDatabaseExplained
  <2> SUFFICES ASSUME Current({"vacuum"}), table.exists
               PROVE  (\E f \in findings : f.subject = <<"own", "database">>)
                         <=> \E f \in findings : f.check = "vacuum.wraparound"
    BY DEF OwnDatabaseExplained, Says
  <2> DEFINE limit == Cluster.freeze_max_age
  <2>1. findings = OfCluster \cup OfDatabases \cup OfRelations \cup OfHolders
    BY <1>1, ReportIs
  <2>2. OfRelations = RelationFindings(RelationRow("table"), Now)
                        \cup RelationFindings(RelationRow("system"), Now)
    BY OfRelationsIs
  <2>3. /\ RelationRow("table").xid_age = xid - frozen["table"]
        /\ RelationRow("system").xid_age = xid - frozen["system"]
        /\ RelationRow("table").name = "table" /\ RelationRow("system").name = "system"
    BY DEF RelationRow
  <2>4. (\E f \in OfRelations : f.check = "vacuum.wraparound")
          <=> 2 * (xid - frozen["table"]) >= limit \/ 2 * (xid - frozen["system"]) >= limit
    BY <2>2, <2>3, RelationFindingsSay, NowIs
  <2>5. (\E f \in OfDatabases : f.subject = <<"own", "database">>) <=> 2 * (xid - dbfrozen) >= limit
    <3> DEFINE read == [own |-> xid - dbfrozen, other |-> xid - OtherDatabaseFrozen]
    <3>1. "own" \in DOMAIN read /\ read["own"] = xid - dbfrozen /\ OfDatabases = DatabaseFindings(read, Now)
      BY DEF OfDatabases
    <3> HIDE DEF read
    <3>2. (\E f \in DatabaseFindings(read, Now) : f.subject = <<"own", "database">>)
            <=> 2 * read["own"] >= Now.freeze_max_age
      BY <3>1, DatabaseFindingsSay, Zenon
    <3> QED
      BY <3>1, <3>2, NowIs
  <2>6. 2 * (xid - dbfrozen) >= limit
          <=> 2 * (xid - frozen["table"]) >= limit \/ 2 * (xid - frozen["system"]) >= limit
    <3>1. /\ xid \in Int /\ dbfrozen \in Int /\ limit \in Int
          /\ frozen["table"] \in Int /\ frozen["system"] \in Int
          /\ dbfrozen <= frozen["system"] /\ dbfrozen <= frozen["table"]
          /\ dbfrozen \in {frozen["system"], frozen["table"]}
      BY <1>1, ServerAssumption DEF VacuumInv, AgesOK, Relations
    <3> QED
      BY <3>1
  <2>7. \A f \in OfRelations \cup OfHolders \cup OfCluster : f.subject # <<"own", "database">>
    <3>1. \A f \in OfRelations : \E name : f.subject = <<name, "table">>
      BY <2>2, RelationFindingsSay
    <3>2. \A f \in OfHolders : \E name : f.subject = <<name, "holder">>
      BY XminFindingsSay DEF OfHolders
    <3>3. \A f \in OfCluster : \E name : f.subject = <<name, "cluster">>
      BY ClusterFindingsSay DEF OfCluster
    <3>4. "table" # "database" /\ "holder" # "database" /\ "cluster" # "database"
      OBVIOUS
    <3> QED
      BY <3>1, <3>2, <3>3, <3>4, OtherKind
  <2>8. \A f \in OfDatabases \cup OfHolders \cup OfCluster : f.check # "vacuum.wraparound"
    <3>1. \A f \in OfDatabases : f.check = "vacuum.database_wraparound"
      BY DatabaseFindingsSay DEF OfDatabases
    <3>2. \A f \in OfHolders : f.check = "vacuum.xmin_horizon"
      BY XminFindingsSay DEF OfHolders
    <3>3. \A f \in OfCluster : f.check = "vacuum.disabled"
      BY ClusterFindingsSay DEF OfCluster
    <3> QED
      BY <3>1, <3>2, <3>3
  <2> QED
    BY <2>1, <2>4, <2>5, <2>6, <2>7, <2>8
<1> QED
  BY <1>1, VacuumInvariant, PTL

\* Beside the advice to VACUUM a table whose dead rows are still needed, whoever needs
\* them is named (vacuum.py:237-255) once old enough, unless it is a session between
\* two statements, which the query does not see.
THEOREM HorizonNamed == Spec => []HorizonIsNamed
<1>1. ASSUME VacuumInv
      PROVE  HorizonIsNamed
  <2> SUFFICES ASSUME Current({"vacuum"}),
                      NEW s \in Holders, s # "writer", ~(xid - hold[s] < XminReportAge)
               PROVE  Says("vacuum.xmin_horizon")
    BY DEF HorizonIsNamed
  <2>1. OfHolders \subseteq findings
    BY <1>1, ReportIs
  <2>2. xid - hold[s] >= XminReportAge
    <3>1. xid \in Int /\ hold[s] \in Int /\ XminReportAge \in Int
      BY <1>1, ServerAssumption, ThresholdsAssumption DEF VacuumInv, AgesOK, Holders
    <3> QED
      BY <3>1
  <2>3. s \in DOMAIN HoldersRead /\ HoldersRead[s] = xid - hold[s]
    BY DEF HoldersRead
  <2>4. \E f \in XminFindings(HoldersRead) : f.check = "vacuum.xmin_horizon"
    BY <2>2, <2>3, XminFindingsSay
  <2> QED
    BY <2>1, <2>4 DEF OfHolders, Says
<1> QED
  BY <1>1, VacuumInvariant, PTL

\* The numbers of the table's row are the server's.
LEMMA TableRowIs ==
  ASSUME TableOK
  PROVE  LET row == RelationRow("table")
         IN  /\ ~row.system /\ row.n_dead_tup = table.n_dead * Batch
             /\ row.options.enabled = table.enabled
             /\ 100 * row.n_dead_tup = 100 * Batch * table.n_dead
             /\ row.n_dead_tup = Batch * table.n_dead /\ row.n_dead_tup \in Nat
             /\ DeadTupleThreshold(row.reltuples, row.options, Now) = AutovacuumThreshold
             /\ AutovacuumThreshold \in Int
<1> DEFINE tuples == Max({0, table.seen.tuples * Batch})
           o == [profile.options EXCEPT !.enabled = table.enabled]
<1>1. /\ profile.options \in [threshold : Int, scale : Int, enabled : Spellings]
      /\ Batch \in Nat /\ table \in Tables /\ table.n_dead \in Nat
  BY ServerAssumption DEF TableOK, Sound, Tables
<1>2. /\ RelationRow("table").system = FALSE /\ RelationRow("table").options = o
      /\ RelationRow("table").n_dead_tup = table.n_dead * Batch
      /\ RelationRow("table").reltuples = tuples
  BY DEF RelationRow
<1>3. /\ o.threshold = profile.options.threshold /\ o.scale = profile.options.scale
      /\ o.enabled = table.enabled
      /\ profile.options.threshold \in Int /\ profile.options.scale \in Int
  BY <1>1
<1>4. tuples \in Int
  <2>1. table.seen \in Statistics
    BY <1>1 DEF Tables
  <2>2. table.seen.tuples \in Int
    BY <2>1 DEF Statistics
  <2>3. table.seen.tuples * Batch \in Int /\ 0 \in Int
    BY <1>1, <2>2
  <2> QED
    BY <2>3, TwoNumbers
<1> HIDE DEF o, tuples
<1>5. /\ Option(o.threshold, Now.vacuum_threshold)
           = OwnOrCluster(profile.options.threshold, Cluster.vacuum_threshold)
      /\ Option(o.scale, Now.vacuum_scale_percent)
           = OwnOrCluster(profile.options.scale, Cluster.vacuum_scale_percent)
  BY <1>3, NowIs DEF Option, OwnOrCluster, Unset
<1>6. DeadTupleThreshold(tuples, o, Now) = AutovacuumThreshold
  BY <1>5 DEF DeadTupleThreshold, AutovacuumThreshold, tuples
<1>7. AutovacuumThreshold \in Int
  <2>1. OwnOrCluster(profile.options.threshold, Cluster.vacuum_threshold) \in Int
    BY <1>3, NowIs DEF OwnOrCluster
  <2>2. OwnOrCluster(profile.options.scale, Cluster.vacuum_scale_percent) \in Int
    BY <1>3, NowIs DEF OwnOrCluster
  <2>3. OwnOrCluster(profile.options.scale, Cluster.vacuum_scale_percent) * tuples \in Int
    BY <1>4, <2>2
  <2> QED
    BY <2>1, <2>3 DEF AutovacuumThreshold, tuples
<1>8. /\ 100 * (table.n_dead * Batch) = 100 * Batch * table.n_dead
      /\ table.n_dead * Batch = Batch * table.n_dead /\ table.n_dead * Batch \in Nat
  BY <1>1
<1> QED
  BY <1>2, <1>3, <1>6, <1>7, <1>8

\* Which tables with many dead rows are named.
LEMMA NamedIffOver ==
  ASSUME VacuumInv, Current({"vacuum"}), table.exists, Batch * table.n_dead >= MinDeadTuples
  PROVE  /\ (\E f \in findings : f.check \in {"vacuum.skipped", "vacuum.backlog"})
               <=> 100 * Batch * table.n_dead >= AutovacuumThreshold
         /\ 100 * Batch * table.n_dead >= AutovacuumThreshold
               => DeadTupleFinding(RelationRow("table")) \in findings
<1> DEFINE row == RelationRow("table")
           over == OverThreshold(row.n_dead_tup, row.reltuples, row.options, Now)
<1>1. findings = OfCluster \cup OfDatabases \cup OfRelations \cup OfHolders
  BY ReportIs
<1>2. OfRelations = RelationFindings(row, Now) \cup RelationFindings(RelationRow("system"), Now)
  BY OfRelationsIs
<1>3. over <=> 100 * Batch * table.n_dead >= AutovacuumThreshold
  BY TableRowIs DEF VacuumInv, OverThreshold
<1>4. ~row.system /\ RelationRow("system").system
  BY DEF RelationRow
<1>5. (\E f \in OfRelations : f.check \in {"vacuum.skipped", "vacuum.backlog"}) <=> over
  BY <1>2, <1>4, RelationFindingsSay
<1>6. over => DeadTupleFinding(row) \in OfRelations
  BY <1>2, <1>4, RelationFindingsSay
<1>7. \A f \in OfDatabases \cup OfHolders \cup OfCluster :
        f.check \notin {"vacuum.skipped", "vacuum.backlog"}
  <2>1. \A f \in OfDatabases : f.check = "vacuum.database_wraparound"
    BY DatabaseFindingsSay DEF OfDatabases
  <2>2. \A f \in OfHolders : f.check = "vacuum.xmin_horizon"
    BY XminFindingsSay DEF OfHolders
  <2>3. \A f \in OfCluster : f.check = "vacuum.disabled"
    BY ClusterFindingsSay DEF OfCluster
  <2> QED
    BY <2>1, <2>2, <2>3
<1> HIDE DEF over
<1> QED
  BY <1>1, <1>3, <1>5, <1>6, <1>7

\* dead_tuple_threshold (vacuum.py:138) is autovacuum's own: the report names the tables
\* autovacuum is due for, and those that are just at the threshold.
THEOREM Backlog == Spec => []BacklogIsAutovacuums
<1>1. ASSUME VacuumInv
      PROVE  BacklogIsAutovacuums
  <2> SUFFICES ASSUME Current({"vacuum"}), table.exists, Batch * table.n_dead >= MinDeadTuples
               PROVE  (Says("vacuum.skipped") \/ Says("vacuum.backlog"))
                        <=> (DueForAutovacuum
                               \/ 100 * Batch * table.n_dead = AutovacuumThreshold)
    BY DEF BacklogIsAutovacuums
  <2>1. (Says("vacuum.skipped") \/ Says("vacuum.backlog"))
          <=> \E f \in findings : f.check \in {"vacuum.skipped", "vacuum.backlog"}
    BY DEF Says
  <2>2. AutovacuumThreshold \in Int /\ 100 * Batch * table.n_dead \in Int
    <3>1. Batch \in Nat /\ table.n_dead \in Nat
      BY <1>1, ServerAssumption DEF VacuumInv, TableOK, Sound, Tables
    <3>2. 100 * Batch * table.n_dead \in Int
      BY <3>1
    <3> QED
      BY <1>1, <3>2, TableRowIs DEF VacuumInv
  <2>3. 100 * Batch * table.n_dead >= AutovacuumThreshold
          <=> DueForAutovacuum \/ 100 * Batch * table.n_dead = AutovacuumThreshold
    BY <2>2 DEF DueForAutovacuum
  <2> QED
    BY <1>1, <2>1, <2>3, NamedIffOver
<1> QED
  BY <1>1, VacuumInvariant, PTL

\* Where autovacuum is due and will not come, the report has the statement that makes
\* it come (vacuum.py:338-372).
THEOREM Untended == Spec => []UntendedIsTold
<1>1. ASSUME VacuumInv
      PROVE  UntendedIsTold
  <2> SUFFICES ASSUME Current({"vacuum"}), table.exists, ~TendedByAutovacuum, DueForAutovacuum,
                      Batch * table.n_dead >= MinDeadTuples, ~(autovacuum /\ table.enabled = "off")
               PROVE  \E f \in findings : f.remedy \in {"enable_autovacuum", "autovacuum_on"}
    BY DEF UntendedIsTold
  <2>1. CASE ~autovacuum
    <3>1. OfCluster \subseteq findings
      BY <1>1, ReportIs
    <3>2. Finding("vacuum.disabled", Critical, <<"cluster", "cluster">>, "autovacuum_on") \in OfCluster
      BY <2>1, NowIs DEF OfCluster, ClusterFindings
    <3>3. Finding("vacuum.disabled", Critical, <<"cluster", "cluster">>, "autovacuum_on").remedy
            = "autovacuum_on"
      BY DEF Finding
    <3> QED
      BY <3>1, <3>2, <3>3
  <2>2. CASE autovacuum
    <3>1. table.enabled = "false"
      BY <2>2 DEF TendedByAutovacuum
    <3>2. RelationRow("table").options.enabled = "false"
      BY <1>1, <3>1, TableRowIs DEF VacuumInv
    <3>3. DeadTupleFinding(RelationRow("table")).remedy = "enable_autovacuum"
      BY <3>2 DEF DeadTupleFinding, Disabled, Finding
    <3>4. 100 * Batch * table.n_dead >= AutovacuumThreshold
      <4>1. Batch \in Nat /\ table.n_dead \in Nat
        BY <1>1, ServerAssumption DEF VacuumInv, TableOK, Sound, Tables
      <4>2. 100 * Batch * table.n_dead \in Int
        BY <4>1
      <4>3. AutovacuumThreshold \in Int
        BY <1>1, TableRowIs DEF VacuumInv
      <4> QED
        BY <4>2, <4>3 DEF DueForAutovacuum
    <3> QED
      BY <1>1, <3>3, <3>4, NamedIffOver
  <2> QED
    BY <2>1, <2>2
<1> QED
  BY <1>1, VacuumInvariant, PTL

-----------------------------------------------------------------------------
(* The arithmetic of the estimates *)

\* CeilDiv is the least number of pages that suffices.
LEMMA CeilDivLeast ==
  ASSUME NEW a \in Nat, NEW k \in Nat \ {0}
  PROVE  /\ CeilDiv(a, k) \in Nat
         /\ \A c \in Nat : a <= k * c => CeilDiv(a, k) <= c
<1> DEFINE q == CeilDiv(a, k)
<1>1. a + k - 1 \in Nat
  OBVIOUS
<1>2. q \in Nat /\ k * q <= a + k - 1
  BY <1>1, QuotientIs DEF CeilDiv
<1> HIDE DEF q
<1>3. ASSUME NEW c \in Nat, a <= k * c
      PROVE  q <= c
  <2>1. CASE c + 1 <= q
    <3>1. k * (c + 1) <= k * q
      BY <1>2, <2>1, TimesMonotone
    <3>2. k * (c + 1) = k * c + k /\ k * c \in Nat
      BY <1>3
    <3>3. k * q \in Nat
      BY <1>2
    <3> QED
      BY <1>2, <1>3, <3>1, <3>2, <3>3
  <2> QED
    BY <1>2, <2>1
<1> QED
  BY <1>2, <1>3 DEF q

\* The sum of the queries is the alignment of the server.
LEMMA PaddedIs ==
  ASSUME NEW n \in Nat
  PROVE  Padded(n) = Aligned(n) /\ \E m \in Nat : Padded(n) = 8 * m
<1>1. PICK q \in Nat, r \in Nat : n = 8 * q + r /\ n % 8 = r /\ r < 8
  <2>1. \E q \in Nat : \E r \in Nat : n = 8 * q + r /\ n % 8 = r /\ r < 8
    OBVIOUS
  <2> QED
    BY <2>1
<1>2. Padded(n) = n + 8 - (IF r = 0 THEN 8 ELSE r)
  BY <1>1 DEF Padded, MaxAlign
<1>3. (n + 7) \div 8 \in Nat /\ 8 * ((n + 7) \div 8) <= n + 7 /\ n + 7 < 8 * ((n + 7) \div 8) + 8
  OBVIOUS
<1> DEFINE a == (n + 7) \div 8
<1>4. a \in Nat /\ 8 * a <= n + 7 /\ n + 7 < 8 * a + 8 /\ Aligned(n) = 8 * a
  BY <1>3 DEF Aligned
<1> HIDE DEF a
<1>5. CASE r = 0
  <2>1. Padded(n) = 8 * q /\ a = q
    BY <1>1, <1>2, <1>4, <1>5
  <2> QED
    BY <1>1, <1>4, <2>1
<1>6. CASE r # 0
  <2>1. Padded(n) = 8 * (q + 1) /\ a = q + 1 /\ q + 1 \in Nat
    BY <1>1, <1>2, <1>4, <1>6
  <2> QED
    BY <1>4, <2>1
<1> QED
  BY <1>5, <1>6

\* Rows are a multiple of four bytes long, by their line pointer and the alignment.
LEMMA RowSizes ==
  ASSUME NEW columns \in Nat, NEW nullable \in BOOLEAN, NEW width \in Nat
  PROVE  /\ TupleSize(columns, nullable, width) \in Nat \ {0}
         /\ \E m \in Nat : TupleSize(columns, nullable, width) = 4 * m
         /\ IndexTupleSize(nullable, width) \in Nat \ {0}
         /\ \E m \in Nat : IndexTupleSize(nullable, width) = 4 * m
<1> DEFINE header == 23 + (IF nullable THEN (7 + columns) \div 8 ELSE 0)
           top == IF nullable THEN 6 ELSE 2
<1>1. header \in Nat
  <2>1. (7 + columns) \div 8 \in Nat
    OBVIOUS
  <2> QED
    BY <2>1
<1>2. top \in Nat
  OBVIOUS
<1>3. /\ TupleSize(columns, nullable, width) = 4 + Padded(header) + Padded(width)
      /\ IndexTupleSize(nullable, width) = 4 + Padded(top) + Padded(width)
  BY DEF TupleSize, IndexTupleSize
<1> HIDE DEF header, top
<1>4. PICK h \in Nat, w \in Nat, t \in Nat :
        Padded(header) = 8 * h /\ Padded(width) = 8 * w /\ Padded(top) = 8 * t
  BY <1>1, <1>2, PaddedIs
<1> DEFINE a == 1 + 2 * h + 2 * w  b == 1 + 2 * t + 2 * w
<1>5. TupleSize(columns, nullable, width) = 4 * a /\ IndexTupleSize(nullable, width) = 4 * b
  BY <1>3, <1>4
<1>6. a \in Nat /\ a # 0 /\ b \in Nat /\ b # 0
  OBVIOUS
<1> HIDE DEF a, b
<1>7. 4 * a \in Nat \ {0} /\ 4 * b \in Nat \ {0}
  BY <1>6
<1>8. \E m \in Nat : TupleSize(columns, nullable, width) = 4 * m
  BY <1>5, <1>6
<1>9. \E m \in Nat : IndexTupleSize(nullable, width) = 4 * m
  BY <1>5, <1>6
<1> QED
  BY <1>5, <1>7, <1>8, <1>9

\* What a fillfactor leaves of a page of so many bytes, rounded in its favour, holds no
\* more rows than the share the estimates reckon with.
LEMMA RoomIsShare ==
  ASSUME NEW page \in {8168, 8152}, NEW fillfactor \in Nat, 10 <= fillfactor, fillfactor <= 100,
         NEW m \in Nat, 4 * m <= page - (8192 * (100 - fillfactor)) \div 100
  PROVE  100 * (4 * m) <= page * fillfactor
<1> DEFINE kept == 8192 * (100 - fillfactor)
           q == kept \div 100
<1>1. kept \in Nat /\ q \in Nat /\ 100 * q <= kept /\ kept < 100 * q + 100
  <2>1. kept \in Nat
    OBVIOUS
  <2> QED
    BY <2>1, QuotientIs
<1>2. 4 * m <= page - q
  OBVIOUS
<1>3. kept = 819200 - 8192 * fillfactor
  OBVIOUS
<1> HIDE DEF kept, q
<1>4. CASE fillfactor <= 95
  BY <1>1, <1>2, <1>3, <1>4
<1>5. CASE fillfactor \in {96, 97, 98, 99, 100}
  BY <1>1, <1>2, <1>3, <1>5
<1> QED
  BY <1>4, <1>5

LEMMA EstimatesAre ==
  ASSUME NEW n \in Nat, NEW size \in Nat \ {0}, NEW fillfactor \in Nat \ {0}
  PROVE  /\ EstimatedTablePages(n, size, fillfactor) \in Nat
         /\ EstimatedIndexPages(n, size, fillfactor) \in Nat
<1>1. EstimatedTablePages(n, size, fillfactor) \in Nat
  <2> DEFINE a == n * size * 100  k == (BlockSize - PageHeader) * fillfactor
  <2>1. a \in Nat
    <3>1. n * size \in Nat
      OBVIOUS
    <3> QED
      BY <3>1
  <2>2. k \in Nat \ {0}
    BY DEF BlockSize, PageHeader
  <2>3. EstimatedTablePages(n, size, fillfactor) = CeilDiv(a, k)
    BY DEF EstimatedTablePages
  <2> HIDE DEF a, k
  <2> QED
    BY <2>1, <2>2, <2>3, CeilDivLeast
<1>2. EstimatedIndexPages(n, size, fillfactor) \in Nat
  <2> DEFINE a == (BlockSize - BtreeSpecial - PageHeader) * fillfactor  k == 100 * size
             perPage == a \div k
  <2>1. a \in Nat /\ k \in Nat \ {0}
    BY DEF BlockSize, BtreeSpecial, PageHeader
  <2>2. perPage \in Nat
    BY <2>1, QuotientIs
  <2>3. EstimatedIndexPages(n, size, fillfactor) = IF perPage = 0 THEN 0 ELSE 1 + CeilDiv(n, perPage)
    BY DEF EstimatedIndexPages
  <2> HIDE DEF perPage
  <2>4. perPage # 0 => CeilDiv(n, perPage) \in Nat
    BY <2>2, CeilDivLeast
  <2> QED
    BY <2>3, <2>4
<1> QED
  BY <1>1, <1>2

\* What the queries compute from the widths is what the server stores.
LEMMA SizesAreTheServers ==
  ASSUME NEW columns \in Nat, NEW nullable \in BOOLEAN, NEW width \in Nat
  PROVE  /\ TupleSize(columns, nullable, width)
              = 4 + Aligned(23 + (IF nullable THEN (columns + 7) \div 8 ELSE 0)) + Aligned(width)
         /\ IndexTupleSize(nullable, width) = 4 + Aligned(8) + Aligned(width)
<1> DEFINE header == 23 + (IF nullable THEN (columns + 7) \div 8 ELSE 0)
<1>1. header \in Nat
  <2>1. (columns + 7) \div 8 \in Nat
    OBVIOUS
  <2> QED
    BY <2>1
<1>2. header = 23 + (IF nullable THEN (7 + columns) \div 8 ELSE 0)
  <2>1. 7 + columns = columns + 7
    OBVIOUS
  <2> QED
    BY <2>1
<1>3. TupleSize(columns, nullable, width) = 4 + Padded(header) + Padded(width)
  BY <1>2 DEF TupleSize
<1> HIDE DEF header
<1>4. Padded(header) = Aligned(header) /\ Padded(width) = Aligned(width)
  BY <1>1, PaddedIs
<1>5. Padded(IF nullable THEN 6 ELSE 2) = Aligned(8)
  BY DEF Padded, Aligned, MaxAlign
<1>6. TupleSize(columns, nullable, width) = 4 + Aligned(header) + Aligned(width)
  BY <1>3, <1>4
<1>7. IndexTupleSize(nullable, width) = 4 + Aligned(8) + Aligned(width)
  BY <1>4, <1>5 DEF IndexTupleSize
<1> QED
  BY <1>6, <1>7 DEF header

\* Padding never makes a row shorter.
LEMMA AlignedGrows ==
  ASSUME NEW a \in Nat, NEW b \in Nat
  PROVE  Aligned(a) <= Aligned(a + b)
<1> DEFINE q == (a + 7) \div 8  r == (a + b + 7) \div 8
<1>1. q \in Nat /\ 8 * q <= a + 7
  BY QuotientIs
<1>2. r \in Nat /\ a + b + 7 < 8 * r + 8
  <2>1. a + b + 7 \in Nat
    OBVIOUS
  <2> QED
    BY <2>1, QuotientIs
<1>3. Aligned(a) = 8 * q /\ Aligned(a + b) = 8 * r
  BY DEF Aligned
<1> HIDE DEF q, r
<1>4. q <= r
  BY <1>1, <1>2
<1> QED
  BY <1>1, <1>2, <1>3, <1>4

\* The estimates take for the size of a row what it would be without its padding.
LEMMA ProfileSizes ==
  ASSUME profile \in Profiles
  PROVE  /\ TupleSize(profile.columns, profile.nullable, profile.width) = RowSize(profile, 0)
         /\ IndexTupleSize(profile.nullable, profile.iwidth) = EntrySize(profile, 0)
         /\ profile.tuple \in Nat \ {0} /\ (\E m \in Nat : profile.tuple = 4 * m)
         /\ profile.ituple \in Nat \ {0} /\ (\E m \in Nat : profile.ituple = 4 * m)
         /\ RowSize(profile, 0) \in Nat \ {0} /\ (\E m \in Nat : RowSize(profile, 0) = 4 * m)
         /\ EntrySize(profile, 0) \in Nat \ {0} /\ (\E m \in Nat : EntrySize(profile, 0) = 4 * m)
         /\ RowSize(profile, 0) <= profile.tuple /\ EntrySize(profile, 0) <= profile.ituple
         /\ profile.fillfactor \in Nat \ {0} /\ profile.fillfactor >= 10 /\ profile.fillfactor <= 100
         /\ profile.ifillfactor \in Nat \ {0} /\ profile.ifillfactor >= 10 /\ profile.ifillfactor <= 100
<1> DEFINE c == profile.columns  b == profile.nullable  w == profile.width  i == profile.iwidth
           x == profile.padding  y == profile.ipadding
<1>1. /\ c \in Nat /\ b \in BOOLEAN /\ w \in Nat /\ i \in Nat /\ x \in Nat /\ y \in Nat
      /\ profile.tuple = RowSize(profile, x) /\ profile.ituple = EntrySize(profile, y)
  BY WidthsAssumption
<1>2. \A d : /\ RowSize(profile, d) = 4 + Aligned(23 + (IF b THEN (c + 7) \div 8 ELSE 0)) + Aligned(w + d)
              /\ EntrySize(profile, d) = 4 + Aligned(8) + Aligned(i + d)
  BY DEF RowSize, EntrySize
<1> HIDE DEF c, b, w, i, x, y
<1>3. \A d \in Nat :
        /\ RowSize(profile, d) = TupleSize(c, b, w + d)
        /\ EntrySize(profile, d) = IndexTupleSize(b, i + d)
  <2> SUFFICES ASSUME NEW d \in Nat
               PROVE  /\ RowSize(profile, d) = TupleSize(c, b, w + d)
                      /\ EntrySize(profile, d) = IndexTupleSize(b, i + d)
    OBVIOUS
  <2>1. w + d \in Nat /\ i + d \in Nat
    BY <1>1
  <2>2. \A v \in Nat :
          TupleSize(c, b, v) = 4 + Aligned(23 + (IF b THEN (c + 7) \div 8 ELSE 0)) + Aligned(v)
    BY <1>1, SizesAreTheServers
  <2>3. IndexTupleSize(b, i + d) = 4 + Aligned(8) + Aligned(i + d)
    BY <1>1, <2>1, SizesAreTheServers, Zenon
  <2> QED
    BY <1>2, <2>1, <2>2, <2>3, Zenon
<1>4. \A d \in Nat :
        /\ RowSize(profile, d) \in Nat \ {0} /\ (\E m \in Nat : RowSize(profile, d) = 4 * m)
        /\ EntrySize(profile, d) \in Nat \ {0} /\ (\E m \in Nat : EntrySize(profile, d) = 4 * m)
  <2> SUFFICES ASSUME NEW d \in Nat
               PROVE  /\ RowSize(profile, d) \in Nat \ {0}
                      /\ \E m \in Nat : RowSize(profile, d) = 4 * m
                      /\ EntrySize(profile, d) \in Nat \ {0}
                      /\ \E m \in Nat : EntrySize(profile, d) = 4 * m
    OBVIOUS
  <2>1. w + d \in Nat /\ i + d \in Nat
    BY <1>1
  <2>2. \A v \in Nat : /\ TupleSize(c, b, v) \in Nat \ {0}
                       /\ \E m \in Nat : TupleSize(c, b, v) = 4 * m
                       /\ IndexTupleSize(b, v) \in Nat \ {0}
                       /\ \E m \in Nat : IndexTupleSize(b, v) = 4 * m
    BY <1>1, RowSizes, Zenon
  <2> QED
    BY <1>3, <2>1, <2>2, Zenon
<1>5. w + 0 = w /\ i + 0 = i /\ 0 \in Nat
  BY <1>1
<1>6. /\ TupleSize(c, b, w) = RowSize(profile, 0)
      /\ IndexTupleSize(b, i) = EntrySize(profile, 0)
  BY <1>3, <1>5, Zenon
<1>7. RowSize(profile, 0) <= RowSize(profile, x) /\ EntrySize(profile, 0) <= EntrySize(profile, y)
  <2> DEFINE header == Aligned(23 + (IF b THEN (c + 7) \div 8 ELSE 0))
             top == Aligned(8)
  <2>1. /\ RowSize(profile, 0) = 4 + header + Aligned(w)
        /\ RowSize(profile, x) = 4 + header + Aligned(w + x)
        /\ EntrySize(profile, 0) = 4 + top + Aligned(i)
        /\ EntrySize(profile, y) = 4 + top + Aligned(i + y)
    BY <1>2, <1>5
  <2>2. Aligned(w) <= Aligned(w + x) /\ Aligned(i) <= Aligned(i + y)
    BY <1>1, AlignedGrows
  <2>3. header \in Int /\ top \in Int
    <3>1. (c + 7) \div 8 \in Int
      BY <1>1
    <3> DEFINE size == 23 + (IF b THEN (c + 7) \div 8 ELSE 0)
    <3>2. size \in Int /\ header = 8 * ((size + 7) \div 8)
      BY <3>1 DEF Aligned
    <3> HIDE DEF size, header
    <3>3. (size + 7) \div 8 \in Int
      BY <3>2
    <3> QED
      BY <3>2, <3>3 DEF Aligned
  <2>4. /\ Aligned(w) \in Int /\ Aligned(w + x) \in Int
        /\ Aligned(i) \in Int /\ Aligned(i + y) \in Int
    BY <1>1 DEF Aligned
  <2> HIDE DEF header, top
  <2> QED
    BY <2>1, <2>2, <2>3, <2>4
<1>8. /\ profile.fillfactor \in Nat \ {0} /\ profile.fillfactor >= 10 /\ profile.fillfactor <= 100
      /\ profile.ifillfactor \in Nat \ {0} /\ profile.ifillfactor >= 10 /\ profile.ifillfactor <= 100
  BY ServerAssumption
<1>9. /\ profile.tuple \in Nat \ {0} /\ (\E m \in Nat : profile.tuple = 4 * m)
      /\ profile.ituple \in Nat \ {0} /\ (\E m \in Nat : profile.ituple = 4 * m)
  BY <1>1, <1>4, Zenon
<1>10. RowSize(profile, 0) <= profile.tuple /\ EntrySize(profile, 0) <= profile.ituple
  BY <1>1, <1>7, Zenon
<1> QED
  BY <1>4, <1>5, <1>6, <1>8, <1>9, <1>10 DEF c, b, w, i

\* Four divides the size of as many rows as you like.
LEMMA MultipleOfFour ==
  ASSUME NEW size \in Nat, NEW m \in Nat, size = 4 * m, NEW k \in Nat
  PROVE  m * k \in Nat /\ size * k = 4 * (m * k)
  OBVIOUS

\* Of a table with accurate statistics no more pages are expected than it needs.
LEMMA TableNotOver ==
  ASSUME profile \in Profiles, profile.tuple <= HeapRoom, NEW live \in Nat
  PROVE  EstimatedTablePages(Batch * live, RowSize(profile, 0), profile.fillfactor)
           <= HeapPages(live)
<1> DEFINE n == live * Batch  t == profile.tuple  lean == RowSize(profile, 0)
           ff == profile.fillfactor  k == HeapPerPage
           fresh == HeapPages(live)  share == 8168 * ff
<1>1. n \in Nat /\ Batch * live = n
  BY ServerAssumption
<1>2. /\ t \in Nat \ {0} /\ (\E m \in Nat : t = 4 * m) /\ lean \in Nat /\ lean <= t
      /\ ff \in Nat \ {0} /\ 10 <= ff /\ ff <= 100
  BY ProfileSizes
<1>3. k \in Nat \ {0}
  BY RowsPerPage
<1>4. fresh \in Nat /\ n <= k * fresh
  <2>1. fresh = Pages(n, k)
    BY HeapPagesAre
  <2> QED
    BY <1>1, <1>3, <2>1, PagesSuffice
<1>5. t * k <= HeapRoom
  <2>1. HeapRoom \in Int /\ HeapRoom <= 8168
    <3>1. 8192 * (100 - ff) \in Nat
      BY <1>2
    <3>2. (8192 * (100 - ff)) \div 100 \in Nat
      BY <3>1, QuotientIs
    <3> QED
      BY <3>2 DEF HeapRoom
  <2>2. t <= 8168
    BY <1>2, <2>1
  <2> QED
    BY <1>2, <2>1, <2>2, PerPageIs DEF HeapPerPage
<1>6. 100 * (t * k) <= share
  <2>1. PICK m \in Nat : t = 4 * m
    BY <1>2
  <2>2. m * k \in Nat /\ t * k = 4 * (m * k)
    BY <1>2, <1>3, <2>1, MultipleOfFour
  <2>3. 4 * (m * k) <= 8168 - (8192 * (100 - ff)) \div 100
    BY <1>5, <2>2 DEF HeapRoom
  <2> HIDE DEF k, t, ff
  <2>4. 100 * (4 * (m * k)) <= 8168 * ff
    BY <1>2, <2>2, <2>3, RoomIsShare
  <2> QED
    BY <2>2, <2>4
<1> HIDE DEF n, t, lean, ff, k, fresh
<1>7. share \in Nat \ {0}
  BY <1>2
<1>8. n * t * 100 \in Nat /\ n * t * 100 <= share * fresh
  <2>1. n * (t * 100) <= (k * fresh) * (t * 100)
    <3>1. t * 100 \in Nat /\ k * fresh \in Nat
      BY <1>2, <1>3, <1>4
    <3> QED
      BY <1>1, <1>4, <3>1, TimesMonotone
  <2>2. (100 * (t * k)) * fresh <= share * fresh
    <3>1. 100 * (t * k) \in Nat
      BY <1>2, <1>3
    <3> QED
      BY <1>4, <1>6, <1>7, <3>1, TimesMonotone
  <2>3. (k * fresh) * (t * 100) = (100 * (t * k)) * fresh
    BY <1>2, <1>3, <1>4
  <2>4. n * t * 100 = n * (t * 100) /\ n * t * 100 \in Nat
    BY <1>1, <1>2
  <2>5. share * fresh \in Nat /\ (k * fresh) * (t * 100) \in Nat
    BY <1>2, <1>3, <1>4, <1>7
  <2> HIDE DEF share
  <2> QED
    BY <2>1, <2>2, <2>3, <2>4, <2>5
<1>9. EstimatedTablePages(n, lean, ff) = CeilDiv(n * lean * 100, share)
  BY DEF EstimatedTablePages, BlockSize, PageHeader
<1>10. n * lean * 100 \in Nat /\ n * lean * 100 <= share * fresh
  <2>1. n * lean <= n * t
    BY <1>1, <1>2, TimesMonotone
  <2>2. n * lean \in Nat /\ n * t \in Nat /\ share * fresh \in Nat
    BY <1>1, <1>2, <1>4, <1>7
  <2> DEFINE few == n * lean  all == n * t
  <2>3. few \in Nat /\ all \in Nat /\ few <= all /\ all * 100 <= share * fresh
    BY <1>8, <2>1, <2>2
  <2> HIDE DEF few, all
  <2>4. few * 100 \in Nat /\ few * 100 <= share * fresh
    BY <2>2, <2>3
  <2> QED
    BY <2>4 DEF few
<1> HIDE DEF share
<1>11. EstimatedTablePages(n, lean, ff) <= fresh
  BY <1>4, <1>7, <1>9, <1>10, CeilDivLeast
<1> QED
  BY <1>1, <1>11 DEF lean, ff, fresh

\* Nor of an index.
LEMMA IndexNotOver ==
  ASSUME profile \in Profiles, NEW live \in Nat
  PROVE  EstimatedIndexPages(Batch * live, EntrySize(profile, 0), profile.ifillfactor)
           <= BtreePages(live)
<1> DEFINE n == live * Batch  t == profile.ituple  lean == EntrySize(profile, 0)
           ff == profile.ifillfactor  k == IndexPerPage  leaves == Leaves(live)  share == 8152 * ff
           perPage == share \div (100 * lean)
<1>1. n \in Nat /\ Batch * live = n
  BY ServerAssumption
<1>2. /\ t \in Nat \ {0} /\ (\E m \in Nat : t = 4 * m) /\ lean \in Nat \ {0} /\ lean <= t
      /\ ff \in Nat \ {0} /\ 10 <= ff /\ ff <= 100
  BY ProfileSizes
<1>3. k \in Nat \ {0}
  BY RowsPerPage
<1>4. leaves \in Nat /\ n <= k * leaves /\ 1 + leaves <= BtreePages(live) /\ BtreePages(live) \in Nat
  <2>1. leaves = Pages(n, k) /\ 1 + leaves <= BtreePages(live) /\ BtreePages(live) \in Nat
    BY BtreePagesAre
  <2> QED
    BY <1>1, <1>3, <2>1, PagesSuffice
<1>5. share \in Nat /\ 100 * lean \in Nat \ {0}
  BY <1>2
<1>6. perPage \in Nat /\ share < (100 * lean) * perPage + 100 * lean
  <2> DEFINE unit == 100 * lean
  <2>1. share \in Nat /\ unit \in Nat \ {0} /\ perPage = share \div unit /\ unit = 100 * lean
    BY <1>5
  <2> HIDE DEF share, unit, perPage
  <2>2. perPage \in Nat /\ share < unit * perPage + unit
    BY <2>1, QuotientIs
  <2> QED
    BY <2>1, <2>2
<1>7. perPage # 0 => k <= perPage
  <2>1. CASE IndexRoom < t
    <3>1. k = 1
      BY <2>1 DEF IndexPerPage, PerPage
    <3> HIDE DEF perPage
    <3> QED
      BY <1>6, <3>1
  <2>2. CASE ~(IndexRoom < t)
    <3>1. IndexRoom \in Int /\ IndexRoom <= 8152
      <4>1. 8192 * (100 - ff) \in Nat
        BY <1>2
      <4>2. (8192 * (100 - ff)) \div 100 \in Nat
        BY <4>1, QuotientIs
      <4> QED
        BY <4>2 DEF IndexRoom
    <3>2. t <= IndexRoom /\ t <= 8152
      BY <1>2, <2>2, <3>1
    <3>3. t * k <= IndexRoom
      BY <1>2, <3>1, <3>2, PerPageIs DEF IndexPerPage
    <3>4. PICK m \in Nat : t = 4 * m
      BY <1>2
    <3>5. m * k \in Nat /\ t * k = 4 * (m * k)
      BY <1>2, <1>3, <3>4, MultipleOfFour
    <3>6. 4 * (m * k) <= 8152 - (8192 * (100 - ff)) \div 100
      BY <3>3, <3>5 DEF IndexRoom
    <3> HIDE DEF k, t, lean, ff, perPage
    <3>7. 100 * (4 * (m * k)) <= 8152 * ff
      BY <1>2, <3>5, <3>6, RoomIsShare
    <3>8. 100 * (lean * k) < (100 * lean) * perPage + 100 * lean
      <4>1. lean * k <= t * k
        BY <1>2, <1>3, TimesMonotone
      <4>2. lean * k \in Nat /\ t * k \in Nat /\ (100 * lean) * perPage \in Nat
        BY <1>2, <1>3, <1>6
      <4>3. 100 * (t * k) <= share
        BY <3>5, <3>7
      <4> QED
        BY <1>5, <1>6, <4>1, <4>2, <4>3
    <3>9. CASE perPage + 1 <= k
      <4>1. (100 * lean) * (perPage + 1) <= (100 * lean) * k
        BY <1>3, <1>5, <1>6, <3>9, TimesMonotone
      <4>2. /\ (100 * lean) * (perPage + 1) = (100 * lean) * perPage + 100 * lean
            /\ (100 * lean) * k = 100 * (lean * k)
        BY <1>2, <1>3, <1>6
      <4>3. (100 * lean) * perPage \in Int /\ 100 * (lean * k) \in Int /\ 100 * lean \in Int
        BY <1>2, <1>3, <1>6
      <4> QED
        BY <3>8, <4>1, <4>2, <4>3
    <3> QED
      BY <1>3, <1>6, <3>9
  <2> QED
    BY <2>1, <2>2
<1>8. EstimatedIndexPages(n, lean, ff) = IF perPage = 0 THEN 0 ELSE 1 + CeilDiv(n, perPage)
  BY DEF EstimatedIndexPages, BlockSize, BtreeSpecial, PageHeader
<1> HIDE DEF perPage, k, n, t, lean, ff, leaves
<1>9. CASE perPage # 0
  <2>1. k * leaves <= perPage * leaves
    BY <1>3, <1>4, <1>6, <1>7, <1>9, TimesMonotone
  <2>2. n <= perPage * leaves
    <3>1. k * leaves \in Nat /\ perPage * leaves \in Nat
      BY <1>3, <1>4, <1>6
    <3> QED
      BY <1>1, <1>4, <2>1, <3>1
  <2>3. CeilDiv(n, perPage) \in Nat /\ CeilDiv(n, perPage) <= leaves
    BY <1>1, <1>4, <1>6, <1>9, <2>2, CeilDivLeast
  <2> QED
    BY <1>1, <1>4, <1>8, <1>9, <2>3 DEF lean, ff
<1>10. CASE perPage = 0
  BY <1>1, <1>4, <1>8, <1>10 DEF lean, ff
<1> QED
  BY <1>9, <1>10

-----------------------------------------------------------------------------
(* The rows of the bloat command *)

LEMMA FreeAndDeadIs ==
  ASSUME TableOK
  PROVE  FreeAndDead \in Nat /\ FreeAndDead <= BlockSize * table.pages
<1> DEFINE t == profile.tuple  k == HeapPerPage  live == table.live  dead == Cardinality(table.dead)
           n == (live + dead) * Batch  need == HeapPages(live + dead)  pages == table.pages
<1>1. /\ profile \in Profiles /\ live \in Nat /\ pages \in Nat /\ need <= pages
      /\ Batch \in Nat /\ dead \in Nat
  <2>1. /\ profile \in Profiles /\ xid \in Nat \ {0} /\ live \in Nat /\ pages \in Nat
        /\ table.dead \in SUBSET (1..(xid - 1)) /\ need <= pages
    BY DEF TableOK, Sound, Tables
  <2>2. dead \in Nat
    BY <2>1, SomeXids
  <2> QED
    BY <2>1, <2>2, ServerAssumption
<1>2. t \in Nat /\ 4 <= t
  BY <1>1, ServerAssumption
<1>3. k \in Nat \ {0} /\ t * k <= 8168
  BY <1>1, RowsPerPage
<1>4. n \in Nat /\ need \in Nat /\ n <= k * need
  <2>1. live + dead \in Nat /\ n \in Nat
    BY <1>1
  <2>2. need = Pages(n, k)
    BY <1>1, <2>1, HeapPagesAre
  <2> QED
    BY <1>3, <2>1, <2>2, PagesSuffice
<1>5. FreeAndDead = 8168 * pages - Batch * (t * live + 4 * dead)
  BY DEF FreeAndDead
<1>6. n = live * Batch + dead * Batch
  BY <1>1
<1> HIDE DEF t, k, live, dead, n, need, pages
<1>7. Batch * (t * live + 4 * dead) = t * (live * Batch) + 4 * (dead * Batch)
  BY <1>1, <1>2
<1> DEFINE a == live * Batch  d == dead * Batch
<1>8. a \in Nat /\ d \in Nat /\ n = a + d
  BY <1>1, <1>6
<1> HIDE DEF a, d
<1>9. 4 * d <= t * d /\ t * d \in Nat /\ t * a \in Nat
  BY <1>2, <1>8, TimesMonotone
<1>10. t * n = t * a + t * d
  BY <1>2, <1>8
<1>11. t * n <= t * (k * need)
  <2>1. k * need \in Nat
    BY <1>3, <1>4
  <2> QED
    BY <1>2, <1>4, <2>1, TimesMonotone
<1>12. t * (k * need) = (t * k) * need /\ t * k \in Nat
  BY <1>2, <1>3, <1>4
<1>13. (t * k) * need <= 8168 * need
  BY <1>3, <1>4, <1>12, TimesMonotone
<1>14. 8168 * need <= 8168 * pages
  BY <1>1, <1>4
<1>15. t * n <= 8168 * pages
  <2>1. t * n \in Nat /\ (t * k) * need \in Nat /\ 8168 * need \in Nat /\ 8168 * pages \in Nat
    BY <1>1, <1>2, <1>4, <1>12
  <2> QED
    BY <1>11, <1>12, <1>13, <1>14, <2>1
<1>16. Batch * (t * live + 4 * dead) = t * a + 4 * d
  BY <1>7 DEF a, d
<1> QED
  BY <1>1, <1>5, <1>8, <1>9, <1>10, <1>15, <1>16 DEF BlockSize, pages

LEMMA LeafSlackIs ==
  ASSUME TableOK
  PROVE  LeafSlack \in Nat /\ LeafSlack <= 100
<1> DEFINE t == profile.ituple  k == IndexPerPage  n == Entries * Batch
           need == Leaves(Entries)
           leaves == table.ipages - 1 - (IF table.ipages > 2 THEN 1 ELSE 0)
<1>1. /\ profile \in Profiles /\ Batch \in Nat /\ Entries \in Nat /\ table.ipages \in Nat
      /\ BtreePages(Entries) <= table.ipages
  <2>1. /\ profile \in Profiles /\ xid \in Nat \ {0} /\ table.live \in Nat /\ table.ipages \in Nat
        /\ table.indexed \in SUBSET (1..(xid - 1))
        /\ BtreePages(table.live + Cardinality(table.indexed)) <= table.ipages
    BY DEF TableOK, Sound, Tables
  <2>2. Cardinality(table.indexed) \in Nat
    BY <2>1, SomeXids
  <2> QED
    BY <2>1, <2>2, ServerAssumption DEF Entries
<1>2. t \in Nat
  BY <1>1, ServerAssumption
<1>3. k \in Nat \ {0} /\ t * k <= 8152
  BY <1>1, RowsPerPage
<1>4. n \in Nat /\ need \in Nat /\ n <= k * need
  <2>1. n \in Nat
    BY <1>1
  <2>2. need = Pages(n, k)
    BY <1>1, BtreePagesAre
  <2> QED
    BY <1>3, <2>1, <2>2, PagesSuffice
<1>5. leaves \in Nat /\ need <= leaves
  <2>1. BtreePages(Entries) = 1 + need + (IF need > 1 THEN 1 ELSE 0)
    BY DEF BtreePages
  <2> HIDE DEF need
  <2> QED
    BY <1>1, <1>4, <2>1
<1>6. LeafSlack = IF leaves = 0 THEN 0
                  ELSE 100 - (100 * Batch * t * Entries) \div (8152 * leaves)
  BY DEF LeafSlack
<1>7. 100 * Batch * t * Entries = 100 * (t * n)
  BY <1>1, <1>2
<1> HIDE DEF t, k, n, need, leaves
<1>8. CASE leaves # 0
  <2> DEFINE a == 100 * (t * n)  unit == 8152 * leaves  q == a \div unit
  <2>1. a \in Nat /\ unit \in Nat \ {0}
    <3>1. t * n \in Nat
      BY <1>2, <1>4
    <3> QED
      BY <1>5, <1>8, <3>1
  <2>2. t * n <= unit
    <3>1. t * n <= t * (k * need)
      <4>1. k * need \in Nat
        BY <1>3, <1>4
      <4> QED
        BY <1>2, <1>4, <4>1, TimesMonotone
    <3>2. t * (k * need) = (t * k) * need /\ t * k \in Nat
      BY <1>2, <1>3, <1>4
    <3>3. (t * k) * need <= 8152 * need
      BY <1>3, <1>4, <3>2, TimesMonotone
    <3>4. 8152 * need <= 8152 * leaves
      BY <1>4, <1>5
    <3>5. t * n \in Nat /\ (t * k) * need \in Nat /\ 8152 * need \in Nat /\ 8152 * leaves \in Nat
      BY <1>2, <1>4, <1>5, <3>2
    <3> QED
      BY <3>1, <3>2, <3>3, <3>4, <3>5
  <2>3. t * n \in Nat /\ a <= 100 * unit
    BY <1>2, <1>4, <2>1, <2>2
  <2>4. LeafSlack = 100 - q
    BY <1>6, <1>7, <1>8
  <2> HIDE DEF a, unit
  <2>5. q \in Nat /\ unit * q <= a
    BY <2>1, QuotientIs
  <2> HIDE DEF q
  <2>6. CASE 101 <= q
    <3>1. unit * 101 <= unit * q
      BY <2>1, <2>5, <2>6, TimesMonotone
    <3>2. unit * q \in Nat /\ unit * 101 = 100 * unit + unit
      BY <2>1, <2>5
    <3> QED
      BY <2>1, <2>3, <2>5, <3>1, <3>2
  <2> QED
    BY <2>4, <2>5, <2>6
<1>9. CASE leaves = 0
  BY <1>6, <1>9
<1> QED
  BY <1>8, <1>9

GoodRows == {row \in Rows : row.bloat_bytes <= row.real_bytes}
EstimatedRows == {row \in GoodRows : row.method = "estimate"}

\* While rows are measured, the last of them is still to come.
RowsOK ==
  /\ rows \in Seq(GoodRows) /\ Len(rows) <= 2
  /\ pc = "indexes" => rows \in Seq(EstimatedRows) /\ Len(rows) <= 1
  /\ pc = "measure" => Len(rows) # 0 /\ rows[Len(rows)].method = "estimate"

LEMMA EstimateRowIs ==
  ASSUME NEW kind \in {"table", "index"}, NEW pages \in Nat, NEW estimated \in Nat,
         NEW unusable \in BOOLEAN
  PROVE  /\ EstimateRow(kind, "table", pages, estimated, unusable) \in EstimatedRows
         /\ EstimateRow(kind, "table", pages, estimated, unusable).kind = kind
<1> DEFINE waste == IF pages > estimated THEN BlockSize * (pages - estimated) ELSE 0
           real == BlockSize * pages
           row == EstimateRow(kind, "table", pages, estimated, unusable)
<1>1. waste \in Nat /\ real \in Nat /\ waste <= real
  BY DEF BlockSize
<1>2. row = [kind |-> kind, name |-> "table", real_bytes |-> real, bloat_bytes |-> waste,
             method |-> "estimate", stats_unusable |-> unusable]
  BY DEF EstimateRow, BloatRow
<1> HIDE DEF waste, real, row
<1> QED
  BY <1>1, <1>2 DEF row, EstimatedRows, GoodRows, Rows

LEMMA RowsOfTheTable ==
  ASSUME TableOK
  PROVE  /\ Estimated(table.seen.tuples, table.seen.pages)
              => TableRow \in EstimatedRows /\ TableRow.kind = "table"
         /\ Estimated(table.seen.ituples, table.seen.ipages)
              => IndexRow \in EstimatedRows /\ IndexRow.kind = "index"
<1>1. /\ profile \in Profiles /\ Batch \in Nat /\ table.analyzed \in BOOLEAN
      /\ table.seen \in Statistics
  BY ServerAssumption DEF TableOK, Sound, Tables
<1>2. /\ table.seen.pages \in Nat /\ table.seen.ipages \in Nat
      /\ table.seen.tuples \in Int /\ table.seen.ituples \in Int
  BY <1>1 DEF Statistics
<1>3. /\ profile.columns \in Nat /\ profile.nullable \in BOOLEAN
      /\ profile.width \in Nat /\ profile.iwidth \in Nat
  BY <1>1, WidthsAssumption
<1>4. profile.fillfactor \in Nat \ {0} /\ profile.ifillfactor \in Nat \ {0}
  BY <1>1, ProfileSizes
<1> DEFINE size == IF table.analyzed THEN TupleSize(profile.columns, profile.nullable, profile.width)
                   ELSE TupleSize(profile.columns, FALSE, 0)
           unknown == 1024
           isize == IF table.analyzed THEN IndexTupleSize(profile.nullable, profile.iwidth)
                    ELSE IndexTupleSize(FALSE, unknown)
           n == Batch * table.seen.tuples  m == Batch * table.seen.ituples
           unusable == ~table.analyzed
<1>5. size \in Nat \ {0} /\ isize \in Nat \ {0}
  <2>1. /\ TupleSize(profile.columns, profile.nullable, profile.width) \in Nat \ {0}
        /\ IndexTupleSize(profile.nullable, profile.iwidth) \in Nat \ {0}
    BY <1>1, ProfileSizes
  <2>2. FALSE \in BOOLEAN /\ 0 \in Nat /\ unknown \in Nat
    OBVIOUS
  <2>3. TupleSize(profile.columns, FALSE, 0) \in Nat \ {0}
    BY <1>3, <2>2, RowSizes, Zenon
  <2>4. \A b \in BOOLEAN, w \in Nat : IndexTupleSize(b, w) \in Nat \ {0}
    <3>1. \A c \in Nat, b \in BOOLEAN, w \in Nat : IndexTupleSize(b, w) \in Nat \ {0}
      BY RowSizes
    <3> QED
      BY <2>2, <3>1, Zenon
  <2> HIDE DEF unknown
  <2>5. IndexTupleSize(FALSE, unknown) \in Nat \ {0}
    BY <2>2, <2>4, Zenon
  <2>6. size \in Nat \ {0}
    BY <2>1, <2>3, Zenon
  <2>7. isize \in Nat \ {0}
    BY <2>1, <2>5, Zenon
  <2> QED
    BY <2>6, <2>7
<1>6. unusable \in BOOLEAN
  BY <1>1
<1>7. /\ TableRow = EstimateRow("table", "table", table.seen.pages,
                                EstimatedTablePages(n, size, profile.fillfactor), unusable)
      /\ IndexRow = EstimateRow("index", "table", table.seen.ipages,
                                EstimatedIndexPages(m, isize, profile.ifillfactor), unusable)
  BY DEF TableRow, IndexRow
<1> HIDE DEF size, isize, unusable
<1>8. ASSUME Estimated(table.seen.tuples, table.seen.pages)
      PROVE  TableRow \in EstimatedRows /\ TableRow.kind = "table"
  <2>1. n \in Nat
    BY <1>1, <1>2, <1>8 DEF Estimated
  <2> HIDE DEF n
  <2>2. EstimatedTablePages(n, size, profile.fillfactor) \in Nat
    BY <1>4, <1>5, <2>1, EstimatesAre
  <2> QED
    BY <1>2, <1>6, <1>7, <2>2, EstimateRowIs
<1>9. ASSUME Estimated(table.seen.ituples, table.seen.ipages)
      PROVE  IndexRow \in EstimatedRows /\ IndexRow.kind = "index"
  <2>1. m \in Nat
    BY <1>1, <1>2, <1>9 DEF Estimated
  <2> HIDE DEF m
  <2>2. EstimatedIndexPages(m, isize, profile.ifillfactor) \in Nat
    BY <1>4, <1>5, <2>1, EstimatesAre
  <2> QED
    BY <1>2, <1>6, <1>7, <2>2, EstimateRowIs
<1> QED
  BY <1>8, <1>9

\* A measured row, of a relation that is there.
LEMMA ExactRowIs ==
  ASSUME TableOK, NEW row \in GoodRows
  PROVE  ExactRow(row) \in GoodRows /\ ExactRow(row).kind = row.kind
<1>1. /\ row.kind \in {"table", "index"} /\ row.name = "table"
  BY DEF GoodRows, Rows
<1>2. table.pages \in Nat /\ table.ipages \in Nat
  BY DEF TableOK, Sound, Tables
<1> DEFINE size == BlockSize * (IF row.kind = "table" THEN table.pages ELSE table.ipages)
           waste == IF row.kind = "table" THEN FreeAndDead ELSE (size * LeafSlack) \div 100
           exact == ExactRow(row)
<1>3. size \in Nat
  BY <1>2 DEF BlockSize
<1>4. waste \in Nat /\ waste <= size
  <2>1. CASE row.kind = "table"
    BY <2>1, FreeAndDeadIs
  <2>2. CASE row.kind # "table"
    <3> HIDE DEF size
    <3>1. LeafSlack \in Nat /\ LeafSlack <= 100
      BY LeafSlackIs
    <3>2. size * LeafSlack \in Nat /\ size * LeafSlack <= size * 100
      BY <1>3, <3>1, TimesMonotone
    <3> DEFINE a == size * LeafSlack
    <3>3. a \in Nat /\ a <= 100 * size
      BY <1>3, <3>2
    <3> HIDE DEF a
    <3>4. a \div 100 \in Nat /\ 100 * (a \div 100) <= a
      BY <3>3, QuotientIs
    <3>5. waste = a \div 100
      BY <2>2 DEF a
    <3> QED
      BY <1>3, <3>3, <3>4, <3>5
  <2> QED
    BY <2>1, <2>2
<1>5. exact = [kind |-> row.kind, name |-> row.name, real_bytes |-> size, bloat_bytes |-> waste,
               method |-> "exact", stats_unusable |-> FALSE]
  BY DEF ExactRow, BloatRow
<1> HIDE DEF size, waste, exact
<1> QED
  BY <1>1, <1>3, <1>4, <1>5 DEF exact, GoodRows, Rows

-----------------------------------------------------------------------------
(* The bloat command, statement by statement *)

TableRows == IF Estimated(table.seen.tuples, table.seen.pages) THEN <<TableRow>> ELSE << >>
IndexRows == IF Estimated(table.seen.ituples, table.seen.ipages) THEN <<IndexRow>> ELSE << >>

Among(kind) == \E i \in DOMAIN rows : rows[i].kind = kind

\* What an estimate says of the server as it is reaches the report.
BloatCurrent ==
  quiet /\ cmd # "vacuum" =>
    /\ pc = "indexes" => rows = TableRows
    /\ pc \in {"measure", "printed"} =>
         /\ Estimated(table.seen.tuples, table.seen.pages) /\ Candidate(TableRow) => Among("table")
         /\ Estimated(table.seen.ituples, table.seen.ipages) /\ Candidate(IndexRow) => Among("index")
    /\ pc = "printed" => findings = {BloatFinding(rows[i]) : i \in DOMAIN rows}

LEMMA OneRow ==
  ASSUME NEW S, NEW row \in S
  PROVE  <<row>> \in Seq(S) /\ Len(<<row>>) = 1 /\ <<row>>[1] = row /\ DOMAIN <<row>> = 1..1
  OBVIOUS

LEMMA RowsRead ==
  ASSUME TableOK
  PROVE  /\ TableRows \in Seq(EstimatedRows) /\ Len(TableRows) <= 1
         /\ IndexRows \in Seq(EstimatedRows) /\ Len(IndexRows) <= 1
<1>1. TableRows \in Seq(EstimatedRows) /\ Len(TableRows) <= 1
  <2>1. CASE Estimated(table.seen.tuples, table.seen.pages)
    <3>1. TableRow \in EstimatedRows
      BY <2>1, RowsOfTheTable
    <3> HIDE DEF EstimatedRows
    <3> QED
      BY <2>1, <3>1, OneRow DEF TableRows
  <2>2. CASE ~Estimated(table.seen.tuples, table.seen.pages)
    BY <2>2, EmptySeq DEF TableRows
  <2> QED
    BY <2>1, <2>2
<1>2. IndexRows \in Seq(EstimatedRows) /\ Len(IndexRows) <= 1
  <2>1. CASE Estimated(table.seen.ituples, table.seen.ipages)
    <3>1. IndexRow \in EstimatedRows
      BY <2>1, RowsOfTheTable
    <3> QED
      BY <2>1, <3>1, OneRow DEF IndexRows
  <2>2. CASE ~Estimated(table.seen.ituples, table.seen.ipages)
    BY <2>2, EmptySeq DEF IndexRows
  <2> QED
    BY <2>1, <2>2
<1> QED
  BY <1>1, <1>2

\* The filter keeps a row that is a candidate, and nothing that was not there.
LEMMA CandidatesAre ==
  ASSUME NEW list \in Seq(EstimatedRows), Len(list) <= 1
  PROVE  /\ Candidates(list) \in Seq(EstimatedRows) /\ Len(Candidates(list)) <= 1
         /\ \A i \in DOMAIN list : Candidate(list[i]) =>
              i \in DOMAIN Candidates(list) /\ Candidates(list)[i] = list[i]
<1>1. CASE Candidates(list) = list
  BY <1>1
<1>2. CASE Candidates(list) # list
  <2>1. Candidates(list) = << >> /\ ~Candidate(list[1])
    BY <1>2 DEF Candidates
  <2>2. \A i \in DOMAIN list : i = 1
    BY LenProperties
  <2> QED
    BY <2>1, <2>2, EmptySeq
<1> QED
  BY <1>1, <1>2

LEMMA Joined ==
  ASSUME NEW S, NEW s \in Seq(S), NEW t \in Seq(S)
  PROVE  /\ s \o t \in Seq(S) /\ Len(s \o t) = Len(s) + Len(t)
         /\ \A i \in DOMAIN s : i \in DOMAIN (s \o t) /\ (s \o t)[i] = s[i]
         /\ \A i \in DOMAIN t : Len(s) + i \in DOMAIN (s \o t) /\ (s \o t)[Len(s) + i] = t[i]
<1>1. /\ Len(s) \in Nat /\ DOMAIN s = 1..Len(s) /\ Len(t) \in Nat /\ DOMAIN t = 1..Len(t)
  BY LenProperties
<1>2. /\ s \o t \in Seq(S) /\ Len(s \o t) = Len(s) + Len(t)
      /\ \A i \in 1..(Len(s) + Len(t)) :
           (s \o t)[i] = IF i <= Len(s) THEN s[i] ELSE t[i - Len(s)]
  BY ConcatProperties
<1>3. DOMAIN (s \o t) = 1..(Len(s) + Len(t))
  BY <1>2, LenProperties
<1>4. ASSUME NEW i \in DOMAIN s
      PROVE  i \in DOMAIN (s \o t) /\ (s \o t)[i] = s[i]
  BY <1>1, <1>2, <1>3
<1>5. ASSUME NEW i \in DOMAIN t
      PROVE  Len(s) + i \in DOMAIN (s \o t) /\ (s \o t)[Len(s) + i] = t[i]
  <2>1. i \in 1..Len(t) /\ Len(s) + i \in 1..(Len(s) + Len(t)) /\ ~(Len(s) + i <= Len(s))
           /\ (Len(s) + i) - Len(s) = i
    BY <1>1
  <2> QED
    BY <1>2, <1>3, <2>1
<1> QED
  BY <1>2, <1>4, <1>5

LEMMA SameRows ==
  ASSUME UNCHANGED serverVars
  PROVE  /\ UNCHANGED <<TableRow, IndexRow, TableRows, IndexRows>>
         /\ Estimated(table.seen.tuples, table.seen.pages)'
               = Estimated(table.seen.tuples, table.seen.pages)
         /\ Estimated(table.seen.ituples, table.seen.ipages)'
               = Estimated(table.seen.ituples, table.seen.ipages)
<1>1. UNCHANGED <<profile, table>>
  BY DEF serverVars
<1>2. TableRow' = TableRow
  BY <1>1 DEF TableRow
<1>3. IndexRow' = IndexRow
  BY <1>1 DEF IndexRow
<1>4. /\ Estimated(table.seen.tuples, table.seen.pages)'
           = Estimated(table.seen.tuples, table.seen.pages)
      /\ Estimated(table.seen.ituples, table.seen.ipages)'
           = Estimated(table.seen.ituples, table.seen.ipages)
  BY <1>1 DEF Estimated
<1>5. TableRows' = TableRows /\ IndexRows' = IndexRows
  BY <1>2, <1>3, <1>4 DEF TableRows, IndexRows
<1> QED
  BY <1>2, <1>3, <1>4, <1>5

-----------------------------------------------------------------------------
(* The rows stay rows *)

LEMMA RowsOKInit == Init => RowsOK
  BY EmptySeq DEF Init, First, RowsOK

\* One row was measured, and it is the last one exactly when the report is made.
LEMMA MeasureIs ==
  ASSUME RowsOK, Measure, table.exists
  PROVE  \E i \in 1..Len(rows) :
           /\ rows' = [rows EXCEPT ![i] = ExactRow(rows[i])]
           /\ i = Len(rows) => ReportBloat(rows')
           /\ i # Len(rows) => UNCHANGED <<pc, findings>>
<1> DEFINE waiting == {j \in DOMAIN rows : rows[j].method = "estimate"}
<1>1. /\ rows \in Seq(GoodRows) /\ Len(rows) \in Nat /\ DOMAIN rows = 1..Len(rows)
      /\ Len(rows) # 0 /\ rows[Len(rows)].method = "estimate"
  BY LenProperties DEF RowsOK, Measure
<1>2. Len(rows) \in waiting /\ waiting \subseteq Nat
  BY <1>1
<1>3. Min(waiting) \in waiting
  <2> HIDE DEF waiting
  <2>1. PICK x \in waiting : \A y \in waiting : ~(<<y, x>> \in OpToRel(<, Nat))
    BY <1>2, WFMin, NatLessThanWellFounded, Zenon
  <2>2. \A y \in waiting : ~(y < x)
    BY <1>2, <2>1 DEF OpToRel
  <2>3. \A y \in waiting : x <= y
    BY <1>2, <2>2
  <2> QED
    BY <2>3 DEF Min
<1>4. /\ rows' = [rows EXCEPT ![Min(waiting)] = ExactRow(rows[Min(waiting)])]
      /\ IF Min(waiting) = Len(rows) THEN ReportBloat(rows') ELSE UNCHANGED <<pc, findings>>
  BY DEF Measure
<1>5. Min(waiting) \in 1..Len(rows)
  BY <1>1, <1>3
<1> QED
  BY <1>4, <1>5

LEMMA MeasuredRows ==
  ASSUME TableOK, RowsOK, NEW i \in 1..Len(rows),
         rows' = [rows EXCEPT ![i] = ExactRow(rows[i])]
  PROVE  /\ rows' \in Seq(GoodRows) /\ Len(rows') = Len(rows) /\ DOMAIN rows' = DOMAIN rows
         /\ \A j \in DOMAIN rows : rows'[j].kind = rows[j].kind
         /\ \A j \in DOMAIN rows : j # i => rows'[j] = rows[j]
<1>1. rows \in Seq(GoodRows) /\ DOMAIN rows = 1..Len(rows)
  BY LenProperties DEF RowsOK
<1>2. rows[i] \in GoodRows
  BY <1>1, ElementOfSeq
<1>3. ExactRow(rows[i]) \in GoodRows /\ ExactRow(rows[i]).kind = rows[i].kind
  BY <1>2, ExactRowIs
<1> DEFINE exact == ExactRow(rows[i])
<1>4. exact \in GoodRows /\ exact.kind = rows[i].kind /\ rows' = [rows EXCEPT ![i] = exact]
  BY <1>3
<1> HIDE DEF exact
<1>5. rows' \in Seq(GoodRows) /\ Len(rows') = Len(rows)
  BY <1>1, <1>4, ExceptSeq
<1> QED
  BY <1>1, <1>4, <1>5, LenProperties

\* What the second query leaves of the rows.
LEMMA FilteredRows ==
  ASSUME TableOK, RowsOK, EstimateIndexes
  PROVE  /\ rows' = Candidates(rows) \o Candidates(IndexRows)
         /\ rows' \in Seq(EstimatedRows) /\ Len(rows') <= 2
         /\ rows \in Seq(EstimatedRows) /\ Len(rows) <= 1
         /\ pc' = "measure" => rows' # << >>
         /\ pc' # "measure" => ReportBloat(rows')
         /\ pc' \in {"measure", "printed"}
<1>1. rows \in Seq(EstimatedRows) /\ Len(rows) <= 1
  BY DEF RowsOK, EstimateIndexes
<1>2. rows' = Candidates(rows) \o Candidates(IndexRows)
  BY DEF EstimateIndexes, IndexRows
<1>3. IF Measures /\ rows' # << >> THEN pc' = "measure" /\ findings' = findings ELSE ReportBloat(rows')
  BY <1>2 DEF EstimateIndexes, IndexRows
<1>4. /\ Candidates(rows) \in Seq(EstimatedRows) /\ Len(Candidates(rows)) <= 1
      /\ Candidates(IndexRows) \in Seq(EstimatedRows) /\ Len(Candidates(IndexRows)) <= 1
  BY <1>1, RowsRead, CandidatesAre
<1>5. rows' \in Seq(EstimatedRows) /\ Len(rows') <= 2
  <2>1. /\ rows' \in Seq(EstimatedRows)
        /\ Len(rows') = Len(Candidates(rows)) + Len(Candidates(IndexRows))
    BY <1>2, <1>4, Joined
  <2>2. Len(Candidates(rows)) \in Nat /\ Len(Candidates(IndexRows)) \in Nat
    BY <1>4, LenProperties
  <2> QED
    BY <1>4, <2>1, <2>2
<1>6. pc' # "measure" => ReportBloat(rows')
  BY <1>3
<1> QED
  BY <1>1, <1>2, <1>3, <1>5 DEF ReportBloat

LEMMA GoodIfEstimated ==
  ASSUME NEW list \in Seq(EstimatedRows)
  PROVE  list \in Seq(GoodRows)
<1>1. Len(list) \in Nat /\ list \in [1..Len(list) -> EstimatedRows]
  BY LenProperties
<1>2. list \in [1..Len(list) -> GoodRows]
  BY <1>1 DEF EstimatedRows
<1> QED
  BY <1>1, <1>2, SeqDef

LEMMA RowsOKStep ==
  ASSUME TableOK, PhaseOK, RowsOK, [Next]_vars
  PROVE  RowsOK'
<1>1. CASE EstimateTables
  <2>1. pc' = "indexes" /\ rows' = TableRows
    BY <1>1 DEF EstimateTables, TableRows
  <2>2. rows' \in Seq(EstimatedRows) /\ Len(rows') <= 1 /\ Len(rows') \in Nat
    BY <2>1, RowsRead, LenProperties
  <2>3. rows' \in Seq(GoodRows)
    BY <2>2, GoodIfEstimated
  <2> QED
    BY <2>1, <2>2, <2>3 DEF RowsOK
<1>2. CASE EstimateIndexes
  <2>1. /\ rows' \in Seq(EstimatedRows) /\ Len(rows') <= 2 /\ pc' \in {"measure", "printed"}
        /\ pc' = "measure" => rows' # << >>
    BY <1>2, FilteredRows
  <2>2. rows' \in Seq(GoodRows)
    BY <2>1, GoodIfEstimated
  <2>3. ASSUME pc' = "measure"
        PROVE  Len(rows') # 0 /\ rows'[Len(rows')].method = "estimate"
    <3>1. Len(rows') \in Nat /\ Len(rows') # 0
      BY <2>1, <2>3, LenProperties, EmptySeq
    <3>2. rows'[Len(rows')] \in EstimatedRows
      BY <2>1, <3>1, ElementOfSeq
    <3> QED
      BY <3>1, <3>2 DEF EstimatedRows
  <2> QED
    BY <2>1, <2>2, <2>3 DEF RowsOK
<1>3. CASE Measure
  <2>1. CASE ~table.exists
    <3>1. pc' = "failed" /\ rows' = rows
      BY <1>3, <2>1 DEF Measure
    <3> QED
      BY <3>1 DEF RowsOK
  <2>2. CASE table.exists
    <3>1. PICK i \in 1..Len(rows) :
            /\ rows' = [rows EXCEPT ![i] = ExactRow(rows[i])]
            /\ i = Len(rows) => ReportBloat(rows')
            /\ i # Len(rows) => UNCHANGED <<pc, findings>>
      BY <1>3, <2>2, MeasureIs
    <3>2. /\ rows' \in Seq(GoodRows) /\ Len(rows') = Len(rows) /\ DOMAIN rows' = DOMAIN rows
          /\ \A j \in DOMAIN rows : j # i => rows'[j] = rows[j]
      BY <3>1, MeasuredRows
    <3>3. CASE i = Len(rows)
      <4>1. pc' = "printed"
        BY <3>1, <3>3 DEF ReportBloat
      <4> QED
        BY <3>2, <4>1 DEF RowsOK
    <3>4. CASE i # Len(rows)
      <4>1. pc' = "measure"
        BY <1>3, <3>1, <3>4 DEF Measure
      <4>2. Len(rows) \in DOMAIN rows /\ Len(rows) # 0 /\ rows[Len(rows)].method = "estimate"
        BY <1>3, LenProperties DEF Measure, RowsOK
      <4> QED
        BY <3>2, <3>4, <4>1, <4>2 DEF RowsOK
    <3> QED
      BY <3>3, <3>4
  <2> QED
    BY <2>1, <2>2
<1>4. CASE Again
  BY <1>4, EmptySeq DEF Again, First, RowsOK
<1>5. CASE rows' = rows /\ pc' \notin {"indexes", "measure"}
  BY <1>5 DEF RowsOK
<1>6. CASE UNCHANGED <<rows, pc>>
  BY <1>6 DEF RowsOK
<1> QED
  BY <1>1, <1>2, <1>3, <1>4, <1>5, <1>6
     DEF Next, Tool, LoadSettings, ReadDatabases, ReadRelations, ReadHolders, Follow, ServerActs,
         vars, toolVars

-----------------------------------------------------------------------------
(* Nothing to report is lost on the way *)

LEMMA BloatCurrentInit == Init => BloatCurrent
  BY DEF Init, First, BloatCurrent

\* The filter and the measurement keep the kinds of the rows.
LEMMA FilteredAreAmong ==
  ASSUME TableOK, RowsOK, EstimateIndexes, rows = TableRows
  PROVE  /\ Estimated(table.seen.tuples, table.seen.pages) /\ Candidate(TableRow) => Among("table")'
         /\ Estimated(table.seen.ituples, table.seen.ipages) /\ Candidate(IndexRow) => Among("index")'
<1> DEFINE left == Candidates(TableRows)  right == Candidates(IndexRows)
<1>1. rows' = left \o right
  BY FilteredRows
<1>2. /\ TableRows \in Seq(EstimatedRows) /\ Len(TableRows) <= 1
      /\ IndexRows \in Seq(EstimatedRows) /\ Len(IndexRows) <= 1
  BY RowsRead
<1>3. left \in Seq(EstimatedRows) /\ right \in Seq(EstimatedRows)
  BY <1>2, CandidatesAre
<1>4. ASSUME Estimated(table.seen.tuples, table.seen.pages), Candidate(TableRow)
      PROVE  Among("table")'
  <2>1. TableRows = <<TableRow>> /\ TableRow.kind = "table"
    BY <1>4, RowsOfTheTable DEF TableRows
  <2>2. 1 \in DOMAIN TableRows /\ TableRows[1] = TableRow
    BY <2>1
  <2>3. 1 \in DOMAIN left /\ left[1] = TableRow
    BY <1>2, <1>4, <2>2, CandidatesAre
  <2> HIDE DEF left, right
  <2>4. 1 \in DOMAIN (left \o right) /\ (left \o right)[1] = TableRow
    BY <1>3, <2>3, Joined
  <2> QED
    BY <1>1, <2>1, <2>4 DEF Among
<1>5. ASSUME Estimated(table.seen.ituples, table.seen.ipages), Candidate(IndexRow)
      PROVE  Among("index")'
  <2>1. IndexRows = <<IndexRow>> /\ IndexRow.kind = "index"
    BY <1>5, RowsOfTheTable DEF IndexRows
  <2>2. 1 \in DOMAIN IndexRows /\ IndexRows[1] = IndexRow
    BY <2>1
  <2>3. 1 \in DOMAIN right /\ right[1] = IndexRow
    BY <1>2, <1>5, <2>2, CandidatesAre
  <2> HIDE DEF left, right
  <2>4. /\ Len(left) + 1 \in DOMAIN (left \o right)
        /\ (left \o right)[Len(left) + 1] = IndexRow
    BY <1>3, <2>3, Joined
  <2> QED
    BY <1>1, <2>1, <2>4 DEF Among
<1> QED
  BY <1>4, <1>5

LEMMA ReportOfRows ==
  ASSUME ReportBloat(rows')
  PROVE  pc' = "printed" /\ findings' = {BloatFinding(rows'[i]) : i \in DOMAIN rows'}
  BY DEF ReportBloat

LEMMA BloatCurrentStep ==
  ASSUME TableOK, PhaseOK, RowsOK, BloatCurrent, [Next]_vars
  PROVE  BloatCurrent'
<1>1. CASE EstimateTables
  <2>1. UNCHANGED serverVars /\ pc' = "indexes" /\ rows' = TableRows
    BY <1>1 DEF EstimateTables, TableRows
  <2> QED
    BY <2>1, SameRows DEF BloatCurrent
<1>2. CASE EstimateIndexes
  <2>1. UNCHANGED <<serverVars, cmd, quiet>> /\ pc = "indexes"
    BY <1>2 DEF EstimateIndexes
  <2>2. pc' \in {"measure", "printed"} /\ (pc' # "measure" => ReportBloat(rows'))
    BY <1>2, FilteredRows
  <2>3. pc' = "printed" => findings' = {BloatFinding(rows'[i]) : i \in DOMAIN rows'}
    BY <2>2, ReportOfRows
  <2>4. ASSUME quiet, cmd # "vacuum"
        PROVE  /\ Estimated(table.seen.tuples, table.seen.pages) /\ Candidate(TableRow)
                    => Among("table")'
               /\ Estimated(table.seen.ituples, table.seen.ipages) /\ Candidate(IndexRow)
                    => Among("index")'
    <3>1. rows = TableRows
      BY <2>1, <2>4 DEF BloatCurrent
    <3> QED
      BY <1>2, <3>1, FilteredAreAmong
  <2>5. Candidate(TableRow)' = Candidate(TableRow) /\ Candidate(IndexRow)' = Candidate(IndexRow)
    BY <2>1, SameRows DEF Candidate, AtLeastPct
  <2> QED
    BY <2>1, <2>2, <2>3, <2>4, <2>5, SameRows DEF BloatCurrent
<1>3. CASE Measure
  <2>1. UNCHANGED <<serverVars, cmd, quiet>> /\ pc = "measure"
    BY <1>3 DEF Measure
  <2>2. CASE ~table.exists
    <3>1. pc' = "failed"
      BY <1>3, <2>2 DEF Measure
    <3> QED
      BY <3>1 DEF BloatCurrent
  <2>3. CASE table.exists
    <3>1. PICK i \in 1..Len(rows) :
            /\ rows' = [rows EXCEPT ![i] = ExactRow(rows[i])]
            /\ i = Len(rows) => ReportBloat(rows')
            /\ i # Len(rows) => UNCHANGED <<pc, findings>>
      BY <1>3, <2>3, MeasureIs
    <3>2. DOMAIN rows' = DOMAIN rows /\ \A j \in DOMAIN rows : rows'[j].kind = rows[j].kind
      BY <3>1, MeasuredRows
    <3>3. \A kind : Among(kind) => Among(kind)'
      BY <3>2 DEF Among
    <3>4. pc' = "printed" => findings' = {BloatFinding(rows'[i_1]) : i_1 \in DOMAIN rows'}
      BY <2>1, <3>1, ReportOfRows
    <3>5. pc' \in {"measure", "printed"}
      BY <2>1, <3>1, ReportOfRows
    <3>6. Candidate(TableRow)' = Candidate(TableRow) /\ Candidate(IndexRow)' = Candidate(IndexRow)
      BY <2>1, SameRows DEF Candidate, AtLeastPct
    <3> QED
      BY <2>1, <3>3, <3>4, <3>5, <3>6, SameRows DEF BloatCurrent
  <2> QED
    BY <2>2, <2>3
<1>4. CASE LoadSettings \/ ReadDatabases \/ ReadRelations \/ ReadHolders
  <2>1. cmd' = "vacuum"
    BY <1>4 DEF LoadSettings, ReadDatabases, ReadRelations, ReadHolders, PhaseOK, PhasesOf
  <2> QED
    BY <2>1 DEF BloatCurrent
<1>5. CASE Again
  BY <1>5 DEF Again, First, BloatCurrent
<1>6. CASE (\E f \in findings : Follow(f)) \/ ServerActs
  <2>1. quiet' = FALSE
    BY <1>6 DEF Follow, ServerActs
  <2> QED
    BY <2>1 DEF BloatCurrent
<1>7. CASE UNCHANGED vars
  <2>1. UNCHANGED <<serverVars, cmd, pc, quiet, rows, findings>>
    BY <1>7 DEF vars, toolVars
  <2>2. Candidate(TableRow)' = Candidate(TableRow) /\ Candidate(IndexRow)' = Candidate(IndexRow)
    BY <2>1, SameRows DEF Candidate, AtLeastPct
  <2>3. \A kind : Among(kind)' = Among(kind)
    BY <2>1 DEF Among
  <2> QED
    BY <2>1, <2>2, <2>3, SameRows DEF BloatCurrent
<1> QED
  BY <1>1, <1>2, <1>3, <1>4, <1>5, <1>6, <1>7 DEF Next, Tool

-----------------------------------------------------------------------------
(* The bloat command *)

CountersOK == quiet \in BOOLEAN /\ steps \in 0..MaxSteps

MaintenanceInv == VacuumInv /\ RowsOK /\ BloatCurrent /\ CountersOK

LEMMA CountersOKStep ==
  ASSUME CountersOK, [Next]_vars
  PROVE  CountersOK'
<1>1. MaxSteps \in Nat
  BY CommandsAssumption
<1>2. steps' = steps \/ (steps < MaxSteps /\ steps' = steps + 1)
  BY DEF Next, Tool, LoadSettings, ReadDatabases, ReadRelations, ReadHolders, EstimateTables,
         EstimateIndexes, Measure, Follow, Again, ServerActs, vars, toolVars
<1>3. quiet' = quiet \/ quiet' \in BOOLEAN
  BY DEF Next, Tool, LoadSettings, ReadDatabases, ReadRelations, ReadHolders, EstimateTables,
         EstimateIndexes, Measure, Follow, Again, ServerActs, vars, toolVars
<1>4. steps' \in 0..MaxSteps
  BY <1>1, <1>2 DEF CountersOK
<1> QED
  BY <1>3, <1>4 DEF CountersOK

LEMMA MaintenanceInvariant == Spec => []MaintenanceInv
<1>1. Init => RowsOK /\ BloatCurrent /\ CountersOK
  <2>1. MaxSteps \in Nat
    BY CommandsAssumption
  <2> QED
    BY <2>1, RowsOKInit, BloatCurrentInit DEF Init, CountersOK
<1>2. /\ VacuumInv /\ RowsOK /\ BloatCurrent /\ CountersOK /\ [Next]_vars
      => RowsOK' /\ BloatCurrent' /\ CountersOK'
  BY RowsOKStep, BloatCurrentStep, CountersOKStep DEF VacuumInv
<1> QED
  BY <1>1, <1>2, VacuumInvariant, PTL DEF Spec, MaintenanceInv

\* At every moment the table, its horizon and the ages are those of a server that can
\* be, each command is at a statement of its own, and what it keeps are BloatRows and
\* findings (the dataclasses of bloat.py:178 and findings.py:29).
THEOREM TypeCorrect == Spec => []TypeOK
<1>1. MaintenanceInv => TypeOK
  <2> SUFFICES ASSUME MaintenanceInv
               PROVE  TypeOK
    OBVIOUS
  <2> USE DEF MaintenanceInv, VacuumInv
  <2>1. /\ table.live \in 0..MaxLive /\ table.dead \subseteq 1..(xid - 1)
        /\ table.pages >= HeapPages(table.live + Cardinality(table.dead))
    <3>1. /\ table.live \in Nat /\ table.live <= MaxLive /\ table.dead \subseteq 1..(xid - 1)
          /\ HeapPages(table.live + Cardinality(table.dead)) <= table.pages
      BY DEF TableOK, Sound, Tables
    <3> QED
      BY <3>1, ServerAssumption
  <2>2. /\ xid \in StartXid..MaxXid
        /\ dbfrozen <= frozen["system"] /\ (table.exists => dbfrozen <= frozen["table"])
        /\ \A r \in Relations : frozen[r] \in 0..xid
        /\ \A s \in Sources : hold[s] \in 0..xid
    BY DEF AgesOK
  <2>3. /\ cmd \in profile.asked
        /\ pc \in IF cmd = "vacuum"
                  THEN {"settings", "databases", "relations", "holders", "printed"}
                  ELSE {"tables", "indexes", "printed"}
                         \cup (IF cmd = "exact" THEN {"measure", "failed"} ELSE {})
    BY DEF PhaseOK, PhasesOf
  <2>4. /\ rows \in Seq(Rows) /\ Len(rows) <= 2
        /\ \A i \in DOMAIN rows : rows[i].bloat_bytes <= rows[i].real_bytes
    <3>1. /\ rows \in Seq(GoodRows) /\ Len(rows) <= 2 /\ Len(rows) \in Nat
          /\ rows \in [1..Len(rows) -> GoodRows]
      BY LenProperties DEF RowsOK
    <3>2. rows \in [1..Len(rows) -> Rows]
      BY <3>1 DEF GoodRows
    <3>3. rows \in Seq(Rows)
      BY <3>1, <3>2, SeqDef
    <3> QED
      BY <3>1, <3>3 DEF GoodRows
  <2>5. \A f \in findings : f.severity \in Severities
    BY DEF FindingsOK, IsFinding
  <2>6. quiet \in BOOLEAN /\ steps \in 0..MaxSteps
    BY DEF CountersOK
  <2> HIDE DEF MaintenanceInv, VacuumInv
  <2> QED
    BY <2>1, <2>2, <2>3, <2>4, <2>5, <2>6 DEF TypeOK
<1> QED
  BY <1>1, MaintenanceInvariant, PTL

\* An estimate that is not too high lets nothing through that is to be reported.
LEMMA WastefulIsCandidate ==
  ASSUME NEW kind, NEW unusable, NEW pages \in Nat, NEW fresh \in Nat, NEW estimated \in Nat,
         estimated <= fresh, Wasteful(pages, fresh)
  PROVE  Candidate(EstimateRow(kind, "table", pages, estimated, unusable))
<1> DEFINE saved == pages - fresh  waste == pages - estimated  least == MinBloatPct * pages
           row == EstimateRow(kind, "table", pages, estimated, unusable)
<1>1. MinBloatPct \in Nat /\ MinBloatBytes \in Nat
  BY BloatAssumption
<1>2. /\ saved \in Nat /\ waste \in Nat /\ saved <= waste /\ pages > estimated
      /\ BlockSize * saved >= MinBloatBytes /\ 100 * saved >= least
  BY DEF Wasteful, Reaches
<1>3. least \in Nat /\ MinBloatPct * (BlockSize * pages) = BlockSize * least
  BY <1>1 DEF BlockSize
<1>4. row.bloat_bytes = BlockSize * waste /\ row.real_bytes = BlockSize * pages
  BY <1>2 DEF EstimateRow, BloatRow
<1> HIDE DEF saved, waste, least, row
<1>5. BlockSize * waste >= MinBloatBytes /\ 100 * (BlockSize * waste) >= BlockSize * least
  BY <1>1, <1>2, <1>3 DEF BlockSize
<1>6. Candidate(row)
  BY <1>3, <1>4, <1>5 DEF Candidate, AtLeastPct
<1> QED
  BY <1>6 DEF row

\* A row that is there was reported.
LEMMA AmongIsSaid ==
  ASSUME findings = {BloatFinding(rows[i]) : i \in DOMAIN rows}
  PROVE  /\ Among("table") => Says("bloat.table")
         /\ Among("index") => Says("bloat.index")
<1>1. ASSUME NEW row
      PROVE  /\ row.kind = "table" => BloatFinding(row).check = "bloat.table"
             /\ row.kind = "index" => BloatFinding(row).check = "bloat.index"
  BY DEF BloatFinding, Finding
<1> QED
  BY <1>1 DEF Among, Says

\* What estimate_table_bloat and estimate_index_bloat (bloat.py:200-239) expect is never
\* more than a rewrite would leave, so analyze_bloat leaves out nothing that wastes as
\* much as the thresholds say.
THEOREM WasteReported == Spec => []WasteIsReported
<1>1. MaintenanceInv => WasteIsReported
  <2> SUFFICES ASSUME MaintenanceInv, Current({"bloat", "exact"}), table.exists, table.analyzed,
                      Accurate
               PROVE  /\ profile.tuple <= HeapRoom /\ Wasteful(table.pages, HeapPages(table.live))
                           => Says("bloat.table")
                      /\ Wasteful(table.ipages, BtreePages(table.live)) => Says("bloat.index")
    BY DEF WasteIsReported
  <2>1. TableOK /\ BloatCurrent
    BY DEF MaintenanceInv, VacuumInv
  <2>2. /\ profile \in Profiles /\ table.live \in Nat /\ table.pages \in Nat /\ table.ipages \in Nat
        /\ Batch \in Nat
    BY <2>1, ServerAssumption DEF TableOK, Sound, Tables
  <2>3. /\ table.seen.tuples = table.live /\ table.seen.ituples = table.live
        /\ table.seen.pages = table.pages /\ table.seen.ipages = table.ipages
    BY DEF Accurate, Seen
  <2>4. /\ findings = {BloatFinding(rows[i]) : i \in DOMAIN rows}
        /\ Estimated(table.seen.tuples, table.seen.pages) /\ Candidate(TableRow) => Among("table")
        /\ Estimated(table.seen.ituples, table.seen.ipages) /\ Candidate(IndexRow) => Among("index")
    BY <2>1 DEF Current, BloatCurrent
  <2> DEFINE n == Batch * table.live
             expected == EstimatedTablePages(n, RowSize(profile, 0), profile.fillfactor)
             iexpected == EstimatedIndexPages(n, EntrySize(profile, 0), profile.ifillfactor)
             fresh == HeapPages(table.live)  ifresh == BtreePages(table.live)
  <2>5. /\ TableRow = EstimateRow("table", "table", table.pages, expected, ~table.analyzed)
        /\ IndexRow = EstimateRow("index", "table", table.ipages, iexpected, ~table.analyzed)
    BY <2>2, <2>3, ProfileSizes DEF TableRow, IndexRow
  <2>6. expected \in Nat /\ iexpected \in Nat
    <3>1. /\ RowSize(profile, 0) \in Nat \ {0} /\ EntrySize(profile, 0) \in Nat \ {0}
          /\ profile.fillfactor \in Nat \ {0} /\ profile.ifillfactor \in Nat \ {0}
      BY <2>2, ProfileSizes
    <3>2. n \in Nat
      BY <2>2
    <3> HIDE DEF n
    <3> QED
      BY <3>1, <3>2, EstimatesAre
  <2>7. fresh \in Nat /\ ifresh \in Nat
    BY <2>2, HeapPagesAre, BtreePagesAre
  <2>8. ASSUME profile.tuple <= HeapRoom, Wasteful(table.pages, fresh)
        PROVE  Says("bloat.table")
    <3>1. expected <= fresh
      BY <2>2, <2>8, TableNotOver
    <3> HIDE DEF n, expected, fresh
    <3>2. Candidate(TableRow)
      BY <2>2, <2>5, <2>6, <2>7, <2>8, <3>1, WastefulIsCandidate
    <3>3. Estimated(table.seen.tuples, table.seen.pages)
      BY <2>2, <2>3, <2>7, <2>8 DEF Estimated, Wasteful
    <3> QED
      BY <2>4, <3>2, <3>3, AmongIsSaid
  <2>9. ASSUME Wasteful(table.ipages, ifresh)
        PROVE  Says("bloat.index")
    <3>1. iexpected <= ifresh
      BY <2>2, IndexNotOver
    <3> HIDE DEF n, iexpected, ifresh
    <3>2. Candidate(IndexRow)
      BY <2>2, <2>5, <2>6, <2>7, <2>9, <3>1, WastefulIsCandidate
    <3>3. Estimated(table.seen.ituples, table.seen.ipages)
      BY <2>2, <2>3, <2>7, <2>9 DEF Estimated, Wasteful
    <3> QED
      BY <2>4, <3>2, <3>3, AmongIsSaid
  <2> QED
    BY <2>8, <2>9
<1> QED
  BY <1>1, MaintenanceInvariant, PTL

-----------------------------------------------------------------------------
(* What the pages of a new file leave *)

LEMMA UnfilledIs ==
  ASSUME NEW n \in Nat, NEW k \in Nat \ {0}, NEW row \in Nat, NEW share \in Nat \ {0}
  PROVE  /\ Unfilled(Pages(n, k), share, row, k) \in Nat
         /\ share * Pages(n, k) - row * n < share * (Unfilled(Pages(n, k), share, row, k) + 1)
<1> DEFINE p == Pages(n, k)  left == (p - 1) * (share - k * row) + share - row  q == left \div share
<1>1. p \in Nat /\ k * p < n + k
  BY PagesSuffice
<1> HIDE DEF p
<1>2. left \in Int
  BY <1>1
<1>3. Unfilled(p, share, row, k) = Max({0, q})
  BY DEF Unfilled
<1> HIDE DEF left
<1>4. q \in Int /\ left < share * q + share
  BY <1>2
<1> HIDE DEF q
<1>5. Unfilled(p, share, row, k) \in Nat /\ Unfilled(p, share, row, k) >= q
  BY <1>3, <1>4, TwoNumbers
<1> DEFINE u == Unfilled(p, share, row, k)
<1>6. u \in Nat /\ q <= u
  BY <1>4, <1>5
<1> HIDE DEF u
<1>7. share * q <= share * u
  <2>1. share \in Nat
    OBVIOUS
  <2>2. CASE q \in Nat
    BY <1>6, <2>1, <2>2, TimesMonotone
  <2>3. CASE q < 0
    BY <1>4, <1>6, <2>3
  <2> QED
    BY <1>4, <2>2, <2>3
<1>8. CASE p = 0
  <2>1. share * p - row * n <= 0
    <3>1. row * n \in Nat /\ share * p = 0
      BY <1>8
    <3> QED
      BY <3>1
  <2>2. share * (u + 1) \in Nat /\ share * (u + 1) # 0
    BY <1>6
  <2>3. row * n \in Nat /\ share * p \in Nat
    BY <1>1
  <2> QED
    BY <1>6, <2>1, <2>2, <2>3 DEF u, p
<1>9. CASE p # 0
  <2>1. k * (p - 1) + 1 <= n /\ k * (p - 1) + 1 \in Nat
    BY <1>1, <1>9
  <2>2. row * (k * (p - 1) + 1) <= row * n
    BY <2>1, TimesMonotone
  <2>3. left = share * p - row * (k * (p - 1) + 1)
    BY <1>1 DEF left
  <2>4. /\ row * (k * (p - 1) + 1) \in Int /\ row * n \in Int /\ share * p \in Int
        /\ share * q \in Int /\ share * u \in Int /\ share * (u + 1) = share * u + share
    BY <1>1, <1>4, <1>6, <2>1
  <2>5. share * p - row * n <= left
    BY <1>2, <2>2, <2>3, <2>4
  <2>6. share * p - row * n < share * (u + 1)
    BY <1>2, <1>4, <1>7, <2>4, <2>5
  <2> QED
    BY <1>6, <2>6 DEF u, p
<1> QED
  BY <1>8, <1>9

\* An estimate with room for n rows in its pages is short of the file by what that leaves.
LEMMA ShortByUnfilled ==
  ASSUME NEW n \in Nat, NEW k \in Nat \ {0}, NEW row \in Nat, NEW share \in Nat \ {0},
         NEW estimated \in Nat, row * n <= share * estimated
  PROVE  Pages(n, k) - estimated <= Unfilled(Pages(n, k), share, row, k)
<1> DEFINE p == Pages(n, k)  u == Unfilled(Pages(n, k), share, row, k)
<1>1. p \in Nat
  BY PagesSuffice
<1>2. u \in Nat /\ share * p - row * n < share * (u + 1)
  BY UnfilledIs
<1> HIDE DEF p, u
<1>3. CASE u + 1 + estimated <= p
  <2>1. share * (u + 1 + estimated) <= share * p
    <3>1. u + 1 + estimated \in Nat /\ share \in Nat
      BY <1>2
    <3> QED
      BY <1>1, <1>3, <3>1, TimesMonotone
  <2>2. share * (u + 1 + estimated) = share * (u + 1) + share * estimated
    BY <1>2
  <2>3. share * (u + 1) \in Int /\ share * estimated \in Int /\ share * p \in Int /\ row * n \in Int
    BY <1>1, <1>2
  <2> QED
    BY <1>2, <2>1, <2>2, <2>3
<1> QED
  BY <1>1, <1>2, <1>3 DEF p, u

LEMMA CeilDivSuffices ==
  ASSUME NEW a \in Nat, NEW k \in Nat \ {0}
  PROVE  CeilDiv(a, k) \in Nat /\ a <= k * CeilDiv(a, k)
<1>1. a + k - 1 \in Nat
  OBVIOUS
<1>2. (a + k - 1) \div k \in Nat /\ a + k - 1 < k * ((a + k - 1) \div k) + k
  BY <1>1, QuotientIs
<1> QED
  BY <1>2 DEF CeilDiv

\* Of a table with accurate statistics no fewer pages are expected than its rows fill.
LEMMA TableShort ==
  ASSUME profile \in Profiles, NEW live \in Nat
  PROVE  /\ HeapUnfilled(HeapPages(live), profile.fillfactor, RowSize(profile, 0)) \in Nat
         /\ HeapPages(live)
              - EstimatedTablePages(Batch * live, RowSize(profile, 0), profile.fillfactor)
              <= HeapUnfilled(HeapPages(live), profile.fillfactor, RowSize(profile, 0))
<1> DEFINE n == live * Batch  t == RowSize(profile, 0)  ff == profile.fillfactor  k == HeapPerPage
           row == 100 * t  share == 8168 * ff  estimated == EstimatedTablePages(n, t, ff)
<1>1. n \in Nat /\ Batch * live = n
  BY ServerAssumption
<1>2. t \in Nat /\ ff \in Nat \ {0}
  BY ProfileSizes
<1>3. k \in Nat \ {0} /\ HeapPages(live) = Pages(n, k)
  BY RowsPerPage, HeapPagesAre
<1>4. HeapUnfilled(HeapPages(live), ff, t) = Unfilled(Pages(n, k), share, row, k)
  BY <1>3 DEF HeapUnfilled, HeapPerPage
<1>5. estimated = CeilDiv(n * t * 100, share)
  BY DEF EstimatedTablePages, BlockSize, PageHeader
<1>6. row \in Nat /\ share \in Nat \ {0} /\ n * t * 100 = row * n /\ row * n \in Nat
  BY <1>1, <1>2
<1> HIDE DEF n, k, row, share, estimated
<1>7. estimated \in Nat /\ row * n <= share * estimated
  BY <1>5, <1>6, CeilDivSuffices
<1>8. /\ Unfilled(Pages(n, k), share, row, k) \in Nat
      /\ Pages(n, k) - estimated <= Unfilled(Pages(n, k), share, row, k)
  BY <1>1, <1>3, <1>6, <1>7, UnfilledIs, ShortByUnfilled
<1> QED
  BY <1>1, <1>3, <1>4, <1>8 DEF estimated

\* Nor of an index, its root aside.
LEMMA IndexShort ==
  ASSUME profile \in Profiles, profile.ituple <= IndexRoom, NEW live \in Nat
  PROVE  /\ LeavesUnfilled(Leaves(live)) \in Nat
         /\ 1 + Leaves(live)
              - EstimatedIndexPages(Batch * live, EntrySize(profile, 0), profile.ifillfactor)
              <= LeavesUnfilled(Leaves(live))
<1> DEFINE n == live * Batch  t == EntrySize(profile, 0)  ff == profile.ifillfactor
           k == IndexPerPage
           row == 100 * t  share == 8152 * ff  perPage == share \div row
           estimated == CeilDiv(n, perPage)
<1>1. n \in Nat /\ Batch * live = n
  BY ServerAssumption
<1>2. /\ t \in Nat \ {0} /\ t <= profile.ituple /\ profile.ituple \in Nat
      /\ ff \in Nat \ {0} /\ 10 <= ff /\ ff <= 100 /\ \E m \in Nat : t = 4 * m
  BY ProfileSizes
<1>3. k \in Nat \ {0} /\ Leaves(live) = Pages(n, k)
  BY RowsPerPage, BtreePagesAre
<1>4. LeavesUnfilled(Leaves(live)) = Unfilled(Pages(n, k), share, row, k)
  BY <1>3 DEF LeavesUnfilled, IndexPerPage
<1>5. EstimatedIndexPages(n, t, ff) = IF perPage = 0 THEN 0 ELSE 1 + estimated
  BY DEF EstimatedIndexPages, BlockSize, BtreeSpecial, PageHeader
<1>6. row \in Nat \ {0} /\ share \in Nat \ {0}
  BY <1>2
<1>7. row <= share
  <2>1. PICK m \in Nat : t = 4 * m
    BY <1>2
  <2>2. 4 * m <= 8152 - (8192 * (100 - ff)) \div 100
    <3>1. (8192 * (100 - ff)) \div 100 \in Int
      BY <1>2
    <3>2. t <= profile.ituple /\ profile.ituple <= 8152 - (8192 * (100 - ff)) \div 100
      BY <1>2 DEF IndexRoom
    <3> HIDE DEF t, ff
    <3> QED
      BY <1>2, <2>1, <3>1, <3>2
  <2> HIDE DEF t, ff, row, share
  <2>3. 100 * (4 * m) <= 8152 * ff
    BY <1>2, <2>1, <2>2, RoomIsShare
  <2> QED
    BY <2>1, <2>3 DEF row, share
<1> HIDE DEF n, k, row, share
<1>8. perPage \in Nat \ {0} /\ row * perPage <= share
  <2>1. perPage \in Nat /\ row * perPage <= share /\ share < row * perPage + row
    BY <1>6, QuotientIs
  <2>2. perPage # 0
    BY <1>6, <1>7, <2>1
  <2> QED
    BY <2>1, <2>2
<1> HIDE DEF perPage
<1>9. estimated \in Nat /\ n <= perPage * estimated
  BY <1>1, <1>8, CeilDivSuffices
<1>10. EstimatedIndexPages(n, t, ff) = 1 + estimated
  BY <1>5, <1>8
<1> HIDE DEF estimated, t, ff
<1>11. row * n <= share * estimated
  <2>1. perPage * estimated \in Nat
    BY <1>8, <1>9
  <2>2. row * n <= row * (perPage * estimated)
    BY <1>1, <1>6, <1>9, <2>1, TimesMonotone
  <2>3. row * (perPage * estimated) = (row * perPage) * estimated /\ row * perPage \in Nat
    BY <1>6, <1>8, <1>9
  <2>4. (row * perPage) * estimated <= share * estimated
    BY <1>6, <1>8, <1>9, <2>3, TimesMonotone
  <2>5. row * n \in Int /\ (row * perPage) * estimated \in Int /\ share * estimated \in Int
    BY <1>1, <1>6, <1>9, <2>3
  <2> QED
    BY <2>2, <2>3, <2>4, <2>5
<1>12. /\ Unfilled(Pages(n, k), share, row, k) \in Nat
       /\ Pages(n, k) - estimated <= Unfilled(Pages(n, k), share, row, k)
  BY <1>1, <1>3, <1>6, <1>9, <1>11, UnfilledIs, ShortByUnfilled
<1>13. Pages(n, k) \in Nat
  BY <1>1, <1>3, PagesSuffice
<1>14. 1 + Leaves(live) - EstimatedIndexPages(n, t, ff) <= LeavesUnfilled(Leaves(live))
  BY <1>3, <1>4, <1>9, <1>10, <1>12, <1>13
<1> QED
  BY <1>1, <1>4, <1>12, <1>14 DEF t, ff

-----------------------------------------------------------------------------
(* Nothing comes into the report that is not so *)

\* A candidate of the table or of its index as they are, estimated or measured.
Genuine(row) ==
  \/ /\ row.kind = "table"
     /\ Estimated(table.seen.tuples, table.seen.pages) /\ Candidate(TableRow)
     /\ row \in {TableRow, ExactRow(TableRow)}
  \/ /\ row.kind = "index"
     /\ Estimated(table.seen.ituples, table.seen.ipages) /\ Candidate(IndexRow)

\* How the rows of a printed report were come by.
Method == IF cmd = "exact" THEN "exact" ELSE "estimate"

RowsCurrent ==
  cmd # "vacuum" =>
    /\ quiet /\ pc \in {"measure", "printed"} => \A i \in DOMAIN rows : Genuine(rows[i])
    /\ pc = "printed" => \A i \in DOMAIN rows : rows[i].method = Method

LEMMA RowsCurrentInit == Init => RowsCurrent
  BY DEF Init, First, RowsCurrent

LEMMA SameGenuine ==
  ASSUME UNCHANGED serverVars, NEW row, Genuine(row)
  PROVE  Genuine(row)'
<1>1. UNCHANGED <<profile, table>>
  BY DEF serverVars
<1>2. ExactRow(TableRow)' = ExactRow(TableRow)
  <2>1. TableRow' = TableRow
    BY SameRows
  <2>2. FreeAndDead' = FreeAndDead /\ LeafSlack' = LeafSlack
    BY <1>1 DEF FreeAndDead, LeafSlack, Entries
  <2> QED
    BY <1>1, <2>1, <2>2 DEF ExactRow
<1>3. Candidate(TableRow)' = Candidate(TableRow) /\ Candidate(IndexRow)' = Candidate(IndexRow)
  BY SameRows DEF Candidate, AtLeastPct
<1> QED
  BY <1>2, <1>3, SameRows DEF Genuine

\* What the filter leaves are candidates.
LEMMA OnlyCandidates ==
  ASSUME NEW list \in Seq(EstimatedRows), Len(list) <= 1, NEW i \in DOMAIN Candidates(list)
  PROVE  i \in DOMAIN list /\ Candidates(list)[i] = list[i] /\ Candidate(list[i])
<1>1. DOMAIN list = 1..Len(list) /\ Len(list) \in Nat
  BY LenProperties
<1>2. CASE list # << >> /\ ~Candidate(list[1])
  <2>1. Candidates(list) = << >>
    BY <1>2 DEF Candidates
  <2> QED
    BY <2>1
<1>3. CASE ~(list # << >> /\ ~Candidate(list[1]))
  <2>1. Candidates(list) = list
    BY <1>3 DEF Candidates
  <2>2. i = 1 /\ list # << >>
    BY <1>1, <2>1
  <2> QED
    BY <1>3, <2>1, <2>2
<1> QED
  BY <1>2, <1>3

\* Who is in a joined list is in one of its parts.
LEMMA OfThePartsJoined ==
  ASSUME NEW S, NEW s \in Seq(S), NEW t \in Seq(S), NEW i \in DOMAIN (s \o t)
  PROVE  (\E j \in DOMAIN s : (s \o t)[i] = s[j]) \/ (\E j \in DOMAIN t : (s \o t)[i] = t[j])
<1>1. /\ Len(s) \in Nat /\ DOMAIN s = 1..Len(s) /\ Len(t) \in Nat /\ DOMAIN t = 1..Len(t)
  BY LenProperties
<1>2. /\ s \o t \in Seq(S) /\ Len(s \o t) = Len(s) + Len(t)
      /\ \A k \in 1..(Len(s) + Len(t)) :
           (s \o t)[k] = IF k <= Len(s) THEN s[k] ELSE t[k - Len(s)]
  BY ConcatProperties
<1>3. i \in 1..(Len(s) + Len(t))
  BY <1>2, LenProperties
<1>4. CASE i <= Len(s)
  BY <1>1, <1>2, <1>3, <1>4
<1>5. CASE ~(i <= Len(s))
  <2>1. i - Len(s) \in DOMAIN t /\ (s \o t)[i] = t[i - Len(s)]
    BY <1>1, <1>2, <1>3, <1>5
  <2> QED
    BY <2>1
<1> QED
  BY <1>4, <1>5

LEMMA FilteredAreGenuine ==
  ASSUME TableOK, RowsOK, EstimateIndexes, rows = TableRows, NEW i \in DOMAIN rows'
  PROVE  Genuine(rows'[i])
<1> DEFINE left == Candidates(TableRows)  right == Candidates(IndexRows)
<1>1. rows' = left \o right
  BY FilteredRows
<1>2. /\ TableRows \in Seq(EstimatedRows) /\ Len(TableRows) <= 1
      /\ IndexRows \in Seq(EstimatedRows) /\ Len(IndexRows) <= 1
  BY RowsRead
<1>3. left \in Seq(EstimatedRows) /\ right \in Seq(EstimatedRows)
  BY <1>2, CandidatesAre
<1>4. ASSUME NEW j \in DOMAIN left
      PROVE  Genuine(left[j])
  <2>1. j \in DOMAIN TableRows /\ left[j] = TableRows[j] /\ Candidate(TableRows[j])
    BY <1>2, OnlyCandidates
  <2>2. Estimated(table.seen.tuples, table.seen.pages) /\ TableRows = <<TableRow>>
    BY <2>1 DEF TableRows
  <2>3. TableRows[j] = TableRow
    BY <2>1, <2>2
  <2>4. TableRow.kind = "table"
    BY <2>2, RowsOfTheTable
  <2> QED
    BY <2>1, <2>2, <2>3, <2>4 DEF Genuine
<1>5. ASSUME NEW j \in DOMAIN right
      PROVE  Genuine(right[j])
  <2>1. j \in DOMAIN IndexRows /\ right[j] = IndexRows[j] /\ Candidate(IndexRows[j])
    BY <1>2, OnlyCandidates
  <2>2. Estimated(table.seen.ituples, table.seen.ipages) /\ IndexRows = <<IndexRow>>
    BY <2>1 DEF IndexRows
  <2>3. IndexRows[j] = IndexRow
    BY <2>1, <2>2
  <2>4. IndexRow.kind = "index"
    BY <2>2, RowsOfTheTable
  <2> QED
    BY <2>1, <2>2, <2>3, <2>4 DEF Genuine
<1> HIDE DEF left, right
<1>6. ASSUME NEW k \in DOMAIN (left \o right)
      PROVE  Genuine((left \o right)[k])
  <2>1. \/ \E j \in DOMAIN left : (left \o right)[k] = left[j]
        \/ \E j \in DOMAIN right : (left \o right)[k] = right[j]
    BY <1>3, OfThePartsJoined
  <2> QED
    BY <1>4, <1>5, <2>1
<1> QED
  BY <1>1, <1>6

\* A row is measured as the row of its table, whatever was estimated of it.
LEMMA MeasuredIsGenuine ==
  ASSUME TableOK, NEW row \in GoodRows, Genuine(row)
  PROVE  Genuine(ExactRow(row)) /\ ExactRow(row).method = "exact"
<1>1. ExactRow(row).method = "exact" /\ ExactRow(row).kind = row.kind
  BY DEF ExactRow, BloatRow
<1>2. CASE row.kind = "table"
  <2>1. /\ Estimated(table.seen.tuples, table.seen.pages) /\ Candidate(TableRow)
        /\ row \in {TableRow, ExactRow(TableRow)}
    BY <1>2 DEF Genuine
  <2>2. TableRow.kind = "table" /\ TableRow.name = "table" /\ row.name = "table"
    BY <2>1, RowsOfTheTable DEF EstimatedRows, GoodRows, Rows
  <2>3. ExactRow(row) = ExactRow(TableRow)
    BY <1>2, <2>2 DEF ExactRow
  <2> QED
    BY <1>1, <1>2, <2>1, <2>3 DEF Genuine
<1>3. CASE row.kind = "index"
  BY <1>1, <1>3 DEF Genuine
<1> QED
  BY <1>1, <1>2, <1>3 DEF Genuine

\* The first that was not measured yet is measured; with the last one all are.
LEMMA AllMeasured ==
  ASSUME TableOK, RowsOK, Measure, table.exists
  PROVE  \E i \in 1..Len(rows) :
           /\ rows' = [rows EXCEPT ![i] = ExactRow(rows[i])]
           /\ pc' = "printed" => \A j \in DOMAIN rows : rows'[j].method = "exact"
<1> DEFINE waiting == {j \in DOMAIN rows : rows[j].method = "estimate"}
<1>1. /\ rows \in Seq(GoodRows) /\ Len(rows) \in Nat /\ DOMAIN rows = 1..Len(rows)
      /\ Len(rows) # 0 /\ rows[Len(rows)].method = "estimate"
  BY LenProperties DEF RowsOK, Measure
<1>2. Len(rows) \in waiting /\ waiting \subseteq Nat
  BY <1>1
<1>3. Min(waiting) \in waiting /\ \A y \in waiting : Min(waiting) <= y
  <2> HIDE DEF waiting
  <2>1. PICK x \in waiting : \A y \in waiting : ~(<<y, x>> \in OpToRel(<, Nat))
    BY <1>2, WFMin, NatLessThanWellFounded, Zenon
  <2>2. \A y \in waiting : ~(y < x)
    BY <1>2, <2>1 DEF OpToRel
  <2>3. \A y \in waiting : x <= y
    BY <1>2, <2>2
  <2> QED
    BY <2>3 DEF Min
<1> DEFINE i == Min(waiting)
<1>4. /\ rows' = [rows EXCEPT ![i] = ExactRow(rows[i])]
      /\ IF i = Len(rows) THEN ReportBloat(rows') ELSE UNCHANGED <<pc, findings>>
  BY DEF Measure
<1>5. i \in 1..Len(rows)
  BY <1>1, <1>3
<1>6. \A j \in DOMAIN rows : j < i => rows[j].method = "exact"
  <2> SUFFICES ASSUME NEW j \in DOMAIN rows, j < i
               PROVE  rows[j].method = "exact"
    OBVIOUS
  <2>1. j \notin waiting
    <3> HIDE DEF waiting
    <3>1. i \in Nat /\ \A y \in waiting : i <= y
      BY <1>2, <1>3, Zenon
    <3> HIDE DEF i
    <3>2. j \in Nat /\ j < i
      BY <1>1
    <3> QED
      BY <3>1, <3>2
  <2>2. rows[j] \in GoodRows
    BY <1>1, ElementOfSeq
  <2> QED
    BY <2>1, <2>2 DEF GoodRows, Rows
<1> HIDE DEF waiting, i
<1>7. ASSUME pc' = "printed", NEW j \in DOMAIN rows
      PROVE  rows'[j].method = "exact"
  <2>1. i = Len(rows)
    BY <1>4, <1>7 DEF Measure
  <2>2. CASE j = i
    BY <1>1, <1>4, <1>5, <2>2 DEF ExactRow, BloatRow
  <2>3. CASE j # i
    <3>1. j < i
      BY <1>1, <2>1, <2>3
    <3> QED
      BY <1>4, <1>6, <2>3, <3>1
  <2> QED
    BY <2>2, <2>3
<1> QED
  BY <1>4, <1>5, <1>7

LEMMA RowsCurrentStep ==
  ASSUME TableOK, PhaseOK, RowsOK, BloatCurrent, RowsCurrent, [Next]_vars
  PROVE  RowsCurrent'
<1>1. CASE EstimateTables
  BY <1>1 DEF EstimateTables, RowsCurrent
<1>2. CASE EstimateIndexes
  <2>1. UNCHANGED <<serverVars, cmd, quiet>> /\ pc = "indexes"
    BY <1>2 DEF EstimateIndexes
  <2>2. ASSUME quiet, cmd # "vacuum", NEW i \in DOMAIN rows'
        PROVE  Genuine(rows'[i])
    <3>1. rows = TableRows
      BY <2>1, <2>2 DEF BloatCurrent
    <3> QED
      BY <1>2, <2>2, <3>1, FilteredAreGenuine
  <2>3. ASSUME cmd # "vacuum", pc' = "printed", NEW i \in DOMAIN rows'
        PROVE  rows'[i].method = Method
    <3>1. rows' \in Seq(EstimatedRows)
      BY <1>2, FilteredRows
    <3>2. rows'[i].method = "estimate"
      BY <2>3, <3>1, LenProperties, ElementOfSeq DEF EstimatedRows
    <3>3. rows' # << >>
      BY <2>3
    <3>4. ~Measures
      BY <1>2, <2>3, <3>3 DEF EstimateIndexes
    <3> QED
      BY <3>2, <3>4 DEF Measures, Method
  <2>4. ASSUME quiet, cmd # "vacuum", NEW i \in DOMAIN rows'
        PROVE  Genuine(rows[i])'
    BY <2>1, <2>2, <2>4, SameGenuine DEF Genuine
  <2> QED
    BY <2>1, <2>3, <2>4 DEF RowsCurrent, Method
<1>3. CASE Measure
  <2>1. UNCHANGED <<serverVars, cmd, quiet>> /\ pc = "measure"
    BY <1>3 DEF Measure
  <2>2. CASE ~table.exists
    <3>1. pc' = "failed"
      BY <1>3, <2>2 DEF Measure
    <3> QED
      BY <3>1 DEF RowsCurrent
  <2>3. CASE table.exists
    <3>1. PICK i \in 1..Len(rows) :
            /\ rows' = [rows EXCEPT ![i] = ExactRow(rows[i])]
            /\ pc' = "printed" => \A j \in DOMAIN rows : rows'[j].method = "exact"
      BY <1>3, <2>3, AllMeasured
    <3>2. /\ DOMAIN rows' = DOMAIN rows /\ rows \in Seq(GoodRows) /\ DOMAIN rows = 1..Len(rows)
          /\ \A j \in DOMAIN rows : j # i => rows'[j] = rows[j]
      BY <3>1, MeasuredRows, LenProperties DEF RowsOK
    <3>3. cmd = "exact"
      BY <2>1 DEF PhaseOK, PhasesOf
    <3>4. ASSUME quiet, NEW j \in DOMAIN rows
          PROVE  Genuine(rows'[j])
      <4>1. Genuine(rows[j])
        BY <2>1, <3>3, <3>4 DEF RowsCurrent
      <4>2. CASE j # i
        BY <3>2, <4>1, <4>2
      <4>3. CASE j = i
        <5>1. rows[i] \in GoodRows
          BY <3>1, <3>2, ElementOfSeq
        <5>2. rows'[i] = ExactRow(rows[i])
          BY <3>1, <3>2
        <5> QED
          BY <4>1, <4>3, <5>1, <5>2, MeasuredIsGenuine
      <4> QED
        BY <4>2, <4>3
    <3>5. ASSUME quiet, NEW j \in DOMAIN rows'
          PROVE  Genuine(rows[j])'
      BY <2>1, <3>2, <3>4, <3>5, SameGenuine DEF Genuine
    <3> QED
      BY <2>1, <3>1, <3>2, <3>3, <3>5 DEF RowsCurrent, Method
  <2> QED
    BY <2>2, <2>3
<1>4. CASE LoadSettings \/ ReadDatabases \/ ReadRelations \/ ReadHolders
  <2>1. cmd' = "vacuum"
    BY <1>4 DEF LoadSettings, ReadDatabases, ReadRelations, ReadHolders, PhaseOK, PhasesOf
  <2> QED
    BY <2>1 DEF RowsCurrent
<1>5. CASE Again
  BY <1>5 DEF Again, First, RowsCurrent
<1>6. CASE (\E f \in findings : Follow(f)) \/ ServerActs
  <2>1. quiet' = FALSE /\ UNCHANGED <<cmd, pc, rows>>
    BY <1>6 DEF Follow, ServerActs
  <2> QED
    BY <2>1 DEF RowsCurrent, Method
<1>7. CASE UNCHANGED vars
  <2>1. UNCHANGED <<serverVars, cmd, pc, quiet, rows>>
    BY <1>7 DEF vars, toolVars
  <2>2. ASSUME NEW j \in DOMAIN rows, Genuine(rows[j])
        PROVE  Genuine(rows[j])'
    BY <2>1, <2>2, SameGenuine DEF Genuine
  <2> QED
    BY <2>1, <2>2 DEF RowsCurrent, Method
<1> QED
  BY <1>1, <1>2, <1>3, <1>4, <1>5, <1>6, <1>7 DEF Next, Tool

ReportInv == MaintenanceInv /\ RowsCurrent

LEMMA ReportInvariant == Spec => []ReportInv
<1>1. MaintenanceInv /\ RowsCurrent /\ [Next]_vars => RowsCurrent'
  BY RowsCurrentStep DEF MaintenanceInv, VacuumInv
<1> QED
  BY <1>1, RowsCurrentInit, MaintenanceInvariant, PTL DEF Spec, ReportInv

-----------------------------------------------------------------------------
(* What is called bloated, and what a rewrite returns *)

\* What is reported is a row that is there.
LEMMA SaidIsAmong ==
  ASSUME RowsOK, findings = {BloatFinding(rows[i]) : i \in DOMAIN rows}
  PROVE  /\ Says("bloat.table") => Among("table")
         /\ Says("bloat.index") => Among("index")
<1>1. ASSUME NEW i \in DOMAIN rows
      PROVE  /\ BloatFinding(rows[i]).check = "bloat.table" => rows[i].kind = "table"
             /\ BloatFinding(rows[i]).check = "bloat.index" => rows[i].kind = "index"
  <2>1. rows[i].kind \in {"table", "index"}
    BY LenProperties, ElementOfSeq DEF RowsOK, GoodRows, Rows
  <2> QED
    BY <2>1 DEF BloatFinding, Finding
<1> QED
  BY <1>1 DEF Among, Says

\* The estimates of a table with accurate statistics.
LEMMA EstimatesOfNow ==
  ASSUME TableOK, table.analyzed, Accurate
  PROVE  /\ table.live \in Nat /\ table.pages \in Nat /\ table.ipages \in Nat
         /\ Batch * table.live \in Nat
         /\ TableRow = EstimateRow("table", "table", table.pages,
              EstimatedTablePages(Batch * table.live, RowSize(profile, 0), profile.fillfactor),
              ~table.analyzed)
         /\ IndexRow = EstimateRow("index", "table", table.ipages,
              EstimatedIndexPages(Batch * table.live, EntrySize(profile, 0), profile.ifillfactor),
              ~table.analyzed)
         /\ EstimatedTablePages(Batch * table.live, RowSize(profile, 0), profile.fillfactor) \in Nat
         /\ EstimatedIndexPages(Batch * table.live, EntrySize(profile, 0), profile.ifillfactor) \in Nat
<1>1. /\ profile \in Profiles /\ table.live \in Nat /\ table.pages \in Nat /\ table.ipages \in Nat
      /\ Batch \in Nat
  BY ServerAssumption DEF TableOK, Sound, Tables
<1>2. /\ table.seen.tuples = table.live /\ table.seen.ituples = table.live
      /\ table.seen.pages = table.pages /\ table.seen.ipages = table.ipages
  BY DEF Accurate, Seen
<1> DEFINE n == Batch * table.live
<1>3. n \in Nat
  BY <1>1
<1>4. /\ TableRow = EstimateRow("table", "table", table.pages,
              EstimatedTablePages(n, RowSize(profile, 0), profile.fillfactor), ~table.analyzed)
      /\ IndexRow = EstimateRow("index", "table", table.ipages,
              EstimatedIndexPages(n, EntrySize(profile, 0), profile.ifillfactor), ~table.analyzed)
  BY <1>1, <1>2, ProfileSizes DEF TableRow, IndexRow
<1>5. /\ RowSize(profile, 0) \in Nat \ {0} /\ EntrySize(profile, 0) \in Nat \ {0}
      /\ profile.fillfactor \in Nat \ {0} /\ profile.ifillfactor \in Nat \ {0}
  BY <1>1, ProfileSizes
<1> HIDE DEF n
<1>6. /\ EstimatedTablePages(n, RowSize(profile, 0), profile.fillfactor) \in Nat
      /\ EstimatedIndexPages(n, EntrySize(profile, 0), profile.ifillfactor) \in Nat
  BY <1>3, <1>5, EstimatesAre
<1> QED
  BY <1>1, <1>3, <1>4, <1>6 DEF n

\* What was found wanting by no more than so many pages reaches the thresholds with them.
LEMMA CandidateReaches ==
  ASSUME NEW kind, NEW unusable, NEW pages \in Nat, NEW estimated \in Nat, NEW short \in Nat,
         pages - estimated <= short,
         Candidate(EstimateRow(kind, "table", pages, estimated, unusable))
  PROVE  Reaches(short, pages)
<1> DEFINE waste == IF pages > estimated THEN pages - estimated ELSE 0
           least == MinBloatPct * pages
           row == EstimateRow(kind, "table", pages, estimated, unusable)
<1>1. MinBloatPct \in Nat /\ MinBloatBytes \in Nat
  BY BloatAssumption
<1>2. waste \in Nat /\ waste <= short
  OBVIOUS
<1>3. least \in Nat /\ MinBloatPct * (BlockSize * pages) = BlockSize * least
  BY <1>1 DEF BlockSize
<1>4. row.bloat_bytes = BlockSize * waste /\ row.real_bytes = BlockSize * pages
  BY DEF EstimateRow, BloatRow, BlockSize
<1> HIDE DEF waste, row, least
<1>5. BlockSize * waste >= MinBloatBytes /\ 100 * (BlockSize * waste) >= BlockSize * least
  BY <1>3, <1>4 DEF Candidate, AtLeastPct, row
<1>6. BlockSize * short >= MinBloatBytes /\ 100 * short >= least
  BY <1>1, <1>2, <1>3, <1>5 DEF BlockSize
<1> QED
  BY <1>6 DEF Reaches, least

\* A report of a bloat command that is current has rows of the table as it is.
LEMMA ReportedAre ==
  ASSUME ReportInv, Current({"bloat", "exact"})
  PROVE  /\ Says("bloat.table") => Candidate(TableRow)
         /\ Says("bloat.index") => Candidate(IndexRow)
         /\ \A i \in DOMAIN rows :
              /\ rows[i] \in GoodRows /\ rows[i].method = Method
              /\ rows[i].kind = "table" =>
                   Estimated(table.seen.tuples, table.seen.pages)
                     /\ rows[i] \in {TableRow, ExactRow(TableRow)}
<1>1. RowsOK /\ BloatCurrent /\ RowsCurrent
  BY DEF ReportInv, MaintenanceInv
<1>2. pc = "printed" /\ quiet /\ cmd # "vacuum"
  BY DEF Current
<1>3. findings = {BloatFinding(rows[i]) : i \in DOMAIN rows}
  BY <1>1, <1>2 DEF BloatCurrent
<1>4. \A i \in DOMAIN rows : Genuine(rows[i]) /\ rows[i].method = Method
  BY <1>1, <1>2 DEF RowsCurrent
<1>5. \A i \in DOMAIN rows : rows[i] \in GoodRows
  BY <1>1, LenProperties, ElementOfSeq DEF RowsOK
<1>6. Says("bloat.table") => Candidate(TableRow)
  BY <1>1, <1>3, <1>4, SaidIsAmong DEF Among, Genuine
<1>7. Says("bloat.index") => Candidate(IndexRow)
  BY <1>1, <1>3, <1>4, SaidIsAmong DEF Among, Genuine
<1> QED
  BY <1>4, <1>5, <1>6, <1>7 DEF Genuine

\* The unit of the sum apart: a page has 8168 bytes for rows.
LEMMA ExactFalls ==
  ASSUME TableOK, profile \in Profiles
  PROVE  /\ FreeAndDead \in Nat /\ HeapPages(table.live) \in Nat /\ table.pages \in Nat
         /\ HeapPages(table.live) <= table.pages
         /\ HeapUnfilled(HeapPages(table.live), 100, profile.tuple) \in Nat
         /\ FreeAndDead
              < BlockSize * (table.pages - HeapPages(table.live)
                               + HeapUnfilled(HeapPages(table.live), 100, profile.tuple) + 1)
<1> DEFINE live == table.live  dead == Cardinality(table.dead)  n == live * Batch
           t == profile.tuple  k == HeapPerPage  row == 100 * t  share == 816800
           fresh == HeapPages(live)  pages == table.pages
           kept == HeapUnfilled(fresh, 100, t)
<1>1. /\ live \in Nat /\ dead \in Nat /\ Batch \in Nat /\ pages \in Nat
      /\ HeapPages(live + dead) <= pages
  <2>1. /\ xid \in Nat \ {0} /\ live \in Nat /\ pages \in Nat
        /\ table.dead \in SUBSET (1..(xid - 1)) /\ HeapPages(live + dead) <= pages
    BY DEF TableOK, Sound, Tables
  <2>2. dead \in Nat
    BY <2>1, SomeXids
  <2> QED
    BY <2>1, <2>2, ServerAssumption
<1>2. fresh \in Nat /\ fresh <= pages
  <2> HIDE DEF live, dead, pages
  <2>1. live + dead \in Nat /\ live \in 0..(live + dead)
    BY <1>1
  <2>2. /\ HeapPages(live + dead) \in Nat /\ HeapPages(live) \in Nat
        /\ HeapPages(live) <= HeapPages(live + dead)
    BY <1>1, <2>1, HeapPagesAre
  <2> QED
    BY <1>1, <2>2
<1>3. t \in Nat /\ n \in Nat
  BY <1>1, ProfileSizes
<1>4. k \in Nat \ {0} /\ fresh = Pages(n, k)
  <2>1. k \in Nat \ {0}
    BY RowsPerPage
  <2> HIDE DEF live, k
  <2>2. HeapPages(live) = Pages(live * Batch, HeapPerPage)
    BY <1>1, HeapPagesAre
  <2> QED
    BY <2>1, <2>2 DEF k
<1>5. kept = Unfilled(Pages(n, k), share, row, k)
  BY <1>4 DEF HeapUnfilled, HeapPerPage
<1>6. FreeAndDead \in Nat /\ FreeAndDead = 8168 * pages - Batch * (t * live + 4 * dead)
  BY FreeAndDeadIs DEF FreeAndDead
<1>7. Batch * (t * live + 4 * dead) = t * n + 4 * (dead * Batch)
  BY <1>1, <1>3
<1> HIDE DEF live, dead, n, t, k, row, share, fresh, pages, kept
<1>8. kept \in Nat /\ share * fresh - row * n < share * (kept + 1)
  <2>1. row \in Nat /\ share \in Nat \ {0}
    BY <1>3 DEF row, share
  <2> QED
    BY <1>3, <1>4, <1>5, <2>1, UnfilledIs
<1>9. row * n = 100 * (t * n) /\ t * n \in Nat /\ dead * Batch \in Nat
  BY <1>1, <1>3 DEF row
<1> DEFINE filled == t * n  stubs == dead * Batch
<1>10. /\ filled \in Nat /\ stubs \in Nat /\ FreeAndDead = 8168 * pages - (filled + 4 * stubs)
       /\ 816800 * fresh - 100 * filled < 816800 * (kept + 1)
  BY <1>6, <1>7, <1>8, <1>9 DEF share
<1> HIDE DEF filled, stubs
<1> DEFINE room == pages - fresh + kept + 1
<1>11. FreeAndDead < 8168 * room /\ room \in Nat
  BY <1>1, <1>2, <1>8, <1>10
<1> HIDE DEF room
<1>12. FreeAndDead < BlockSize * room
  BY <1>6, <1>11 DEF BlockSize
<1> QED
  <2>1. /\ FreeAndDead \in Nat /\ fresh \in Nat /\ pages \in Nat /\ fresh <= pages /\ kept \in Nat
        /\ FreeAndDead < BlockSize * (pages - fresh + kept + 1)
    BY <1>1, <1>2, <1>6, <1>8, <1>12 DEF room
  <2> QED
    BY <2>1, Zenon DEF live, pages, fresh, kept, t

\* The leaves of the rows there are are among the pages of the index.
LEMMA IndexHasLeaves ==
  ASSUME TableOK
  PROVE  Leaves(table.live) \in Nat /\ 1 + Leaves(table.live) <= table.ipages
<1> DEFINE live == table.live  held == Cardinality(table.indexed)
<1>1. /\ live \in Nat /\ held \in Nat /\ profile \in Profiles /\ table.ipages \in Nat
      /\ BtreePages(live + held) <= table.ipages
  <2>1. /\ xid \in Nat \ {0} /\ live \in Nat /\ table.ipages \in Nat /\ profile \in Profiles
        /\ table.indexed \in SUBSET (1..(xid - 1)) /\ BtreePages(live + held) <= table.ipages
    BY DEF TableOK, Sound, Tables, Entries
  <2>2. held \in Nat
    BY <2>1, SomeXids
  <2> QED
    BY <2>1, <2>2
<1> HIDE DEF live, held
<1>2. live + held \in Nat /\ live \in 0..(live + held)
  BY <1>1
<1>3. /\ Leaves(live) \in Nat /\ 1 + Leaves(live) <= BtreePages(live) /\ BtreePages(live) \in Nat
      /\ BtreePages(live + held) \in Nat /\ BtreePages(live) <= BtreePages(live + held)
  BY <1>1, <1>2, BtreePagesAre
<1> QED
  BY <1>1, <1>3 DEF live

LEMMA AllExplained == ReportInv => BloatIsExplained
<1> SUFFICES ASSUME ReportInv, Current({"bloat", "exact"}), table.exists, table.analyzed, Accurate
             PROVE  /\ Says("bloat.table") =>
                         Reaches(table.pages - HeapPages(table.live)
                           + HeapUnfilled(HeapPages(table.live), profile.fillfactor,
                                          RowSize(profile, 0)), table.pages)
                    /\ profile.ituple <= IndexRoom /\ Says("bloat.index") =>
                         Reaches(IndexKept(table.live), table.ipages)
  BY DEF BloatIsExplained
<1> DEFINE expected == EstimatedTablePages(Batch * table.live, RowSize(profile, 0), profile.fillfactor)
           iexpected == EstimatedIndexPages(Batch * table.live, EntrySize(profile, 0), profile.ifillfactor)
           leaves == Leaves(table.live)  fresh == HeapPages(table.live)
<1>1. TableOK /\ profile \in Profiles
  BY DEF ReportInv, MaintenanceInv, VacuumInv, TableOK
<1>2. /\ table.live \in Nat /\ table.pages \in Nat /\ table.ipages \in Nat
      /\ TableRow = EstimateRow("table", "table", table.pages, expected, ~table.analyzed)
      /\ IndexRow = EstimateRow("index", "table", table.ipages, iexpected, ~table.analyzed)
      /\ expected \in Nat /\ iexpected \in Nat
  BY <1>1, EstimatesOfNow
<1>3. ASSUME Says("bloat.table")
      PROVE  Reaches(table.pages - fresh
               + HeapUnfilled(fresh, profile.fillfactor, RowSize(profile, 0)), table.pages)
  <2> DEFINE kept == HeapUnfilled(fresh, profile.fillfactor, RowSize(profile, 0))
             short == table.pages - fresh + kept
  <2>1. kept \in Nat /\ fresh - expected <= kept
    BY <1>1, <1>2, TableShort
  <2>2. fresh \in Nat /\ fresh <= table.pages
    BY <1>1, ExactFalls
  <2>3. Candidate(TableRow)
    BY <1>3, ReportedAre
  <2> HIDE DEF expected, kept, fresh
  <2>4. short \in Nat /\ table.pages - expected <= short
    BY <1>2, <2>1, <2>2
  <2> HIDE DEF short
  <2>5. Reaches(short, table.pages)
    BY <1>2, <2>3, <2>4, CandidateReaches
  <2> QED
    BY <2>5 DEF short, kept, fresh
<1>4. ASSUME profile.ituple <= IndexRoom, Says("bloat.index")
      PROVE  Reaches(IndexKept(table.live), table.ipages)
  <2> DEFINE unfilled == LeavesUnfilled(leaves)
             short == unfilled + table.ipages - 1 - leaves
  <2>1. unfilled \in Nat /\ 1 + leaves - iexpected <= unfilled
    BY <1>1, <1>2, <1>4, IndexShort
  <2>2. leaves \in Nat /\ 1 + leaves <= table.ipages
    BY <1>1, IndexHasLeaves
  <2>3. Candidate(IndexRow)
    BY <1>4, ReportedAre
  <2> HIDE DEF iexpected, unfilled, leaves
  <2>4. short \in Nat /\ table.ipages - iexpected <= short
    BY <1>2, <2>1, <2>2
  <2> HIDE DEF short
  <2>5. Reaches(short, table.ipages)
    BY <1>2, <2>3, <2>4, CandidateReaches
  <2> QED
    BY <2>5 DEF short, unfilled, leaves, IndexKept
<1> QED
  BY <1>3, <1>4

\* analyze_bloat (bloat.py:321-374) names a table or an index with fresh statistics only
\* if what a rewrite would take off it and what it would not, the ends of its pages, the
\* padding of its rows and the pages of an index above its leaves, reach both thresholds
\* together: estimate_table_bloat and estimate_index_bloat (bloat.py:200-239) count no
\* page more than that as waste.
THEOREM BloatExplained == Spec => []BloatIsExplained
  BY AllExplained, ReportInvariant, PTL

\* An estimate counts what a rewrite returns, and what it leaves unfilled.
LEMMA EstimateFalls ==
  ASSUME NEW pages \in Nat, NEW fresh \in Nat, NEW kept \in Nat, NEW estimated \in Nat,
         fresh <= pages, fresh - estimated <= kept, NEW unusable
  PROVE  EstimateRow("table", "table", pages, estimated, unusable).bloat_bytes
           < BlockSize * (pages - fresh + kept + 1)
<1> DEFINE waste == IF pages > estimated THEN pages - estimated ELSE 0
           room == pages - fresh + kept + 1
<1>1. waste \in Nat /\ room \in Nat /\ waste < room
  OBVIOUS
<1>2. EstimateRow("table", "table", pages, estimated, unusable).bloat_bytes = BlockSize * waste
  BY DEF EstimateRow, BloatRow, BlockSize
<1> HIDE DEF waste, room
<1>3. BlockSize * waste < BlockSize * room
  BY <1>1 DEF BlockSize
<1> QED
  BY <1>2, <1>3 DEF room

LEMMA WholePages ==
  ASSUME TableOK
  PROVE  /\ table.pages \in Int /\ HeapPages(table.live) \in Int /\ Rewritten.pages \in Int
         /\ HeapUnfilled(HeapPages(table.live), 100, profile.tuple) \in Int
         /\ HeapUnfilled(HeapPages(table.live), profile.fillfactor, RowSize(profile, 0)) \in Int
<1>1. profile \in Profiles /\ table.live \in Nat
  BY DEF TableOK, Sound, Tables
<1>2. Rewritten.pages \in Nat
  BY RewrittenIsSound DEF Sound, Tables
<1>3. HeapUnfilled(HeapPages(table.live), profile.fillfactor, RowSize(profile, 0)) \in Nat
  BY <1>1, TableShort
<1> QED
  BY <1>1, <1>2, <1>3, ExactFalls

\* What analyze_bloat counts of a table for which it asks for a rewrite (bloat.py:307-318,
\* 321-374) comes back with it, to a page, but for the rows that somebody's horizon keeps,
\* and for what pages of the same rows cannot do without: their ends, and for an estimate
\* the padding inside the rows.
THEOREM RewriteReturns == Spec => []RewriteReturnsSpace
<1>1. ReportInv => RewriteReturnsSpace
  <2> SUFFICES ASSUME ReportInv, Current({"bloat", "exact"}), table.exists,
                      cmd = "exact" \/ (table.analyzed /\ Accurate),
                      NEW i \in DOMAIN rows, rows[i].kind = "table"
               PROVE  rows[i].bloat_bytes
                        < BlockSize * (table.pages - Rewritten.pages
                            + (Rewritten.pages - HeapPages(table.live))
                            + (IF cmd = "exact"
                               THEN HeapUnfilled(HeapPages(table.live), 100, profile.tuple)
                               ELSE HeapUnfilled(HeapPages(table.live), profile.fillfactor,
                                                 RowSize(profile, 0))) + 1)
    BY DEF RewriteReturnsSpace
  <2> SUFFICES rows[i].bloat_bytes
                 < BlockSize * (table.pages - HeapPages(table.live)
                     + (IF cmd = "exact"
                        THEN HeapUnfilled(HeapPages(table.live), 100, profile.tuple)
                        ELSE HeapUnfilled(HeapPages(table.live), profile.fillfactor,
                                          RowSize(profile, 0))) + 1)
    <3> DEFINE fresh == HeapPages(table.live)  new == Rewritten.pages  pages == table.pages
               kept == IF cmd = "exact" THEN HeapUnfilled(fresh, 100, profile.tuple)
                       ELSE HeapUnfilled(fresh, profile.fillfactor, RowSize(profile, 0))
    <3>1. TableOK
      BY DEF ReportInv, MaintenanceInv, VacuumInv
    <3>2. pages \in Int /\ fresh \in Int /\ new \in Int /\ kept \in Int
      BY <3>1, WholePages
    <3> HIDE DEF fresh, new, pages, kept
    <3>3. pages - new + (new - fresh) + kept + 1 = pages - fresh + kept + 1
      BY <3>2
    <3> QED
      BY <3>3, Zenon DEF fresh, new, pages, kept
  <2> DEFINE fresh == HeapPages(table.live)
             expected == EstimatedTablePages(Batch * table.live, RowSize(profile, 0), profile.fillfactor)
  <2>1. TableOK /\ profile \in Profiles
    BY DEF ReportInv, MaintenanceInv, VacuumInv, TableOK
  <2>2. /\ rows[i].method = Method /\ rows[i] \in {TableRow, ExactRow(TableRow)}
        /\ Estimated(table.seen.tuples, table.seen.pages)
    BY ReportedAre
  <2>3. /\ TableRow.kind = "table" /\ TableRow.method = "estimate"
        /\ ExactRow(TableRow).method = "exact"
        /\ ExactRow(TableRow).bloat_bytes = FreeAndDead
    <3>1. TableRow.kind = "table" /\ TableRow.method = "estimate"
      BY <2>1, <2>2, RowsOfTheTable DEF EstimatedRows
    <3> QED
      BY <3>1 DEF ExactRow, BloatRow
  <2>4. CASE cmd = "exact"
    <3>1. rows[i].bloat_bytes = FreeAndDead
      BY <2>2, <2>3, <2>4 DEF Method
    <3>2. FreeAndDead < BlockSize * (table.pages - fresh + HeapUnfilled(fresh, 100, profile.tuple) + 1)
      BY <2>1, ExactFalls
    <3> QED
      BY <2>4, <3>1, <3>2
  <2>5. CASE cmd # "exact"
    <3> DEFINE kept == HeapUnfilled(fresh, profile.fillfactor, RowSize(profile, 0))
    <3>1. rows[i] = TableRow
      BY <2>2, <2>3, <2>5 DEF Method
    <3>2. /\ table.live \in Nat /\ table.pages \in Nat /\ expected \in Nat
          /\ TableRow = EstimateRow("table", "table", table.pages, expected, ~table.analyzed)
      BY <2>1, <2>5, EstimatesOfNow
    <3>3. fresh \in Nat /\ fresh <= table.pages
      BY <2>1, ExactFalls
    <3>4. kept \in Nat /\ fresh - expected <= kept
      BY <2>1, <3>2, TableShort
    <3> HIDE DEF expected, fresh, kept
    <3>5. TableRow.bloat_bytes < BlockSize * (table.pages - fresh + kept + 1)
      BY <3>2, <3>3, <3>4, EstimateFalls
    <3> QED
      BY <2>5, <3>1, <3>5 DEF fresh, kept
  <2> QED
    BY <2>4, <2>5
<1> QED
  BY <1>1, ReportInvariant, PTL

-----------------------------------------------------------------------------
(* The default thresholds *)

\* With five rows to a page, or more, not a fifth of what the fillfactor grants is left.
LEMMA HeapEnds ==
  ASSUME profile \in Profiles, 5 * profile.tuple <= HeapRoom
  PROVE  /\ 100 * profile.tuple * HeapPerPage <= 8168 * profile.fillfactor
         /\ 100 * (8168 * profile.fillfactor - 100 * profile.tuple * HeapPerPage)
              <= 19 * (8168 * profile.fillfactor)
<1> DEFINE t == profile.tuple  ff == profile.fillfactor  k == HeapPerPage  room == HeapRoom
           kept == 8192 * (100 - ff)  q == kept \div 100  filled == t * k
<1>1. /\ t \in Nat \ {0} /\ (\E m \in Nat : t = 4 * m)
      /\ ff \in Nat /\ 10 <= ff /\ ff <= 100
  BY ProfileSizes
<1>2. k \in Nat \ {0}
  BY RowsPerPage
<1>3. kept \in Nat /\ q \in Nat /\ 100 * q <= kept /\ kept = 819200 - 8192 * ff
  <2>1. kept \in Nat /\ kept = 819200 - 8192 * ff
    BY <1>1
  <2> QED
    BY <2>1, QuotientIs
<1>4. room = 8168 - q
  BY DEF HeapRoom
<1>5. k = PerPage(room, t)
  BY DEF HeapPerPage
<1> HIDE DEF t, ff, k, room, kept, q
<1>6. room \in Nat /\ 5 * t <= room /\ 100 * room >= 8192 * ff - 2400
  BY <1>1, <1>3, <1>4 DEF t, room
<1>7. k = room \div t /\ t * k <= room /\ room < t * k + t
  <2>1. k = room \div t
    BY <1>1, <1>5, <1>6 DEF PerPage
  <2>2. t \in Nat \ {0} /\ room \in Nat
    BY <1>1, <1>6
  <2>3. t * (room \div t) <= room /\ room < t * (room \div t) + t
    BY <2>2, QuotientIs
  <2> QED
    BY <2>1, <2>3, Zenon
<1>8. filled \in Nat /\ filled <= room /\ 5 * room < 6 * filled
  <2>1. filled \in Nat
    BY <1>1, <1>2
  <2>2. 5 <= k
    <3>1. CASE k <= 4
      <4>1. t * k <= t * 4
        BY <1>1, <1>2, <3>1, TimesMonotone
      <4> QED
        BY <1>1, <1>6, <1>7, <2>1, <4>1
    <3> QED
      BY <1>2, <3>1
  <2>3. t * 5 <= t * k
    BY <1>1, <1>2, <2>2, TimesMonotone
  <2> HIDE DEF filled
  <2> QED
    BY <1>1, <1>6, <1>7, <2>1, <2>3 DEF filled
<1>9. 100 * filled <= 8168 * ff
  <2>1. PICK m \in Nat : t = 4 * m
    BY <1>1
  <2>2. m * k \in Nat /\ filled = 4 * (m * k)
    BY <1>1, <1>2, <2>1, MultipleOfFour
  <2> DEFINE f == m * k
  <2>3. f \in Nat /\ filled = 4 * f /\ 4 * f <= 8168 - (8192 * (100 - ff)) \div 100
    BY <1>4, <1>8, <2>2 DEF q, kept
  <2> HIDE DEF f, filled
  <2>4. 100 * (4 * f) <= 8168 * ff
    BY <1>1, <2>3, RoomIsShare
  <2> QED
    BY <2>3, <2>4
<1>10. 100 * t * k = 100 * filled
  BY <1>1, <1>2
<1> HIDE DEF filled
<1>11. 100 * (8168 * ff - 100 * filled) <= 19 * (8168 * ff)
  BY <1>1, <1>6, <1>8
<1> QED
  BY <1>9, <1>10, <1>11 DEF t, k, ff

\* Nor with six or more entries to a leaf.
LEMMA LeafEnds ==
  ASSUME profile \in Profiles, 6 * profile.ituple <= IndexRoom
  PROVE  /\ 100 * profile.ituple * IndexPerPage <= 8152 * profile.ifillfactor
         /\ 100 * (8152 * profile.ifillfactor - 100 * profile.ituple * IndexPerPage)
              <= 19 * (8152 * profile.ifillfactor)
<1> DEFINE t == profile.ituple  ff == profile.ifillfactor  k == IndexPerPage  room == IndexRoom
           kept == 8192 * (100 - ff)  q == kept \div 100  filled == t * k
<1>1. /\ t \in Nat \ {0} /\ (\E m \in Nat : t = 4 * m)
      /\ ff \in Nat /\ 10 <= ff /\ ff <= 100
  BY ProfileSizes
<1>2. k \in Nat \ {0}
  BY RowsPerPage
<1>3. kept \in Nat /\ q \in Nat /\ 100 * q <= kept /\ kept = 819200 - 8192 * ff
  <2>1. kept \in Nat /\ kept = 819200 - 8192 * ff
    BY <1>1
  <2> QED
    BY <2>1, QuotientIs
<1>4. room = 8152 - q
  BY DEF IndexRoom
<1>5. k = PerPage(room, t)
  BY DEF IndexPerPage
<1> HIDE DEF t, ff, k, room, kept, q
<1>6. room \in Nat /\ 6 * t <= room /\ 100 * room >= 8192 * ff - 4000
  BY <1>1, <1>3, <1>4 DEF t, room
<1>7. k = room \div t /\ t * k <= room /\ room < t * k + t
  <2>1. k = room \div t
    BY <1>1, <1>5, <1>6 DEF PerPage
  <2>2. t \in Nat \ {0} /\ room \in Nat
    BY <1>1, <1>6
  <2>3. t * (room \div t) <= room /\ room < t * (room \div t) + t
    BY <2>2, QuotientIs
  <2> QED
    BY <2>1, <2>3, Zenon
<1>8. filled \in Nat /\ filled <= room /\ 6 * room < 7 * filled
  <2>1. filled \in Nat
    BY <1>1, <1>2
  <2>2. 6 <= k
    <3>1. CASE k <= 5
      <4>1. t * k <= t * 5
        BY <1>1, <1>2, <3>1, TimesMonotone
      <4> QED
        BY <1>1, <1>6, <1>7, <2>1, <4>1
    <3> QED
      BY <1>2, <3>1
  <2>3. t * 6 <= t * k
    BY <1>1, <1>2, <2>2, TimesMonotone
  <2> HIDE DEF filled
  <2> QED
    BY <1>1, <1>6, <1>7, <2>1, <2>3 DEF filled
<1>9. 100 * filled <= 8152 * ff
  <2>1. PICK m \in Nat : t = 4 * m
    BY <1>1
  <2>2. m * k \in Nat /\ filled = 4 * (m * k)
    BY <1>1, <1>2, <2>1, MultipleOfFour
  <2> DEFINE f == m * k
  <2>3. f \in Nat /\ filled = 4 * f /\ 4 * f <= 8152 - (8192 * (100 - ff)) \div 100
    BY <1>4, <1>8, <2>2 DEF q, kept
  <2> HIDE DEF f, filled
  <2>4. 100 * (4 * f) <= 8152 * ff
    BY <1>1, <2>3, RoomIsShare
  <2> QED
    BY <2>3, <2>4
<1>10. 100 * t * k = 100 * filled
  BY <1>1, <1>2
<1> HIDE DEF filled
<1>11. 100 * (8152 * ff - 100 * filled) <= 19 * (8152 * ff)
  BY <1>1, <1>6, <1>8
<1> QED
  BY <1>9, <1>10, <1>11 DEF t, k, ff

LEMMA SmallEnds ==
  ASSUME NEW pages \in Nat, NEW share \in Nat \ {0}, NEW row \in Nat, NEW k \in Nat \ {0},
         row * k <= share, 100 * (share - row * k) <= 19 * share
  PROVE  Unfilled(pages, share, row, k) \in Nat
           /\ 100 * Unfilled(pages, share, row, k) <= 19 * pages + 100
<1> DEFINE end == share - k * row  left == (pages - 1) * end + share - row  q == left \div share
<1>1. end \in Nat /\ 100 * end <= 19 * share
  <2>1. row * k = k * row /\ k * row \in Nat
    OBVIOUS
  <2> QED
    BY <2>1
<1>2. left \in Int /\ Unfilled(pages, share, row, k) = Max({0, q})
  BY <1>1 DEF Unfilled
<1>3. 100 * left <= share * (19 * pages + 100)
  <2>1. share * (19 * pages + 100) = pages * (19 * share) + 100 * share
    OBVIOUS
  <2> HIDE DEF end
  <2>2. 100 * left = pages * (100 * end) - 100 * end + 100 * share - 100 * row
    BY <1>1 DEF left
  <2>3. pages * (100 * end) <= pages * (19 * share)
    BY <1>1, TimesMonotone
  <2>4. pages * (100 * end) \in Int /\ pages * (19 * share) \in Int
    BY <1>1
  <2> QED
    BY <1>1, <2>1, <2>2, <2>3, <2>4
<1> HIDE DEF left, end
<1>4. q \in Int /\ share * q <= left
  BY <1>2
<1> HIDE DEF q
<1>5. 100 * q <= 19 * pages + 100
  <2> DEFINE a == 100 * q  b == 19 * pages + 100
  <2>1. a \in Int /\ b \in Nat
    BY <1>4
  <2>2. share * a = 100 * (share * q) /\ share * q \in Int /\ share * b \in Int
    BY <1>4
  <2>3. share * a <= share * b
    BY <1>2, <1>3, <1>4, <2>2
  <2> HIDE DEF a, b
  <2>4. CASE b + 1 <= a
    <3>1. share * (b + 1) <= share * a
      BY <2>1, <2>4, TimesMonotone
    <3>2. share * (b + 1) = share * b + share /\ share * b \in Int /\ share * a \in Int
      BY <2>1
    <3> QED
      BY <2>3, <3>1, <3>2
  <2> QED
    BY <2>1, <2>4 DEF a, b
<1>6. Max({0, q}) = IF 0 <= q THEN q ELSE 0
  BY <1>4, TwoNumbers
<1> QED
  BY <1>2, <1>4, <1>5, <1>6

\* So little does not reach the default thresholds.
LEMMA TooLittle ==
  ASSUME MinBloatBytes >= 8 * 1024 * 1024, MinBloatPct >= 20, NEW pages \in Nat, NEW short \in Nat,
         100 * short <= 19 * pages + 200
  PROVE  ~Reaches(short, pages)
<1>1. MinBloatPct \in Nat /\ MinBloatBytes \in Nat
  BY BloatAssumption
<1>2. 20 * pages <= MinBloatPct * pages /\ MinBloatPct * pages \in Nat
  BY <1>1, TimesMonotone
<1> SUFFICES ASSUME Reaches(short, pages)
             PROVE  FALSE
  OBVIOUS
<1>3. 8192 * short >= 8 * 1024 * 1024 /\ 100 * short >= 20 * pages
  BY <1>1, <1>2 DEF Reaches, BlockSize
<1> QED
  BY <1>3

\* Without padding between the columns, and several to a page.
UnpaddedRows == profile.tuple = RowSize(profile, 0) /\ 5 * profile.tuple <= HeapRoom
UnpaddedEntries == profile.ituple = EntrySize(profile, 0) /\ 6 * profile.ituple <= IndexRoom

\* With the default thresholds (bloat.py:325-326) or higher ones a report that is
\* current does not name a table or index that was just written and analyzed, whatever
\* the fillfactors, if its rows are as long as the estimate (bloat.py:43-52, 135-148)
\* takes them to be and a page takes five of them, or six of its entries: the byte
\* threshold keeps the last page out of it, and the end of every page is not a fifth of
\* it.  Of rows with more bytes between their columns it is not so.
THEOREM UnpaddedFilesAreNotBloated ==
  ASSUME MinBloatBytes >= 8 * 1024 * 1024, MinBloatPct >= 20
  PROVE  Spec =>
           [](Current({"bloat", "exact"}) /\ table.exists /\ table.analyzed /\ Accurate =>
                /\ table.pages = HeapPages(table.live) /\ UnpaddedRows
                     => ~Says("bloat.table")
                /\ table.ipages = BtreePages(table.live) /\ UnpaddedEntries
                     => ~Says("bloat.index"))
<1> DEFINE Spared ==
      Current({"bloat", "exact"}) /\ table.exists /\ table.analyzed /\ Accurate =>
        /\ table.pages = HeapPages(table.live) /\ UnpaddedRows
             => ~Says("bloat.table")
        /\ table.ipages = BtreePages(table.live) /\ UnpaddedEntries
             => ~Says("bloat.index")
<1>1. ReportInv => Spared
  <2> SUFFICES ASSUME ReportInv, Current({"bloat", "exact"}), table.exists, table.analyzed,
                      Accurate
               PROVE  /\ table.pages = HeapPages(table.live) /\ UnpaddedRows
                           => ~Says("bloat.table")
                      /\ table.ipages = BtreePages(table.live) /\ UnpaddedEntries
                           => ~Says("bloat.index")
    OBVIOUS
  <2>1. TableOK /\ profile \in Profiles
    BY DEF ReportInv, MaintenanceInv, VacuumInv, TableOK
  <2>2. /\ Says("bloat.table") =>
             Reaches(table.pages - HeapPages(table.live)
               + HeapUnfilled(HeapPages(table.live), profile.fillfactor, RowSize(profile, 0)),
               table.pages)
        /\ profile.ituple <= IndexRoom /\ Says("bloat.index") =>
             Reaches(IndexKept(table.live), table.ipages)
    BY AllExplained DEF BloatIsExplained
  <2>3. table.live \in Nat /\ table.pages \in Nat /\ table.ipages \in Nat
    BY <2>1, EstimatesOfNow
  <2>4. /\ profile.tuple \in Nat /\ profile.ituple \in Nat
        /\ profile.fillfactor \in Nat \ {0} /\ profile.ifillfactor \in Nat \ {0}
        /\ HeapPerPage \in Nat \ {0} /\ IndexPerPage \in Nat \ {0}
    BY <2>1, ProfileSizes, RowsPerPage
  <2>5. ASSUME table.pages = HeapPages(table.live), UnpaddedRows
        PROVE  ~Says("bloat.table")
    <3> DEFINE share == 8168 * profile.fillfactor  row == 100 * profile.tuple  k == HeapPerPage
               short == HeapUnfilled(table.pages, profile.fillfactor, profile.tuple)
    <3>1. /\ share \in Nat \ {0} /\ row \in Nat /\ k \in Nat \ {0}
          /\ row * k <= share /\ 100 * (share - row * k) <= 19 * share
      BY <2>1, <2>4, <2>5, HeapEnds DEF UnpaddedRows
    <3>2. short = Unfilled(table.pages, share, row, k)
      BY DEF HeapUnfilled, HeapPerPage
    <3> DEFINE pages == table.pages
    <3>3. pages \in Nat /\ short = Unfilled(pages, share, row, k)
      BY <2>3, <3>2
    <3>6. Says("bloat.table") => Reaches(pages - pages + short, pages)
      BY <2>2, <2>5 DEF UnpaddedRows
    <3> HIDE DEF share, row, k, short, pages
    <3>4. short \in Nat /\ 100 * short <= 19 * pages + 100
      BY <3>1, <3>3, SmallEnds
    <3>5. ~Reaches(short, pages) /\ pages - pages + short = short
      BY <3>3, <3>4, TooLittle
    <3> QED
      BY <3>5, <3>6
  <2>6. ASSUME table.ipages = BtreePages(table.live), UnpaddedEntries
        PROVE  ~Says("bloat.index")
    <3> DEFINE share == 8152 * profile.ifillfactor  row == 100 * profile.ituple
               k == IndexPerPage  leaves == Leaves(table.live)
               unfilled == LeavesUnfilled(leaves)
               short == unfilled + table.ipages - 1 - leaves
    <3>1. /\ share \in Nat \ {0} /\ row \in Nat /\ k \in Nat \ {0}
          /\ row * k <= share /\ 100 * (share - row * k) <= 19 * share
      BY <2>1, <2>4, <2>6, LeafEnds DEF UnpaddedEntries
    <3>2. unfilled = Unfilled(leaves, share, row, k)
      BY <2>6 DEF LeavesUnfilled, IndexPerPage, UnpaddedEntries
    <3>3. leaves \in Nat
      BY <2>1, <2>3, BtreePagesAre
    <3>4. table.ipages = 1 + leaves + (IF leaves > 1 THEN 1 ELSE 0)
      BY <2>6 DEF BtreePages
    <3>5. profile.ituple <= IndexRoom
      <4>1. IndexRoom \in Int
        <5>1. (8192 * (100 - profile.ifillfactor)) \div 100 \in Int
          BY <2>4
        <5> QED
          BY <5>1 DEF IndexRoom
      <4> QED
        BY <2>4, <2>6, <4>1 DEF UnpaddedEntries
    <3> HIDE DEF share, row, k, leaves
    <3>6. unfilled \in Nat /\ 100 * unfilled <= 19 * leaves + 100
      BY <3>1, <3>2, <3>3, SmallEnds
    <3> HIDE DEF unfilled
    <3>7. short \in Nat /\ 100 * short <= 19 * table.ipages + 200
      BY <3>3, <3>4, <3>6
    <3> HIDE DEF short
    <3>8. ~Reaches(short, table.ipages)
      BY <2>3, <3>7, TooLittle
    <3> QED
      BY <2>2, <3>5, <3>8 DEF short, unfilled, leaves, IndexKept
  <2> QED
    BY <2>5, <2>6
<1> QED
  BY <1>1, ReportInvariant, PTL
=============================================================================
