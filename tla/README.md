# Verification of postgres-toolkit

TLA+ models of pgtk, the read-only diagnostics for PostgreSQL in this
repository, and of the two concurrent programs kept beside it: the chain of
blocked sessions of the tests and the demo, and the point-in-time recovery
script. TLC checks the models on small instances, TLAPS proves theorems about
all of them for every value of their constants. Paths below are relative to
`src/`; line numbers are in `PROJECT.json`, under `map`.

## 1. The system

pgtk is one process with one connection in autocommit mode. Each command runs a
few catalog queries, applies rules in Python, prints findings with the SQL a
human may run, and exits. Nothing is written and nothing is kept, so what can go
wrong is of four kinds:

- **the pictures are not instants**: the queries of a command see different
  moments of a server that does not stand still;
- **the rules are applied one at a time, their advice all at once**: findings
  that are right one by one may be wrong together, once somebody follows them;
- **units**: ages, dead rows, pages, rows per loop and rows in total are
  compared with thresholds that somebody else computes in another unit;
- **graphs**: `pg_blocking_pids` gives edges, possibly a cycle, possibly to
  sessions that were not read, and the tool draws trees.

| Component | State | Operations | Interacts with | Hard behaviour | What makes it correct |
|---|---|---|---|---|---|
| `pgtk/locks.py`, forest | the call stack of `build`, the trees | start a root, skip or descend into a child, return | the list of sessions, as read | cycles, repeated and unknown blockers, exponential trees | a tree holds exactly whoever its root holds up; every chain is shown; it ends |
| `pgtk/locks.py`, command | sessions, targets, findings | four queries, three passes | the lock table of the server | reads of different instants, a row at a time | a report made while nothing changed is true, and one made while nobody let go of a lock shows waits that all stand; it does not contradict itself |
| `pgtk/indexes.py` | inventory, counters, window, findings | three queries, six rules | the catalog, its statistics, whoever runs the DROPs | advice that undoes other advice; a reset between two reads | no access path and no constraint is lost; following it converges |
| `pgtk/vacuum.py` | settings, ages, holders, findings | four queries, threshold rules | autovacuum, reloptions, holders of the horizon, whoever runs the advice | boundary values, reloption spellings, four instants, advice that cannot work yet | it names what autovacuum is due for, whoever keeps rows from vacuum, and what changes that; following it settles |
| `pgtk/bloat.py` | rows, findings | two estimates, filter, one measurement per candidate | statistics, pgstattuple, whoever runs the advice | stale or missing statistics, padding the statistics do not show, relation dropped between estimate and measure, thresholds on the estimate only | what is called bloated is explained by waste, ends of pages and padding; no waste is missed; a rewrite returns what it says, less those |
| `pgtk/plans.py` | a tree of nodes | parse, six rules | a JSON file | loops, rounding, nodes never executed, subplans, shapes of the input | findings are true of the execution, trouble is reported, the shape does not matter |
| `pgtk/cli.py` | position in the command, output, exit status | six commands | every check | a statement may fail anywhere, text is printed in pieces; status 1 has two meanings | exit status and output agree |
| `pgtk/db.py` | version, extensions | connect, rows, one, has | the server | version gates | no query names a column the server lacks |
| `tests/test_pg_locks.py`, `demo/run.py`: chain | threads, list of connections, locks of connections | start, settle, release | row queue of the server | order of two threads, join timeouts, a rollback that waits for a lock | the chain is one; release ends and frees everything |
| `backup/pitr.sh` | step of the script | loops, backup, writes, switch, restore, verify | entrypoint, archiver, recovery of a second server | all four run at once; bounded and unbounded loops; archiver crash | "verified" is only said of a right recovery; the script ends |
| `pgtk/render.py`, `findings.py` | none of their own | printing, one JSON document | rich | markup in texts of users | "no findings" is said when there are none |
| `demo/pathology.py`, `demo/bench.py`, `tests/conftest.py` | none of their own | seeding, timing, containers | | | not modelled |

The hazards, each at its line, with the properties that would catch them, are in
`PROJECT.json`.

## 2. The modules and the code

### The blocking forest

- `BlockingGraph`: what `build_blocking_forest` prepares before it walks:
  `Blocked`, `Involved`, `Roots` and `ChildrenOf` are the dictionary `blocked`,
  the set `involved`, the list `roots` and the dictionary `children_of`. A
  session is reduced to its pid and its `blocked_by` tuple. `Waiters` says what
  the walk ought to find without a walk: the least set that contains the root
  and whoever waits on a member.
- `BlockSets`: the abstract specification. One root after the other is answered
  with its `Waiters`, in any order.
- `BlockingForest`: the recursion of `build`, with its call stack as state. A
  frame holds the node, the `seen` of that call and the children still to come;
  `StartRoot`, `SkipChild`, `Descend` and `Return` are the outer comprehension,
  the `continue`, the recursive call and the `return`. Nodes carry their path,
  so that the tree and not only its set of sessions can be talked about.
  `AnswersWhoWaits` is the refinement of `BlockSets`: a tree is the answer once
  no call works on it any more.
- `BlockingForestProofs`: the theorems.

### The locks command

- `LockTable` (external): sessions connect, acquire and queue for locks, end
  their transactions, disconnect, or prepare a transaction whose locks then
  belong to pid 0. `BlockedBy` is `pg_blocking_pids`: the holder and everyone
  ahead in the queue.
- `LockReport`: `analyze_locks` as a sequence of reads between which the server
  moves: the list of sessions at one moment, `pg_blocking_pids` row by row
  (`ReadRow`), the lock targets, the limits, the distribution; then the report.
  The tree of a root is taken to be its `Waiters`, which `BlockingForest` is
  shown to compute. `changes` counts the steps of the server since the sessions
  were listed: the quiet reports are those where it is 0. `released` says
  whether any of those steps let go of something (`LetGo`: a lock, a place in a
  queue, a connection) and did not only add to what was there (`Arrive`).
- `LockReportProofs`: the theorems.

### The index advice

- `IndexRules`: `protected`, `shape`, `covers`, `find_duplicates`,
  `find_redundant` and the filter of `_unused_findings`, on records that keep
  what the rules compare.
- `IndexAdvice`: `analyze_indexes` reads the inventory, then the date of the
  statistics, while queries scan indexes and anyone may reset the counters
  (`ScanIndex`, `ResetStatistics`); `Report` makes the findings; `Follow` is a
  reader who runs one of the printed `DROP INDEX` statements, in any order, as
  many as they like. PostgreSQL refuses the drop of an index a constraint
  depends on, and `Follow` does too.
- `IndexAdviceProofs`: the theorems.

### The chain of blocked sessions

- `BlockingChain`: class `Chain` and its fixture (`caller = "test"`) and
  `blocking_chain` of the demo (`caller = "demo"`), which differ in one step:
  `Settle` asks the server in the first and follows a sleep of any length in the
  second. Each waiter's thread connects, appends its connection and executes;
  a psycopg connection is locked for as long as `execute` runs, so `rollback`
  waits. A statement that waits may be cancelled by anybody.
- `BlockingChainProofs`: the theorems.
- `DistinctSequences`: lemmas about queues that hold nobody twice, for the proofs
  about the chain and about the lock table.

### The recovery script

- `Pitr`: the script step by step beside the entrypoint of the container
  (throwaway server, shutdown, real server), the archiver (copy, end of copy,
  mark; it may be killed at either point) and the recovery of the restored
  server (fetch the segment, replay, promote, or fail). `pg_ctl -w` returns when
  the hot standby takes connections, which may be before the recovery is over.
- `PitrProofs`: the theorems.

### Vacuum and bloat

- `Findings`: severities, and the record every check returns. Its `remedy` names
  the statement that is printed.
- `VacuumRules`, `BloatRules`: the rules of `vacuum.py` and `bloat.py` on rows as
  the queries return them; the second has the arithmetic of both estimates, in
  whole bytes and with the rounding of the SQL.
- `HeapTable` (external): one table with a btree index and one system relation;
  transactions that delete and replace batches of rows, with pages that grow and
  are not given back; sessions, prepared transactions and slots that hold the
  horizon; autovacuum with its own threshold; ANALYZE; and what the printed
  statements do (VACUUM, VACUUM FULL, REINDEX, FREEZE, dropping a slot). A row
  is as long as its profile says, of which `Maintenance` demands
  (`WidthsAssumption`) that it is what `heap_form_tuple` makes of the columns:
  header, widths, and the bytes between columns that align them (`padding`, and
  `ipadding` for the entries of the index). The statistics show the widths only.
- `Maintenance`: composes the three. `cmd` is the command somebody asks again
  and again (vacuum, bloat, bloat --exact); `pc` its next statement. The server
  moves between any two statements (`ServerActs`), and once a report is printed
  its reader runs its statements one by one, the worst first (`Follow`), and
  asks again (`Again`). `quiet` says that nobody else did anything since the
  command began: such a report has to agree with the server.
- `MaintenanceProofs`: the theorems.

### Plans and the command line

- `PlanRules`: `parse_explain` and the six rules. A node of a plan keeps what
  happened (rows and discarded rows in total, loops, heap fetches), and
  `ActualRows`, `Printed` and `TotalRows` derive from it what EXPLAIN prints and
  the code reads: averages per loop in whole rows. So a rule may be compared
  with the execution it speaks of, not with its own input. `IsExecution` says
  what an execution can leave in a plan, as far as the rules depend on it.
- `Command`: each of the six commands as its script of statements and outputs
  (`Bloat`, `Indexes`, `Plan`, `Vacuum`, `Locks`, `Report`), between
  `Connecting` and `Finishing`. A statement is `Answered`, fails
  (`ServerFails`) or is refused by the tool itself (`Refuse`: a server before
  13, no pgstattuple). What the checks find is left open here, up to the
  severities each of them knows; what `plan` finds is computed. `Finish` chooses
  the exit status.
- `CommandProofs`: the theorems.

Operators with a comment that starts "A slip" or "Slip" are not part of the
specifications: each is an operation as a plausible bug would make it, and
`PROJECT.json` names the property that notices when it takes the operation's
place.

## 3. The runs

| Run | Instance | Shows |
|---|---|---|
| `forest` | every snapshot of up to 3 sessions with strangers, pid 0 and repeated blockers; 4 sessions with any blockers | `AnswersWhoWaits`, `TreeShowsEveryChain`, `DepthWithinSessions`, `UnseenWaiterHasCycleOrStranger`, `WalkEnds` |
| `locks` | 3 sessions, 2 locks, 2 changes during the command | `QuietReportIsTrue`, `WaitsStandUntilReleased` |
| `locks_silence` | the same | finding: "no session is waiting" beside a list of waiters |
| `index_advice` | 13 kinds of index three at a time; chains of 4 | `PathsKept`, `ColumnsKept`, `EnforcementKept`, `AdviceConverges` |
| `index_protected` | the same | finding: a protected copy is advised for DROP |
| `index_keep` | the same | finding: the index to keep is dropped by another finding |
| `chain` | 4 waiters, 3 cancelled statements, both callers | `ChainIsSingleFile`, `ReleaseEnds`, `NothingLeftBehind` |
| `chain_join` | the 2 waiters of the tests, none cancelled | finding: the second join always times out |
| `pitr` | 1 death of the archiver, the container may die at any step | `VerifiedMeansTarget`, `MismatchOnlyWhenEarly`, `OnlyTheRealServer`, `ArchiveNeverRewritten`, `ScriptEnds` |
| `maintenance` | 7 tables, 3 steps of the server, 1 holder of the horizon at a time | `BloatIsExplained`, `WasteIsReported`, `RewriteReturnsSpace`, `HorizonIsNamed`, `OwnDatabaseExplained`, `BacklogIsAutovacuums`, `UntendedIsTold`, `AdviceSettles` |
| `bloat_fresh` | one table of 200,000 rows of eight (boolean, bigint) pairs, default thresholds | finding: a table is reported as bloated right after it was written and analyzed |
| `command` | 8 servers from 9.6 to 17, every call, over 100 plans, one in 8 wrappings | `AsksForWhatThereIs`, `CleanExitIsClean`, `JsonTellsFailureApart`, `ShapeDoesNotMatter`, `PlanFindingsAreReal`, `PlanTroubleIsReported` |

Each passing run also checks the `TypeOK` of its module.

**Bounds.** Three sessions are the fewest that make a cycle which does not
contain the session in question, a diamond with a doubled edge, and a waiter
behind a stranger; four make two chains to one session that has a waiter of its
own, where cutting by path and cutting by a shared set differ. Two locks and
three sessions make a deadlock, a queue of two and a prepared holder in front of
either; two changes suffice to let one read and the next disagree about an edge
and to restore it. The kinds of index differ in everything a rule compares: key,
direction, INCLUDE columns, table, uniqueness, replica identity, constraint,
validity and size; four plain ones give a copy of an index that is redundant to
a third that has a copy. Four waiters, with up to three cancelled, let a chain
have holes at the front, in the middle and at the end. In the recovery script
everything but the deaths of the archiver is finite as it stands, and after one
death the archiver can do nothing more about the file it left.
The tables of `maintenance` differ in width, padding (one has rows half as long
again as the estimate takes them to be), nulls, fillfactor, own thresholds,
spelling of `autovacuum_enabled`, and in whether they were ever analyzed; a
batch is 1000 rows, so that one to three batches reach the floor of dead rows and
make waste above the size limit, which is lowered to 64 kB; `critical` is
lowered from 512 MB in proportion. An xid stands for as many transactions as make
an age worth reporting. Three steps are what it takes to make rows dead,
somebody hold on to them, and one thing more happen during the command; time
passing and sessions ending are not counted. In `command` nothing is unbounded;
the plans have row counts at, below and above each threshold.

**What the properties leave out.** Each exception is a behaviour of the code
that was met on the way, and is written into the property where it is needed. So
the excepted case itself is not checked; where it is a hazard, `PROJECT.json`
says so beside it. `WaitsStandUntilReleased` excepts reports during which
somebody let go of a lock or a wait, of which the code promises nothing;
`HorizonIsNamed` excepts holders younger than `xmin_report_age`, and sessions
that have written and hold no snapshot, which the query does not see
(`vacuum.py:72`); `UntendedIsTold` the spellings off, no and 0
(`vacuum.py:347`); `BacklogIsAutovacuums` the case of equality, where autovacuum
still waits (`vacuum.py:339`); `WasteIsReported` a heap of which the fillfactor
lets so little be filled that not one row fits, where a page takes one all the
same and the estimate expects more pages than there are (`bloat.py:43`);
`BloatIsExplained` and `RewriteReturnsSpace` what no further row fits into at
the ends of the pages and the padding inside the rows, which the estimates do
not know of, as a number of pages (`HeapUnfilled`, `LeavesUnfilled`);
`RewriteReturnsSpace` also the rows that somebody's horizon keeps and the
rewrite carries along, and the reserve of the fillfactor that --exact counts as
bloat (`bloat.py:162`), and `BloatIsExplained` the pages of an index above its
leaves, and an index not one row of which fits into what the fillfactor leaves,
where the estimate has no page at all (`bloat.py:135-148`);
`OwnDatabaseExplained` a database whose oldest relation was just dropped;
`ColumnsKept` duplicates that differ in INCLUDE columns, which `shape` does not
compare (`indexes.py:103`). `AdviceSettles` lists under `Standing` what may be
advised for ever: of these, a VACUUM FULL of a table whose dead rows somebody's
horizon keeps is the one to know of, because the bloat command never mentions
the horizon; another is the REINDEX of an index whose ends and padding reach the
thresholds by themselves. `PlanFindingsAreReal` speaks of nodes that returned a
row per loop, and of joins without subplans: EXPLAIN lists a SubPlan after the
inner side, which `children[-1]` then is not (`plans.py:206`).

**Fairness.** `WalkEnds` assumes that the single thread of the tool goes on
(`WF` of the walk). The locks command has no liveness property: it is a straight
line of reads, with nothing to wait for. `ReleaseEnds` assumes it of the main
thread and of each waiter's thread, which Python schedules, and of the server,
which answers a statement whose row is free. `ScriptEnds` assumes it of the
script, the entrypoint, the archiver and the recovery, and excepts the death of
the container, in which the `until` loop of `pitr.sh:82` does not end. Nothing
has to be cancelled, to change, or to die. `AdviceSettles` assumes that the
command goes on, that its reader runs what it prints and asks again, that
transaction ids are used up and that a session ends some day, because
applications do; autovacuum, which may be off, is owed to nobody, and a prepared
transaction or a slot stays until it is removed on advice.

**Stops.** All specifications stop when their program has ended, so the runs do
not check for deadlock; that they end where they should is what the liveness
properties say. `IndexAdvice` has none, since nobody has to follow advice, and
neither has `LockReport`.

## 4. What is proved

The proofs are for every value of the constants: any finite list of sessions
with any tuples of blockers, any catalogs, plans, calls and servers, any number
of waiters, of cancelled statements and of deaths. The assumptions are those of
the modules, and TLC evaluates each of them: pids are natural numbers and
snapshots finite (`PidsAssumption`, `SnapshotsAssumption`), the sessions of a
server finitely many (`SessionsAssumption`), catalogs finite and well formed
(`CatalogsAssumption`), thresholds and bounds numbers (`PlanAssumption`,
`ChainAssumption`, `PitrAssumption`, `VisibleAssumption`), a call one that the
options allow, with a plan that an execution can leave (`CallsAssumption`), a
server has a version number and has pgstattuple or not (`ServersAssumption`).

**The forest** (`BlockingForestProofs`). `WalkTyped`; `RecursionBounded`;
`WalkInvariant`; `WalkAnswersWhoWaits`, that the walk implements `BlockSets`;
`ChainsAreWalked`; `EveryChainIsShown`; `UnseenHasAReason`. The invariant
`WalkInv` has three parts beside the types. `StackSound`: the frames belong to
the tree in hand and the k-th has a `seen` of k sessions, which bounds the
recursion since `seen` holds only sessions that were read. `OnlyWaiters`: a tree
holds nobody but waiters of its root. `NobodyLost`: if p is in a tree and c
waits on p, then c is in the tree or a running call for p still has c to come.
The last is why cutting by path loses nobody: a child that is skipped because it
is in `seen` is in the tree already. When the stack is empty nothing is owed,
the tree is closed under waiting, and with `OnlyWaiters` it is exactly the set
of waiters.

That a tree shows every chain, and not only everybody, needs the paths.
`ChainInv` says that a node is the end of a chain from the root
(`NodesEndChains`), that the `seen` of a call is the way to its node
(`SeenIsTheWay`), and that whoever waits for the session of a node is on the way
to it, hangs under it, or is owed by its call (`WaitersHang`). Take then a
shortest chain that is not shown: without its last session it is shown, by a
node under which that session does not hang, and nothing is owed; so it is on
the way, and the chain would repeat it. Chains without repetition are no longer
than there are sessions, by the pigeonhole principle, so `AcyclicChains` has
them all. `UnseenHasAReason` is about the snapshot alone: among whom a session
waits for, directly or not, take one with the fewest such; if there is no cycle
among them and no stranger, whoever it waited for would have fewer, so it waits
for nobody, is a root, and the session is in its tree.

**The locks command** (`LockReportProofs`). `TypeCorrect`, `QuietReportsAreTrue`
and `WaitsStand`. The invariant has three parts. `LocksOK` is about the server:
a session waits at one place of one queue, and nobody queues for a free lock;
without it the tuple `pg_blocking_pids` returns and the one lock a session is
labelled with would not be determined. `ToolOK`, `ReportOK` and `Current` are
about the command: while nothing has changed, the sessions that were listed are
those that are there, each row read so far is what `pg_blocking_pids` would
return, and each target is the lock its session queues for. The roots and trees
of the report are functions of the sessions, so they are those of the server.
`StillWaiting` is about a command during which the server changed, but nobody
let go: whoever was read waiting still waits at the same place, because a lock
that has a queue is not free, and who arrives later stands behind. So each edge
that was read of a waiter is still what `pg_blocking_pids` says, although the
rows were read at instants of their own, and a chain of such edges is one of the
server's (`WaitsStand`). A session that was read without a blocker may have
queued since: that is why a root is not claimed to wait for nobody, and why
whoever is held up may be missing from a tree.

**The advice** (`IndexAdviceProofs`). `AdviceTyped`; `CoversTransitive`;
`AdviceInvariant`; `AdviceKeepsPaths`; `AdviceKeepsColumns`;
`AdviceKeepsEnforcement`; `AdviceIsExhausted`. The invariant
`AdviceInv` adds to the types and to the three properties themselves
`DroppedOnAdvice`: what is gone was dropped on the word of a finding. For the
access paths the argument is by size of the key: an index that is dropped is a
copy of a keeper or is covered by a longer one; if the one that stands in for it
has gone too, it went on the word of another finding, and a chain of such
replacements never comes back to its start, because covering strictly lengthens
the key and a group of copies has one keeper. The columns of an index follow the
same way, since `covers` compares them. For the enforcement it is that the
keeper of a group with a protected index is protected, and that no finding but
one for a duplicate names a valid protected index. `AdviceIsExhausted` needs
that the sort keys put any two indexes in one order: then each group of a finite
catalog has a keeper, every copy beside it and everything that is covered is
named in the report, and a catalog without what was named has no copies and
nothing covered.

**The chain** (`BlockingChainProofs`). `TypeCorrect`, `ChainInSingleFile` and
`AllIsReleased`. The invariant follows the main thread: `QueueOK` and `ListOK`
tie the states of the threads to the queue and to the list of connections,
`MainOK` says what every thread has done by each step of the main thread (from
the first rollback on none of them is still before its statement), `Released`
that a session the last loop has passed is gone for good, and `InOrder` that
whoever left the queue while it was put up was cancelled. Nothing is left
because the list has everybody by then: a thread appends its connection before
it waits, and a join ends only behind that, timed out or not.

**The recovery script** (`PitrProofs`). `TypeCorrect`, `VerifiedIsTrue`,
`MismatchIsEarly`, `RealServerOnly`, and the action property
`ArchiveIsWrittenOnce`. The invariant says what each step of the script may
count on: the rows are committed in order (`Story`), the backup ends behind the
first and the target behind the second (`Progress`), a restored server replays
from the one to the other (`Recovered`), a row that was counted has been
replayed (`Counted`), and the log is passed by the real server only
(`PastTheThrowaway`). A server that is promoted therefore has exactly two rows,
and only one that is not yet may lack the second.

**The commands** (`CommandProofs`). `CleanExit`, `JsonIsWhole`, `AsksRight`,
`TypeCorrect`.
The invariants `CommandInv` and `GateInv` say what is left of a script, in
predicates that `Tail` preserves: it ends once (`EndsOnce`), a measurement that
was asked for is still to come (`Measuring`), the version is looked at before
anything is found (`Gate`), nothing is printed before the document (`JsonTail`),
and whatever finds something comes before the findings are printed (`Talks`,
then `Late`). `ScriptFits` shows that the six scripts have these shapes, piece by
piece. Why a failure never leaves half a document: a step that can fail is
before "json", and after it only "finish" is left. Why "no findings" is true:
after the findings a command only asks for a date and for facts about the
server. That the version gates are right for every number needs arithmetic only
(`ReleaseOf`).

**The plan reader** (`CommandProofs`, from "Rows per loop, and rows" on).
`AnyShapeIsRead`, `FindingsAreReal` and `TroubleIsReported`. `PlanInv` and
`FoundInv` say that a document is unread, was turned away, or the findings are
those of its whole plan; the rest is about operators. What EXPLAIN prints for a
node, times its loops, is off by half of the loops at most (`Rounding`), by a
third with a row per loop (`AtLeastOne`); so a ratio of printed numbers is a
ratio of what happened up to that third (`EstimateTooHigh`, `EstimateTooLow`),
for the ratios of two averages and for those of two totals, and a rule that
mixed the two would not have it. For nested loops it is that the last child of a
join without subplans is its inner side (`InnerSide`), which ran once for each
row of the outer one. For the shapes, `UnlistedIs` says what the loop over
lists leaves, and `Unwraps` that nothing is left after one QUERY PLAN exactly if
there is no second.

**Vacuum and bloat** (`MaintenanceProofs`). `TypeCorrect`; of a quiet report of
the vacuum command `OwnDatabase`, `HorizonNamed`, `Backlog` and `Untended`; of
one of the bloat command `WasteReported`, `BloatExplained`, `RewriteReturns` and
`UnpaddedFilesAreNotBloated`. They hold for every table, row width, padding,
fillfactor, reloption, cluster setting and threshold that `ServerAssumption`,
`WidthsAssumption`, `CommandsAssumption`, `BloatAssumption` and the assumptions
of `VacuumRules` allow. `NextMovesServer` reduces a step to a `ServerMove`,
since a statement that a reader runs does to the server what somebody else's
would. `MaintenanceInv` then has a part for each side. Of the server, `TableOK`
says that heap and index have room for every row and entry, with the rounding of
`Pages`, through deletes, vacuums, rewrites and reindexing; `AgesOK` that the
horizon and every frozen xid are of the past and the database is as old as the
older of its relations while that is there. Of the commands, `PhaseOK`,
`FindingsOK` and `RowsOK` say where they are and what they keep; and
`VacuumCurrent` and `BloatCurrent` that as long as the command is quiet, what
was found is what each query would return now (the findings of the reads so far;
a candidate that was estimated is still among the rows, measured or not). The
rest is what the rules make of that. For `OwnDatabase` both ages are put against
the same limit, and the database has the age of a relation that is listed. For
`Backlog` both sides multiply out to one comparison of hundredths
(`NamedIffOver`). For `WasteReported`, `SizesAreTheServers`, that the padding in
the queries is the alignment of the server, `TableNotOver` and `IndexNotOver`:
pages take whole rows, so k rows of size t to a page have k * t within what the
fillfactor leaves, and the estimate, which divides by the whole of that, is a
quotient that is no larger (`CeilDivLeast`).

The two theorems in the other direction need more of the report than
`BloatCurrent` says, which is about rows that are not lost. `RowsCurrent` is the
converse: in a quiet report every row is one of the table or of its index as they
are, its estimate passed the filter, and with --exact every row was measured when
the report is printed, because the loop takes the first row that is left
(`AllMeasured`); `ReportInv` is `MaintenanceInv` with it. What they say of the
size of an estimate comes from one inequality: a file of n rows, k to a page, is
larger than the estimate by less than a page more than `Unfilled`, the ends of
its pages and the padding of its rows taken together (`UnfilledIs`,
`ShortByUnfilled`). Here two row sizes meet: k is of the rows as the server
stores them, and what they fill is reckoned with the rows as the estimate takes
them to be, without padding. `TableShort` and `IndexShort` carry it over to the
two queries. So `BloatExplained`: the report speaks of a table only if what a
rewrite would take off, those ends and that padding reach both thresholds; and
`RewriteReturns`: what is counted for a rewrite comes back, less those and less
the rows that the horizon keeps. How much they are depends on the rows, and
padding alone may be enough, which is finding 5. `UnpaddedFilesAreNotBloated` says
what is left of the promise that nothing fresh is reported, for the default
thresholds of `analyze_bloat` (`bloat.py:325-326`) and higher ones: without bytes
between the columns, a page that takes five rows, or a leaf that takes six
entries, leaves less than a fifth of what its fillfactor grants (`HeapEnds`,
`LeafEnds`), for every fillfactor from 10 to 100 and with what the server and the
queries round differently; the rest, two pages at most, is far below 8 MB. Four
rows to a page are not enough for a table: rows of 356 bytes under a fillfactor of
22 leave 20.8 % unfilled, and the table is reported however often it is rewritten.

`TypeCorrect` needs in addition
that pgstattuple never counts more than the file has (`FreeAndDeadIs`,
`LeafSlackIs`), because rows fit into it.

**Model-checked only.** Every liveness property (`WalkEnds`, `ReleaseEnds`,
`ScriptEnds`, `AdviceSettles`), which under fairness is beyond the prover used
here. Every invariant and every action property of the passing runs
is stated by a theorem.

## 5. Findings

1. `render.py:113`: "no session is waiting on a lock held by another" is printed
   in a deadlock, behind a prepared transaction and behind a session of another
   database, beside `locks.long_wait` findings for the sessions that wait.
   (`locks_silence`)
2. `indexes.py:302`: a protected index that duplicates another protected one is
   advised for DROP, against `indexes.py:100` and README.md:215-217. The proved
   `AdviceKeepsEnforcement` says how far this goes: one protected index of the
   shape remains. A replica identity may be the one that is dropped.
   (`index_protected`)
3. `indexes.py:318`: the index that one finding says to keep may be the subject
   of another finding of the same report. `AdviceKeepsPaths` says how far this
   goes: without the unused findings no access path is lost. (`index_keep`)
4. `test_pg_locks.py:46`, `demo/run.py:83`: the holder's rollback releases the
   first waiter only; every release waits through one join timeout, 20 seconds
   in the tests and 15 in the demo. (`chain_join`)
5. `bloat.py:47`: the estimate aligns the sum of the column widths and leaves out
   the bytes that align one column after another. Eight (boolean, bigint) pairs
   are 100 bytes to it and 156 to the server, so a table of them is reported as
   36 % bloated, as a warning and without a hint, right after it was written,
   and VACUUM FULL does not change it. A test is named
   "a freshly written table is not reported as bloated"
   (`tests/test_pg_bloat.py:42`, of two tables whose columns need none), and
   README.md:166-177 does not have padding among what makes the estimate wrong;
   that it errs in both directions is said in README.md:15-16. (`bloat_fresh`)

## 6. Not modelled, and the plan

Layout and wording of the output, ages and clocks in the locks command (a
threshold on an age is a choice there), TOAST relations and partial null
fractions in the bloat estimate, deduplication in a btree, the decimals of row
counts that EXPLAIN prints from release 18 on, several statements in one plan
document, seeding (`demo/pathology.py`: straight-line SQL) and benchmarks are
left out. What is left to model are the candidates for missing indexes
(`IndexRules`); what is left to prove is liveness, once a prover for it is at
hand.

Of the bloat model it should be known that all rows of a table have one length
and one padding, and all entries of its index. In a real table both vary from
row to row with the values: a width is an average, a null takes no place, and
the padding behind it changes. `RowSize` and `EntrySize` leave the padding open,
so rows may be any multiple of 8 longer than the estimate takes them to be; they
are never shorter, which is what `WasteIsReported` rests on: averages that are
too high, or lengths that lie on both sides of a multiple of 8, make the
estimate larger than the rows and may hide bloat, and are not modelled.
