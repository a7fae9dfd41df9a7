----------------------------- MODULE HeapTable ------------------------------
(***************************************************************************)
(* The server the vacuum and bloat commands look at: one table with one    *)
(* btree index, one system relation of which only the age matters, and     *)
(* what may hold the xmin horizon.  Not code of this repository: it is     *)
(* modelled from what the queries of pgtk/vacuum.py and pgtk/bloat.py read *)
(* and from what the statements they print do.                             *)
(*   Rows come and go in batches.  An xid of the model stands for so many  *)
(* transactions that its age means something; each deletes one batch at    *)
(* most, so the dead rows of the table are a set of xids.                  *)
(***************************************************************************)
EXTENDS Integers, FiniteSets, FiniteSetsExt

CONSTANTS Profiles,    \* the tables there may be: sizes, storage options, settings
          Batch,       \* rows in a batch
          StartXid,    \* the first xid of a behaviour: how old relations are
          MaxXid,      \* bound: the last xid
          MaxLive,     \* bound: batches of live rows
          MaxHolders,  \* bound: how many hold the horizon at a time
          Cluster      \* the settings of the cluster, autovacuum_on aside

\* A writer has an xid and, between two statements, no snapshot; a backend has one.
Sessions == {"backend", "writer"}
Sources == Sessions \cup {"prepared_xact", "replication_slot"}
Relations == {"table", "system"}
Nobody == 0
OtherDatabaseFrozen == 0

\* How autovacuum_enabled is written in the options of a table, if it is.
Spellings == {"true", "on", "false", "off", "unset"}

\* A heap row is a line pointer and a header at least; an index row has 8 bytes of its own.
ASSUME ServerAssumption ==
  /\ Batch \in Nat \ {0} /\ MaxLive \in Nat /\ MaxHolders \in Nat
  /\ StartXid \in Nat \ {0} /\ MaxXid \in Nat /\ StartXid <= MaxXid
  /\ Cluster \in [vacuum_threshold : Nat, vacuum_scale_percent : Nat, freeze_max_age : Nat,
                  multixact_freeze_max_age : Nat, autovacuum_on : BOOLEAN]
  /\ \A p \in Profiles :
       /\ {p.tuple, p.ituple, p.fillfactor, p.ifillfactor} \subseteq Nat
       /\ 28 <= p.tuple /\ p.tuple <= 2000 /\ 12 <= p.ituple /\ p.ituple <= 2000
       /\ 10 <= p.fillfactor /\ p.fillfactor <= 100
       /\ 10 <= p.ifillfactor /\ p.ifillfactor <= 100
       /\ p.live \in 0..MaxLive
       /\ p.frozen \in 0..StartXid /\ p.mxid_age \in Nat
       /\ p.options \in [threshold : Int, scale : Int, enabled : Spellings]
       /\ p.enabled \in Spellings /\ {p.analyzed, p.autovacuum} \subseteq BOOLEAN

VARIABLES profile,     \* the table of this behaviour
          table,       \* its rows, pages, statistics and age in days
          frozen,      \* relation -> relfrozenxid
          dbfrozen,    \* datfrozenxid of this database
          autovacuum,  \* the setting, on or off
          xid,         \* the next xid
          hold         \* source -> the xmin it holds, or Nobody

serverVars == <<profile, table, frozen, dbfrozen, autovacuum, xid, hold>>

-----------------------------------------------------------------------------
(* Sizes, as the storage managers fill pages *)

Pages(rows, perPage) == (rows + perPage - 1) \div perPage

\* A row that does not fit into what may be filled gets a page to itself.
PerPage(room, size) == IF room < size THEN 1 ELSE room \div size

\* heap_insert leaves (100 - fillfactor)% of a block free; so does a sorted build of
\* an index, in its leaves.
HeapRoom == 8168 - (8192 * (100 - profile.fillfactor)) \div 100
IndexRoom == 8152 - (8192 * (100 - profile.ifillfactor)) \div 100

HeapPages(batches) == Pages(batches * Batch, PerPage(HeapRoom, profile.tuple))
Leaves(batches) == Pages(batches * Batch, PerPage(IndexRoom, profile.ituple))

\* Metapage, leaves, and a root over them.
BtreePages(batches) == 1 + Leaves(batches) + (IF Leaves(batches) > 1 THEN 1 ELSE 0)

-----------------------------------------------------------------------------
(* What is removable *)

Holders == {s \in Sources : hold[s] # Nobody}
Horizon == Min({xid} \cup {hold[s] : s \in Holders})
RecentlyDead == {x \in table.dead : x >= Horizon}

\* What pg_class and the statistics say of a table right after they were taken.
Seen(live, entries, pages, ipages) ==
  [tuples |-> live, ituples |-> entries, pages |-> pages, ipages |-> ipages]

Accurate == table.seen = Seen(table.live, table.live, table.pages, table.ipages)

\* Rows the index has an entry for: those that live, and dead ones not yet removed.
Entries == table.live + Cardinality(table.indexed)

Unseen == [tuples |-> -1, ituples |-> -1, pages |-> 0, ipages |-> 0]

ServerInit ==
  /\ profile \in Profiles
  /\ table = [exists |-> TRUE, analyzed |-> profile.analyzed, enabled |-> profile.enabled,
              live |-> profile.live, dead |-> {}, indexed |-> {}, n_dead |-> 0, pages |-> HeapPages(profile.live), ipages |-> BtreePages(profile.live),
              seen |-> IF profile.analyzed
                       THEN Seen(profile.live, profile.live, HeapPages(profile.live),
                                 BtreePages(profile.live))
                       ELSE Unseen,
              last |-> -1, mxid_age |-> profile.mxid_age]
  /\ frozen = [r \in Relations |-> profile.frozen]
  /\ dbfrozen = profile.frozen
  /\ autovacuum = profile.autovacuum
  /\ xid = StartXid
  /\ hold = [s \in Sources |-> Nobody]

-----------------------------------------------------------------------------
(* Work *)

\* A transaction deletes a batch; with UPDATE it leaves a new version in its place.
Change(replace) ==
  LET more == IF replace THEN 1 ELSE 0
  IN /\ table.exists /\ table.live > 0 /\ xid < MaxXid
     /\ table' = [table EXCEPT !.live = @ - (IF replace THEN 0 ELSE 1),
                               !.dead = @ \cup {xid}, !.indexed = @ \cup {xid}, !.n_dead = @ + 1,
                               !.pages = Max({@, HeapPages(table.live + Cardinality(table.dead)
                                                             + more)}),
                               !.ipages = Max({@, BtreePages(Entries + more)})]
     /\ xid' = xid + 1
     /\ UNCHANGED <<profile, frozen, dbfrozen, autovacuum, hold>>

\* Other work, elsewhere.
Tick ==
  /\ xid < MaxXid
  /\ xid' = xid + 1
  /\ UNCHANGED <<profile, table, frozen, dbfrozen, autovacuum, hold>>

\* Somebody begins to hold the horizon; there is always time left to notice.
Open(s, notice) ==
  /\ hold[s] = Nobody /\ Cardinality(Holders) < MaxHolders
  /\ xid + notice <= MaxXid
  /\ hold' = [hold EXCEPT ![s] = xid]
  /\ UNCHANGED <<profile, table, frozen, dbfrozen, autovacuum, xid>>

\* Only a session ends by itself: a prepared transaction and the slot of a dead
\* consumer stay until somebody removes them.
Close(s) ==
  /\ s \in Holders
  /\ hold' = [hold EXCEPT ![s] = Nobody]
  /\ UNCHANGED <<profile, table, frozen, dbfrozen, autovacuum, xid>>

Drop ==
  /\ table.exists
  /\ table' = [table EXCEPT !.exists = FALSE]
  /\ UNCHANGED <<profile, frozen, dbfrozen, autovacuum, xid, hold>>

SessionEnds == \E s \in Sessions : Close(s)

DayPasses ==
  /\ table.last = 0
  /\ table' = [table EXCEPT !.last = 2]
  /\ UNCHANGED <<profile, frozen, dbfrozen, autovacuum, xid, hold>>

-----------------------------------------------------------------------------
(* Maintenance *)

\* ANALYZE counts live rows and takes the widths of the columns.
Analyzed(t) ==
  [t EXCEPT !.seen = Seen(t.live, t.live, t.pages, t.ipages), !.analyzed = TRUE,
            !.n_dead = Cardinality(t.dead)]

\* VACUUM removes what is dead to everyone, and counts what stays in the index.
Vacuumed ==
  LET indexed == table.indexed \cap RecentlyDead
  IN [table EXCEPT !.dead = RecentlyDead, !.indexed = indexed, !.last = 0,
                   !.n_dead = Cardinality(RecentlyDead),
                   !.seen = Seen(table.live, table.live + Cardinality(indexed),
                                 table.pages, table.ipages)]

\* VACUUM (ANALYZE): of the index the count of the vacuum remains.
VacuumedAnalyzed == [Analyzed(Vacuumed) EXCEPT !.seen = Vacuumed.seen]

\* VACUUM FULL: a new heap and a new index; what is recently dead moves along, and
\* the statistics do not hear of it.
Rewritten ==
  LET kept == table.live + Cardinality(RecentlyDead)
  IN [table EXCEPT !.dead = RecentlyDead, !.indexed = RecentlyDead,
                   !.pages = HeapPages(kept), !.ipages = BtreePages(kept),
                   !.seen = Seen(kept, kept, HeapPages(kept), BtreePages(kept))]

\* REINDEX CONCURRENTLY: an index of the rows a new snapshot sees.
Reindexed ==
  [table EXCEPT !.indexed = {}, !.ipages = BtreePages(table.live),
                !.seen.ituples = table.live, !.seen.ipages = BtreePages(table.live)]

\* The end of every vacuum: the database is as old as the oldest relation left.
SetFrozen(new) ==
  /\ frozen' = new
  /\ dbfrozen' = Min({new[r] : r \in {s \in Relations : s = "table" => table.exists}})

VacuumTable ==
  /\ table' = VacuumedAnalyzed
  /\ SetFrozen(frozen)

FreezeTable ==
  /\ table' = [Vacuumed EXCEPT !.mxid_age = IF Holders = {} THEN 0 ELSE @]
  /\ SetFrozen([frozen EXCEPT !["table"] = Max({@, Horizon})])

FreezeSystem ==
  /\ table' = table
  /\ SetFrozen([frozen EXCEPT !["system"] = Max({@, Horizon})])

\* A btree or a heap with autovacuum_enabled off, however that is spelled.
TendedByAutovacuum == autovacuum /\ table.enabled \notin {"false", "off"}

OwnOrCluster(own, setting) == IF own = -1 THEN setting ELSE own

\* threshold + scale factor * reltuples, times 100.
AutovacuumThreshold ==
  100 * OwnOrCluster(profile.options.threshold, Cluster.vacuum_threshold)
    + OwnOrCluster(profile.options.scale, Cluster.vacuum_scale_percent)
        * Max({0, table.seen.tuples * Batch})

DueForAutovacuum == 100 * Batch * table.n_dead > AutovacuumThreshold

Autovacuum ==
  /\ table.exists /\ TendedByAutovacuum /\ DueForAutovacuum
  /\ VacuumTable
  /\ UNCHANGED <<profile, autovacuum, xid, hold>>

\* Whatever the settings say, what is too old is frozen.
PreventWraparound(r) ==
  /\ xid - frozen[r] > Cluster.freeze_max_age
  /\ r = "table" => table.exists
  /\ IF r = "table" THEN FreezeTable ELSE FreezeSystem
  /\ UNCHANGED <<profile, autovacuum, xid, hold>>

Analyze ==
  /\ table.exists /\ table # Analyzed(table)
  /\ table' = Analyzed(table)
  /\ UNCHANGED <<profile, frozen, dbfrozen, autovacuum, xid, hold>>

\* What the application and the server do of their own accord, time aside.
ServerStep(notice) ==
  \/ \E replace \in BOOLEAN : Change(replace)
  \/ \E s \in Sources : Open(s, notice)
  \/ Drop
  \/ DayPasses
  \/ Autovacuum
  \/ \E r \in Relations : PreventWraparound(r)
  \/ Analyze

-----------------------------------------------------------------------------
(* The statements a finding may print *)

AlterEnabled ==
  /\ table' = [table EXCEPT !.enabled = "true"]
  /\ UNCHANGED <<profile, frozen, dbfrozen, autovacuum, xid, hold>>

SetAutovacuumOn ==
  /\ autovacuum' = TRUE
  /\ UNCHANGED <<profile, table, frozen, dbfrozen, xid, hold>>

\* What the statement of remedy does to the table; REINDEX CONCURRENTLY waits for the
\* snapshots of sessions that are older.
RunOnTable(remedy) ==
  \/ remedy = "freeze" /\ FreezeTable /\ UNCHANGED <<profile, autovacuum, xid, hold>>
  \/ remedy = "vacuum" /\ VacuumTable /\ UNCHANGED <<profile, autovacuum, xid, hold>>
  \/ remedy = "enable_autovacuum" /\ AlterEnabled
  \/ /\ remedy = "rewrite" /\ table' = Rewritten
     /\ UNCHANGED <<profile, frozen, dbfrozen, autovacuum, xid, hold>>
  \/ /\ remedy = "reindex" /\ hold["backend"] = Nobody /\ table' = Reindexed
     /\ UNCHANGED <<profile, frozen, dbfrozen, autovacuum, xid, hold>>

\* remedy run on the subject of its finding; a table that is gone gives an error.
Run(remedy, subject) ==
  LET freezesSystem == remedy = "freeze" /\ subject[1] = "system"
      ofTable == /\ remedy \in {"freeze", "vacuum", "enable_autovacuum", "rewrite", "reindex"}
                 /\ ~freezesSystem
  IN \/ remedy = "autovacuum_on" /\ SetAutovacuumOn
     \/ remedy \in {"rollback_prepared", "drop_slot"} /\ Close(subject[1])
     \/ freezesSystem /\ FreezeSystem /\ UNCHANGED <<profile, autovacuum, xid, hold>>
     \/ ofTable /\ table.exists /\ RunOnTable(remedy)
     \/ ofTable /\ ~table.exists /\ UNCHANGED serverVars

-----------------------------------------------------------------------------
(* pgstattuple and pgstatindex: every page is read *)

\* dead_tuple_len + free_space.
FreeAndDead ==
  8168 * table.pages - Batch * (profile.tuple * table.live + 4 * Cardinality(table.dead))

\* 100 - avg_leaf_density.
LeafSlack ==
  LET leaves == table.ipages - 1 - (IF table.ipages > 2 THEN 1 ELSE 0)
  IN IF leaves = 0 THEN 0
     ELSE 100 - (100 * Batch * profile.ituple * Entries)
                  \div (8152 * leaves)
=============================================================================
