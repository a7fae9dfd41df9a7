-------------------------------- MODULE Pitr --------------------------------
(***************************************************************************)
(* The point-in-time recovery that backup/pitr.sh performs: the script,    *)
(* the entrypoint of the container, the archiver of the live server and    *)
(* the recovery of the restored one, which all run at once.                *)
(*                                                                         *)
(* The WAL is the sequence of the rows committed to receipts, in two       *)
(* segments: the one the base backup closes and the one pg_switch_wal      *)
(* closes.  The backup carries the first with it (-Xstream).               *)
(***************************************************************************)
EXTENDS Naturals, Sequences, SequencesExt

CONSTANTS MaxArchiverDeaths,  \* bound: how often the archiver process dies
          MayDie              \* whether the container may die

ASSUME PitrAssumption == MaxArchiverDeaths \in Nat /\ MayDie \in BOOLEAN

Segment == {1, 2}

VARIABLES
  step,       \* what the script does next
  ranOut,     \* a readiness loop ended after its 120 rounds, not by its break
  server,     \* the live server, from the entrypoint's throwaway one on
  wal,        \* the rows committed, in order
  switched,   \* how much of the WAL is in closed segments
  closed,     \* how many segments are closed
  base,       \* how much of the WAL the base backup holds
  target,     \* recovery_target_time: how much had been committed by then
  archive,    \* segment -> its file in the archive
  marked,     \* segments the archiver is through with (archive_status/*.done)
  archiver, deaths,
  recovery,   \* what the restored server is at
  replayed,   \* how much of the WAL the restored server has
  early,      \* a count of the verification ran before the promotion
  counts      \* the rows the verification has seen

script == <<step, ranOut>>
live == <<wal, switched, closed>>
backup == <<base, target>>
archiving == <<archive, marked, archiver, deaths>>
restored == <<recovery, replayed>>
verdict == <<early, counts>>
vars == <<script, server, live, backup, archiving, restored, verdict>>

Exits == {"verified", "mismatch", "error"}
Answers == server \in {"throwaway", "up"}
Rows(n) == ToSet(SubSeq(wal, 1, n))

Init ==
  /\ step = "wait_for_init" /\ ranOut = FALSE
  /\ server = "starting"
  /\ wal = << >> /\ switched = 0 /\ closed = 0
  /\ base = 0 /\ target = 0
  /\ archive = [s \in Segment |-> "absent"] /\ marked = {}
  /\ archiver = "idle" /\ deaths = 0
  /\ recovery = "off" /\ replayed = 0
  /\ early = FALSE /\ counts = {}

-----------------------------------------------------------------------------
(* The container: initialise with a throwaway server, stop it, log "init     *)
(* process complete", start the real one.                                  *)

Follows == [starting |-> "throwaway", throwaway |-> "stopping",
            stopping |-> "complete", complete |-> "up"]

Entrypoint ==
  /\ server \in DOMAIN Follows
  /\ server' = Follows[server]
  /\ UNCHANGED <<script, live, backup, archiving, restored, verdict>>

Die ==
  /\ MayDie
  /\ server # "dead"
  /\ server' = "dead"
  /\ recovery' = IF recovery = "off" THEN "off" ELSE "failed"
  /\ UNCHANGED <<script, live, backup, archiving, replayed, verdict>>

-----------------------------------------------------------------------------
(* The archiver: archive_command on the oldest closed segment not yet marked *)

ToArchive(s) == s <= closed /\ s \notin marked /\ \A r \in 1..(s - 1) : r \in marked

\* A slip: archive_command without test ! -f.
CopyOver(s) ==
  /\ Answers /\ archiver = "idle"
  /\ ToArchive(s)
  /\ archive' = [archive EXCEPT ![s] = "partial"]
  /\ archiver' = "copying"
  /\ UNCHANGED <<script, server, live, backup, marked, deaths, restored, verdict>>

\* test ! -f $ARCHIVE/%f && cp: the file is there, and not whole, once cp starts.
\* Where the file exists the command fails, and is tried again for ever.
Copy(s) ==
  /\ Answers /\ archiver = "idle"
  /\ ToArchive(s)
  /\ archive[s] = "absent"
  /\ archive' = [archive EXCEPT ![s] = "partial"]
  /\ archiver' = "copying"
  /\ UNCHANGED <<script, server, live, backup, marked, deaths, restored, verdict>>

CopyEnds(s) ==
  /\ Answers /\ archiver = "copying"
  /\ ToArchive(s)
  /\ archive' = [archive EXCEPT ![s] = "whole"]
  /\ archiver' = "copied"
  /\ UNCHANGED <<script, server, live, backup, marked, deaths, restored, verdict>>

Mark(s) ==
  /\ Answers /\ archiver = "copied"
  /\ ToArchive(s)
  /\ marked' = marked \cup {s}
  /\ archiver' = "idle"
  /\ UNCHANGED <<script, server, live, backup, archive, deaths, restored, verdict>>

\* It, or its cp, is killed; the postmaster starts another one.
ArchiverDies ==
  /\ deaths < MaxArchiverDeaths
  /\ archiver # "idle"
  /\ archiver' = "idle"
  /\ deaths' = deaths + 1
  /\ UNCHANGED <<script, server, live, backup, archive, marked, restored, verdict>>

-----------------------------------------------------------------------------
(* The script up to the backup *)

\* One of the three loops breaks, or a bounded one is through its 120 rounds.
Break(s, done, t) ==
  /\ step = s /\ done
  /\ step' = t
  /\ UNCHANGED <<ranOut, server, live, backup, archiving, restored, verdict>>

RunOut(s, t) ==
  /\ step = s
  /\ step' = t
  /\ ranOut' = TRUE
  /\ UNCHANGED <<server, live, backup, archiving, restored, verdict>>

\* A slip: take pg_isready's word for it at once.
AskReadyFirst == Break("wait_for_init", Answers, "query")

WaitForInit == Break("wait_for_init", server \in {"complete", "up"}, "wait_ready")
WaitReady == Break("wait_ready", Answers, "query")
InitRunsOut == RunOut("wait_for_init", "wait_ready")
ReadyRunsOut == RunOut("wait_ready", "query")
\* until psql -c 'SELECT 1': no bound on the rounds.
Query == Break("query", Answers, "create_table")

\* A command of the script: set -e ends the script where it fails.
Command(s, t) ==
  /\ step = s /\ Answers
  /\ step' = t
  /\ UNCHANGED <<ranOut, server>>

CommandFails ==
  /\ step \in {"create_table", "basebackup", "insert_before", "target", "insert_after",
               "switch", "checkpoint", "configure"}
  /\ ~Answers
  /\ step' = "error"
  /\ UNCHANGED <<ranOut, server, live, backup, archiving, restored, verdict>>

Insert(s, row, t) ==
  /\ Command(s, t)
  /\ wal' = Append(wal, row)
  /\ UNCHANGED <<switched, closed, backup, archiving, restored, verdict>>

CreateTable == Insert("create_table", "seeded", "basebackup")

CloseSegment ==
  /\ switched' = Len(wal)
  /\ closed' = closed + 1
  /\ UNCHANGED wal

BaseBackup ==
  /\ Command("basebackup", "insert_before")
  /\ CloseSegment
  /\ base' = Len(wal)
  /\ UNCHANGED <<target, archiving, restored, verdict>>

-----------------------------------------------------------------------------
(* The writes and the switch of the segment *)

InsertBefore == Insert("insert_before", "before", "target")

\* A slip: no sleep before the target, whose time the first write then shares.
TakeTargetAtOnce ==
  /\ Command("target", "insert_after")
  /\ target' = Len(wal) - 1
  /\ UNCHANGED <<base, live, archiving, restored, verdict>>

\* TARGET="$(pg 'SELECT now();')", two seconds away from either write.
TakeTarget ==
  /\ Command("target", "insert_after")
  /\ target' = Len(wal)
  /\ UNCHANGED <<base, live, archiving, restored, verdict>>

InsertAfter == Insert("insert_after", "after", "switch")

Switch ==
  /\ Command("switch", "checkpoint")
  /\ CloseSegment
  /\ UNCHANGED <<backup, archiving, restored, verdict>>

\* A slip: wait for the file of the segment to be archived.
CheckpointAndWait ==
  /\ 2 \in marked
  /\ Command("checkpoint", "configure")
  /\ UNCHANGED <<live, backup, archiving, restored, verdict>>

\* CHECKPOINT and ls: neither waits for the archiver.
Checkpoint ==
  /\ Command("checkpoint", "configure")
  /\ UNCHANGED <<live, backup, archiving, restored, verdict>>

-----------------------------------------------------------------------------
(* The restored server *)

\* A slip: no cp -a of the base backup.
StartFromNothing ==
  /\ Command("configure", "pg_ctl")
  /\ recovery' = "replaying"
  /\ replayed' = 0
  /\ UNCHANGED <<live, backup, archiving, verdict>>

\* cp -a, restore_command and recovery_target_time, recovery.signal, pg_ctl start.
StartRestored ==
  /\ Command("configure", "pg_ctl")
  /\ recovery' = "replaying"
  /\ replayed' = base
  /\ UNCHANGED <<live, backup, archiving, verdict>>

\* restore_command: a segment missing or not whole ends the recovery short of
\* its target, which is fatal.
Fetch ==
  /\ recovery = "replaying"
  /\ recovery' = IF archive[2] = "whole" THEN "fetched" ELSE "failed"
  /\ UNCHANGED <<script, server, live, backup, archiving, replayed, verdict>>

\* A slip: no recovery_target_time in the configuration.
ReplayAll ==
  /\ recovery = "fetched" /\ replayed < switched
  /\ replayed' = replayed + 1
  /\ UNCHANGED <<script, server, live, backup, archiving, recovery, verdict>>

Replay ==
  /\ recovery = "fetched" /\ replayed < switched
  /\ replayed + 1 <= target
  /\ replayed' = replayed + 1
  /\ UNCHANGED <<script, server, live, backup, archiving, recovery, verdict>>

\* recovery_target_action = promote at the first commit past the target; a WAL
\* without one is fatal again.
Promote ==
  /\ recovery = "fetched"
  /\ replayed = switched \/ replayed + 1 > target
  /\ recovery' = IF replayed < switched THEN "promoted" ELSE "failed"
  /\ UNCHANGED <<script, server, live, backup, archiving, replayed, verdict>>

\* pg_ctl -w returns once the server takes connections, which a hot standby does
\* as soon as it is consistent, before it has replayed what the archive holds.
PgCtl ==
  /\ step = "pg_ctl"
  /\ step' = IF recovery = "failed" THEN "error" ELSE "count_before"
  /\ UNCHANGED <<ranOut, server, live, backup, archiving, restored, verdict>>

\* pg_restored "SELECT count(*) ... WHERE note = row"; like the look at the rows
\* before it, it fails where the server is gone.
Count(s, row, t) ==
  /\ step = s
  /\ step' = IF recovery = "failed" THEN "error" ELSE t
  /\ early' = (early \/ recovery # "promoted")
  /\ counts' = IF recovery = "failed" THEN counts ELSE counts \cup ({row} \cap Rows(replayed))
  /\ UNCHANGED <<ranOut, server, live, backup, archiving, restored>>

CountBefore == Count("count_before", "before", "count_after")
CountAfter == Count("count_after", "after", "verify")

Verify ==
  /\ step = "verify"
  /\ step' = IF counts = {"before"} THEN "verified" ELSE "mismatch"
  /\ UNCHANGED <<ranOut, server, live, backup, archiving, restored, verdict>>

-----------------------------------------------------------------------------
Script ==
  \/ WaitForInit \/ InitRunsOut \/ WaitReady \/ ReadyRunsOut \/ Query
  \/ CreateTable \/ BaseBackup
  \/ InsertBefore \/ TakeTarget \/ InsertAfter \/ Switch \/ Checkpoint
  \/ StartRestored \/ PgCtl \/ CountBefore \/ CountAfter \/ Verify
  \/ CommandFails

Archiver == \E s \in Segment : Copy(s) \/ CopyEnds(s) \/ Mark(s)
Restored == Fetch \/ Replay \/ Promote

Next == Script \/ Entrypoint \/ Die \/ Archiver \/ ArchiverDies \/ Restored

\* Every process is scheduled; nothing has to die.
Spec ==
  /\ Init /\ [][Next]_vars
  /\ WF_vars(Script) /\ WF_vars(Entrypoint) /\ WF_vars(Archiver) /\ WF_vars(Restored)

-----------------------------------------------------------------------------
TypeOK ==
  /\ ranOut \in BOOLEAN /\ early \in BOOLEAN
  /\ server \in DOMAIN Follows \cup {"up", "dead"}
  /\ wal \in Seq({"seeded", "before", "after"})
  /\ switched \in 0..Len(wal) /\ closed \in 0..2
  /\ base \in 0..switched /\ target \in 0..Len(wal)
  /\ archive \in [Segment -> {"absent", "partial", "whole"}]
  /\ marked \subseteq Segment
  /\ archiver \in {"idle", "copying", "copied"} /\ deaths \in 0..MaxArchiverDeaths
  /\ recovery \in {"off", "replaying", "fetched", "promoted", "failed"}
  /\ replayed \in base..switched \/ recovery = "off"
  /\ counts \subseteq ToSet(wal)

\* pitr.sh:141-148: where the script says "PITR round trip verified", the server
\* it restored holds the row before the target and will never hold the one after.
VerifiedMeansTarget ==
  step = "verified" => Rows(replayed) = {"seeded", "before"}

\* pitr.sh:144-147: "the restored cluster does not match the recovery target" is
\* said of no server that was asked after it had finished its recovery.
MismatchOnlyWhenEarly == step = "mismatch" => early

\* pitr.sh:66-74: the table, the backup and the writes never meet the throwaway
\* server or its shutdown, as long as no readiness loop went through all rounds.
OnlyTheRealServer ==
  ~ranOut /\ step \notin {"wait_for_init", "wait_ready"} =>
    server \in {"complete", "up", "dead"}

\* pitr.sh:62: a file of the archive is written once.  Whoever restores from it
\* never finds a segment that was whole to be anything else.
ArchiveNeverRewritten ==
  [][\A s \in Segment : archive[s] = "whole" => archive'[s] = "whole"]_vars

\* The script ends, whatever becomes of the archiver, unless the container dies
\* under its until loop (pitr.sh:82-84).
ScriptEnds == <>(step \in Exits \/ server = "dead")
=============================================================================
