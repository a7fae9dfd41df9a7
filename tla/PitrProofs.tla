---------------------------- MODULE PitrProofs -----------------------------
(***************************************************************************)
(* For every number of deaths of the archiver, and whether the container   *)
(* may die or not: what the recovery script may be believed.  The argument *)
(* is about what each step of the script may count on.  Once there is a    *)
(* restored server the WAL is complete, the base backup ends after its     *)
(* first row and the target after its second, and nothing of that changes  *)
(* any more; so a server that is promoted has exactly two rows.            *)
(***************************************************************************)
EXTENDS Pitr, SequenceTheorems, TLAPS

Row == {"seeded", "before", "after"}

\* What the script is at before there is a table, a backup, a target.
Waits == {"wait_for_init", "wait_ready", "query"}
Inserts == {"create_table", "basebackup", "insert_before", "target", "insert_after"}
Restores == {"configure", "pg_ctl", "count_before", "count_after", "verify"}

\* The rows are committed in the order of the script.
Story ==
  /\ wal \in Seq(Row) /\ Len(wal) <= 3
  /\ Len(wal) >= 1 => wal[1] = "seeded"
  /\ Len(wal) >= 2 => wal[2] = "before"
  /\ Len(wal) = 3 => wal[3] = "after"

\* What is committed, switched, backed up and targeted at each step; a script
\* that failed may have stopped at any of them.
Progress ==
  /\ switched \in 0..Len(wal) /\ base \in 0..switched /\ target \in 0..Len(wal)
  /\ closed \in 0..2
  /\ step \in Waits \cup Inserts \cup Restores \cup Exits \cup {"switch", "checkpoint"}
  /\ step \in Waits \cup {"create_table"} => Len(wal) = 0
  /\ step = "basebackup" => Len(wal) = 1
  /\ step \in Waits \cup {"create_table", "basebackup"} => closed = 0
  /\ step = "insert_before" => Len(wal) = 1
  /\ step \in {"target", "insert_after"} => Len(wal) = 2
  /\ step \in {"insert_before", "target", "insert_after", "switch"} =>
       closed = 1 /\ base = 1
  /\ step \in {"insert_after", "switch"} => target = 2
  /\ step = "switch" => Len(wal) = 3
  /\ step \in Restores \cup {"checkpoint"} =>
       base = 1 /\ target = 2 /\ switched = 3 /\ Len(wal) = 3

\* The restored server starts from the backup, and stops at the target.
Recovered ==
  /\ recovery \in {"off", "replaying", "fetched", "promoted", "failed"}
  /\ step \in (Restores \ {"configure"}) \cup {"verified", "mismatch"} => recovery # "off"
  /\ step \in Waits \cup Inserts \cup {"switch", "checkpoint", "configure"} => recovery = "off"
  /\ recovery # "off" =>
       /\ base = 1 /\ target = 2 /\ switched = 3 /\ Len(wal) = 3
       /\ replayed \in 1..2
  /\ recovery = "promoted" => replayed = 2

\* A row that was counted has been replayed, and where every count was asked of a
\* promoted server the row before the target was there.
Counted ==
  /\ early \in BOOLEAN
  /\ counts \subseteq {"before"}
  /\ counts # {} => recovery # "off" /\ replayed = 2
  /\ step \in {"count_after", "verify", "mismatch"} /\ ~early => "before" \in counts
  /\ step = "verified" => counts = {"before"}
  /\ step = "mismatch" => counts # {"before"}

\* The two loops that look at the log are passed by the real server only.
PastTheThrowaway ==
  /\ ranOut \in BOOLEAN /\ server \in DOMAIN Follows \cup {"up", "dead"}
  /\ ~ranOut /\ step # "wait_for_init" => server \in {"complete", "up", "dead"}

ArchiverOK ==
  /\ archive \in [Segment -> {"absent", "partial", "whole"}]
  /\ marked \subseteq Segment
  /\ archiver \in {"idle", "copying", "copied"} /\ deaths \in 0..MaxArchiverDeaths

IInv == Story /\ Progress /\ Recovered /\ Counted /\ PastTheThrowaway /\ ArchiverOK

-----------------------------------------------------------------------------
(* The rows of a prefix *)

\* The restored server has the rows up to the place it has replayed.
LEMMA RowsOfPrefix ==
  ASSUME wal \in Seq(Row), NEW n \in 0..Len(wal)
  PROVE  Rows(n) = {wal[i] : i \in 1..n}
<1>1. /\ SubSeq(wal, 1, n) \in Seq(Row)
      /\ Len(SubSeq(wal, 1, n)) = n
      /\ \A i \in 1..n : SubSeq(wal, 1, n)[i] = wal[i]
  BY SubSeqProperties
<1>2. DOMAIN SubSeq(wal, 1, n) = 1..n
  BY <1>1, LenProperties
<1> QED
  BY <1>1, <1>2 DEF Rows, ToSet

\* It is the row before the target that the second place brings.
LEMMA BeforeIsSecond ==
  ASSUME Story, NEW n \in 1..2, Len(wal) = 3
  PROVE  /\ "after" \notin Rows(n)
         /\ "before" \in Rows(n) <=> n = 2
         /\ Rows(2) = {"seeded", "before"}
<1>1. /\ wal \in Seq(Row) /\ n \in 0..Len(wal) /\ 2 \in 0..Len(wal)
      /\ wal[1] = "seeded" /\ wal[2] = "before"
  BY DEF Story
<1>2. /\ Rows(n) = {wal[i] : i \in 1..n}
      /\ Rows(2) = {wal[i] : i \in 1..2}
  BY <1>1, RowsOfPrefix
<1>3. 1..2 = {1, 2} /\ 1..1 = {1}
  OBVIOUS
<1>4. Rows(2) = {"seeded", "before"}
  BY <1>1, <1>2, <1>3
<1>5. Rows(1) = {"seeded"} \/ n = 2
  BY <1>1, <1>2, <1>3
<1> QED
  BY <1>4, <1>5

-----------------------------------------------------------------------------
(* The invariant *)

\* A commit adds the next row of the story.
LEMMA CommitNext ==
  ASSUME Story, NEW row \in Row, wal' = Append(wal, row),
         \/ Len(wal) = 0 /\ row = "seeded"
         \/ Len(wal) = 1 /\ row = "before"
         \/ Len(wal) = 2 /\ row = "after"
  PROVE  Story' /\ Len(wal') = Len(wal) + 1
<1>1. wal \in Seq(Row) /\ Len(wal) \in Nat
  BY LenProperties DEF Story
<1>2. /\ wal' \in Seq(Row) /\ Len(wal') = Len(wal) + 1
      /\ \A i \in 1..Len(wal) : wal'[i] = wal[i]
      /\ wal'[Len(wal) + 1] = row
  BY <1>1, AppendProperties
<1>3. CASE Len(wal) = 0 /\ row = "seeded"
  BY <1>2, <1>3 DEF Story
<1>4. CASE Len(wal) = 1 /\ row = "before"
  BY <1>2, <1>4 DEF Story
<1>5. CASE Len(wal) = 2 /\ row = "after"
  BY <1>2, <1>5 DEF Story
<1> QED
  BY <1>3, <1>4, <1>5

LEMMA InitIInv == Init => IInv
<1> SUFFICES ASSUME Init PROVE IInv
  OBVIOUS
<1>1. wal \in Seq(Row) /\ Len(wal) = 0
  BY EmptySeq DEF Init
<1>2. Story
  BY <1>1 DEF Story
<1>3. Progress
  <2>1. /\ step = "wait_for_init" /\ switched = 0 /\ closed = 0 /\ base = 0 /\ target = 0
        /\ Len(wal) = 0
    BY <1>1 DEF Init
  <2>2. switched \in 0..Len(wal) /\ base \in 0..switched /\ target \in 0..Len(wal)
    BY <2>1
  <2>3. step \in Waits
    BY <2>1 DEF Waits
  <2> QED
    BY <2>1, <2>2, <2>3 DEF Progress, Inserts, Restores
<1>4. Recovered
  BY DEF Init, Recovered, Waits, Inserts, Restores
<1>5. Counted
  BY DEF Init, Counted
<1>6. PastTheThrowaway
  BY DEF Init, PastTheThrowaway, Follows
<1>7. ArchiverOK
  <2>1. deaths \in 0..MaxArchiverDeaths
    BY PitrAssumption DEF Init
  <2> QED
    BY <2>1 DEF Init, ArchiverOK
<1> QED
  BY <1>2, <1>3, <1>4, <1>5, <1>6, <1>7 DEF IInv
\* Each step of the script leaves the next one what it counts on.
LEMMA ScriptStep == IInv /\ Script => IInv'
<1> SUFFICES ASSUME IInv, Script PROVE IInv'
  OBVIOUS
<1> USE DEF Waits, Inserts, Restores, Exits, live, backup, archiving, restored, verdict
<1>0. Story /\ Progress /\ Recovered /\ Counted /\ PastTheThrowaway /\ ArchiverOK
  BY DEF IInv
<1>1. CASE WaitForInit
  <2>1. Story' /\ ArchiverOK'
    BY <1>0, <1>1 DEF WaitForInit, Break, Story, ArchiverOK
  <2>2. Progress'
    BY <1>0, <1>1 DEF WaitForInit, Break, Progress
  <2>3. Recovered' /\ Counted'
    BY <1>0, <1>1 DEF WaitForInit, Break, Recovered, Counted
  <2>4. PastTheThrowaway'
    BY <1>0, <1>1 DEF WaitForInit, Break, PastTheThrowaway
  <2> QED
    BY <2>1, <2>2, <2>3, <2>4 DEF IInv
<1>2. CASE InitRunsOut
  <2>1. Story' /\ ArchiverOK'
    BY <1>0, <1>2 DEF InitRunsOut, RunOut, Story, ArchiverOK
  <2>2. Progress'
    BY <1>0, <1>2 DEF InitRunsOut, RunOut, Progress
  <2>3. Recovered' /\ Counted'
    BY <1>0, <1>2 DEF InitRunsOut, RunOut, Recovered, Counted
  <2>4. PastTheThrowaway'
    BY <1>0, <1>2 DEF InitRunsOut, RunOut, PastTheThrowaway
  <2> QED
    BY <2>1, <2>2, <2>3, <2>4 DEF IInv
<1>3. CASE WaitReady
  <2>1. Story' /\ ArchiverOK'
    BY <1>0, <1>3 DEF WaitReady, Break, Story, ArchiverOK
  <2>2. Progress'
    BY <1>0, <1>3 DEF WaitReady, Break, Progress
  <2>3. Recovered' /\ Counted'
    BY <1>0, <1>3 DEF WaitReady, Break, Recovered, Counted
  <2>4. PastTheThrowaway'
    BY <1>0, <1>3 DEF WaitReady, Break, PastTheThrowaway, Answers, Follows
  <2> QED
    BY <2>1, <2>2, <2>3, <2>4 DEF IInv
<1>4. CASE ReadyRunsOut
  <2>1. Story' /\ ArchiverOK'
    BY <1>0, <1>4 DEF ReadyRunsOut, RunOut, Story, ArchiverOK
  <2>2. Progress'
    BY <1>0, <1>4 DEF ReadyRunsOut, RunOut, Progress
  <2>3. Recovered' /\ Counted'
    BY <1>0, <1>4 DEF ReadyRunsOut, RunOut, Recovered, Counted
  <2>4. PastTheThrowaway'
    BY <1>0, <1>4 DEF ReadyRunsOut, RunOut, PastTheThrowaway
  <2> QED
    BY <2>1, <2>2, <2>3, <2>4 DEF IInv
<1>5. CASE Query
  <2>1. Story' /\ ArchiverOK'
    BY <1>0, <1>5 DEF Query, Break, Story, ArchiverOK
  <2>2. Progress'
    BY <1>0, <1>5 DEF Query, Break, Progress
  <2>3. Recovered' /\ Counted'
    BY <1>0, <1>5 DEF Query, Break, Recovered, Counted
  <2>4. PastTheThrowaway'
    BY <1>0, <1>5 DEF Query, Break, PastTheThrowaway, Answers, Follows
  <2> QED
    BY <2>1, <2>2, <2>3, <2>4 DEF IInv
<1>6. CASE CreateTable
  <2>1. Story' /\ Len(wal') = Len(wal) + 1
    BY <1>0, <1>6, CommitNext DEF CreateTable, Insert, Command, Progress, Row
  <2>2. Progress'
    BY <1>0, <1>6, <2>1 DEF CreateTable, Insert, Command, Progress, Story
  <2>3. Recovered' /\ Counted'
    BY <1>0, <1>6 DEF CreateTable, Insert, Command, Recovered, Counted
  <2>4. PastTheThrowaway' /\ ArchiverOK'
    BY <1>0, <1>6 DEF CreateTable, Insert, Command, PastTheThrowaway, ArchiverOK
  <2> QED
    BY <2>1, <2>2, <2>3, <2>4 DEF IInv
<1>7. CASE BaseBackup
  <2>1. Story' /\ ArchiverOK'
    BY <1>0, <1>7 DEF BaseBackup, Command, CloseSegment, Story, ArchiverOK
  <2>2. Progress'
    BY <1>0, <1>7 DEF BaseBackup, Command, CloseSegment, Progress, Story
  <2>3. Recovered' /\ Counted'
    BY <1>0, <1>7 DEF BaseBackup, Command, CloseSegment, Recovered, Counted
  <2>4. PastTheThrowaway'
    BY <1>0, <1>7 DEF BaseBackup, Command, CloseSegment, PastTheThrowaway
  <2> QED
    BY <2>1, <2>2, <2>3, <2>4 DEF IInv
<1>8. CASE InsertBefore
  <2>1. Story' /\ Len(wal') = Len(wal) + 1
    BY <1>0, <1>8, CommitNext DEF InsertBefore, Insert, Command, Progress, Row
  <2>2. Progress'
    BY <1>0, <1>8, <2>1 DEF InsertBefore, Insert, Command, Progress, Story
  <2>3. Recovered' /\ Counted'
    BY <1>0, <1>8 DEF InsertBefore, Insert, Command, Recovered, Counted
  <2>4. PastTheThrowaway' /\ ArchiverOK'
    BY <1>0, <1>8 DEF InsertBefore, Insert, Command, PastTheThrowaway, ArchiverOK
  <2> QED
    BY <2>1, <2>2, <2>3, <2>4 DEF IInv
<1>9. CASE TakeTarget
  <2>1. Story' /\ ArchiverOK'
    BY <1>0, <1>9 DEF TakeTarget, Command, Story, ArchiverOK
  <2>2. Progress'
    BY <1>0, <1>9 DEF TakeTarget, Command, Progress, Story
  <2>3. Recovered' /\ Counted'
    BY <1>0, <1>9 DEF TakeTarget, Command, Recovered, Counted
  <2>4. PastTheThrowaway'
    BY <1>0, <1>9 DEF TakeTarget, Command, PastTheThrowaway
  <2> QED
    BY <2>1, <2>2, <2>3, <2>4 DEF IInv
<1>10. CASE InsertAfter
  <2>1. Story' /\ Len(wal') = Len(wal) + 1
    BY <1>0, <1>10, CommitNext DEF InsertAfter, Insert, Command, Progress, Row
  <2>2. Progress'
    BY <1>0, <1>10, <2>1 DEF InsertAfter, Insert, Command, Progress, Story
  <2>3. Recovered' /\ Counted'
    BY <1>0, <1>10 DEF InsertAfter, Insert, Command, Recovered, Counted
  <2>4. PastTheThrowaway' /\ ArchiverOK'
    BY <1>0, <1>10 DEF InsertAfter, Insert, Command, PastTheThrowaway, ArchiverOK
  <2> QED
    BY <2>1, <2>2, <2>3, <2>4 DEF IInv
<1>11. CASE Switch
  <2>1. Story' /\ ArchiverOK'
    BY <1>0, <1>11 DEF Switch, Command, CloseSegment, Story, ArchiverOK
  <2>2. Progress'
    BY <1>0, <1>11 DEF Switch, Command, CloseSegment, Progress, Story
  <2>3. Recovered' /\ Counted'
    BY <1>0, <1>11 DEF Switch, Command, CloseSegment, Recovered, Counted
  <2>4. PastTheThrowaway'
    BY <1>0, <1>11 DEF Switch, Command, CloseSegment, PastTheThrowaway
  <2> QED
    BY <2>1, <2>2, <2>3, <2>4 DEF IInv
<1>12. CASE Checkpoint
  <2>1. Story' /\ ArchiverOK'
    BY <1>0, <1>12 DEF Checkpoint, Command, Story, ArchiverOK
  <2>2. Progress'
    BY <1>0, <1>12 DEF Checkpoint, Command, Progress
  <2>3. Recovered' /\ Counted'
    BY <1>0, <1>12 DEF Checkpoint, Command, Recovered, Counted
  <2>4. PastTheThrowaway'
    BY <1>0, <1>12 DEF Checkpoint, Command, PastTheThrowaway
  <2> QED
    BY <2>1, <2>2, <2>3, <2>4 DEF IInv
<1>13. CASE StartRestored
  <2>1. Story' /\ ArchiverOK'
    BY <1>0, <1>13 DEF StartRestored, Command, Story, ArchiverOK
  <2>2. Progress'
    BY <1>0, <1>13 DEF StartRestored, Command, Progress
  <2>3. Recovered' /\ Counted'
    BY <1>0, <1>13 DEF StartRestored, Command, Progress, Recovered, Counted
  <2>4. PastTheThrowaway'
    BY <1>0, <1>13 DEF StartRestored, Command, PastTheThrowaway
  <2> QED
    BY <2>1, <2>2, <2>3, <2>4 DEF IInv
<1>14. CASE PgCtl
  <2>1. Story' /\ ArchiverOK'
    BY <1>0, <1>14 DEF PgCtl, Story, ArchiverOK
  <2>2. Progress'
    BY <1>0, <1>14 DEF PgCtl, Progress, Recovered
  <2>3. Recovered' /\ Counted'
    BY <1>0, <1>14 DEF PgCtl, Recovered, Counted
  <2>4. PastTheThrowaway'
    BY <1>0, <1>14 DEF PgCtl, PastTheThrowaway
  <2> QED
    BY <2>1, <2>2, <2>3, <2>4 DEF IInv
<1>15. CASE CountBefore
  <2>1. Story' /\ ArchiverOK'
    BY <1>0, <1>15 DEF CountBefore, Count, Story, ArchiverOK
  <2>2. Progress'
    BY <1>0, <1>15 DEF CountBefore, Count, Progress
  <2>3. Recovered' /\ Counted'
    BY <1>0, <1>15, BeforeIsSecond DEF CountBefore, Count, Recovered, Counted
  <2>4. PastTheThrowaway'
    BY <1>0, <1>15 DEF CountBefore, Count, PastTheThrowaway
  <2> QED
    BY <2>1, <2>2, <2>3, <2>4 DEF IInv
<1>16. CASE CountAfter
  <2>1. Story' /\ ArchiverOK'
    BY <1>0, <1>16 DEF CountAfter, Count, Story, ArchiverOK
  <2>2. Progress'
    BY <1>0, <1>16 DEF CountAfter, Count, Progress
  <2>3. Recovered' /\ Counted'
    BY <1>0, <1>16, BeforeIsSecond DEF CountAfter, Count, Recovered, Counted
  <2>4. PastTheThrowaway'
    BY <1>0, <1>16 DEF CountAfter, Count, PastTheThrowaway
  <2> QED
    BY <2>1, <2>2, <2>3, <2>4 DEF IInv
<1>17. CASE Verify
  <2>1. Story' /\ ArchiverOK'
    BY <1>0, <1>17 DEF Verify, Story, ArchiverOK
  <2>2. Progress'
    BY <1>0, <1>17 DEF Verify, Progress
  <2>3. Recovered' /\ Counted'
    BY <1>0, <1>17 DEF Verify, Recovered, Counted
  <2>4. PastTheThrowaway'
    BY <1>0, <1>17 DEF Verify, PastTheThrowaway
  <2> QED
    BY <2>1, <2>2, <2>3, <2>4 DEF IInv
<1>18. CASE CommandFails
  <2>1. Story' /\ ArchiverOK'
    BY <1>0, <1>18 DEF CommandFails, Story, ArchiverOK
  <2>2. Progress'
    BY <1>0, <1>18 DEF CommandFails, Progress
  <2>3. Recovered' /\ Counted'
    BY <1>0, <1>18 DEF CommandFails, Recovered, Counted
  <2>4. PastTheThrowaway'
    BY <1>0, <1>18 DEF CommandFails, PastTheThrowaway
  <2> QED
    BY <2>1, <2>2, <2>3, <2>4 DEF IInv
<1> QED
  BY <1>1, <1>2, <1>3, <1>4, <1>5, <1>6, <1>7, <1>8, <1>9,
     <1>10, <1>11, <1>12, <1>13, <1>14, <1>15, <1>16, <1>17, <1>18 DEF Script

\* The container only moves on, and takes the restored server with it.
LEMMA ContainerStep == IInv /\ (Entrypoint \/ Die) => IInv'
<1> SUFFICES ASSUME IInv, Entrypoint \/ Die PROVE IInv'
  OBVIOUS
<1> USE DEF script, live, backup, archiving, restored, verdict
<1>0. Story /\ Progress /\ Recovered /\ Counted /\ PastTheThrowaway /\ ArchiverOK
  BY DEF IInv
<1>1. Story' /\ Progress' /\ ArchiverOK'
  BY <1>0 DEF Entrypoint, Die, Story, Progress, ArchiverOK
<1>2. CASE Entrypoint
  <2>1. Recovered' /\ Counted'
    BY <1>0, <1>2 DEF Entrypoint, Recovered, Counted
  <2>2. PastTheThrowaway'
    BY <1>0, <1>2 DEF Entrypoint, Follows, PastTheThrowaway
  <2> QED
    BY <1>1, <2>1, <2>2 DEF IInv
<1>3. CASE Die
  <2>1. Recovered' /\ Counted'
    BY <1>0, <1>3 DEF Die, Recovered, Counted
  <2>2. PastTheThrowaway'
    BY <1>0, <1>3 DEF Die, Follows, PastTheThrowaway
  <2> QED
    BY <1>1, <2>1, <2>2 DEF IInv
<1> QED
  BY <1>2, <1>3

\* The archiver touches nothing but its files.
LEMMA ArchiverStep == IInv /\ (Archiver \/ ArchiverDies) => IInv'
<1> SUFFICES ASSUME IInv, Archiver \/ ArchiverDies PROVE IInv'
  OBVIOUS
<1> USE DEF script, live, backup, restored, verdict
<1>0. Story /\ Progress /\ Recovered /\ Counted /\ PastTheThrowaway /\ ArchiverOK
  BY DEF IInv
<1>1. UNCHANGED <<script, server, live, backup, restored, verdict>>
  BY DEF Archiver, Copy, CopyEnds, Mark, ArchiverDies
<1>2. Story' /\ Progress' /\ Recovered' /\ Counted' /\ PastTheThrowaway'
  BY <1>0, <1>1 DEF Story, Progress, Recovered, Counted, PastTheThrowaway
<1>3. ASSUME NEW s \in Segment, Copy(s) \/ CopyEnds(s) \/ Mark(s)
      PROVE  ArchiverOK'
  BY <1>0, <1>3 DEF Copy, CopyEnds, Mark, ArchiverOK
<1>4. ASSUME ArchiverDies PROVE ArchiverOK'
  <2>1. deaths' \in 0..MaxArchiverDeaths
    BY <1>0, <1>4, PitrAssumption DEF ArchiverDies, ArchiverOK
  <2>2. archive' = archive /\ marked' = marked /\ archiver' = "idle"
    BY <1>4 DEF ArchiverDies, archiving
  <2> QED
    BY <1>0, <2>1, <2>2 DEF ArchiverOK
<1>5. ArchiverOK'
  BY <1>3, <1>4 DEF Archiver
<1> QED
  BY <1>2, <1>5 DEF IInv

\* The restored server replays up to the target and is promoted there.
LEMMA RestoredStep == IInv /\ Restored => IInv'
<1> SUFFICES ASSUME IInv, Restored PROVE IInv'
  OBVIOUS
<1> USE DEF script, live, backup, archiving, verdict
<1>0. Story /\ Progress /\ Recovered /\ Counted /\ PastTheThrowaway /\ ArchiverOK
  BY DEF IInv
<1>1. Story' /\ Progress' /\ PastTheThrowaway' /\ ArchiverOK'
  BY <1>0 DEF Restored, Fetch, Replay, Promote, Story, Progress, PastTheThrowaway, ArchiverOK
<1>2. CASE Fetch
  BY <1>0, <1>1, <1>2 DEF Fetch, Recovered, Counted, IInv
<1>3. CASE Replay
  BY <1>0, <1>1, <1>3 DEF Replay, Recovered, Counted, IInv
<1>4. CASE Promote
  BY <1>0, <1>1, <1>4 DEF Promote, Recovered, Counted, IInv
<1> QED
  BY <1>2, <1>3, <1>4 DEF Restored

LEMMA Stutter == IInv /\ UNCHANGED vars => IInv'
  BY DEF vars, script, live, backup, archiving, restored, verdict,
         IInv, Story, Progress, Recovered, Counted, PastTheThrowaway, ArchiverOK

\* The invariant the theorems rest on holds in every reachable state.
THEOREM IInvHolds == Spec => []IInv
<1>1. Init => IInv
  BY InitIInv
<1>2. IInv /\ [Next]_vars => IInv'
  BY ScriptStep, ContainerStep, ArchiverStep, RestoredStep, Stutter DEF Next
<1> QED
  BY <1>1, <1>2, PTL DEF Spec

-----------------------------------------------------------------------------
(* What follows *)

\* The type invariant: among the rest, the backup is within the closed segments
\* and the restored server between the backup and what is closed.
THEOREM TypeCorrect == Spec => []TypeOK
<1>1. IInv => TypeOK
  <2> SUFFICES ASSUME IInv PROVE TypeOK
    OBVIOUS
  <2>1. Story /\ Progress /\ Recovered /\ Counted /\ PastTheThrowaway /\ ArchiverOK
    BY DEF IInv
  <2>2. counts \subseteq ToSet(wal)
    <3>1. counts = {} \/ (counts = {"before"} /\ Len(wal) = 3)
      BY <2>1 DEF Counted, Recovered
    <3>2. Len(wal) = 3 => 2 \in DOMAIN wal /\ wal[2] = "before"
      BY <2>1, LenProperties DEF Story
    <3> QED
      BY <3>1, <3>2 DEF ToSet
  <2>3. replayed \in base..switched \/ recovery = "off"
    BY <2>1 DEF Recovered
  <2>4. wal \in Seq({"seeded", "before", "after"})
    BY <2>1 DEF Story, Row
  <2> QED
    BY <2>1, <2>2, <2>3, <2>4
    DEF TypeOK, Progress, Recovered, Counted, PastTheThrowaway, ArchiverOK
<1> QED
  BY <1>1, IInvHolds, PTL

\* pitr.sh:141-148: "PITR round trip verified" is said of a server that has the row
\* before the target, and at no time the row after it.
THEOREM VerifiedIsTrue == Spec => []VerifiedMeansTarget
<1>1. IInv => VerifiedMeansTarget
  <2> SUFFICES ASSUME IInv, step = "verified" PROVE Rows(replayed) = {"seeded", "before"}
    BY DEF VerifiedMeansTarget
  <2>1. Story /\ replayed = 2 /\ Len(wal) = 3
    BY DEF IInv, Counted, Recovered
  <2> QED
    BY <2>1, BeforeIsSecond
<1> QED
  BY <1>1, IInvHolds, PTL

\* pitr.sh:144-147: where the script reports that the restored cluster does not
\* match, one of its counts was asked of a server still in recovery.
THEOREM MismatchIsEarly == Spec => []MismatchOnlyWhenEarly
<1>1. IInv => MismatchOnlyWhenEarly
  BY DEF IInv, Counted, MismatchOnlyWhenEarly
<1> QED
  BY <1>1, IInvHolds, PTL

\* pitr.sh:66-74: without a readiness loop that ran out, nothing is asked of the
\* throwaway server of the entrypoint.
THEOREM RealServerOnly == Spec => []OnlyTheRealServer
<1>1. IInv => OnlyTheRealServer
  BY DEF IInv, PastTheThrowaway, OnlyTheRealServer
<1> QED
  BY <1>1, IInvHolds, PTL

\* pitr.sh:62: no file that is whole in the archive is written again, whatever
\* archiver died on the way.
THEOREM ArchiveIsWrittenOnce == Spec => ArchiveNeverRewritten
<1>1. IInv /\ [Next]_vars => \A s \in Segment : archive[s] = "whole" => archive'[s] = "whole"
  <2> SUFFICES ASSUME IInv, [Next]_vars, NEW s \in Segment, archive[s] = "whole"
               PROVE  archive'[s] = "whole"
    OBVIOUS
  <2>1. archive \in [Segment -> {"absent", "partial", "whole"}]
    BY DEF IInv, ArchiverOK
  <2>2. ASSUME NEW r \in Segment, Copy(r) \/ CopyEnds(r) PROVE archive'[s] = "whole"
    BY <2>1, <2>2 DEF Copy, CopyEnds
  <2>3. \/ UNCHANGED archive
        \/ \E r \in Segment : Copy(r) \/ CopyEnds(r)
    BY DEF Next, vars, archiving, Script, Entrypoint, Die, Archiver, Mark, ArchiverDies, Restored,
           WaitForInit, InitRunsOut, WaitReady, ReadyRunsOut, Query, Break, RunOut,
           CreateTable, InsertBefore, InsertAfter, Insert, BaseBackup, TakeTarget, Switch,
           Checkpoint, StartRestored, PgCtl, CountBefore, CountAfter, Count, Verify,
           CommandFails, Fetch, Replay, Promote
  <2> QED
    BY <2>2, <2>3
<1> QED
  BY <1>1, IInvHolds, PTL DEF Spec, ArchiveNeverRewritten
=============================================================================
