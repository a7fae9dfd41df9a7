-------------------------- MODULE LockReportProofs --------------------------
(***************************************************************************)
(* For all sessions and locks and every bound on what the server may do:   *)
(* a report made while the server stood still says how the server is, and  *)
(* one made while nobody let go of anything shows waits that all stand.    *)
(* The argument has two halves.  In every reachable lock table a session   *)
(* waits at one place of one queue, so the tuple pg_blocking_pids returns  *)
(* names exactly who is in its way.  And what the command has read is what *)
(* its queries would return now: all of it as long as nothing has changed, *)
(* and the rows of those who wait as long as nothing was released, because *)
(* whoever arrives takes only free locks and queues behind.                *)
(***************************************************************************)
EXTENDS LockReport, DistinctSequences

Phases == {"start", "rows", "targets", "limits", "distribution", "printed"}
Pids == Sessions \cup {Prepared}

\* A session waits for one lock, at one place, and never for a free one.
LocksOK ==
  /\ live \subseteq Sessions
  /\ holder \in [Locks -> Sessions \cup {Prepared, NoOne}]
  /\ queue \in [Locks -> Seq(Sessions)]
  /\ \A l \in Locks : Distinct(queue[l])
  /\ \A l, m \in Locks : \A p \in Sessions : Entry(queue[l], p) /\ Entry(queue[m], p) => l = m
  /\ \A l \in Locks : holder[l] = NoOne => Len(queue[l]) = 0

\* What the command keeps, statement by statement.
ToolOK ==
  /\ phase \in Phases
  /\ sessions = [by_pid |-> sessions.by_pid, blocked_by |-> sessions.blocked_by]
  /\ sessions.by_pid \subseteq Visible
  /\ phase = "start" => sessions.by_pid = {}
  /\ todo \subseteq sessions.by_pid
  /\ sessions.blocked_by \in [sessions.by_pid \ todo -> Seq(Pids)]
  /\ phase # "rows" => todo = {}
  /\ idle \subseteq sessions.by_pid
  /\ DOMAIN targets \subseteq Sessions
  /\ changes \in 0..MaxChanges /\ released \in BOOLEAN

ReportOK ==
  /\ "trees" \in DOMAIN report
  /\ ~Analyzed => report = NoReport
  /\ Analyzed => report.trees = [r \in G!Roots(sessions) |-> G!Waiters(sessions, r)]

\* As long as the server stands still, what was read is what there is.
Current ==
  changes = 0 =>
    /\ phase # "start" =>
         /\ sessions.by_pid = live \cap Visible
         /\ \A p \in sessions.by_pid \ todo : sessions.blocked_by[p] = BlockedBy(p)
    /\ phase \notin {"start", "rows"} =>
         \A p \in Sessions : Waiting(p) => targets[p] = CHOOSE l \in Locks : QueuedFor(p, l)

\* The row of a session that was read.
WasWaiting(p) == p \in sessions.by_pid \ todo /\ sessions.blocked_by[p] # << >>

\* As long as nobody let go, whoever was read waiting waits where it did, behind
\* whom it did, and for the lock that was read for it.
StillWaiting ==
  ~released =>
    /\ phase # "start" => sessions.by_pid \subseteq live
    /\ \A p \in Sessions : WasWaiting(p) =>
         /\ sessions.blocked_by[p] = BlockedBy(p)
         /\ phase # "rows" => targets[p] \in Locks /\ QueuedFor(p, targets[p])

IInv == LocksOK /\ ToolOK /\ ReportOK /\ Current /\ StillWaiting

-----------------------------------------------------------------------------
(* The lock table *)

LEMMA WithoutOne ==
  ASSUME NEW S, NEW s \in Seq(S), Distinct(s), NEW who
  PROVE  /\ Without(s, who) \in Seq(S) /\ Distinct(Without(s, who))
         /\ \A w : Entry(Without(s, who), w) <=> Entry(s, w) /\ w # who
<1>1. DOMAIN s = 1..Len(s)
  BY LenProperties
<1>2. CASE \E i \in DOMAIN s : s[i] = who
  <2> DEFINE i == CHOOSE k \in DOMAIN s : s[k] = who
  <2>1. i \in 1..Len(s) /\ s[i] = who
    BY <1>1, <1>2
  <2>2. Without(s, who) = RemoveAt(s, i)
    BY <1>2 DEF Without
  <2> HIDE DEF i
  <2> QED
    BY <2>1, <2>2, RemoveOne
<1>3. CASE ~\E i \in DOMAIN s : s[i] = who
  <2>1. Without(s, who) = s
    BY <1>3 DEF Without
  <2> QED
    BY <1>1, <1>3, <2>1 DEF Entry
<1> QED
  BY <1>2, <1>3

LEMMA NobodyInside ==
  ASSUME NEW S, NEW s \in Seq(S)
  PROVE  Len(s) = 0 <=> \A w \in S : ~Entry(s, w)
<1>1. Len(s) \in Nat
  BY LenProperties
<1>2. ASSUME Len(s) # 0 PROVE \E w \in S : Entry(s, w)
  <2>1. 1 \in 1..Len(s)
    BY <1>1, <1>2
  <2> QED
    BY <2>1, ElementOfSeq DEF Entry
<1> QED
  BY <1>1, <1>2 DEF Entry

\* What a release makes of one lock.
LEMMA ReleaseOne ==
  ASSUME LocksOK, NEW who, who # NoOne, Release(who), NEW l \in Locks
  PROVE  /\ holder'[l] \in Sessions \cup {Prepared, NoOne}
         /\ queue'[l] \in Seq(Sessions) /\ Distinct(queue'[l])
         /\ \A p : Entry(queue'[l], p) => Entry(queue[l], p)
         /\ holder'[l] = NoOne => Len(queue'[l]) = 0
<1> DEFINE o == Without(queue[l], who)
<1>1. /\ o \in Seq(Sessions) /\ Distinct(o)
      /\ \A p : Entry(o, p) => Entry(queue[l], p)
  BY WithoutOne DEF LocksOK
<1>2. /\ holder'[l] = IF holder[l] # who THEN holder[l]
                      ELSE IF o = << >> THEN NoOne ELSE Head(o)
      /\ queue'[l] = IF holder[l] # who \/ o = << >> THEN o ELSE Tail(o)
  BY DEF Release
<1>3. holder[l] \in Sessions \cup {Prepared, NoOne} /\ queue[l] \in Seq(Sessions)
  BY DEF LocksOK
<1> HIDE DEF o
<1>4. CASE holder[l] # who
  <2>1. holder'[l] = holder[l] /\ queue'[l] = o
    BY <1>2, <1>4
  <2>2. holder[l] = NoOne => Len(queue[l]) = 0
    BY DEF LocksOK
  <2>3. holder[l] = NoOne => Len(o) = 0
    BY <1>1, <1>3, <2>2, NobodyInside
  <2> QED
    BY <1>1, <1>3, <2>1, <2>3
<1>5. CASE holder[l] = who /\ o = << >>
  <2>1. holder'[l] = NoOne /\ queue'[l] = o /\ Len(o) = 0
    BY <1>2, <1>5, EmptySeq
  <2> QED
    BY <1>1, <2>1
<1>6. CASE holder[l] = who /\ o # << >>
  <2>1. holder'[l] = Head(o) /\ queue'[l] = Tail(o)
    BY <1>2, <1>6
  <2>2. /\ Head(o) \in Sessions /\ Tail(o) \in Seq(Sessions) /\ Distinct(Tail(o))
        /\ \A p : Entry(Tail(o), p) => Entry(o, p)
    BY <1>1, <1>6, TailOne
  <2>3. Head(o) # NoOne
    BY <2>2, SessionsAssumption
  <2> QED
    BY <1>1, <2>1, <2>2, <2>3
<1> QED
  BY <1>4, <1>5, <1>6

LEMMA ReleaseKeeps ==
  ASSUME LocksOK, NEW who, who # NoOne, Release(who), live' \subseteq Sessions
  PROVE  LocksOK'
<1>1. holder' \in [Locks -> Sessions \cup {Prepared, NoOne}]
  <2>1. holder' = [l \in Locks |-> holder'[l]]
    BY DEF Release
  <2> QED
    BY <2>1, ReleaseOne
<1>2. queue' \in [Locks -> Seq(Sessions)]
  <2>1. queue' = [l \in Locks |-> queue'[l]]
    BY DEF Release
  <2> QED
    BY <2>1, ReleaseOne
<1>3. \A l \in Locks : Distinct(queue'[l]) /\ (holder'[l] = NoOne => Len(queue'[l]) = 0)
  BY ReleaseOne
<1>4. \A l, m \in Locks : \A p \in Sessions :
        Entry(queue'[l], p) /\ Entry(queue'[m], p) => l = m
  BY ReleaseOne DEF LocksOK
<1> QED
  BY <1>1, <1>2, <1>3, <1>4 DEF LocksOK

LEMMA QueuedIsEntry ==
  ASSUME LocksOK, NEW l \in Locks, NEW p
  PROVE  QueuedFor(p, l) <=> Entry(queue[l], p)
<1>1. queue[l] \in Seq(Sessions)
  BY DEF LocksOK
<1>2. DOMAIN queue[l] = 1..Len(queue[l])
  BY <1>1, LenProperties
<1> QED
  BY <1>2 DEF QueuedFor, Entry

LEMMA LockStep == ASSUME LocksOK, Arrive \/ LetGo PROVE LocksOK'
<1>1. ASSUME NEW p \in Sessions, Connect(p) PROVE LocksOK'
  BY <1>1 DEF Connect, LocksOK
<1>2. ASSUME NEW p \in Sessions, EndTransaction(p) PROVE LocksOK'
  <2>1. p # NoOne /\ live' \subseteq Sessions /\ Release(p)
    BY <1>2, SessionsAssumption DEF EndTransaction, LocksOK
  <2> QED
    BY <2>1, ReleaseKeeps
<1>3. ASSUME NEW p \in Sessions, Disconnect(p) PROVE LocksOK'
  <2>1. p # NoOne /\ live' \subseteq Sessions /\ Release(p)
    BY <1>3, SessionsAssumption DEF Disconnect, LocksOK
  <2> QED
    BY <2>1, ReleaseKeeps
<1>4. ASSUME NEW p \in Sessions, Prepare(p) PROVE LocksOK'
  <2>1. /\ holder' = [l \in Locks |-> IF holder[l] = p THEN Prepared ELSE holder[l]]
        /\ live' = live /\ queue' = queue
    BY <1>4 DEF Prepare
  <2>2. Prepared # NoOne
    BY SessionsAssumption
  <2>3. holder' \in [Locks -> Sessions \cup {Prepared, NoOne}]
    BY <2>1 DEF LocksOK
  <2>4. \A l \in Locks : holder'[l] = NoOne => holder[l] = NoOne
    BY <2>1, <2>2
  <2> QED
    BY <2>1, <2>3, <2>4 DEF LocksOK
<1>5. ASSUME NEW p \in Sessions, NEW l \in Locks, Acquire(p, l) PROVE LocksOK'
  <2>1. /\ holder' = [holder EXCEPT ![l] = p]
        /\ live' = live /\ queue' = queue /\ p # NoOne
    BY <1>5, SessionsAssumption DEF Acquire
  <2>2. holder' \in [Locks -> Sessions \cup {Prepared, NoOne}]
    BY <2>1 DEF LocksOK
  <2>3. \A m \in Locks : holder'[m] = NoOne => holder[m] = NoOne
    BY <2>1 DEF LocksOK
  <2> QED
    BY <2>1, <2>2, <2>3 DEF LocksOK
<1>6. ASSUME NEW p \in Sessions, NEW l \in Locks, Enqueue(p, l) PROVE LocksOK'
  <2>1. /\ ~Waiting(p) /\ holder[l] # NoOne
        /\ queue' = [queue EXCEPT ![l] = Append(queue[l], p)]
        /\ live' = live /\ holder' = holder
    BY <1>6 DEF Enqueue
  <2>2. \A m \in Locks : ~Entry(queue[m], p)
    BY <2>1, QueuedIsEntry DEF Waiting
  <2>3. queue \in [Locks -> Seq(Sessions)] /\ queue[l] \in Seq(Sessions) /\ Distinct(queue[l])
    BY DEF LocksOK
  <2>4. /\ queue'[l] = Append(queue[l], p)
        /\ \A m \in Locks : m # l => queue'[m] = queue[m]
    BY <2>1, <2>3
  <2>5. /\ queue'[l] \in Seq(Sessions) /\ Distinct(queue'[l])
        /\ \A w : Entry(queue'[l], w) <=> Entry(queue[l], w) \/ w = p
    BY <2>2, <2>3, <2>4, AppendOne
  <2>6. queue' \in [Locks -> Seq(Sessions)]
    BY <2>1, <2>3, <2>4, <2>5
  <2>7. \A m \in Locks : Distinct(queue'[m]) /\ (holder'[m] = NoOne => Len(queue'[m]) = 0)
    BY <2>1, <2>4, <2>5 DEF LocksOK
  <2>8. \A k, m \in Locks : \A w \in Sessions :
          Entry(queue'[k], w) /\ Entry(queue'[m], w) => k = m
    BY <2>2, <2>4, <2>5 DEF LocksOK
  <2> QED
    BY <2>1, <2>6, <2>7, <2>8 DEF LocksOK
<1>7. CASE FinishPrepared
  <2>1. Prepared # NoOne /\ live' \subseteq Sessions /\ Release(Prepared)
    BY <1>7, SessionsAssumption DEF FinishPrepared, LocksOK
  <2> QED
    BY <2>1, ReleaseKeeps
<1> QED
  BY <1>1, <1>2, <1>3, <1>4, <1>5, <1>6, <1>7 DEF Arrive, LetGo

\* The tuple of pg_blocking_pids names who is in the way, and nobody else.
LEMMA BlockedByIsInTheWay ==
  ASSUME LocksOK, NEW p \in Sessions
  PROVE  /\ BlockedBy(p) \in Seq(Pids)
         /\ BlockedBy(p) = << >> <=> ~Waiting(p)
         /\ \A q : (\E i \in DOMAIN BlockedBy(p) : BlockedBy(p)[i] = q) <=> InTheWay(q, p)
<1>1. CASE ~Waiting(p)
  <2>1. BlockedBy(p) = << >>
    BY <1>1 DEF BlockedBy
  <2>2. \A q : ~InTheWay(q, p)
    BY <1>1 DEF InTheWay, Waiting, QueuedFor
  <2> QED
    BY <1>1, <2>1, <2>2
<1>2. CASE Waiting(p)
  <2> DEFINE l == CHOOSE m \in Locks : QueuedFor(p, m)
             i == CHOOSE j \in DOMAIN queue[l] : queue[l][j] = p
             ahead == SubSeq(queue[l], 1, i - 1)
  <2>1. l \in Locks /\ QueuedFor(p, l)
    BY <1>2 DEF Waiting
  <2>2. i \in DOMAIN queue[l] /\ queue[l][i] = p
    BY <2>1 DEF QueuedFor
  <2>3. BlockedBy(p) = <<holder[l]>> \o ahead
    BY <1>2 DEF BlockedBy
  <2> HIDE DEF l, i
  <2>4. /\ queue[l] \in Seq(Sessions) /\ Distinct(queue[l]) /\ Len(queue[l]) \in Nat
        /\ DOMAIN queue[l] = 1..Len(queue[l])
    BY <2>1, LenProperties DEF LocksOK
  <2>5. i \in 1..Len(queue[l]) /\ Entry(queue[l], p)
    BY <2>2, <2>4 DEF Entry
  <2>6. holder[l] \in Pids
    <3>1. holder[l] \in Sessions \cup {Prepared, NoOne}
      BY <2>1 DEF LocksOK
    <3>2. Len(queue[l]) # 0
      BY <2>4, <2>5
    <3> QED
      BY <2>1, <3>1, <3>2 DEF LocksOK, Pids
  <2>7. /\ ahead \in Seq(Sessions) /\ Len(ahead) = i - 1
        /\ \A j \in 1..i - 1 : ahead[j] = queue[l][j]
    BY <2>4, <2>5, SubSeqProperties
  <2>8. ahead \in Seq(Pids)
    BY <2>7, SeqMonotonic DEF Pids
  <2> HIDE DEF ahead
  <2>9. /\ <<holder[l]>> \in Seq(Pids) /\ Len(<<holder[l]>>) = 1 /\ <<holder[l]>>[1] = holder[l]
    BY <2>6
  <2>10. /\ BlockedBy(p) \in Seq(Pids) /\ Len(BlockedBy(p)) = i
         /\ BlockedBy(p)[1] = holder[l]
         /\ \A j \in 2..i : BlockedBy(p)[j] = queue[l][j - 1]
    <3> DEFINE h == <<holder[l]>>
    <3>1. h \in Seq(Pids) /\ Len(h) = 1 /\ h[1] = holder[l]
      BY <2>9
    <3> HIDE DEF h
    <3>2. /\ h \o ahead \in Seq(Pids)
          /\ Len(h \o ahead) = Len(h) + Len(ahead)
          /\ \A j \in 1..Len(h) + Len(ahead) :
               (h \o ahead)[j] = IF j <= Len(h) THEN h[j] ELSE ahead[j - Len(h)]
      BY <2>8, <3>1, ConcatProperties
    <3>3. BlockedBy(p) = h \o ahead
      BY <2>3 DEF h
    <3> QED
      BY <2>4, <2>5, <2>7, <3>1, <3>2, <3>3
  <2>11. DOMAIN BlockedBy(p) = 1..i /\ BlockedBy(p) # << >>
    BY <2>4, <2>5, <2>10, LenProperties, EmptySeq
  <2>12. ASSUME NEW q, InTheWay(q, p)
         PROVE  \E k \in DOMAIN BlockedBy(p) : BlockedBy(p)[k] = q
    <3>1. PICK m \in Locks : \E k \in DOMAIN queue[m] :
            queue[m][k] = p /\ (holder[m] = q \/ \E j \in 1..(k - 1) : queue[m][j] = q)
      BY <2>12 DEF InTheWay
    <3>2. PICK k \in DOMAIN queue[m] :
            queue[m][k] = p /\ (holder[m] = q \/ \E j \in 1..(k - 1) : queue[m][j] = q)
      BY <3>1
    <3>3. m = l
      <4>1. Entry(queue[m], p)
        BY <3>2, QueuedIsEntry DEF QueuedFor
      <4> QED
        BY <2>1, <2>5, <4>1 DEF LocksOK
    <3>4. k = i
      BY <2>2, <2>4, <3>2, <3>3 DEF Distinct
    <3>5. CASE holder[l] = q
      BY <2>4, <2>5, <2>10, <2>11, <3>5
    <3>6. CASE \E j \in 1..(i - 1) : queue[l][j] = q
      <4>1. PICK j \in 1..(i - 1) : queue[l][j] = q
        BY <3>6
      <4>2. j + 1 \in 2..i /\ (j + 1) - 1 = j /\ j + 1 \in 1..i
        BY <2>4, <2>5
      <4> QED
        BY <2>10, <2>11, <4>1, <4>2
    <3> QED
      BY <3>2, <3>3, <3>4, <3>5, <3>6
  <2>13. ASSUME NEW k \in DOMAIN BlockedBy(p)
         PROVE  InTheWay(BlockedBy(p)[k], p)
    <3>1. k \in 1..i
      BY <2>11
    <3>2. CASE k = 1
      BY <2>1, <2>2, <2>10, <3>2 DEF InTheWay
    <3>3. CASE k # 1
      <4>1. k \in 2..i /\ k - 1 \in 1..(i - 1)
        BY <2>4, <2>5, <3>1, <3>3
      <4>2. BlockedBy(p)[k] = queue[l][k - 1]
        BY <2>10, <4>1
      <4> QED
        BY <2>1, <2>2, <4>1, <4>2 DEF InTheWay
    <3> QED
      BY <3>2, <3>3
  <2> QED
    BY <1>2, <2>10, <2>11, <2>12, <2>13
<1> QED
  BY <1>1, <1>2

\* Whoever arrives leaves those who wait where they are, and what is ahead of them.
LEMMA ArriveKeepsWaits ==
  ASSUME LocksOK, Arrive, NEW p \in Sessions, Waiting(p)
  PROVE  /\ live \subseteq live'
         /\ BlockedBy(p)' = BlockedBy(p)
         /\ \A l : QueuedFor(p, l) /\ l \in Locks => QueuedFor(p, l)'
<1>1. LocksOK'
  BY LockStep
<1>2. PICK l \in Locks : QueuedFor(p, l)
  BY DEF Waiting
<1>3. PICK i \in DOMAIN queue[l] : queue[l][i] = p
  BY <1>2 DEF QueuedFor
<1>4. /\ queue[l] \in Seq(Sessions) /\ Distinct(queue[l]) /\ Len(queue[l]) \in Nat
      /\ DOMAIN queue[l] = 1..Len(queue[l])
      /\ queue'[l] \in Seq(Sessions) /\ Distinct(queue'[l]) /\ Len(queue'[l]) \in Nat
      /\ DOMAIN queue'[l] = 1..Len(queue'[l])
  BY <1>1, LenProperties DEF LocksOK
<1>5. /\ live \subseteq live' /\ holder'[l] = holder[l]
      /\ Len(queue[l]) <= Len(queue'[l])
      /\ \A j \in 1..Len(queue[l]) : queue'[l][j] = queue[l][j]
  <2>1. ASSUME NEW q \in Sessions, Connect(q) PROVE <1>5
    BY <1>4, <2>1 DEF Connect
  <2>2. ASSUME NEW q \in Sessions, NEW m \in Locks, Acquire(q, m) PROVE <1>5
    <3>1. Len(queue[l]) # 0
      BY <1>3, <1>4
    <3>2. l # m
      BY <2>2, <3>1 DEF Acquire, LocksOK
    <3> QED
      BY <1>4, <2>2, <3>2 DEF Acquire, LocksOK
  <2>3. ASSUME NEW q \in Sessions, NEW m \in Locks, Enqueue(q, m) PROVE <1>5
    <3>1. /\ live' = live /\ holder' = holder
          /\ queue'[l] = IF l = m THEN Append(queue[l], q) ELSE queue[l]
      BY <2>3 DEF Enqueue, LocksOK
    <3>2. /\ Len(Append(queue[l], q)) = Len(queue[l]) + 1
          /\ \A j \in 1..Len(queue[l]) : Append(queue[l], q)[j] = queue[l][j]
      BY <1>4, AppendProperties
    <3> QED
      BY <1>4, <3>1, <3>2
  <2> QED
    BY <2>1, <2>2, <2>3 DEF Arrive
<1>6. i \in DOMAIN queue'[l] /\ queue'[l][i] = p
  BY <1>3, <1>4, <1>5
<1>7. /\ l = CHOOSE m \in Locks : QueuedFor(p, m)
      /\ i = CHOOSE j \in DOMAIN queue[l] : queue[l][j] = p
  <2>1. \A m \in Locks : QueuedFor(p, m) => m = l
    BY <1>2, QueuedIsEntry DEF LocksOK
  <2>2. \A j \in DOMAIN queue[l] : queue[l][j] = p => j = i
    BY <1>3, <1>4 DEF Distinct
  <2> QED
    BY <1>2, <1>3, <2>1, <2>2
<1>8. QueuedFor(p, l)'
  BY <1>6 DEF QueuedFor
<1>9. /\ l = CHOOSE m \in Locks : QueuedFor(p, m)'
      /\ i = CHOOSE j \in DOMAIN queue'[l] : queue'[l][j] = p
  <2>1. ASSUME NEW m \in Locks, QueuedFor(p, m)' PROVE m = l
    <3>1. \A k \in Locks : queue'[k] \in Seq(Sessions)
      BY <1>1 DEF LocksOK
    <3>2. \A k \in Locks : DOMAIN queue'[k] = 1..Len(queue'[k])
      BY <3>1, LenProperties
    <3>3. Entry(queue'[m], p) /\ Entry(queue'[l], p)
      BY <1>8, <2>1, <3>2 DEF QueuedFor, Entry
    <3> QED
      BY <1>1, <3>3 DEF LocksOK
  <2>2. \A j \in DOMAIN queue'[l] : queue'[l][j] = p => j = i
    BY <1>4, <1>6 DEF Distinct
  <2> QED
    BY <1>6, <1>8, <2>1, <2>2
<1>10. SubSeq(queue'[l], 1, i - 1) = SubSeq(queue[l], 1, i - 1)
  <2>1. i \in 1..Len(queue[l])
    BY <1>3, <1>4
  <2> DEFINE s == SubSeq(queue[l], 1, i - 1)
             t == SubSeq(queue'[l], 1, i - 1)
  <2>2. s \in Seq(Sessions) /\ Len(s) = i - 1 /\ \A j \in 1..i - 1 : s[j] = queue[l][j]
    BY <1>4, <2>1, SubSeqProperties
  <2>3. t \in Seq(Sessions) /\ Len(t) = i - 1 /\ \A j \in 1..i - 1 : t[j] = queue'[l][j]
    <3>1. i \in 1..Len(queue'[l])
      BY <1>4, <1>6
    <3> QED
      BY <1>4, <3>1, SubSeqProperties
  <2> HIDE DEF s, t
  <2>4. ASSUME NEW j \in 1..i - 1 PROVE s[j] = t[j]
    <3>1. j \in 1..Len(queue[l])
      BY <1>4, <2>1
    <3> QED
      BY <1>5, <2>2, <2>3, <3>1
  <2>5. s = t
    BY <2>2, <2>3, <2>4, SeqEqual
  <2> QED
    BY <2>5 DEF s, t
<1>11. BlockedBy(p) = <<holder[l]>> \o SubSeq(queue[l], 1, i - 1)
  BY <1>7 DEF BlockedBy
<1>12. BlockedBy(p)' = <<holder'[l]>> \o SubSeq(queue'[l], 1, i - 1)
  <2>1. Waiting(p)'
    BY <1>8 DEF Waiting
  <2> QED
    BY <1>9, <2>1 DEF BlockedBy
<1>13. \A m : QueuedFor(p, m) /\ m \in Locks => m = l
  BY <1>2, QueuedIsEntry DEF LocksOK
<1> QED
  BY <1>5, <1>8, <1>10, <1>11, <1>12, <1>13

-----------------------------------------------------------------------------
(* The command *)

LEMMA InitIInv == Init => IInv
<1> SUFFICES ASSUME Init PROVE IInv
  OBVIOUS
<1>1. LocksOK
  <2>1. /\ live \subseteq Sessions
        /\ holder \in [Locks -> Sessions \cup {Prepared, NoOne}]
        /\ queue = [l \in Locks |-> << >>]
    BY DEF Init, LockInit
  <2>2. /\ << >> \in Seq(Sessions) /\ Len(<< >>) = 0
        /\ \A p : ~Entry(<< >>, p)
        /\ Distinct(<< >>)
    BY EmptySeq DEF Entry, Distinct
  <2> QED
    BY <2>1, <2>2 DEF LocksOK
<1>2. ToolOK
  <2>1. /\ phase = "start" /\ todo = {} /\ targets = << >> /\ idle = {} /\ changes = 0
        /\ sessions = [by_pid |-> {}, blocked_by |-> << >>] /\ released = FALSE
    BY DEF Init
  <2>2. << >> \in [{} -> Seq(Pids)]
    OBVIOUS
  <2>3. changes \in 0..MaxChanges
    BY <2>1, VisibleAssumption
  <2> QED
    BY <2>1, <2>2, <2>3 DEF ToolOK, Phases
<1>3. ReportOK
  BY DEF Init, ReportOK, NoReport, Analyzed
<1>4. Current /\ StillWaiting
  BY DEF Init, Current, StillWaiting, WasWaiting
<1> QED
  BY <1>1, <1>2, <1>3, <1>4 DEF IInv

LEMMA ServerStep == ASSUME IInv, Server PROVE IInv'
<1>1. LocksOK /\ ToolOK /\ ReportOK /\ Current /\ StillWaiting
  BY DEF IInv
<1>2. UNCHANGED <<phase, todo, sessions, idle, targets, report>>
  BY DEF Server, toolVars
<1>3. LocksOK'
  BY <1>1, LockStep DEF Server
<1>4. \/ phase = "start" /\ changes' = changes
      \/ phase # "start" /\ changes' = changes + 1 /\ changes < MaxChanges
  BY DEF Server
<1>5. changes' \in 0..MaxChanges /\ (phase # "start" => changes' # 0)
  BY <1>1, <1>4, VisibleAssumption DEF ToolOK
<1>6. released' \in BOOLEAN
  BY <1>1 DEF Server, ToolOK
<1>7. ToolOK'
  BY <1>1, <1>2, <1>5, <1>6 DEF ToolOK
<1>8. ReportOK'
  BY <1>1, <1>2 DEF ReportOK, Analyzed
<1>9. Current'
  BY <1>1, <1>2, <1>5 DEF Current
<1>10. CASE phase = "start"
  <2>1. sessions'.by_pid = {}
    BY <1>1, <1>2, <1>10 DEF ToolOK
  <2>2. \A p : ~WasWaiting(p)'
    BY <2>1 DEF WasWaiting
  <2> QED
    BY <1>2, <1>3, <1>7, <1>8, <1>9, <1>10, <2>2 DEF IInv, StillWaiting
<1>11. CASE phase # "start" /\ LetGo /\ released'
  BY <1>3, <1>7, <1>8, <1>9, <1>11 DEF IInv, StillWaiting
<1>12. CASE phase # "start" /\ Arrive /\ released' = released
  <2>1. live \subseteq live'
    BY <1>12 DEF Arrive, Connect, Acquire, Enqueue
  <2>2. ASSUME ~released, NEW p \in Sessions, WasWaiting(p)'
        PROVE  /\ sessions'.blocked_by[p] = BlockedBy(p)'
               /\ phase' # "rows" => targets'[p] \in Locks /\ QueuedFor(p, targets[p])'
    <3>1. WasWaiting(p)
      BY <1>2, <2>2 DEF WasWaiting
    <3>2. /\ sessions.blocked_by[p] = BlockedBy(p)
          /\ phase # "rows" => targets[p] \in Locks /\ QueuedFor(p, targets[p])
      BY <1>1, <2>2, <3>1 DEF StillWaiting
    <3>3. Waiting(p)
      BY <1>1, <3>1, <3>2, BlockedByIsInTheWay DEF WasWaiting
    <3>4. /\ BlockedBy(p)' = BlockedBy(p)
          /\ \A l : QueuedFor(p, l) /\ l \in Locks => QueuedFor(p, l)'
      BY <1>1, <1>12, <3>3, ArriveKeepsWaits
    <3> QED
      BY <1>2, <3>2, <3>4
  <2>3. StillWaiting'
    BY <1>1, <1>2, <1>12, <2>1, <2>2 DEF StillWaiting
  <2> QED
    BY <1>3, <1>7, <1>8, <1>9, <2>3 DEF IInv
<1> QED
  BY <1>1, <1>10, <1>11, <1>12 DEF Server, ToolOK

\* The command changes nothing on the server.
LEMMA ToolReadsOnly ==
  ASSUME LocksOK, Tool
  PROVE  /\ LocksOK'
         /\ UNCHANGED <<live, holder, queue, changes, released>>
         /\ \A p : BlockedBy(p)' = BlockedBy(p)
         /\ \A p : Waiting(p)' = Waiting(p)
         /\ \A p, l : QueuedFor(p, l)' = QueuedFor(p, l)
<1>1. UNCHANGED <<live, holder, queue, changes, released>>
  BY DEF Tool, ListSessions, ReadRow, ReadTargets, Analyze, ReadLimits, ReadDistribution
<1>2. LocksOK'
  BY <1>1 DEF LocksOK
<1>3. \A p, l : QueuedFor(p, l)' = QueuedFor(p, l)
  BY <1>1 DEF QueuedFor
<1>4. \A p : Waiting(p)' = Waiting(p)
  BY <1>1 DEF QueuedFor, Waiting
<1>5. \A p : BlockedBy(p)' = BlockedBy(p)
  BY <1>1 DEF QueuedFor, Waiting, BlockedBy
<1> QED
  BY <1>1, <1>2, <1>3, <1>4, <1>5

LEMMA ListSessionsStep == ASSUME IInv, ListSessions PROVE IInv'
<1>1. LocksOK /\ ToolOK /\ ReportOK /\ Current /\ StillWaiting
  BY DEF IInv
<1>2. LocksOK' /\ UNCHANGED <<live, changes, released, targets, report>>
  BY <1>1, ToolReadsOnly DEF Tool, ListSessions
<1>3. /\ phase = "start" /\ phase' = "rows"
      /\ todo' = live \cap Visible
      /\ sessions' = [by_pid |-> live \cap Visible, blocked_by |-> << >>]
      /\ idle' \subseteq live \cap Visible
  BY DEF ListSessions
<1>4. ToolOK'
  <2>1. << >> \in [{} -> Seq(Pids)]
    OBVIOUS
  <2>2. sessions'.by_pid \ todo' = {}
    BY <1>3
  <2> QED
    BY <1>1, <1>2, <1>3, <2>1, <2>2 DEF ToolOK, Phases
<1>5. ReportOK'
  BY <1>1, <1>2, <1>3 DEF ReportOK, Analyzed
<1>6. Current'
  BY <1>2, <1>3 DEF Current
<1>7. StillWaiting'
  BY <1>2, <1>3 DEF StillWaiting, WasWaiting
<1> QED
  BY <1>2, <1>4, <1>5, <1>6, <1>7 DEF IInv

LEMMA ReadRowStep == ASSUME IInv, NEW p \in Visible, ReadRow(p) PROVE IInv'
<1>1. LocksOK /\ ToolOK /\ ReportOK /\ Current /\ StillWaiting
  BY DEF IInv
<1>2. /\ LocksOK' /\ UNCHANGED <<live, changes, released, phase, idle, targets, report>>
      /\ \A q : BlockedBy(q)' = BlockedBy(q)
  BY <1>1, ToolReadsOnly DEF Tool, ReadRow
<1> DEFINE read == [q \in (DOMAIN sessions.blocked_by) \cup {p} |->
                      IF q = p THEN BlockedBy(p) ELSE sessions.blocked_by[q]]
<1>3. /\ phase = "rows" /\ p \in todo /\ todo' = todo \ {p}
      /\ sessions' = [sessions EXCEPT !.blocked_by = read]
  BY DEF ReadRow
<1>4. /\ sessions = [by_pid |-> sessions.by_pid, blocked_by |-> sessions.blocked_by]
      /\ sessions.blocked_by \in [sessions.by_pid \ todo -> Seq(Pids)]
      /\ p \in sessions.by_pid /\ p \in Sessions
  BY <1>1, <1>3, VisibleAssumption DEF ToolOK
<1>5. BlockedBy(p) \in Seq(Pids)
  BY <1>1, <1>4, BlockedByIsInTheWay
<1>6. (DOMAIN sessions.blocked_by) \cup {p} = sessions.by_pid \ todo'
  BY <1>3, <1>4
<1>7. read \in [sessions.by_pid \ todo' -> Seq(Pids)]
  BY <1>3, <1>4, <1>5, <1>6
<1>8. \A q \in sessions.by_pid \ todo' :
        read[q] = IF q = p THEN BlockedBy(p) ELSE sessions.blocked_by[q]
  BY <1>6
<1> HIDE DEF read
<1>9. sessions' = [by_pid |-> sessions.by_pid, blocked_by |-> read]
  BY <1>3, <1>4
<1>10. ToolOK'
  BY <1>1, <1>2, <1>3, <1>7, <1>9 DEF ToolOK
<1>11. ReportOK'
  BY <1>1, <1>2, <1>3 DEF ReportOK, Analyzed
<1>12. Current'
  <2> SUFFICES ASSUME changes = 0
               PROVE  /\ sessions'.by_pid = live \cap Visible
                      /\ \A q \in sessions'.by_pid \ todo' :
                           sessions'.blocked_by[q] = BlockedBy(q)
    BY <1>2, <1>3 DEF Current
  <2> QED
    BY <1>1, <1>3, <1>8, <1>9 DEF Current
<1>13. StillWaiting'
  <2> SUFFICES ASSUME ~released
               PROVE  /\ sessions'.by_pid \subseteq live
                      /\ \A q \in Sessions : WasWaiting(q)' =>
                           sessions'.blocked_by[q] = BlockedBy(q)
    BY <1>2, <1>3 DEF StillWaiting
  <2>1. sessions'.by_pid \subseteq live
    BY <1>1, <1>3, <1>9 DEF StillWaiting
  <2>2. ASSUME NEW q \in Sessions, WasWaiting(q)', q # p
        PROVE  sessions'.blocked_by[q] = BlockedBy(q)
    <3>1. sessions'.blocked_by[q] = sessions.blocked_by[q] /\ WasWaiting(q)
      BY <1>3, <1>8, <1>9, <2>2 DEF WasWaiting
    <3> QED
      BY <1>1, <3>1 DEF StillWaiting
  <2>3. sessions'.blocked_by[p] = BlockedBy(p)
    BY <1>3, <1>4, <1>8, <1>9
  <2> QED
    BY <2>1, <2>2, <2>3
<1> QED
  BY <1>2, <1>10, <1>11, <1>12, <1>13 DEF IInv

LEMMA ReadTargetsStep == ASSUME IInv, ReadTargets PROVE IInv'
<1>1. LocksOK /\ ToolOK /\ ReportOK /\ Current /\ StillWaiting
  BY DEF IInv
<1>2. /\ LocksOK' /\ UNCHANGED <<live, changes, released, todo, sessions, idle, report>>
      /\ \A p : BlockedBy(p)' = BlockedBy(p)
      /\ \A p : Waiting(p)' = Waiting(p)
      /\ \A p, l : QueuedFor(p, l)' = QueuedFor(p, l)
  BY <1>1, ToolReadsOnly DEF Tool, ReadTargets
<1>3. /\ phase = "rows" /\ todo = {} /\ phase' = "targets"
      /\ targets' = [p \in {q \in Sessions : Waiting(q)} |->
                       CHOOSE l \in Locks : QueuedFor(p, l)]
  BY DEF ReadTargets
<1>4. ToolOK'
  BY <1>1, <1>2, <1>3 DEF ToolOK, Phases
<1>5. ReportOK'
  BY <1>1, <1>2, <1>3 DEF ReportOK, Analyzed
<1>6. Current'
  <2>1. \A p \in Sessions : Waiting(p) =>
          targets'[p] = CHOOSE l \in Locks : QueuedFor(p, l)
    BY <1>3
  <2> QED
    BY <1>1, <1>2, <1>3, <2>1 DEF Current
<1>7. StillWaiting'
  <2>1. ASSUME ~released, NEW p \in Sessions, WasWaiting(p)
        PROVE  /\ sessions.blocked_by[p] = BlockedBy(p)
               /\ targets'[p] \in Locks /\ QueuedFor(p, targets'[p])
    <3>1. sessions.blocked_by[p] = BlockedBy(p)
      BY <1>1, <2>1 DEF StillWaiting
    <3>2. Waiting(p)
      BY <1>1, <2>1, <3>1, BlockedByIsInTheWay DEF WasWaiting
    <3>3. targets'[p] = CHOOSE l \in Locks : QueuedFor(p, l)
      BY <1>3, <3>2
    <3> QED
      BY <3>1, <3>2, <3>3 DEF Waiting
  <2>2. \A p : WasWaiting(p)' <=> WasWaiting(p)
    BY <1>2 DEF WasWaiting
  <2>3. \A p : QueuedFor(p, targets[p])' <=> QueuedFor(p, targets'[p])
    BY DEF QueuedFor, ReadTargets
  <2> QED
    BY <1>1, <1>2, <1>3, <2>1, <2>2, <2>3 DEF StillWaiting
<1> QED
  BY <1>2, <1>4, <1>5, <1>6, <1>7 DEF IInv

LEMMA AnalyzeStep == ASSUME IInv, Analyze PROVE IInv'
<1>1. LocksOK /\ ToolOK /\ ReportOK /\ Current /\ StillWaiting
  BY DEF IInv
<1>2. /\ LocksOK' /\ UNCHANGED <<live, changes, released, todo, sessions, idle, targets>>
      /\ \A p : BlockedBy(p)' = BlockedBy(p)
      /\ \A p : Waiting(p)' = Waiting(p)
      /\ \A p, l : QueuedFor(p, l)' = QueuedFor(p, l)
  BY <1>1, ToolReadsOnly DEF Tool, Analyze
<1>3. phase = "targets" /\ phase' = "limits" /\ report = NoReport
  BY <1>1 DEF Analyze, ReportOK, Analyzed
<1> DEFINE grown == [r \in G!Roots(sessions) |-> G!Waiters(sessions, r)]
<1>4. "trees" \in DOMAIN report' /\ report'.trees = grown
  BY <1>3 DEF Analyze, NoReport
<1>5. ToolOK'
  BY <1>1, <1>2, <1>3 DEF ToolOK, Phases
<1>6. ReportOK'
  BY <1>2, <1>3, <1>4 DEF ReportOK, Analyzed
<1>7. Current'
  BY <1>1, <1>2, <1>3 DEF Current
<1>8. StillWaiting'
  <2>1. \A p : WasWaiting(p)' <=> WasWaiting(p)
    BY <1>2 DEF WasWaiting
  <2>2. \A p : QueuedFor(p, targets[p])' <=> QueuedFor(p, targets[p])
    BY DEF QueuedFor, Analyze
  <2> QED
    BY <1>1, <1>2, <1>3, <2>1, <2>2 DEF StillWaiting
<1> QED
  BY <1>2, <1>5, <1>6, <1>7, <1>8 DEF IInv

LEMMA LastQueriesStep == ASSUME IInv, ReadLimits \/ ReadDistribution PROVE IInv'
<1>1. LocksOK /\ ToolOK /\ ReportOK /\ Current /\ StillWaiting
  BY DEF IInv
<1>2. /\ LocksOK' /\ UNCHANGED <<live, changes, released, todo, sessions, idle, targets>>
      /\ \A p : BlockedBy(p)' = BlockedBy(p)
      /\ \A p : Waiting(p)' = Waiting(p)
      /\ \A p, l : QueuedFor(p, l)' = QueuedFor(p, l)
  BY <1>1, ToolReadsOnly DEF Tool, ReadLimits, ReadDistribution
<1>3. /\ phase \in {"limits", "distribution"} /\ phase' \in {"distribution", "printed"}
      /\ "trees" \in DOMAIN report' /\ report'.trees = report.trees
  BY <1>1 DEF ReadLimits, ReadDistribution, ReportOK
<1>4. ToolOK'
  BY <1>1, <1>2, <1>3 DEF ToolOK, Phases
<1>5. ReportOK'
  BY <1>1, <1>2, <1>3 DEF ReportOK, Analyzed
<1>6. Current'
  BY <1>1, <1>2, <1>3 DEF Current
<1>7. StillWaiting'
  <2>1. \A p : WasWaiting(p)' <=> WasWaiting(p)
    BY <1>2 DEF WasWaiting
  <2>2. \A p : QueuedFor(p, targets[p])' <=> QueuedFor(p, targets[p])
    BY DEF QueuedFor, ReadLimits, ReadDistribution
  <2> QED
    BY <1>1, <1>2, <1>3, <2>1, <2>2 DEF StillWaiting
<1> QED
  BY <1>2, <1>4, <1>5, <1>6, <1>7 DEF IInv

LEMMA Stutter == ASSUME IInv, UNCHANGED vars PROVE IInv'
<1>1. /\ UNCHANGED <<live, holder, queue, phase, todo, sessions, idle, targets, report, changes,
                  released>>
      /\ \A p : BlockedBy(p)' = BlockedBy(p)
      /\ \A p : Waiting(p)' = Waiting(p)
      /\ \A p, l : QueuedFor(p, l)' = QueuedFor(p, l)
  BY DEF vars, QueuedFor, Waiting, BlockedBy
<1>2. LocksOK' /\ ToolOK' /\ ReportOK'
  BY <1>1 DEF IInv, LocksOK, ToolOK, ReportOK, Analyzed
<1>3. Current'
  BY <1>1 DEF IInv, Current
<1>4. StillWaiting'
  <2>1. \A p : WasWaiting(p)' <=> WasWaiting(p)
    BY <1>1 DEF WasWaiting
  <2>2. \A p : QueuedFor(p, targets[p])' <=> QueuedFor(p, targets[p])
    BY <1>1 DEF QueuedFor
  <2> QED
    BY <1>1, <2>1, <2>2 DEF IInv, StillWaiting
<1> QED
  BY <1>2, <1>3, <1>4 DEF IInv

\* The invariant the theorems rest on holds in every reachable state.
THEOREM IInvHolds == Spec => []IInv
<1>1. Init => IInv
  BY InitIInv
<1>2. IInv /\ [Next]_vars => IInv'
  BY ServerStep, ListSessionsStep, ReadRowStep, ReadTargetsStep, AnalyzeStep, LastQueriesStep,
     Stutter DEF Next, Tool
<1> QED
  BY <1>1, <1>2, PTL DEF Spec

-----------------------------------------------------------------------------
(* What follows *)

\* The type invariant: only sessions that were read are reported on, and what a row
\* names is a session or a prepared transaction.
THEOREM TypeCorrect == Spec => []TypeOK
<1>1. IInv => TypeOK
  <2> SUFFICES ASSUME IInv PROVE TypeOK
    OBVIOUS
  <2>1. LocksOK /\ ToolOK /\ ReportOK
    BY DEF IInv
  <2>2. DOMAIN report.trees \subseteq sessions.by_pid
    <3>1. CASE Analyzed
      BY <2>1, <3>1 DEF ReportOK, G!Roots
    <3>2. CASE ~Analyzed
      BY <2>1, <3>2 DEF ReportOK, NoReport
    <3> QED
      BY <3>1, <3>2
  <2> QED
    BY <2>1, <2>2 DEF LocksOK, ToolOK, TypeOK, Phases, Pids
<1> QED
  BY <1>1, IInvHolds, PTL

\* locks.py:176-299: what is reported of a server that stood still while it was read
\* is how the server is, its roots, its trees and the locks that are waited for.
THEOREM QuietReportsAreTrue == Spec => []QuietReportIsTrue
<1>1. IInv => QuietReportIsTrue
  <2> SUFFICES ASSUME IInv, Analyzed, changes = 0
               PROVE  /\ DOMAIN report.trees =
                           {p \in live \cap Visible :
                              ~Waiting(p) /\ \E q \in live \cap Visible : InTheWay(p, q)}
                      /\ \A r \in DOMAIN report.trees :
                           /\ Holds(r)
                           /\ report.trees[r] = HeldUpBy(r, live \cap Visible)
                           /\ \A p \in report.trees[r] \ {r} : QueuedFor(p, targets[p])
    BY DEF QuietReportIsTrue
  <2> DEFINE read == live \cap Visible
  <2>1. LocksOK /\ ToolOK /\ ReportOK /\ Current
    BY DEF IInv
  <2>2. /\ phase \notin {"start", "rows"} /\ todo = {}
        /\ sessions.by_pid = read /\ read \subseteq Sessions
        /\ report.trees = [r \in G!Roots(sessions) |-> G!Waiters(sessions, r)]
    BY <2>1, VisibleAssumption DEF Analyzed, ToolOK, ReportOK, Current
  <2>3. \A p \in read : sessions.blocked_by[p] = BlockedBy(p)
    BY <2>1, <2>2 DEF Current
  <2>4. \A p \in read : \A q : G!WaitsOn(sessions, p, q) <=> InTheWay(q, p)
    BY <2>1, <2>2, <2>3, BlockedByIsInTheWay DEF G!WaitsOn
  <2>5. G!Blocked(sessions) = {p \in read : Waiting(p)}
    BY <2>1, <2>2, <2>3, BlockedByIsInTheWay DEF G!Blocked
  <2>6. \A p, q : InTheWay(q, p) => Waiting(p)
    BY DEF InTheWay, Waiting, QueuedFor
  <2> HIDE DEF read
  <2>7. G!Roots(sessions) = {p \in read : ~Waiting(p) /\ \E q \in read : InTheWay(p, q)}
    <3>1. read \subseteq Pids
      BY <2>2 DEF Pids
    <3> QED
      BY <2>2, <2>4, <2>5, <2>6, <3>1 DEF G!Roots, G!Involved, Pids
  <2>8. ASSUME NEW r \in G!Roots(sessions)
        PROVE  G!Waiters(sessions, r) = HeldUpBy(r, read)
    <3>1. ASSUME NEW S \in SUBSET read
          PROVE  G!Closed(sessions, S)
                   <=> \A x \in S : \A y \in read : InTheWay(x, y) => y \in S
      BY <2>2, <2>4 DEF G!Closed
    <3> QED
      BY <2>2, <3>1 DEF G!Waiters, HeldUpBy
  <2>9. ASSUME NEW r \in G!Roots(sessions) PROVE Holds(r)
    <3>1. PICK q \in read : InTheWay(r, q)
      BY <2>7
    <3>2. ~Waiting(r)
      BY <2>7
    <3>3. PICK l \in Locks : \E i \in DOMAIN queue[l] :
            queue[l][i] = q /\ (holder[l] = r \/ \E j \in 1..(i - 1) : queue[l][j] = r)
      BY <3>1 DEF InTheWay
    <3>4. PICK i \in DOMAIN queue[l] :
            queue[l][i] = q /\ (holder[l] = r \/ \E j \in 1..(i - 1) : queue[l][j] = r)
      BY <3>3
    <3>5. ASSUME NEW j \in 1..(i - 1) PROVE j \in DOMAIN queue[l]
      <4>1. DOMAIN queue[l] = 1..Len(queue[l]) /\ Len(queue[l]) \in Nat
        BY <2>1, LenProperties DEF LocksOK
      <4> QED
        BY <3>4, <4>1
    <3>6. \A j \in 1..(i - 1) : queue[l][j] # r
      BY <3>2, <3>5 DEF Waiting, QueuedFor
    <3> QED
      BY <3>4, <3>6 DEF Holds
  <2>10. ASSUME NEW r \in G!Roots(sessions), NEW p \in HeldUpBy(r, read), p # r
         PROVE  QueuedFor(p, targets[p])
    <3>1. p \in read /\ r \in read
      BY <2>7 DEF HeldUpBy
    <3>2. Waiting(p)
      <4> SUFFICES ASSUME ~Waiting(p) PROVE FALSE
        OBVIOUS
      <4> DEFINE S == read \ {p}
      <4>1. r \in S /\ \A x \in S : \A y \in read : InTheWay(x, y) => y \in S
        BY <2>6, <2>10, <3>1
      <4>2. S \in SUBSET read /\ p \notin S
        OBVIOUS
      <4> HIDE DEF S
      <4> QED
        BY <4>1, <4>2 DEF HeldUpBy
    <3>3. targets[p] = CHOOSE l \in Locks : QueuedFor(p, l)
      BY <2>1, <2>2, <3>1, <3>2 DEF Current
    <3> QED
      BY <3>2, <3>3 DEF Waiting
  <2>11. DOMAIN report.trees = G!Roots(sessions)
    BY <2>2
  <2>12. ASSUME NEW r \in G!Roots(sessions)
         PROVE  /\ Holds(r)
                /\ report.trees[r] = HeldUpBy(r, read)
                /\ \A p \in report.trees[r] \ {r} : QueuedFor(p, targets[p])
    <3>1. report.trees[r] = HeldUpBy(r, read)
      BY <2>2, <2>8
    <3> QED
      BY <2>9, <2>10, <3>1
  <2> QED
    BY <2>7, <2>11, <2>12 DEF read
<1> QED
  BY <1>1, IInvHolds, PTL

\* locks.py:31, 195: of a server on which sessions only arrived, took locks and queued
\* between one read and the next, the edges and the labels of the report are true
\* together, although each is of an instant of its own.
THEOREM WaitsStand == Spec => []WaitsStandUntilReleased
<1>1. IInv => WaitsStandUntilReleased
  <2> SUFFICES ASSUME IInv, Analyzed, ~released, NEW r \in DOMAIN report.trees
               PROVE  /\ report.trees[r] \subseteq HeldUpBy(r, live \cap Visible)
                      /\ \A p \in report.trees[r] \ {r} : QueuedFor(p, targets[p])
    BY DEF WaitsStandUntilReleased
  <2> DEFINE now == live \cap Visible
             read == sessions.by_pid
  <2>1. LocksOK /\ ToolOK /\ ReportOK /\ StillWaiting
    BY DEF IInv
  <2>2. /\ phase \notin {"start", "rows"} /\ todo = {}
        /\ read \subseteq now /\ read \subseteq Sessions
        /\ report.trees = [x \in G!Roots(sessions) |-> G!Waiters(sessions, x)]
    BY <2>1, VisibleAssumption DEF Analyzed, ToolOK, ReportOK, StillWaiting
  <2>3. r \in read /\ report.trees[r] = G!Waiters(sessions, r)
    BY <2>2 DEF G!Roots
  <2>4. ASSUME NEW p \in read, NEW q, G!WaitsOn(sessions, p, q)
        PROVE  InTheWay(q, p) /\ QueuedFor(p, targets[p])
    <3>1. sessions.blocked_by[p] # << >>
      BY <2>4, EmptySeq DEF G!WaitsOn
    <3>2. sessions.blocked_by[p] = BlockedBy(p) /\ QueuedFor(p, targets[p])
      BY <2>1, <2>2, <3>1 DEF StillWaiting, WasWaiting
    <3> QED
      BY <2>1, <2>2, <2>4, <3>2, BlockedByIsInTheWay DEF G!WaitsOn
  <2> HIDE DEF now, read
  <2>5. ASSUME NEW p \in G!Waiters(sessions, r)
        PROVE  p \in HeldUpBy(r, now)
    <3>1. p \in read /\ p \in now
      BY <2>2 DEF G!Waiters, read
    <3>2. ASSUME NEW S \in SUBSET now, r \in S,
                 \A x \in S : \A y \in now : InTheWay(x, y) => y \in S
          PROVE  p \in S
      <4> DEFINE T == S \cap sessions.by_pid
      <4>1. r \in T /\ T \in SUBSET sessions.by_pid
        BY <2>3, <3>2 DEF read
      <4>2. G!Closed(sessions, T)
        <5> SUFFICES ASSUME NEW y \in sessions.by_pid, NEW x \in T, G!WaitsOn(sessions, y, x)
                     PROVE  y \in T
          BY DEF G!Closed
        <5>1. InTheWay(x, y) /\ y \in now
          BY <2>2, <2>4 DEF read
        <5> QED
          BY <3>2, <5>1
      <4> HIDE DEF T
      <4>3. p \in T
        BY <4>1, <4>2 DEF G!Waiters
      <4> QED
        BY <4>3 DEF T
    <3> QED
      BY <3>1, <3>2 DEF HeldUpBy
  <2>6. ASSUME NEW p \in G!Waiters(sessions, r), p # r
        PROVE  QueuedFor(p, targets[p])
    <3>1. p \in read
      BY DEF G!Waiters, read
    <3>2. PICK q : G!WaitsOn(sessions, p, q)
      <4> SUFFICES ASSUME \A q : ~G!WaitsOn(sessions, p, q) PROVE FALSE
        OBVIOUS
      <4> DEFINE S == sessions.by_pid \ {p}
      <4>1. r \in S /\ S \in SUBSET sessions.by_pid /\ p \notin S
        BY <2>3, <2>6 DEF read
      <4>2. G!Closed(sessions, S)
        BY DEF G!Closed
      <4> HIDE DEF S
      <4> QED
        BY <4>1, <4>2 DEF G!Waiters
    <3> QED
      BY <2>4, <3>1, <3>2
  <2> QED
    BY <2>3, <2>5, <2>6 DEF now
<1> QED
  BY <1>1, IInvHolds, PTL
=============================================================================
