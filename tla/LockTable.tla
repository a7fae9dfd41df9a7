----------------------------- MODULE LockTable -----------------------------
(***************************************************************************)
(* The server the locks command looks at, as far as its queries can see:   *)
(* the sessions that are connected, the heavyweight locks they hold or     *)
(* queue for, and what pg_blocking_pids makes of them.  Not code of this   *)
(* repository: it is modelled from what ACTIVITY_SQL and                   *)
(* UNGRANTED_LOCKS_SQL read and from what the demo does to produce it.     *)
(***************************************************************************)
EXTENDS Integers, Sequences, FiniteSets, SequencesExt

CONSTANTS Sessions,   \* pids of backends
          Locks,      \* lockable objects, one exclusive mode
          NoOne       \* the holder of a free lock

Prepared == 0         \* how pg_blocking_pids names a prepared transaction

ASSUME SessionsAssumption ==
  /\ Sessions \subseteq Nat \ {Prepared}
  /\ IsFiniteSet(Sessions)
  /\ NoOne \notin Sessions \cup {Prepared}

VARIABLES live,       \* connected sessions
          holder,     \* lock -> who holds it
          queue       \* lock -> who waits for it, in order

lockVars == <<live, holder, queue>>

QueuedFor(p, l) == \E i \in DOMAIN queue[l] : queue[l][i] = p

Waiting(p) == \E l \in Locks : QueuedFor(p, l)

Holds(p) == \E l \in Locks : holder[l] = p

\* pg_blocking_pids(p): the holder of the lock p waits for (a hard block) and
\* everyone ahead of p in its queue (soft blocks).
BlockedBy(p) ==
  IF Waiting(p)
  THEN LET l == CHOOSE m \in Locks : QueuedFor(p, m)
           i == CHOOSE j \in DOMAIN queue[l] : queue[l][j] = p
       IN <<holder[l]>> \o SubSeq(queue[l], 1, i - 1)
  ELSE << >>

LockInit ==
  /\ live \in SUBSET Sessions
  /\ holder = [l \in Locks |-> NoOne]
  /\ queue = [l \in Locks |-> << >>]

Connect(p) ==
  /\ p \in Sessions \ live
  /\ live' = live \cup {p}
  /\ UNCHANGED <<holder, queue>>

Acquire(p, l) ==
  /\ p \in live /\ ~Waiting(p)
  /\ holder[l] = NoOne
  /\ holder' = [holder EXCEPT ![l] = p]
  /\ UNCHANGED <<live, queue>>

Enqueue(p, l) ==
  /\ p \in live /\ ~Waiting(p)
  /\ holder[l] \notin {NoOne, p}
  /\ queue' = [queue EXCEPT ![l] = Append(@, p)]
  /\ UNCHANGED <<live, holder>>

\* A queue that `who` has left, who was in it once at most.
Without(s, who) ==
  IF \E i \in DOMAIN s : s[i] = who
  THEN RemoveAt(s, CHOOSE i \in DOMAIN s : s[i] = who)
  ELSE s

\* Everything `who` holds passes to the next in line; `who` leaves its queue.
Release(who) ==
  LET Others(l) == Without(queue[l], who)
  IN /\ holder' = [l \in Locks |->
                     IF holder[l] # who THEN holder[l]
                     ELSE IF Others(l) = << >> THEN NoOne ELSE Head(Others(l))]
     /\ queue' = [l \in Locks |->
                     IF holder[l] # who \/ Others(l) = << >> THEN Others(l)
                     ELSE Tail(Others(l))]

\* Commit, rollback, a cancelled statement or the victim of a deadlock.
EndTransaction(p) ==
  /\ p \in live /\ (Holds(p) \/ Waiting(p))
  /\ Release(p)
  /\ UNCHANGED live

Disconnect(p) ==
  /\ p \in live
  /\ Release(p)
  /\ live' = live \ {p}

\* PREPARE TRANSACTION: the locks outlive the session and belong to no pid.
Prepare(p) ==
  /\ p \in live /\ Holds(p) /\ ~Waiting(p)
  /\ holder' = [l \in Locks |-> IF holder[l] = p THEN Prepared ELSE holder[l]]
  /\ UNCHANGED <<live, queue>>

FinishPrepared ==
  /\ Holds(Prepared)
  /\ Release(Prepared)
  /\ UNCHANGED live

\* What only adds to the locks and the waits there are.
Arrive ==
  \/ \E p \in Sessions : Connect(p)
  \/ \E p \in Sessions, l \in Locks : Acquire(p, l) \/ Enqueue(p, l)

\* Somebody lets go of a lock, or of the wait for one.
LetGo ==
  \/ \E p \in Sessions : EndTransaction(p) \/ Disconnect(p) \/ Prepare(p)
  \/ FinishPrepared
=============================================================================
