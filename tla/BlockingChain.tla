---------------------------- MODULE BlockingChain ----------------------------
(***************************************************************************)
(* The chain of blocked sessions that the tests of the locks command and   *)
(* the demo put up and take down: class Chain and the fixture chain of     *)
(* tests/test_pg_locks.py, and blocking_chain of demo/run.py, which does   *)
(* the same with a sleep where the test asks the server.                   *)
(*                                                                         *)
(* The main thread and one thread per waiter share the list of waiters'    *)
(* connections; a psycopg connection is guarded by a lock that execute     *)
(* holds until the server answers; the server queues the UPDATEs of one    *)
(* row, and a session keeps the row until its transaction ends.            *)
(***************************************************************************)
EXTENDS Naturals, Sequences, SequencesExt

CONSTANTS N,           \* how many sessions queue up; two in the code
          MaxCancels   \* bound: how many statements someone else cancels

ASSUME ChainAssumption == N \in Nat \ {0} /\ MaxCancels \in Nat

Waiter == 1..N
Holder == 0
Nobody == N + 1

VARIABLES caller,     \* "test", which asks the server, or "demo", which sleeps
          main,       \* what the main thread does next
          at,         \* the waiter, or the place in the list, it does it to
          thread,     \* waiter -> where its thread is
          waiters,    \* the shared list of connections, in order of append
          row,        \* the session whose open transaction has the row
          queue,      \* the sessions waiting for it, in order
          open,       \* sessions with an open connection
          cancelled,  \* waiters whose statement was cancelled
          timedOut    \* waiters whose join gave up

server == <<row, queue, open, cancelled>>
vars == <<caller, main, at, thread, waiters, server, timedOut>>

\* execute holds the lock of the connection until the server answers.
ConnectionBusy(w) == thread[w] = "waiting"

Init ==
  /\ caller \in {"test", "demo"}
  /\ main = "begin" /\ at = 1
  /\ thread = [w \in Waiter |-> "none"]
  /\ waiters = << >>
  /\ row = Nobody /\ queue = << >> /\ open = {} /\ cancelled = {}
  /\ timedOut = {}

-----------------------------------------------------------------------------
(* The server *)

\* The transaction of s ends: the row goes to the first in the queue, whose
\* UPDATE returns; the transaction of that one stays open.
EndOf(s) ==
  \/ /\ row # s
     /\ UNCHANGED <<row, queue, thread>>
  \/ /\ row = s /\ queue = << >>
     /\ row' = Nobody
     /\ UNCHANGED <<queue, thread>>
  \/ /\ row = s /\ queue # << >>
     /\ row' = Head(queue)
     /\ queue' = Tail(queue)
     /\ thread' = [thread EXCEPT ![Head(queue)] = "ended"]

\* Somebody cancels a statement that waits: it fails, its transaction has the
\* row no more, and the thread suppresses the error and ends.
Cancel ==
  /\ Cardinality(cancelled) < MaxCancels
  /\ \E i \in DOMAIN queue :
       /\ queue' = RemoveAt(queue, i)
       /\ thread' = [thread EXCEPT ![queue[i]] = "ended"]
       /\ cancelled' = cancelled \cup {queue[i]}
  /\ UNCHANGED <<caller, main, at, waiters, row, open, timedOut>>

-----------------------------------------------------------------------------
(* run, the body of a waiter's thread *)

Connect(w) ==
  /\ thread[w] = "started"
  /\ thread' = [thread EXCEPT ![w] = "connected"]
  /\ open' = open \cup {w}
  /\ UNCHANGED <<caller, main, at, waiters, row, queue, cancelled, timedOut>>

AppendSelf(w) ==
  /\ thread[w] = "connected"
  /\ waiters' = Append(waiters, w)
  /\ thread' = [thread EXCEPT ![w] = "listed"]
  /\ UNCHANGED <<caller, main, at, server, timedOut>>

\* conn.execute("UPDATE orders ...") gets the row at once or queues for it.
Update(w) ==
  /\ thread[w] = "listed"
  /\ \/ /\ row = Nobody
        /\ row' = w
        /\ thread' = [thread EXCEPT ![w] = "ended"]
        /\ UNCHANGED queue
     \/ /\ row # Nobody
        /\ queue' = Append(queue, w)
        /\ thread' = [thread EXCEPT ![w] = "waiting"]
        /\ UNCHANGED row
  /\ UNCHANGED <<caller, main, at, waiters, open, cancelled, timedOut>>

-----------------------------------------------------------------------------
(* The main thread: __init__ and start *)

LockRow ==
  /\ main = "begin"
  /\ row' = Holder /\ open' = {Holder}
  /\ main' = "queue"
  /\ UNCHANGED <<caller, at, thread, waiters, queue, cancelled, timedOut>>

\* _queue: start the thread of the next waiter.
StartThread ==
  /\ main = "queue"
  /\ thread' = [thread EXCEPT ![at] = "started"]
  /\ main' = "settle"
  /\ UNCHANGED <<caller, at, waiters, server, timedOut>>

\* A slip: the waiters are counted from 0.
AfterSettlingFromZero ==
  IF at = N THEN main' = "yield" /\ at' = 0
  ELSE main' = "queue" /\ at' = at + 1

AfterSettling ==
  IF at = N THEN main' = "yield" /\ at' = 1
  ELSE main' = "queue" /\ at' = at + 1

\* A slip: settle on a sleep where the server should be asked.
SettleBlindly ==
  /\ main = "settle"
  /\ AfterSettling
  /\ UNCHANGED <<caller, thread, waiters, server, timedOut>>

\* _wait_until_blocked(position) sees enough blocked sessions, or the sleep,
\* which may be too short, is over.
Settle ==
  /\ main = "settle"
  /\ caller = "test" => Len(queue) >= at
  /\ AfterSettling
  /\ UNCHANGED <<caller, thread, waiters, server, timedOut>>

\* raise AssertionError("only saw fewer than ..."): twenty seconds are taken to
\* be enough for the thread to queue, so a cancelled statement is the reason.
\* start fails outside the try of the fixture: nothing is released.
SettleFails ==
  /\ main = "settle"
  /\ caller = "test"
  /\ thread[at] \in {"waiting", "ended"}
  /\ Len(queue) < at
  /\ main' = "failed"
  /\ UNCHANGED <<caller, at, thread, waiters, server, timedOut>>

-----------------------------------------------------------------------------
(* The main thread: release *)

RollbackHolder ==
  /\ main = "yield"
  /\ EndOf(Holder)
  /\ open' = open \ {Holder}
  /\ main' = "join"
  /\ UNCHANGED <<caller, at, waiters, cancelled, timedOut>>

AfterJoin ==
  IF at = N THEN main' = "rollback" /\ at' = 1
  ELSE at' = at + 1 /\ UNCHANGED main

\* thread.join(timeout) returns because the thread has ended ...
Join ==
  /\ main = "join"
  /\ thread[at] = "ended"
  /\ AfterJoin
  /\ UNCHANGED <<caller, thread, waiters, server, timedOut>>

\* ... or because the time is up, which is taken to be enough for every thread
\* but one that waits for the row.
JoinTimesOut ==
  /\ main = "join"
  /\ thread[at] = "waiting"
  /\ AfterJoin
  /\ timedOut' = timedOut \cup {at}
  /\ UNCHANGED <<caller, thread, waiters, server>>

\* A slip: a connection whose thread did not end in time is left alone.
RollbackJoined ==
  /\ main = "rollback"
  /\ at <= Len(waiters)
  /\ \/ waiters[at] \in timedOut /\ UNCHANGED <<row, queue, thread, open>>
     \/ /\ waiters[at] \notin timedOut
        /\ EndOf(waiters[at])
        /\ open' = open \ {waiters[at]}
  /\ at' = at + 1
  /\ UNCHANGED <<caller, main, waiters, cancelled, timedOut>>

\* conn.rollback() and conn.close() of the next connection of the list; rollback
\* waits for the lock of the connection.
RollbackWaiter ==
  /\ main = "rollback"
  /\ at <= Len(waiters)
  /\ ~ConnectionBusy(waiters[at])
  /\ EndOf(waiters[at])
  /\ open' = open \ {waiters[at]}
  /\ at' = at + 1
  /\ UNCHANGED <<caller, main, waiters, cancelled, timedOut>>

Finish ==
  /\ main = "rollback"
  /\ at > Len(waiters)
  /\ main' = "done"
  /\ UNCHANGED <<caller, at, thread, waiters, server, timedOut>>

Main ==
  \/ LockRow \/ StartThread \/ Settle \/ SettleFails
  \/ RollbackHolder \/ Join \/ JoinTimesOut \/ RollbackWaiter \/ Finish

Run(w) == Connect(w) \/ AppendSelf(w) \/ Update(w)

Next == Main \/ (\E w \in Waiter : Run(w)) \/ Cancel

\* The threads are scheduled, the caller of the fixture returns, and nobody has
\* to cancel anything.
Spec == Init /\ [][Next]_vars /\ WF_vars(Main) /\ \A w \in Waiter : WF_vars(Run(w))

-----------------------------------------------------------------------------
TypeOK ==
  /\ caller \in {"test", "demo"}
  /\ main \in {"begin", "queue", "settle", "yield", "join", "rollback", "done", "failed"}
  /\ at \in 1..(N + 1)
  /\ thread \in [Waiter -> {"none", "started", "connected", "listed", "waiting", "ended"}]
  /\ waiters \in Seq(Waiter) /\ queue \in Seq(Waiter)
  /\ row \in Waiter \cup {Holder, Nobody}
  /\ open \subseteq Waiter \cup {Holder}
  /\ cancelled \subseteq Waiter /\ timedOut \subseteq Waiter

\* While a test runs, the sessions nobody cancelled wait one behind the other
\* in the order they were started, the holder in front of all: the chain the
\* tests draw and count (test_pg_locks.py:37-39, 91-96).
ChainIsSingleFile ==
  caller = "test" /\ main = "yield" =>
    /\ row = Holder
    /\ ToSet(queue) = Waiter \ cancelled
    /\ \A i, j \in DOMAIN queue : i < j => queue[i] < queue[j]

\* start and release of the test come to an end (test_pg_locks.py:33-40, 68-75):
\* release never waits for the connection lock of a session that waits for a row
\* which only a later rollback of the same loop would free.  The sleeps of the
\* demo make that likely, not certain.
ReleaseEnds == caller = "test" => <>(main \in {"done", "failed"})

\* Once release has returned, nobody of the chain has the row, waits for it or
\* is still connected (test_pg_locks.py:68-75), whatever timed out on the way.
NothingLeftBehind == main = "done" => row = Nobody /\ queue = << >> /\ open = {}

\* The comments of test_pg_locks.py:46-47 and demo/run.py:83: the statements of
\* the waiters are "released by the holder's rollback", so that no join of
\* release runs into its timeout.
RollbackReleasesWaiters == timedOut = {}
=============================================================================
