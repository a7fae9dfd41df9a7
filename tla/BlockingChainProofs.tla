------------------------ MODULE BlockingChainProofs ------------------------
(***************************************************************************)
(* For every length of the chain and any number of cancelled statements:   *)
(* the test puts its chain up in order, and nothing of a chain is left     *)
(* once release has returned.  The argument follows the main thread: what  *)
(* every thread has done by the time it is at one of its steps, and which  *)
(* sessions its last loop is through with.                                 *)
(***************************************************************************)
EXTENDS BlockingChain, DistinctSequences

Queueing == {"queue", "settle"}
Releasing == {"rollback", "done"}
AtRow == {"waiting", "ended"}

\* The queue is of the threads that wait, each once; a free row has none.
QueueOK ==
  /\ thread \in [Waiter -> {"none", "started", "connected", "listed", "waiting", "ended"}]
  /\ queue \in Seq(Waiter) /\ Distinct(queue)
  /\ \A w \in Waiter : thread[w] = "waiting" <=> Entry(queue, w)
  /\ row \in Waiter \cup {Holder, Nobody}
  /\ row = Nobody => Len(queue) = 0
  /\ cancelled \subseteq Waiter /\ timedOut \subseteq Waiter

\* The list is of the threads that have appended themselves, each once.
ListOK ==
  /\ waiters \in Seq(Waiter) /\ Distinct(waiters)
  /\ \A w \in Waiter : thread[w] \in {"listed", "waiting", "ended"}
                          <=> Entry(waiters, w)

\* Where the main thread is, and whom it has started and waited for.
MainOK ==
  /\ caller \in {"test", "demo"}
  /\ main \in Queueing \cup Releasing \cup {"begin", "yield", "join", "failed"}
  /\ at \in 1..(N + 1)
  /\ main \in Queueing \cup {"join"} => at \in 1..N
  /\ main \in {"begin", "yield"} => at = 1
  /\ main = "begin" => row = Nobody /\ cancelled = {} /\ \A w \in Waiter : thread[w] = "none"
  /\ main = "queue" => \A w \in Waiter : w >= at => thread[w] = "none"
  /\ main = "settle" => \A w \in Waiter : thread[w] = "none" <=> w > at
  /\ main \in {"queue", "join"} => \A w \in Waiter : w < at => thread[w] # "none"
  /\ main \in {"yield", "join"} => \A w \in Waiter : thread[w] # "none"
  /\ main = "join" => \A w \in Waiter : w < at => thread[w] \in AtRow
  /\ main \in Releasing => \A w \in Waiter : thread[w] \in AtRow
  /\ main \in Queueing \cup {"yield"} => row = Holder
  /\ main \in Releasing \cup {"join"} => row # Holder

\* The sessions the last loop has rolled back and closed are gone for good.
Released ==
  /\ open \subseteq Waiter \cup {Holder}
  /\ main \in Releasing \cup {"join"} => Holder \notin open
  /\ main \in Releasing =>
       \A j \in 1..Len(waiters) : j < at =>
         /\ thread[waiters[j]] = "ended"
         /\ row # waiters[j] /\ waiters[j] \notin open
  /\ main = "done" => at > Len(waiters)

\* The test has each session queue, behind the ones before it, before it starts
\* the next; who is through with the row by then was cancelled.
InOrder ==
  /\ main \in Queueing \cup {"yield"} =>
       \A w \in Waiter : thread[w] = "ended" <=> w \in cancelled
  /\ caller = "test" /\ main \in Queueing \cup {"yield"} => Increasing(queue)
  /\ caller = "test" /\ main \in Queueing =>
       \A w \in Waiter : w < at => thread[w] \in AtRow
  /\ caller = "test" /\ main = "yield" => \A w \in Waiter : thread[w] \in AtRow

IInv == QueueOK /\ ListOK /\ MainOK /\ Released /\ InOrder

-----------------------------------------------------------------------------
(* The invariant *)

LEMMA Persons ==
  /\ N \in Nat /\ N >= 1
  /\ Holder \notin Waiter /\ Nobody \notin Waiter /\ Holder # Nobody
  BY ChainAssumption DEF Holder, Nobody, Waiter

LEMMA InitIInv == Init => IInv
<1> SUFFICES ASSUME Init PROVE IInv
  OBVIOUS
<1>1. \A w \in Waiter : thread[w] = "none"
  BY DEF Init
<1>2. << >> \in Seq(Waiter) /\ Len(<< >>) = 0
  BY EmptySeq
<1>3. QueueOK
  BY <1>1, <1>2 DEF Init, QueueOK, Distinct, Entry
<1>4. ListOK
  BY <1>1, <1>2 DEF Init, ListOK, Distinct, Entry
<1>5. MainOK
  BY <1>1, Persons DEF Init, MainOK, Queueing, Releasing
<1>6. Released /\ InOrder
  BY DEF Init, Released, InOrder, Queueing, Releasing
<1> QED
  BY <1>3, <1>4, <1>5, <1>6 DEF IInv

\* The end of a transaction passes the row to the first of the queue, if the row
\* was its own, and leaves it with nothing.
LEMMA EndPasses ==
  ASSUME QueueOK, NEW s \in Waiter \cup {Holder}, EndOf(s),
         s \in Waiter => thread[s] # "waiting",
         cancelled' = cancelled, timedOut' \subseteq Waiter
  PROVE  /\ QueueOK'
         /\ row' # s
         /\ row' \in {row, Nobody} \/ (row' \in Waiter /\ thread[row'] = "waiting")
         /\ \A w \in Waiter :
              thread'[w] = thread[w] \/ (thread[w] = "waiting" /\ thread'[w] = "ended")
<1>1. CASE row # s /\ UNCHANGED <<row, queue, thread>>
  <2>1. QueueOK'
    BY <1>1 DEF QueueOK
  <2>2. row' = row /\ row' # s /\ \A w \in Waiter : thread'[w] = thread[w]
    BY <1>1
  <2> QED
    BY <2>1, <2>2
<1>2. CASE row = s /\ queue = << >> /\ row' = Nobody /\ UNCHANGED <<queue, thread>>
  <2>1. Len(queue') = 0
    BY <1>2, EmptySeq
  <2>2. QueueOK'
    BY <1>2, <2>1, Persons DEF QueueOK
  <2>3. row' # s /\ row' = Nobody /\ \A w \in Waiter : thread'[w] = thread[w]
    BY <1>2, Persons
  <2> QED
    BY <2>2, <2>3
<1>3. CASE /\ row = s /\ queue # << >>
           /\ row' = Head(queue) /\ queue' = Tail(queue)
           /\ thread' = [thread EXCEPT ![Head(queue)] = "ended"]
  <2>1. /\ queue' \in Seq(Waiter) /\ Distinct(queue')
        /\ \A w : Entry(queue', w) <=> Entry(queue, w) /\ w # row'
        /\ row' \in Waiter /\ Entry(queue, row')
    BY <1>3, TailOne DEF QueueOK
  <2>2. thread[row'] = "waiting"
    BY <2>1 DEF QueueOK
  <2>3. /\ thread' \in [Waiter -> {"none", "started", "connected", "listed", "waiting", "ended"}]
        /\ thread'[row'] = "ended"
        /\ \A w \in Waiter : w # row' => thread'[w] = thread[w]
    BY <1>3, <2>1 DEF QueueOK
  <2>4. \A w \in Waiter : thread'[w] = "waiting" <=> Entry(queue', w)
    BY <2>1, <2>2, <2>3 DEF QueueOK
  <2>5. row' # s
    BY <2>1, <2>2, Persons
  <2>6. QueueOK'
    BY <2>1, <2>3, <2>4, Persons DEF QueueOK
  <2> QED
    BY <2>1, <2>2, <2>3, <2>5, <2>6
<1> QED
  BY <1>1, <1>2, <1>3 DEF EndOf

LEMMA ConnectStep == ASSUME IInv, NEW w \in Waiter, Connect(w) PROVE IInv'
<1>1. QueueOK /\ ListOK /\ MainOK /\ Released /\ InOrder
  BY DEF IInv
<1>2. /\ thread[w] = "started" /\ thread'[w] = "connected"
      /\ thread' = [thread EXCEPT ![w] = "connected"]
      /\ open' = open \cup {w}
      /\ \A v \in Waiter : v # w => thread'[v] = thread[v]
      /\ UNCHANGED <<caller, main, at, waiters, row, queue, cancelled, timedOut>>
  BY <1>1 DEF Connect, QueueOK
<1>3. QueueOK'
  BY <1>1, <1>2 DEF QueueOK
<1>4. ListOK'
  BY <1>1, <1>2 DEF ListOK
<1>5. MainOK'
  BY <1>1, <1>2 DEF MainOK, AtRow
<1>6. Released'
  <2>1. main \notin Releasing
    BY <1>1, <1>2 DEF MainOK, AtRow
  <2> QED
    BY <1>1, <1>2, <2>1, Persons DEF Released, Releasing
<1>7. InOrder'
  BY <1>1, <1>2 DEF InOrder, AtRow
<1> QED
  BY <1>3, <1>4, <1>5, <1>6, <1>7 DEF IInv

LEMMA AppendSelfStep == ASSUME IInv, NEW w \in Waiter, AppendSelf(w) PROVE IInv'
<1>1. QueueOK /\ ListOK /\ MainOK /\ Released /\ InOrder
  BY DEF IInv
<1>2. /\ thread[w] = "connected" /\ thread'[w] = "listed"
      /\ thread' = [thread EXCEPT ![w] = "listed"]
      /\ waiters' = Append(waiters, w)
      /\ \A v \in Waiter : v # w => thread'[v] = thread[v]
      /\ UNCHANGED <<caller, main, at, row, queue, open, cancelled, timedOut>>
  BY <1>1 DEF AppendSelf, QueueOK, server
<1>3. QueueOK'
  BY <1>1, <1>2 DEF QueueOK
<1>4. ListOK'
  <2>1. waiters \in Seq(Waiter) /\ Distinct(waiters) /\ ~Entry(waiters, w)
    BY <1>1, <1>2 DEF ListOK
  <2>2. /\ waiters' \in Seq(Waiter) /\ Distinct(waiters')
        /\ \A v : Entry(waiters', v) <=> Entry(waiters, v) \/ v = w
    BY <1>2, <2>1, AppendOne
  <2> QED
    BY <1>1, <1>2, <2>2 DEF ListOK
<1>5. MainOK'
  BY <1>1, <1>2 DEF MainOK, AtRow
<1>6. Released'
  BY <1>1, <1>2 DEF Released, MainOK, AtRow, Releasing
<1>7. InOrder'
  BY <1>1, <1>2 DEF InOrder, AtRow
<1> QED
  BY <1>3, <1>4, <1>5, <1>6, <1>7 DEF IInv

LEMMA UpdateStep == ASSUME IInv, NEW w \in Waiter, Update(w) PROVE IInv'
<1>1. QueueOK /\ ListOK /\ MainOK /\ Released /\ InOrder
  BY DEF IInv
<1>2. /\ thread[w] = "listed" /\ thread'[w] \in AtRow
      /\ \A v \in Waiter : v # w => thread'[v] = thread[v]
      /\ thread' \in [Waiter -> {"none", "started", "connected", "listed", "waiting", "ended"}]
      /\ UNCHANGED <<caller, main, at, waiters, open, cancelled, timedOut>>
  BY <1>1 DEF Update, QueueOK, AtRow
<1>3. \/ row = Nobody /\ row' = w /\ thread'[w] = "ended" /\ queue' = queue
      \/ /\ row # Nobody /\ row' = row /\ thread'[w] = "waiting"
         /\ queue' = Append(queue, w)
  BY <1>1 DEF Update, QueueOK
<1>4. QueueOK'
  <2>1. CASE row = Nobody /\ row' = w /\ thread'[w] = "ended" /\ queue' = queue
    BY <1>1, <1>2, <2>1, Persons DEF QueueOK
  <2>2. CASE /\ row # Nobody /\ row' = row /\ thread'[w] = "waiting"
             /\ queue' = Append(queue, w)
    <3>1. queue \in Seq(Waiter) /\ Distinct(queue) /\ ~Entry(queue, w)
      BY <1>1, <1>2 DEF QueueOK
    <3>2. /\ queue' \in Seq(Waiter) /\ Distinct(queue')
          /\ \A v : Entry(queue', v) <=> Entry(queue, v) \/ v = w
      BY <2>2, <3>1, AppendOne
    <3> QED
      BY <1>1, <1>2, <2>2, <3>2 DEF QueueOK
  <2> QED
    BY <1>3, <2>1, <2>2
<1>5. ListOK'
  BY <1>1, <1>2 DEF ListOK, AtRow
<1>6. MainOK'
  BY <1>1, <1>2, <1>3, Persons DEF MainOK, AtRow, Queueing, Releasing
<1>7. main \notin Releasing
  BY <1>1, <1>2 DEF MainOK, AtRow
<1>8. Released'
  BY <1>1, <1>2, <1>7 DEF Released, Releasing
<1>9. InOrder'
  <2> SUFFICES ASSUME main \in Queueing \cup {"yield"} PROVE InOrder'
    BY <1>2 DEF InOrder
  <2>1. row = Holder /\ thread'[w] = "waiting" /\ queue' = Append(queue, w)
    BY <1>1, <1>3, Persons DEF MainOK
  <2>2. \A v \in Waiter : thread'[v] = "ended" <=> v \in cancelled'
    BY <1>1, <1>2, <2>1 DEF InOrder
  <2>3. ASSUME caller = "test" PROVE Increasing(queue')
    <3>1. main = "settle" /\ w = at
      BY <1>1, <1>2, <2>3, Persons DEF InOrder, MainOK, AtRow, Queueing, Waiter
    <3>2. Increasing(queue) /\ queue \in Seq(Waiter) /\ Len(queue) \in Nat
      BY <1>1, <2>3, LenProperties DEF InOrder, QueueOK
    <3>3. ASSUME NEW i \in 1..Len(queue) PROVE queue[i] < w
      <4>1. queue[i] \in Waiter /\ Entry(queue, queue[i])
        BY <3>2, ElementOfSeq DEF Entry
      <4>2. thread[queue[i]] = "waiting"
        BY <1>1, <4>1 DEF QueueOK
      <4> QED
        BY <1>1, <1>2, <3>1, <4>1, <4>2, Persons DEF MainOK, Waiter
    <3>4. /\ Len(queue') = Len(queue) + 1
          /\ \A i \in 1..Len(queue) : queue'[i] = queue[i]
          /\ queue'[Len(queue) + 1] = w
      BY <2>1, <3>2, AppendProperties
    <3>5. \A i \in 1..Len(queue') : i \in 1..Len(queue) \/ i = Len(queue) + 1
      BY <3>2, <3>4
    <3> QED
      BY <3>2, <3>3, <3>4, <3>5 DEF Increasing
  <2>4. \A v \in Waiter : thread[v] \in AtRow => thread'[v] \in AtRow
    BY <1>2
  <2> QED
    BY <1>1, <1>2, <2>2, <2>3, <2>4 DEF InOrder
<1> QED
  BY <1>4, <1>5, <1>6, <1>8, <1>9 DEF IInv

LEMMA CancelStep == ASSUME IInv, Cancel PROVE IInv'
<1>1. QueueOK /\ ListOK /\ MainOK /\ Released /\ InOrder
  BY DEF IInv
<1>2. queue \in Seq(Waiter) /\ Distinct(queue) /\ Len(queue) \in Nat
  BY <1>1, LenProperties DEF QueueOK
<1>3. PICK i \in 1..Len(queue) :
        /\ queue' = RemoveAt(queue, i)
        /\ thread' = [thread EXCEPT ![queue[i]] = "ended"]
        /\ cancelled' = cancelled \cup {queue[i]}
  BY <1>2, LenProperties DEF Cancel
<1>4. UNCHANGED <<caller, main, at, waiters, row, open, timedOut>>
  BY DEF Cancel
<1> DEFINE w == queue[i]
<1>5. /\ w \in Waiter /\ thread[w] = "waiting" /\ thread'[w] = "ended"
      /\ cancelled' = cancelled \cup {w}
      /\ \A v \in Waiter : v # w => thread'[v] = thread[v]
      /\ thread' \in [Waiter -> {"none", "started", "connected", "listed", "waiting", "ended"}]
  <2>1. w \in Waiter /\ Entry(queue, w)
    BY <1>2, ElementOfSeq DEF Entry
  <2> QED
    BY <1>1, <1>3, <2>1 DEF QueueOK
<1>6. /\ queue' \in Seq(Waiter) /\ Distinct(queue')
      /\ \A v : Entry(queue', v) <=> Entry(queue, v) /\ v # w
      /\ Increasing(queue) => Increasing(queue')
  BY <1>2, <1>3, RemoveOne
<1> HIDE DEF w
<1>7. QueueOK'
  <2>1. row # Nobody
    BY <1>1, <1>2 DEF QueueOK
  <2> QED
    BY <1>1, <1>4, <1>5, <1>6, <2>1 DEF QueueOK
<1>8. ListOK'
  BY <1>1, <1>4, <1>5 DEF ListOK
<1>9. MainOK'
  BY <1>1, <1>4, <1>5 DEF MainOK, AtRow
<1>10. Released'
  BY <1>1, <1>4, <1>5, ElementOfSeq DEF Released, ListOK
<1>11. InOrder'
  BY <1>1, <1>4, <1>5, <1>6 DEF InOrder, AtRow
<1> QED
  BY <1>7, <1>8, <1>9, <1>10, <1>11 DEF IInv

LEMMA LockRowStep == ASSUME IInv, LockRow PROVE IInv'
<1>1. QueueOK /\ ListOK /\ MainOK /\ Released /\ InOrder
  BY DEF IInv
<1>2. /\ main = "begin" /\ main' = "queue" /\ at = 1
      /\ row = Nobody /\ row' = Holder /\ open' = {Holder}
      /\ cancelled = {} /\ \A w \in Waiter : thread[w] = "none"
      /\ UNCHANGED <<caller, at, thread, waiters, queue, cancelled, timedOut>>
  BY <1>1 DEF LockRow, MainOK
<1>3. QueueOK'
  BY <1>1, <1>2, Persons DEF QueueOK
<1>4. ListOK'
  BY <1>1, <1>2 DEF ListOK
<1>5. MainOK'
  BY <1>1, <1>2, Persons DEF MainOK, Queueing, Releasing, Waiter
<1>6. Released'
  BY <1>1, <1>2 DEF Released, Releasing
<1>7. InOrder'
  <2>1. Len(queue) = 0
    BY <1>1, <1>2 DEF QueueOK
  <2>2. Increasing(queue')
    BY <1>2, <2>1 DEF Increasing
  <2>3. \A w \in Waiter : ~(w < at)
    BY <1>2 DEF Waiter
  <2> QED
    BY <1>2, <2>2, <2>3 DEF InOrder, Queueing
<1> QED
  BY <1>3, <1>4, <1>5, <1>6, <1>7 DEF IInv

LEMMA StartThreadStep == ASSUME IInv, StartThread PROVE IInv'
<1>1. QueueOK /\ ListOK /\ MainOK /\ Released /\ InOrder
  BY DEF IInv
<1>2. /\ main = "queue" /\ main' = "settle"
      /\ at \in Waiter /\ thread[at] = "none" /\ thread'[at] = "started"
      /\ \A w \in Waiter : w # at => thread'[w] = thread[w]
      /\ thread' \in [Waiter -> {"none", "started", "connected", "listed", "waiting", "ended"}]
      /\ UNCHANGED <<caller, at, waiters, row, queue, open, cancelled, timedOut>>
  BY <1>1 DEF StartThread, MainOK, QueueOK, server, Queueing, Waiter
<1>3. QueueOK'
  BY <1>1, <1>2 DEF QueueOK
<1>4. ListOK'
  BY <1>1, <1>2 DEF ListOK
<1>5. MainOK'
  <2>1. \A w \in Waiter : thread'[w] = "none" <=> w > at
    BY <1>1, <1>2, Persons DEF MainOK, Waiter
  <2> QED
    BY <1>1, <1>2, <2>1 DEF MainOK, Queueing, Releasing
<1>6. Released'
  BY <1>1, <1>2 DEF Released, Releasing
<1>7. InOrder'
  <2>1. \A w \in Waiter : w < at => w # at
    BY <1>2 DEF Waiter
  <2> QED
    BY <1>1, <1>2, <2>1 DEF InOrder, AtRow, Queueing
<1> QED
  BY <1>3, <1>4, <1>5, <1>6, <1>7 DEF IInv

\* As many sessions in the queue as were started: all of them are at the row.
LEMMA AllHaveQueued ==
  ASSUME IInv, main = "settle", caller = "test", Len(queue) >= at
  PROVE  \A w \in Waiter : w <= at => thread[w] \in AtRow
<1>1. /\ QueueOK /\ MainOK /\ at \in 1..N /\ N \in Nat
      /\ \A w \in Waiter : w < at => thread[w] \in AtRow
  BY Persons DEF IInv, InOrder, MainOK, Queueing
<1> SUFFICES ASSUME thread[at] \notin AtRow PROVE FALSE
  BY <1>1 DEF Waiter
<1>2. ASSUME NEW i \in 1..Len(queue) PROVE queue[i] \in 1..at - 1
  <2>1. queue[i] \in Waiter /\ Entry(queue, queue[i])
    BY <1>1, ElementOfSeq DEF QueueOK, Entry
  <2>2. thread[queue[i]] = "waiting"
    BY <1>1, <2>1 DEF QueueOK
  <2>3. ~(queue[i] > at) /\ queue[i] # at
    BY <1>1, <2>1, <2>2 DEF MainOK, AtRow
  <2> QED
    BY <1>1, <2>1, <2>3 DEF Waiter
<1>3. queue \in Seq(Nat) /\ Distinct(queue) /\ Len(queue) \in Nat
  <2>1. queue \in Seq(Waiter) /\ Waiter \subseteq Nat
    BY <1>1 DEF QueueOK, Waiter
  <2> QED
    BY <1>1, <2>1, SeqMonotonic, LenProperties DEF QueueOK
<1>4. at - 1 \in Nat
  BY <1>1
<1>5. Len(queue) <= at - 1
  BY <1>2, <1>3, <1>4, NoMoreThan
<1> QED
  BY <1>1, <1>3, <1>5

LEMMA SettleStep == ASSUME IInv, Settle PROVE IInv'
<1>1. QueueOK /\ ListOK /\ MainOK /\ Released /\ InOrder
  BY DEF IInv
<1>2. /\ main = "settle" /\ at \in 1..N /\ N \in Nat
      /\ UNCHANGED <<caller, thread, waiters, row, queue, open, cancelled, timedOut>>
  BY <1>1, Persons DEF Settle, server, MainOK, Queueing
<1>3. \/ at = N /\ main' = "yield" /\ at' = 1
      \/ at # N /\ main' = "queue" /\ at' = at + 1
  BY DEF Settle, AfterSettling
<1>4. QueueOK' /\ ListOK'
  BY <1>1, <1>2 DEF QueueOK, ListOK
<1>5. MainOK'
  <2>1. \A w \in Waiter : w \in Nat /\ w <= N
    BY <1>2 DEF Waiter
  <2>2. CASE at = N /\ main' = "yield" /\ at' = 1
    BY <1>1, <1>2, <2>1, <2>2 DEF MainOK, Queueing, Releasing
  <2>3. CASE at # N /\ main' = "queue" /\ at' = at + 1
    BY <1>1, <1>2, <2>1, <2>3 DEF MainOK, Queueing, Releasing
  <2> QED
    BY <1>3, <2>2, <2>3
<1>6. Released'
  BY <1>1, <1>2, <1>3 DEF Released, Releasing
<1>7. InOrder'
  <2>1. main \in Queueing /\ main' \in {"queue", "yield"}
    BY <1>2, <1>3 DEF Queueing
  <2>2. caller = "test" => \A w \in Waiter : w <= at => thread[w] \in AtRow
    BY <1>2, AllHaveQueued DEF Settle
  <2>3. \A w \in Waiter : (main' = "yield" => w <= at) /\ (main' = "queue" /\ w < at' => w <= at)
    BY <1>2, <1>3 DEF Waiter
  <2> QED
    BY <1>1, <1>2, <2>1, <2>2, <2>3 DEF InOrder, Queueing
<1> QED
  BY <1>4, <1>5, <1>6, <1>7 DEF IInv

LEMMA SettleFailsStep == ASSUME IInv, SettleFails PROVE IInv'
<1>1. QueueOK /\ ListOK /\ MainOK /\ Released /\ InOrder
  BY DEF IInv
<1>2. /\ main = "settle" /\ main' = "failed"
      /\ UNCHANGED <<caller, at, thread, waiters, row, queue, open, cancelled, timedOut>>
  BY DEF SettleFails, server
<1>3. QueueOK' /\ ListOK'
  BY <1>1, <1>2 DEF QueueOK, ListOK
<1>4. MainOK'
  BY <1>1, <1>2 DEF MainOK, Queueing, Releasing
<1>5. Released' /\ InOrder'
  BY <1>1, <1>2 DEF Released, InOrder, Queueing, Releasing
<1> QED
  BY <1>3, <1>4, <1>5 DEF IInv

LEMMA RollbackHolderStep == ASSUME IInv, RollbackHolder PROVE IInv'
<1>1. QueueOK /\ ListOK /\ MainOK /\ Released /\ InOrder
  BY DEF IInv
<1>2. /\ main = "yield" /\ main' = "join" /\ at = 1 /\ open' = open \ {Holder}
      /\ EndOf(Holder)
      /\ UNCHANGED <<caller, at, waiters, cancelled, timedOut>>
  BY <1>1 DEF RollbackHolder, MainOK
<1>3. /\ QueueOK' /\ row' # Holder
      /\ \A w \in Waiter :
           thread'[w] = thread[w] \/ (thread[w] = "waiting" /\ thread'[w] = "ended")
  <2>1. timedOut' \subseteq Waiter
    BY <1>1, <1>2 DEF QueueOK
  <2> QED
    BY <1>1, <1>2, <2>1, EndPasses, Persons
<1>4. ListOK'
  BY <1>1, <1>2, <1>3 DEF ListOK
<1>5. MainOK'
  <2>1. \A w \in Waiter : ~(w < 1)
    BY DEF Waiter
  <2> QED
    BY <1>1, <1>2, <1>3, <2>1, Persons DEF MainOK, Queueing, Releasing
<1>6. Released' /\ InOrder'
  BY <1>1, <1>2 DEF Released, InOrder, Queueing, Releasing
<1> QED
  BY <1>3, <1>4, <1>5, <1>6 DEF IInv

LEMMA JoinStep == ASSUME IInv, Join \/ JoinTimesOut PROVE IInv'
<1>1. QueueOK /\ ListOK /\ MainOK /\ Released /\ InOrder
  BY DEF IInv
<1>2. /\ main = "join" /\ at \in 1..N /\ N \in Nat /\ thread[at] \in AtRow
      /\ UNCHANGED <<caller, thread, waiters, row, queue, open, cancelled>>
      /\ timedOut' \subseteq Waiter
  BY <1>1, Persons DEF Join, JoinTimesOut, server, MainOK, QueueOK, AtRow, Waiter
<1>3. \/ at = N /\ main' = "rollback" /\ at' = 1
      \/ at # N /\ main' = "join" /\ at' = at + 1
  BY <1>2 DEF Join, JoinTimesOut, AfterJoin
<1>4. QueueOK' /\ ListOK'
  BY <1>1, <1>2 DEF QueueOK, ListOK
<1>5. MainOK'
  <2>1. \A w \in Waiter : w \in Nat /\ w <= N /\ (w < at \/ w = at \/ w > at)
    BY <1>2 DEF Waiter
  <2>2. CASE at = N /\ main' = "rollback" /\ at' = 1
    BY <1>1, <1>2, <2>1, <2>2 DEF MainOK, Queueing, Releasing
  <2>3. CASE at # N /\ main' = "join" /\ at' = at + 1
    BY <1>1, <1>2, <2>1, <2>3 DEF MainOK, Queueing, Releasing
  <2> QED
    BY <1>3, <2>2, <2>3
<1>6. Released'
  <2>1. \A j \in 1..Len(waiters) : ~(j < 1)
    OBVIOUS
  <2> QED
    BY <1>1, <1>2, <1>3, <2>1 DEF Released, Releasing
<1>7. InOrder'
  BY <1>1, <1>2, <1>3 DEF InOrder, Queueing
<1> QED
  BY <1>4, <1>5, <1>6, <1>7 DEF IInv

LEMMA RollbackWaiterStep == ASSUME IInv, RollbackWaiter PROVE IInv'
<1>1. QueueOK /\ ListOK /\ MainOK /\ Released /\ InOrder
  BY DEF IInv
<1>2. /\ main = "rollback" /\ at \in 1..N + 1 /\ at <= Len(waiters)
      /\ EndOf(waiters[at])
      /\ open' = open \ {waiters[at]} /\ at' = at + 1
      /\ UNCHANGED <<caller, main, waiters, cancelled, timedOut>>
  BY <1>1 DEF RollbackWaiter, MainOK
<1>3. waiters \in Seq(Waiter) /\ Distinct(waiters) /\ Len(waiters) \in Nat /\ N \in Nat
  BY <1>1, LenProperties, Persons DEF ListOK
<1>4. at \in 1..Len(waiters) /\ waiters[at] \in Waiter /\ thread[waiters[at]] = "ended"
  <2>1. at \in 1..Len(waiters)
    BY <1>2, <1>3
  <2>2. waiters[at] \in Waiter
    BY <1>3, <2>1, ElementOfSeq
  <2> QED
    BY <1>1, <1>2, <2>1, <2>2 DEF RollbackWaiter, ConnectionBusy, MainOK, Releasing, AtRow
<1>5. /\ QueueOK' /\ row' # waiters[at]
      /\ row' \in {row, Nobody} \/ (row' \in Waiter /\ thread[row'] = "waiting")
      /\ \A w \in Waiter :
           thread'[w] = thread[w] \/ (thread[w] = "waiting" /\ thread'[w] = "ended")
  <2>1. timedOut' \subseteq Waiter
    BY <1>1, <1>2 DEF QueueOK
  <2> QED
    BY <1>1, <1>2, <1>4, <2>1, EndPasses
<1>6. at <= N
  <2>1. waiters \in Seq(Nat) /\ \A i \in 1..Len(waiters) : waiters[i] \in 1..N
    <3>1. Waiter \subseteq Nat
      BY DEF Waiter
    <3> QED
      BY <1>3, <3>1, SeqMonotonic, ElementOfSeq DEF Waiter
  <2>2. Len(waiters) <= N
    BY <1>3, <2>1, NoMoreThan
  <2> QED
    BY <1>2, <1>3, <2>2
<1>7. ListOK'
  BY <1>1, <1>2, <1>5 DEF ListOK
<1>8. MainOK'
  <2>1. at' \in 1..N + 1
    BY <1>2, <1>3, <1>6
  <2>2. row' # Holder
    BY <1>1, <1>2, <1>5, Persons DEF MainOK, Releasing
  <2>3. \A w \in Waiter : thread'[w] \in AtRow
    BY <1>1, <1>2, <1>5 DEF MainOK, AtRow, Releasing
  <2> QED
    BY <1>1, <1>2, <2>1, <2>2, <2>3 DEF MainOK, Queueing, Releasing
<1>9. Released'
  <2>1. ASSUME NEW j \in 1..Len(waiters), j < at + 1
        PROVE  /\ thread'[waiters[j]] = "ended"
               /\ row' # waiters[j] /\ waiters[j] \notin open'
    <3>1. waiters[j] \in Waiter
      BY <1>3, ElementOfSeq
    <3>2. CASE j = at
      BY <1>2, <1>4, <1>5, <3>2
    <3>3. CASE j < at
      <4>1. thread[waiters[j]] = "ended" /\ row # waiters[j] /\ waiters[j] \notin open
        BY <1>1, <1>2, <3>3 DEF Released, Releasing
      <4> QED
        BY <1>2, <1>5, <3>1, <4>1, Persons
    <3> QED
      BY <1>2, <2>1, <3>2, <3>3
  <2> QED
    BY <1>1, <1>2, <2>1 DEF Released, Releasing
<1>10. InOrder'
  BY <1>2 DEF InOrder, Queueing
<1> QED
  BY <1>5, <1>7, <1>8, <1>9, <1>10 DEF IInv

LEMMA FinishStep == ASSUME IInv, Finish PROVE IInv'
<1>1. QueueOK /\ ListOK /\ MainOK /\ Released /\ InOrder
  BY DEF IInv
<1>2. /\ main = "rollback" /\ main' = "done" /\ at > Len(waiters)
      /\ UNCHANGED <<caller, at, thread, waiters, row, queue, open, cancelled, timedOut>>
  BY DEF Finish, server
<1>3. QueueOK' /\ ListOK'
  BY <1>1, <1>2 DEF QueueOK, ListOK
<1>4. MainOK'
  BY <1>1, <1>2 DEF MainOK, Queueing, Releasing
<1>5. Released' /\ InOrder'
  BY <1>1, <1>2 DEF Released, InOrder, Queueing, Releasing
<1> QED
  BY <1>3, <1>4, <1>5 DEF IInv

LEMMA Stutter == ASSUME IInv, UNCHANGED vars PROVE IInv'
  BY DEF vars, server, IInv, QueueOK, ListOK, MainOK, Released, InOrder

\* The invariant the theorems rest on holds in every reachable state.
THEOREM IInvHolds == Spec => []IInv
<1>1. Init => IInv
  BY InitIInv
<1>2. IInv /\ [Next]_vars => IInv'
  <2> SUFFICES ASSUME IInv, [Next]_vars PROVE IInv'
    OBVIOUS
  <2>1. CASE Main
    BY <2>1, LockRowStep, StartThreadStep, SettleStep, SettleFailsStep, RollbackHolderStep,
       JoinStep, RollbackWaiterStep, FinishStep DEF Main
  <2>2. CASE \E w \in Waiter : Run(w)
    BY <2>2, ConnectStep, AppendSelfStep, UpdateStep DEF Run
  <2>3. CASE Cancel
    BY <2>3, CancelStep
  <2> QED
    BY <2>1, <2>2, <2>3, Stutter DEF Next
<1> QED
  BY <1>1, <1>2, PTL DEF Spec

-----------------------------------------------------------------------------
(* What follows *)

\* The type invariant: the main thread never counts past its waiters.
THEOREM TypeCorrect == Spec => []TypeOK
<1>1. IInv => TypeOK
  BY DEF IInv, QueueOK, ListOK, MainOK, Released, TypeOK, Queueing, Releasing
<1> QED
  BY <1>1, IInvHolds, PTL

\* test_pg_locks.py:37-39, 91-96: while a test runs, the sessions that nobody
\* cancelled wait behind the holder in the order they were started.
THEOREM ChainInSingleFile == Spec => []ChainIsSingleFile
<1>1. IInv => ChainIsSingleFile
  <2> SUFFICES ASSUME IInv, caller = "test", main = "yield"
               PROVE  /\ row = Holder
                      /\ ToSet(queue) = Waiter \ cancelled
                      /\ \A i, j \in DOMAIN queue : i < j => queue[i] < queue[j]
    BY DEF ChainIsSingleFile
  <2>1. /\ row = Holder /\ Increasing(queue) /\ queue \in Seq(Waiter)
        /\ \A w \in Waiter : thread[w] \in AtRow
        /\ \A w \in Waiter : thread[w] = "ended" <=> w \in cancelled
        /\ \A w \in Waiter : thread[w] = "waiting" <=> Entry(queue, w)
    BY DEF IInv, InOrder, MainOK, QueueOK
  <2>2. DOMAIN queue = 1..Len(queue)
    BY <2>1, LenProperties
  <2>3. ToSet(queue) = {w \in Waiter : Entry(queue, w)}
    BY <2>1, <2>2, ElementOfSeq DEF ToSet, Entry
  <2>4. ToSet(queue) = Waiter \ cancelled
    BY <2>1, <2>3 DEF AtRow
  <2> QED
    BY <2>1, <2>2, <2>4 DEF Increasing
<1> QED
  BY <1>1, IInvHolds, PTL

\* test_pg_locks.py:68-75: release leaves no session of the chain with the row, in
\* the queue or connected, in the test and in the demo, whichever join timed out.
THEOREM AllIsReleased == Spec => []NothingLeftBehind
<1>1. IInv => NothingLeftBehind
  <2> SUFFICES ASSUME IInv, main = "done" PROVE row = Nobody /\ queue = << >> /\ open = {}
    BY DEF NothingLeftBehind
  <2>1. /\ waiters \in Seq(Waiter) /\ queue \in Seq(Waiter) /\ at > Len(waiters)
        /\ \A w \in Waiter : thread[w] \in AtRow
        /\ row \in Waiter \cup {Holder, Nobody} /\ row # Holder
        /\ open \subseteq Waiter \cup {Holder} /\ Holder \notin open
    BY DEF IInv, QueueOK, ListOK, MainOK, Released, Releasing
  <2>2. ASSUME NEW w \in Waiter
        PROVE  thread[w] = "ended" /\ row # w /\ w \notin open
    <3>1. Entry(waiters, w)
      BY <2>1 DEF IInv, ListOK, AtRow
    <3>2. PICK j \in 1..Len(waiters) : waiters[j] = w
      BY <3>1 DEF Entry
    <3>3. j < at
      BY <2>1, LenProperties DEF IInv, MainOK
    <3> QED
      BY <3>2, <3>3 DEF IInv, Released, Releasing
  <2>3. \A i \in 1..Len(queue) : FALSE
    BY <2>1, <2>2, ElementOfSeq DEF IInv, QueueOK, Entry
  <2>4. queue = << >>
    BY <2>1, <2>3, EmptySeq, LenProperties
  <2> QED
    BY <2>1, <2>2, <2>4
<1> QED
  BY <1>1, IInvHolds, PTL
=============================================================================
