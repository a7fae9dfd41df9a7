--------------------------- MODULE BlockingGraph ---------------------------
(***************************************************************************)
(* What pgtk/locks.py makes of one reading of pg_stat_activity before it   *)
(* walks it: who was read, who waits on whom, where the trees start.       *)
(*                                                                         *)
(* A snapshot is the list load_sessions returns.  Only the pid and the     *)
(* blocked_by tuple of a session matter to the shape of the forest.  The   *)
(* tuple comes from pg_blocking_pids: it may name a pid twice (a parallel  *)
(* query), 0 (a prepared transaction), and a pid that was not read (the    *)
(* tool's own backend, another database, a backend that has gone).         *)
(***************************************************************************)
EXTENDS Integers, Sequences, FiniteSets

CONSTANT Pids     \* every number pg_blocking_pids may name, 0 included

ASSUME PidsAssumption == Pids \subseteq Nat

\* A list of sessions: by_pid is the set of pids that were read.
IsSnapshot(s) ==
  /\ s = [by_pid |-> s.by_pid, blocked_by |-> s.blocked_by]
  /\ s.by_pid \subseteq Pids /\ IsFiniteSet(s.by_pid)
  /\ s.blocked_by \in [s.by_pid -> Seq(Pids)]

\* q is named in the blocked_by tuple of p.
WaitsOn(s, p, q) == \E i \in DOMAIN s.blocked_by[p] : s.blocked_by[p][i] = q

\* The keys of the dictionary `blocked`.
Blocked(s) == {p \in s.by_pid : s.blocked_by[p] # << >>}

\* Slip: `involved = set(blocked)`, the blockers that wait for none forgotten.
InvolvedBlockedOnly(s) == Blocked(s)

Involved(s) ==
  Blocked(s) \cup {q \in Pids : \E p \in Blocked(s) : WaitsOn(s, p, q)}

\* Slip: `and not blocked.get(pid)` left out.
RootsThatWait(s) == {p \in Involved(s) : p \in s.by_pid}

\* Slip: `pid in by_pid` left out.
RootsUnread(s) == {p \in Involved(s) : p \notin Blocked(s)}

Roots(s) == {p \in Involved(s) : p \in s.by_pid /\ p \notin Blocked(s)}

\* Slip: only the first blocker of a tuple gets the waiter as a child.
ChildrenOfFirst(s, pid) == {<<p, 1>> : p \in {q \in Blocked(s) : s.blocked_by[q][1] = pid}}

\* children_of[pid], a list: a waiter is in it once for each time its tuple
\* names pid, so an entry is the waiter and the position of the mention.
ChildrenOf(s, pid) ==
  UNION {{<<p, i>> : i \in {j \in DOMAIN s.blocked_by[p] : s.blocked_by[p][j] = pid}}
           : p \in Blocked(s)}

\* Every entry of every list of children_of.
Entries(s) ==
  {e \in s.by_pid \X Nat : e[2] \in DOMAIN s.blocked_by[e[1]]}

-----------------------------------------------------------------------------
(* What the walk should find, said without a walk. *)

\* Whoever waits on a member of S is a member of S.
Closed(s, S) == \A p \in s.by_pid : (\E q \in S : WaitsOn(s, p, q)) => p \in S

\* root and every session that waits on it, directly or through others.
Waiters(s, root) ==
  {p \in s.by_pid :
     \A S \in SUBSET s.by_pid : root \in S /\ Closed(s, S) => p \in S}
=============================================================================
