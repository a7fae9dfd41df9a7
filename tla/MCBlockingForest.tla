-------------------------- MODULE MCBlockingForest --------------------------
(***************************************************************************)
(* Snapshots for TLC: three sessions that may also be blocked by pid 0, by *)
(* a pid that is missing from the list and twice by the same pid; and four *)
(* sessions that were all read, each blocked by any set of the others.     *)
(***************************************************************************)
EXTENDS BlockingForest

MCPids == 0..4

\* Tuples of at most two pids, repetitions allowed.
Mentions(p, from) == UNION {[1..k -> from \ {p}] : k \in 0..2}

Three ==
  {[by_pid |-> S, blocked_by |-> b] :
     S \in {{1, 2, 3}}, b \in {f \in [{1, 2, 3} -> UNION {[1..k -> 0..3] : k \in 0..2}] :
                      \A p \in {1, 2, 3} : f[p] \in Mentions(p, 0..3)}}

Two ==
  {[by_pid |-> {1, 2}, blocked_by |-> b] :
     b \in {f \in [{1, 2} -> UNION {[1..k -> 0..3] : k \in 0..2}] :
              \A p \in {1, 2} : f[p] \in Mentions(p, 0..3)}}

\* A set of pids as the tuple in which they are sorted.
InOrder(S) ==
  CHOOSE t \in [1..Cardinality(S) -> S] : \A i, j \in DOMAIN t : i < j => t[i] < t[j]

Four ==
  {[by_pid |-> 1..4, blocked_by |-> [p \in 1..4 |-> InOrder(f[p])]] :
     f \in {g \in [1..4 -> SUBSET (1..4)] : \A p \in 1..4 : p \notin g[p]}}

MCSnapshots == Two \cup Three \cup Four
=============================================================================
