--------------------------- MODULE BlockingForest ---------------------------
(***************************************************************************)
(* build_blocking_forest of pgtk/locks.py: a depth-first walk from each    *)
(* root, with the Python call stack of the inner build as state.           *)
(*                                                                         *)
(* A node of the tree is a BlockingNode: the pid it stands for and its     *)
(* path, the entries of children_of that lead to it from the root.  Two    *)
(* nodes may stand for the same pid.  A frame is a running build(pid, seen)*)
(* with the entries of its `for child in sorted(...)` still to come.       *)
(***************************************************************************)
EXTENDS BlockingGraph

CONSTANT Snapshots    \* the lists of sessions the walk is given

ASSUME SnapshotsAssumption == \A s \in Snapshots : IsSnapshot(s)

VARIABLES sessions,   \* the argument, never changed
          roots,      \* roots whose tree is not begun
          stack,      \* the calls of build that have not returned
          forest      \* root -> the nodes of its tree

vars == <<sessions, roots, stack, forest>>

\* build(pid, seen) begins.
Call(node, seen) ==
  [node |-> node, seen |-> seen, todo |-> ChildrenOf(sessions, node.pid)]

RootNode(pid) == [pid |-> pid, path |-> << >>]

ChildNode(node, entry) == [pid |-> entry[1], path |-> Append(node.path, entry)]

Top == stack[Len(stack)]

CurrentRoot == stack[1].node.pid

\* The next element of sorted(children_of.get(pid, [])).
IsNextChild(entry) ==
  /\ entry \in Top.todo
  /\ \A other \in Top.todo :
        entry[1] < other[1] \/ (entry[1] = other[1] /\ entry[2] <= other[2])

Advanced(entry) ==
  [node |-> Top.node, seen |-> Top.seen, todo |-> Top.todo \ {entry}]

Skipped(child) == child \in Top.seen \/ child \notin sessions.by_pid

-----------------------------------------------------------------------------
Init ==
  /\ sessions \in Snapshots
  /\ roots = Roots(sessions)
  /\ stack = << >>
  /\ forest = << >>

\* Slip: the root stays among those to do.
StartRootAgain(root) ==
  /\ stack = << >>
  /\ root \in roots
  /\ stack' = <<Call(RootNode(root), {root})>>
  /\ forest' = [r \in DOMAIN forest \cup {root} |->
                  IF r = root THEN {RootNode(root)} ELSE forest[r]]
  /\ UNCHANGED <<sessions, roots>>

\* for pid in sorted(roots): build(pid, frozenset({pid}))
StartRoot(root) ==
  /\ stack = << >>
  /\ root \in roots
  /\ \A other \in roots : root <= other
  /\ roots' = roots \ {root}
  /\ stack' = <<Call(RootNode(root), {root})>>
  /\ forest' = [r \in DOMAIN forest \cup {root} |->
                  IF r = root THEN {RootNode(root)} ELSE forest[r]]
  /\ UNCHANGED sessions

\* Slip: a loop that does not advance past a child it skips.
SkipChildInPlace(entry) ==
  /\ stack # << >>
  /\ IsNextChild(entry)
  /\ Skipped(entry[1])
  /\ UNCHANGED vars

\* if child in seen or child not in by_pid: continue
SkipChild(entry) ==
  /\ stack # << >>
  /\ IsNextChild(entry)
  /\ Skipped(entry[1])
  /\ stack' = [stack EXCEPT ![Len(stack)] = Advanced(entry)]
  /\ UNCHANGED <<sessions, roots, forest>>

\* Slip: build(child, seen), the child not added to what it may not meet again.
DescendUnseen(entry) ==
  /\ stack # << >>
  /\ IsNextChild(entry)
  /\ ~Skipped(entry[1])
  /\ LET child == ChildNode(Top.node, entry)
     IN /\ stack' = Append([stack EXCEPT ![Len(stack)] = Advanced(entry)],
                           Call(child, Top.seen))
        /\ forest' = [forest EXCEPT ![CurrentRoot] = @ \cup {child}]
  /\ UNCHANGED <<sessions, roots>>

\* Slip: one mutable set for all the calls of a tree, seen.add(child).
DescendSharing(entry) ==
  /\ stack # << >>
  /\ IsNextChild(entry)
  /\ ~Skipped(entry[1])
  /\ LET child == ChildNode(Top.node, entry)
         Shared(frame) == [frame EXCEPT !.seen = @ \cup {entry[1]}]
         kept == [stack EXCEPT ![Len(stack)] = Advanced(entry)]
     IN /\ stack' = Append([k \in DOMAIN kept |-> Shared(kept[k])],
                           Call(child, Top.seen \cup {entry[1]}))
        /\ forest' = [forest EXCEPT ![CurrentRoot] = @ \cup {child}]
  /\ UNCHANGED <<sessions, roots>>

\* node.children.append(build(child, seen | {child}))
Descend(entry) ==
  /\ stack # << >>
  /\ IsNextChild(entry)
  /\ ~Skipped(entry[1])
  /\ LET child == ChildNode(Top.node, entry)
     IN /\ stack' = Append([stack EXCEPT ![Len(stack)] = Advanced(entry)],
                           Call(child, Top.seen \cup {entry[1]}))
        /\ forest' = [forest EXCEPT ![CurrentRoot] = @ \cup {child}]
  /\ UNCHANGED <<sessions, roots>>

\* return node
Return ==
  /\ stack # << >>
  /\ Top.todo = {}
  /\ stack' = SubSeq(stack, 1, Len(stack) - 1)
  /\ UNCHANGED <<sessions, roots, forest>>

Next ==
  \/ \E root \in roots : StartRoot(root)
  \/ stack # << >> /\ \E entry \in Top.todo : SkipChild(entry) \/ Descend(entry)
  \/ Return

Spec == Init /\ [][Next]_vars

\* The walk is one thread of Python that does nothing else.
FairSpec == Spec /\ WF_vars(Next)

-----------------------------------------------------------------------------
(* The methods of BlockingNode, on the root of a tree. *)

PidsIn(root) == {n.pid : n \in forest[root]}

Size(root) == Cardinality(PidsIn(root))

Finished == {r \in DOMAIN forest : stack = << >> \/ r # CurrentRoot}

Done == stack = << >> /\ roots = {}

-----------------------------------------------------------------------------
(* Types *)

\* The state of the walk is well formed: the roots still to do are roots, the
\* forest has a tree for each of the others, and a frame holds a pid that was
\* read, what is on the way to it, and some of the sessions waiting on it.
TypeOK ==
  /\ IsSnapshot(sessions)
  /\ roots \subseteq Roots(sessions)
  /\ DOMAIN forest = Roots(sessions) \ roots
  /\ \A r \in DOMAIN forest : \A n \in forest[r] :
        /\ n = [pid |-> n.pid, path |-> n.path]
        /\ n.pid \in sessions.by_pid
        /\ n.path \in Seq(Entries(sessions))
  /\ stack \in Seq([node : [pid : sessions.by_pid, path : Seq(Entries(sessions))],
                    seen : SUBSET sessions.by_pid,
                    todo : SUBSET Entries(sessions)])
  /\ stack # << >> => CurrentRoot \in DOMAIN forest

-----------------------------------------------------------------------------
(* What the forest is for *)

Sets == INSTANCE BlockSets WITH answer <- [r \in Finished |-> PidsIn(r)]

\* A finished tree holds exactly the sessions that wait on its root, however
\* they are reached, and is never touched again: the walk of locks.py:161-173
\* prunes by path, which must lose nobody, and pids (locks.py:99-109) counts a
\* session that hangs in several places once.
AnswersWhoWaits == Sets!AbsSpec

\* The pids from the root to a node.
ChainTo(root, n) == <<root>> \o [i \in DOMAIN n.path |-> n.path[i][1]]

\* Every way of going from root to a waiter, from that one to a waiter of its
\* own, and so on, without meeting a session twice.
AcyclicChains(root) ==
  {c \in UNION {[1..k -> sessions.by_pid] : k \in 1..Cardinality(sessions.by_pid)} :
     /\ c[1] = root
     /\ \A i, j \in DOMAIN c : c[i] = c[j] => i = j
     /\ \A i \in 2..Len(c) : WaitsOn(sessions, c[i], c[i - 1])}

\* The tree shows each acyclic chain of waits from its root, and nothing else:
\* a cycle among the waiters is cut where it closes (locks.py:169) and the cut
\* in one branch hides nothing in another.
TreeShowsEveryChain ==
  \A r \in Finished : {ChainTo(r, n) : n \in forest[r]} = AcyclicChains(r)

\* build never recurses deeper than there are sessions, whatever cycles
\* pg_blocking_pids reported (docstring, locks.py:149-152).
DepthWithinSessions == Len(stack) <= Cardinality(sessions.by_pid)

\* The walk ends on every snapshot, cycles included (locks.py:149-153: "A tool
\* that hangs while rendering a lock tree is worse").
WalkEnds == <>Done

-----------------------------------------------------------------------------
(* Why it holds: the inductive invariant *)

\* A running call belongs to the tree being built; seen is the path to it.
StackSound ==
  \A k \in DOMAIN stack :
     /\ stack[k].node \in forest[CurrentRoot]
     /\ stack[k].seen \subseteq PidsIn(CurrentRoot)
     /\ Cardinality(stack[k].seen) = k
     /\ stack[k].todo \subseteq ChildrenOf(sessions, stack[k].node.pid)

OnlyWaiters ==
  \A r \in DOMAIN forest : r \in PidsIn(r) /\ PidsIn(r) \subseteq Waiters(sessions, r)

\* A running call for pid has c still to come.
Owed(root, pid, c) ==
  /\ stack # << >>
  /\ root = CurrentRoot
  /\ \E k \in DOMAIN stack :
        stack[k].node.pid = pid /\ \E e \in stack[k].todo : e[1] = c

NobodyLost ==
  \A r \in DOMAIN forest : \A p \in PidsIn(r) : \A c \in sessions.by_pid :
     WaitsOn(sessions, c, p) => c \in PidsIn(r) \/ Owed(r, p, c)

WalkInv == TypeOK /\ StackSound /\ OnlyWaiters /\ NobodyLost

-----------------------------------------------------------------------------
(* Who is not in the forest *)

\* p and every pid it waits on, directly or through others.
Ancestors(p) ==
  {q \in Pids :
     \A S \in SUBSET Pids :
        /\ p \in S
        /\ \A x \in S \cap sessions.by_pid : \A y \in Pids : WaitsOn(sessions, x, y) => y \in S
        => q \in S}

WaitsOnItself(p) ==
  p \in sessions.by_pid /\ \E q \in Pids : WaitsOn(sessions, p, q) /\ p \in Ancestors(q)

\* A waiting session is left out of every tree only for one of two reasons: the
\* waits behind it form a cycle, or lead to a pid the tool did not read
\* (locks.py:159 takes as roots only pids that were read and do not wait).
UnseenWaiterHasCycleOrStranger ==
  Done => \A p \in Blocked(sessions) :
     (\A r \in DOMAIN forest : p \notin PidsIn(r)) =>
        \E q \in Ancestors(p) : q \notin sessions.by_pid \/ WaitsOnItself(q)
=============================================================================
