------------------------ MODULE BlockingForestProofs ------------------------
(***************************************************************************)
(* Proofs about BlockingForest, for every set of pids and every list of    *)
(* sessions.                                                               *)
(***************************************************************************)
EXTENDS BlockingForest, SequenceTheorems, FiniteSetTheorems, WellFoundedInduction, TLAPS

(* A list of children_of holds only positions of blocked_by tuples. *)
LEMMA ChildrenAreEntries ==
  ASSUME NEW s, IsSnapshot(s), NEW pid
  PROVE  /\ ChildrenOf(s, pid) \subseteq Entries(s)
         /\ \A e \in ChildrenOf(s, pid) :
               e[1] \in s.by_pid /\ WaitsOn(s, e[1], pid)
<1>1. \A p \in s.by_pid : s.blocked_by[p] \in Seq(Pids)
  BY DEF IsSnapshot
<1> QED
  BY <1>1 DEF ChildrenOf, Entries, Blocked, WaitsOn

(* Whoever waits on pid is in its list. *)
LEMMA WaitersAreChildren ==
  ASSUME NEW s, IsSnapshot(s), NEW pid, NEW p \in s.by_pid, WaitsOn(s, p, pid)
  PROVE  \E e \in ChildrenOf(s, pid) : e[1] = p
<1>1. s.blocked_by[p] \in Seq(Pids)
  BY DEF IsSnapshot
<1>2. PICK i \in DOMAIN s.blocked_by[p] : s.blocked_by[p][i] = pid
  BY DEF WaitsOn
<1>3. p \in Blocked(s)
  BY <1>1, <1>2 DEF Blocked
<1>4. <<p, i>> \in ChildrenOf(s, pid)
  BY <1>2, <1>3 DEF ChildrenOf
<1> QED
  BY <1>4

(* A frame: what build(pid, seen) holds between two steps. *)
Frames ==
  [node : [pid : sessions.by_pid, path : Seq(Entries(sessions))],
   seen : SUBSET sessions.by_pid,
   todo : SUBSET Entries(sessions)]

LEMMA CallIsFrame ==
  ASSUME IsSnapshot(sessions),
         NEW node \in [pid : sessions.by_pid, path : Seq(Entries(sessions))],
         NEW seen \in SUBSET sessions.by_pid
  PROVE  Call(node, seen) \in Frames
  BY ChildrenAreEntries DEF Call, Frames

LEMMA TopIsFrame ==
  ASSUME stack \in Seq(Frames), stack # << >>
  PROVE  /\ Len(stack) \in Nat \ {0} /\ DOMAIN stack = 1..Len(stack)
         /\ Top \in Frames
         /\ \A e : /\ Advanced(e) \in Frames
                  /\ Advanced(e).node = Top.node
                  /\ Advanced(e).seen = Top.seen
                  /\ Advanced(e).todo = Top.todo \ {e}
<1>1. Len(stack) \in Nat \ {0} /\ DOMAIN stack = 1..Len(stack) /\ Top \in Frames
  BY DEF Top
<1> QED
  BY <1>1 DEF Advanced, Frames

(* The walk is well typed on every snapshot. *)
THEOREM WalkTyped == Spec => []TypeOK
<1>1. Init => TypeOK
  BY SnapshotsAssumption DEF Init, TypeOK
<1>2. TypeOK /\ [Next]_vars => TypeOK'
  <2> SUFFICES ASSUME TypeOK, [Next]_vars PROVE TypeOK'
    OBVIOUS
  <2> USE DEF TypeOK
  <2>0. stack \in Seq(Frames)
    BY DEF Frames
  <2>1. CASE \E root \in roots : StartRoot(root)
    <3>1. PICK root \in roots : StartRoot(root)
      BY <2>1
    <3>2. root \in sessions.by_pid /\ root \in Roots(sessions)
      BY DEF Roots
    <3>3. RootNode(root) \in [pid : sessions.by_pid, path : Seq(Entries(sessions))]
      BY <3>2 DEF RootNode
    <3>4. Call(RootNode(root), {root}) \in Frames
      BY <3>2, <3>3, CallIsFrame
    <3>5. stack' \in Seq(Frames) /\ stack'[1].node.pid = root
      BY <3>1, <3>4 DEF StartRoot, Call, RootNode
    <3>6. UNCHANGED sessions /\ roots' = roots \ {root}
          /\ DOMAIN forest' = DOMAIN forest \cup {root}
          /\ \A r \in DOMAIN forest' :
                forest'[r] = IF r = root THEN {RootNode(root)} ELSE forest[r]
      BY <3>1 DEF StartRoot
    <3>7. \A r \in DOMAIN forest' : \A n \in forest'[r] :
             /\ n = [pid |-> n.pid, path |-> n.path]
             /\ n.pid \in sessions.by_pid
             /\ n.path \in Seq(Entries(sessions))
      BY <3>3, <3>6
    <3> QED
      BY <3>2, <3>5, <3>6, <3>7 DEF Frames, CurrentRoot
  <2>2. CASE stack # << >> /\ \E entry \in Top.todo : SkipChild(entry)
    <3>1. PICK entry \in Top.todo : SkipChild(entry)
      BY <2>2
    <3>2. Top \in Frames /\ Advanced(entry) \in Frames /\ Advanced(entry).node = Top.node
      BY <2>0, <2>2, TopIsFrame
    <3>3. stack' \in Seq(Frames) /\ Len(stack') = Len(stack)
          /\ stack'[1].node = stack[1].node
      BY <2>0, <2>2, <3>1, <3>2 DEF SkipChild, Top
    <3> QED
      BY <3>1, <3>3, <2>2 DEF SkipChild, Frames, CurrentRoot
  <2>3. CASE stack # << >> /\ \E entry \in Top.todo : Descend(entry)
    <3>1. PICK entry \in Top.todo : Descend(entry)
      BY <2>3
    <3>2. /\ Top \in Frames
          /\ Advanced(entry) \in Frames /\ Advanced(entry).node = Top.node
      BY <2>0, <2>3, TopIsFrame
    <3> DEFINE child == ChildNode(Top.node, entry)
    <3>3. entry \in Entries(sessions) /\ entry[1] \in sessions.by_pid
      BY <3>1, <3>2 DEF Frames, Descend, Skipped
    <3>4. child \in [pid : sessions.by_pid, path : Seq(Entries(sessions))]
      BY <3>2, <3>3 DEF ChildNode, Frames
    <3>5. Call(child, Top.seen \cup {entry[1]}) \in Frames
      BY <3>2, <3>3, <3>4, CallIsFrame DEF Frames
    <3>6. stack' \in Seq(Frames) /\ stack' # << >> /\ stack'[1].node = stack[1].node
      BY <2>0, <2>3, <3>1, <3>2, <3>5 DEF Descend, Top
    <3>7. /\ UNCHANGED <<sessions, roots>>
          /\ forest' = [forest EXCEPT ![CurrentRoot] = @ \cup {child}]
      BY <3>1 DEF Descend
    <3> QED
      BY <2>3, <3>4, <3>6, <3>7 DEF Frames, CurrentRoot
  <2>4. CASE Return
    <3>1. stack' \in Seq(Frames) /\ (stack' # << >> => stack'[1] = stack[1])
      BY <2>0, <2>4 DEF Return
    <3> QED
      BY <2>4, <3>1 DEF Return, Frames, CurrentRoot
  <2>5. CASE UNCHANGED vars
    BY <2>5 DEF vars, CurrentRoot
  <2> QED
    BY <2>1, <2>2, <2>3, <2>4, <2>5 DEF Next
<1> QED
  BY <1>1, <1>2, PTL DEF Spec

-----------------------------------------------------------------------------
(* What each step does to the stack, one frame at a time. *)

LEMMA StackDomain ==
  ASSUME TypeOK, stack # << >>
  PROVE  /\ stack \in Seq(Frames)
         /\ Len(stack) \in Nat \ {0} /\ DOMAIN stack = 1..Len(stack)
         /\ 1 \in DOMAIN stack /\ Len(stack) \in DOMAIN stack
  BY DEF TypeOK, Frames

LEMMA AdvancedStack ==
  ASSUME TypeOK, stack # << >>, NEW entry,
         NEW kept, kept = [stack EXCEPT ![Len(stack)] = Advanced(entry)]
  PROVE  /\ kept \in Seq(Frames) /\ Len(kept) = Len(stack)
         /\ DOMAIN kept = DOMAIN stack
         /\ \A k \in DOMAIN stack :
              /\ kept[k].node = stack[k].node
              /\ kept[k].seen = stack[k].seen
              /\ kept[k].todo = IF k = Len(stack) THEN stack[k].todo \ {entry}
                                ELSE stack[k].todo
<1>1. stack \in Seq(Frames) /\ Advanced(entry) \in Frames
  BY StackDomain, TopIsFrame
<1>2. kept \in Seq(Frames) /\ Len(kept) = Len(stack) /\ DOMAIN kept = DOMAIN stack
  BY <1>1
<1>3. \A k \in DOMAIN stack :
         kept[k] = IF k = Len(stack) THEN Advanced(entry) ELSE stack[k]
  BY <1>1
<1>4. Advanced(entry).node = Top.node /\ Advanced(entry).seen = Top.seen
      /\ Advanced(entry).todo = Top.todo \ {entry}
  BY <1>1, TopIsFrame
<1> QED
  BY <1>2, <1>3, <1>4 DEF Top

LEMMA SkipFrames ==
  ASSUME TypeOK, NEW entry, SkipChild(entry)
  PROVE  /\ DOMAIN stack' = DOMAIN stack /\ stack # << >> /\ stack' # << >>
         /\ entry \in Top.todo /\ CurrentRoot' = CurrentRoot
         /\ \A k \in DOMAIN stack :
              /\ stack'[k].node = stack[k].node
              /\ stack'[k].seen = stack[k].seen
              /\ stack'[k].todo = IF k = Len(stack) THEN stack[k].todo \ {entry}
                                  ELSE stack[k].todo
<1>1. stack # << >> /\ entry \in Top.todo
  BY DEF SkipChild, IsNextChild
<1> DEFINE kept == [stack EXCEPT ![Len(stack)] = Advanced(entry)]
<1>2. stack' = kept
  BY DEF SkipChild
<1>3. /\ kept \in Seq(Frames) /\ Len(kept) = Len(stack)
      /\ DOMAIN kept = DOMAIN stack
      /\ \A k \in DOMAIN stack :
              /\ kept[k].node = stack[k].node
              /\ kept[k].seen = stack[k].seen
              /\ kept[k].todo = IF k = Len(stack) THEN stack[k].todo \ {entry}
                                ELSE stack[k].todo
  BY <1>1, AdvancedStack
<1> HIDE DEF kept
<1>4. 1 \in DOMAIN stack /\ kept # << >>
  BY <1>1, <1>3, StackDomain
<1> QED
  BY <1>1, <1>2, <1>3, <1>4 DEF CurrentRoot

LEMMA DescendFrames ==
  ASSUME TypeOK, NEW entry, Descend(entry)
  PROVE  /\ DOMAIN stack' = DOMAIN stack \cup {Len(stack) + 1}
         /\ stack # << >> /\ stack' # << >>
         /\ entry \in Top.todo /\ CurrentRoot' = CurrentRoot
         /\ \A k \in DOMAIN stack :
              /\ stack'[k].node = stack[k].node
              /\ stack'[k].seen = stack[k].seen
              /\ stack'[k].todo = IF k = Len(stack) THEN stack[k].todo \ {entry}
                                  ELSE stack[k].todo
         /\ stack'[Len(stack) + 1].node = ChildNode(Top.node, entry)
         /\ stack'[Len(stack) + 1].seen = Top.seen \cup {entry[1]}
         /\ stack'[Len(stack) + 1].todo = ChildrenOf(sessions, entry[1])
<1>1. stack # << >> /\ entry \in Top.todo
  BY DEF Descend, IsNextChild
<1> DEFINE new == Call(ChildNode(Top.node, entry), Top.seen \cup {entry[1]})
           kept == [stack EXCEPT ![Len(stack)] = Advanced(entry)]
<1>2. stack' = Append(kept, new)
  BY DEF Descend
<1>3. /\ new.node = ChildNode(Top.node, entry)
      /\ new.seen = Top.seen \cup {entry[1]}
      /\ new.todo = ChildrenOf(sessions, entry[1])
  BY DEF Call, ChildNode
<1>4. /\ kept \in Seq(Frames) /\ Len(kept) = Len(stack)
      /\ DOMAIN kept = DOMAIN stack
      /\ \A k \in DOMAIN stack :
              /\ kept[k].node = stack[k].node
              /\ kept[k].seen = stack[k].seen
              /\ kept[k].todo = IF k = Len(stack) THEN stack[k].todo \ {entry}
                                ELSE stack[k].todo
  BY <1>1, AdvancedStack
<1> HIDE DEF new, kept
<1>5. /\ DOMAIN stack' = 1..(Len(stack) + 1)
      /\ \A k \in DOMAIN stack : stack'[k] = kept[k]
      /\ stack'[Len(stack) + 1] = new
  BY <1>1, <1>2, <1>4, StackDomain
<1>6. DOMAIN stack' = DOMAIN stack \cup {Len(stack) + 1} /\ stack' # << >>
  BY <1>1, <1>5, StackDomain
<1> QED
  BY <1>1, <1>3, <1>4, <1>5, <1>6, StackDomain DEF CurrentRoot

LEMMA ReturnFrames ==
  ASSUME TypeOK, Return
  PROVE  /\ stack # << >> /\ Top.todo = {}
         /\ DOMAIN stack' = DOMAIN stack \ {Len(stack)}
         /\ \A k \in DOMAIN stack' : stack'[k] = stack[k]
         /\ (stack' = << >> <=> Len(stack) = 1)
         /\ stack' # << >> => CurrentRoot' = CurrentRoot
<1>1. stack # << >> /\ Top.todo = {} /\ stack' = SubSeq(stack, 1, Len(stack) - 1)
  BY DEF Return
<1>2. stack \in Seq(Frames) /\ Len(stack) \in Nat \ {0} /\ DOMAIN stack = 1..Len(stack)
  BY <1>1, StackDomain
<1>3. /\ stack' \in Seq(Frames) /\ Len(stack') = Len(stack) - 1
      /\ \A k \in 1..(Len(stack) - 1) : stack'[k] = stack[k]
  BY <1>1, <1>2
<1>4. DOMAIN stack' = 1..(Len(stack) - 1)
  BY <1>2, <1>3
<1>5. stack' = << >> <=> Len(stack) = 1
  BY <1>2, <1>3
<1> QED
  BY <1>1, <1>2, <1>3, <1>4, <1>5 DEF CurrentRoot

-----------------------------------------------------------------------------
(* Waiters is the smallest closed set that holds the root. *)

LEMMA WaitersLeast ==
  ASSUME NEW s, NEW root \in s.by_pid
  PROVE  /\ root \in Waiters(s, root)
         /\ \A p \in Waiters(s, root) : \A c \in s.by_pid :
               WaitsOn(s, c, p) => c \in Waiters(s, root)
         /\ \A S \in SUBSET s.by_pid :
               root \in S /\ Closed(s, S) => Waiters(s, root) \subseteq S
  BY DEF Waiters, Closed

(* The invariant of the walk: the running calls hold exactly what is still   *)
(* owed, and nothing but waiters is ever put in a tree.                      *)
THEOREM WalkInvariant == Spec => []WalkInv
<1>1. Init => WalkInv
  <2> SUFFICES ASSUME Init PROVE StackSound /\ OnlyWaiters /\ NobodyLost
    BY SnapshotsAssumption DEF Init, TypeOK, WalkInv
  <2> QED
    BY DEF Init, StackSound, OnlyWaiters, NobodyLost
<1>2. TypeOK' /\ WalkInv /\ [Next]_vars => WalkInv'
  <2> SUFFICES ASSUME TypeOK', TypeOK, StackSound, OnlyWaiters, NobodyLost, [Next]_vars
               PROVE  StackSound' /\ OnlyWaiters' /\ NobodyLost'
    BY DEF WalkInv
  <2>1. CASE \E root \in roots : StartRoot(root)
    <3>1. PICK root \in roots : StartRoot(root)
      BY <2>1
    <3>2. root \in sessions.by_pid /\ root \notin DOMAIN forest
      BY DEF TypeOK, Roots
    <3>3. /\ UNCHANGED sessions /\ DOMAIN stack' = {1} /\ stack' # << >> /\ stack = << >>
          /\ stack'[1].node = RootNode(root) /\ stack'[1].seen = {root}
          /\ stack'[1].todo = ChildrenOf(sessions, root)
          /\ CurrentRoot' = root
      BY <3>1 DEF StartRoot, Call, RootNode, CurrentRoot
    <3>4. /\ DOMAIN forest' = DOMAIN forest \cup {root}
          /\ forest'[root] = {RootNode(root)} /\ PidsIn(root)' = {root}
          /\ \A r \in DOMAIN forest : forest'[r] = forest[r] /\ PidsIn(r)' = PidsIn(r)
      BY <3>1, <3>2 DEF StartRoot, PidsIn, RootNode
    <3>5. StackSound'
      <4>1. Cardinality({root}) = 1
        BY FS_Singleton
      <4>2. RootNode(root).pid = root
        BY DEF RootNode
      <4> QED
        BY <3>3, <3>4, <4>1, <4>2 DEF StackSound
    <3>6. OnlyWaiters'
      BY <3>2, <3>3, <3>4, WaitersLeast DEF OnlyWaiters
    <3>7. NobodyLost'
      <4>1. \A c \in sessions.by_pid : WaitsOn(sessions, c, root) => Owed(root, root, c)'
        BY <3>2, <3>3, WaitersAreChildren DEF Owed, RootNode, TypeOK
      <4> QED
        BY <3>3, <3>4, <4>1 DEF NobodyLost, Owed
    <3> QED
      BY <3>5, <3>6, <3>7
  <2>2. CASE \E entry \in Top.todo : SkipChild(entry)
    <3>1. PICK entry \in Top.todo : SkipChild(entry)
      BY <2>2
    <3>2. UNCHANGED <<sessions, forest>> /\ CurrentRoot' = CurrentRoot
      BY <3>1, SkipFrames DEF SkipChild
    <3>3. \A r : PidsIn(r)' = PidsIn(r)
      BY <3>2 DEF PidsIn
    <3>4. StackSound'
      <4>1. /\ DOMAIN stack' = DOMAIN stack
            /\ \A k \in DOMAIN stack :
                  /\ stack'[k].node = stack[k].node
                  /\ stack'[k].seen = stack[k].seen
                  /\ stack'[k].todo \subseteq stack[k].todo
        BY <3>1, SkipFrames
      <4>2. ASSUME NEW k \in DOMAIN stack'
            PROVE  /\ stack'[k].node \in forest'[CurrentRoot']
                   /\ stack'[k].seen \subseteq PidsIn(CurrentRoot)'
                   /\ Cardinality(stack'[k].seen) = k
                   /\ stack'[k].todo \subseteq ChildrenOf(sessions, stack'[k].node.pid)
        BY <3>2, <3>3, <4>1 DEF StackSound, PidsIn
      <4> QED
        BY <3>2, <4>2 DEF StackSound
    <3>5. OnlyWaiters'
      BY <3>2, <3>3 DEF OnlyWaiters
    <3>6. entry[1] \in PidsIn(CurrentRoot) \/ entry[1] \notin sessions.by_pid
      BY <3>1, SkipFrames, StackDomain DEF SkipChild, Skipped, StackSound, Top
    <3>7. \A p \in PidsIn(CurrentRoot) : \A c \in sessions.by_pid :
             Owed(CurrentRoot, p, c) => c \in PidsIn(CurrentRoot) \/ Owed(CurrentRoot, p, c)'
      <4> SUFFICES ASSUME NEW p \in PidsIn(CurrentRoot), NEW c \in sessions.by_pid,
                          Owed(CurrentRoot, p, c), c # entry[1]
                   PROVE  Owed(CurrentRoot, p, c)'
        BY <3>6
      <4>1. PICK k \in DOMAIN stack :
               stack[k].node.pid = p /\ \E e \in stack[k].todo : e[1] = c
        BY DEF Owed
      <4>2. k \in DOMAIN stack' /\ stack'[k].node.pid = p
            /\ \E e \in stack'[k].todo : e[1] = c
        BY <3>1, <4>1, SkipFrames
      <4> QED
        BY <3>1, <3>2, <4>2, SkipFrames DEF Owed
    <3>8. NobodyLost'
      BY <3>2, <3>3, <3>7 DEF NobodyLost, Owed
    <3> QED
      BY <3>4, <3>5, <3>8
  <2>3. CASE \E entry \in Top.todo : Descend(entry)
    <3>1. PICK entry \in Top.todo : Descend(entry)
      BY <2>3
    <3> DEFINE child == entry[1]
               top == Len(stack)
    <3>2. /\ UNCHANGED sessions /\ CurrentRoot' = CurrentRoot
          /\ stack # << >> /\ stack' # << >>
      BY <3>1, DescendFrames DEF Descend
    <3>3. top \in Nat \ {0} /\ top \in DOMAIN stack /\ DOMAIN stack = 1..top
      BY <3>2, StackDomain
    <3>4. CurrentRoot \in DOMAIN forest /\ child \in sessions.by_pid /\ child \notin Top.seen
      BY <3>1, <3>2 DEF TypeOK, Descend, Skipped
    <3>5. /\ DOMAIN forest' = DOMAIN forest
          /\ forest'[CurrentRoot] = forest[CurrentRoot] \cup {ChildNode(Top.node, entry)}
          /\ \A r \in DOMAIN forest : r # CurrentRoot => forest'[r] = forest[r]
      BY <3>1, <3>4 DEF Descend
    <3>6. /\ PidsIn(CurrentRoot)' = PidsIn(CurrentRoot) \cup {child}
          /\ \A r \in DOMAIN forest : r # CurrentRoot => PidsIn(r)' = PidsIn(r)
      <4>1. ChildNode(Top.node, entry).pid = child
        BY DEF ChildNode
      <4>2. {n.pid : n \in forest'[CurrentRoot]} = {n.pid : n \in forest[CurrentRoot]} \cup {child}
        BY <3>5, <4>1
      <4> QED
        BY <3>2, <3>5, <4>2 DEF PidsIn
    <3>7. WaitsOn(sessions, child, Top.node.pid) /\ Top.node.pid \in PidsIn(CurrentRoot)
      <4>1. /\ Top.todo \subseteq ChildrenOf(sessions, Top.node.pid)
            /\ Top.node \in forest[CurrentRoot]
        BY <3>3 DEF StackSound, Top
      <4> QED
        BY <4>1, ChildrenAreEntries DEF TypeOK, PidsIn
    <3>8. StackSound'
      <4>1. Cardinality(Top.seen \cup {child}) = top + 1
        <5>1. Top.seen \subseteq sessions.by_pid /\ IsFiniteSet(sessions.by_pid)
          BY <3>2, <3>3, StackDomain, TopIsFrame DEF TypeOK, IsSnapshot, Frames
        <5>2. IsFiniteSet(Top.seen) /\ Cardinality(Top.seen) = top
          BY <3>3, <5>1, FS_Subset DEF StackSound, Top
        <5> QED
          BY <3>4, <5>2, FS_AddElement
      <4>2. ASSUME NEW k \in DOMAIN stack
            PROVE  /\ stack'[k].node \in forest'[CurrentRoot]
                   /\ stack'[k].seen \subseteq PidsIn(CurrentRoot)'
                   /\ Cardinality(stack'[k].seen) = k
                   /\ stack'[k].todo \subseteq ChildrenOf(sessions, stack'[k].node.pid)
        BY <3>1, <3>5, <3>6, DescendFrames DEF StackSound
      <4>2a. /\ stack'[top + 1].node = ChildNode(Top.node, entry)
            /\ stack'[top + 1].seen = Top.seen \cup {child}
            /\ stack'[top + 1].todo = ChildrenOf(sessions, child)
            /\ ChildNode(Top.node, entry).pid = child
        BY <3>1, DescendFrames DEF ChildNode
      <4>3. /\ stack'[top + 1].node \in forest'[CurrentRoot]
            /\ stack'[top + 1].seen \subseteq PidsIn(CurrentRoot)'
            /\ Cardinality(stack'[top + 1].seen) = top + 1
            /\ stack'[top + 1].todo \subseteq ChildrenOf(sessions, stack'[top + 1].node.pid)
        BY <3>3, <3>5, <3>6, <4>1, <4>2a DEF StackSound, Top
      <4>4. DOMAIN stack' = DOMAIN stack \cup {top + 1}
        BY <3>1, DescendFrames
      <4> QED
        BY <3>2, <4>2, <4>3, <4>4 DEF StackSound
    <3>9. OnlyWaiters'
      <4>1. CurrentRoot \in sessions.by_pid
        BY <3>4 DEF TypeOK, Roots
      <4>2. child \in Waiters(sessions, CurrentRoot)
        BY <3>4, <3>7, <4>1, WaitersLeast DEF OnlyWaiters
      <4> QED
        BY <3>2, <3>5, <3>6, <4>2 DEF OnlyWaiters
    <3>10. NobodyLost'
      <4>1. ASSUME NEW p \in PidsIn(CurrentRoot), NEW c \in sessions.by_pid,
                   Owed(CurrentRoot, p, c), c # child
            PROVE  Owed(CurrentRoot, p, c)'
        <5>1. PICK k \in DOMAIN stack :
                 stack[k].node.pid = p /\ \E e \in stack[k].todo : e[1] = c
          BY <4>1 DEF Owed
        <5>2. /\ k \in DOMAIN stack' /\ stack'[k].node = stack[k].node
              /\ stack[k].todo \ {entry} \subseteq stack'[k].todo
          BY <3>1, DescendFrames
        <5> QED
          BY <3>2, <4>1, <5>1, <5>2 DEF Owed
      <4>2. ASSUME NEW c \in sessions.by_pid, WaitsOn(sessions, c, child)
            PROVE  Owed(CurrentRoot, child, c)'
        <5>1. \E e \in ChildrenOf(sessions, child) : e[1] = c
          BY <4>2, WaitersAreChildren DEF TypeOK
        <5>2. /\ top + 1 \in DOMAIN stack' /\ stack'[top + 1].node.pid = child
              /\ stack'[top + 1].todo = ChildrenOf(sessions, child)
          <6>1. ChildNode(Top.node, entry).pid = child
            BY DEF ChildNode
          <6> QED
            BY <3>1, <6>1, DescendFrames
        <5> QED
          BY <3>2, <5>1, <5>2 DEF Owed
      <4> QED
        BY <3>2, <3>5, <3>6, <4>1, <4>2 DEF NobodyLost, Owed
    <3> QED
      BY <3>8, <3>9, <3>10
  <2>4. CASE Return
    <3>1. UNCHANGED <<sessions, forest>> /\ \A r : PidsIn(r)' = PidsIn(r)
      BY <2>4 DEF Return, PidsIn
    <3>2. StackSound'
      BY <2>4, <3>1, ReturnFrames DEF StackSound
    <3>3. OnlyWaiters'
      BY <3>1 DEF OnlyWaiters
    <3>4. ASSUME NEW r \in DOMAIN forest, NEW p \in PidsIn(r), NEW c \in sessions.by_pid,
                 Owed(r, p, c)
          PROVE  Owed(r, p, c)'
      <4>1. PICK k \in DOMAIN stack :
               stack[k].node.pid = p /\ \E e \in stack[k].todo : e[1] = c
        BY <3>4 DEF Owed
      <4>2. k # Len(stack)
        BY <2>4, <4>1, ReturnFrames DEF Top
      <4>3. k \in DOMAIN stack' /\ stack'[k] = stack[k]
        BY <2>4, <4>1, <4>2, ReturnFrames
      <4>4. stack' # << >>
        BY <2>4, <3>4, <4>1, <4>2, ReturnFrames, StackDomain DEF Owed
      <4> QED
        BY <2>4, <3>4, <4>1, <4>3, <4>4, ReturnFrames DEF Owed
    <3>5. NobodyLost'
      BY <3>1, <3>4 DEF NobodyLost
    <3> QED
      BY <3>2, <3>3, <3>5
  <2>5. CASE UNCHANGED vars
    BY <2>5 DEF vars, StackSound, OnlyWaiters, NobodyLost, PidsIn, Owed, CurrentRoot
  <2> QED
    BY <2>1, <2>2, <2>3, <2>4, <2>5 DEF Next
<1> QED
  BY <1>1, <1>2, WalkTyped, PTL DEF Spec

(* The recursion of build is bounded by the number of sessions, whatever     *)
(* cycles pg_blocking_pids reported (docstring, locks.py:149-153).           *)
THEOREM RecursionBounded == Spec => []DepthWithinSessions
<1>1. WalkInv => DepthWithinSessions
  <2> SUFFICES ASSUME WalkInv PROVE DepthWithinSessions
    OBVIOUS
  <2>1. IsFiniteSet(sessions.by_pid) /\ Cardinality(sessions.by_pid) \in Nat
    BY FS_CardinalityType DEF WalkInv, TypeOK, IsSnapshot
  <2>2. CASE stack = << >>
    BY <2>1, <2>2 DEF DepthWithinSessions
  <2>3. CASE stack # << >>
    <3>1. Len(stack) \in DOMAIN stack /\ Top.seen \subseteq sessions.by_pid
      BY <2>3, StackDomain, TopIsFrame DEF WalkInv, Frames
    <3>2. Cardinality(Top.seen) = Len(stack)
      BY <3>1 DEF WalkInv, StackSound, Top
    <3> QED
      BY <2>1, <3>1, <3>2, FS_Subset DEF DepthWithinSessions
  <2> QED
    BY <2>2, <2>3
<1> QED
  BY <1>1, WalkInvariant, PTL

(* When the first call returns, its tree holds exactly the waiters of the    *)
(* root: nothing is owed, so the tree is closed, and it is the smallest.     *)
LEMMA FinishedTree ==
  ASSUME WalkInv, Return, Len(stack) = 1
  PROVE  /\ CurrentRoot \in DOMAIN forest
         /\ PidsIn(CurrentRoot) = Waiters(sessions, CurrentRoot)
<1>1. /\ stack # << >> /\ CurrentRoot \in DOMAIN forest /\ Top.todo = {}
      /\ DOMAIN stack = 1..1 /\ CurrentRoot \in sessions.by_pid
  BY StackDomain, ReturnFrames DEF WalkInv, TypeOK, Roots
<1>2. \A p, c : ~Owed(CurrentRoot, p, c)
  BY <1>1 DEF Owed, Top
<1>3. PidsIn(CurrentRoot) \subseteq sessions.by_pid
  BY <1>1 DEF WalkInv, TypeOK, PidsIn
<1>4. Closed(sessions, PidsIn(CurrentRoot))
  BY <1>1, <1>2 DEF WalkInv, NobodyLost, Closed
<1>5. /\ CurrentRoot \in PidsIn(CurrentRoot)
      /\ PidsIn(CurrentRoot) \subseteq Waiters(sessions, CurrentRoot)
  BY <1>1 DEF WalkInv, OnlyWaiters
<1> QED
  BY <1>1, <1>3, <1>4, <1>5, WaitersLeast

(* The walk implements BlockSets: every root is answered once, with the set  *)
(* of the sessions that wait on it (locks.py:99-112, 161-173).               *)
THEOREM WalkAnswersWhoWaits == Spec => AnswersWhoWaits
<1> DEFINE answer == [r \in Finished |-> PidsIn(r)]
<1>1. Init => Sets!AbsInit
  <2> SUFFICES ASSUME Init PROVE Sets!AbsInit
    OBVIOUS
  <2>1. IsSnapshot(sessions) /\ Finished = {}
    <3>1. DOMAIN forest = {}
      BY DEF Init
    <3> QED
      BY <3>1, SnapshotsAssumption DEF Init, Finished
  <2>2. Sets!IsSnapshot(sessions)
    BY <2>1 DEF Sets!IsSnapshot, IsSnapshot, Sets!IsFiniteSet, IsFiniteSet
  <2>3. answer = [root \in {} |-> {}]
    BY <2>1
  <2> QED
    BY <2>2, <2>3 DEF Sets!AbsInit
<1>2. WalkInv /\ [Next]_vars => [Sets!AbsNext]_(Sets!absVars)
  <2> SUFFICES ASSUME WalkInv, [Next]_vars PROVE [Sets!AbsNext]_(Sets!absVars)
    OBVIOUS
  <2>0. ASSUME UNCHANGED sessions, Finished' = Finished,
               \A r \in Finished : PidsIn(r)' = PidsIn(r)
        PROVE  UNCHANGED Sets!absVars
    <3>1. answer' = answer
      BY <2>0
    <3> QED
      BY <2>0, <3>1 DEF Sets!absVars
  <2>1. CASE \E root \in roots : StartRoot(root)
    <3>1. PICK root \in roots : StartRoot(root)
      BY <2>1
    <3>2. root \notin DOMAIN forest /\ stack = << >> /\ UNCHANGED sessions
      BY <3>1 DEF StartRoot, WalkInv, TypeOK
    <3>3. /\ DOMAIN forest' = DOMAIN forest \cup {root}
          /\ \A r \in DOMAIN forest : forest'[r] = forest[r]
      BY <3>1, <3>2 DEF StartRoot
    <3>4. stack' # << >> /\ CurrentRoot' = root
      BY <3>1 DEF StartRoot, Call, RootNode, CurrentRoot
    <3>5. Finished' = Finished
      BY <3>2, <3>3, <3>4 DEF Finished
    <3>6. \A r \in Finished : PidsIn(r)' = PidsIn(r)
      BY <3>3 DEF Finished, PidsIn
    <3> QED
      BY <2>0, <3>2, <3>5, <3>6
  <2>2. CASE \E entry \in Top.todo : SkipChild(entry)
    <3>1. PICK entry \in Top.todo : SkipChild(entry)
      BY <2>2
    <3>2. /\ UNCHANGED <<sessions, forest>> /\ CurrentRoot' = CurrentRoot
          /\ stack # << >> /\ stack' # << >>
      BY <3>1, SkipFrames DEF SkipChild, WalkInv
    <3>3. Finished' = Finished /\ \A r : PidsIn(r)' = PidsIn(r)
      BY <3>2 DEF Finished, PidsIn
    <3> QED
      BY <2>0, <3>2, <3>3
  <2>3. CASE \E entry \in Top.todo : Descend(entry)
    <3>1. PICK entry \in Top.todo : Descend(entry)
      BY <2>3
    <3>2. /\ UNCHANGED sessions /\ CurrentRoot' = CurrentRoot
          /\ stack # << >> /\ stack' # << >>
      BY <3>1, DescendFrames DEF Descend, WalkInv
    <3>3. /\ DOMAIN forest' = DOMAIN forest
          /\ \A r \in DOMAIN forest : r # CurrentRoot => forest'[r] = forest[r]
      BY <3>1 DEF Descend
    <3>4. Finished' = Finished
      BY <3>2, <3>3 DEF Finished
    <3>5. \A r \in Finished : PidsIn(r)' = PidsIn(r)
      BY <3>2, <3>3 DEF Finished, PidsIn
    <3> QED
      BY <2>0, <3>2, <3>4, <3>5
  <2>4. CASE Return /\ Len(stack) # 1
    <3>1. /\ UNCHANGED <<sessions, forest>> /\ CurrentRoot' = CurrentRoot
          /\ stack # << >> /\ stack' # << >>
      BY <2>4, ReturnFrames DEF Return, WalkInv
    <3>2. Finished' = Finished /\ \A r : PidsIn(r)' = PidsIn(r)
      BY <3>1 DEF Finished, PidsIn
    <3> QED
      BY <2>0, <3>1, <3>2
  <2>5. CASE Return /\ Len(stack) = 1
    <3> DEFINE root == CurrentRoot
    <3>1. /\ UNCHANGED <<sessions, forest>> /\ stack # << >> /\ stack' = << >>
      BY <2>5, ReturnFrames DEF Return, WalkInv
    <3>2. root \in DOMAIN forest /\ PidsIn(root) = Waiters(sessions, root)
      BY <2>5, FinishedTree
    <3>3. /\ Finished' = Finished \cup {root} /\ root \notin Finished
          /\ \A r : PidsIn(r)' = PidsIn(r)
      BY <3>1, <3>2 DEF Finished, PidsIn
    <3>4. answer' = [r \in Finished \cup {root} |->
                        IF r = root THEN Waiters(sessions, root) ELSE answer[r]]
      BY <3>2, <3>3
    <3>5. root \in Roots(sessions) /\ root \in Pids
      BY <3>2 DEF WalkInv, TypeOK, Roots, IsSnapshot
    <3>6. Sets!Answer(root)
      <4>1. Sets!Roots(sessions) = Roots(sessions)
        BY DEF Sets!Roots, Roots, Sets!Involved, Involved, Sets!Blocked, Blocked,
               Sets!WaitsOn, WaitsOn
      <4>2. Sets!Waiters(sessions, root) = Waiters(sessions, root)
        BY DEF Sets!Waiters, Waiters, Sets!Closed, Closed, Sets!WaitsOn, WaitsOn
      <4>3. DOMAIN answer = Finished
        OBVIOUS
      <4> HIDE DEF answer
      <4> QED
        BY <3>1, <3>3, <3>4, <3>5, <4>1, <4>2, <4>3 DEF Sets!Answer, answer
    <3> QED
      BY <3>5, <3>6 DEF Sets!AbsNext
  <2>6. CASE UNCHANGED vars
    BY <2>0, <2>6 DEF vars, Finished, PidsIn, CurrentRoot
  <2> QED
    BY <2>1, <2>2, <2>3, <2>4, <2>5, <2>6 DEF Next
<1> QED
  BY <1>1, <1>2, WalkInvariant, PTL DEF Spec, AnswersWhoWaits, Sets!AbsSpec

-----------------------------------------------------------------------------
(* Who is not in the forest *)

LEMMA LeastNumber ==
  ASSUME NEW S \in SUBSET Nat, S # {}
  PROVE  \E n \in S : \A m \in S : n <= m
<1>1. PICK n \in S : \A m \in S : ~(<<m, n>> \in OpToRel(<, Nat))
  BY WFMin, NatLessThanWellFounded, Zenon
<1>2. \A m \in S : ~(m < n)
  BY <1>1 DEF OpToRel
<1> QED
  BY <1>2

(* Ancestors is the smallest set that holds p and whomever its members wait  *)
(* on, so the ancestors of an ancestor are among them.                       *)
LEMMA AncestorsLeast ==
  ASSUME NEW p \in Pids
  PROVE  /\ p \in Ancestors(p)
         /\ \A x \in Ancestors(p) \cap sessions.by_pid : \A y \in Pids :
               WaitsOn(sessions, x, y) => y \in Ancestors(p)
         /\ \A x \in Ancestors(p) : Ancestors(x) \subseteq Ancestors(p)
         /\ Ancestors(p) \subseteq Pids
<1>1. /\ p \in Ancestors(p) /\ Ancestors(p) \subseteq Pids
      /\ \A x \in Ancestors(p) \cap sessions.by_pid : \A y \in Pids :
            WaitsOn(sessions, x, y) => y \in Ancestors(p)
  BY DEF Ancestors
<1>2. ASSUME NEW x \in Ancestors(p), NEW q \in Ancestors(x)
      PROVE  q \in Ancestors(p)
  BY <1>1, <1>2 DEF Ancestors
<1> QED
  BY <1>1, <1>2

(* The two ways of looking at a wait agree: whoever has root among its       *)
(* ancestors is among the waiters of root.                                   *)
LEMMA AncestorsWaiters ==
  ASSUME IsSnapshot(sessions),
         NEW p \in sessions.by_pid, NEW root \in Ancestors(p) \cap sessions.by_pid
  PROVE  p \in Waiters(sessions, root)
<1> SUFFICES ASSUME NEW S \in SUBSET sessions.by_pid, root \in S, Closed(sessions, S),
                    p \notin S
             PROVE  FALSE
  BY DEF Waiters
<1> DEFINE T == Pids \ S
<1>1. p \in T /\ T \in SUBSET Pids /\ root \notin T
  BY DEF IsSnapshot
<1>2. \A x \in T \cap sessions.by_pid : \A y \in Pids : WaitsOn(sessions, x, y) => y \in T
  BY DEF Closed
<1> QED
  BY <1>1, <1>2 DEF Ancestors

(* Among the ancestors of p, if none is a stranger and none waits on itself, *)
(* one waits for nobody: the one with the fewest ancestors, because whom it  *)
(* waited on would have fewer.                                               *)
LEMMA SomebodyWaitsForNobody ==
  ASSUME IsSnapshot(sessions), NEW p \in Pids, Ancestors(p) \subseteq sessions.by_pid,
         \A q \in Ancestors(p) : ~WaitsOnItself(q)
  PROVE  \E q \in Ancestors(p) : q \notin Blocked(sessions)
<1> DEFINE A == Ancestors(p)
           Number(x) == Cardinality(Ancestors(x))
           Numbers == {Number(x) : x \in A}
<1>1. IsFiniteSet(A) /\ p \in A /\ A \subseteq Pids
      /\ \A x \in A : Ancestors(x) \subseteq A
  BY AncestorsLeast, FS_Subset DEF IsSnapshot
<1>2. \A x \in A : IsFiniteSet(Ancestors(x)) /\ Number(x) \in Nat
  BY <1>1, FS_Subset, FS_CardinalityType
<1>3. PICK n \in Numbers : \A m \in Numbers : n <= m
  <2>1. Numbers \in SUBSET Nat /\ Numbers # {}
    BY <1>1, <1>2
  <2> HIDE DEF Numbers
  <2> QED
    BY <2>1, LeastNumber
<1>4. PICK x \in A : \A y \in A : Number(x) <= Number(y)
  BY <1>3
<1>5. ASSUME x \in Blocked(sessions)
      PROVE  FALSE
  <2>1. x \in sessions.by_pid /\ sessions.blocked_by[x] \in Seq(Pids)
        /\ sessions.blocked_by[x] # << >>
    BY <1>5 DEF Blocked, IsSnapshot
  <2>2. PICK y \in Pids : WaitsOn(sessions, x, y)
    <3>1. 1 \in DOMAIN sessions.blocked_by[x] /\ sessions.blocked_by[x][1] \in Pids
      BY <2>1
    <3> QED
      BY <3>1 DEF WaitsOn
  <2>3. /\ x \in Pids /\ y \in A /\ x \in Ancestors(x) /\ y \in Ancestors(x)
        /\ Ancestors(y) \subseteq Ancestors(x)
    BY <1>1, <2>1, <2>2, AncestorsLeast
  <2>4. x \notin Ancestors(y)
    BY <2>1, <2>2 DEF WaitsOnItself
  <2>5. Number(y) < Number(x)
    <3>1. Ancestors(y) # Ancestors(x)
      BY <2>3, <2>4
    <3> QED
      BY <1>2, <2>3, <3>1, FS_Subset
  <2> QED
    BY <1>2, <1>4, <2>3, <2>5
<1> QED
  BY <1>5

(* A waiting session is in no tree only if the waits behind it close a cycle *)
(* or leave what was read (locks.py:159).                                    *)
THEOREM UnseenHasAReason == Spec => []UnseenWaiterHasCycleOrStranger
<1>1. WalkInv => UnseenWaiterHasCycleOrStranger
  <2> SUFFICES ASSUME WalkInv, Done, NEW p \in Blocked(sessions),
                      \A r \in DOMAIN forest : p \notin PidsIn(r),
                      \A q \in Ancestors(p) : q \in sessions.by_pid /\ ~WaitsOnItself(q)
               PROVE  FALSE
    BY DEF UnseenWaiterHasCycleOrStranger
  <2>1. IsSnapshot(sessions) /\ p \in sessions.by_pid /\ p \in Pids
    BY DEF WalkInv, TypeOK, IsSnapshot, Blocked
  <2>2. PICK q \in Ancestors(p) : q \notin Blocked(sessions)
    BY <2>1, SomebodyWaitsForNobody
  <2>3. q \in sessions.by_pid /\ q \in Pids /\ p # q
    BY <2>1, <2>2 DEF IsSnapshot
  <2>4. p \in Waiters(sessions, q)
    BY <2>1, <2>2, <2>3, AncestorsWaiters
  <2>5. \E x \in sessions.by_pid : WaitsOn(sessions, x, q)
    <3> SUFFICES ASSUME \A x \in sessions.by_pid : ~WaitsOn(sessions, x, q)
                 PROVE  FALSE
      OBVIOUS
    <3>1. Closed(sessions, {q})
      BY DEF Closed
    <3> QED
      BY <2>3, <2>4, <3>1 DEF Waiters
  <2>6. q \in Roots(sessions)
    <3>1. PICK x \in sessions.by_pid : WaitsOn(sessions, x, q)
      BY <2>5
    <3>2. x \in Blocked(sessions)
      BY <3>1 DEF WaitsOn, Blocked
    <3> QED
      BY <2>2, <2>3, <3>1, <3>2 DEF Roots, Involved
  <2>7. q \in DOMAIN forest /\ p \notin PidsIn(q)
    BY <2>6 DEF WalkInv, TypeOK, Done
  <2>8. Closed(sessions, PidsIn(q)) /\ PidsIn(q) \subseteq sessions.by_pid /\ q \in PidsIn(q)
    <3>1. \A x, c : ~Owed(q, x, c)
      BY DEF Done, Owed
    <3>2. PidsIn(q) \subseteq sessions.by_pid
      BY <2>7 DEF WalkInv, TypeOK, PidsIn
    <3> QED
      BY <2>7, <3>1, <3>2 DEF WalkInv, NobodyLost, OnlyWaiters, Closed
  <2> QED
    BY <2>4, <2>7, <2>8 DEF Waiters
<1> QED
  BY <1>1, WalkInvariant, PTL

-----------------------------------------------------------------------------
(* What the tree shows: the chain that leads to each node *)

\* c is one way of k pids from root, each waiting on the one before.
IsChain(root, c, k) ==
  /\ c \in [1..k -> sessions.by_pid]
  /\ c[1] = root
  /\ \A i, j \in 1..k : c[i] = c[j] => i = j
  /\ \A i \in 2..k : WaitsOn(sessions, c[i], c[i - 1])

\* The pids on the way from root to a node, both included.
OnTheWay(root, n) == {root} \cup {n.path[i][1] : i \in 1..Len(n.path)}

\* Of each tree the root is a node, and each node ends a chain.
NodesEndChains ==
  \A r \in DOMAIN forest :
     /\ RootNode(r) \in forest[r]
     /\ \A n \in forest[r] :
          LET k == Len(n.path) + 1
          IN IsChain(r, ChainTo(r, n), k) /\ ChainTo(r, n)[k] = n.pid

\* seen holds the pids on the way, and no others.
SeenIsTheWay ==
  \A k \in DOMAIN stack : stack[k].seen = OnTheWay(CurrentRoot, stack[k].node)

\* A waiter of a node hangs under this node.
HangsUnder(root, n, c) ==
  \E e \in ChildrenOf(sessions, n.pid) : e[1] = c /\ ChildNode(n, e) \in forest[root]

\* The call that made the node has the waiter still to come.
OwedBy(root, n, c) ==
  /\ stack # << >>
  /\ root = CurrentRoot
  /\ \E k \in DOMAIN stack : stack[k].node = n /\ \E e \in stack[k].todo : e[1] = c

\* A waiter is left out under a node only if it is on the way to it.
WaitersHang ==
  \A r \in DOMAIN forest : \A n \in forest[r] : \A c \in sessions.by_pid :
     WaitsOn(sessions, c, n.pid) =>
       c \in OnTheWay(r, n) \/ HangsUnder(r, n, c) \/ OwedBy(r, n, c)

ChainInv == NodesEndChains /\ SeenIsTheWay /\ WaitersHang

(* A chain is never longer than there are sessions: AcyclicChains holds them all. *)
LEMMA ChainsAre ==
  ASSUME IsSnapshot(sessions), NEW root, NEW c
  PROVE  c \in AcyclicChains(root) <=> \E k \in Nat \ {0} : IsChain(root, c, k)
<1>1. Cardinality(sessions.by_pid) \in Nat /\ IsFiniteSet(sessions.by_pid)
  BY FS_CardinalityType DEF IsSnapshot
<1>2. ASSUME NEW k \in Nat \ {0}, c \in [1..k -> sessions.by_pid]
      PROVE  DOMAIN c = 1..k /\ Len(c) = k
  BY <1>2
<1>3. ASSUME c \in AcyclicChains(root)
      PROVE  \E k \in Nat \ {0} : IsChain(root, c, k)
  <2>1. PICK k \in 1..Cardinality(sessions.by_pid) : c \in [1..k -> sessions.by_pid]
    BY <1>3 DEF AcyclicChains
  <2>2. k \in Nat \ {0} /\ DOMAIN c = 1..k /\ Len(c) = k
    BY <1>1, <1>2, <2>1
  <2>3. /\ c[1] = root
        /\ \A i, j \in 1..k : c[i] = c[j] => i = j
        /\ \A i \in 2..k : WaitsOn(sessions, c[i], c[i - 1])
    BY <1>3, <2>2 DEF AcyclicChains
  <2> QED
    BY <2>1, <2>2, <2>3 DEF IsChain
<1>4. ASSUME NEW k \in Nat \ {0}, IsChain(root, c, k)
      PROVE  c \in AcyclicChains(root)
  <2>1. c \in [1..k -> sessions.by_pid] /\ DOMAIN c = 1..k /\ Len(c) = k
    BY <1>2, <1>4 DEF IsChain
  <2>2. k \in 1..Cardinality(sessions.by_pid)
    <3> SUFFICES ASSUME Cardinality(sessions.by_pid) < k PROVE FALSE
      BY <1>1
    <3>1. IsFiniteSet(1..k) /\ Cardinality(1..k) = k
      BY FS_Interval
    <3>2. \E i, j \in 1..k : i # j /\ c[i] = c[j]
      BY <1>1, <2>1, <3>1, FS_PigeonHole
    <3> QED
      BY <1>4, <3>2 DEF IsChain
  <2>3. c \in UNION {[1..m -> sessions.by_pid] : m \in 1..Cardinality(sessions.by_pid)}
    BY <2>1, <2>2
  <2> QED
    BY <1>4, <2>1, <2>3 DEF AcyclicChains, IsChain
<1> QED
  BY <1>3, <1>4

\* The chain along a path, a chain with one pid more, and the first k of one.
Way(root, path) == [i \in 1..Len(path) + 1 |-> IF i = 1 THEN root ELSE path[i - 1][1]]

Longer(c, k, p) == [i \in 1..k + 1 |-> IF i = k + 1 THEN p ELSE c[i]]

Shorter(c, k) == [i \in 1..k |-> c[i]]

LEMMA ChainToNode ==
  ASSUME NEW E, NEW root, NEW n, n.path \in Seq(E)
  PROVE  Len(n.path) \in Nat /\ ChainTo(root, n) = Way(root, n.path)
<1> DEFINE rest == [i \in DOMAIN n.path |-> n.path[i][1]]
           all == [i \in 1..Len(n.path) + 1 |-> IF i = 1 THEN root ELSE n.path[i - 1][1]]
           X == {root} \cup {e[1] : e \in E}
<1>1. Len(n.path) \in Nat /\ DOMAIN n.path = 1..Len(n.path)
  BY LenProperties
<1>2. rest \in Seq(X) /\ Len(rest) = Len(n.path) /\ <<root>> \in Seq(X)
  BY <1>1
<1>3. <<root>>[1] = root /\ Len(<<root>>) = 1
  OBVIOUS
<1>4. /\ <<root>> \o rest \in Seq(X) /\ Len(<<root>> \o rest) = 1 + Len(n.path)
      /\ \A i \in 1..1 + Len(n.path) :
           (<<root>> \o rest)[i] = IF i <= 1 THEN <<root>>[i] ELSE rest[i - 1]
  BY <1>2, <1>3, ConcatProperties
<1>5. \A i \in 1..Len(n.path) : rest[i] = n.path[i][1]
  BY <1>1
<1>6. ChainTo(root, n) = <<root>> \o rest
  BY DEF ChainTo
<1> HIDE DEF rest
<1>7. \A i \in 1..Len(n.path) + 1 :
         (<<root>> \o rest)[i] = IF i = 1 THEN root ELSE n.path[i - 1][1]
  BY <1>1, <1>3, <1>4, <1>5
<1>8. <<root>> \o rest = all
  <2>1. <<root>> \o rest = [i \in 1..Len(n.path) + 1 |-> (<<root>> \o rest)[i]]
    BY <1>1, <1>4
  <2> QED
    BY <1>7, <2>1
<1> QED
  BY <1>1, <1>6, <1>8 DEF Way

LEMMA WayIsChain ==
  ASSUME NEW E, NEW root, NEW n, n.path \in Seq(E)
  PROVE  \A p : p \in OnTheWay(root, n)
                  <=> \E i \in 1..Len(n.path) + 1 : ChainTo(root, n)[i] = p
<1>1. /\ Len(n.path) \in Nat
      /\ \A i \in 1..Len(n.path) + 1 :
           ChainTo(root, n)[i] = IF i = 1 THEN root ELSE n.path[i - 1][1]
  <2>1. Len(n.path) \in Nat /\ ChainTo(root, n) = Way(root, n.path)
    BY ChainToNode
  <2> QED
    BY <2>1 DEF Way
<1>2. ASSUME NEW p, p \in OnTheWay(root, n)
      PROVE  \E i \in 1..Len(n.path) + 1 : ChainTo(root, n)[i] = p
  <2>1. CASE p = root
    BY <1>1, <2>1
  <2>2. CASE p # root
    <3>1. PICK j \in 1..Len(n.path) : p = n.path[j][1]
      BY <1>2, <2>2 DEF OnTheWay
    <3>2. j + 1 \in 1..Len(n.path) + 1 /\ j + 1 # 1 /\ (j + 1) - 1 = j
      BY <1>1
    <3> QED
      BY <1>1, <3>1, <3>2
  <2> QED
    BY <2>1, <2>2
<1>3. ASSUME NEW i \in 1..Len(n.path) + 1
      PROVE  ChainTo(root, n)[i] \in OnTheWay(root, n)
  <2>1. CASE i = 1
    BY <1>1, <2>1 DEF OnTheWay
  <2>2. CASE i # 1
    <3>1. i - 1 \in 1..Len(n.path)
      BY <1>1, <2>2
    <3> QED
      BY <1>1, <2>2, <3>1 DEF OnTheWay
  <2> QED
    BY <2>1, <2>2
<1> QED
  BY <1>2, <1>3

(* One waiter more at the end. *)
LEMMA ChildChain ==
  ASSUME NEW root, NEW n, n.path \in Seq(Entries(sessions)), NEW e \in Entries(sessions)
  PROVE  /\ ChildNode(n, e).pid = e[1]
         /\ ChildNode(n, e).path \in Seq(Entries(sessions))
         /\ Len(ChildNode(n, e).path) = Len(n.path) + 1 /\ Len(n.path) \in Nat
         /\ OnTheWay(root, ChildNode(n, e)) = OnTheWay(root, n) \cup {e[1]}
         /\ ChainTo(root, ChildNode(n, e)) =
              Longer(ChainTo(root, n), Len(n.path) + 1, e[1])
<1> DEFINE E == Entries(sessions)
           m == ChildNode(n, e)
           k == Len(n.path)
<1>1. /\ m.pid = e[1] /\ m.path \in Seq(E) /\ Len(m.path) = k + 1 /\ k \in Nat
      /\ m.path[k + 1] = e /\ \A i \in 1..k : m.path[i] = n.path[i]
  <2>1. m.pid = e[1] /\ m.path = Append(n.path, e)
    BY DEF ChildNode
  <2> QED
    BY <2>1, AppendProperties, LenProperties
<1> HIDE DEF E, m
<1>2. ChainTo(root, m) = Way(root, m.path)
  <2>1. m.path \in Seq(E)
    BY <1>1
  <2> QED
    BY <2>1, ChainToNode
<1>3. /\ ChainTo(root, n) = Way(root, n.path)
      /\ \A i \in 1..k + 1 :
           ChainTo(root, n)[i] = IF i = 1 THEN root ELSE n.path[i - 1][1]
  <2>1. ChainTo(root, n) = Way(root, n.path)
    BY ChainToNode
  <2> QED
    BY <2>1 DEF Way
<1>4. \A i \in 1..k + 2 :
         (IF i = 1 THEN root ELSE m.path[i - 1][1])
           = IF i = k + 2 THEN e[1] ELSE ChainTo(root, n)[i]
  <2> SUFFICES ASSUME NEW i \in 1..k + 2
               PROVE  (IF i = 1 THEN root ELSE m.path[i - 1][1])
                        = IF i = k + 2 THEN e[1] ELSE ChainTo(root, n)[i]
    OBVIOUS
  <2>1. CASE i = k + 2
    <3>1. i # 1 /\ i - 1 = k + 1
      BY <1>1, <2>1
    <3> QED
      BY <1>1, <2>1, <3>1
  <2>2. CASE i # k + 2 /\ i # 1
    <3>1. i \in 1..k + 1 /\ i - 1 \in 1..k
      BY <1>1, <2>2
    <3> QED
      BY <1>1, <1>3, <2>2, <3>1
  <2>3. CASE i = 1
    BY <1>1, <1>3, <2>3
  <2> QED
    BY <2>1, <2>2, <2>3
<1>5. ChainTo(root, m) = Longer(ChainTo(root, n), k + 1, e[1])
  <2>1. (k + 1) + 1 = k + 2 /\ Len(m.path) + 1 = k + 2
    BY <1>1
  <2> QED
    BY <1>2, <1>4, <2>1 DEF Way, Longer
<1>6. {m.path[i][1] : i \in 1..k + 1} = {n.path[i][1] : i \in 1..k} \cup {e[1]}
  <2>1. 1..k + 1 = 1..k \cup {k + 1}
    BY <1>1
  <2>2. {m.path[i][1] : i \in 1..k} = {n.path[i][1] : i \in 1..k}
    BY <1>1
  <2> QED
    BY <1>1, <2>1, <2>2
<1> QED
  BY <1>1, <1>5, <1>6 DEF OnTheWay, E, m

LEMMA GrowChain ==
  ASSUME NEW root, NEW c, NEW k \in Nat \ {0}, IsChain(root, c, k),
         NEW p \in sessions.by_pid, \A i \in 1..k : c[i] # p, WaitsOn(sessions, p, c[k])
  PROVE  IsChain(root, Longer(c, k, p), k + 1)
<1> DEFINE d == Longer(c, k, p)
<1>1. c \in [1..k -> sessions.by_pid] /\ c[1] = root
      /\ (\A i, j \in 1..k : c[i] = c[j] => i = j)
      /\ \A i \in 2..k : WaitsOn(sessions, c[i], c[i - 1])
  BY DEF IsChain
<1>2. \A i \in 1..k + 1 : d[i] = IF i = k + 1 THEN p ELSE c[i]
  BY DEF Longer
<1>3. d \in [1..k + 1 -> sessions.by_pid] /\ d[1] = root
  BY <1>1 DEF Longer
<1> HIDE DEF d
<1>4. \A i, j \in 1..k + 1 : d[i] = d[j] => i = j
  BY <1>1, <1>2
<1>5. \A i \in 2..k + 1 : WaitsOn(sessions, d[i], d[i - 1])
  <2> SUFFICES ASSUME NEW i \in 2..k + 1 PROVE WaitsOn(sessions, d[i], d[i - 1])
    OBVIOUS
  <2>1. CASE i = k + 1
    <3>1. d[i] = p /\ i - 1 = k /\ d[k] = c[k]
      BY <1>2, <2>1
    <3> QED
      BY <3>1
  <2>2. CASE i # k + 1
    <3>1. i \in 2..k /\ i - 1 \in 1..k + 1 /\ i - 1 # k + 1 /\ i \in 1..k + 1
      BY <2>2
    <3>2. d[i] = c[i] /\ d[i - 1] = c[i - 1]
      BY <1>2, <2>2, <3>1
    <3> QED
      BY <1>1, <3>1, <3>2
  <2> QED
    BY <2>1, <2>2
<1> QED
  BY <1>3, <1>4, <1>5 DEF IsChain, d

LEMMA NodeIsTyped ==
  ASSUME TypeOK, NEW r \in DOMAIN forest, NEW n \in forest[r]
  PROVE  /\ n.path \in Seq(Entries(sessions)) /\ n.pid \in sessions.by_pid
         /\ n = [pid |-> n.pid, path |-> n.path] /\ r \in sessions.by_pid
  BY DEF TypeOK, Roots

(* A tree begins with its root, whose waiters are all owed. *)
LEMMA StartKeepsChains ==
  ASSUME WalkInv, ChainInv, NEW root \in roots, StartRoot(root)
  PROVE  ChainInv'
<1> DEFINE node == RootNode(root)
<1>1. IsSnapshot(sessions) /\ root \in sessions.by_pid /\ root \notin DOMAIN forest
  BY DEF WalkInv, TypeOK, Roots
<1>2. /\ UNCHANGED sessions /\ stack = << >> /\ stack' # << >> /\ DOMAIN stack' = {1}
      /\ stack'[1].node = node /\ stack'[1].seen = {root}
      /\ stack'[1].todo = ChildrenOf(sessions, root) /\ CurrentRoot' = root
  BY DEF StartRoot, Call, RootNode, CurrentRoot
<1>3. /\ DOMAIN forest' = DOMAIN forest \cup {root}
      /\ forest'[root] = {node}
      /\ \A r \in DOMAIN forest : forest'[r] = forest[r]
  BY <1>1 DEF StartRoot
<1>4. /\ node.pid = root /\ node.path = << >> /\ node.path \in Seq(Entries(sessions))
      /\ Len(node.path) = 0
  BY DEF RootNode
<1>5. ChainTo(root, node) = [i \in 1..1 |-> root] /\ OnTheWay(root, node) = {root}
  <2> HIDE DEF node
  <2>1. ChainTo(root, node) = Way(root, node.path)
    <3>1. node.path \in Seq(Entries(sessions))
      BY <1>4
    <3> QED
      BY <3>1, ChainToNode
  <2>2. 1..Len(node.path) + 1 = 1..1 /\ 1..Len(node.path) = {}
    BY <1>4
  <2> QED
    BY <2>1, <2>2 DEF OnTheWay, Way
<1>6. IsChain(root, ChainTo(root, node), Len(node.path) + 1)
      /\ ChainTo(root, node)[Len(node.path) + 1] = node.pid
  <2> HIDE DEF node
  <2> QED
    BY <1>1, <1>4, <1>5 DEF IsChain
<1> HIDE DEF node
<1>7. NodesEndChains'
  <2>1. \A r, c, k : IsChain(r, c, k)' = IsChain(r, c, k)
    BY <1>2 DEF IsChain
  <2> QED
    BY <1>3, <1>6, <2>1 DEF NodesEndChains, ChainInv, node
<1>8. SeenIsTheWay'
  BY <1>2, <1>5 DEF SeenIsTheWay
<1>9. WaitersHang'
  <2>1. \A r, n, c : ~OwedBy(r, n, c)
    BY <1>2 DEF OwedBy
  <2>2. \A r \in DOMAIN forest : \A n, c : HangsUnder(r, n, c) => HangsUnder(r, n, c)'
    BY <1>2, <1>3 DEF HangsUnder
  <2>3. \A c \in sessions.by_pid : WaitsOn(sessions, c, root) => OwedBy(root, node, c)'
    BY <1>1, <1>2, WaitersAreChildren DEF OwedBy
  <2> QED
    BY <1>2, <1>3, <1>4, <2>1, <2>2, <2>3 DEF WaitersHang, ChainInv
<1> QED
  BY <1>7, <1>8, <1>9 DEF ChainInv

(* A child is skipped because it is on the way, or was not read. *)
LEMMA SkipKeepsChains ==
  ASSUME WalkInv, ChainInv, NEW entry, SkipChild(entry)
  PROVE  ChainInv'
<1> USE DEF WalkInv
<1>1. UNCHANGED <<sessions, forest>> /\ CurrentRoot' = CurrentRoot
  BY SkipFrames DEF SkipChild
<1>2. NodesEndChains'
  BY <1>1 DEF NodesEndChains, ChainInv, IsChain
<1>3. SeenIsTheWay'
  BY <1>1, SkipFrames DEF SeenIsTheWay, ChainInv
<1>4. entry[1] \in OnTheWay(CurrentRoot, Top.node) \/ entry[1] \notin sessions.by_pid
  <2>1. stack # << >> /\ Skipped(entry[1])
    BY DEF SkipChild
  <2>2. Top.seen = OnTheWay(CurrentRoot, Top.node)
    BY <2>1, StackDomain DEF SeenIsTheWay, ChainInv, Top
  <2> QED
    BY <2>1, <2>2 DEF Skipped
<1>5. ASSUME NEW r, NEW n, NEW c \in sessions.by_pid, OwedBy(r, n, c), c \notin OnTheWay(r, n)
      PROVE  OwedBy(r, n, c)'
  <2>1. PICK k \in DOMAIN stack : stack[k].node = n /\ \E e \in stack[k].todo : e[1] = c
    BY <1>5 DEF OwedBy
  <2>2. PICK e \in stack[k].todo : e[1] = c
    BY <2>1
  <2>3. r = CurrentRoot /\ stack # << >>
    BY <1>5 DEF OwedBy
  <2>4. k = Len(stack) => e # entry
    BY <1>4, <1>5, <2>1, <2>2, <2>3 DEF Top
  <2>5. k \in DOMAIN stack' /\ stack'[k].node = n /\ e \in stack'[k].todo /\ stack' # << >>
    BY <2>1, <2>2, <2>4, SkipFrames
  <2> QED
    BY <1>1, <2>2, <2>3, <2>5 DEF OwedBy
<1>6. \A r, n, c : HangsUnder(r, n, c)' = HangsUnder(r, n, c)
  BY <1>1 DEF HangsUnder
<1>7. WaitersHang'
  BY <1>1, <1>5, <1>6 DEF WaitersHang, ChainInv
<1> QED
  BY <1>2, <1>3, <1>7 DEF ChainInv

(* A call that returns owes nothing more. *)
LEMMA ReturnKeepsChains ==
  ASSUME WalkInv, ChainInv, Return
  PROVE  ChainInv'
<1> USE DEF WalkInv
<1>1. UNCHANGED <<sessions, forest>>
  BY DEF Return
<1>2. NodesEndChains'
  BY <1>1 DEF NodesEndChains, ChainInv, IsChain
<1>3. SeenIsTheWay'
  <2> SUFFICES ASSUME NEW k \in DOMAIN stack'
               PROVE  stack'[k].seen = OnTheWay(CurrentRoot, stack[k].node)'
    BY ReturnFrames DEF SeenIsTheWay
  <2>1. k \in DOMAIN stack /\ stack'[k] = stack[k]
    BY ReturnFrames
  <2>2. CurrentRoot' = CurrentRoot
    <3>1. stack' # << >>
      OBVIOUS
    <3> QED
      BY <3>1, ReturnFrames
  <2> QED
    BY <2>1, <2>2 DEF SeenIsTheWay, ChainInv, OnTheWay
<1>4. ASSUME NEW r, NEW n, NEW c, OwedBy(r, n, c)
      PROVE  OwedBy(r, n, c)'
  <2>1. PICK k \in DOMAIN stack : stack[k].node = n /\ \E e \in stack[k].todo : e[1] = c
    BY <1>4 DEF OwedBy
  <2>2. k # Len(stack)
    BY <2>1, ReturnFrames DEF Top
  <2>3. k \in DOMAIN stack' /\ stack'[k] = stack[k]
    BY <2>1, <2>2, ReturnFrames
  <2>4. stack' # << >>
    BY <1>4, <2>1, <2>2, ReturnFrames, StackDomain DEF OwedBy
  <2> QED
    BY <1>4, <2>1, <2>3, <2>4, ReturnFrames DEF OwedBy
<1>5. \A r, n, c : HangsUnder(r, n, c)' = HangsUnder(r, n, c)
  BY <1>1 DEF HangsUnder
<1>6. WaitersHang'
  BY <1>1, <1>4, <1>5 DEF WaitersHang, ChainInv
<1> QED
  BY <1>2, <1>3, <1>6 DEF ChainInv

(* A new node is one waiter beyond the node of the top call, and was not on  *)
(* the way to it.                                                            *)
LEMMA DescendKeepsChains ==
  ASSUME WalkInv, ChainInv, NEW entry, Descend(entry)
  PROVE  ChainInv'
<1> DEFINE root == CurrentRoot
           top == Len(stack)
           n0 == Top.node
           m0 == ChildNode(n0, entry)
           k0 == Len(n0.path) + 1
<1>1. /\ stack # << >> /\ stack' # << >> /\ UNCHANGED sessions /\ CurrentRoot' = root
      /\ entry \in Top.todo /\ ~Skipped(entry[1]) /\ TypeOK /\ IsSnapshot(sessions)
  BY DescendFrames DEF Descend, WalkInv, TypeOK
<1>2. /\ root \in DOMAIN forest /\ n0 \in forest[root] /\ top \in DOMAIN stack
      /\ Top = stack[top] /\ Top.todo \subseteq ChildrenOf(sessions, n0.pid)
      /\ Top.seen = OnTheWay(root, n0) /\ DOMAIN stack = 1..top /\ top \in Nat
  BY <1>1, StackDomain DEF WalkInv, TypeOK, StackSound, ChainInv, SeenIsTheWay, Top
<1>3. /\ entry[1] \notin OnTheWay(root, n0) /\ entry[1] \in sessions.by_pid
      /\ entry \in Entries(sessions) /\ entry \in ChildrenOf(sessions, n0.pid)
      /\ WaitsOn(sessions, entry[1], n0.pid)
  BY <1>1, <1>2, ChildrenAreEntries DEF Skipped
<1>4. /\ DOMAIN forest' = DOMAIN forest
      /\ forest'[root] = forest[root] \cup {m0}
      /\ \A r \in DOMAIN forest : r # root => forest'[r] = forest[r]
      /\ \A r \in DOMAIN forest : forest[r] \subseteq forest'[r]
  BY <1>2 DEF Descend
<1>5. n0.path \in Seq(Entries(sessions)) /\ k0 \in Nat \ {0}
  BY <1>1, <1>2, NodeIsTyped, LenProperties
<1>6. /\ m0.pid = entry[1]
      /\ Len(m0.path) + 1 = k0 + 1
      /\ OnTheWay(root, m0) = OnTheWay(root, n0) \cup {entry[1]}
      /\ ChainTo(root, m0) = Longer(ChainTo(root, n0), k0, entry[1])
  <2>1. /\ m0.pid = entry[1] /\ Len(m0.path) = Len(n0.path) + 1 /\ Len(n0.path) \in Nat
        /\ OnTheWay(root, m0) = OnTheWay(root, n0) \cup {entry[1]}
        /\ ChainTo(root, m0) = Longer(ChainTo(root, n0), Len(n0.path) + 1, entry[1])
    <3> HIDE DEF n0, root
    <3> QED
      BY <1>3, <1>5, ChildChain
  <2> QED
    BY <2>1
<1>7. /\ \A k \in DOMAIN stack :
           /\ stack'[k].node = stack[k].node /\ stack'[k].seen = stack[k].seen
           /\ stack[k].todo \ {entry} \subseteq stack'[k].todo
           /\ k # top => stack'[k].todo = stack[k].todo
      /\ DOMAIN stack' = DOMAIN stack \cup {top + 1}
      /\ stack'[top + 1].node = m0
      /\ stack'[top + 1].seen = Top.seen \cup {entry[1]}
      /\ stack'[top + 1].todo = ChildrenOf(sessions, entry[1])
  BY <1>1, DescendFrames
<1> HIDE DEF root, top, n0, m0, k0
<1>8. NodesEndChains'
  <2>1. \A r, c, k : IsChain(r, c, k)' = IsChain(r, c, k)
    BY <1>1 DEF IsChain
  <2>2. IsChain(root, ChainTo(root, n0), k0) /\ ChainTo(root, n0)[k0] = n0.pid
    BY <1>2 DEF ChainInv, NodesEndChains, k0
  <2>3. \A i \in 1..k0 : ChainTo(root, n0)[i] # entry[1]
    BY <1>3, <1>5, WayIsChain DEF k0
  <2>4. IsChain(root, ChainTo(root, m0), k0 + 1)
    <3>1. IsChain(root, Longer(ChainTo(root, n0), k0, entry[1]), k0 + 1)
      BY <1>3, <1>5, <2>2, <2>3, GrowChain
    <3> QED
      BY <1>6, <3>1
  <2>5. ChainTo(root, m0)[k0 + 1] = m0.pid
    BY <1>5, <1>6 DEF Longer
  <2>6. LET k == Len(m0.path) + 1
        IN IsChain(root, ChainTo(root, m0), k) /\ ChainTo(root, m0)[k] = m0.pid
    BY <1>6, <2>4, <2>5
  <2>7. ASSUME NEW r \in DOMAIN forest, NEW n \in forest'[r]
        PROVE  LET k == Len(n.path) + 1
               IN IsChain(r, ChainTo(r, n), k) /\ ChainTo(r, n)[k] = n.pid
    <3>1. CASE n \in forest[r]
      BY <3>1 DEF ChainInv, NodesEndChains
    <3>2. CASE n \notin forest[r]
      <4>1. r = root /\ n = m0
        BY <1>4, <2>7, <3>2
      <4> QED
        BY <2>6, <4>1
    <3> QED
      BY <3>1, <3>2
  <2> QED
    BY <1>4, <2>1, <2>7 DEF ChainInv, NodesEndChains
<1>9. SeenIsTheWay'
  <2> SUFFICES ASSUME NEW k \in DOMAIN stack'
               PROVE  stack'[k].seen = OnTheWay(root, stack'[k].node)
    BY <1>1 DEF SeenIsTheWay, OnTheWay
  <2>1. CASE k \in DOMAIN stack
    BY <1>7, <2>1 DEF SeenIsTheWay, ChainInv, root
  <2>2. CASE k = top + 1
    BY <1>2, <1>6, <1>7, <2>2
  <2> QED
    BY <1>7, <2>1, <2>2
<1>10. \A r \in DOMAIN forest : \A n, c : HangsUnder(r, n, c) => HangsUnder(r, n, c)'
  BY <1>1, <1>4 DEF HangsUnder
<1>11. ASSUME NEW r, NEW n, NEW c, OwedBy(r, n, c)
       PROVE  OwedBy(r, n, c)' \/ HangsUnder(r, n, c)'
  <2>1. PICK k \in DOMAIN stack : stack[k].node = n /\ \E e \in stack[k].todo : e[1] = c
    BY <1>11 DEF OwedBy
  <2>2. PICK e \in stack[k].todo : e[1] = c
    BY <2>1
  <2>3. r = root
    BY <1>11 DEF OwedBy, root
  <2>4. CASE k = top /\ e = entry
    <3>1. n = n0 /\ c = entry[1]
      BY <1>2, <2>1, <2>2, <2>4 DEF n0
    <3>2. m0 \in forest'[root]
      BY <1>4
    <3> QED
      BY <1>1, <1>3, <2>3, <3>1, <3>2 DEF HangsUnder, m0
  <2>5. CASE ~(k = top /\ e = entry)
    <3>1. k \in DOMAIN stack' /\ stack'[k].node = n /\ e \in stack'[k].todo
      BY <1>7, <2>1, <2>2, <2>5
    <3> QED
      BY <1>1, <2>2, <2>3, <3>1 DEF OwedBy
  <2> QED
    BY <2>4, <2>5
<1>12. ASSUME NEW r, r = root, NEW n, n = m0,
              NEW c \in sessions.by_pid, WaitsOn(sessions, c, n.pid)
       PROVE  OwedBy(r, n, c)'
  <2>1. PICK e \in ChildrenOf(sessions, entry[1]) : e[1] = c
    BY <1>1, <1>6, <1>12, WaitersAreChildren
  <2>2. top + 1 \in DOMAIN stack' /\ e \in stack'[top + 1].todo
    BY <1>7, <2>1
  <2> QED
    BY <1>1, <1>7, <1>12, <2>1, <2>2 DEF OwedBy
<1>13. WaitersHang'
  <2> SUFFICES ASSUME NEW r \in DOMAIN forest, NEW n \in forest'[r],
                      NEW c \in sessions.by_pid, WaitsOn(sessions, c, n.pid)
               PROVE  c \in OnTheWay(r, n) \/ HangsUnder(r, n, c)' \/ OwedBy(r, n, c)'
    BY <1>1, <1>4 DEF WaitersHang, OnTheWay
  <2>1. CASE n \in forest[r]
    BY <1>10, <1>11, <2>1 DEF WaitersHang, ChainInv
  <2>2. CASE n \notin forest[r]
    <3>1. r = root /\ n = m0
      BY <1>4, <2>2
    <3> QED
      BY <1>12, <3>1
  <2> QED
    BY <2>1, <2>2
<1> QED
  BY <1>8, <1>9, <1>13 DEF ChainInv

(* How a tree of the code and a chain of waits correspond: every node is the *)
(* end of a chain from its root, its seen is the way to it, and a waiter     *)
(* hangs under a node once the call of the node has come to it.              *)
THEOREM ChainsAreWalked == Spec => []ChainInv
<1>1. Init => ChainInv
  BY DEF Init, ChainInv, NodesEndChains, SeenIsTheWay, WaitersHang
<1>2. WalkInv /\ ChainInv /\ [Next]_vars => ChainInv'
  <2> SUFFICES ASSUME WalkInv, ChainInv, [Next]_vars PROVE ChainInv'
    OBVIOUS
  <2>1. CASE UNCHANGED vars
    BY <2>1 DEF vars, ChainInv, NodesEndChains, SeenIsTheWay, WaitersHang, IsChain, OnTheWay,
                HangsUnder, OwedBy, CurrentRoot
  <2> QED
    BY <2>1, StartKeepsChains, SkipKeepsChains, DescendKeepsChains, ReturnKeepsChains DEF Next
<1> QED
  BY <1>1, <1>2, WalkInvariant, PTL DEF Spec

(* All but the last of a chain is a chain. *)
LEMMA ShortenChain ==
  ASSUME NEW root, NEW c, NEW k \in Nat \ {0}, IsChain(root, c, k + 1)
  PROVE  /\ IsChain(root, Shorter(c, k), k)
         /\ c = Longer(Shorter(c, k), k, c[k + 1])
         /\ c[k + 1] \in sessions.by_pid /\ WaitsOn(sessions, c[k + 1], c[k])
         /\ \A i \in 1..k : c[i] # c[k + 1]
<1> DEFINE d == Shorter(c, k)
<1>1. /\ c \in [1..k + 1 -> sessions.by_pid] /\ c[1] = root
      /\ \A i, j \in 1..k + 1 : c[i] = c[j] => i = j
      /\ \A i \in 2..k + 1 : WaitsOn(sessions, c[i], c[i - 1])
  BY DEF IsChain
<1>2. d \in [1..k -> sessions.by_pid] /\ \A i \in 1..k : d[i] = c[i]
  BY <1>1 DEF Shorter
<1>3. c = Longer(d, k, c[k + 1])
  BY <1>1 DEF Longer, Shorter
<1>4. /\ c[k + 1] \in sessions.by_pid /\ WaitsOn(sessions, c[k + 1], c[k])
      /\ \A i \in 1..k : c[i] # c[k + 1]
  <2>1. k + 1 \in 2..k + 1 /\ (k + 1) - 1 = k /\ k + 1 \in 1..k + 1
    OBVIOUS
  <2>2. \A i \in 1..k : i \in 1..k + 1 /\ i # k + 1
    OBVIOUS
  <2> QED
    BY <1>1, <2>1, <2>2
<1>5. IsChain(root, d, k)
  <2> HIDE DEF d
  <2>1. 1 \in 1..k /\ \A i \in 2..k : i \in 2..k + 1 /\ i \in 1..k /\ i - 1 \in 1..k
    OBVIOUS
  <2>2. \A i \in 1..k : i \in 1..k + 1
    OBVIOUS
  <2> QED
    BY <1>1, <1>2, <2>1, <2>2 DEF IsChain
<1> QED
  BY <1>3, <1>4, <1>5

(* In a finished tree, whoever waits on a node and is not on the way to it   *)
(* hangs under it.                                                           *)
LEMMA WaiterShown ==
  ASSUME WalkInv, ChainInv, NEW r \in Finished, NEW n \in forest[r],
         NEW p \in sessions.by_pid, WaitsOn(sessions, p, n.pid),
         \A i \in 1..Len(n.path) + 1 : ChainTo(r, n)[i] # p
  PROVE  \E m \in forest[r] :
           ChainTo(r, m) = Longer(ChainTo(r, n), Len(n.path) + 1, p)
<1>1. /\ r \in DOMAIN forest /\ TypeOK /\ IsSnapshot(sessions)
      /\ ~OwedBy(r, n, p)
  BY DEF Finished, WalkInv, TypeOK, OwedBy
<1>2. n.path \in Seq(Entries(sessions))
  BY <1>1, NodeIsTyped
<1>3. p \notin OnTheWay(r, n)
  <2>1. p \in OnTheWay(r, n) => \E i \in 1..Len(n.path) + 1 : ChainTo(r, n)[i] = p
    BY <1>2, WayIsChain
  <2> QED
    BY <2>1
<1>4. PICK e \in ChildrenOf(sessions, n.pid) : e[1] = p /\ ChildNode(n, e) \in forest[r]
  <2>1. HangsUnder(r, n, p)
    BY <1>1, <1>3 DEF ChainInv, WaitersHang
  <2> QED
    BY <2>1 DEF HangsUnder
<1>5. e \in Entries(sessions)
  BY <1>1, <1>4, ChildrenAreEntries
<1>6. ChainTo(r, ChildNode(n, e)) = Longer(ChainTo(r, n), Len(n.path) + 1, e[1])
  BY <1>2, <1>5, ChildChain
<1> QED
  BY <1>4, <1>6

(* By the length of the shortest chain that is not shown: the chain without  *)
(* its last pid is shown, and the last waits on the node this one ends at.   *)
LEMMA EveryChainShown ==
  ASSUME WalkInv, ChainInv, NEW r \in Finished, NEW c0, NEW k0 \in Nat \ {0},
         IsChain(r, c0, k0)
  PROVE  \E n \in forest[r] : ChainTo(r, n) = c0
<1> DEFINE Shown(c) == \E n \in forest[r] : ChainTo(r, n) = c
           Missing == {k \in Nat : k # 0 /\ \E c : IsChain(r, c, k) /\ ~Shown(c)}
<1> SUFFICES ASSUME ~Shown(c0) PROVE FALSE
  OBVIOUS
<1>1. PICK k \in Missing : \A j \in Missing : k <= j
  <2>1. Missing \in SUBSET Nat /\ Missing # {}
    OBVIOUS
  <2> HIDE DEF Missing
  <2> QED
    BY <2>1, LeastNumber
<1>2. PICK c : IsChain(r, c, k) /\ ~Shown(c)
  BY <1>1
<1>3. /\ r \in DOMAIN forest /\ TypeOK /\ IsSnapshot(sessions)
      /\ \A n, p : ~OwedBy(r, n, p)
  BY DEF Finished, WalkInv, TypeOK, OwedBy
<1>4. CASE k = 1
  <2> DEFINE node == RootNode(r)
  <2>1. node \in forest[r] /\ node.path = << >> /\ Len(node.path) = 0
        /\ node.path \in Seq(Entries(sessions))
    BY <1>3 DEF ChainInv, NodesEndChains, RootNode
  <2> HIDE DEF node, Missing, Shown
  <2>2. ChainTo(r, node) = Way(r, node.path)
    <3>1. node.path \in Seq(Entries(sessions))
      BY <2>1
    <3> QED
      BY <3>1, ChainToNode
  <2>3. ChainTo(r, node) = [i \in 1..1 |-> r]
    BY <2>1, <2>2 DEF Way
  <2>4. c \in [1..1 -> sessions.by_pid] /\ c[1] = r
    BY <1>2, <1>4 DEF IsChain
  <2>5. c = [i \in 1..1 |-> r]
    BY <2>4
  <2> QED
    BY <1>2, <2>1, <2>3, <2>5 DEF Shown
<1>5. CASE k # 1
  <2> DEFINE j == k - 1
             d == Shorter(c, j)
             p == c[k]
  <2>1. j \in Nat \ {0} /\ j + 1 = k /\ ~(k <= j)
    BY <1>1, <1>5
  <2>2. /\ IsChain(r, d, j) /\ p \in sessions.by_pid /\ WaitsOn(sessions, p, c[j])
        /\ c = Longer(d, j, p)
        /\ \A i \in 1..j : c[i] # p
    <3>1. IsChain(r, c, j + 1)
      BY <1>2, <2>1
    <3> HIDE DEF j
    <3>2. /\ IsChain(r, d, j)
          /\ c = Longer(d, j, c[j + 1])
          /\ c[j + 1] \in sessions.by_pid /\ WaitsOn(sessions, c[j + 1], c[j])
          /\ \A i \in 1..j : c[i] # c[j + 1]
      BY <2>1, <3>1, ShortenChain
    <3> QED
      BY <2>1, <3>2
  <2>3. \A i \in 1..j : d[i] = c[i]
    BY DEF Shorter
  <2> HIDE DEF d
  <2>4. j \notin Missing
    BY <1>1, <2>1
  <2>5. PICK n \in forest[r] : ChainTo(r, n) = d
    BY <2>1, <2>2, <2>4
  <2> HIDE DEF Missing, Shown, j, p
  <2>6. /\ n.path \in Seq(Entries(sessions)) /\ Len(n.path) \in Nat
        /\ IsChain(r, d, Len(n.path) + 1) /\ d[Len(n.path) + 1] = n.pid
    BY <1>3, <2>5, NodeIsTyped, LenProperties DEF ChainInv, NodesEndChains
  <2>7. Len(n.path) + 1 = j
    <3>1. d \in [1..j -> sessions.by_pid] /\ d \in [1..Len(n.path) + 1 -> sessions.by_pid]
      BY <2>2, <2>6 DEF IsChain
    <3>2. 1..j = 1..Len(n.path) + 1
      BY <3>1
    <3> QED
      BY <2>1, <2>6, <3>2
  <2>8. n.pid = c[j] /\ j \in 1..j
    BY <2>1, <2>3, <2>6, <2>7
  <2>9. PICK m \in forest[r] :
          ChainTo(r, m) = Longer(ChainTo(r, n), Len(n.path) + 1, p)
    <3>1. \A i \in 1..Len(n.path) + 1 : ChainTo(r, n)[i] # p
      BY <2>2, <2>3, <2>5, <2>7
    <3>2. WaitsOn(sessions, p, n.pid)
      BY <2>2, <2>8
    <3> QED
      BY <2>2, <3>1, <3>2, WaiterShown
  <2>10. ChainTo(r, m) = c
    BY <2>2, <2>5, <2>7, <2>9
  <2> QED
    BY <1>2, <2>10 DEF Shown
<1> QED
  BY <1>4, <1>5

(* A finished tree shows each way of waiting for its root, and nothing else:  *)
(* the cut in one branch hides nothing in another (locks.py:149-153, 169).    *)
THEOREM EveryChainIsShown == Spec => []TreeShowsEveryChain
<1>1. WalkInv /\ ChainInv => TreeShowsEveryChain
  <2> SUFFICES ASSUME WalkInv, ChainInv, NEW r \in Finished
               PROVE  {ChainTo(r, n) : n \in forest[r]} = AcyclicChains(r)
    BY DEF TreeShowsEveryChain
  <2>1. IsSnapshot(sessions) /\ TypeOK /\ r \in DOMAIN forest
    BY DEF WalkInv, TypeOK, Finished
  <2>2. ASSUME NEW n \in forest[r]
        PROVE  ChainTo(r, n) \in AcyclicChains(r)
    <3>1. Len(n.path) + 1 \in Nat \ {0} /\ IsChain(r, ChainTo(r, n), Len(n.path) + 1)
      BY <2>1, NodeIsTyped, LenProperties DEF ChainInv, NodesEndChains
    <3> QED
      BY <2>1, <3>1, ChainsAre
  <2>3. ASSUME NEW c \in AcyclicChains(r)
        PROVE  \E n \in forest[r] : ChainTo(r, n) = c
    BY <2>1, ChainsAre, EveryChainShown
  <2> QED
    BY <2>2, <2>3
<1> QED
  BY <1>1, WalkInvariant, ChainsAreWalked, PTL
=============================================================================
