----------------------------- MODULE BlockSets -----------------------------
(***************************************************************************)
(* What the blocking forest promises its reader: for every root, in some   *)
(* order, the set of the sessions that wait on it, directly or through     *)
(* others, which is what BlockingNode.pids returns and size counts.  How   *)
(* the sessions are found is not said.                                     *)
(***************************************************************************)
EXTENDS BlockingGraph

VARIABLES sessions,   \* the snapshot
          answer      \* root -> the sessions of its tree

absVars == <<sessions, answer>>

AbsInit == IsSnapshot(sessions) /\ answer = [root \in {} |-> {}]

\* One more root is answered.
Answer(root) ==
  /\ root \in Roots(sessions) \ DOMAIN answer
  /\ answer' = [r \in DOMAIN answer \cup {root} |->
                  IF r = root THEN Waiters(sessions, root) ELSE answer[r]]
  /\ UNCHANGED sessions

AbsNext == \E root \in Pids : Answer(root)

AbsSpec == AbsInit /\ [][AbsNext]_absVars
=============================================================================
