----------------------------- MODULE LockReport -----------------------------
(***************************************************************************)
(* The locks command: analyze_locks of pgtk/locks.py, then the report of   *)
(* cli.locks, against a server that does not stand still.  The command     *)
(* runs four queries in autocommit mode, and the first is not one instant  *)
(* either: the list of sessions is taken once, pg_blocking_pids is called  *)
(* row by row.  The tree of a root is what BlockingForest is shown to      *)
(* compute, the set of the sessions that wait on it.                       *)
(***************************************************************************)
EXTENDS LockTable

CONSTANTS Visible,    \* sessions of the database the command is connected to
          MaxConnections,
          MaxChanges  \* bound: what the server may do while the command runs

ASSUME VisibleAssumption ==
  Visible \subseteq Sessions /\ MaxConnections \in Nat /\ MaxChanges \in Nat

VARIABLES phase,      \* which statement of the command comes next
          todo,       \* rows whose pg_blocking_pids is still to be called
          sessions,   \* load_sessions: what was read so far
          idle,       \* of those, the ones in state 'idle in transaction'
          targets,    \* ungranted_lock_targets: pid -> lock
          report,     \* the findings and what is printed
          changes,    \* history: how often the server changed since they were listed
          released    \* history: somebody let go of a lock or of a wait since then

toolVars == <<phase, todo, sessions, idle, targets, report>>
vars == <<live, holder, queue, phase, todo, sessions, idle, targets, report, changes,
          released>>

G == INSTANCE BlockingGraph WITH Pids <- Sessions \cup {Prepared}

NoReport ==
  [trees |-> << >>, critical |-> {}, longWaits |-> {}, idleLong |-> {},
   pressure |-> "none", silent |-> FALSE]

Init ==
  /\ LockInit
  /\ phase = "start" /\ todo = {} /\ targets = << >> /\ idle = {}
  /\ sessions = [by_pid |-> {}, blocked_by |-> << >>]
  /\ report = NoReport
  /\ changes = 0 /\ released = FALSE

Server ==
  /\ \/ Arrive /\ released' = released
     \/ LetGo /\ released' = (released \/ phase # "start")
  /\ IF phase = "start" THEN UNCHANGED changes
     ELSE changes < MaxChanges /\ changes' = changes + 1
  /\ UNCHANGED toolVars

\* ACTIVITY_SQL lists the sessions; a session that holds locks and does not
\* wait is either running a statement or idle in its transaction.
ListSessions ==
  /\ phase = "start"
  /\ phase' = "rows"
  /\ todo' = live \cap Visible
  /\ sessions' = [by_pid |-> live \cap Visible, blocked_by |-> << >>]
  /\ \E quiet \in SUBSET {p \in live \cap Visible : Holds(p) /\ ~Waiting(p)} : idle' = quiet
  /\ UNCHANGED <<live, holder, queue, targets, report, changes, released>>

\* pg_blocking_pids(a.pid) of one row.
ReadRow(p) ==
  /\ phase = "rows" /\ p \in todo
  /\ todo' = todo \ {p}
  /\ sessions' = [sessions EXCEPT !.blocked_by =
                    [q \in DOMAIN @ \cup {p} |-> IF q = p THEN BlockedBy(p) ELSE @[q]]]
  /\ UNCHANGED <<live, holder, queue, phase, idle, targets, report, changes, released>>

\* Slip: the WHERE NOT l.granted of UNGRANTED_LOCKS_SQL left out.
ReadTargetsGranted ==
  /\ phase = "rows" /\ todo = {}
  /\ phase' = "targets"
  /\ targets' = [p \in {q \in Sessions : Waiting(q)} |->
                   CHOOSE l \in Locks : QueuedFor(p, l) \/ holder[l] = p]
  /\ UNCHANGED <<live, holder, queue, todo, sessions, idle, report, changes, released>>

\* ungranted_lock_targets, a statement of its own.
ReadTargets ==
  /\ phase = "rows" /\ todo = {}
  /\ phase' = "targets"
  /\ targets' = [p \in {q \in Sessions : Waiting(q)} |->
                   CHOOSE l \in Locks : QueuedFor(p, l)]
  /\ UNCHANGED <<live, holder, queue, todo, sessions, idle, report, changes, released>>

\* The three passes over the forest and the sessions.  Whether the waits and the
\* idle transactions are old enough to report is a matter of clocks: all or none.
Analyze ==
  /\ phase = "targets"
  /\ phase' = "limits"
  /\ \E old \in {{}, sessions.by_pid} :
       LET roots == G!Roots(sessions)
           trees == [r \in roots |-> G!Waiters(sessions, r)]
       IN report' =
            [report EXCEPT
               !.trees     = trees,
               !.critical  = {r \in roots : r \in idle \/ Cardinality(trees[r]) - 1 > 2},
               !.longWaits = old \cap G!Blocked(sessions),
               !.idleLong  = old \cap idle]
  /\ UNCHANGED <<live, holder, queue, todo, sessions, idle, targets, changes, released>>

\* used >= maximum * 0.8, the connection of the command itself included.
Pressure(used) ==
  IF MaxConnections = 0 \/ used * 10 < MaxConnections * 8 THEN "none"
  ELSE IF used < MaxConnections THEN "warning" ELSE "critical"

ReadLimits ==
  /\ phase = "limits"
  /\ phase' = "distribution"
  /\ report' = [report EXCEPT !.pressure = Pressure(Cardinality(live) + 1)]
  /\ UNCHANGED <<live, holder, queue, todo, sessions, idle, targets, changes, released>>

\* render_blocking_forest has no tree to draw.
NothingToDraw == DOMAIN report.trees = {}

\* connection_distribution, then render_blocking_forest and render_findings.
ReadDistribution ==
  /\ phase = "distribution"
  /\ phase' = "printed"
  /\ report' = [report EXCEPT !.silent = NothingToDraw]
  /\ UNCHANGED <<live, holder, queue, todo, sessions, idle, targets, changes, released>>

Tool ==
  \/ ListSessions
  \/ \E p \in Visible : ReadRow(p)
  \/ ReadTargets
  \/ Analyze
  \/ ReadLimits
  \/ ReadDistribution

Next == Server \/ Tool

Spec == Init /\ [][Next]_vars

-----------------------------------------------------------------------------
TypeOK ==
  /\ live \subseteq Sessions
  /\ holder \in [Locks -> Sessions \cup {Prepared, NoOne}]
  /\ queue \in [Locks -> Seq(Sessions)]
  /\ phase \in {"start", "rows", "targets", "limits", "distribution", "printed"}
  /\ todo \subseteq Visible
  /\ sessions.by_pid \subseteq Visible
  /\ sessions.blocked_by \in [sessions.by_pid \ todo -> Seq(Sessions \cup {Prepared})]
  /\ idle \subseteq sessions.by_pid
  /\ DOMAIN targets \subseteq Sessions
  /\ changes \in 0..MaxChanges /\ released \in BOOLEAN
  /\ DOMAIN report.trees \subseteq sessions.by_pid

Analyzed == phase \in {"limits", "distribution", "printed"}

\* q stands between p and the lock p waits for: it holds it or is ahead of p.
InTheWay(q, p) ==
  \E l \in Locks : \E i \in DOMAIN queue[l] :
     /\ queue[l][i] = p
     /\ holder[l] = q \/ \E j \in 1..(i - 1) : queue[l][j] = q

\* p and, through any number of steps, everyone p stands in the way of.
HeldUpBy(p, among) ==
  {q \in among :
     \A S \in SUBSET among :
        p \in S /\ (\A x \in S : \A y \in among : InTheWay(x, y) => y \in S) => q \in S}

\* If nothing happened on the server while the sessions were read, what is
\* reported is how the server is: each root holds a lock somebody waits for and
\* waits for none, its tree is everyone it holds up, and the label of a waiter
\* (locks.py:176-180, a query of its own) is the lock it waits for.
QuietReportIsTrue ==
  Analyzed /\ changes = 0 =>
    /\ DOMAIN report.trees =
         {p \in live \cap Visible :
            ~Waiting(p) /\ \E q \in live \cap Visible : InTheWay(p, q)}
    /\ \A r \in DOMAIN report.trees :
         /\ Holds(r)
         /\ report.trees[r] = HeldUpBy(r, live \cap Visible)
         /\ \A p \in report.trees[r] \ {r} : QueuedFor(p, targets[p])

\* The edges of a report come from different instants, a row at a time, and the
\* labels from a later query (locks.py:31, 195).  As long as nobody let go of anything
\* meanwhile they are true together all the same, however many sessions arrived,
\* took locks and queued between the reads: whoever a tree shows under its root is
\* held up by it now, over waits that are all there, and waits for the lock named.
WaitsStandUntilReleased ==
  Analyzed /\ ~released =>
    \A r \in DOMAIN report.trees :
      /\ report.trees[r] \subseteq HeldUpBy(r, live \cap Visible)
      /\ \A p \in report.trees[r] \ {r} : QueuedFor(p, targets[p])

\* The output of one run does not deny what it lists: when it prints "no session
\* is waiting on a lock held by another" (render.py:113) it lists no session
\* that has been waiting on others for long (locks.py:273-299).
SilenceAgreesWithFindings ==
  phase = "printed" /\ report.silent => report.longWaits = {}
=============================================================================
