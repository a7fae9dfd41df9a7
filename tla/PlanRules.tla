----------------------------- MODULE PlanRules ------------------------------
(***************************************************************************)
(* pgtk/plans.py.  A plan is a function from paths to nodes: << >> is the  *)
(* root, path \o <<i>> its i-th child.  What happened when the query ran   *)
(* is in a node as totals over all loops; what EXPLAIN prints of it, and   *)
(* the code reads, are the operators below, mostly averages per loop       *)
(* rounded to whole rows.                                                  *)
(*   type, role   the node type; how it hangs below its parent             *)
(*   est          rows the planner expected per loop                       *)
(*   rows, loops  rows returned, number of executions                      *)
(*   removed      rows discarded by the filter                             *)
(*   fetches      heap fetches                                             *)
(*   disk         the sort went to disk                                    *)
(*   batches, original   of a hash, the second as planned                  *)
(*   filter, relation    whether the node has them                         *)
(***************************************************************************)
EXTENDS Findings, Sequences, FiniteSets

CONSTANTS MisestimateFactor,   \* --misestimate-factor
          LoopThreshold        \* --nested-loop-loops

ASSUME PlanAssumption == {MisestimateFactor, LoopThreshold} \subseteq Nat \ {0}

\* The defaults of analyze_plan that no option changes.
MisestimateFloor == 100
FilterDiscardRatio == 10
FilterFloor == 10000

Larger(a, b) == IF a >= b THEN a ELSE b

-----------------------------------------------------------------------------
(* What EXPLAIN prints *)

\* printf("%.0f") of an average: ties to even.
PerLoop(total, loops) ==
  LET q == total \div loops
      r == total % loops
  IN IF 2 * r > loops \/ (2 * r = loops /\ q % 2 = 1) THEN q + 1 ELSE q

\* A node that was never executed has zeros.
Printed(total, n) == IF n.loops = 0 THEN 0 ELSE PerLoop(total, n.loops)

-----------------------------------------------------------------------------
(* PlanNode *)

ActualRows(n) == Printed(n.rows, n)
TotalRows(n) == ActualRows(n) * n.loops

ChildrenOf(plan, path) ==
  {p \in DOMAIN plan : Len(p) = Len(path) + 1 /\ SubSeq(p, 1, Len(path)) = path}

\* node.children[-1]; children are numbered without gaps.
LastChild(plan, path) == path \o <<Cardinality(ChildrenOf(plan, path))>>

\* None of the children is a subplan.
PlainJoin(plan, path) ==
  \A child \in ChildrenOf(plan, path) : plan[child].role \in {"outer", "inner"}

\* External: what an execution can leave in a plan.  A nested loop runs its inner
\* side, the second child, once for each row of the outer side.
IsExecution(plan) ==
  \A path \in DOMAIN plan :
    LET n == plan[path]
    IN /\ path \in Seq(Nat)
       /\ {n.est, n.rows, n.loops, n.removed, n.fetches, n.batches, n.original} \subseteq Nat
       /\ n.type = "Nested Loop" /\ PlainJoin(plan, path) =>
            /\ ChildrenOf(plan, path) = {path \o <<1>>, path \o <<2>>}
            /\ plan[path \o <<2>>].loops = plan[path \o <<1>>].rows

-----------------------------------------------------------------------------
(* The six rules *)

\* misestimate_ratio(node) >= factor
OutBy(n, factor) ==
  LET estimated == Larger(n.est, 1)
      actual == Larger(ActualRows(n), 1)
  IN estimated >= factor * actual \/ actual >= factor * estimated

\* Slip: the floor asks for both numbers to be large.
MisestimatedBoth(n) ==
  /\ TotalRows(n) >= MisestimateFloor /\ n.est >= MisestimateFloor
  /\ OutBy(n, MisestimateFactor)

Misestimated(n) ==
  /\ TotalRows(n) >= MisestimateFloor \/ n.est >= MisestimateFloor
  /\ OutBy(n, MisestimateFactor)

ScanNodes == {"Seq Scan", "Index Scan", "Index Only Scan", "Bitmap Heap Scan"}

MisestimateRemedy(n) ==
  IF n.relation /\ n.filter /\ ActualRows(n) > n.est /\ n.type \in ScanNodes
  THEN "statistics" ELSE IF n.relation THEN "analyze" ELSE "look_above"

MisestimateFindings(plan) ==
  {Finding("plan.misestimate", IF OutBy(plan[p], 100) THEN Critical ELSE Warning, p,
           MisestimateRemedy(plan[p])) : p \in {q \in DOMAIN plan : Misestimated(plan[q])}}

\* A nested loop whose last child ran often.
LoopsOften(plan, path) ==
  /\ plan[path].type = "Nested Loop" /\ ChildrenOf(plan, path) # {}
  /\ plan[LastChild(plan, path)].loops >= LoopThreshold

NestedLoopFindings(plan) ==
  {Finding("plan.nested_loop",
           IF plan[LastChild(plan, p)].loops >= 10 * LoopThreshold THEN Critical ELSE Warning,
           p, "fix_outer") : p \in {q \in DOMAIN plan : LoopsOften(plan, q)}}

SortFindings(plan) ==
  {Finding("plan.external_sort", Warning, p, "work_mem") : p \in {q \in DOMAIN plan : plan[q].disk}}

HashSpillFindings(plan) ==
  {Finding("plan.hash_spill",
           IF plan[p].batches > plan[p].original THEN Warning ELSE Notice, p, "check_build_side") :
     p \in {q \in DOMAIN plan : plan[q].batches > 1}}

\* Heap fetches are a total, and are compared with one.
HeapFetchFindings(plan) ==
  {Finding("plan.heap_fetches",
           IF 10 * plan[p].fetches >= Larger(TotalRows(plan[p]), 1) THEN Warning ELSE Notice,
           p, "vacuum") :
     p \in {q \in DOMAIN plan : plan[q].type = "Index Only Scan" /\ plan[q].fetches > 0}}

\* Slip: the total against rows per loop.
DiscardsTotal(n) ==
  /\ n.removed >= FilterFloor
  /\ n.removed >= FilterDiscardRatio * Larger(ActualRows(n), 1)

\* Both sides per loop.
Discards(n) ==
  /\ Printed(n.removed, n) >= FilterFloor
  /\ Printed(n.removed, n) >= FilterDiscardRatio * Larger(ActualRows(n), 1)

FilterFindings(plan) ==
  {Finding("plan.filter_discard", Notice, p, "index") :
     p \in {q \in DOMAIN plan : Discards(plan[q])}}

AnalyzePlan(plan) ==
  MisestimateFindings(plan) \cup NestedLoopFindings(plan) \cup SortFindings(plan)
    \cup HashSpillFindings(plan) \cup HeapFetchFindings(plan) \cup FilterFindings(plan)

-----------------------------------------------------------------------------
(* parse_explain: a document is a plan in wrappers, outermost first.  What *)
(* is inside all of them: "plan", with measurements; "estimates", without; *)
(* "object", some other object or value; "nothing", of a list; "text".     *)

\* while isinstance(data, list): data = data[0]
Unlisted(wrappers) ==
  LET lists == CHOOSE k \in 0..Len(wrappers) :
                 /\ \A i \in 1..k : wrappers[i] = "list"
                 /\ k < Len(wrappers) => wrappers[k + 1] # "list"
  IN SubSeq(wrappers, lists + 1, Len(wrappers))

\* External: a document; if a plan with measurements is inside, it is one of an execution.
IsDocument(document) ==
  /\ document.wrappers \in Seq({"list", "query_plan"})
  /\ document.core = "plan" => IsExecution(document.nodes)

\* Slip: QUERY PLAN is taken to hold the plan itself.
OutOfQueryPlanOnly(wrappers) ==
  IF wrappers # << >> /\ Head(wrappers) = "query_plan" THEN Tail(wrappers) ELSE wrappers

OutOfQueryPlan(wrappers) ==
  IF wrappers # << >> /\ Head(wrappers) = "query_plan" THEN Unlisted(Tail(wrappers)) ELSE wrappers

Parse(document) ==
  IF OutOfQueryPlan(Unlisted(document.wrappers)) # << >>
       \/ document.core \notin {"plan", "estimates"} THEN "format_error"
  ELSE IF document.core = "estimates" THEN "not_analyzed" ELSE "parsed"
=============================================================================
