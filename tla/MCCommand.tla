----------------------------- MODULE MCCommand ------------------------------
(***************************************************************************)
(* Plans, calls and servers for TLC.  The plans are what EXPLAIN of one    *)
(* execution could show: the inner side of a nested loop runs once for     *)
(* each row of the outer side.                                             *)
(***************************************************************************)
EXTENDS Command, TLC

Scan ==
  [type |-> "Index Only Scan", role |-> "outer", est |-> 50, rows |-> 50, loops |-> 1,
   removed |-> 0, fetches |-> 0, disk |-> FALSE, batches |-> 0, original |-> 0,
   filter |-> FALSE, relation |-> TRUE]

OneNode(n) == << >> :> n

SingleScans ==
  {OneNode([Scan EXCEPT !.est = est, !.rows = rows, !.fetches = fetches]) :
     est \in {1, 150, 2000}, rows \in {0, 99, 1500, 100000}, fetches \in {0, 9, 200}}
  \cup {OneNode([Scan EXCEPT !.type = "Seq Scan", !.filter = TRUE, !.rows = rows,
                             !.removed = removed]) :
          rows \in {0, 300, 1500}, removed \in {9999, 10000, 14999, 15000}}
  \cup {OneNode([Scan EXCEPT !.type = "Sort", !.relation = FALSE, !.disk = TRUE]),
        OneNode([Scan EXCEPT !.type = "Hash", !.relation = FALSE, !.batches = 4, !.original = 1]),
        OneNode([Scan EXCEPT !.type = "Hash", !.relation = FALSE, !.batches = 4, !.original = 4])}

\* An outer side of that many rows; each finds hits in total; a subplan may run
\* once for each row that is returned, or once before the join.
Loop(outer, hits, removed, sub) ==
  LET join == [Scan EXCEPT !.type = "Nested Loop", !.relation = FALSE, !.rows = hits]
      left == [Scan EXCEPT !.rows = outer]
      right == [Scan EXCEPT !.role = "inner", !.est = 1, !.rows = hits, !.loops = outer,
                            !.removed = removed, !.filter = removed > 0]
      other == [Scan EXCEPT !.role = sub, !.est = 1, !.rows = 1,
                            !.loops = IF sub = "subplan" THEN hits ELSE 1]
      children == CASE sub = "none" -> <<left, right>>
                    [] sub = "subplan" -> <<left, right, other>>
                    [] sub = "initplan" -> <<other, left, right>>
  IN [path \in {<< >>} \cup {<<i>> : i \in DOMAIN children} |->
        IF path = << >> THEN join ELSE children[path[1]]]

Loops ==
  {Loop(outer, hits, removed, sub) :
     outer \in {0, 9999, 10000, 100000}, hits \in {0, 10000, 150000},
     removed \in {0, 20000}, sub \in {"none", "subplan", "initplan"}}

SomePlan == Loop(10000, 10000, 0, "none")

Document(wrappers, core, nodes) == [wrappers |-> wrappers, core |-> core, nodes |-> nodes]

Shapes ==
  {<< >>, <<"list">>, <<"list", "list">>, <<"query_plan">>, <<"query_plan", "list">>,
   <<"list", "query_plan">>, <<"list", "query_plan", "list">>, <<"query_plan", "query_plan">>}

Documents ==
  {Document(<<"list">>, "plan", nodes) : nodes \in SingleScans \cup Loops}
  \cup {Document(wrappers, core, SomePlan) :
          wrappers \in Shapes, core \in {"plan", "estimates", "object"}}
  \cup {Document(<<"list">>, "nothing", SomePlan), Document(<<"query_plan", "list">>, "nothing", SomePlan),
        Document(<< >>, "text", SomePlan)}

NoDocument == [wrappers |-> << >>, core |-> "nothing", nodes |-> << >>]

MCCalls ==
  [sub : Commands \ {"plan"}, exact : {FALSE}, json : BOOLEAN,
   fail_on : {"never", "notice", "warning", "critical"}, document : {NoDocument}]
  \cup [sub : {"bloat"}, exact : {TRUE}, json : BOOLEAN, fail_on : {"never", "warning"},
        document : {NoDocument}]
  \cup [sub : {"plan"}, exact : {FALSE}, json : BOOLEAN, fail_on : {"never", "warning"},
        document : Documents]

\* plan asks no server, and needs only one here.
MCServers ==
  {[num |-> n, pgstattuple |-> FALSE] : n \in {90624, 120022, 130000}}
  \cup {[num |-> n, pgstattuple |-> TRUE] : n \in {130021, 140000, 150017, 160000, 170004}}
=============================================================================
