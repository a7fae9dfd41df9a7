------------------------------ MODULE Command -------------------------------
(***************************************************************************)
(* The command line: the six commands of pgtk/cli.py, the connection and   *)
(* the capabilities of pgtk/db.py, and what pgtk/render.py prints.  A      *)
(* command is a script of statements and of things to print; any statement *)
(* may fail (statement_timeout, lock_timeout, a connection that is lost).  *)
(* What the checks find on a server is left open here (LockReport,         *)
(* IndexAdvice, Maintenance); what plan finds is PlanRules.                *)
(***************************************************************************)
EXTENDS PlanRules

CONSTANTS Calls,       \* [sub, exact, json, fail_on, document]: how the command is called
          Servers      \* [num, pgstattuple]: server_version_num, is the extension installed

Commands == {"bloat", "indexes", "plan", "vacuum", "locks", "report"}

ASSUME CallsAssumption ==
  \A c \in Calls :
    /\ c.sub \in Commands
    /\ {c.json, c.exact} \subseteq BOOLEAN
    /\ c.exact => c.sub = "bloat"
    /\ c.fail_on \in {"never", "notice", "warning", "critical"}
    /\ IsDocument(c.document)

ASSUME ServersAssumption ==
  \A s \in Servers : s.num \in Nat /\ s.pgstattuple \in BOOLEAN

VARIABLES call, server,
          todo,       \* what is left of the script
          asked,      \* version-gated columns that were asked for
          levels,     \* severities of what was found on the server
          findings,   \* of the plan
          out,        \* what was printed to stdout, in order
          exit,       \* Running, or the exit status
          why         \* of a failure

Running == -1

vars == <<call, server, todo, asked, levels, findings, out, exit, why>>

-----------------------------------------------------------------------------
(* pgtk/db.py *)

\* ServerVersion.from_num: 170004 -> 17.4, 90624 -> 9.6.
FromNum(num) ==
  IF num >= 100000 THEN <<num \div 10000, num % 10000>>
  ELSE <<num \div 10000, (num \div 100) % 100>>

\* Slip: the release a feature was announced for.
IntroducedEarly(column) ==
  CASE column = "n_ins_since_vacuum" -> 13
    [] column = "query_id" -> 13
    [] column \in {"last_idx_scan", "last_seq_scan"} -> 16

\* CATALOG_ADDITIONS
Introduced(column) ==
  CASE column = "n_ins_since_vacuum" -> 13
    [] column = "query_id" -> 14
    [] column \in {"last_idx_scan", "last_seq_scan"} -> 16

Has(num, column) == FromNum(num)[1] >= Introduced(column)

\* self.version < MINIMUM_VERSION, which is 13.0.
Unsupported(num) == FromNum(num)[1] < 13

-----------------------------------------------------------------------------
(* The scripts *)

\* Statements of a Database handle, before the first check.
Connecting == <<"connect", "version", "extensions">>

AnalyzeBloat(exact) == <<"tables", "indexes">> \o (IF exact THEN <<"measure">> ELSE << >>)
AnalyzeIndexes == <<"index_stats", "stats_reset", "seq_scans">>
AnalyzeVacuum == <<"settings", "databases", "relations", "holders">>
AnalyzeLocks == <<"sessions", "targets", "limits">>

\* if not ctx.as_json
IfText(c, steps) == IF c.json THEN << >> ELSE steps

\* The headline of bloat and report names the database, which is a statement.
Bloat(c) ==
  AnalyzeBloat(c.exact)
    \o IfText(c, <<"current_database", "headline", "bloat_table", "findings">>)

\* The caveat asks for stats_reset once more, in the middle of the printing.
Indexes(c) == AnalyzeIndexes \o IfText(c, <<"findings", "caveat_reset", "caveat">>)

Plan(c) == <<"parse">> \o IfText(c, <<"headline", "findings">>)

Vacuum(c) ==
  AnalyzeVacuum \o <<"progress">> \o IfText(c, <<"headline", "progress_table", "findings">>)

Locks(c) ==
  AnalyzeLocks \o <<"distribution">> \o IfText(c, <<"forest", "connections", "findings">>)

Report(c) ==
  AnalyzeBloat(FALSE) \o AnalyzeIndexes \o AnalyzeVacuum \o AnalyzeLocks
    \o IfText(c, <<"current_database", "headline", "bloat_table", "findings", "footer">>)

\* Slip: what was found is printed before the facts about the server are read.
FinishingFactsLast == <<"json", "facts", "finish">>

\* _server_facts is an argument of _finish, with --json and without: it is read first.
Finishing == <<"facts", "json", "finish">>

Script(c) ==
  CASE c.sub = "bloat" -> Connecting \o Bloat(c) \o Finishing
    [] c.sub = "indexes" -> Connecting \o Indexes(c) \o Finishing
    [] c.sub = "plan" -> Plan(c) \o <<"json", "finish">>
    [] c.sub = "vacuum" -> Connecting \o Vacuum(c) \o Finishing
    [] c.sub = "locks" -> Connecting \o Locks(c) \o Finishing
    [] c.sub = "report" -> Connecting \o Report(c) \o Finishing

Output == {"headline", "bloat_table", "findings", "caveat", "progress_table", "forest",
            "connections", "footer"}

\* CATALOG_ADDITIONS, by the statement that is formatted with the column if the server has
\* it (indexes.py:112-118, 382-388, vacuum.py:217-223, locks.py:118-121).
Gated(statement) ==
  CASE statement = "index_stats" -> {"last_idx_scan"}
    [] statement = "seq_scans" -> {"last_seq_scan"}
    [] statement = "relations" -> {"n_ins_since_vacuum"}
    [] statement = "sessions" -> {"query_id"}
    [] OTHER -> {}

\* After which statements there may be findings, and of which severities: of locks.py:199-317
\* and, in the same way, of bloat.py:297-304, indexes.py:234-405 and vacuum.py:150-355.
Levels(c, statement) ==
  CASE statement = "indexes" /\ ~c.exact -> Notice..Critical
    [] statement \in {"measure", "stats_reset", "databases", "relations", "holders", "targets"}
         -> Notice..Critical
    [] statement = "seq_scans" -> {Notice}
    [] statement = "settings" -> {Critical}
    [] statement = "limits" -> Warning..Critical
    [] OTHER -> {}

\* FAIL_LEVELS
FailLevel(c) ==
  CASE c.fail_on = "notice" -> Notice [] c.fail_on = "warning" -> Warning
    [] c.fail_on = "critical" -> Critical [] c.fail_on = "never" -> Critical + 1

-----------------------------------------------------------------------------
Init ==
  /\ call \in Calls
  /\ server \in Servers
  /\ todo = Script(call)
  /\ asked = {} /\ levels = {} /\ findings = {}
  /\ out = << >>
  /\ exit = Running /\ why = "none"

Comes(steps) == exit = Running /\ Head(todo) \in steps

\* Slip: the message is printed and the command returns.
FailSilently(reason) ==
  /\ exit' = 0 /\ why' = reason
  /\ UNCHANGED <<call, server, todo, asked, levels, findings, out>>

\* An exception: on stderr, exit status 1, nothing more on stdout.
Fail(reason) ==
  /\ exit' = 1 /\ why' = reason
  /\ UNCHANGED <<call, server, todo, asked, levels, findings, out>>

\* External: the columns of a release.
ServerHas(column) ==
  server.num >= CASE column = "n_ins_since_vacuum" -> 130000 [] column = "query_id" -> 140000
                  [] OTHER -> 160000

AskedBy(statement) == {column \in Gated(statement) : Has(server.num, column)}

Statement == Comes({Script(call)[i] : i \in DOMAIN Script(call)}
                     \ (Output \cup {"parse", "json", "finish"}))

\* Raised by the command itself: UnsupportedServerError, PgstattupleUnavailableError.
Refused(statement) ==
  \/ statement = "extensions" /\ Unsupported(server.num)
  \/ statement = "measure" /\ ~server.pgstattuple

\* Database.rows: the server answers, and there may be something to report.
Answered ==
  /\ Statement /\ ~Refused(Head(todo))
  /\ \A column \in AskedBy(Head(todo)) : ServerHas(column)
  /\ asked' = asked \cup AskedBy(Head(todo))
  /\ \E found \in SUBSET Levels(call, Head(todo)) : levels' = levels \cup found
  /\ todo' = Tail(todo)
  /\ UNCHANGED <<call, server, findings, out, exit, why>>

\* Any statement may time out, lose its connection or meet a relation that is gone.
ServerFails == Statement /\ ~Refused(Head(todo)) /\ Fail("server")

Refuse ==
  /\ Statement /\ Refused(Head(todo))
  /\ Fail(IF Unsupported(server.num) THEN "unsupported" ELSE "no_pgstattuple")

\* plan: parse_explain and analyze_plan, without a connection.
ReadPlan ==
  /\ Comes({"parse"})
  /\ IF Parse(call.document) = "parsed"
     THEN /\ findings' = AnalyzePlan(call.document.nodes)
          /\ levels' = {f.severity : f \in findings'}
          /\ todo' = Tail(todo)
          /\ UNCHANGED <<call, server, asked, out, exit, why>>
     ELSE Fail("bad_plan")

\* render_findings prints "no findings - every check ran and none of them fired".
Prints(step) == IF step = "findings" /\ levels = {} THEN "no_findings" ELSE step

PrintText ==
  /\ Comes(Output)
  /\ out' = Append(out, Prints(Head(todo)))
  /\ todo' = Tail(todo)
  /\ UNCHANGED <<call, server, asked, levels, findings, exit, why>>

\* rich takes [...] in a query text or a name for markup, the name of the database in a
\* headline too (cli.py:138-141, 293-296): a closing tag that was not opened raises
\* MarkupError.
MarkupFails ==
  /\ \/ Comes({"forest", "connections", "progress_table"})
     \/ Comes({"headline"}) /\ call.sub \in {"bloat", "report"}
     \/ Comes({"findings", "bloat_table"}) /\ levels # {}
  /\ Fail("markup")

\* _finish: the document first, then the exit status.
EmitJson ==
  /\ Comes({"json"})
  /\ out' = IF call.json THEN Append(out, "json") ELSE out
  /\ todo' = Tail(todo)
  /\ UNCHANGED <<call, server, asked, levels, findings, exit, why>>

\* Slip: every finding has to reach the level.
FailsOnAll == levels # {} /\ \A level \in levels : level >= FailLevel(call)

FailsOn == \E level \in levels : level >= FailLevel(call)

Finish ==
  /\ Comes({"finish"})
  /\ exit' = IF FailsOn THEN 1 ELSE 0
  /\ todo' = Tail(todo)
  /\ UNCHANGED <<call, server, asked, levels, findings, out, why>>

Next ==
  \/ Answered \/ ServerFails \/ Refuse \/ ReadPlan
  \/ PrintText \/ MarkupFails \/ EmitJson \/ Finish

Spec == Init /\ [][Next]_vars

-----------------------------------------------------------------------------
TypeOK ==
  /\ call \in Calls /\ server \in Servers
  /\ \E k \in 0..Len(Script(call)) : todo = SubSeq(Script(call), k + 1, Len(Script(call)))
  /\ levels \subseteq Severities
  /\ \A f \in findings : f.subject \in DOMAIN call.document.nodes /\ f.severity \in levels
  /\ \A i \in DOMAIN out : out[i] \in Output \cup {"no_findings", "json"}
  /\ exit \in {Running, 0, 1}
  /\ why \in {"none", "server", "unsupported", "no_pgstattuple", "bad_plan", "markup"}
  /\ why # "none" => exit = 1

Ended == exit # Running

\* "Checks ask caps.has(...) instead of comparing version numbers inline, so the whole
\* portability surface is one list" (db.py:38-40): a server from 13 on is never turned
\* away nor asked for a column it lacks, and is asked for all it has.
AsksForWhatThereIs ==
  /\ why = "unsupported" => server.num < 130000
  /\ server.num < 130000 => levels = {} \/ call.sub = "plan"
  /\ Comes({"index_stats", "seq_scans", "relations", "sessions"}) =>
       AskedBy(Head(todo)) = {column \in Gated(Head(todo)) : ServerHas(column)}

\* What a scheduler concludes from exit status 0 (README.md:546-548, cli.py:84): all
\* that the checks ask was answered, nothing reached --fail-on, and --exact was exact.
\* The text says "no findings" exactly if there are none.
CleanExitIsClean ==
  exit = 0 =>
    /\ todo = << >> /\ why = "none"
    /\ \A level \in levels : level < FailLevel(call)
    /\ call.exact => server.pgstattuple
    /\ ~call.json => (levels = {} <=> \E i \in DOMAIN out : out[i] = "no_findings")

\* Exit status 1 is a finding, or a command that could not do its work: with --json
\* stdout tells which.  It has one whole document, or nothing.
JsonTellsFailureApart ==
  Ended /\ call.json => out = IF why = "none" THEN <<"json">> ELSE << >>

\* "All three shapes arrive here" (plans.py:97-101): a plan with measurements is read
\* however often it is wrapped, under at most one QUERY PLAN; nothing else is.
ShapeDoesNotMatter ==
  Ended /\ call.sub = "plan" =>
    (why # "bad_plan"
       <=> /\ call.document.core = "plan"
           /\ Cardinality({i \in DOMAIN call.document.wrappers :
                              call.document.wrappers[i] = "query_plan"}) <= 1)

\* At least one row from each execution: rounding then misses by a third at most.
Measured(n) == n.loops > 0 /\ n.rows >= n.loops

\* The outer side, of a join none of whose children is a subplan.
OuterSide(path) == call.document.nodes[path \o <<1>>]
PlainLoop(path) == PlainJoin(call.document.nodes, path)

\* What is said of a plan is true of the execution, although EXPLAIN gives rows and
\* discarded rows per loop, heap fetches and loops in total: up to the rounding to whole
\* rows, for nodes that returned a row per loop, and joins without subplans.
PlanFindingsAreReal ==
  \A f \in findings :
    LET n == call.document.nodes[f.subject]
        expected == Larger(n.est, 1) * n.loops
    IN /\ f.check = "plan.misestimate" /\ Measured(n) =>
            \/ 3 * expected >= 2 * MisestimateFactor * n.rows
            \/ 3 * n.rows >= 2 * MisestimateFactor * expected
       /\ f.check = "plan.nested_loop" /\ PlainLoop(f.subject) =>
            OuterSide(f.subject).rows >= LoopThreshold
       /\ f.check = "plan.heap_fetches" /\ f.severity = Warning /\ Measured(n) =>
            15 * n.fetches >= n.rows
       /\ f.check = "plan.filter_discard" /\ Measured(n) => n.removed >= 6 * n.rows

Finds(check, path) == \E f \in findings : f.check = check /\ f.subject = path

\* And what is true of it is said: a node that was clearly misjudged, a join without
\* subplans that ran its inner side too often.
PlanTroubleIsReported ==
  call.sub = "plan" /\ Ended /\ why = "none" =>
    \A path \in DOMAIN call.document.nodes :
      LET n == call.document.nodes[path]
          expected == Larger(n.est, 1) * n.loops
      IN /\ /\ Measured(n)
            /\ n.rows >= 2 * MisestimateFloor \/ n.est >= MisestimateFloor
            /\ \/ 2 * expected >= 3 * MisestimateFactor * n.rows
               \/ 2 * n.rows >= 3 * MisestimateFactor * expected
            => Finds("plan.misestimate", path)
         /\ /\ n.type = "Nested Loop" /\ PlainLoop(path)
            /\ OuterSide(path).rows >= LoopThreshold
            => Finds("plan.nested_loop", path)
=============================================================================
