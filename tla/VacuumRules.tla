----------------------------- MODULE VacuumRules ----------------------------
(***************************************************************************)
(* The rules of pgtk/vacuum.py, on rows as the queries return them.        *)
(*   a row of a relation: name, system (in TOAST or a catalog), xid_age,   *)
(*     mxid_age, reltuples, n_dead_tup, options, last                      *)
(*   options   the reloptions as parse_reloptions finds them: enabled as   *)
(*             it was written, threshold, scale (in percent); Unset if     *)
(*             the relation has none of its own                            *)
(*   last      days since the latest vacuum of either kind, or Never       *)
(* Scale factors are percentages, so both sides of a comparison with them  *)
(* are multiplied by 100.                                                  *)
(***************************************************************************)
EXTENDS Findings

CONSTANTS MinDeadTuples,   \* min_dead_tuples
          XminReportAge,   \* xmin_report_age
          StaleDays        \* stale_autovacuum

ASSUME ThresholdsAssumption ==
  MinDeadTuples \in Nat /\ XminReportAge \in Nat /\ StaleDays \in Nat

Unset == -1
Never == -1

\* Slip: the settings of the cluster, whatever the relation says.
OptionIgnored(own, setting) == setting

\* options.get(key, setting)
Option(own, setting) == IF own = Unset THEN setting ELSE own

\* dead_tuple_threshold, times 100.
DeadTupleThreshold(reltuples, options, s) ==
  100 * Option(options.threshold, s.vacuum_threshold)
    + Option(options.scale, s.vacuum_scale_percent) * reltuples

\* n_dead_tup >= max(min_dead_tuples, threshold)
OverThreshold(dead, reltuples, options, s) ==
  /\ dead >= MinDeadTuples
  /\ 100 * dead >= DeadTupleThreshold(reltuples, options, s)

AgeSeverity(age, limit) ==
  IF 10 * age >= 9 * limit THEN Critical
  ELSE IF 2 * age >= limit THEN Warning ELSE Notice

\* An age is reported from half of its limit on (wraparound_report_share).
AgeFindings(check, subject, age, limit) ==
  {Finding(check, AgeSeverity(age, limit), subject, "freeze") :
     reported \in {x \in {age} : 2 * x >= limit}}

\* A database prints no statement: "find it in the vacuum.wraparound findings below".
DatabaseFindings(rows, s) ==
  UNION {{[f EXCEPT !.remedy = "find_relation"] :
            f \in AgeFindings("vacuum.database_wraparound", <<d, "database">>,
                              rows[d], s.freeze_max_age)} : d \in DOMAIN rows}

Stale(row) == row.last = Never \/ row.last > StaleDays

Disabled(row) == row.options.enabled = "false"

\* Slip: autovacuum_enabled is not looked at.
DeadTupleFindingByAge(row) ==
  Finding(IF Stale(row) THEN "vacuum.skipped" ELSE "vacuum.backlog",
          IF Stale(row) THEN Warning ELSE Notice, <<row.name, "table">>, "vacuum")

\* vacuum.skipped and vacuum.backlog.
DeadTupleFinding(row) ==
  IF Disabled(row)
  THEN Finding("vacuum.skipped", Critical, <<row.name, "table">>, "enable_autovacuum")
  ELSE IF Stale(row)
       THEN Finding("vacuum.skipped", Warning, <<row.name, "table">>, "vacuum")
       ELSE Finding("vacuum.backlog", Notice, <<row.name, "table">>, "vacuum")

\* Slip: system relations left out before their age is looked at.
RelationFindingsOfUsers(row, s) ==
  IF row.system THEN {}
  ELSE AgeFindings("vacuum.wraparound", <<row.name, "table">>, row.xid_age, s.freeze_max_age)

RelationFindings(row, s) ==
  AgeFindings("vacuum.wraparound", <<row.name, "table">>, row.xid_age, s.freeze_max_age)
  \cup AgeFindings("vacuum.multixact_wraparound", <<row.name, "table">>,
                   row.mxid_age, s.multixact_freeze_max_age)
  \cup {DeadTupleFinding(r) :
          r \in {x \in {row} : ~x.system
                   /\ OverThreshold(x.n_dead_tup, x.reltuples, x.options, s)}}

\* 50 and 150 million, of the million of xmin_report_age.
XminSeverity(age) ==
  IF age >= 150 * XminReportAge THEN Critical
  ELSE IF age >= 50 * XminReportAge THEN Warning ELSE Notice

\* Slip: a slot is treated as a session is.
XminRemedyOfSessions(source) ==
  IF source = "prepared_xact" THEN "rollback_prepared" ELSE "find_session"

\* A backend gets no statement: find the session, understand it first.
XminRemedy(source) ==
  CASE source = "prepared_xact" -> "rollback_prepared"
    [] source = "replication_slot" -> "drop_slot"
    [] OTHER -> "find_session"

\* rows: source -> age of the xmin it holds.
XminFindings(rows) ==
  {Finding("vacuum.xmin_horizon", XminSeverity(rows[source]),
           <<source, "holder">>, XminRemedy(source)) :
     source \in {h \in DOMAIN rows : rows[h] >= XminReportAge}}

ClusterFindings(s) ==
  {f \in {Finding("vacuum.disabled", Critical, <<"cluster", "cluster">>, "autovacuum_on")} :
     ~s.autovacuum_on}
=============================================================================
