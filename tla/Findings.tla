------------------------------ MODULE Findings ------------------------------
(***************************************************************************)
(* pgtk/findings.py: the levels of a Finding and the record every check    *)
(* returns.  The text of a finding is left out; remedy names the statement *)
(* it prints, which a reader may run and the tool never does.              *)
(***************************************************************************)
EXTENDS Integers

\* class Severity(IntEnum)
Info == 0
Notice == 1
Warning == 2
Critical == 3

Severities == Info..Critical

Finding(check, severity, subject, remedy) ==
  [check |-> check, severity |-> severity, subject |-> subject, remedy |-> remedy]
=============================================================================
