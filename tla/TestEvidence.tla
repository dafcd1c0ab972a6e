---------------------------- MODULE TestEvidence ----------------------------
(***************************************************************************)
(* How the controller turns the commands of the quality gate into the test *)
(* report that a Testing Agent may comment but not change (assembly.py,    *)
(* artifacts.py TestReport).  A run without Review Agents has no manual    *)
(* criteria; the scope of the report is a parameter.                       *)
(***************************************************************************)
CONSTANTS
    Commands,   \* the deterministic commands of the gate
    Covers,     \* command -> the acceptance criteria it is evidence for
    Manual      \* the criteria assigned to independent review

(* QualityManifest: there is a gate, and it is evidence for something. *)
ASSUME GateAssumption == Commands # {} /\ \A k \in Commands : Covers[k] # {}

Deterministic == UNION {Covers[k] : k \in Commands}

(* How the commands of one gate can end. *)
Results == [Commands -> {"passed", "failed", "timed_out"}]

(* validate_verification_assignment *)
Assigned(criteria, manual) ==
    /\ Commands # {} /\ \A k \in Commands : Covers[k] # {}
    /\ Deterministic \cup manual = criteria

TestStatus(result) ==
    CASE \E k \in Commands : result[k] = "timed_out" -> "blocked"
      [] \A k \in Commands : result[k] = "passed" -> "passed"
      [] OTHER -> "failed"

(* The evidence of a criterion, then whether somebody still has to look. *)
CriterionStatus(result, manual, c) ==
    LET ends == {result[k] : k \in {j \in Commands : c \in Covers[j]}}
    IN  CASE "timed_out" \in ends -> "blocked"
          [] "timed_out" \notin ends /\ "failed" \in ends -> "failed"
          [] ends \subseteq {"passed"} /\ c \in manual -> "pending_review"
          [] OTHER -> "passed"

(* assemble_test_report *)
TestReport(result, criteria, manual) ==
    [status |-> TestStatus(result),
     criteria |-> [c \in criteria |-> CriterionStatus(result, manual, c)],
     blockers |-> {k \in Commands : result[k] # "passed"}]

(* TestReport.validate_evidence *)
TestReportValid(report, manual) ==
    LET statuses == {report.criteria[c] : c \in DOMAIN report.criteria}
        passing == report.blockers = {} /\ statuses \subseteq {"passed", "pending_review"}
    IN  /\ \A c \in DOMAIN report.criteria :
              IF c \in manual THEN report.criteria[c] # "passed"
              ELSE report.criteria[c] # "pending_review"
        /\ CASE report.status = "passed" -> passing
             [] report.status = "blocked" -> report.blockers # {} /\ "blocked" \in statuses
             [] OTHER -> "failed" \in statuses /\ ~passing

(* What the gate of a run with this scope can report. *)
GateStatuses(criteria, manual) ==
    {IF Assigned(criteria, manual) /\ TestReportValid(TestReport(r, criteria, manual), manual)
     THEN TestStatus(r) ELSE "refused" : r \in Results}
=============================================================================
