-------------------------- MODULE SemanticCorrection --------------------------
(***************************************************************************)
(* The algebra of response validation and targeted correction              *)
(* (responses.py, response_corrections.py).                                *)
(*                                                                         *)
(* A semantic payload is a function from the fields of the response to     *)
(* what validation will say of them: "ok", "shape" (a schema violation),   *)
(* "whole" (an error that points at the whole response) or "rule" (a       *)
(* violation that only the context checks find).  A diagnostic is the set  *)
(* of issues <<field, kind>>; its fingerprint is that set.                 *)
(***************************************************************************)
EXTENDS Integers, FiniteSets

CONSTANTS
    Fields,  \* the top-level fields of a semantic response
    Kinds    \* the kinds of issue a response may have

ASSUME FieldsAssumption ==
    IsFiniteSet(Fields) /\ Fields # {} /\ Kinds \subseteq {"shape", "whole", "rule"}

Verdicts == {"ok"} \cup Kinds
Payloads == [Fields -> Verdicts]

(* diagnostic_from_validation_error reports every schema issue at once. *)
SchemaIssues(payload) ==
    {<<f, payload[f]>> : f \in {g \in Fields : payload[g] \in {"shape", "whole"}}}

(* _context_failure_diagnostic: the context is only checked of a body that parsed. *)
ContextIssues(payload) ==
    {<<f, "rule">> : f \in {g \in Fields : payload[g] = "rule"}}

Diagnostic(payload) ==
    IF SchemaIssues(payload) # {} THEN SchemaIssues(payload) ELSE ContextIssues(payload)

IsSchemaFailure(issues) == \E i \in issues : i[2] \in {"shape", "whole"}

(* _minimal_correction_paths: the whole response is never a target. *)
CorrectionPaths(issues) == {i[1] : i \in {j \in issues : j[2] # "whole"}}

(* slots: targets whose replacement is a handle into a catalogue of recorded
   evidence (bind_review_evidence_correction_candidates). *)
NoPlan == [payload |-> [f \in Fields |-> "ok"], issues |-> {}, targets |-> {}, slots |-> {}]

(* build_semantic_correction_plan; a plan without targets is no plan. *)
BuildPlan(payload, issues, grounded) ==
    LET targets == CorrectionPaths(issues)
    IN  IF targets = {} THEN NoPlan
        ELSE [payload |-> payload, issues |-> issues, targets |-> targets,
              slots |-> IF grounded /\ ~IsSchemaFailure(issues) THEN targets ELSE {}]

(* A correction submission gives some targets a value; "handle" is one that
   is not in the catalogue or not of the type the schema wants. *)
Submissions(plan) ==
    UNION {[s -> Verdicts \cup {"handle"}] : s \in (SUBSET plan.targets) \ {{}}}

Refused(plan, submission) == {f \in DOMAIN submission : submission[f] = "handle"}

(* _apply_resolved_correction_values; a free-form sibling of a refused value
   is not applied. *)
Applied(plan, submission) ==
    LET refused == Refused(plan, submission)
        resolved == IF refused # {} /\ plan.slots # plan.targets THEN {}
                    ELSE DOMAIN submission \ refused
    IN  [f \in Fields |-> IF f \in resolved THEN submission[f] ELSE plan.payload[f]]

(* apply_semantic_correction_with_evidence, when a value was refused: what
   was resolved is kept and only the refused slots are asked for again. *)
RecoveryPlan(plan, submission) ==
    LET refused == Refused(plan, submission)
    IN  IF plan.slots = plan.targets /\ refused # DOMAIN submission
        THEN [payload |-> Applied(plan, submission), issues |-> {<<f, "member">> : f \in refused},
              targets |-> refused, slots |-> refused]
        ELSE NoPlan

(* _schema_constraint_rank: from coarse shape to semantic constraint. *)
Rank(kind) == CASE kind = "shape" -> 0 [] kind = "whole" -> 2 [] OTHER -> 1

(* correction_outcome: strict progress without a schema regression.  Every
   issue of a plan overlaps one of its targets. *)
Improved(plan, issues, seen) ==
    LET coarser(i) == /\ i[1] \in plan.targets
                      /\ \A j \in plan.issues : j[1] = i[1] => Rank(i[2]) < Rank(j[2])
    IN  /\ issues \notin seen
        /\ ~(IsSchemaFailure(issues) /\ \E i \in issues : coarser(i))
        /\ ~(plan.issues \subseteq issues)
=============================================================================
