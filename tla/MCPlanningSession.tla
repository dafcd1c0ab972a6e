-------------------------- MODULE MCPlanningSession --------------------------
(***************************************************************************)
(* Two change requests or edits, one fallback route, no repair limit.      *)
(***************************************************************************)
EXTENDS PlanningSession

NoLimit == -1
TwoChanges == <<"c1", "c2">>
=============================================================================
