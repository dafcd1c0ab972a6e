---------------------------- MODULE MCAgentRunner ----------------------------
(***************************************************************************)
(* A writer and an integrator, then two read-only Agents that share the    *)
(* quality evidence; the tester's body has no field that can fail.         *)
(***************************************************************************)
EXTENDS AgentRunner

WriterThenIntegrator == <<"w1", "i1">>
Unlimited == -1
ReviewHasTwoFields == [a \in Agents |-> CASE a = "r1" -> Fields [] a = "t1" -> {} [] OTHER -> {"f1"}]
OneFallback == [a \in Agents |-> IF a = "w1" THEN 2 ELSE 1]
=============================================================================
