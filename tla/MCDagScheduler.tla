---------------------------- MODULE MCDagScheduler ----------------------------
(***************************************************************************)
(* Two independent writers, then a Testing and a Review Agent, under every *)
(* kind of run control.                                                    *)
(***************************************************************************)
EXTENDS DagScheduler

MCAgents == 1..4
MCCapability == <<"implementation", "integration", "testing", "review">>
MCDependencies == <<{}, {}, {1, 2}, {1, 2}>>

Run(kind) == [kind |-> kind, agent |-> 0, scope |-> "run"]
Interrupt(a) == [kind |-> "interrupt", agent |-> a, scope |-> "agent"]
GuideScope(s) == [kind |-> "guide", agent |-> 0, scope |-> s]

MCRequests ==
    {Run("cancel"), Run("correct"), Run("pause"), Run("resume"),
     Interrupt(2), GuideScope("verifying")}
=============================================================================
