------------------------------ MODULE MCWorkflow ------------------------------
(***************************************************************************)
(* Small instances of the two workflows over their stores.                 *)
(***************************************************************************)
EXTENDS FixedWorkflow

TeamAgents == {"w1", "t1", "t2", "r1"} \cup Roles
OneWriter == <<"w1">>

(* Two commands that share a criterion, one criterion of both kinds of
   evidence and one that only a Review Agent looks at. *)
MCCovers == [k \in {"k1", "k2"} |-> IF k = "k1" THEN {"c1", "c2"} ELSE {"c2"}]
=============================================================================
