-------------------------- MODULE InvocationContract --------------------------
(***************************************************************************)
(* What one model invocation promises the scheduler, whoever stops it and  *)
(* whenever: the stop authority is decided once, between the user and the  *)
(* execution adapter; an invocation the user has won never yields a        *)
(* response; and every invocation ends.  DagScheduler's worker threads     *)
(* rely on this between their states "launching" and "collecting".         *)
(***************************************************************************)
VARIABLE state

States == {"launching", "running", "collecting", "stopping",
           "responded", "unusable", "interrupted", "failed"}

Ended == {"responded", "unusable", "interrupted", "failed"}

Init == state = "launching"

Move(from, to) == state \in from /\ state' \in to

Next ==
    \/ Move({"launching"}, {"running", "collecting", "failed"})
    \/ Move({"running"}, {"collecting", "stopping", "failed"})
    \/ Move({"collecting"}, {"responded", "unusable", "failed"})
    \/ Move({"stopping"}, {"interrupted", "failed"})

Spec == Init /\ [][Next]_state
=============================================================================
