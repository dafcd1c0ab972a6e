---------------------------- MODULE MCBudgetLedger ----------------------------
(***************************************************************************)
(* A small instance of BudgetLedger, opened for a user task or for a       *)
(* controlled evaluation.                                                  *)
(***************************************************************************)
EXTENDS BudgetLedger

MCRoutes == {"paid", "free", "unpriced"}
MCPricing ==
    [r \in MCRoutes |->
        CASE r = "paid" -> [kind |-> "known", rate |-> 1, bound |-> 2]
          [] r = "free" -> [kind |-> "confirmed_zero", rate |-> 0, bound |-> 0]
          [] OTHER -> [kind |-> "none", rate |-> 0, bound |-> 0]]

(* One paid call can cost more than the ceiling, or an unknown amount. *)
MCReports ==
    {[input |-> i, output |-> 1, cache |-> 0, duration |-> 1] : i \in {0, 2, NoCount}}
        \cup {[input |-> 0, output |-> 1, cache |-> 1, duration |-> 1]}

MCLimits == [m \in Meters |-> IF m = "input" THEN 3 ELSE 2]
=============================================================================
