--------------------------- MODULE MCInvocationStop ---------------------------
(***************************************************************************)
(* InvocationStop with every stop reason, and with some of them.           *)
(***************************************************************************)
EXTENDS InvocationStop

BothUserReasons == {"user_interrupt", "user_cancel"}
AllWatchdogs == {"initialization_stall", "provider_stall", "finalization_stall",
                 "run_deadline", "process_failure"}
=============================================================================
