---------------------------- MODULE InvocationStop ----------------------------
(***************************************************************************)
(* One model invocation of OpenClawSubprocessExecutor (execution.py): the  *)
(* worker thread that runs the OpenClaw process, the process, the          *)
(* scheduler thread that claims a user stop through interrupt and          *)
(* interrupt_all, and the lifecycle recorder both threads write to.        *)
(*                                                                         *)
(* The recorder decides the stop reason under its lock, but records the    *)
(* STOPPING phase after releasing it, and the interrupter looks the        *)
(* process up long before it asks for the stop: those are the places where *)
(* the steps below are split.                                              *)
(***************************************************************************)
EXTENDS Naturals, Sequences

CONSTANTS
    UserReasons,   \* the stops the user may ask for, each at most once
    Watchdogs,     \* the stops the worker's own monitors may ask for
    LeaseFaults    \* whether the process lease store can fail

ASSUME ReasonsAssumption ==
    /\ UserReasons \subseteq {"user_interrupt", "user_cancel"}
    /\ Watchdogs \subseteq {"initialization_stall", "provider_stall",
                            "finalization_stall", "run_deadline", "process_failure"}
    /\ LeaseFaults \in BOOLEAN

VARIABLES
    pc,          \* where the worker thread is
    control,     \* where the interrupting thread is
    asked,       \* the stop it is asking for
    unasked,     \* user stops not asked for yet
    process,     \* "none", "alive" or "exited"
    exitCode,
    registered,  \* the process is in _active_processes
    requested,   \* _interrupt_requests holds the session
    lease,       \* the process lease on disk
    reason,      \* lifecycle.stop_reason
    log,         \* lifecycle.transitions
    observed,    \* a terminal response was observed by the monitors
    stalled,     \* the finalization monitor has stalled
    terminateSent, killSent,
    graceOver,   \* the shutdown grace has passed since the stop began
    seen,        \* the stop reason _run_interruptible_process returned
    status,      \* status of the AgentExecutionResult
    why,         \* reason handed to _finalize_lifecycle_result
    outcome      \* what the runner makes of the invocation

processVars == << process, exitCode, registered, lease >>
controlVars == << control, asked, unasked, requested >>
lifecycleVars == << reason, log, observed, stalled, terminateSent, killSent, graceOver >>
resultVars == << seen, status, why, outcome >>

vars == << pc, processVars, controlVars, lifecycleVars, resultVars >>

LivePhases == {"launched", "initializing", "provider_wait", "finalizing"}
StopPhases == {"stopping", "collecting_evidence", "stopped"}
Reasons == {"completed", "initialization_stall", "provider_stall", "finalization_stall",
            "user_interrupt", "user_cancel", "run_deadline", "process_failure",
            "provider_failure", "upstream_incomplete", "invalid_response", "launch_failure"}

(* InvocationLifecycleTransition: the shutdown phases, and only they, have  *)
(* the stop reason.                                                         *)
Transition ==
    [phase : LivePhases, reason : {"none"}] \cup [phase : StopPhases, reason : Reasons]

ExecutionStatuses ==
    {"completed", "process_failed", "provider_failed", "provider_stalled",
     "initialization_stalled", "finalization_stalled", "timed_out",
     "upstream_incomplete", "invalid_response", "launch_failed", "interrupted"}

TypeOK ==
    /\ pc \in {"start", "launched", "running", "awaiting", "leaving", "left", "result",
               "finalize", "collect", "stop", "validate", "end"}
    /\ control \in {"idle", "matched", "claimed", "signalling", "requesting"}
    /\ asked \in UserReasons \cup {"none"} /\ unasked \subseteq UserReasons
    /\ process \in {"none", "alive", "exited"}
    /\ exitCode \in {"none", "zero", "nonzero"}
    /\ {registered, requested, observed, stalled, terminateSent, killSent, graceOver}
          \subseteq BOOLEAN
    /\ lease \in {"none", "held", "released"}
    /\ {reason, seen, why} \subseteq Reasons \cup {"none"}
    /\ log \in Seq(Transition)
    /\ status \in ExecutionStatuses \cup {"none", "raised"}
    /\ outcome \in {"none", "responded", "unusable", "interrupted", "failed"}

Init ==
    /\ pc = "start" /\ control = "idle"
    /\ asked = "none" /\ unasked = UserReasons
    /\ process = "none" /\ exitCode = "none"
    /\ registered = FALSE /\ requested = FALSE /\ lease = "none"
    /\ reason = "none"
    /\ log = << [phase |-> "launched", reason |-> "none"] >>
    /\ observed = FALSE /\ stalled = FALSE
    /\ terminateSent = FALSE /\ killSent = FALSE /\ graceOver = FALSE
    /\ seen = "none" /\ status = "none" /\ why = "none" /\ outcome = "none"
-----------------------------------------------------------------------------
(***************************************************************************)
(* The lifecycle recorder.                                                 *)
(***************************************************************************)

(* transition to a live phase; dropped once a stop reason is decided. *)
Live(phase) ==
    log' = IF reason = "none" THEN Append(log, [phase |-> phase, reason |-> "none"]) ELSE log

StopPhase(phase, r) == log' = Append(log, [phase |-> phase, reason |-> r])

(* _begin_stop by the worker thread, which alone appends after its own      *)
(* claim; a loser only goes on to wait for the process.                     *)
WorkerClaims(r) ==
    /\ reason' = IF reason = "none" THEN r ELSE reason
    /\ IF reason = "none" THEN StopPhase("stopping", r) ELSE UNCHANGED log
-----------------------------------------------------------------------------
(***************************************************************************)
(* The worker thread: _run_interruptible_process.                          *)
(***************************************************************************)
Launch ==
    /\ pc = "start"
    /\ pc' = "launched"
    /\ process' = "alive"
    /\ Live("initializing")
    /\ UNCHANGED << exitCode, registered, lease, controlVars, reason, observed, stalled,
                    terminateSent, killSent, graceOver, resultVars >>

(* The deadline has passed already, or Popen raises OSError. *)
LaunchFails ==
    /\ pc = "start"
    /\ pc' = "finalize"
    /\ \/ status' = "launch_failed" /\ why' = "launch_failure"
       \/ status' = "timed_out" /\ why' = "run_deadline"
    /\ UNCHANGED << processVars, controlVars, lifecycleVars, seen, outcome >>

Register ==
    /\ pc = "launched"
    /\ pc' = "running"
    /\ lease' = "held"
    /\ registered' = TRUE
    /\ UNCHANGED << process, exitCode, controlVars, lifecycleVars, resultVars >>

(* acquire raises, before or after it has published the lease. *)
LeaseFails ==
    /\ LeaseFaults
    /\ pc = "launched"
    /\ pc' = "awaiting"
    /\ lease' \in {"none", "held"}
    /\ WorkerClaims("process_failure")
    /\ terminateSent' = TRUE
    /\ status' = "raised"
    /\ UNCHANGED << process, exitCode, registered, controlVars, observed, stalled, killSent,
                    graceOver, seen, why, outcome >>

(* The process ends by itself or obeys SIGTERM. *)
ProcessExits ==
    /\ process = "alive"
    /\ process' = "exited"
    /\ exitCode' \in {"zero", "nonzero"}
    /\ UNCHANGED << pc, registered, lease, controlVars, lifecycleVars, resultVars >>

(* A poll of the monitors that sees the turn advance. *)
Progress ==
    /\ pc = "running"
    /\ log[Len(log)].phase = "initializing"
    /\ Live("provider_wait")
    /\ UNCHANGED << pc, processVars, controlVars, reason, observed, stalled, terminateSent,
                    killSent, graceOver, resultVars >>

(* Or the terminal response; the recorder may no longer take the phase. *)
TerminalResponse ==
    /\ ~observed
    /\ log[Len(log)].phase \in {"provider_wait", "stopping"}
    /\ observed' = TRUE
    /\ Live("finalizing")
    /\ UNCHANGED << processVars, controlVars, reason, stalled, terminateSent, killSent,
                    graceOver, resultVars >>

ObserveResponse == pc = "running" /\ ~requested /\ TerminalResponse /\ UNCHANGED pc

(* communicate returned: the monitors are read a last time. *)
Collected ==
    /\ pc = "running"
    /\ process = "exited"
    /\ pc' = "leaving"
    /\ \/ TerminalResponse
       \/ UNCHANGED << processVars, controlVars, lifecycleVars, resultVars >>

(* communicate timed out and _interrupt_requests has the session. *)
StopRequested ==
    /\ pc = "running"
    /\ requested
    /\ pc' = "awaiting"
    /\ UNCHANGED << processVars, controlVars, lifecycleVars, resultVars >>

(* It timed out and a monitor or the deadline asks for the stop. *)
WatchdogStops(r) ==
    /\ pc = "running"
    /\ ~requested
    /\ r = "finalization_stall" => observed
    /\ r \in {"initialization_stall", "provider_stall"} => ~observed
    /\ pc' = "awaiting"
    /\ WorkerClaims(r)
    /\ stalled' = (r = "finalization_stall")
    /\ terminateSent' = (terminateSent \/ reason = "none")
    /\ UNCHANGED << processVars, controlVars, observed, killSent, graceOver, resultVars >>

GracePasses ==
    /\ reason # "none" /\ ~graceOver
    /\ graceOver' = TRUE
    /\ UNCHANGED << pc, processVars, controlVars, reason, log, observed, stalled,
                    terminateSent, killSent, resultVars >>

(* Mutant: the worker leaves as soon as it has asked for the stop. *)
AwaitStop_NoWait ==
    /\ pc = "awaiting"
    /\ pc' = "leaving"
    /\ UNCHANGED << processVars, controlVars, lifecycleVars, resultVars >>

(* Mutant: SIGKILL is only sent to a process that took SIGTERM. *)
AwaitStop_NeverKills ==
    /\ pc = "awaiting"
    /\ process = "exited"
    /\ pc' = "leaving"
    /\ UNCHANGED << processVars, controlVars, lifecycleVars, resultVars >>

(* _await_process_stop: the process is reaped, by SIGKILL after the grace. *)
AwaitStop ==
    /\ pc = "awaiting"
    /\ \/ process = "exited" /\ UNCHANGED << process, exitCode, killSent >>
       \/ /\ graceOver
          /\ process' = "exited"
          /\ exitCode' = IF process = "exited" THEN exitCode ELSE "nonzero"
          /\ killSent' = TRUE
    /\ pc' = "leaving"
    /\ UNCHANGED << registered, lease, controlVars, reason, log, observed, stalled,
                    terminateSent, graceOver, resultVars >>

(* The finally block.  Releasing the lease can fail; a lease that was never *)
(* acquired is looked up, and left where it cannot be attributed.           *)
Leave ==
    /\ pc = "leaving"
    /\ registered' = FALSE
    /\ requested' = FALSE
    /\ \/ /\ lease' = IF lease = "held" THEN "released" ELSE lease
          /\ pc' = "left"
          /\ UNCHANGED << status, why >>
       \/ /\ LeaseFaults /\ lease = "held"
          /\ UNCHANGED lease
          /\ \/ pc' = "left" /\ status' = "raised" /\ UNCHANGED why
             \/ pc' = "finalize" /\ status # "raised" /\ status' = "launch_failed"
                                 /\ why' = "launch_failure"
    /\ UNCHANGED << process, exitCode, control, asked, unasked, lifecycleVars, seen, outcome >>

(* The stop reason is read when the method returns; an exception leaves     *)
(* execute instead and becomes a failed invocation.                         *)
ReturnReason ==
    /\ pc = "left"
    /\ seen' = reason
    /\ pc' = IF status = "raised" THEN "end" ELSE "result"
    /\ outcome' = IF status = "raised" THEN "failed" ELSE outcome
    /\ UNCHANGED << processVars, controlVars, lifecycleVars, status, why >>
-----------------------------------------------------------------------------
(***************************************************************************)
(* The result: execute after the process has ended.                        *)
(***************************************************************************)

(* The status and the stop reason execute finds for what the process did. *)
Results ==
    CASE seen \in {"user_interrupt", "user_cancel"} -> {<<"interrupted", seen>>}
      [] seen = "initialization_stall" -> {<<"initialization_stalled", seen>>}
      [] seen = "provider_stall" -> {<<"provider_stalled", seen>>}
      [] seen = "finalization_stall" ->
            {<<"finalization_stalled", seen>>, <<"completed", seen>>,
             <<"provider_failed", "provider_failure">>}
      [] seen = "run_deadline" -> {<<"timed_out", seen>>}
      [] OTHER ->
            IF exitCode = "nonzero"
            THEN {<<"process_failed", "process_failure">>,
                  <<"provider_failed", "provider_failure">>}
                 \cup (IF observed THEN {<<"completed", "process_failure">>} ELSE {})
            ELSE {<<"completed", "completed">>, <<"invalid_response", "invalid_response">>,
                  <<"provider_failed", "provider_failure">>,
                  <<"upstream_incomplete", "upstream_incomplete">>,
                  <<"timed_out", "run_deadline">>, <<"provider_stalled", "provider_stall">>}

BuildResult ==
    /\ pc = "result"
    /\ \E r \in Results : status' = r[1] /\ why' = r[2]
    /\ pc' = "finalize"
    /\ UNCHANGED << processVars, controlVars, lifecycleVars, seen, outcome >>

(* _finalize_lifecycle_result: request_stop, then finalize. *)
FinalizeClaims ==
    /\ pc = "finalize"
    /\ WorkerClaims(why)
    /\ pc' = "collect"
    /\ UNCHANGED << processVars, controlVars, observed, stalled, terminateSent, killSent,
                    graceOver, resultVars >>

FinalizePhase(from, phase, to) ==
    /\ pc = from
    /\ StopPhase(phase, reason)
    /\ pc' = to
    /\ UNCHANGED << processVars, controlVars, reason, observed, stalled, terminateSent,
                    killSent, graceOver, resultVars >>

Finalize ==
    \/ FinalizePhase("collect", "collecting_evidence", "stop")
    \/ FinalizePhase("stop", "stopped", "validate")

(* _ALLOWED_PHASE_SUCCESSORS; provider_wait stands for provider and tool    *)
(* turns alike, initializing for all its checkpoints.                       *)
Successors(phase) ==
    CASE phase = "launched" -> {"initializing", "stopping"}
      [] phase = "initializing" -> {"provider_wait", "stopping"}
      [] phase = "provider_wait" -> {"finalizing", "stopping"}
      [] phase = "finalizing" -> {"stopping"}
      [] phase = "stopping" -> {"collecting_evidence"}
      [] phase = "collecting_evidence" -> {"stopped"}
      [] OTHER -> {}

Occurs(phase) == {i \in DOMAIN log : log[i].phase = phase}

(* InvocationLifecycleEvidence.validate_lifecycle and                       *)
(* InvocationShutdownEvidence.validate_process_outcome.                     *)
PhasesInOrder ==
    /\ log[Len(log)].phase = "stopped"
    /\ \A i \in 1..(Len(log) - 1) : log[i + 1].phase \in Successors(log[i].phase)
    /\ \A i \in DOMAIN log : log[i].reason \in {"none", reason}

ResponseInPhase == observed <=> Occurs("finalizing") # {}

StallIsReason == stalled <=> reason = "finalization_stall"

EvidenceValid ==
    PhasesInOrder /\ ResponseInPhase /\ StallIsReason /\ (killSent => terminateSent)

(* Mutant: the record does not compare the status with the stop reason. *)
RecordValid_AnyReason == TRUE

(* AgentExecutionRecord: the stop reasons a status may have. *)
RecordValid ==
    reason \in
        CASE status = "completed" -> {"completed", "finalization_stall", "process_failure"}
          [] status = "process_failed" -> {"process_failure"}
          [] status = "provider_failed" -> {"provider_failure"}
          [] status = "provider_stalled" -> {"provider_stall"}
          [] status = "initialization_stalled" -> {"initialization_stall"}
          [] status = "finalization_stalled" -> {"finalization_stall"}
          [] status = "timed_out" -> {"run_deadline"}
          [] status = "upstream_incomplete" -> {"upstream_incomplete"}
          [] status = "invalid_response" -> {"invalid_response"}
          [] status = "launch_failed" -> {"launch_failure"}
          [] OTHER -> {"user_interrupt", "user_cancel"}

(* Evidence that is refused raises, and the runner fails the Agent. *)
Validate ==
    /\ pc = "validate"
    /\ pc' = "end"
    /\ outcome' = IF ~EvidenceValid \/ ~RecordValid THEN "failed"
                  ELSE IF status = "completed" THEN "responded"
                  ELSE IF status = "interrupted" THEN "interrupted"
                  ELSE "unusable"
    /\ UNCHANGED << processVars, controlVars, lifecycleVars, seen, status, why >>
-----------------------------------------------------------------------------
(***************************************************************************)
(* The interrupting thread: interrupt, interrupt_all, _claim_interrupts.   *)
(***************************************************************************)

(* The process is looked up under the process lock. *)
Match(r) ==
    /\ control = "idle"
    /\ r \in unasked
    /\ registered /\ process = "alive"
    /\ control' = "matched"
    /\ asked' = r
    /\ unasked' = unasked \ {r}
    /\ UNCHANGED << pc, processVars, requested, lifecycleVars, resultVars >>

(* request_stop: the first to ask decides the reason. *)
ClaimStop ==
    /\ control = "matched"
    /\ IF reason = "none"
       THEN reason' = asked /\ control' = "claimed"
       ELSE control' = "idle" /\ UNCHANGED reason
    /\ UNCHANGED << pc, processVars, asked, unasked, requested, log, observed, stalled,
                    terminateSent, killSent, graceOver, resultVars >>

RecordStopping ==
    /\ control = "claimed"
    /\ control' = "signalling"
    /\ StopPhase("stopping", asked)
    /\ UNCHANGED << pc, processVars, asked, unasked, requested, reason, observed, stalled,
                    terminateSent, killSent, graceOver, resultVars >>

SignalProcess ==
    /\ control = "signalling"
    /\ control' = "requesting"
    /\ terminateSent' = TRUE
    /\ UNCHANGED << pc, processVars, asked, unasked, requested, reason, log, observed,
                    stalled, killSent, graceOver, resultVars >>

RequestInterrupt ==
    /\ control = "requesting"
    /\ control' = "idle"
    /\ requested' = registered
    /\ UNCHANGED << pc, processVars, asked, unasked, lifecycleVars, resultVars >>
-----------------------------------------------------------------------------
Worker ==
    \/ Launch \/ LaunchFails \/ Register \/ LeaseFails
    \/ Progress \/ ObserveResponse \/ Collected \/ StopRequested
    \/ \E r \in Watchdogs : WatchdogStops(r)
    \/ AwaitStop \/ Leave \/ ReturnReason
    \/ BuildResult \/ FinalizeClaims \/ Finalize \/ Validate

Claims == ClaimStop \/ RecordStopping \/ SignalProcess \/ RequestInterrupt

Done == pc = "end" /\ control = "idle" /\ UNCHANGED vars

Next ==
    \/ Worker
    \/ ProcessExits
    \/ GracePasses
    \/ \E r \in UserReasons : Match(r)
    \/ Claims
    \/ Done

Spec == Init /\ [][Next]_vars

(* Threads go on and time passes; nothing is assumed of the process, nor of *)
(* a user who may never ask for a stop.                                     *)
FairSpec ==
    /\ Spec
    /\ WF_vars(AwaitStop) /\ WF_vars(StopRequested) /\ WF_vars(Collected)
    /\ WF_vars(Leave) /\ WF_vars(ReturnReason) /\ WF_vars(BuildResult)
    /\ WF_vars(FinalizeClaims) /\ WF_vars(Finalize) /\ WF_vars(Validate)
    /\ WF_vars(GracePasses) /\ WF_vars(Claims)
-----------------------------------------------------------------------------
(***************************************************************************)
(* Properties.                                                             *)
(***************************************************************************)

(* The stop authority as the scheduler sees it. *)
ContractState ==
    CASE outcome # "none" -> outcome
      [] outcome = "none" /\ reason \in {"user_interrupt", "user_cancel"} -> "stopping"
      [] outcome = "none" /\ reason \notin {"user_interrupt", "user_cancel", "none"} ->
            "collecting"
      [] OTHER -> IF process = "none" THEN "launching" ELSE "running"

Contract == INSTANCE InvocationContract WITH state <- ContractState

(* The adapter keeps the contract of an invocation: one stop authority, and *)
(* no response from an invocation that a user stop has won, even when the   *)
(* claim comes after the process has ended.                                 *)
KeepsContract == Contract!Spec

(* The lease of a process is released only after the process is reaped, so  *)
(* that a live process is always found by recovery                          *)
(* (_run_interruptible_process, except and finally clauses).                *)
LeaseOutlivesProcess == lease = "released" => process = "exited"

(* Whoever asked first, a decided stop ends the process within the grace    *)
(* and the invocation after it, also when the process ignores SIGTERM.      *)
StopEndsInvocation == (reason # "none") ~> (process # "alive" /\ outcome # "none")
=============================================================================
