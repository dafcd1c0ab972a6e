------------------------- MODULE InvocationStopProofs -------------------------
(***************************************************************************)
(* The execution adapter keeps the contract of an invocation, whichever    *)
(* stops the user and the watchdogs may ask for and whether or not the     *)
(* lease store fails.                                                      *)
(***************************************************************************)
EXTENDS InvocationStop, SessionMonitors, TLAPS, SequenceTheorems

(***************************************************************************)
(* The inductive invariant: where the worker is tells what is known of the *)
(* process, of the result and of the stop reason.                          *)
(***************************************************************************)

(* The worker reaches its finally block with a reaped process only. *)
LeavesAfterReaping ==
    /\ pc \in {"start", "launched"} => lease = "none"
    /\ pc = "leaving" => process = "exited"
    /\ lease = "released" => process = "exited"

(* A user stop is only ever asked of an invocation that has a process, and *)
(* names its reason.                                                       *)
MatchedHasProcess == control # "idle" => process # "none" /\ asked \in UserReasons

(* A result with a status is on its way, under a decided stop reason from   *)
(* the moment it is finalized.                                              *)
ResultInOrder ==
    /\ outcome # "none" => pc = "end"
    /\ seen # "none" => reason = seen
    /\ pc \in {"finalize", "collect", "stop", "validate"} => status \in ExecutionStatuses
    /\ pc = "finalize" => why \in Reasons
    /\ (pc = "finalize" /\ why \in {"user_interrupt", "user_cancel"}) => reason # "none"
    /\ pc \in {"collect", "stop", "validate"} => reason # "none"

IInv == TypeOK /\ LeavesAfterReaping /\ MatchedHasProcess /\ ResultInOrder

-----------------------------------------------------------------------------
(* Every status and reason execute finds is one of the declared ones, and a *)
(* user stop is found only where it was decided.                            *)
LEMMA ResultsType ==
    ASSUME TypeOK, NEW r \in Results
    PROVE  /\ r[1] \in ExecutionStatuses /\ r[2] \in Reasons
           /\ r[2] \in {"user_interrupt", "user_cancel"} => r[2] = seen
  <1> USE DEF ExecutionStatuses, Reasons
  <1>1. CASE seen \in {"user_interrupt", "user_cancel"}
    BY <1>1 DEF Results
  <1>2. CASE seen \in {"initialization_stall", "provider_stall", "run_deadline"}
    BY <1>2 DEF Results
  <1>3. CASE seen = "finalization_stall"
    BY <1>3 DEF Results
  <1>4. CASE seen \notin {"user_interrupt", "user_cancel", "initialization_stall",
                          "provider_stall", "run_deadline", "finalization_stall"}
    BY <1>4 DEF Results
  <1>5. QED BY <1>1, <1>2, <1>3, <1>4

(* An invocation starts with nothing launched and nothing decided. *)
LEMMA InitInv == Init => IInv
  <1> SUFFICES ASSUME Init PROVE IInv
    OBVIOUS
  <1>1. log \in Seq(Transition)
    BY DEF Init, LivePhases, Transition
  <1>2. {registered, requested, observed, stalled, terminateSent, killSent, graceOver}
           \subseteq BOOLEAN
    BY Zenon DEF Init
  <1>3. TypeOK
    BY <1>1, <1>2 DEF Init, TypeOK
  <1>4. QED BY <1>3 DEF Init, IInv, LeavesAfterReaping, MatchedHasProcess, ResultInOrder

-----------------------------------------------------------------------------
(* The flags stay Boolean. *)
LEMMA FlagsStep ==
    ASSUME TypeOK, [Next]_vars
    PROVE  ({registered, requested, observed, stalled, terminateSent, killSent, graceOver}
              \subseteq BOOLEAN)'
  <1> USE DEF processVars, controlVars, lifecycleVars, resultVars
  <1>1. /\ registered \in BOOLEAN /\ requested \in BOOLEAN /\ observed \in BOOLEAN
        /\ stalled \in BOOLEAN /\ terminateSent \in BOOLEAN /\ killSent \in BOOLEAN
        /\ graceOver \in BOOLEAN
    BY DEF TypeOK
  <1>2. ASSUME NEW r, WatchdogStops(r)
        PROVE  /\ UNCHANGED << registered, requested, observed, killSent, graceOver >>
               /\ stalled' \in BOOLEAN /\ terminateSent' \in BOOLEAN
    BY <1>2 DEF WatchdogStops
  <1>3. ASSUME ~\E r \in Watchdogs : WatchdogStops(r)
        PROVE  /\ registered' \in {registered, TRUE, FALSE}
               /\ requested' \in {requested, registered, FALSE}
               /\ observed' \in {observed, TRUE} /\ stalled' = stalled
               /\ terminateSent' \in {terminateSent, TRUE}
               /\ killSent' \in {killSent, TRUE} /\ graceOver' \in {graceOver, TRUE}
    BY <1>3, Zenon
       DEF Next, Worker, Launch, LaunchFails, Register, LeaseFails, Progress, ObserveResponse,
           TerminalResponse, Collected, StopRequested, AwaitStop, Leave, ReturnReason,
           BuildResult, FinalizeClaims, Finalize, FinalizePhase, Validate, ProcessExits,
           GracePasses, Match, Claims, ClaimStop, RecordStopping, SignalProcess,
           RequestInterrupt, Done, vars
  <1>4. QED BY <1>1, <1>2, <1>3, Zenon

(* The recorder appends transitions. *)
LEMMA LogStep ==
    ASSUME IInv, [Next]_vars
    PROVE  log' \in Seq(Transition)
  <1> USE DEF processVars, controlVars, lifecycleVars, resultVars
  <1>1. TypeOK /\ \A t \in Transition : Append(log, t) \in Seq(Transition)
    BY AppendProperties DEF IInv, TypeOK
  <1>2. \A phase \in LivePhases : Live(phase) => log' \in Seq(Transition)
    BY <1>1 DEF Live, TypeOK, Transition
  <1>3. \A phase \in StopPhases, r \in Reasons :
           StopPhase(phase, r) => log' \in Seq(Transition)
    BY <1>1 DEF StopPhase, Transition
  <1>4. \A r \in Reasons : WorkerClaims(r) => log' \in Seq(Transition)
    BY <1>1, <1>3 DEF WorkerClaims, StopPhases, TypeOK
  <1>5. log' = log => log' \in Seq(Transition)
    BY <1>1 DEF TypeOK
  <1>6. CASE Launch \/ Progress \/ ObserveResponse \/ Collected
    BY <1>2, <1>5, <1>6 DEF Launch, Progress, ObserveResponse, TerminalResponse, Collected,
                            LivePhases
  <1>7. CASE LeaseFails \/ FinalizeClaims \/ \E r \in Watchdogs : WatchdogStops(r)
    <2>1. pc = "finalize" => why \in Reasons
      BY DEF IInv, ResultInOrder
    <2>2. "process_failure" \in Reasons /\ Watchdogs \subseteq Reasons
      BY ReasonsAssumption DEF Reasons
    <2>3. QED BY <1>4, <1>7, <2>1, <2>2 DEF LeaseFails, FinalizeClaims, WatchdogStops
  <1>8. CASE Finalize
    <2>1. reason \in Reasons
      BY <1>1, <1>8 DEF Finalize, FinalizePhase, IInv, ResultInOrder, TypeOK
    <2>2. QED BY <1>3, <1>8, <2>1 DEF Finalize, FinalizePhase, StopPhases
  <1>9. CASE RecordStopping
    <2>1. asked \in Reasons
      BY <1>9, ReasonsAssumption DEF RecordStopping, IInv, MatchedHasProcess, Reasons
    <2>2. QED BY <1>3, <1>9, <2>1 DEF RecordStopping, StopPhases
  <1>10. CASE \/ UNCHANGED vars \/ Done \/ LaunchFails \/ Register \/ StopRequested
              \/ AwaitStop \/ Leave \/ ReturnReason \/ BuildResult \/ Validate
              \/ ProcessExits \/ GracePasses \/ \E r \in UserReasons : Match(r)
              \/ ClaimStop \/ SignalProcess \/ RequestInterrupt
    BY <1>5, <1>10 DEF vars, Done, LaunchFails, Register, StopRequested, AwaitStop, Leave,
                       ReturnReason, BuildResult, Validate, ProcessExits, GracePasses, Match,
                       ClaimStop, SignalProcess, RequestInterrupt
  <1>11. QED BY <1>6, <1>7, <1>8, <1>9, <1>10 DEF Next, Worker, Claims

(* Launching: nothing is known of a process before it exists. *)
LEMMA LaunchInv ==
    ASSUME IInv, [Next]_vars, Launch \/ LaunchFails \/ Register \/ LeaseFails
    PROVE  IInv'
  <1> USE DEF processVars, controlVars, lifecycleVars, resultVars
  <1>1. TypeOK
    BY DEF IInv
  <1>2. log' \in Seq(Transition)
    BY LogStep
  <1>3. TypeOK'
    BY <1>1, <1>2, FlagsStep DEF Launch, LaunchFails, Register, LeaseFails, WorkerClaims,
                                 TypeOK, ExecutionStatuses, Reasons
  <1>4. LeavesAfterReaping' /\ MatchedHasProcess'
    BY DEF IInv, LeavesAfterReaping, MatchedHasProcess, Launch, LaunchFails, Register,
           LeaseFails
  <1>5. ResultInOrder'
    BY DEF IInv, ResultInOrder, Launch, LaunchFails, Register, LeaseFails, WorkerClaims,
           ExecutionStatuses, Reasons
  <1>6. QED BY <1>3, <1>4, <1>5 DEF IInv

(* Monitoring and stopping the process. *)
LEMMA MonitorInv ==
    ASSUME IInv, [Next]_vars,
           \/ Progress \/ ObserveResponse \/ Collected \/ StopRequested \/ AwaitStop
           \/ ProcessExits \/ GracePasses
           \/ \E r \in Watchdogs : WatchdogStops(r)
    PROVE  IInv'
  <1> USE DEF processVars, controlVars, lifecycleVars, resultVars
  <1>1. TypeOK
    BY DEF IInv
  <1>2. \A r \in Watchdogs : r \in Reasons
    BY ReasonsAssumption DEF Reasons
  <1>3. log' \in Seq(Transition)
    BY LogStep
  <1>4. TypeOK'
    BY <1>1, <1>2, <1>3, FlagsStep
       DEF Progress, ObserveResponse, TerminalResponse, Collected, StopRequested, AwaitStop,
           ProcessExits, GracePasses, WatchdogStops, WorkerClaims, TypeOK
  <1>5. LeavesAfterReaping' /\ MatchedHasProcess'
    BY DEF IInv, LeavesAfterReaping, MatchedHasProcess, Progress, ObserveResponse,
           TerminalResponse, Collected, StopRequested, AwaitStop, ProcessExits, GracePasses,
           WatchdogStops
  <1>6. ResultInOrder'
    BY DEF IInv, ResultInOrder, Progress, ObserveResponse, TerminalResponse, Collected,
           StopRequested, AwaitStop, ProcessExits, GracePasses, WatchdogStops, WorkerClaims
  <1>7. QED BY <1>4, <1>5, <1>6 DEF IInv

(* Leaving, and the result of what the process did. *)
LEMMA ResultInv ==
    ASSUME IInv, [Next]_vars,
           \/ Leave \/ ReturnReason \/ BuildResult \/ FinalizeClaims \/ Finalize \/ Validate
    PROVE  IInv'
  <1> USE DEF processVars, controlVars, lifecycleVars, resultVars
  <1>1. TypeOK
    BY DEF IInv
  <1>2. log' \in Seq(Transition)
    BY LogStep
  <1>3. CASE BuildResult
    <2>1. PICK r \in Results : status' = r[1] /\ why' = r[2]
      BY <1>3 DEF BuildResult
    <2>2. /\ status' \in ExecutionStatuses /\ why' \in Reasons
          /\ why' \in {"user_interrupt", "user_cancel"} => why' = seen
      BY <1>1, <2>1, ResultsType
    <2>3. TypeOK'
      BY <1>1, <1>3, <2>2, FlagsStep DEF BuildResult, TypeOK
    <2>4. QED BY <1>3, <2>2, <2>3 DEF IInv, LeavesAfterReaping, MatchedHasProcess,
                                      ResultInOrder, BuildResult, Reasons
  <1>4. CASE Leave \/ ReturnReason
    <2>1. TypeOK'
      BY <1>1, <1>4, FlagsStep DEF Leave, ReturnReason, TypeOK, ExecutionStatuses, Reasons
    <2>2. QED BY <1>4, <2>1 DEF IInv, LeavesAfterReaping, MatchedHasProcess, ResultInOrder,
                                Leave, ReturnReason, ExecutionStatuses, Reasons
  <1>5. CASE FinalizeClaims \/ Finalize \/ Validate
    <2>1. TypeOK'
      BY <1>1, <1>2, <1>5, FlagsStep
         DEF FinalizeClaims, Finalize, FinalizePhase, Validate, WorkerClaims, TypeOK
    <2>2. QED BY <1>5, <2>1 DEF IInv, LeavesAfterReaping, MatchedHasProcess, ResultInOrder,
                                FinalizeClaims, Finalize, FinalizePhase, Validate,
                                WorkerClaims, Reasons
  <1>6. QED BY <1>3, <1>4, <1>5

(* The interrupting thread. *)
LEMMA ControlInv ==
    ASSUME IInv, [Next]_vars, Claims \/ \E r \in UserReasons : Match(r)
    PROVE  IInv'
  <1> USE DEF processVars, controlVars, lifecycleVars, resultVars
  <1>1. TypeOK
    BY DEF IInv
  <1>2. asked \in Reasons \cup {"none"} /\ asked' \in UserReasons \cup {"none"}
    BY <1>1, ReasonsAssumption DEF TypeOK, Reasons, Claims, ClaimStop, RecordStopping,
                                   SignalProcess, RequestInterrupt, Match
  <1>3. log' \in Seq(Transition)
    BY LogStep
  <1>4. TypeOK'
    BY <1>1, <1>2, <1>3, FlagsStep DEF Claims, ClaimStop, RecordStopping, SignalProcess,
                                       RequestInterrupt, Match, TypeOK
  <1>5. LeavesAfterReaping' /\ MatchedHasProcess' /\ ResultInOrder'
    BY DEF IInv, LeavesAfterReaping, MatchedHasProcess, ResultInOrder, Claims, ClaimStop,
           RecordStopping, SignalProcess, RequestInterrupt, Match
  <1>6. QED BY <1>4, <1>5 DEF IInv

(* Every step keeps the invariant. *)
LEMMA NextInv == IInv /\ [Next]_vars => IInv'
  <1> SUFFICES ASSUME IInv, [Next]_vars PROVE IInv'
    OBVIOUS
  <1>1. CASE UNCHANGED vars \/ Done
    BY <1>1 DEF vars, Done, processVars, controlVars, lifecycleVars, resultVars, IInv,
                TypeOK, LeavesAfterReaping, MatchedHasProcess, ResultInOrder
  <1>2. CASE Worker \/ ProcessExits \/ GracePasses
    BY <1>2, LaunchInv, MonitorInv, ResultInv DEF Worker
  <1>3. CASE Claims \/ \E r \in UserReasons : Match(r)
    BY <1>3, ControlInv
  <1>4. QED BY <1>1, <1>2, <1>3 DEF Next

-----------------------------------------------------------------------------
(* IInv is an invariant of an invocation. *)
THEOREM InvocationInvariant == Spec => []IInv
  BY InitInv, NextInv, PTL DEF Spec

(* The state of an invocation keeps its type. *)
THEOREM TypeCorrect == Spec => []TypeOK
  <1>1. IInv => TypeOK
    BY DEF IInv
  <1>2. QED BY <1>1, InvocationInvariant, PTL

(* No process outlives its lease: the lease is released after the process   *)
(* is reaped, on every path out of _run_interruptible_process.              *)
THEOREM LeaseIsLast == Spec => []LeaseOutlivesProcess
  <1>1. IInv => LeaseOutlivesProcess
    BY DEF IInv, LeavesAfterReaping, LeaseOutlivesProcess
  <1>2. QED BY <1>1, InvocationInvariant, PTL

(* Every step of the adapter is a step of the contract, or none. *)
LEMMA ContractStep ==
    ASSUME IInv, [Next]_vars
    PROVE  Contract!Next \/ ContractState' = ContractState
  <1> USE DEF processVars, controlVars, lifecycleVars, resultVars
  <1>1. CASE Validate
    <2>1. outcome = "none" /\ reason # "none" /\ status \in ExecutionStatuses
      BY <1>1 DEF Validate, IInv, ResultInOrder
    <2>2. CASE reason \in {"user_interrupt", "user_cancel"}
      <3>1. ContractState = "stopping"
        BY <2>1, <2>2 DEF ContractState
      <3>2. RecordValid => status = "interrupted"
        BY <2>1, <2>2 DEF RecordValid, ExecutionStatuses
      <3>3. outcome' \in {"failed", "interrupted"}
        BY <1>1, <3>2 DEF Validate
      <3>4. ContractState' = outcome'
        BY <3>3 DEF ContractState
      <3>5. QED BY <3>1, <3>3, <3>4 DEF Contract!Next, Contract!Move
    <2>3. CASE reason \notin {"user_interrupt", "user_cancel"}
      <3>1. ContractState = "collecting"
        BY <2>1, <2>3 DEF ContractState
      <3>2. RecordValid => status # "interrupted"
        BY <2>1, <2>3 DEF RecordValid, ExecutionStatuses
      <3>3. outcome' \in {"responded", "unusable", "failed"}
        BY <1>1, <3>2 DEF Validate
      <3>4. ContractState' = outcome'
        BY <3>3 DEF ContractState
      <3>5. QED BY <3>1, <3>3, <3>4 DEF Contract!Next, Contract!Move
    <2>4. QED BY <2>2, <2>3
  <1>2. CASE ReturnReason
    <2>1. outcome = "none" /\ outcome' \in {"none", "failed"} /\ UNCHANGED << reason, process >>
      BY <1>2 DEF ReturnReason, IInv, ResultInOrder
    <2>2. CASE outcome' = "failed"
      BY <2>1, <2>2 DEF ContractState, Contract!Next, Contract!Move
    <2>3. CASE outcome' = "none"
      BY <2>1, <2>3 DEF ContractState
    <2>4. QED BY <2>1, <2>2, <2>3
  <1>3. CASE FinalizeClaims \/ LeaseFails \/ \E r \in Watchdogs : WatchdogStops(r)
    <2>1. outcome = "none" /\ outcome' = "none" /\ process' = process
      BY <1>3 DEF FinalizeClaims, LeaseFails, WatchdogStops, IInv, ResultInOrder
    <2>2. \/ reason' = reason
          \/ reason = "none" /\ reason' \notin {"none", "user_interrupt", "user_cancel"}
      BY <1>3, ReasonsAssumption DEF FinalizeClaims, LeaseFails, WatchdogStops, WorkerClaims,
                                     IInv, ResultInOrder, Reasons
    <2>3. QED BY <2>1, <2>2 DEF ContractState, Contract!Next, Contract!Move
  <1>4. CASE ClaimStop
    <2>1. process # "none" /\ process' = process /\ outcome' = outcome
      BY <1>4 DEF ClaimStop, IInv, MatchedHasProcess
    <2>2. \/ reason' = reason
          \/ reason = "none" /\ reason' \in UserReasons \cup {"none"}
      BY <1>4 DEF ClaimStop, IInv, TypeOK
    <2>3. QED BY <2>1, <2>2, ReasonsAssumption
              DEF ContractState, Contract!Next, Contract!Move
  <1>5. CASE Launch \/ ProcessExits \/ AwaitStop
    <2>1. UNCHANGED << outcome, reason >> /\ process' # "none"
      BY <1>5 DEF Launch, ProcessExits, AwaitStop
    <2>2. QED BY <2>1 DEF ContractState, Contract!Next, Contract!Move
  <1>6. CASE \/ UNCHANGED vars \/ Done \/ LaunchFails \/ Register \/ Progress
             \/ ObserveResponse \/ Collected \/ StopRequested \/ Leave \/ BuildResult
             \/ Finalize \/ GracePasses \/ \E r \in UserReasons : Match(r)
             \/ RecordStopping \/ SignalProcess \/ RequestInterrupt
    <2>1. UNCHANGED << outcome, reason, process >>
      BY <1>6 DEF vars, Done, LaunchFails, Register, Progress, ObserveResponse,
                  TerminalResponse, Collected, StopRequested, Leave, BuildResult, Finalize,
                  FinalizePhase, GracePasses, Match, RecordStopping, SignalProcess,
                  RequestInterrupt
    <2>2. QED BY <2>1 DEF ContractState
  <1>7. QED BY <1>1, <1>2, <1>3, <1>4, <1>5, <1>6 DEF Next, Worker, Claims

(* The adapter implements the contract the scheduler relies on: the stop    *)
(* authority is decided once, and an invocation that a user stop has won    *)
(* yields no response.                                                      *)
THEOREM AdapterKeepsContract == Spec => KeepsContract
  <1>1. Init => Contract!Init
    BY DEF Init, Contract!Init, ContractState
  <1>2. IInv /\ [Next]_vars => [Contract!Next]_ContractState
    BY ContractStep
  <1>3. QED BY <1>1, <1>2, InvocationInvariant, PTL DEF Spec, KeepsContract, Contract!Spec


-----------------------------------------------------------------------------
(***************************************************************************)
(* The watchdogs whose stops the adapter claims: SessionMonitors.  The     *)
(* inductive invariant relates the three monitors to the turn in the       *)
(* session and to the stop reason: the validators read evidence that was   *)
(* collected over many polls, and only the order of the checks of one poll *)
(* keeps it consistent.                                                    *)
(***************************************************************************)

(* The types of the session and of the monitors; what a monitor copies from the
   transcript is left open. *)
Store == [at : Launched..Header, sid : {"none", "old", "new"}, old : BOOLEAN, turn : BOOLEAN,
          records : Seq(RecordKinds), half : BOOLEAN, torn : {"no", "index", "successor"}]
IsProvider(m) ==
    m \in [lease : {"none", "current_turn", "provider_stream"}, age : {m.age}, long : BOOLEAN, observed : BOOLEAN,
           progress : {m.progress}, started : {m.started}, completed : {m.completed}, active : {m.active},
           repeating : {m.repeating}, suspected : BOOLEAN, suspicions : BOOLEAN, stalled : BOOLEAN,
           terminal : BOOLEAN, degraded : BOOLEAN, torn : BOOLEAN, since : {m.since}, report : BOOLEAN]

Initializing == [points : Seq(Launched..ProviderStream), age : Nat, suspected : BOOLEAN, ready : BOOLEAN,
                 stalled : BOOLEAN, degraded : BOOLEAN]
Finalizing == [terminal : BOOLEAN, age : Nat, suspected : BOOLEAN, stalled : BOOLEAN]

(* The session and the baseline. *)
SessionFits ==
    /\ store \in Store /\ base.at \in 0..CurrentTurn /\ file \in BOOLEAN
    /\ store.old => /\ store.at = Header /\ base = [at |-> CurrentTurn, sid |-> "old", matches |-> 1]
                    /\ ~store.turn => store.sid = "old"
    /\ stream => store.turn

(* The checkpoints are in order, and the current turn makes ready. *)
InitOf(m, turn) ==
    /\ m \in Initializing /\ m.points # << >>
    /\ \A i, j \in DOMAIN m.points : i < j => m.points[i] < m.points[j]
    /\ Position(m.points, CurrentTurn) => turn /\ m.ready
    /\ m.stalled => ~m.degraded /\ ~m.ready

(* The lease and what was seen of the turn. *)
ProvOf(m, turn) ==
    /\ IsProvider(m)
    /\ m.observed \/ m.terminal \/ m.lease = "current_turn" => turn
    /\ m.suspicions \/ m.stalled \/ m.long => m.lease # "none"

(* While it is watched nothing has stalled. *)
Watching == step \in {"wait", "poll"} =>
    /\ ~prov.stalled /\ ~init.stalled /\ ~fin.stalled /\ stop \in {"none", "user_interrupt"}
    /\ init.ready \/ init.degraded \/ init.age < Limit

(* A stall of the provider that could be reported is neither degraded nor
   terminal, and is the reason of the stop. *)
Stopping == step # "done" =>
    /\ result = NoResult
    /\ prov.stalled /\ prov.report => ~prov.degraded /\ ~prov.terminal /\ stop \in {"provider_stall", "user_interrupt"}

(* A stop for a stall has its stall. *)
ReasonsFit ==
    /\ stop = "provider_stall" => prov.stalled
    /\ stop = "initialization_stall" => init.stalled
    /\ step \in {"result", "done"} => found = stop

(* The last part of OnlyThisTurn. *)
Completed ==
    result.status = "completed" =>
        /\ store.turn /\ file
        /\ \E i \in Succeeded(store) : \A j \in Indices(store, CallKinds) : j <= i

(* The inductive invariant. *)
SInv ==
    /\ SessionFits /\ InitOf(init, store.turn) /\ ProvOf(prov, store.turn)
    /\ fin \in Finalizing /\ (fin.terminal => prov.terminal)
    /\ Watching /\ Stopping /\ ReasonsFit
    /\ Completed /\ WatchdogResultAccepted

(* inspect_openclaw_initialization reports a current turn only of this invocation:
   an inherited one is in the baseline, under the same session id. *)
LEMMA OnlyNewTurn ==
    ASSUME SessionFits
    PROVE  /\ Checkpoint(store) \in Launched..CurrentTurn
           /\ Initialization(store, base) \in 0..CurrentTurn
           /\ Initialization(store, base) = CurrentTurn => store.turn
<1>1. store.at \in 1..5 /\ store.old \in BOOLEAN /\ store.turn \in BOOLEAN
  BY DEF SessionFits, Store, Launched, Header
<1>2. Checkpoint(store) \in 1..6
  BY <1>1 DEF Checkpoint, Bound, CurrentTurn
<1>3. Initialization(store, base) \in 0..6
  BY <1>2 DEF Initialization
<1>4. ASSUME Initialization(store, base) = CurrentTurn, ~store.turn PROVE FALSE
  <2>1. Checkpoint(store) = 6 /\ IsNew(store, base)
    BY <1>4 DEF Initialization, CurrentTurn
  <2>2. store.old /\ Matches(store) = 1
    BY <1>1, <1>4, <2>1 DEF Checkpoint, Matches, Bound
  <2>3. base.at = 6 /\ base.matches = 1 /\ store.sid = base.sid
    BY <1>4, <2>2 DEF SessionFits, CurrentTurn
  <2>4. QED BY <2>1, <2>2, <2>3 DEF IsNew, CurrentTurn
<1>5. QED BY <1>2, <1>3, <1>4 DEF Launched, CurrentTurn

(* What the provider monitor reads is this invocation's turn. *)
LEMMA ReadableTurn ==
    ASSUME SessionFits, ActivityReady(store, base)
    PROVE  store.turn
  BY OnlyNewTurn DEF ActivityReady

(* The checkpoints an advance adds: past the last one, in order, up to its own. *)
LEMMA ImpliedPoints ==
    ASSUME NEW last \in 1..7, NEW p \in 1..7, last < p, base.at \in 0..6
    PROVE  LET implied == IF p = ProviderStream \/ p <= base.at THEN << p >>
                          ELSE Range1(IF last < base.at THEN base.at ELSE last, p)
           IN  /\ implied \in Seq(1..7) /\ implied # << >>
               /\ \A i \in DOMAIN implied : last < implied[i] /\ implied[i] <= p
               /\ \A i, j \in DOMAIN implied : i < j => implied[i] < implied[j]
               /\ p = 7 => \A i \in DOMAIN implied : implied[i] = 7
<1>1. CASE p = ProviderStream \/ p <= base.at
  <2>1. << p >> \in Seq(1..7) /\ DOMAIN << p >> = {1} /\ << p >>[1] = p /\ << p >> # << >>
    OBVIOUS
  <2> DEFINE one == << p >>
  <2> HIDE DEF one
  <2>2. one \in Seq(1..7) /\ DOMAIN one = {1} /\ one[1] = p /\ one # << >>
    BY <2>1 DEF one
  <2> DEFINE implied == IF p = ProviderStream \/ p <= base.at THEN << p >>
                        ELSE Range1(IF last < base.at THEN base.at ELSE last, p)
  <2>3. implied = one
    BY <1>1 DEF one
  <2> HIDE DEF implied
  <2>4. /\ implied \in Seq(1..7) /\ implied # << >>
        /\ \A i \in DOMAIN implied : last < implied[i] /\ implied[i] <= p
        /\ \A i, j \in DOMAIN implied : i < j => implied[i] < implied[j]
        /\ p = 7 => \A i \in DOMAIN implied : implied[i] = 7
    BY <2>2, <2>3
  <2>5. QED BY <2>4 DEF implied
<1>2. CASE ~(p = ProviderStream \/ p <= base.at)
  <2> DEFINE k == IF last < base.at THEN base.at ELSE last
             implied == Range1(k, p)
  <2>1. k \in 1..7 /\ last <= k /\ k < p /\ p # 7
    BY <1>2 DEF ProviderStream
  <2> HIDE DEF k
  <2>2. p - k \in Nat /\ p - k >= 1
    BY <2>1
  <2>3. implied = [i \in 1..(p - k) |-> k + i]
    BY DEF Range1
  <2>4. \A i \in 1..(p - k) : k + i \in 1..7 /\ last < k + i /\ k + i <= p
    BY <2>1, <2>2
  <2>5. implied \in Seq(1..7)
    <3>1. \A i \in 1..(p - k) : implied[i] \in 1..7
      BY <2>3, <2>4
    <3>2. QED BY <2>2, <2>3, <3>1, IsASeq
  <2>6. DOMAIN implied = 1..(p - k) /\ implied # << >>
    BY <2>2, <2>3
  <2>7. \A i, j \in DOMAIN implied : i < j => implied[i] < implied[j]
    BY <2>1, <2>2, <2>3
  <2>8. \A i \in DOMAIN implied : last < implied[i] /\ implied[i] <= p
    BY <2>3, <2>4
  <2> HIDE DEF implied
  <2>9. QED BY <1>2, <2>1, <2>5, <2>6, <2>7, <2>8 DEF k, implied
<1>3. QED BY <1>1, <1>2

(* _advance keeps the checkpoints in order. *)
LEMMA AdvanceFits ==
    ASSUME SessionFits, NEW m, InitOf(m, store.turn), NEW p \in 1..7, p = CurrentTurn => store.turn, ~m.ready, ~m.stalled
    PROVE  /\ InitOf(Advance(m, p), store.turn) /\ ~Advance(m, p).stalled
           /\ m.degraded \/ m.age < Limit => Advance(m, p).degraded \/ Advance(m, p).age < Limit
<1> DEFINE last == Last(m.points)
           implied == IF p = ProviderStream \/ p <= base.at THEN << p >>
                      ELSE Range1(IF last < base.at THEN base.at ELSE last, p)
           r == [m EXCEPT !.points = @ \o implied, !.age = 0, !.suspected = FALSE,
                          !.ready = p \in {CurrentTurn, ProviderStream}]
<1>1. /\ m \in Initializing /\ m.points \in Seq(1..7) /\ m.points # << >> /\ ~Position(m.points, CurrentTurn)
      /\ \A i, j \in DOMAIN m.points : i < j => m.points[i] < m.points[j]
  BY DEF InitOf, Initializing, Launched, ProviderStream
<1>2. Len(m.points) \in Nat \ {0} /\ DOMAIN m.points = 1..Len(m.points) /\ last = m.points[Len(m.points)] /\ last \in 1..7
  BY <1>1 DEF Last
<1>3. base.at \in 0..6
  BY DEF SessionFits, CurrentTurn
<1>4. CASE Position(m.points, p)
  <2>1. Advance(m, p) = m
    BY <1>4 DEF Advance
  <2>2. QED BY <2>1
<1>5. CASE ~Position(m.points, p) /\ p < last
  <2>1. Advance(m, p) = [m EXCEPT !.degraded = TRUE]
    BY <1>5 DEF Advance
  <2>2. QED BY <1>1, <2>1 DEF InitOf, Initializing
<1>6. CASE ~Position(m.points, p) /\ ~(p < last)
  <2>1. Advance(m, p) = r
    BY <1>6 DEF Advance
  <2>2. last < p
    BY <1>2, <1>6 DEF Position
  <2>3. /\ implied \in Seq(1..7) /\ implied # << >>
        /\ \A i \in DOMAIN implied : last < implied[i] /\ implied[i] <= p
        /\ \A i, j \in DOMAIN implied : i < j => implied[i] < implied[j]
        /\ p = 7 => \A i \in DOMAIN implied : implied[i] = 7
    BY <1>2, <1>3, <2>2, ImpliedPoints
  <2> HIDE DEF implied, last
  <2> DEFINE all == m.points \o implied
  <2>4. /\ all \in Seq(1..7) /\ Len(all) = Len(m.points) + Len(implied)
        /\ \A i \in 1..Len(m.points) : all[i] = m.points[i]
        /\ \A i \in (Len(m.points) + 1)..Len(all) : all[i] = implied[i - Len(m.points)]
    BY <1>1, <2>3, ConcatProperties
  <2>5. Len(implied) \in Nat \ {0} /\ DOMAIN implied = 1..Len(implied) /\ DOMAIN all = 1..Len(all)
    BY <2>3, <2>4
  <2> HIDE DEF all
  <2>6. \A i \in 1..Len(m.points) : all[i] = m.points[i] /\ all[i] <= last /\ all[i] # 6
    <3>1. SUFFICES ASSUME NEW i \in 1..Len(m.points)
                   PROVE  all[i] = m.points[i] /\ all[i] <= last /\ all[i] # 6
      OBVIOUS
    <3>2. all[i] = m.points[i] /\ all[i] # 6
      BY <1>1, <1>2, <2>4, <3>1 DEF Position, CurrentTurn
    <3>3. m.points[i] \in 1..7 /\ Len(m.points) \in DOMAIN m.points
      BY <1>1, <1>2
    <3>4. i = Len(m.points) \/ m.points[i] < m.points[Len(m.points)]
      BY <1>1, <1>2, <3>3
    <3>5. QED BY <1>2, <3>2, <3>3, <3>4
  <2>7. \A i \in DOMAIN all : i \notin 1..Len(m.points) =>
            /\ i - Len(m.points) \in DOMAIN implied /\ all[i] = implied[i - Len(m.points)]
            /\ last < all[i] /\ all[i] <= p /\ (p = 7 => all[i] = 7)
    <3>1. SUFFICES ASSUME NEW i \in DOMAIN all, i \notin 1..Len(m.points)
                   PROVE  /\ i - Len(m.points) \in DOMAIN implied /\ all[i] = implied[i - Len(m.points)]
                          /\ last < all[i] /\ all[i] <= p /\ (p = 7 => all[i] = 7)
      OBVIOUS
    <3>2. i \in (Len(m.points) + 1)..Len(all) /\ i - Len(m.points) \in 1..Len(implied)
      BY <1>2, <2>4, <2>5, <3>1
    <3>3. QED BY <2>3, <2>4, <2>5, <3>2
  <2>8. all # << >>
    BY <1>2, <2>4, <2>5
  <2>9. \A i, j \in DOMAIN all : i < j => all[i] < all[j]
    <3>1. SUFFICES ASSUME NEW i \in DOMAIN all, NEW j \in DOMAIN all, i < j PROVE all[i] < all[j]
      OBVIOUS
    <3>2. CASE j \in 1..Len(m.points)
      BY <1>1, <1>2, <2>4, <2>5, <2>6, <3>1, <3>2
    <3>3. CASE j \notin 1..Len(m.points) /\ i \in 1..Len(m.points)
      <4>1. all[i] <= last /\ last < all[j] /\ all[i] \in 1..7 /\ all[j] \in 1..7
        BY <2>4, <2>5, <2>6, <2>7, <3>3
      <4>2. QED BY <1>2, <4>1
    <3>4. CASE j \notin 1..Len(m.points) /\ i \notin 1..Len(m.points)
      <4>1. i - Len(m.points) < j - Len(m.points)
        BY <1>2, <2>5, <3>1
      <4>2. QED BY <2>3, <2>7, <3>4, <4>1
    <3>5. QED BY <3>2, <3>3, <3>4
  <2>10. Position(all, CurrentTurn) => p = 6
    BY <1>2, <2>4, <2>5, <2>6, <2>7 DEF Position, CurrentTurn
  <2>11. r.points = all /\ r.age = 0 /\ r.ready = (p \in {6, 7}) /\ r.stalled = m.stalled /\ r.degraded = m.degraded
    BY <1>1 DEF Initializing, all, CurrentTurn, ProviderStream
  <2>12. r \in Initializing
    <3>1. all \in Seq(Launched..ProviderStream) /\ (p \in {CurrentTurn, ProviderStream}) \in BOOLEAN
      BY <2>4 DEF Launched, ProviderStream
    <3>2. r = [m EXCEPT !.points = all, !.age = 0, !.suspected = FALSE, !.ready = p \in {CurrentTurn, ProviderStream}]
      BY DEF all
    <3>3. QED BY <1>1, <3>1, <3>2 DEF Initializing
  <2> HIDE DEF r
  <2>13. 0 < Limit
    BY LimitsAssumption
  <2>14. QED BY <2>1, <2>8, <2>9, <2>10, <2>11, <2>12, <2>13 DEF InitOf, CurrentTurn
<1>7. QED BY <1>4, <1>5, <1>6

(* A stall of the initialization is decided before it is ready, at its limit. *)
LEMMA JudgeFits ==
    ASSUME NEW m, NEW turn, InitOf(m, turn), ~m.stalled, NEW busy \in BOOLEAN
    PROVE  LET j == Judge(m, busy)
           IN  /\ InitOf(j, turn)
               /\ ~j.stalled => j.ready \/ j.degraded \/ j.age < Limit
               /\ j.stalled => m.age >= Limit /\ ~m.ready /\ ~m.degraded
<1> DEFINE a == IF busy /\ ~m.ready THEN [m EXCEPT !.age = 0, !.suspected = FALSE] ELSE m
           s == IF a.age >= Suspect THEN [a EXCEPT !.suspected = TRUE] ELSE a
           j == Judge(m, busy)
<1>1. m \in Initializing
  BY DEF InitOf
<1>2. /\ a \in Initializing /\ a.points = m.points /\ a.ready = m.ready /\ a.stalled = m.stalled /\ a.degraded = m.degraded
      /\ a.age \in {0, m.age}
  BY <1>1 DEF Initializing
<1>3. InitOf(a, turn)
  BY <1>2 DEF InitOf
<1> HIDE DEF a
<1>4. /\ s \in Initializing /\ s.points = a.points /\ s.ready = a.ready /\ s.stalled = a.stalled
      /\ s.degraded = a.degraded /\ s.age = a.age /\ (s.age >= Suspect => s.suspected)
  BY <1>2 DEF Initializing
<1>5. InitOf(s, turn)
  BY <1>3, <1>4 DEF InitOf
<1> HIDE DEF s
<1>6. j = IF a.ready \/ a.degraded THEN a
          ELSE IF s.suspected /\ s.age >= Limit THEN [s EXCEPT !.stalled = TRUE] ELSE s
  BY DEF Judge, a, s
<1>7. /\ s.age \in Nat /\ m.age \in Nat /\ (s.age >= Limit => s.age >= Suspect) /\ ~(0 >= Limit)
  BY <1>1, <1>4, LimitsAssumption DEF Initializing
<1> HIDE DEF j
<1>8. CASE a.ready \/ a.degraded
  <2>1. j = a
    BY <1>6, <1>8
  <2>2. QED BY <1>2, <1>3, <1>8, <2>1 DEF j
<1>9. CASE ~(a.ready \/ a.degraded) /\ s.age >= Limit
  <2>1. j = [s EXCEPT !.stalled = TRUE]
    BY <1>4, <1>6, <1>7, <1>9
  <2>2. j \in Initializing /\ j.points = s.points /\ j.ready = s.ready /\ j.degraded = s.degraded /\ j.stalled
    BY <1>4, <2>1 DEF Initializing
  <2>3. InitOf(j, turn)
    BY <1>4, <1>5, <1>9, <2>2 DEF InitOf
  <2>4. m.age >= Limit
    BY <1>2, <1>4, <1>7, <1>9
  <2>5. QED BY <1>2, <1>9, <2>2, <2>3, <2>4 DEF j
<1>10. CASE ~(a.ready \/ a.degraded) /\ ~(s.age >= Limit)
  <2>1. j = s /\ s.age < Limit
    BY <1>6, <1>7, <1>10, LimitsAssumption
  <2>2. QED BY <1>2, <1>4, <1>5, <2>1 DEF j
<1>11. QED BY <1>8, <1>9, <1>10 DEF j

(* _InitializationLivenessMonitor.poll *)
LEMMA InitPollFits ==
    ASSUME SessionFits, NEW m, InitOf(m, store.turn), NEW busy \in BOOLEAN
    PROVE  LET i == InitPoll(m, busy)
           IN  /\ InitOf(i, store.turn)
               /\ m.stalled => i = m
               /\ i.stalled \/ i.ready \/ i.degraded \/ i.age < Limit
               /\ ~m.stalled /\ (m.ready \/ m.degraded \/ m.age < Limit) => ~i.stalled
<1> DEFINE i == InitPoll(m, busy)
<1>1. CASE m.ready \/ m.stalled \/ m.degraded
  <2>1. i = m
    BY <1>1 DEF InitPoll
  <2>2. QED BY <1>1, <2>1
<1>2. CASE ~(m.ready \/ m.stalled \/ m.degraded) /\ LineageError(store)
  <2>1. i = [m EXCEPT !.degraded = TRUE]
    BY <1>2 DEF InitPoll
  <2>2. i \in Initializing /\ i.points = m.points /\ i.ready = m.ready /\ i.stalled = m.stalled /\ i.degraded
    BY <2>1 DEF InitOf, Initializing
  <2> HIDE DEF i
  <2>3. InitOf(i, store.turn)
    BY <1>2, <2>2 DEF InitOf
  <2>4. QED BY <1>2, <2>2, <2>3 DEF i
<1>3. CASE ~(m.ready \/ m.stalled \/ m.degraded) /\ ~LineageError(store)
  <2> DEFINE p == Initialization(store, base)
             n == IF p = 0 THEN m ELSE Advance(m, p)
  <2>1. i = Judge(n, busy)
    BY <1>3 DEF InitPoll
  <2>2. p \in 0..6 /\ (p = CurrentTurn => store.turn)
    BY OnlyNewTurn DEF CurrentTurn
  <2> HIDE DEF p
  <2>3. /\ InitOf(n, store.turn) /\ ~n.stalled
        /\ m.degraded \/ m.age < Limit => n.degraded \/ n.age < Limit
    <3>1. CASE p = 0
      BY <1>3, <3>1
    <3>2. CASE p # 0
      <4>1. p \in 1..7
        BY <2>2, <3>2
      <4>2. QED BY <1>3, <2>2, <3>2, <4>1, AdvanceFits
    <3>3. QED BY <3>1, <3>2
  <2> HIDE DEF n
  <2>4. /\ InitOf(Judge(n, busy), store.turn)
        /\ ~Judge(n, busy).stalled => Judge(n, busy).ready \/ Judge(n, busy).degraded \/ Judge(n, busy).age < Limit
        /\ Judge(n, busy).stalled => n.age >= Limit /\ ~n.ready /\ ~n.degraded
    BY <2>3, JudgeFits
  <2>5. n.age \in Nat /\ Limit \in Nat
    BY <2>3, LimitsAssumption DEF InitOf, Initializing
  <2>6. m.age < Limit => ~Judge(n, busy).stalled
    BY <1>3, <2>3, <2>4, <2>5
  <2>7. QED BY <1>3, <2>1, <2>4, <2>6
<1>4. QED BY <1>1, <1>2, <1>3

(* mark_ready *)
LEMMA ReadyFits ==
    ASSUME SessionFits, NEW m, InitOf(m, store.turn), ~m.stalled, NEW p \in 1..7, p = CurrentTurn => store.turn,
           m.ready \/ m.degraded \/ m.age < Limit
    PROVE  LET r == Ready(m, p)
           IN  InitOf(r, store.turn) /\ ~r.stalled /\ (r.ready \/ r.degraded \/ r.age < Limit)
  BY AdvanceFits DEF Ready

(* What a reading leaves of the provider monitor. *)
LEMMA ObservedShape ==
    ASSUME NEW m, IsProvider(m), NEW a, a.terminal \in BOOLEAN
    PROVE  LET n == Observe(m, a)
           IN  /\ IsProvider(n) /\ n.lease # "none" /\ n.stalled = m.stalled /\ n.report = m.report
               /\ (m.terminal => n.terminal) /\ n.suspicions = m.suspicions /\ n.long = m.long
<1> DEFINE held == IF m.lease = "none" THEN "current_turn" ELSE m.lease
           ended == m.terminal \/ a.terminal
           worse == m.degraded \/ a.progress < m.progress \/ a.started < m.started \/ a.completed < m.completed
           n == [m EXCEPT !.observed = TRUE, !.progress = a.progress, !.started = a.started,
                          !.completed = a.completed, !.active = a.active, !.repeating = a.repeating,
                          !.terminal = ended, !.torn = FALSE, !.since = 0, !.lease = held, !.degraded = worse]
<1>1. Observe(m, a) = n
  BY DEF Observe
<1>2. ended \in BOOLEAN /\ worse \in BOOLEAN /\ (m.terminal => ended)
  OBVIOUS
<1>3. held \in {"none", "current_turn", "provider_stream"} /\ held # "none"
  BY DEF IsProvider
<1> HIDE DEF held, ended, worse
<1>4. n.lease = held /\ n.terminal = ended /\ n.stalled = m.stalled /\ n.report = m.report /\ n.suspicions = m.suspicions /\ n.long = m.long
  BY DEF IsProvider
<1>5. IsProvider(n)
  BY <1>2, <1>3 DEF IsProvider
<1> HIDE DEF n
<1>6. QED BY <1>1, <1>2, <1>3, <1>4, <1>5

(* _ProviderLivenessMonitor.poll up to its decision. *)
LEMMA ProviderReadFits ==
    ASSUME SessionFits, NEW m, ProvOf(m, store.turn)
    PROVE  LET r == ProviderRead(m)
           IN  /\ ProvOf(r, store.turn)
               /\ r.stalled = m.stalled /\ r.report = m.report /\ (m.terminal => r.terminal)
<1> DEFINE a == Activity(store)
           readable == ActivityReady(store, base)
           old == [m EXCEPT !.long = @ \/ (m.lease # "none" /\ ~m.terminal /\ m.age >= Limit)]
           n == IF readable THEN Observe(old, a) ELSE Unread(old)
           streamed == stream /\ ~n.repeating
           active == (readable /\ SessionProgress(old, a)) \/ streamed
           r == [n EXCEPT !.lease = IF @ = "none" /\ streamed THEN "provider_stream" ELSE @,
                          !.age = IF active THEN 0 ELSE @,
                          !.suspected = @ /\ ~active]
<1>1. ProviderRead(m) = r
  BY DEF ProviderRead
<1>2. IsProvider(m)
  BY DEF ProvOf
<1>3. /\ IsProvider(old) /\ old.lease = m.lease /\ old.stalled = m.stalled /\ old.report = m.report
      /\ old.terminal = m.terminal /\ old.observed = m.observed /\ old.suspicions = m.suspicions
      /\ old.long => m.long \/ m.lease # "none"
  BY <1>2 DEF IsProvider
<1>4. ProvOf(old, store.turn)
  BY <1>3 DEF ProvOf
<1> HIDE DEF old
<1>5. readable => store.turn
  BY ReadableTurn
<1>6. a.terminal \in BOOLEAN
  BY DEF Activity
<1> HIDE DEF a, readable
<1>9. ProvOf(n, store.turn) /\ n.stalled = old.stalled /\ n.report = old.report /\ (old.terminal => n.terminal)
  <2>1. CASE readable
    <3>1. n = Observe(old, a)
      BY <2>1
    <3>2. /\ IsProvider(n) /\ n.lease # "none" /\ n.stalled = old.stalled /\ n.report = old.report
          /\ (old.terminal => n.terminal) /\ n.suspicions = old.suspicions /\ n.long = old.long
      BY <1>3, <1>6, <3>1, ObservedShape
    <3>3. QED BY <1>5, <2>1, <3>2 DEF ProvOf
  <2>2. CASE ~readable
    <3> DEFINE worse == old.degraded \/ (old.torn /\ old.since >= Recheck)
    <3>1. \/ n = [old EXCEPT !.torn = TRUE, !.degraded = worse]
          \/ n = [old EXCEPT !.degraded = TRUE]
          \/ n = [old EXCEPT !.degraded = worse]
      BY <2>2 DEF Unread
    <3>0. worse \in BOOLEAN
      OBVIOUS
    <3> HIDE DEF worse, n
    <3>2. /\ IsProvider(n) /\ n.lease = old.lease /\ n.stalled = old.stalled /\ n.report = old.report
          /\ n.terminal = old.terminal /\ n.suspicions = old.suspicions /\ n.long = old.long /\ n.observed = old.observed
      <4>1. CASE n = [old EXCEPT !.torn = TRUE, !.degraded = worse]
        BY <1>3, <3>0, <4>1 DEF IsProvider
      <4>2. CASE n = [old EXCEPT !.degraded = TRUE]
        BY <1>3, <4>2 DEF IsProvider
      <4>3. CASE n = [old EXCEPT !.degraded = worse]
        BY <1>3, <3>0, <4>3 DEF IsProvider
      <4>4. QED BY <3>1, <4>1, <4>2, <4>3
    <3>3. QED BY <1>4, <3>2 DEF ProvOf
  <2>3. QED BY <2>1, <2>2
<1> HIDE DEF n
<1>10. IsProvider(n) /\ active \in BOOLEAN
  BY <1>9 DEF ProvOf
<1> HIDE DEF streamed, active
<1>11. /\ IsProvider(r) /\ r.stalled = n.stalled /\ r.report = n.report /\ r.terminal = n.terminal
       /\ r.observed = n.observed /\ r.suspicions = n.suspicions /\ r.long = n.long
       /\ r.lease = n.lease \/ r.lease = "provider_stream"
  <2> DEFINE held == IF n.lease = "none" /\ streamed THEN "provider_stream" ELSE n.lease
             age == IF active THEN 0 ELSE n.age
             doubt == n.suspected /\ ~active
  <2>1. held \in {"none", "current_turn", "provider_stream"} /\ (held = n.lease \/ held = "provider_stream") /\ doubt \in BOOLEAN
    BY <1>10 DEF IsProvider
  <2>2. r = [n EXCEPT !.lease = held, !.age = age, !.suspected = doubt]
    OBVIOUS
  <2> HIDE DEF held, age, doubt, r
  <2>3. IsProvider(r)
    BY <1>10, <2>1, <2>2 DEF IsProvider
  <2>4. /\ r.stalled = n.stalled /\ r.report = n.report /\ r.terminal = n.terminal /\ r.lease = held
        /\ r.observed = n.observed /\ r.suspicions = n.suspicions /\ r.long = n.long
    BY <1>10, <2>2 DEF IsProvider
  <2>5. QED BY <2>1, <2>3, <2>4
<1> HIDE DEF r
<1>12. ProvOf(r, store.turn)
  BY <1>9, <1>11 DEF ProvOf
<1>13. QED BY <1>1, <1>3, <1>9, <1>11, <1>12

(* Its decision: no stall of a monitor that is degraded or has found the answer. *)
LEMMA DecideFits ==
    ASSUME NEW m, NEW turn, ProvOf(m, turn)
    PROVE  LET d == Decide(m)
           IN  /\ ProvOf(d, turn) /\ d.report = m.report /\ d.terminal = m.terminal /\ d.lease = m.lease
               /\ d.stalled => m.stalled \/ (~d.degraded /\ ~d.terminal)
<1> DEFINE s == IF m.age >= Suspect THEN [m EXCEPT !.suspected = TRUE, !.suspicions = TRUE] ELSE m
           d == Decide(m)
<1>1. \/ d = m
      \/ ~(m.degraded \/ m.torn \/ m.terminal \/ m.lease = "none") /\ (d = [s EXCEPT !.stalled = TRUE] \/ d = s)
  BY DEF Decide
<1>2. IsProvider(m)
  BY DEF ProvOf
<1>3. /\ IsProvider(s) /\ s.lease = m.lease /\ s.report = m.report /\ s.terminal = m.terminal
      /\ s.observed = m.observed /\ s.stalled = m.stalled /\ s.degraded = m.degraded
  <2>1. CASE m.age >= Suspect
    <3>1. s = [m EXCEPT !.suspected = TRUE, !.suspicions = TRUE]
      BY <2>1
    <3> HIDE DEF s
    <3>2. IsProvider(s)
      BY <1>2, <3>1 DEF IsProvider
    <3>3. QED BY <1>2, <3>1, <3>2 DEF IsProvider
  <2>2. CASE ~(m.age >= Suspect)
    BY <1>2, <2>2
  <2>3. QED BY <2>1, <2>2
<1> HIDE DEF s, d
<1>4. CASE d = m
  BY <1>4 DEF d
<1>5. CASE ~(m.degraded \/ m.torn \/ m.terminal \/ m.lease = "none") /\ (d = [s EXCEPT !.stalled = TRUE] \/ d = s)
  <2>1. /\ IsProvider(d) /\ d.lease = s.lease /\ d.report = s.report /\ d.terminal = s.terminal
        /\ d.observed = s.observed /\ d.degraded = s.degraded
    BY <1>3, <1>5 DEF IsProvider
  <2>2. ProvOf(d, turn)
    BY <1>3, <1>5, <2>1 DEF ProvOf
  <2>3. QED BY <1>3, <1>5, <2>1, <2>2 DEF d
<1>6. QED BY <1>1, <1>4, <1>5

(* Time alone changes nothing but the ages. *)
LEMMA AgedFits ==
    ASSUME NEW m, NEW turn, ProvOf(m, turn), NEW ticks
    PROVE  LET a == Aged(m, ticks)
           IN  ProvOf(a, turn) /\ a.stalled = m.stalled /\ a.report = m.report /\ a.terminal = m.terminal /\ a.lease = m.lease
<1> DEFINE a == Aged(m, ticks)
<1>1. /\ IsProvider(a) /\ a.stalled = m.stalled /\ a.report = m.report /\ a.terminal = m.terminal /\ a.lease = m.lease
      /\ a.observed = m.observed /\ a.suspicions = m.suspicions /\ a.long = m.long
  BY DEF Aged, ProvOf, IsProvider
<1> HIDE DEF a
<1>2. ProvOf(a, turn)
  BY <1>1 DEF ProvOf
<1>3. QED BY <1>1, <1>2 DEF a

(* Before the result is built the properties say nothing. *)
LEMMA Unfinished ==
    ASSUME step' # "done", result' = NoResult
    PROVE  Completed' /\ WatchdogResultAccepted'
  BY DEF Completed, WatchdogResultAccepted, NoResult

(* What OpenClaw writes takes nothing back. *)
LEMMA SessionGrows ==
    ASSUME SInv, SessionFits', store.turn => store'.turn, step # "done",
           UNCHANGED <<step, init, prov, fin, stop, found, result>>
    PROVE  SInv'
<1>1. InitOf(init', store'.turn) /\ ProvOf(prov', store'.turn)
  BY DEF SInv, InitOf, ProvOf
<1>2. Watching' /\ Stopping' /\ ReasonsFit' /\ result' = NoResult
  BY DEF SInv, Watching, Stopping, ReasonsFit
<1>3. QED BY <1>1, <1>2, Unfinished DEF SInv

(* OpenClaw's steps. *)
LEMMA OpenClawKeeps ==
    ASSUME SInv, step # "done", OpenClaw \/ Exits
    PROVE  SInv'
<1>1. SessionFits /\ store \in Store
  BY DEF SInv, SessionFits
<1>2. ASSUME SetUp PROVE SInv'
  <2>1. /\ store' = [store EXCEPT !.at = @ + 1, !.sid = IF store.at = Index THEN "new" ELSE @]
        /\ store.at < Header /\ ~store.turn /\ UNCHANGED <<base, file, stream>>
        /\ UNCHANGED <<step, init, prov, fin, stop, found, result>>
    BY <1>2 DEF SetUp, Writes, monitors
  <2>2. store' \in Store /\ store'.turn = store.turn /\ store'.old = store.old
    <3> DEFINE sid == IF store.at = Index THEN "new" ELSE store.sid
    <3>1. store.at + 1 \in Launched..Header /\ sid \in {"none", "old", "new"}
      BY <1>1, <2>1 DEF Store, Launched, Header
    <3>2. store' = [store EXCEPT !.at = store.at + 1, !.sid = sid]
      BY <2>1
    <3> HIDE DEF sid
    <3>3. QED BY <1>1, <3>1, <3>2 DEF Store
  <2>3. ~store.old
    BY <1>1, <2>1 DEF SessionFits, Header
  <2>4. SessionFits'
    BY <1>1, <2>1, <2>2, <2>3 DEF SessionFits
  <2>5. QED BY <2>1, <2>2, <2>4, SessionGrows
<1>3. ASSUME NewSession PROVE SInv'
  <2>1. /\ store' = [EmptyStore EXCEPT !.at = Bound, !.sid = "new"] /\ ~store.turn /\ UNCHANGED <<base, file, stream>>
        /\ UNCHANGED <<step, init, prov, fin, stop, found, result>>
    BY <1>3 DEF NewSession, Writes, monitors
  <2>2. store' \in Store /\ ~store'.turn /\ ~store'.old
    <3>1. EmptyStore \in Store /\ ~EmptyStore.turn /\ ~EmptyStore.old
      <4>1. << >> \in Seq(RecordKinds)
        OBVIOUS
      <4>2. QED BY <4>1 DEF EmptyStore, Store, Launched, Header
    <3>2. Bound \in Launched..Header
      BY DEF Bound, Launched, Header
    <3>3. QED BY <2>1, <3>1, <3>2 DEF Store
  <2>3. SessionFits'
    BY <1>1, <2>1, <2>2 DEF SessionFits
  <2>4. QED BY <2>1, <2>3, SessionGrows
<1>4. ASSUME BeginTurn PROVE SInv'
  <2>1. /\ store' = [store EXCEPT !.turn = TRUE] /\ UNCHANGED <<base, file, stream>>
        /\ UNCHANGED <<step, init, prov, fin, stop, found, result>>
    BY <1>4 DEF BeginTurn, Writes, monitors
  <2>2. store' \in Store /\ store'.turn /\ store'.old = store.old /\ store'.at = store.at
    BY <1>1, <2>1 DEF Store
  <2>3. SessionFits'
    BY <1>1, <2>1, <2>2 DEF SessionFits
  <2>4. QED BY <2>1, <2>2, <2>3, SessionGrows
<1>5. ASSUME Compact PROVE SInv'
  <2>1. /\ store' \in {[store EXCEPT !.torn = "index", !.sid = "new"],
                       [store EXCEPT !.torn = IF @ = "index" THEN "successor" ELSE "no"]}
        /\ store.turn /\ UNCHANGED <<base, file, stream>>
        /\ UNCHANGED <<step, init, prov, fin, stop, found, result>>
    BY <1>5 DEF Compact, Writes, monitors
  <2>2. store' \in Store /\ store'.turn /\ store'.old = store.old /\ store'.at = store.at
    BY <1>1, <2>1 DEF Store
  <2>3. SessionFits'
    BY <1>1, <2>1, <2>2 DEF SessionFits
  <2>4. QED BY <2>1, <2>2, <2>3, SessionGrows
<1>6. ASSUME Streams PROVE SInv'
  <2>1. store.turn /\ UNCHANGED <<store, base, file>> /\ UNCHANGED <<step, init, prov, fin, stop, found, result>>
    BY <1>6 DEF Streams, Writes, monitors
  <2>2. SessionFits'
    BY <1>1, <2>1 DEF SessionFits
  <2>3. QED BY <2>1, <2>2, SessionGrows
<1>7. ASSUME Prints \/ Hangs PROVE SInv'
  <2>1. UNCHANGED <<store, base, file, stream>> /\ UNCHANGED <<step, init, prov, fin, stop, found, result>>
    BY <1>7 DEF Prints, Hangs, Writes, monitors
  <2>2. SessionFits'
    BY <1>1, <2>1 DEF SessionFits
  <2>3. QED BY <2>1, <2>2, SessionGrows
<1>8. ASSUME NEW k \in RecordKinds, WriteRecord(k) PROVE SInv'
  <2>1. /\ store' = [store EXCEPT !.records = Append(@, k)] /\ store.turn /\ UNCHANGED <<base, stream>>
        /\ file' = (file \/ k = "receipt")
        /\ UNCHANGED <<step, init, prov, fin, stop, found, result>>
    BY <1>8 DEF WriteRecord, Writes, monitors
  <2>2. Append(store.records, k) \in Seq(RecordKinds)
    BY <1>1, AppendProperties DEF Store
  <2>3. store' \in Store /\ store'.turn /\ store'.old = store.old /\ store'.at = store.at
    BY <1>1, <2>1, <2>2 DEF Store
  <2>4. SessionFits'
    BY <1>1, <2>1, <2>3 DEF SessionFits
  <2>5. QED BY <2>1, <2>3, <2>4, SessionGrows
<1>9. ASSUME Exits PROVE SInv'
  <2>1. PICK half \in {FALSE, proc' = "failed" /\ store.turn} : store' = [store EXCEPT !.half = half]
    BY <1>9 DEF Exits
  <2>2. UNCHANGED <<base, file, stream>> /\ UNCHANGED <<step, init, prov, fin, stop, found, result>>
    BY <1>9 DEF Exits, monitors
  <2>3. store' \in Store /\ store'.turn = store.turn /\ store'.old = store.old /\ store'.at = store.at /\ store'.sid = store.sid
    <3>1. half \in BOOLEAN
      OBVIOUS
    <3>2. QED BY <1>1, <2>1, <3>1 DEF Store
  <2>4. SessionFits'
    BY <1>1, <2>2, <2>3 DEF SessionFits
  <2>5. QED BY <2>2, <2>3, <2>4, SessionGrows
<1>10. QED BY <1>2, <1>3, <1>4, <1>5, <1>6, <1>7, <1>8, <1>9 DEF OpenClaw

(* An age is a number of ticks. *)
LEMMA CapNat == ASSUME NEW n \in Nat PROVE Cap(n) \in Nat
  BY LimitsAssumption DEF Cap

(* The stop of the user. *)
LEMMA UserStopsKeeps ==
    ASSUME SInv, UserStops
    PROVE  SInv'
<1>1. /\ step \in {"wait", "poll"} /\ stop' = "user_interrupt"
      /\ UNCHANGED <<store, base, file, stream, step, init, prov, fin, found, result>>
  BY DEF UserStops, session, monitors
<1>2. SessionFits' /\ InitOf(init', store'.turn) /\ ProvOf(prov', store'.turn)
  BY <1>1 DEF SInv, SessionFits
<1>3. Watching' /\ Stopping' /\ ReasonsFit' /\ result' = NoResult /\ step' # "done"
  BY <1>1 DEF SInv, Watching, Stopping, ReasonsFit
<1>4. QED BY <1>1, <1>2, <1>3, Unfinished DEF SInv

(* The worker's steps leave the session alone. *)
LEMMA SessionKept ==
    ASSUME SInv, UNCHANGED <<store, base, file>>, stream' => stream
    PROVE  SessionFits'
  BY DEF SInv, SessionFits

(* communicate timed out. *)
LEMMA TickKeeps ==
    ASSUME SInv, Tick
    PROVE  SInv'
<1> DEFINE aged == [init EXCEPT !.age = IF init.ready THEN 0 ELSE Cap(@ + 1)]
<1>1. /\ step = "wait" /\ prov' = Aged(prov, 1) /\ UNCHANGED <<store, base, file, stream, found, result>>
      /\ fin' = [fin EXCEPT !.age = IF fin.terminal THEN Cap(@ + 1) ELSE 0]
  BY DEF Tick, SessionStands
<1>2. /\ SessionFits /\ InitOf(init, store.turn) /\ ProvOf(prov, store.turn) /\ fin \in Finalizing
      /\ ~prov.stalled /\ ~init.stalled /\ ~fin.stalled /\ stop \in {"none", "user_interrupt"} /\ result = NoResult
  BY <1>1 DEF SInv, Watching, Stopping
<1>3. SessionFits'
  BY <1>1, SessionKept
<1>4. ProvOf(prov', store'.turn) /\ ~prov'.stalled /\ prov'.terminal = prov.terminal
  BY <1>1, <1>2, AgedFits
<1>5. fin' \in Finalizing /\ (fin'.terminal => prov'.terminal) /\ ~fin'.stalled
  <2>1. (IF fin.terminal THEN Cap(fin.age + 1) ELSE 0) \in Nat
    BY <1>2, CapNat DEF Finalizing
  <2>2. fin' \in Finalizing /\ fin'.terminal = fin.terminal /\ fin'.stalled = fin.stalled
    BY <1>1, <1>2, <2>1 DEF Finalizing
  <2>3. QED BY <1>2, <1>4, <2>2 DEF SInv
<1>6. InitOf(aged, store.turn) /\ ~aged.stalled
  <2> DEFINE age == IF init.ready THEN 0 ELSE Cap(init.age + 1)
  <2>1. init \in Initializing /\ age \in Nat
    BY <1>2, CapNat DEF InitOf, Initializing
  <2>2. aged = [init EXCEPT !.age = age]
    OBVIOUS
  <2> HIDE DEF age, aged
  <2>3. /\ aged \in Initializing /\ aged.points = init.points /\ aged.ready = init.ready
        /\ aged.stalled = init.stalled /\ aged.degraded = init.degraded
    BY <2>1, <2>2 DEF Initializing
  <2>4. QED BY <1>2, <2>3 DEF InitOf
<1>7. CASE stop # "none" /\ init' = aged /\ step' = "stopping" /\ UNCHANGED stop
  <2>1. InitOf(init', store'.turn)
    BY <1>1, <1>6, <1>7
  <2>2. Watching' /\ Stopping' /\ ReasonsFit'
    BY <1>1, <1>2, <1>4, <1>7 DEF Watching, Stopping, ReasonsFit
  <2>3. QED BY <1>1, <1>2, <1>3, <1>4, <1>5, <1>7, <2>1, <2>2, Unfinished DEF SInv
<1>8. CASE stop = "none" /\ \E busy \in {FALSE, proc = "running"} : init' = InitPoll(aged, busy)
  <2>1. PICK busy \in BOOLEAN : init' = InitPoll(aged, busy)
    BY <1>8
  <2>2. InitOf(init', store'.turn) /\ (init'.stalled \/ init'.ready \/ init'.degraded \/ init'.age < Limit)
    <3> HIDE DEF aged
    <3>1. QED BY <1>1, <1>2, <1>6, <2>1, InitPollFits
  <2> HIDE DEF aged
  <2>3. \/ init'.stalled /\ stop' = "initialization_stall" /\ step' = "stopping"
        \/ stop' = "process_failure" /\ step' = "stopping"
        \/ ~init'.stalled /\ ~init'.degraded /\ stop' = stop /\ step' = "poll"
    BY <1>8 DEF Tick, Claim
  <2>4. Watching' /\ Stopping' /\ ReasonsFit' /\ step' # "done"
    BY <1>1, <1>2, <1>4, <1>5, <1>8, <2>2, <2>3 DEF Watching, Stopping, ReasonsFit
  <2>5. QED BY <1>1, <1>2, <1>3, <1>4, <1>5, <2>2, <2>4, Unfinished DEF SInv
<1>9. QED BY <1>7, <1>8 DEF Tick

(* _ResponseFinalizationMonitor follows the provider monitor. *)
LEMMA FinalFits ==
    ASSUME fin \in Finalizing, NEW m, m.terminal \in BOOLEAN, fin.terminal => m.terminal
    PROVE  /\ FinalRead(m) \in Finalizing /\ (FinalRead(m).terminal => m.terminal)
           /\ FinalDecide(FinalRead(m)) \in Finalizing /\ (FinalDecide(FinalRead(m)).terminal => m.terminal)
           /\ FinalDecide(FinalRead(m)).stalled => FinalDecide(FinalRead(m)).terminal \/ FinalRead(m).stalled
           /\ FinalRead(m).stalled = fin.stalled
<1> DEFINE r == FinalRead(m)
           s == IF r.age >= Suspect THEN [r EXCEPT !.suspected = TRUE] ELSE r
           d == FinalDecide(r)
<1>1. r \in Finalizing /\ (r.terminal => m.terminal) /\ r.stalled = fin.stalled
  BY DEF FinalRead, Finalizing
<1> HIDE DEF r
<1>2. s \in Finalizing /\ s.terminal = r.terminal /\ s.stalled = r.stalled
  BY <1>1 DEF Finalizing
<1>3. d = r \/ (r.terminal /\ (d = s \/ d = [s EXCEPT !.stalled = TRUE]))
  BY DEF FinalDecide
<1> HIDE DEF s, d
<1>4. d \in Finalizing /\ d.terminal = r.terminal /\ (d.stalled => d.terminal \/ r.stalled)
  BY <1>1, <1>2, <1>3 DEF Finalizing
<1>5. QED BY <1>1, <1>4 DEF r, d

(* The provider and finalization monitors; the answer of the turn rules out that
   both stall. *)
LEMMA PollKeeps ==
    ASSUME SInv, Poll
    PROVE  SInv'
<1>1. /\ step = "poll" /\ stream' = FALSE /\ UNCHANGED <<store, base, file, found, result>>
      /\ fin' = FinalDecide(FinalRead(prov'))
      /\ init' = IF prov.lease = "none" /\ prov'.lease # "none" THEN Ready(init, Source(prov')) ELSE init
  BY DEF Poll, SessionStands
<1>2. /\ SessionFits /\ InitOf(init, store.turn) /\ ProvOf(prov, store.turn) /\ fin \in Finalizing
      /\ (fin.terminal => prov.terminal) /\ (init.ready \/ init.degraded \/ init.age < Limit)
      /\ ~prov.stalled /\ ~init.stalled /\ ~fin.stalled /\ stop \in {"none", "user_interrupt"} /\ result = NoResult
  BY <1>1 DEF SInv, Watching, Stopping
<1>3. SessionFits'
  BY <1>1, SessionKept
<1>4. /\ ProvOf(prov', store.turn) /\ (prov.terminal => prov'.terminal)
      /\ prov'.stalled /\ prov'.report => ~prov'.degraded /\ ~prov'.terminal
  <2> DEFINE m == ProviderRead(prov)
             d == Decide(m)
  <2>1. prov' \in {d, [d EXCEPT !.degraded = TRUE, !.report = FALSE], [m EXCEPT !.degraded = TRUE, !.report = FALSE]}
    BY DEF Poll
  <2>2. ProvOf(m, store.turn) /\ ~m.stalled /\ (prov.terminal => m.terminal)
    BY <1>2, ProviderReadFits
  <2> HIDE DEF m
  <2>3. ProvOf(d, store.turn) /\ d.terminal = m.terminal /\ (d.stalled => ~d.degraded /\ ~d.terminal)
    BY <2>2, DecideFits
  <2> HIDE DEF d
  <2>4. ASSUME NEW x, ProvOf(x, store.turn), prov' = [x EXCEPT !.degraded = TRUE, !.report = FALSE]
        PROVE  ProvOf(prov', store.turn) /\ prov'.terminal = x.terminal /\ ~prov'.report
    <3>1. /\ IsProvider(prov') /\ prov'.terminal = x.terminal /\ ~prov'.report /\ prov'.lease = x.lease
          /\ prov'.observed = x.observed /\ prov'.suspicions = x.suspicions /\ prov'.stalled = x.stalled /\ prov'.long = x.long
      BY <2>4 DEF ProvOf, IsProvider
    <3>2. QED BY <2>4, <3>1 DEF ProvOf
  <2>5. QED BY <2>1, <2>2, <2>3, <2>4
<1>5. /\ fin' \in Finalizing /\ (fin'.terminal => prov'.terminal) /\ (fin'.stalled => fin'.terminal)
  <2>1. prov'.terminal \in BOOLEAN
    BY <1>4 DEF ProvOf, IsProvider
  <2>2. QED BY <1>1, <1>2, <1>4, <2>1, FinalFits
<1>6. /\ InitOf(init', store'.turn) /\ ~init'.stalled /\ (init'.ready \/ init'.degraded \/ init'.age < Limit)
  <2>1. Source(prov') \in 1..7 /\ (prov'.lease # "none" /\ Source(prov') = CurrentTurn => store.turn)
    BY <1>4 DEF Source, ProvOf, IsProvider, CurrentTurn, ProviderStream
  <2>2. CASE prov.lease = "none" /\ prov'.lease # "none"
    BY <1>1, <1>2, <2>1, <2>2, ReadyFits
  <2>3. CASE ~(prov.lease = "none" /\ prov'.lease # "none")
    BY <1>1, <1>2, <2>3
  <2>4. QED BY <2>2, <2>3
<1>7. \/ fin'.stalled /\ Claim("finalization_stall") /\ step' = "stopping"
      \/ prov'.stalled /\ Claim("provider_stall") /\ step' = "stopping"
      \/ ~fin'.stalled /\ ~prov'.stalled /\ Claim("run_deadline") /\ step' = "stopping"
      \/ ~fin'.stalled /\ ~prov'.stalled /\ stop' = stop /\ step' = "wait"
  BY DEF Poll
<1>8. Watching' /\ Stopping' /\ ReasonsFit' /\ step' # "done"
  BY <1>1, <1>2, <1>4, <1>5, <1>6, <1>7 DEF Watching, Stopping, ReasonsFit, Claim
<1>9. QED BY <1>1, <1>2, <1>3, <1>4, <1>5, <1>6, <1>8, Unfinished DEF SInv

(* _await_process_stop *)
LEMMA StoppedKeeps ==
    ASSUME SInv, Stopped
    PROVE  SInv'
<1>1. /\ step = "stopping" /\ step' = "evidence" /\ UNCHANGED <<store, base, file, stream, prov, stop, found, result>>
  BY DEF Stopped, SessionStands
<1>2. SessionFits'
  BY <1>1, SessionKept
<1>3. /\ \/ UNCHANGED <<init, fin>>
         \/ /\ init' = [init EXCEPT !.age = IF init.ready THEN 0 ELSE Limit]
            /\ fin' = [fin EXCEPT !.age = IF fin.terminal THEN Limit ELSE 0]
  BY DEF Stopped
<1>4. InitOf(init', store'.turn) /\ init'.stalled = init.stalled
  <2>1. init \in Initializing /\ Limit \in Nat
    BY LimitsAssumption DEF SInv, InitOf
  <2>2. /\ init' \in Initializing /\ init'.points = init.points /\ init'.ready = init.ready
        /\ init'.stalled = init.stalled /\ init'.degraded = init.degraded
    BY <1>3, <2>1 DEF Initializing
  <2>3. QED BY <1>1, <2>2 DEF SInv, InitOf
<1>5. fin' \in Finalizing /\ fin'.terminal = fin.terminal
  BY <1>3, LimitsAssumption DEF SInv, Finalizing
<1>6. Watching' /\ Stopping' /\ ReasonsFit' /\ result' = NoResult /\ step' # "done"
  BY <1>1, <1>4 DEF SInv, Watching, Stopping, ReasonsFit
<1>7. QED BY <1>1, <1>2, <1>4, <1>5, <1>6, Unfinished DEF SInv

(* communicate returned. *)
LEMMA ReturnedKeeps ==
    ASSUME SInv, Returned
    PROVE  SInv'
<1>1. PICK late \in {0, 1} :
          LET i == InitPoll(init, FALSE)
              m == ProviderRead(Aged(prov, late))
          IN  /\ init' = IF prov.lease = "none" /\ m.lease # "none" THEN Ready(i, Source(m)) ELSE i
              /\ prov' = FinalizeProvider(m)
              /\ fin' = FinalRead(m)
  BY DEF Returned
<1> DEFINE i == InitPoll(init, FALSE)
           m == ProviderRead(Aged(prov, late))
<1>2. /\ init' = IF prov.lease = "none" /\ m.lease # "none" THEN Ready(i, Source(m)) ELSE i
      /\ prov' = FinalizeProvider(m) /\ fin' = FinalRead(m)
  BY <1>1
<1>3. /\ step = "wait" /\ step' = "evidence" /\ stream' = FALSE /\ UNCHANGED <<store, base, file, stop, found, result>>
  BY DEF Returned, SessionStands
<1>4. /\ SessionFits /\ InitOf(init, store.turn) /\ ProvOf(prov, store.turn) /\ fin \in Finalizing
      /\ (fin.terminal => prov.terminal) /\ (init.ready \/ init.degraded \/ init.age < Limit)
      /\ ~prov.stalled /\ ~init.stalled /\ stop \in {"none", "user_interrupt"} /\ result = NoResult
  BY <1>3 DEF SInv, Watching, Stopping
<1>5. SessionFits'
  BY <1>3, SessionKept
<1>6. ProvOf(m, store.turn) /\ ~m.stalled /\ (prov.terminal => m.terminal)
  <2> DEFINE a == Aged(prov, late)
  <2>1. ProvOf(a, store.turn) /\ ~a.stalled /\ a.terminal = prov.terminal
    BY <1>4, AgedFits
  <2> HIDE DEF a
  <2>2. ProvOf(ProviderRead(a), store.turn) /\ ProviderRead(a).stalled = a.stalled /\ (a.terminal => ProviderRead(a).terminal)
    BY <1>4, <2>1, ProviderReadFits
  <2>3. QED BY <2>1, <2>2 DEF a
<1>7. InitOf(i, store.turn) /\ ~i.stalled /\ (i.ready \/ i.degraded \/ i.age < Limit)
  BY <1>4, InitPollFits
<1> HIDE DEF i, m
<1>8. ProvOf(prov', store'.turn) /\ ~prov'.stalled /\ prov'.terminal = m.terminal
  <2>1. /\ IsProvider(prov') /\ prov'.terminal = m.terminal /\ prov'.lease = m.lease
        /\ prov'.observed = m.observed /\ prov'.suspicions = m.suspicions /\ prov'.stalled = m.stalled /\ prov'.long = m.long
    BY <1>2, <1>6 DEF ProvOf, IsProvider, FinalizeProvider
  <2>2. QED BY <1>3, <1>6, <2>1 DEF ProvOf
<1>9. fin' \in Finalizing /\ (fin'.terminal => prov'.terminal)
  <2>1. m.terminal \in BOOLEAN
    BY <1>6 DEF ProvOf, IsProvider
  <2>2. QED BY <1>2, <1>4, <1>6, <1>8, <2>1, FinalFits
<1>10. InitOf(init', store'.turn)
  <2>1. Source(m) \in 1..7 /\ (m.lease # "none" /\ Source(m) = CurrentTurn => store.turn)
    BY <1>6 DEF Source, ProvOf, IsProvider, CurrentTurn, ProviderStream
  <2>2. CASE prov.lease = "none" /\ m.lease # "none"
    BY <1>2, <1>3, <1>4, <1>7, <2>1, <2>2, ReadyFits
  <2>3. CASE ~(prov.lease = "none" /\ m.lease # "none")
    BY <1>2, <1>3, <1>7, <2>3
  <2>4. QED BY <2>2, <2>3
<1>11. Watching' /\ Stopping' /\ ReasonsFit' /\ step' # "done"
  BY <1>3, <1>4, <1>8 DEF Watching, Stopping, ReasonsFit
<1>12. QED BY <1>3, <1>4, <1>5, <1>8, <1>9, <1>10, <1>11, Unfinished DEF SInv

(* The finally block. *)
LEMMA CollectKeeps ==
    ASSUME SInv, Collect
    PROVE  SInv'
<1>1. /\ step = "evidence" /\ step' = "result" /\ found' = stop /\ init' = InitPoll(init, FALSE)
      /\ UNCHANGED <<store, base, file, stream, prov, fin, stop, result>>
  BY DEF Collect, SessionStands
<1>2. SessionFits'
  BY <1>1, SessionKept
<1>3. InitOf(init', store'.turn) /\ (init.stalled => init' = init)
  BY <1>1, InitPollFits DEF SInv
<1>4. Watching' /\ Stopping' /\ ReasonsFit' /\ result' = NoResult /\ step' # "done"
  BY <1>1, <1>3 DEF SInv, Watching, Stopping, ReasonsFit
<1>5. QED BY <1>1, <1>2, <1>3, <1>4, Unfinished DEF SInv

(* validate_submission_capture accepts one submission of this turn, its last call. *)
LEMMA AcceptedSubmission ==
    ASSUME store \in Store, Submission(store, file) = "accepted"
    PROVE  /\ store.turn /\ file
           /\ \E i \in Succeeded(store) : \A j \in Indices(store, CallKinds) : j <= i
<1> DEFINE C1 == Indices(store, {"submit"}) = {}
           C2 == \E i, j \in Succeeded(store) : i # j
           C3 == Succeeded(store) = {}
           C4 == \E i \in Succeeded(store), j \in Indices(store, CallKinds) : j > i
<1>1. Submission(store, file) = CASE C1 -> IF file THEN "unauthorized" ELSE "missing" [] C2 -> "duplicate"
                                  [] C3 -> "invalid" [] C4 -> "unauthorized" [] ~file -> "invalid" [] OTHER -> "accepted"
  BY DEF Submission
<1> HIDE DEF C1, C2, C3, C4
<1>2. ~C1 /\ ~C3 /\ ~C4 /\ file
  BY <1>1
<1>3. store.turn
  <2>1. SUFFICES ASSUME ~store.turn PROVE FALSE
    OBVIOUS
  <2>2. Invocation(store) = << "text" >>
    BY <2>1 DEF Invocation
  <2>3. QED BY <1>2, <2>2 DEF C1, Indices
<1>4. DOMAIN Invocation(store) \subseteq Nat
  BY <1>3 DEF Invocation, Store
<1>5. \A i \in Succeeded(store) : i \in Nat
  BY <1>4 DEF Succeeded, Indices
<1>6. \A j \in Indices(store, CallKinds) : j \in Nat
  BY <1>4 DEF Indices
<1>7. PICK i \in Succeeded(store) : TRUE
  BY <1>2 DEF C3
<1>8. \A j \in Indices(store, CallKinds) : j <= i
  BY <1>2, <1>5, <1>6, <1>7 DEF C4
<1>9. QED BY <1>2, <1>3, <1>7, <1>8

(* What the status of a result says of the stop stop and the submission. *)
LEMMA ResultTells ==
    ASSUME NEW r \in SessionResults
    PROVE  /\ r.status = "completed" => Submission(store, file) = "accepted"
           /\ found = "provider_stall" => r.status = "provider_stalled"
           /\ r.status = "provider_stalled" => found = "provider_stall" \/ DeclaredStall
           /\ r.status = "initialization_stalled" => found = "initialization_stall"
           /\ r.status = "interrupted" => found = "user_interrupt"
<1>1. CASE found \in {"user_interrupt", "initialization_stall", "provider_stall", "run_deadline"}
  <2>1. r = StopResult(found)
    BY <1>1 DEF SessionResults
  <2>2. \/ found = "user_interrupt" /\ r = Is("interrupted", found)
        \/ found = "initialization_stall" /\ r = Is("initialization_stalled", found)
        \/ found = "provider_stall" /\ r = Is("provider_stalled", found)
        \/ found = "run_deadline" /\ r = Is("timed_out", found)
    BY <1>1, <2>1 DEF StopResult
  <2>3. QED BY <2>2 DEF Is
<1>2. CASE found \notin {"user_interrupt", "initialization_stall", "provider_stall", "run_deadline"}
  <2>1. \/ r \in Recover("finalization_stalled", found)
        \/ r \in PayloadResults
        \/ r \in Recover("process_failed", "process_failure") \cup {CompactionFailure}
    BY <1>2 DEF SessionResults
  <2>2. ASSUME NEW st, NEW cause, r \in Recover(st, cause), st \in {"finalization_stalled", "process_failed"}
        PROVE  (r.status = "completed" /\ Submission(store, file) = "accepted") \/ r.status \in {st, "provider_failed"}
    BY <2>2 DEF Recover, Recoverable, Is
  <2>3. ASSUME r \in PayloadResults
        PROVE  \/ r.status = "completed" /\ Submission(store, file) = "accepted"
               \/ r.status \in {"upstream_incomplete", "invalid_response", "provider_failed", "timed_out"}
               \/ r.status = "provider_stalled" /\ DeclaredStall
    <3>1. CASE r = Submitted
      <4>1. \/ r = Is("completed", "completed") /\ Submission(store, file) = "accepted"
            \/ r = Is("upstream_incomplete", "upstream_incomplete")
            \/ r = Is("invalid_response", "invalid_response")
        BY <3>1 DEF Submitted
      <4>2. QED BY <4>1 DEF Is
    <3>2. CASE r # Submitted
      BY <2>3, <3>2 DEF PayloadResults, Is
    <3>3. QED BY <3>1, <3>2
  <2>4. r = CompactionFailure => r.status = "process_failed"
    BY DEF CompactionFailure, Is
  <2>5. QED BY <1>2, <2>1, <2>2, <2>3, <2>4
<1>3. QED BY <1>1, <1>2

(* execute builds the result. *)
LEMMA BuildKeeps ==
    ASSUME SInv, Build
    PROVE  SInv'
<1>1. /\ step = "result" /\ step' = "done" /\ result' \in SessionResults
      /\ prov' = [prov EXCEPT !.stalled = @ \/ (result'.status = "provider_stalled")]
      /\ UNCHANGED <<store, base, file, stream, init, fin, stop, found>>
  BY DEF Build
<1>2. /\ SessionFits /\ InitOf(init, store.turn) /\ ProvOf(prov, store.turn) /\ fin \in Finalizing
      /\ (fin.terminal => prov.terminal) /\ found = stop
      /\ prov.stalled /\ prov.report => ~prov.degraded /\ ~prov.terminal /\ stop \in {"provider_stall", "user_interrupt"}
      /\ stop = "provider_stall" => prov.stalled
      /\ stop = "initialization_stall" => init.stalled
  BY <1>1 DEF SInv, Stopping, ReasonsFit
<1>3. SessionFits'
  BY <1>1, SessionKept
<1>4. /\ result'.status = "completed" => Submission(store, file) = "accepted"
      /\ found = "provider_stall" => result'.status = "provider_stalled"
      /\ result'.status = "provider_stalled" => found = "provider_stall" \/ DeclaredStall
      /\ result'.status = "initialization_stalled" => found = "initialization_stall"
      /\ result'.status = "interrupted" => found = "user_interrupt"
  BY <1>1, ResultTells
<1>5. /\ IsProvider(prov') /\ prov'.terminal = prov.terminal /\ prov'.lease = prov.lease /\ prov'.observed = prov.observed
      /\ prov'.suspicions = prov.suspicions /\ prov'.long = prov.long /\ prov'.degraded = prov.degraded
      /\ prov'.report = prov.report /\ (prov'.stalled <=> prov.stalled \/ result'.status = "provider_stalled")
  BY <1>1, <1>2 DEF ProvOf, IsProvider
<1>6. ProvOf(prov', store'.turn)
  BY <1>1, <1>2, <1>4, <1>5 DEF ProvOf, DeclaredStall
<1>7. Watching' /\ Stopping' /\ ReasonsFit'
  BY <1>1, <1>2, <1>5 DEF Watching, Stopping, ReasonsFit
<1>8. Completed'
  <2>1. result'.status = "completed" =>
            /\ store.turn /\ file
            /\ \E i \in Succeeded(store) : \A j \in Indices(store, CallKinds) : j <= i
    BY <1>2, <1>4, AcceptedSubmission DEF SessionFits
  <2>2. QED BY <1>1, <2>1 DEF Completed
<1>9. WatchdogResultAccepted'
  <2>1. SUFFICES ASSUME prov.report, found # "user_interrupt"
                 PROVE  ProviderEvidence' /\ InitializationEvidence' /\ TelemetryAccepted' /\ ResultAccepted'
    BY <1>1, <1>5 DEF WatchdogResultAccepted
  <2>2. prov.stalled <=> found = "provider_stall"
    BY <1>2, <2>1
  <2>3. ProviderEvidence'
    BY <1>1, <1>2, <1>4, <1>5, <1>6, <2>1, <2>2 DEF ProviderEvidence, ProvOf, DeclaredStall
  <2>4. ResultAccepted'
    BY <1>1, <1>2, <1>4, <1>5, <2>2 DEF ResultAccepted
  <2>5. TelemetryAccepted'
    BY <2>4 DEF TelemetryAccepted, ResultAccepted
  <2>6. InitializationEvidence'
    <3>1. /\ init.points \in Seq(1..7) /\ \A i, j \in DOMAIN init.points : i < j => init.points[i] < init.points[j]
      BY <1>2 DEF InitOf, Initializing, Launched, ProviderStream
    <3>2. \A i \in 1..(Len(init.points) - 1) : init.points[i] < init.points[i + 1]
      BY <3>1
    <3>3. init.stalled => ~init.degraded /\ ~Position(init.points, CurrentTurn)
      BY <1>2 DEF InitOf
    <3>4. QED BY <1>1, <3>2, <3>3 DEF InitializationEvidence
  <2>7. QED BY <2>3, <2>4, <2>5, <2>6
<1>10. QED BY <1>1, <1>2, <1>3, <1>6, <1>7, <1>8, <1>9 DEF SInv

(* Before the first tick. *)
LEMMA InitFits ==
    MonitorsInit => SInv
<1> SUFFICES ASSUME MonitorsInit PROVE SInv
  OBVIOUS
<1>1. EmptyStore \in Store
  <2>1. << >> \in Seq(RecordKinds)
    OBVIOUS
  <2>2. QED BY <2>1 DEF EmptyStore, Store, Launched, Header
<1>2. store \in {EmptyStore, Inherited(FALSE), Inherited(TRUE)}
  BY DEF MonitorsInit
<1>3. \A same \in BOOLEAN : /\ Inherited(same) \in Store /\ Inherited(same).at = 5 /\ Inherited(same).sid = "old"
                            /\ Inherited(same).old = same /\ ~Inherited(same).turn /\ Inherited(same).torn = "no"
  <2>1. Header \in Launched..Header /\ Header = 5
    BY DEF Launched, Header
  <2>2. ~EmptyStore.turn /\ EmptyStore.torn = "no"
    BY DEF EmptyStore
  <2>3. QED BY <1>1, <2>1, <2>2 DEF Inherited, Store
<1>4. /\ store \in Store /\ ~store.turn /\ (store.old => store = Inherited(TRUE))
  <2>1. ~EmptyStore.turn /\ ~EmptyStore.old
    BY DEF EmptyStore
  <2>2. QED BY <1>1, <1>2, <1>3, <2>1
<1>5. base = Baseline(store)
  BY DEF MonitorsInit
<1>6. base.at \in 0..6
  BY <1>4, <1>5 DEF Baseline, Checkpoint, Store, Launched, Header, Bound, CurrentTurn
<1>7. store.old => base = [at |-> CurrentTurn, sid |-> "old", matches |-> 1] /\ store.at = Header /\ store.sid = "old"
  <2>1. SUFFICES ASSUME store.old
                 PROVE  base = [at |-> CurrentTurn, sid |-> "old", matches |-> 1] /\ store.at = Header /\ store.sid = "old"
    OBVIOUS
  <2>2. store.at = 5 /\ store.sid = "old" /\ store.torn = "no" /\ ~store.turn
    BY <1>3, <1>4, <2>1
  <2>3. Matches(store) = 1
    BY <2>1, <2>2 DEF Matches
  <2>4. Checkpoint(store) = CurrentTurn
    BY <2>2, <2>3 DEF Checkpoint
  <2>5. QED BY <1>5, <2>2, <2>3, <2>4 DEF Baseline, Launched, Header
<1>8. SessionFits
  BY <1>4, <1>6, <1>7 DEF SessionFits, MonitorsInit, CurrentTurn
<1>9. InitOf(init, store.turn) /\ ~init.stalled /\ init.age < Limit
  <2>1. PICK failed \in BOOLEAN : init = NewInitialization(failed)
    BY DEF MonitorsInit
  <2>2. << 1 >> \in Seq(1..7) /\ DOMAIN << 1 >> = {1} /\ << 1 >>[1] = 1 /\ << 1 >> # << >>
    OBVIOUS
  <2> DEFINE one == << 1 >>
  <2>3. init = [points |-> one, age |-> 0, suspected |-> FALSE, ready |-> FALSE, stalled |-> FALSE, degraded |-> failed]
    BY <2>1 DEF NewInitialization, Launched
  <2>4. one \in Seq(1..7) /\ DOMAIN one = {1} /\ one[1] = 1 /\ one # << >>
    BY <2>2
  <2> HIDE DEF one
  <2>5. init \in Initializing
    BY <2>3, <2>4 DEF Initializing, Launched, ProviderStream
  <2>6. \A i, j \in DOMAIN init.points : i < j => init.points[i] < init.points[j]
    BY <2>3, <2>4
  <2>7. ~Position(init.points, CurrentTurn)
    BY <2>3, <2>4 DEF Position, CurrentTurn
  <2>8. QED BY <2>3, <2>4, <2>5, <2>6, <2>7, LimitsAssumption DEF InitOf
<1>10. ProvOf(prov, store.turn) /\ ~prov.stalled
  BY DEF MonitorsInit, NewProvider, ProvOf, IsProvider
<1>11. fin \in Finalizing /\ ~fin.terminal /\ ~fin.stalled
  BY DEF MonitorsInit, NewFinalization, Finalizing
<1>12. step = "wait" /\ stop = "none" /\ result = NoResult
  BY DEF MonitorsInit
<1>13. QED BY <1>8, <1>9, <1>10, <1>11, <1>12
              DEF SInv, Watching, Stopping, ReasonsFit, Completed, WatchdogResultAccepted, NoResult

(* Every step keeps the invariant. *)
LEMMA SInvStep ==
    SInv /\ [MonitorsNext]_monitorsVars => SInv'
<1> SUFFICES ASSUME SInv, [MonitorsNext]_monitorsVars PROVE SInv'
  OBVIOUS
<1>1. CASE UNCHANGED monitorsVars
  <2>1. UNCHANGED <<store, base, file, stream, proc, step, init, prov, fin, stop, found, result>>
    BY <1>1 DEF monitorsVars, session, monitors
  <2>2. SessionFits' /\ Watching' /\ Stopping' /\ ReasonsFit' /\ InitOf(init', store'.turn) /\ ProvOf(prov', store'.turn)
    BY <2>1 DEF SInv, SessionFits, Watching, Stopping, ReasonsFit
  <2>3. Completed'
    BY <2>1 DEF SInv, Completed
  <2>4. WatchdogResultAccepted'
    BY <2>1 DEF SInv, WatchdogResultAccepted, ProviderEvidence, InitializationEvidence, TelemetryAccepted, ResultAccepted
  <2>5. QED BY <2>1, <2>2, <2>3, <2>4 DEF SInv
<1>2. CASE Controller
  BY <1>2, TickKeeps, PollKeeps, StoppedKeeps, ReturnedKeeps, CollectKeeps, BuildKeeps DEF Controller
<1>3. CASE UserStops
  BY <1>3, UserStopsKeeps
<1>4. CASE step # "done" /\ (OpenClaw \/ Exits)
  BY <1>4, OpenClawKeeps
<1>5. QED BY <1>1, <1>2, <1>3, <1>4 DEF MonitorsNext, Ended

(* The invariant of the three monitors. *)
THEOREM MonitorsInvariant ==
    MonitorsSpec => []SInv
  BY InitFits, SInvStep, PTL DEF MonitorsSpec

(* For every limit and every transcript OpenClaw may write between the polls, the
   result that execute builds passes the validators of its own evidence. *)
THEOREM ResultsPassValidation ==
    MonitorsSpec => []WatchdogResultAccepted
<1>1. SInv => WatchdogResultAccepted
  BY DEF SInv
<1>2. QED BY <1>1, MonitorsInvariant, PTL

(* Nothing is observed, ready or terminal because of a turn the session already
   had, and only the submission of its own turn completes an invocation. *)
THEOREM NoOtherTurn ==
    MonitorsSpec => []OnlyThisTurn
<1>1. SInv => OnlyThisTurn
  BY DEF SInv, OnlyThisTurn, ProvOf, InitOf, Completed
<1>2. QED BY <1>1, MonitorsInvariant, PTL

=============================================================================
