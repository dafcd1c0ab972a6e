----------------------------- MODULE DagScheduler -----------------------------
(***************************************************************************)
(* DagScheduler.execute (scheduling.py): the thread that launches the      *)
(* Agents of an approved TeamPlan, the worker threads of its executor, and *)
(* the console thread that fills the control mailbox meanwhile.            *)
(*                                                                         *)
(* The scheduler thread is the control state pc, one value per place of    *)
(* the loop at which another thread can run; the workers are worker[a],    *)
(* the place where the Agent's thread is in DynamicAgentRunner             *)
(* (dynamic_runner.py).  A pass ends at pc = "done" with the status of its *)
(* DagScheduleResult; the coordinator (dynamic_workflow.py) then starts    *)
(* the next iteration over the same channel, or ends the run.              *)
(***************************************************************************)
EXTENDS RuntimeControls

CONSTANTS
    Dependencies,    \* [Agents -> SUBSET Agents]
    MaxConcurrency,  \* TeamPlan.max_concurrency
    MaxIterations,   \* TeamPlan.iteration_limit
    MaxAttempts      \* bound on the invocations of one Agent in one pass

(* Agents are numbered in plan order, and TeamPlan.validate_plan accepts    *)
(* no cycle: every set of Agents has one that depends on none of the set.   *)
ASSUME PlanAssumption ==
    /\ Agents \subseteq Nat \ {0}
    /\ IsFiniteSet(Agents)
    /\ Capability \in [Agents -> Capabilities]
    /\ Dependencies \in [Agents -> SUBSET Agents]
    /\ \A S \in SUBSET Agents :
          S # {} => \E a \in S : Dependencies[a] \cap S = {}

ASSUME BoundsAssumption ==
    /\ MaxConcurrency \in Nat \ {0}
    /\ MaxIterations \in Nat \ {0}
    /\ MaxAttempts \in Nat \ {0}
    /\ MaxCommands \in Nat

(* AgentSpec.validate_capability_boundary: exactly these may write. *)
Writers == {a \in Agents : Capability[a] \in {"implementation", "integration"}}

Testers == {a \in Agents : Capability[a] = "testing"}

VARIABLES
    pc,             \* where the scheduler thread is
    pending,        \* Agents not launched in this pass
    active,         \* Agents whose future is in the dictionary active
    ready,          \* candidates the launch loop has still to look at
    finished,       \* futures wait() returned, not yet recorded
    records,        \* terminal state of each Agent in this pass
    firstFailure,
    qualityAgent,   \* quality_decision_agent_id
    controlledStop,
    decision,       \* what the last poll of the loop returned
    closing,        \* the poll under way is the one before the loop breaks
    status,         \* DagScheduleResult.status
    iteration,
    worker,         \* where the Agent's worker thread is
    attempt         \* number of the Agent's current invocation

schedVars == << pc, pending, active, ready, finished, records, firstFailure,
                qualityAgent, controlledStop, decision, closing, status, iteration >>

workerVars == << worker, attempt >>

vars == << mailbox, horizon, channelVars, schedVars, workerVars >>

Outcomes == {"completed", "rejecting", "failed", "interrupted"}

InFlight == {"admit", "reserving", "launching", "running", "stopping", "collecting"}

RecordStates == {"none", "completed", "failed", "interrupted", "skipped", "cancelled"}

Statuses == {"none", "completed", "failed", "quality_decision_required",
             "correction_requested", "cancelled", "invalid", "unschedulable"}

Decisions == {"continue", "hold", "cancel", "correct"}

Completed == {a \in Agents : records[a] = "completed"}

TypeOK ==
    /\ ControlsTypeOK
    /\ pc \in {"poll", "accept", "launch", "wait", "collect", "exit", "done", "ended"}
    /\ pending \subseteq Agents /\ active \subseteq Agents
    /\ ready \subseteq Agents /\ finished \subseteq Agents
    /\ records \in [Agents -> RecordStates]
    /\ firstFailure \in Agents \cup {0}
    /\ qualityAgent \in Agents \cup {0}
    /\ controlledStop \in {"none", "cancel", "correct"}
    /\ decision \in Decisions
    /\ closing \in BOOLEAN
    /\ status \in Statuses
    /\ iteration \in 1..MaxIterations
    /\ worker \in [Agents -> {"idle"} \cup InFlight \cup Outcomes]
    /\ attempt \in [Agents -> 1..MaxAttempts]

StartOfPass ==
    /\ pc = "poll"
    /\ pending = Agents
    /\ active = {} /\ ready = {} /\ finished = {}
    /\ records = [a \in Agents |-> "none"]
    /\ firstFailure = 0 /\ qualityAgent = 0
    /\ controlledStop = "none" /\ decision = "continue"
    /\ closing = FALSE /\ status = "none"
    /\ worker = [a \in Agents |-> "idle"]
    /\ attempt = [a \in Agents |-> 1]

Init ==
    /\ ControlsInit
    /\ StartOfPass
    /\ iteration = 1
-----------------------------------------------------------------------------
(***************************************************************************)
(* The console thread: submit_control_line stores one accepted line.       *)
(***************************************************************************)
ConsoleSubmit ==
    /\ pc # "ended"
    /\ \E r \in Requests : Submit(r)
    /\ UNCHANGED << horizon, channelVars, schedVars, workerVars >>
-----------------------------------------------------------------------------
(***************************************************************************)
(* The control poll of the scheduler thread.                               *)
(***************************************************************************)

(* Mutant: the loop does not wait for what is still active. *)
InLoop_PendingOnly == pending # {}

(* while pending or active *)
InLoop == pending # {} \/ active # {}

(* The top of the loop; list_latest() fixes the horizon of the poll. *)
PollBegin ==
    /\ pc = "poll"
    /\ InLoop
    /\ pc' = "accept"
    /\ horizon' = Len(mailbox)
    /\ UNCHANGED << mailbox, channelVars, pending, active, ready, finished, records,
                    firstFailure, qualityAgent, controlledStop, decision, closing,
                    status, iteration, workerVars >>

LoopEnds ==
    /\ pc = "poll"
    /\ ~InLoop
    /\ pc' = "exit"
    /\ UNCHANGED << mailbox, horizon, channelVars, pending, active, ready, finished,
                    records, firstFailure, qualityAgent, controlledStop, decision,
                    closing, status, iteration, workerVars >>

(* The Agents whose invocation accepts a stop reason now. *)
Claimable == {a \in active : worker[a] = "running"}

Claim(agents) == worker' = [a \in Agents |-> IF a \in agents THEN "stopping" ELSE worker[a]]

(* An accepted cancel also calls interrupt_all. *)
PollAccept ==
    /\ pc = "accept"
    /\ Unobserved # {}
    /\ LET c == Min(Unobserved)
       IN  \/ AcceptGuide(c, active, pending) /\ UNCHANGED worker
           \/ AcceptCorrect(c) /\ UNCHANGED worker
           \/ AcceptPause(c) /\ UNCHANGED worker
           \/ AcceptResume(c) /\ UNCHANGED worker
           \/ AcceptInterrupt(c, active) /\ UNCHANGED worker
           \/ AcceptCancel(c) /\ (IF CancelTooLate THEN UNCHANGED worker ELSE Claim(Claimable))
    /\ UNCHANGED << horizon, schedVars, attempt >>

(* Dependencies satisfied; reviews wait for every Testing Agent in sight. *)
Launchable ==
    LET candidates == {a \in pending : Dependencies[a] \subseteq Completed}
    IN  IF (candidates \cup active) \cap Testers # {}
        THEN candidates \cap Testers
        ELSE candidates

LaunchesAllowed(stop) ==
    firstFailure = 0 /\ qualityAgent = 0 /\ stop = "none" /\ Decision = "continue"

(* The rest of poll(), and what execute() makes of its decision. *)
PollDecide ==
    /\ pc = "accept"
    /\ Unobserved = {}
    /\ AdvanceDeferred(active, Claimable)
    /\ IF cancelRequest # 0
       THEN Claim(Claimable)
       ELSE Claim({mailbox[c].agent : c \in InterruptsWon(Claimable)})
    /\ decision' = Decision
    /\ controlledStop' = IF Decision \in {"cancel", "correct"} THEN Decision
                         ELSE controlledStop
    /\ ready' = IF LaunchesAllowed(controlledStop') THEN Launchable ELSE {}
    /\ pc' = IF closing THEN "exit" ELSE "launch"
    /\ UNCHANGED << horizon, pending, active, finished, records, firstFailure,
                    qualityAgent, closing, status, iteration, attempt >>
-----------------------------------------------------------------------------
(***************************************************************************)
(* The launch loop, one candidate at a time in plan order.                 *)
(***************************************************************************)

(* Mutant: the concurrency cap is the only rule. *)
CanLaunch_CapOnly(a) == TRUE

(* _can_launch: a writer shares the workspace with nobody. *)
CanLaunch(a) == active = {} \/ (a \notin Writers /\ active \cap Writers = {})

LaunchAgent ==
    /\ pc = "launch"
    /\ ready # {}
    /\ LET a == Min(ready)
       IN  /\ Cardinality(active) < MaxConcurrency
           /\ CanLaunch(a)
           /\ pending' = pending \ {a}
           /\ active' = active \cup {a}
           /\ ready' = ready \ {a}
           /\ worker' = [worker EXCEPT ![a] = "admit"]
    /\ UNCHANGED << mailbox, horizon, channelVars, pc, finished, records, firstFailure,
                    qualityAgent, controlledStop, decision, closing, status, iteration,
                    attempt >>

PassOver ==
    /\ pc = "launch"
    /\ ready # {}
    /\ ready' = IF Cardinality(active) >= MaxConcurrency THEN {} ELSE ready \ {Min(ready)}
    /\ Cardinality(active) >= MaxConcurrency \/ ~CanLaunch(Min(ready))
    /\ UNCHANGED << mailbox, horizon, channelVars, pc, pending, active, finished,
                    records, firstFailure, qualityAgent, controlledStop, decision,
                    closing, status, iteration, workerVars >>

(* With work in flight the thread waits for it; without, it polls once more *)
(* before a controlled stop, keeps a held pass alive, or leaves the loop.   *)
Settle ==
    /\ pc = "launch"
    /\ ready = {}
    /\ \/ /\ active # {}
          /\ pc' = "wait"
          /\ UNCHANGED << horizon, closing, status >>
       \/ /\ active = {} /\ controlledStop # "none"
          /\ pc' = "accept"
          /\ horizon' = Len(mailbox)
          /\ closing' = TRUE
          /\ UNCHANGED status
       \/ /\ active = {} /\ controlledStop = "none" /\ decision = "hold"
          /\ pc' = "poll"
          /\ UNCHANGED << horizon, closing, status >>
       \/ /\ active = {} /\ controlledStop = "none" /\ decision # "hold"
          /\ \/ pending = {} \/ firstFailure # 0 \/ qualityAgent # 0
          /\ pc' = "exit"
          /\ UNCHANGED << horizon, closing, status >>
       \/ /\ active = {} /\ controlledStop = "none" /\ decision # "hold"
          /\ pending # {} /\ firstFailure = 0 /\ qualityAgent = 0
          /\ pc' = "done"
          /\ status' = "unschedulable"    \* RuntimeError
          /\ UNCHANGED << horizon, closing >>
    /\ UNCHANGED << mailbox, channelVars, pending, active, ready, finished, records,
                    firstFailure, qualityAgent, controlledStop, decision, iteration,
                    workerVars >>
-----------------------------------------------------------------------------
(***************************************************************************)
(* wait() and the recording of what it returned.                           *)
(***************************************************************************)
Wait ==
    /\ pc = "wait"
    /\ finished' = {a \in active : worker[a] \in Outcomes}
    /\ pc' = IF finished' = {} THEN "poll" ELSE "collect"
    /\ UNCHANGED << mailbox, horizon, channelVars, pending, active, ready, records,
                    firstFailure, qualityAgent, controlledStop, decision, closing,
                    status, iteration, workerVars >>

(* ScheduledAgentState of an outcome: rejecting evidence is completed work. *)
RecordState(outcome) == IF outcome = "rejecting" THEN "completed" ELSE outcome

(* One finished future, in plan order. *)
Collect ==
    /\ pc = "collect"
    /\ LET a == Min(finished)
           outcome == worker[a]
           uncontrolled == firstFailure = 0 /\ controlledStop = "none"
       IN  /\ active' = active \ {a}
           /\ finished' = finished \ {a}
           /\ records' = [records EXCEPT ![a] = RecordState(outcome)]
           /\ firstFailure' = IF outcome \in {"failed", "interrupted"} /\ uncontrolled
                              THEN a ELSE firstFailure
           /\ qualityAgent' = IF outcome = "rejecting" /\ uncontrolled /\ qualityAgent = 0
                              THEN a ELSE qualityAgent
           /\ pc' = IF finished' = {} THEN "poll" ELSE "collect"
    /\ UNCHANGED << mailbox, horizon, channelVars, pending, ready, controlledStop,
                    decision, closing, status, iteration, workerVars >>

(* Mutant: a failure is reported before a cancel. *)
PassStatus_FailureFirst ==
    CASE firstFailure # 0 -> "failed"
      [] firstFailure = 0 /\ controlledStop = "cancel" -> "cancelled"
      [] firstFailure = 0 /\ controlledStop = "correct" -> "correction_requested"
      [] OTHER -> IF qualityAgent # 0 THEN "quality_decision_required" ELSE "completed"

(* The precedence of the statuses. *)
PassStatus ==
    CASE controlledStop = "cancel" -> "cancelled"
      [] controlledStop = "correct" -> "correction_requested"
      [] controlledStop = "none" /\ firstFailure # 0 -> "failed"
      [] controlledStop = "none" /\ firstFailure = 0 /\ qualityAgent # 0 ->
            "quality_decision_required"
      [] OTHER -> "completed"

(* The conditions of DagScheduleResult.validate_result that a pass can      *)
(* meet or miss.                                                            *)
ValidResult(result, recs) ==
    /\ result = "completed" => \A a \in Agents : recs[a] = "completed"
    /\ result = "failed" => recs[firstFailure] \in {"failed", "interrupted"}
    /\ result = "quality_decision_required" =>
          /\ \A a \in Agents : recs[a] \notin {"failed", "interrupted"}
          /\ recs[qualityAgent] = "completed"
    /\ result = "correction_requested" =>
          \A a \in Agents : recs[a] # "interrupted"

(* Records for what was never launched, then the validated result. *)
FinishPass ==
    /\ pc = "exit"
    /\ records' = [a \in Agents |->
                      IF a \notin pending THEN records[a]
                      ELSE IF controlledStop = "cancel" THEN "cancelled" ELSE "skipped"]
    /\ status' = IF ValidResult(PassStatus, records') THEN PassStatus ELSE "invalid"
    /\ pc' = "done"
    /\ UNCHANGED << mailbox, horizon, channelVars, pending, active, ready, finished,
                    firstFailure, qualityAgent, controlledStop, decision, closing,
                    iteration, workerVars >>

(* The coordinator decides REVISE: a fresh runner and a fresh scheduler     *)
(* over the channel of the run.                                             *)
Revise ==
    /\ pc = "done"
    /\ status \in {"completed", "quality_decision_required"}
    /\ iteration < MaxIterations
    /\ iteration' = iteration + 1
    /\ pc' = "poll" /\ pending' = Agents
    /\ active' = {} /\ ready' = {} /\ finished' = {}
    /\ records' = [a \in Agents |-> "none"]
    /\ firstFailure' = 0 /\ qualityAgent' = 0
    /\ controlledStop' = "none" /\ decision' = "continue"
    /\ closing' = FALSE /\ status' = "none"
    /\ worker' = [a \in Agents |-> "idle"]
    /\ attempt' = [a \in Agents |-> 1]
    /\ UNCHANGED << mailbox, horizon, channelVars >>

(* Any other decision ends the run; the console is closed. *)
EndRun ==
    /\ pc = "done"
    /\ pc' = "ended"
    /\ UNCHANGED << mailbox, horizon, channelVars, pending, active, ready, finished,
                    records, firstFailure, qualityAgent, controlledStop, decision,
                    closing, status, iteration, workerVars >>
-----------------------------------------------------------------------------
(***************************************************************************)
(* The worker threads: DynamicAgentRunner.__call__ and _invoke_agent.      *)
(***************************************************************************)
MoveWorker(a, from, to) ==
    /\ worker[a] = from
    /\ worker' = [worker EXCEPT ![a] = to]

(* The top of the invocation loop: guidance is consumed, then a user stop   *)
(* ends the Agent.  Both take the channel's lock, which poll() holds.       *)
Admit(a) ==
    /\ pc # "accept"
    /\ MoveWorker(a, "admit", IF StopReason(a) THEN "interrupted" ELSE "reserving")
    /\ ConsumeGuidance(a)
    /\ UNCHANGED << mailbox, horizon, observed, pauseRequest, paused, correctionRequest,
                    cancelRequest, interruptRequests, schedVars, attempt >>

(* reserve_call checks again, before every attempt to get the funds. *)
Reserve(a) ==
    /\ pc # "accept"
    /\ MoveWorker(a, "reserving", IF StopReason(a) THEN "interrupted" ELSE "launching")
    /\ UNCHANGED << mailbox, horizon, channelVars, schedVars, attempt >>

(* The process is registered: from now on it can be interrupted. *)
Spawn(a) ==
    /\ MoveWorker(a, "launching", "running")
    /\ UNCHANGED << mailbox, horizon, channelVars, schedVars, attempt >>

(* The process ends by itself; its evidence is collected. *)
ProcessExits(a) ==
    /\ MoveWorker(a, "running", "collecting")
    /\ UNCHANGED << mailbox, horizon, channelVars, schedVars, attempt >>

(* A claimed process is terminated, and reaped at the latest after the      *)
(* shutdown grace.  The claim can come so late that the result no longer    *)
(* shows it; its evidence is then refused and the Agent fails.              *)
ProcessStopped(a) ==
    /\ MoveWorker(a, "stopping", "interrupted") \/ MoveWorker(a, "stopping", "failed")
    /\ UNCHANGED << mailbox, horizon, channelVars, schedVars, attempt >>

(* The accepted response; a TestReport that did not pass asks for a         *)
(* quality decision.                                                        *)
Respond(a) ==
    /\ \/ MoveWorker(a, "collecting", "completed")
       \/ a \in Testers /\ MoveWorker(a, "collecting", "rejecting")
    /\ UNCHANGED << mailbox, horizon, channelVars, schedVars, attempt >>

(* Correction, continuation, stream retry or the next route: the Agent goes *)
(* back to the top of the invocation loop.                                  *)
Retry(a) ==
    /\ attempt[a] < MaxAttempts
    /\ MoveWorker(a, "collecting", "admit")
    /\ attempt' = [attempt EXCEPT ![a] = @ + 1]
    /\ UNCHANGED << mailbox, horizon, channelVars, schedVars >>

(* Any exception of the runner: workspace or quality evidence, budget,      *)
(* launch, response.                                                        *)
Fail(a) ==
    /\ \E from \in {"admit", "reserving", "launching", "collecting"} :
          MoveWorker(a, from, "failed")
    /\ UNCHANGED << mailbox, horizon, channelVars, schedVars, attempt >>
-----------------------------------------------------------------------------
Scheduler ==
    \/ PollBegin \/ LoopEnds \/ PollAccept \/ PollDecide
    \/ LaunchAgent \/ PassOver \/ Settle
    \/ Wait \/ Collect \/ FinishPass

Worker(a) ==
    \/ Admit(a) \/ Reserve(a) \/ Spawn(a) \/ ProcessExits(a) \/ ProcessStopped(a)
    \/ Respond(a) \/ Retry(a) \/ Fail(a)

(* The run is over; nothing moves any more. *)
Ended == pc = "ended" /\ UNCHANGED vars

Next ==
    \/ ConsoleSubmit
    \/ Scheduler
    \/ Revise
    \/ EndRun
    \/ \E a \in Agents : Worker(a)
    \/ Ended

Spec == Init /\ [][Next]_vars

(* The scheduler thread and the workers always go on: polls are timed, and  *)
(* every process is bounded by a timeout or a liveness watchdog.  Nothing   *)
(* is assumed of the user.                                                  *)
FairSpec ==
    /\ Spec
    /\ WF_vars(Scheduler)
    /\ WF_vars(EndRun)
    /\ \A a \in Agents : WF_vars(Worker(a))
-----------------------------------------------------------------------------
(***************************************************************************)
(* Properties.                                                             *)
(***************************************************************************)

(* One clone, one Git index: while the thread of a writing Agent is at work *)
(* no other thread is, and never more threads than the approved cap         *)
(* (DagScheduler._can_launch and max_concurrency, across passes).           *)
WorkspaceExclusive ==
    LET busy == {a \in Agents : worker[a] \in InFlight}
    IN  /\ \A a \in busy \cap Writers : busy = {a}
        /\ Cardinality(busy) <= MaxConcurrency

(* An Agent starts only from handoffs of this pass: all its dependencies    *)
(* have been recorded completed before its thread exists.                   *)
DependenciesFirst ==
    \A a \in Agents : worker[a] # "idle" => Dependencies[a] \subseteq Completed

(* A paused run is quiescent: the pause is reported applied only when no    *)
(* Agent thread is left that could still call a provider.                   *)
PausedIsQuiescent == paused => \A a \in Agents : worker[a] \notin InFlight

(* No review is paid for while a Testing Agent is still at work, or once    *)
(* one has reported evidence that does not pass, recorded or not.           *)
ReviewAfterTests ==
    [][\A a \in Agents \ Testers :
          worker[a] = "idle" /\ worker'[a] = "admit" =>
             \A t \in Testers : worker[t] \notin InFlight \cup {"rejecting"}]_vars

(* After a failure, a rejecting test report, or a cancel, correction or     *)
(* pause the channel has accepted, the pass launches nothing.               *)
NoLaunchAfterStop ==
    [][(\/ cancelRequest # 0 \/ correctionRequest # 0
        \/ paused \/ pauseRequest # 0
        \/ firstFailure # 0 \/ qualityAgent # 0) => active' \subseteq active]_vars

(* The step resolves interrupt c as applied. *)
InterruptApplied(c) ==
    /\ mailbox[c].kind = "interrupt"
    /\ mailbox[c].status = "queued"
    /\ mailbox'[c].status = "applied"

(* A command takes effect once.  Its terminal revision is never rewritten   *)
(* (the store would refuse that), resolved guidance is taken away by the    *)
(* invocation that it reaches and never comes back, in this pass or a later *)
(* one, and an interrupt is applied only by winning the stop authority of a *)
(* live invocation, which one interrupt wins.                               *)
CommandsTakeEffectOnce ==
    [][\A c \in DOMAIN mailbox :
          /\ mailbox[c].status \in Terminal =>
                /\ mailbox'[c] = mailbox[c]
                /\ \A a \in Agents :
                      /\ c \notin guidance[a] => c \notin guidance'[a]
                      /\ worker[a] = "admit" /\ worker'[a] \in {"reserving", "interrupted"} =>
                            c \notin guidance'[a]
          /\ InterruptApplied(c) =>
                /\ worker[mailbox[c].agent] = "running"
                /\ worker'[mailbox[c].agent] = "stopping"
                /\ \A d \in DOMAIN mailbox :
                      InterruptApplied(d) /\ mailbox[d].agent = mailbox[c].agent => d = c]_vars

(* A cancel that is reported applied decides the run: the pass it meets     *)
(* ends cancelled, whatever correction, failure or result it races.         *)
CancelDecides ==
    pc \in {"done", "ended"} =>
        (status = "cancelled" <=> \E c \in DOMAIN mailbox :
             mailbox[c].kind = "cancel" /\ mailbox[c].status = "applied")

(* The result of a pass tells what its threads did: every thread has ended, *)
(* what counts as not started never started, a completed pass means every   *)
(* Agent completed and no tester reported evidence that fails, and the      *)
(* RuntimeError of execute ("no schedulable ready Agent") is never raised.  *)
ResultTellsTheWork ==
    pc \in {"done", "ended"} =>
        /\ \A a \in Agents : worker[a] \notin InFlight
        /\ \A a \in Agents : (records[a] \in {"skipped", "cancelled"}) <=> worker[a] = "idle"
        /\ status = "completed" => \A a \in Agents : worker[a] = "completed"
        /\ status # "unschedulable"

(* The run ends unless the user leaves it paused for ever, and an applied   *)
(* cancel reaches its cancellation report, paused or not.                   *)
RunEnds ==
    /\ <>(pc = "ended") \/ <>[](paused \/ pauseRequest # 0)
    /\ (cancelRequest # 0) ~> (pc = "ended" /\ status = "cancelled")
=============================================================================
