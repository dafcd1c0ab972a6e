--------------------------- MODULE DynamicWorkflow ---------------------------
(***************************************************************************)
(* DynamicWorkflowCoordinator.execute (dynamic_workflow.py): one adaptive  *)
(* run from its record's creation to its terminal report.  The coordinator *)
(* thread is also the scheduler's; one thread per launched Agent emits     *)
(* into the same journal.  DagScheduler models the scheduler in detail;    *)
(* here it is what the coordinator relies on: writers in order, Testing    *)
(* Agents after every writer, Review Agents after every Testing Agent,     *)
(* nothing launched after a failure, a failed test or a stop.              *)
(***************************************************************************)
EXTENDS RunStores, TestEvidence

CONSTANTS
    Writers,     \* sequence of the implementation and integration Agents
    Testers,
    Reviewers,
    Signatures   \* distinct sets of blocking findings and reasons

VARIABLES
    pc,        \* place of the coordinator thread
    agent,     \* Agent -> state in the current schedule
    output,    \* Agent -> what it reported in the current schedule
    gate,      \* status of the deterministic evidence of this iteration
    commits,   \* writers in the order in which they committed
    finished,  \* writers in the order in which the scheduler collected them
    stop,      \* why the scheduler launches nothing more
    starting,  \* the Agent whose AGENT_STARTED is being observed
    decision,  \* decision of the last iteration and its signature
    ended      \* how execute left: "no", "returned" or "raised"

runVars == <<pc, agent, output, gate, commits, finished, stop, starting, decision, ended>>

Dynamic == {Writers[i] : i \in DOMAIN Writers} \cup Testers \cup Reviewers
WriterSet == {Writers[i] : i \in DOMAIN Writers}

(* TeamPlan: every Agent has one capability, and there is somebody to write and
   somebody to judge. *)
ASSUME TeamAssumption ==
    /\ Dynamic \subseteq Agents /\ WriterSet \cap (Testers \cup Reviewers) = {}
    /\ Writers \in Seq(Agents) /\ Writers # <<>> /\ Testers \cup Reviewers # {}

Refs(kind, agents) == {<<kind, a, rec.iteration>> : a \in agents}
Collected(set) == {a \in set : agent[a] = "collected"}
NoDecision == [decision |-> "none", signature |-> "none", repeated |-> FALSE]

(* Run a script, then continue at a place. *)
Run(script, place) ==
    /\ todo' = [todo EXCEPT ![Coord] = script]
    /\ pc' = place

Quiet == UNCHANGED <<rec, journal, bundle, records, hold, jlock, reserved, faults>>
Ready(place) == pc = place /\ todo[Coord] = <<>> /\ raised[Coord] = "none" /\ ended = "no"

-----------------------------------------------------------------------------
(* execute: everything up to the first schedule.  RUN_STARTED is emitted
   before the try block, so an error there leaves the run as created. *)
DynamicBegin ==
    /\ Ready("boot")
    /\ Run(<<Move("preparing_workspace", {}), Work("prepare"), Move("planning", {}),
             Emit("planning"), Move("implementing", {})>>, "revise")
    /\ Quiet /\ UNCHANGED <<mem, raised, agent, output, gate, commits, finished, stop, starting, decision, ended>>

(* A new DynamicAgentRunner and a new schedule; every Agent is announced. *)
StartSchedule ==
    /\ Ready("revise")
    /\ Run(<<Emit("any")>>, "schedule")
    /\ agent' = [a \in Agents |-> "pending"]
    /\ output' = [a \in Agents |-> "none"]
    /\ gate' = "none" /\ commits' = <<>> /\ finished' = <<>>
    /\ stop' = "none" /\ starting' = "none"
    /\ Quiet /\ UNCHANGED <<mem, raised, decision, ended>>

(* Mutant: a quality Agent is ready while the last writer still runs. *)
DependenciesRunning(a) ==
    /\ a \in Testers \cup Reviewers => \A w \in WriterSet : agent[w] # "pending"
    /\ a \in Reviewers => \A t \in Testers : agent[t] = "collected"

(* DagScheduler's readiness, as the plan's dependencies make it. *)
DependenciesMet(a) ==
    /\ a \in WriterSet =>
        \A i \in DOMAIN Writers : (\E j \in DOMAIN Writers : Writers[j] = a /\ i < j)
            => agent[Writers[i]] = "collected"
    /\ a \in Testers \cup Reviewers => \A w \in WriterSet : agent[w] = "collected"
    /\ a \in Reviewers => \A t \in Testers : agent[t] = "collected"

(* _validate_work_chain: the writers' commits, in the order in which the
   scheduler reported them, are one chain that ends at the snapshot. *)
WorkChain == finished = commits

(* observe, for AGENT_STARTED: the first quality Agent of the iteration takes
   the run over its snapshot before it starts. *)
Launch(a) ==
    /\ Ready("schedule") /\ stop = "none"
    /\ agent[a] = "pending" /\ DependenciesMet(a)
    /\ starting' = a
    /\ IF a \in WriterSet \/ rec.phase = "verifying"
       THEN Run(<<Emit("any")>>, "submit") /\ UNCHANGED raised
       ELSE IF WorkChain
            THEN /\ Run(<<Move("snapshotting", Refs("work_result", WriterSet)), Move("verifying", {}),
                          Emit("verifying"), Emit("verifying"), Emit("any")>>, "submit")
                 /\ UNCHANGED raised
            ELSE raised' = [raised EXCEPT ![Coord] = "refused"] /\ UNCHANGED <<todo, pc>>
    /\ Quiet /\ UNCHANGED <<mem, agent, output, gate, commits, finished, stop, decision, ended>>

(* executor.submit: the Agent's thread reserves, reports its activity and
   settles. *)
Submit ==
    /\ Ready("submit")
    /\ agent' = [agent EXCEPT ![starting] = "running"]
    /\ todo' = [todo EXCEPT ![starting] = <<Work("reserve"), Emit("any"), Work("settle")>>]
    /\ raised' = [raised EXCEPT ![starting] = "none"]
    /\ pc' = "schedule"
    /\ Quiet /\ UNCHANGED <<mem, output, gate, commits, finished, stop, starting, decision, ended>>

Reports(a) ==
    CASE a \in WriterSet -> {"work"}
      [] a \in Testers -> IF gate = "none" THEN GateStatuses(Deterministic \cup Manual, Manual) ELSE {gate}
      [] OTHER -> {"accept", "revise", "fail"}

(* The thread of an Agent ends: an exception of the runner becomes a failed
   outcome.  The Testing Agents share one deterministic evidence. *)
AgentEnds(a) ==
    /\ agent[a] = "running" /\ todo[a] = <<>>
    /\ \E report \in IF raised[a] = "none" THEN Reports(a) \cup {"error"} ELSE {"error"} :
        /\ output' = [output EXCEPT ![a] = IF report = "refused" THEN "error" ELSE report]
        /\ gate' = IF a \in Testers /\ report # "error" THEN report ELSE gate
        /\ commits' = IF report = "work" THEN Append(commits, a) ELSE commits
    /\ agent' = [agent EXCEPT ![a] = "done"]
    /\ Quiet /\ UNCHANGED <<todo, mem, raised, pc, finished, stop, starting, decision, ended>>

(* One finished future, reported to the observer. *)
Collect(a) ==
    /\ Ready("schedule") /\ agent[a] = "done"
    /\ Run(<<Emit("any")>>, "schedule")
    /\ agent' = [agent EXCEPT ![a] = IF output[a] = "error" THEN "failed" ELSE "collected"]
    /\ finished' = IF a \in WriterSet /\ output[a] # "error" THEN Append(finished, a) ELSE finished
    /\ stop' = CASE stop # "user" /\ output[a] = "error" -> "failed"
                 [] stop = "none" /\ output[a] \in {"failed", "blocked"} -> "quality"
                 [] OTHER -> stop
    /\ Quiet /\ UNCHANGED <<mem, raised, output, gate, commits, starting, decision, ended>>

(* RuntimeControlChannel.poll returned CANCEL or CORRECT. *)
UserStop ==
    /\ Ready("schedule") /\ stop \in {"none", "failed", "quality"}
    /\ stop' = "user"
    /\ Quiet /\ UNCHANGED <<todo, mem, raised, pc, agent, output, gate, commits, finished, starting, decision, ended>>

Idle == \A a \in Agents : agent[a] \notin {"running", "done"}

(* DagScheduler.execute returns; the Agents it never launched are skipped. *)
EndSchedule ==
    /\ Ready("schedule") /\ Idle
    /\ stop # "none" \/ \A a \in Dynamic : agent[a] = "collected"
    /\ Run(IF \A a \in Dynamic : agent[a] # "pending" THEN <<>> ELSE <<Emit("any")>>, "scheduled")
    /\ commits' = <<>> /\ finished' = <<>> /\ starting' = "none"  \* not read again
    /\ Quiet /\ UNCHANGED <<mem, raised, agent, output, gate, stop, decision, ended>>

(* The terminal paths _fail, _stop_by_user and _complete. *)
Failing(reason) == <<WriteBundle("failed"), Bind("failed", reason), Emit("failed")>>
Completing ==
    <<Decided("delivering", "accept"), WriteBundle("completed"), Bind("completed", "succeeded"),
      Emit("completed")>>

(* What follows the schedule: a stop or a failure is terminal, anything else
   has to have crossed one snapshot. *)
AfterSchedule ==
    /\ Ready("scheduled")
    /\ \/ /\ stop \in {"user", "failed"}
          /\ Run(Failing(stop), "ending") /\ UNCHANGED raised
       \/ /\ stop \notin {"user", "failed"} /\ rec.phase # "verifying"
          /\ raised' = [raised EXCEPT ![Coord] = "refused"] /\ UNCHANGED <<todo, pc>>
       \/ /\ stop \notin {"user", "failed"} /\ rec.phase = "verifying"
          /\ Run(<<Move("reviewing", Refs("test_report",
                         IF Collected(Testers) = {} THEN {Coord} ELSE Collected(Testers)))>>, "decide")
          /\ UNCHANGED raised
    /\ Quiet /\ UNCHANGED <<mem, agent, output, gate, commits, finished, stop, starting, decision, ended>>

(* _decide *)
DynamicDecide(test, verdicts) ==
    IF test = "blocked" \/ "fail" \in verdicts THEN "fail"
    ELSE IF test = "passed" /\ verdicts \subseteq {"accept"} THEN "accept"
    ELSE IF rec.iteration < IterationLimit THEN "revise" ELSE "fail"

(* Mutant: only verdicts that end the run are looked at. *)
VerdictsBlocking == {output[r] : r \in Collected(Reviewers)} \ {"revise"}

Verdicts == {output[r] : r \in Collected(Reviewers)}

(* The same correctable blockers twice in a row end the run. *)
Repeated(signature) ==
    /\ gate # "blocked" /\ "fail" \notin Verdicts
    /\ ~(gate = "passed" /\ Verdicts \subseteq {"accept"})
    /\ decision.signature = signature

RecordDecision ==
    /\ Ready("decide")
    /\ \E signature \in Signatures :
        LET choice == IF Repeated(signature) THEN "fail" ELSE DynamicDecide(gate, Verdicts)
        IN  /\ decision' = [decision |-> choice,
                            signature |-> IF choice = "revise" THEN signature ELSE "none",
                            repeated |-> Repeated(signature)]
            /\ Run(<<WriteIteration([iteration |-> rec.iteration, decision |-> choice, test |-> gate,
                                     reviews |-> Verdicts,
                                     complete |-> \A a \in Dynamic : agent[a] = "collected"]),
                     Move("deciding", Refs("review_report", Collected(Reviewers))
                                      \cup Refs("iteration_record", {Coord})),
                     Emit("deciding")>>, "act")
    /\ Quiet /\ UNCHANGED <<mem, raised, agent, output, gate, commits, finished, stop, starting, ended>>

(* _decision_termination_reason; a Review Agent that fails the run says whether
   the evidence or the safety boundary made it. *)
FailedReview == {"artifact_invalid", "safety_boundary_crossed"}
TerminationReasons ==
    CASE decision.repeated -> {"repeated_blocker"}
      [] ~decision.repeated /\ gate = "blocked" -> {"dependency_unavailable"}
      [] ~decision.repeated /\ gate # "blocked" /\ "fail" \in Verdicts -> FailedReview
      [] OTHER -> {IF rec.iteration >= IterationLimit THEN "iteration_limit_reached"
                   ELSE "execution_failed"}

ActOnDecision ==
    /\ Ready("act")
    /\ CASE decision.decision = "accept" -> Run(Completing, "ending")
         [] decision.decision = "fail" ->
                \E reason \in TerminationReasons : Run(Failing(reason), "ending")
         [] OTHER -> Run(<<Decided("implementing", "revise")>>, "revise")
    /\ Quiet /\ UNCHANGED <<mem, raised, agent, output, gate, commits, finished, stop, starting, decision, ended>>

(* Leaving execute: by the return of a terminal path, or through the handler,
   which reports a run that is not terminal yet as failed and otherwise
   re-raises.  The scheduler's thread pool is joined before the handler runs. *)
Return ==
    /\ Ready("ending") \/ Ready("handling")
    /\ ended' = "returned"
    /\ Quiet /\ UNCHANGED <<todo, mem, raised, pc, agent, output, gate, commits, finished, stop, starting, decision>>

Catch ==
    /\ raised[Coord] # "none" /\ ended = "no"
    /\ \A a \in Agents : todo[a] = <<>>
    /\ IF pc \in {"boot", "handling"} \/ rec.phase \in Terminal
       THEN ended' = "raised" /\ UNCHANGED <<todo, pc, mem, raised>>
       ELSE /\ Run(Failing("controller_error"), "handling")
            /\ mem' = rec.revision
            /\ raised' = [raised EXCEPT ![Coord] = "none"]
            /\ UNCHANGED ended
    /\ Quiet /\ UNCHANGED <<agent, output, gate, commits, finished, stop, starting, decision>>

DynamicNext ==
    \/ StoreNext /\ UNCHANGED runVars
    \/ DynamicBegin \/ StartSchedule \/ Submit \/ UserStop \/ EndSchedule \/ AfterSchedule
    \/ RecordDecision \/ ActOnDecision \/ Return \/ Catch
    \/ \E a \in Dynamic : Launch(a) \/ AgentEnds(a) \/ Collect(a)
=============================================================================
