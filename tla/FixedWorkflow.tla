---------------------------- MODULE FixedWorkflow ----------------------------
(***************************************************************************)
(* WorkflowCoordinator.execute (workflow.py): the fixed team of Planner,   *)
(* Developer, Tester and Reviewer, and the single-Agent baseline, over the *)
(* same stores and terminal paths as the adaptive workflow.  An invocation *)
(* the coordinator makes in its own thread is a thread it joins at once.   *)
(***************************************************************************)
EXTENDS DynamicWorkflow

CONSTANTS
    Modes,        \* subset of {"dynamic", "team", "serial_team", "single"}
    RepairLimit,  \* artifact_repair_limit
    MaxRepairs    \* bound: corrected invocations in one run

VARIABLES
    mode,     \* which coordinator runs, and for the team: max_concurrency 2 or 1
    attempt,  \* role -> attempts of its current invocation
    repairs   \* corrected invocations so far

Roles == {"planner", "developer", "tester", "reviewer"}
fixedVars == <<mode, attempt, repairs>>

ASSUME FixedAssumption == Roles \subseteq Agents /\ RepairLimit \in Nat /\ MaxRepairs \in Nat

Untouched == Quiet /\ UNCHANGED <<mem, gate, commits, finished, stop, starting, decision, ended, mode>>

-----------------------------------------------------------------------------
(* _invoke *)

(* One attempt: reserve, announce, execute, settle, announce. *)
Attempt == <<Work("reserve"), Emit("any"), Work("settle"), Emit("any")>>

Call(roles, place) ==
    /\ todo' = [t \in Threads |-> IF t \in roles THEN Attempt ELSE todo[t]]
    /\ agent' = [a \in Agents |-> IF a \in roles THEN "running" ELSE agent[a]]
    /\ attempt' = [r \in Roles |-> IF r \in roles THEN 1 ELSE attempt[r]]
    /\ pc' = place

(* The ledger refuses: spent, or busy with the other verifier's paid call. *)
ReserveRefused(r) ==
    /\ Doing(r, "reserve")
    /\ Raise(r, "agent")
    /\ UNCHANGED <<rec, journal, bundle, records, jlock, mem, reserved, faults>>
    /\ UNCHANGED runVars /\ UNCHANGED fixedVars

(* The attempt is over: its response was assembled and written, or a first
   invalid one is corrected once, or the invocation fails. *)
InvokeEnds(r) ==
    /\ agent[r] = "running" /\ todo[r] = <<>>
    /\ \/ /\ raised[r] = "none"
          /\ \E report \in CASE r = "tester" -> {IF gate = "refused" THEN "error" ELSE gate}
                             [] r = "reviewer" -> {"accept", "revise", "fail"}
                             [] OTHER -> {"work"} :
                 output' = [output EXCEPT ![r] = report]
          /\ agent' = [agent EXCEPT ![r] = "done"]
          /\ UNCHANGED <<todo, attempt, repairs>>
       \/ /\ raised[r] = "none" /\ attempt[r] = 1 /\ attempt[r] <= RepairLimit
          /\ todo' = [todo EXCEPT ![r] = <<Emit("any")>> \o Attempt]
          /\ attempt' = [attempt EXCEPT ![r] = 2]
          /\ repairs < MaxRepairs /\ repairs' = repairs + 1
          /\ UNCHANGED <<output, agent>>
       \/ /\ output' = [output EXCEPT ![r] = "error"]
          /\ agent' = [agent EXCEPT ![r] = "done"]
          /\ UNCHANGED <<todo, attempt, repairs>>
    /\ Untouched /\ UNCHANGED <<raised, pc>>

(* The calls have returned; an AgentInvocationError propagates. *)
Joined(place, roles) ==
    /\ Ready(place) /\ \A r \in roles : agent[r] = "done"

Continue(roles, script, place) ==
    /\ IF \E r \in roles : output[r] = "error"
       THEN raised' = [raised EXCEPT ![Coord] = "agent"] /\ UNCHANGED <<todo, pc>>
       ELSE Run(script, place) /\ UNCHANGED raised
    /\ agent' = [a \in Agents |-> IF a \in roles THEN "pending" ELSE agent[a]]
    /\ attempt' = [r \in Roles |-> 0]
    /\ UNCHANGED <<output, repairs>>

-----------------------------------------------------------------------------
(* _execute_single_agent_run, as scripts: one writer, then the controller's own
   checks and no review. *)

SingleStart == <<Move("implementing", {})>>

SingleSnapshot ==
    <<Move("snapshotting", Refs("work_result", {"developer"})), Move("verifying", {}),
      Emit("verifying"), Emit("verifying"), Work("gate")>>

SingleEvidence == <<Work("artifact"), Move("reviewing", Refs("test_report", {Coord}))>>

SingleDecide == IF gate = "passed" THEN "accept" ELSE "fail"

SingleRecord ==
    <<WriteIteration([iteration |-> rec.iteration, decision |-> SingleDecide, test |-> gate,
                      reviews |-> {}, complete |-> TRUE]),
      Move("deciding", Refs("iteration_record", {Coord})), Emit("deciding")>>

(* _complete and _fail take the same steps as those of the adaptive workflow. *)
FixedCompleting == Completing
FixedFailing(reason) == Failing(reason)

-----------------------------------------------------------------------------
(* execute and _execute_planned_run *)

FixedBegin ==
    /\ Ready("boot")
    /\ Run(<<Move("preparing_workspace", {}), Work("prepare"), Move("planning", {}), Emit("planning")>>
           \o (IF mode = "single" THEN SingleStart ELSE <<>>),
           IF mode = "single" THEN "implement" ELSE "plan")
    /\ Untouched /\ UNCHANGED <<raised, agent, output, attempt, repairs>>

InvokePlanner ==
    /\ Ready("plan") /\ Call({"planner"}, "planned")
    /\ Untouched /\ UNCHANGED <<raised, output, repairs>>

(* The plan is handed to the Developer before the run enters IMPLEMENTING. *)
PlanReady ==
    /\ Joined("planned", {"planner"})
    /\ Continue({"planner"},
                <<Work("artifact"), Move("implementing", Refs("implementation_plan", {"planner"}))>>,
                "implement")
    /\ Untouched

InvokeDeveloper ==
    /\ Ready("implement") /\ Call({"developer"}, "implemented")
    /\ Untouched /\ UNCHANGED <<raised, output, repairs>>

WorkReady ==
    /\ Joined("implemented", {"developer"})
    /\ Continue({"developer"},
                IF mode = "single" THEN SingleSnapshot
                ELSE <<Move("snapshotting", Refs("work_result", {"developer"})), Move("verifying", {}),
                       Emit("verifying"), Work("artifact"), Emit("verifying"), Work("gate")>>,
                "verify")
    /\ Untouched

(* The gate's commands decide the status of every test report. *)
InvokeVerifiers ==
    /\ Ready("verify")
    /\ gate' \in IF mode = "single" THEN GateStatuses(Deterministic, {})
                 ELSE GateStatuses(Deterministic \cup Manual, Manual)
    /\ CASE mode = "single" ->
                /\ Run(SingleEvidence, "judge")
                /\ UNCHANGED <<agent, attempt>>
         [] mode = "serial_team" -> Call({"tester"}, "tested")
         [] OTHER -> Call({"tester", "reviewer"}, "verified")
    /\ Quiet /\ UNCHANGED <<mem, raised, output, commits, finished, stop, starting, decision, ended, mode, repairs>>

InvokeReviewer ==
    /\ Joined("tested", {"tester"})
    /\ IF output["tester"] = "error"
       THEN /\ raised' = [raised EXCEPT ![Coord] = "agent"]
            /\ UNCHANGED <<todo, pc, agent, attempt>>
       ELSE Call({"reviewer"}, "verified") /\ UNCHANGED raised
    /\ Untouched /\ UNCHANGED <<output, repairs>>

EvidenceReady ==
    /\ Joined("verified", {"tester", "reviewer"})
    /\ Continue({"tester", "reviewer"},
                <<Work("artifact"), Move("reviewing", Refs("test_report", {"tester"}))>>, "judge")
    /\ Untouched

(* _decide *)
FixedDecide ==
    IF gate = "blocked" \/ output["reviewer"] = "fail" THEN "fail"
    ELSE IF gate = "passed" /\ output["reviewer"] = "accept" THEN "accept"
    ELSE IF rec.iteration < IterationLimit THEN "revise" ELSE "fail"

FixedRecord ==
    <<WriteIteration([iteration |-> rec.iteration, decision |-> FixedDecide, test |-> gate,
                      reviews |-> {output["reviewer"]}, complete |-> TRUE]),
      Move("deciding", Refs("iteration_record", {Coord}) \cup Refs("review_report", {"reviewer"})),
      Emit("deciding")>>

FixedJudge ==
    /\ Ready("judge")
    /\ Run(IF mode = "single" THEN SingleRecord ELSE FixedRecord, "conclude")
    /\ decision' = [decision |-> IF mode = "single" THEN SingleDecide ELSE FixedDecide,
                    signature |-> "none", repeated |-> FALSE]
    /\ Quiet /\ UNCHANGED <<mem, raised, agent, output, gate, commits, finished, stop, starting, ended>>
    /\ UNCHANGED fixedVars

(* _decision_termination_reason; the baseline has one iteration. *)
FixedTerminationReasons ==
    CASE mode = "single" -> {"iteration_limit_reached"}
      [] mode # "single" /\ gate = "blocked" -> {"dependency_unavailable"}
      [] mode # "single" /\ gate # "blocked" /\ output["reviewer"] = "fail" -> FailedReview
      [] OTHER -> {"iteration_limit_reached"}

FixedConclude ==
    /\ Ready("conclude")
    /\ CASE decision.decision = "accept" -> Run(FixedCompleting, "ending")
         [] decision.decision = "fail" ->
                \E reason \in FixedTerminationReasons : Run(FixedFailing(reason), "ending")
         [] OTHER -> Run(<<Decided("implementing", "revise")>>, "implement")
    /\ Untouched /\ UNCHANGED <<raised, agent, output, attempt, repairs>>

FixedNext ==
    \/ FixedBegin \/ InvokePlanner \/ PlanReady \/ InvokeDeveloper \/ WorkReady
    \/ InvokeVerifiers \/ InvokeReviewer \/ EvidenceReady \/ FixedJudge \/ FixedConclude
    \/ \E r \in Roles : ReserveRefused(r) \/ InvokeEnds(r)

-----------------------------------------------------------------------------
(* Either coordinator over the stores. *)

Init ==
    /\ StoreInit
    /\ mode \in Modes
    /\ pc = "boot" /\ ended = "no" /\ stop = "none" /\ starting = "none" /\ gate = "none"
    /\ agent = [a \in Agents |-> "pending"] /\ output = [a \in Agents |-> "none"]
    /\ commits = <<>> /\ finished = <<>> /\ decision = NoDecision
    /\ attempt = [r \in Roles |-> 0] /\ repairs = 0

Next ==
    \/ StoreNext /\ UNCHANGED runVars /\ UNCHANGED fixedVars
    \/ (Return \/ Catch) /\ UNCHANGED fixedVars
    \/ mode = "dynamic" /\ DynamicNext /\ UNCHANGED fixedVars
    \/ mode # "dynamic" /\ FixedNext

vars == <<storeVars, runVars, fixedVars>>
Spec == Init /\ [][Next]_vars

-----------------------------------------------------------------------------
(* The workflow and its worker threads never trip over a check of the stores:
   no event is read at one lifecycle revision and journalled after a later
   one, no transition loses the optimistic race against an anchored event, and
   no decision or report is refused by the validators, unless an I/O error
   preceded (run_control.py replace, progress.py append, artifact_store.py
   _validate_references).  However the commands of a gate end, the test report
   assembled from them is valid (artifacts.py TestReport). *)
OnlyFaultsAreRefused ==
    /\ (\E t \in Threads : raised[t] = "refused") => faults # <<>>
    /\ gate # "refused"

(* An error that came after the file was in place: the directory fsync. *)
Torn == \E i \in DOMAIN faults : faults[i] = "late"

(* At every moment, a crash included, the journal on disk can be loaded and
   is what the record anchors, or one event ahead while the thread that holds
   the journal's lock has written a file and not yet anchored it.  An error
   that came after the file was in place may leave them one event apart. *)
JournalAnchored ==
    LET ahead == Len(journal) - rec.events
    IN  /\ Readable(journal)
        /\ IF Torn THEN ahead \in {-1, 0, 1} ELSE ahead = IF jlock # "free" THEN 1 ELSE 0

(* A terminal record has its three terminal files, whenever the process dies,
   unless the error came after the record was replaced; a run that ends without
   reaching one leaves no terminal file behind, unless the removal failed as
   well (bind_final_report_bundle). *)
BoundOrRolledBack ==
    /\ rec.phase \in Terminal /\ ~Torn => bundle = 3
    /\ ended # "no" /\ rec.phase \notin Terminal /\ Len(faults) < 2 => bundle = 0

(* A run is recorded as completed only when the gates passed on its last
   snapshot and every planned Review Agent was heard and accepts, however the
   reports arrived, and with one iteration record per iteration
   (dynamic_workflow.py _decide, artifact_store.py _validate_references). *)
CompletedOnEvidence ==
    rec.phase = "completed" =>
        /\ gate = "passed" /\ Len(records) = rec.iteration /\ rec.snaps = rec.iteration
        /\ mode = "dynamic" =>
            \A a \in Dynamic : agent[a] = "collected" /\ (a \in Reviewers => output[a] = "accept")
        /\ mode \in {"team", "serial_team"} => output["reviewer"] = "accept"

=============================================================================
