----------------------------- MODULE AgentRunner -----------------------------
(***************************************************************************)
(* DynamicAgentRunner (dynamic_runner.py): the threads that run the Agents *)
(* of one iteration over one Git workspace (git_workspace.py) and the one  *)
(* quality gate of the iteration (quality_gates.py).                       *)
(*                                                                         *)
(* A thread is in one of the places                                        *)
(*   idle -> turn -> done | failed | interrupted                           *)
(* and stays in turn for every continuation, stream retry, route switch    *)
(* and semantic correction.  A read-only Agent passes through "evidence",  *)
(* where one thread runs the gate and the others wait on the condition.    *)
(* Attempt numbers only count turns and are left out: whether the turns    *)
(* end is what InvocationsEnd asks.                                        *)
(***************************************************************************)
EXTENDS SemanticCorrection, Sequences, SequencesExt

CONSTANTS
    Writers,      \* the writing Agents, in dependency order
    Integrators,  \* those with the integration capability
    Testers,      \* Agents with the testing capability
    Reviewers,    \* Agents with the review capability
    BodyFields,   \* Agent -> the fields of the response body its artifact kind has
    Routes,       \* Agent -> number of model routes authorized for it
    Switching,    \* is switching on a provider failure approved
    RepairLimit,  \* artifact_repair_limit, or -1 for None
    MaxHead,      \* bound: commits of the workspace
    ToolStates    \* digests a list of tool calls can have

WriterSet == ToSet(Writers)
Quality == Testers \cup Reviewers
Agents == WriterSet \cup Quality

ASSUME RunnerAssumption ==
    /\ Writers \in Seq(WriterSet) /\ Writers # <<>> /\ IsInjective(Writers)
    /\ Integrators \subseteq WriterSet /\ WriterSet \cap Quality = {} /\ Testers \cap Reviewers = {}
    /\ BodyFields \in [Agents -> SUBSET Fields]
    /\ Routes \in [Agents -> Nat \ {0}] /\ Switching \in BOOLEAN
    /\ RepairLimit \in Nat \cup {-1} /\ MaxHead \in Nat

VARIABLES
    pc,       \* Agent -> place of its thread
    ws,       \* the workspace: HEAD, content of the dirty tree, identity, paths in scope
    latest,   \* DynamicAgentRunner._latest_commit
    quality,  \* _quality_state and _quality_commit
    local,    \* Agent -> variables of _invoke_agent
    outputs   \* Agent -> accepted artifact: the commits it binds

vars == <<pc, ws, latest, quality, local, outputs>>

Ended == {"done", "failed", "interrupted"}
Commits == 0..MaxHead
None == -1
NoOutput == [input |-> None, output |-> None]
Nothing == [reply |-> FALSE, failure |-> "none", continue |-> "none", plan |-> NoPlan,
            stream |-> FALSE, provider |-> FALSE]

-----------------------------------------------------------------------------
(* GitWorkspaceManager *)

Clean(w) == w.dirty = 0

(* verify_workspace: identity, detached HEAD, no remote, then commit and cleanliness. *)
Verified(w, commit) == w.intact /\ Clean(w) /\ commit \in {None, w.head}

(* verify_snapshot: a clean commit that descends from the input; a smaller
   number stands for a commit that does not. *)
Snapshot(w, commit) == Verified(w, None) /\ w.head > commit

(* inspect_progress of a workspace that may be dirty: when it raises nothing,
   and the digest it returns. *)
Inspectable(w, commit) == w.intact /\ w.head >= commit
ProgressState(w) == << w.head, w.dirty >>

(* GitWorkspaceProgress.made_progress *)
MadeProgress(w, commit) == w.head # commit \/ ~Clean(w)

(* What a process with the writer's permissions may leave behind: any commit
   with or without uncommitted changes, another repository identity, or a
   commit outside the Agent's scope. *)
WrittenBy(w) ==
    {[w EXCEPT !.intact = FALSE], [w EXCEPT !.head = MaxHead, !.scoped = FALSE]} \cup
    [head : Commits, dirty : {0, 1}, intact : {w.intact}, scoped : {w.scoped}]

(* prepare: a clean detached clone at the base commit. *)
Prepared == [head |-> 0, dirty |-> 0, intact |-> TRUE, scoped |-> TRUE]

-----------------------------------------------------------------------------
(* Entering an Agent *)

FreshLocal(input) ==
    [input |-> input, route |-> 1, streams |-> 0, mode |-> "base", plan |-> NoPlan,
     corrections |-> 0, frozen |-> None, seenFailures |-> {}, seenStates |-> {}, seenTools |-> {}]

Dependencies(a) ==
    IF a \in Quality THEN WriterSet
    ELSE {Writers[i] : i \in {j \in DOMAIN Writers : \E k \in DOMAIN Writers : Writers[k] = a /\ j < k}}

(* The exception leaves _invoke_agent and __call__ turns it into an outcome:
   interrupted if the user stopped the work, failed otherwise. *)
Fail(a, why) ==
    /\ pc' = [pc EXCEPT ![a] = IF why = "user" THEN "interrupted" ELSE "failed"]
    /\ local' = [local EXCEPT ![a] = FreshLocal(None)]

(* Mutant: a read-only Agent does not wait for its dependencies. *)
CallEarly(a) ==
    /\ pc[a] = "idle"
    /\ pc' = [pc EXCEPT ![a] = IF a \in Quality THEN "evidence" ELSE "turn"]
    /\ local' = [local EXCEPT ![a] = FreshLocal(latest)]
    /\ UNCHANGED <<ws, latest, quality, outputs>>

(* The scheduler calls the runner once the dependencies are complete; the
   incoming handoffs are written from their outputs.  _begin_writer checks
   the workspace against the controller's commit. *)
Call(a) ==
    /\ pc[a] = "idle"
    /\ \A d \in Dependencies(a) : pc[d] = "done" /\ outputs[d] # NoOutput
    /\ CASE a \in Quality -> pc' = [pc EXCEPT ![a] = "evidence"] /\ UNCHANGED local
         [] a \in WriterSet /\ Verified(ws, latest) ->
                /\ pc' = [pc EXCEPT ![a] = "turn"]
                /\ local' = [local EXCEPT ![a] = FreshLocal(latest)]
         [] OTHER -> Fail(a, "safety")
    /\ UNCHANGED <<ws, latest, quality, outputs>>

(* _ensure_quality_evidence, under the condition: claim the gate, wait for
   the thread that runs it, or take what it found. *)
ClaimGate(a) ==
    /\ pc[a] = "evidence" /\ quality.state = "pending"
    /\ quality' = [quality EXCEPT !.state = "running", !.commit = latest]
    /\ pc' = [pc EXCEPT ![a] = "gate"]
    /\ UNCHANGED <<ws, latest, local, outputs>>

TakeEvidence(a) ==
    /\ pc[a] = "evidence" /\ quality.state \in {"ready", "failed"}
    /\ IF quality.state = "ready"
       THEN /\ pc' = [pc EXCEPT ![a] = "turn"]
            /\ local' = [local EXCEPT ![a] = FreshLocal(quality.commit)]
       ELSE Fail(a, quality.error)
    /\ UNCHANGED <<ws, latest, quality, outputs>>

(* QualityGateRunner.run outside the condition: how it can end. *)
GateErrors == {"resource", "dependency", "execution"}

(* Mutant: only the success path publishes and notifies. *)
RunGateSilentFailure(a) ==
    /\ pc[a] = "gate"
    /\ \E after \in {ws, [ws EXCEPT !.dirty = 1]} :
        /\ ws' = after
        /\ IF Verified(ws, quality.commit) /\ Verified(after, quality.commit)
           THEN /\ quality' = [quality EXCEPT !.state = "ready"]
                /\ pc' = [pc EXCEPT ![a] = "turn"]
                /\ local' = [local EXCEPT ![a] = FreshLocal(quality.commit)]
           ELSE Fail(a, "safety") /\ UNCHANGED quality
    /\ UNCHANGED <<latest, outputs>>

RunGate(a) ==
    /\ pc[a] = "gate"
    /\ \E after \in {ws, [ws EXCEPT !.dirty = 1]}, error \in GateErrors \cup {"none"} :
        LET unchanged == Verified(ws, quality.commit) /\ Verified(after, quality.commit)
            why == IF error # "none" THEN error ELSE "safety"
        IN  /\ ws' = after
            /\ IF error = "none" /\ unchanged
               THEN /\ quality' = [quality EXCEPT !.state = "ready"]
                    /\ pc' = [pc EXCEPT ![a] = "turn"]
                    /\ local' = [local EXCEPT ![a] = FreshLocal(quality.commit)]
               ELSE /\ quality' = [quality EXCEPT !.state = "failed", !.error = why]
                    /\ Fail(a, why)
    /\ UNCHANGED <<latest, outputs>>

-----------------------------------------------------------------------------
(* One turn of _invoke_agent *)

(* A continuation is consumed by the request that is built from it; it must
   not meet a pending correction. *)
Overlap(a) == local[a].mode # "base" /\ local[a].plan # NoPlan

(* The turn ends before a call is made: the user stopped the work, the two
   kinds of request overlap, or the spend ledger does not admit the call. *)
TurnRefused(a) ==
    /\ pc[a] = "turn"
    /\ \E why \in {"user", "resource"} \cup (IF Overlap(a) THEN {"controller"} ELSE {}) : Fail(a, why)
    /\ UNCHANGED <<ws, latest, quality, outputs>>

(* The request is built, admitted and executed. *)
Calling(a) == pc[a] = "turn" /\ ~Overlap(a)

(* After the call: persist_agent_invocation settles the reservation and
   records the execution, then the loop decides. *)

Again(a, updated) ==
    /\ pc' = [pc EXCEPT ![a] = "turn"]
    /\ local' = [local EXCEPT ![a] = updated]
    /\ UNCHANGED <<latest, outputs>>

(* _finish_writer, the output and the terminal handoff. *)
Accept(a, mine) ==
    IF a \in WriterSet /\ latest # mine.input
    THEN Fail(a, "safety") /\ UNCHANGED <<latest, outputs>>
    ELSE /\ latest' = IF a \in WriterSet THEN mine.frozen ELSE latest
         /\ outputs' = [outputs EXCEPT ![a] = [input |-> mine.input, output |-> mine.frozen]]
         /\ pc' = [pc EXCEPT ![a] = "done"]
         /\ local' = [local EXCEPT ![a] = FreshLocal(None)]

Decide(a, j, updated) ==
    LET mine == [updated EXCEPT !.mode = "base"]
        unavailable == j.failure = "dependency"
        retry == j.stream /\ unavailable
        switch == j.provider /\ unavailable /\ Switching /\ mine.route < Routes[a]
        repair == j.plan # NoPlan /\ (RepairLimit = -1 \/ mine.corrections < RepairLimit)
        spent == IF RepairLimit = -1 THEN 0 ELSE mine.corrections + 1
    IN  \/ j.reply /\ Accept(a, mine)
        \/ /\ j.continue # "none"
           /\ Again(a, [mine EXCEPT !.mode = j.continue, !.streams = IF j.stream THEN @ + 1 ELSE @])
        \/ /\ ~j.reply /\ j.continue = "none"
           /\ CASE retry -> Again(a, [mine EXCEPT !.streams = @ + 1])
                [] ~retry /\ switch -> Again(a, [mine EXCEPT !.route = @ + 1])
                [] ~retry /\ ~switch /\ repair ->
                    Again(a, [mine EXCEPT !.plan = j.plan, !.corrections = spent])
                [] OTHER -> Fail(a, j.failure) /\ UNCHANGED <<latest, outputs>>

Return(a, after, verdict, updated) ==
    /\ ws' = after
    /\ Decide(a, verdict, updated)
    /\ UNCHANGED quality

Failed(why) == [Nothing EXCEPT !.failure = why]

(* What the process of an Agent may have done to the workspace: the sandbox
   of a read-only Agent mounts it read-only, a leak is what the check is for. *)
Aftermath(a) == IF a \in WriterSet THEN WrittenBy(ws) ELSE {ws, [ws EXCEPT !.dirty = 1]}

(* _validate_execution_result refuses the telemetry, or a continuation came
   back from another session; and a result that says the user interrupted. *)
ReturnUnusable(a) ==
    /\ Calling(a)
    /\ \E after \in Aftermath(a), why \in {"safety", "dependency", "user"} :
        Return(a, after, Failed(why), local[a])

(* Whatever came back, the ledger reports exhausted or unknown usage: the
   invocation fails for that, or as interrupted if that is its status. *)
ReturnExhausted(a) ==
    /\ Calling(a)
    /\ ws' \in Aftermath(a)
    /\ \E why \in {"resource", "user"} : Fail(a, why)
    /\ UNCHANGED <<latest, quality, outputs>>

(* Execution ended without completing: an upstream turn without submission, a
   provider failure (a terminated stream or another; safe: no submission was
   seen and the process is gone), or another status. *)
Incomplete ==
    {[kind |-> "upstream", safe |-> s] : s \in BOOLEAN} \cup
    {[kind |-> k, safe |-> s] : k \in {"stream", "provider"}, s \in BOOLEAN} \cup
    {[kind |-> k, safe |-> FALSE] : k \in {"stalled", "timed_out"}}

StatusReason(kind) == IF kind = "timed_out" THEN "resource" ELSE "dependency"

IncompleteVerdict(a, result) ==
    [Failed(StatusReason(result.kind)) EXCEPT
        !.stream = result.kind = "stream" /\ result.safe /\ local[a].streams < 1,
        !.provider = result.kind \in {"stream", "provider"} /\ result.safe]

(* _classify_incomplete_attempt for a writer. *)
ReturnIncompleteWriter(a) ==
    /\ Calling(a) /\ a \in WriterSet
    /\ \E after \in WrittenBy(ws), result \in Incomplete :
        LET failed == IncompleteVerdict(a, result)
            mine == local[a]
            state == ProgressState(after)
            progress == MadeProgress(after, mine.input)
            noted == [mine EXCEPT !.seenStates = @ \cup {state}]
        IN  IF ~Inspectable(after, mine.input) \/ ~after.scoped
            THEN Return(a, after, [failed EXCEPT !.failure = "safety"], mine)
            ELSE IF mine.plan = NoPlan /\ result.kind = "upstream" /\ progress
                    /\ state \notin mine.seenStates
            THEN Return(a, after, [Nothing EXCEPT !.continue = "continue"], noted)
            ELSE IF mine.plan = NoPlan /\ failed.stream /\ progress
            THEN Return(a, after, [failed EXCEPT !.continue = "continue"], noted)
            ELSE Return(a, after, failed, mine)

(* _classify_incomplete_attempt for a read-only Agent: same session, once per
   list of tool observations. *)
ReturnIncompleteReader(a) ==
    /\ Calling(a) /\ a \in Quality
    /\ \E after \in Aftermath(a), result \in Incomplete, tools \in ToolStates :
        LET failed == IncompleteVerdict(a, result)
            mine == local[a]
        IN  IF ~Verified(after, mine.input)
            THEN Return(a, after, [failed EXCEPT !.failure = "safety"], mine)
            ELSE IF result.kind = "upstream" /\ result.safe /\ mine.plan = NoPlan
                    /\ tools \notin mine.seenTools
            THEN Return(a, after, [Nothing EXCEPT !.continue = "readonly"],
                        [mine EXCEPT !.seenTools = @ \cup {tools}])
            ELSE Return(a, after, failed, mine)

-----------------------------------------------------------------------------
(* A completed execution *)

(* Mutant: a correction of a writer only has to leave a clean workspace. *)
WorkspaceAcceptedClean(a, after) == Verified(after, None) /\ after.head >= local[a].input

(* _verify_workspace_after_call, or the frozen commit during a correction. *)
WorkspaceAccepted(a, after) ==
    IF a \in Quality THEN Verified(after, local[a].input)
    ELSE IF local[a].plan # NoPlan THEN Verified(after, local[a].frozen)
    ELSE \/ Verified(after, local[a].input)
         \/ Snapshot(after, local[a].input) /\ after.scoped

(* _assemble_response: a writer that committed nothing is only accepted as a
   verified no-op of an integrator that follows a writer. *)
Assembles(a, commit, verifiedNoOp) ==
    \/ a \in Quality
    \/ commit # local[a].input
    \/ /\ a \in Integrators /\ verifiedNoOp
       /\ \E d \in Dependencies(a) : outputs[d].output = local[a].input

(* _accept_completed_attempt: payload is what the submission, or the
   correction applied to the response it corrects, amounts to. *)
Judge(a, payload, mine, verifiedNoOp) ==
    LET issues == Diagnostic(payload)
        goesOn == mine.plan = NoPlan \/ Improved(mine.plan, issues, mine.seenFailures)
    IN  IF issues = {} /\ Assembles(a, mine.frozen, verifiedNoOp)
        THEN <<[Nothing EXCEPT !.reply = TRUE], mine>>
        ELSE IF issues = {} THEN <<Failed("nochange"), mine>>
        ELSE IF goesOn
        THEN <<[Failed("artifact") EXCEPT !.plan = BuildPlan(payload, issues, a \in Reviewers)],
               [mine EXCEPT !.seenFailures = @ \cup {issues}]>>
        ELSE <<Failed("artifact"), mine>>

Bodies(a) == {p \in Payloads : \A f \in Fields \ BodyFields[a] : p[f] = "ok"}

ReturnCompleted(a) ==
    /\ Calling(a)
    /\ \E after \in Aftermath(a), verifiedNoOp \in (IF a \in Integrators THEN BOOLEAN ELSE {FALSE}) :
        LET mine == IF local[a].plan # NoPlan THEN local[a]
                    ELSE [local[a] EXCEPT !.frozen = after.head]
        IN  \/ /\ ~WorkspaceAccepted(a, after)
               /\ Return(a, after, Failed("safety"), local[a])
            \/ /\ WorkspaceAccepted(a, after)
               /\ \/ Return(a, after, Failed("artifact"), mine)  \* no typed submission
                  \/ /\ mine.plan = NoPlan
                     /\ \E payload \in Bodies(a) :
                            LET j == Judge(a, payload, mine, verifiedNoOp) IN Return(a, after, j[1], j[2])
                  \/ /\ mine.plan # NoPlan
                     /\ \E submission \in Submissions(mine.plan) :
                            IF Refused(mine.plan, submission) # {}
                            THEN Return(a, after, [Failed("artifact") EXCEPT
                                                    !.plan = RecoveryPlan(mine.plan, submission)], mine)
                            ELSE LET j == Judge(a, Applied(mine.plan, submission), mine, verifiedNoOp)
                                 IN  Return(a, after, j[1], j[2])

-----------------------------------------------------------------------------

Init ==
    /\ pc = [a \in Agents |-> "idle"]
    /\ ws = Prepared /\ latest = 0
    /\ quality = [state |-> "pending", commit |-> None, error |-> "none"]
    /\ local = [a \in Agents |-> FreshLocal(None)]
    /\ outputs = [a \in Agents |-> NoOutput]

Step(a) ==
    \/ ClaimGate(a) \/ TakeEvidence(a) \/ RunGate(a) \/ TurnRefused(a)
    \/ ReturnUnusable(a) \/ ReturnExhausted(a) \/ ReturnIncompleteWriter(a) \/ ReturnIncompleteReader(a)
    \/ ReturnCompleted(a)

Next == \E a \in Agents : Call(a) \/ Step(a)

Spec == Init /\ [][Next]_vars

(* Some thread that can go on does: the executor has a time limit, and the
   holder of the gate never waits.  Nothing stronger is needed, since every
   behaviour without stuttering is finite. *)
FairSpec == Spec /\ WF_vars(Next)

-----------------------------------------------------------------------------
(* Properties *)

(* Every accepted quality report is bound to the commit at which the last
   accepted writer left the workspace, the one the gate measured, whichever
   thread ran the gate and whatever the others did (_ensure_quality_evidence,
   _finish_writer). *)
ReportsShareOneCommit ==
    /\ \A q \in Quality : outputs[q] # NoOutput =>
            /\ quality.state = "ready" /\ quality.commit = latest
            /\ outputs[q] = [input |-> latest, output |-> latest]
    /\ \A i \in DOMAIN Writers : outputs[Writers[i]] # NoOutput =>
            outputs[Writers[i]].input = IF i = 1 THEN 0 ELSE outputs[Writers[i - 1]].output

(* What a writer's artifact names is what is in the workspace when it is
   accepted: a clean tree at that commit, even if the accepted payload came
   from a later correction turn whose process could still write. *)
AcceptedAtHead ==
    [][\A w \in WriterSet : outputs'[w] # outputs[w] =>
            Verified(ws', outputs'[w].output) /\ latest' = ws'.head]_vars

(* Every called Agent is decided: no loop of continuations, stream retries,
   route switches and corrections goes on for ever, without a repair limit
   too, and no thread is left waiting for the quality gate. *)
InvocationsEnd ==
    \A a \in Agents : pc[a] # "idle" ~> pc[a] \in Ended
=============================================================================
