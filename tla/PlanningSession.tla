--------------------------- MODULE PlanningSession ---------------------------
(***************************************************************************)
(* One planning dialogue (planning.py, planning_terminal.py): the store of *)
(* write-once evidence and its index, the coordinator's invocations with   *)
(* their corrections, retries and fallback routes, the review menu, and    *)
(* the terminal's thread, on which "/cancel confirm" arrives at any time.  *)
(*                                                                         *)
(* A turn, a proposal and an approval are each written as a file of their  *)
(* own before session.json is replaced, so every append is two steps.      *)
(***************************************************************************)
EXTENDS SemanticCorrection, Sequences

CONSTANTS
    ChangeTexts,    \* what the user's change requests and edits say, in order; bounds them
    MaxRounds,      \* policy.max_clarification_rounds
    MaxRevisions,   \* policy.max_proposal_revisions
    RepairLimit,    \* policy.response_repair_limit; -1 stands for None
    FallbackRoutes, \* number of fallback routes
    CallBudget      \* calls the ledger has funds for

ASSUME PlanningAssumption ==
    /\ MaxRounds \in Nat /\ MaxRevisions \in Nat \ {0} /\ FallbackRoutes \in Nat
    /\ RepairLimit \in Nat \cup {-1} /\ CallBudget \in Nat
    /\ ChangeTexts \in Seq(STRING)

VARIABLES
    turns,      \* turns/NNN.json: user message and parsed response of each turn
    proposals,  \* proposals/NNN.json
    approvals,  \* approvals/NNN.json: the approved revisions
    index,      \* session.json
    planner,    \* the thread that runs _run_interactive_planning
    inv,        \* locals of _invoke
    route,      \* _active_route_index
    console,    \* the terminal's thread inside submit
    cancelled,  \* the cancelled event
    control,    \* the recorded cancel command
    lock        \* owner of approval_lock

stored == <<turns, proposals, approvals, index>>
terminal == <<console, cancelled, control>>
vars == <<turns, proposals, approvals, index, planner, inv, route, console, cancelled, control, lock>>

Terminal == {"approved", "cancelled", "failed"}
Status == {"absent", "authorized", "clarifying", "proposed"} \cup Terminal
Changes == {ChangeTexts[n] : n \in DOMAIN ChangeTexts}
Messages == {"request", "answer"} \cup Changes

FreshInvocation ==
    [plan |-> NoPlan, kind |-> "proposal", all |-> FALSE, clarify |-> FALSE, regenerated |-> FALSE,
     seen |-> {}, corrections |-> 0, recoveries |-> 0]

NoSession == [status |-> "absent", turns |-> 0, latest |-> 0, approved |-> 0]
Idle == [pc |-> "idle", index |-> NoSession]
NoStep == [go |-> "none", inv |-> FreshInvocation, route |-> 0]

-----------------------------------------------------------------------------
(* PlanningStore *)

(* load_session: the files must be exactly those the index anchors. *)
Anchored(i) ==
    /\ i.status # "absent"
    /\ Len(turns) = i.turns /\ Len(proposals) = i.latest
    /\ approvals = IF i.approved = 0 THEN {} ELSE {i.approved}

(* load_user_revision_inputs and _validate_proposal_source: model proposals
   come from later and later turns, each the parsed proposal of its turn, and
   the change request is a user message since the previous one. *)
ModelProposals == {q \in DOMAIN proposals : proposals[q].source = "model"}

HistoryReadable ==
    \A r \in ModelProposals :
        LET source == proposals[r].turn
            sinceThePrevious(t) == \A q \in ModelProposals : q < r => proposals[q].turn < t
        IN  /\ source \in DOMAIN turns /\ sinceThePrevious(source)
            /\ turns[source].parsed = "proposal"
            /\ proposals[r].change \in Changes =>
                    \E t \in 1..source : turns[t].msg = proposals[r].change /\ sinceThePrevious(t)

(* cancel: an approved session is the only one that cannot be cancelled. *)
Cancelled(i) == [i EXCEPT !.status = "cancelled"]

(* append_turn's index: a failed turn only stays open for a recovery. *)
TurnStatus(result, recovery) ==
    CASE result = "interrupted" -> "cancelled"
      [] result = "completed" \/ recovery # "none" -> "clarifying"
      [] OTHER -> "failed"

-----------------------------------------------------------------------------
(* The dialogue up to the call of the model *)

Goto(pc) == [planner EXCEPT !.pc = pc]
Raise(p, exception) == [p EXCEPT !.pc = "raise", !.exception = exception]

(* create: the request first, the index in a second file. *)
CreateRequest ==
    /\ planner.pc = "start"
    /\ planner' = Goto("created")
    /\ UNCHANGED <<stored, inv, route, terminal, lock>>

CreateSession ==
    /\ planner.pc = "created"
    /\ index' = [index EXCEPT !.status = "authorized"]
    /\ planner' = Goto("invoke")
    /\ UNCHANGED <<turns, proposals, approvals, inv, route, terminal, lock>>

(* The head of the loop of _invoke: the ledger reserves the call, or refuses
   with AgentBudgetExceeded, which is no PlanningError. *)
ReserveCall ==
    /\ planner.pc = "invoke"
    /\ planner' = IF Len(turns) < CallBudget THEN Goto("launch") ELSE Raise(planner, "other")
    /\ UNCHANGED <<stored, inv, route, terminal, lock>>

(* The executor registers its process: from here interrupt_all finds it. *)
Launch ==
    /\ planner.pc = "launch"
    /\ planner' = [Goto("run") EXCEPT !.claimed = FALSE]
    /\ UNCHANGED <<stored, inv, route, terminal, lock>>

(* observe: every activity of the execution repeats the stop. *)
ObserveActivity ==
    /\ planner.pc = "run" /\ cancelled /\ ~planner.claimed
    /\ planner' = [planner EXCEPT !.claimed = TRUE]
    /\ UNCHANGED <<stored, inv, route, terminal, lock>>

-----------------------------------------------------------------------------
(* The result of a call *)

(* What an uncorrected submission is: a question or a proposal, with field
   issues, or with one of the faults of a proposal: a user decision is
   missing, the proposal as a whole does not fit the schema, or a relation
   fails that no validator owns.  A clarification recovery constrains the
   submission to a question (_planning_question_response_schema). *)
Responses ==
    LET kinds == IF inv.clarify THEN {"question"} ELSE {"question", "proposal"}
        sound == [f \in Fields |-> "ok"]
    IN  [kind : kinds, payload : Payloads, fault : {"none"}]
        \cup (IF inv.clarify THEN {}
              ELSE [kind : {"proposal"}, payload : {sound}, fault : {"user", "whole", "unclassified"}])

(* A correction keeps the kind; it may uncover that a user decision is missing. *)
CorrectedResponses(submission) ==
    [kind : {inv.kind}, payload : {Applied(inv.plan, submission)},
     fault : IF inv.kind = "proposal" THEN {"none", "user"} ELSE {"none"}]

IssuesOf(response) ==
    IF response.fault = "none" THEN Diagnostic(response.payload) ELSE {<<"proposal", response.fault>>}

RaiseStep == [NoStep EXCEPT !.go = "error"]
Again(next) == [go |-> "again", inv |-> next, route |-> route]

(* correction_allowed, the last allowed correction, which must give every target a
   value, and what is scheduled. *)
ScheduleCorrection(plan, kind, seen) ==
    LET spent == inv.corrections + 1
    IN  IF plan = NoPlan \/ (RepairLimit # -1 /\ inv.corrections >= RepairLimit) THEN RaiseStep
        ELSE Again([inv EXCEPT !.plan = plan, !.kind = kind, !.seen = seen,
                               !.all = spent = RepairLimit,
                               !.corrections = IF RepairLimit = -1 THEN 0 ELSE spent])

(* One complete regeneration of a proposal, never a second. *)
ScheduleRegeneration(seen) ==
    IF inv.regenerated \/ (RepairLimit # -1 /\ inv.corrections >= RepairLimit) THEN RaiseStep
    ELSE Again([inv EXCEPT !.plan = NoPlan, !.regenerated = TRUE, !.seen = seen,
                           !.corrections = IF RepairLimit = -1 THEN 0 ELSE @ + 1])

(* The completed branch: parsed, a clarification recovery, a regeneration, a
   correction of an improved answer, or an error. *)
Judge(response) ==
    LET issues == IssuesOf(response)
        first == inv.plan = NoPlan
        improved == ~first /\ Improved(inv.plan, issues, inv.seen)
        seen == IF first \/ improved THEN inv.seen \cup {issues} ELSE inv.seen
    IN  CASE issues = {} -> [NoStep EXCEPT !.go = response.kind]
          [] response.fault = "user" ->
                Again([inv EXCEPT !.plan = NoPlan, !.clarify = TRUE,
                                  !.seen = IF first THEN seen ELSE @])
          [] response.fault = "whole" -> ScheduleRegeneration(seen)
          [] response.fault = "none" /\ (first \/ improved) ->
                ScheduleCorrection(BuildPlan(response.payload, issues, TRUE), response.kind, seen)
          [] OTHER -> RaiseStep

(* _apply: refused slots of a correction are asked for again. *)
CorrectedSteps(submission) ==
    IF inv.all /\ DOMAIN submission # inv.plan.targets THEN {RaiseStep}
    ELSE IF Refused(inv.plan, submission) # {}
    THEN {ScheduleCorrection(RecoveryPlan(inv.plan, submission), inv.kind, inv.seen)}
    ELSE {Judge(r) : r \in CorrectedResponses(submission)}

CompletedSteps ==
    IF inv.plan = NoPlan THEN {Judge(r) : r \in Responses}
    ELSE UNION {CorrectedSteps(s) : s \in Submissions(inv.plan)}

(* fallback_scheduled and evidence_recovery_scheduled: only after a call of
   which nothing was accepted, whose process is gone and whose cost is known. *)
Recovery(result, safe) ==
    CASE result = "provider_failed" /\ safe /\ route < FallbackRoutes -> "fallback"
      [] result = "recoverable" /\ safe /\ inv.recoveries < 1 -> "retry"
      [] OTHER -> "none"

RecoveryStep(recovery) ==
    CASE recovery = "fallback" -> [Again(inv) EXCEPT !.route = route + 1]
      [] recovery = "retry" -> Again([inv EXCEPT !.recoveries = @ + 1])
      [] OTHER -> RaiseStep

(* Mutant: every turn is recorded with the request it goes back to. *)
WriteTurnOfRequest(parsed, status, step) ==
    /\ turns' = Append(turns, [msg |-> "request", parsed |-> parsed])
    /\ planner' = [Goto("anchorTurn") EXCEPT !.status = status, !.step = step]
    /\ UNCHANGED <<proposals, approvals, index, inv, route, terminal, lock>>

(* append_turn, first half: the turn's file.  The index entry and the step
   that follows it are remembered. *)
WriteTurn(parsed, status, step) ==
    /\ turns' = Append(turns, [msg |-> planner.msg, parsed |-> parsed])
    /\ planner' = [Goto("anchorTurn") EXCEPT !.status = status, !.step = step]
    /\ UNCHANGED <<proposals, approvals, index, inv, route, terminal, lock>>

ReturnCompleted ==
    /\ planner.pc = "run" /\ ~planner.claimed
    /\ \E step \in CompletedSteps, exhausted \in BOOLEAN :
        WriteTurn(IF step.go \in {"question", "proposal"} THEN step.go ELSE "none",
                  TurnStatus("completed", "none"), IF exhausted THEN RaiseStep ELSE step)

ReturnFailed ==
    /\ planner.pc = "run" /\ ~planner.claimed
    /\ \E result \in {"provider_failed", "recoverable", "failed"}, safe \in BOOLEAN :
        LET recovery == Recovery(result, safe)
        IN  WriteTurn("none", TurnStatus(result, recovery), RecoveryStep(recovery))

(* The executor itself raised: the turn is recorded as failed, the exception goes on. *)
ReturnException ==
    /\ planner.pc = "run" /\ ~planner.claimed
    /\ WriteTurn("none", TurnStatus("failed", "none"), [NoStep EXCEPT !.go = "exception"])

(* A claimed stop, or Ctrl+C where no dashboard owns the terminal. *)
ReturnInterrupted ==
    /\ planner.pc = "run"
    /\ WriteTurn("none", TurnStatus("interrupted", "none"), [NoStep EXCEPT !.go = "interrupt"])

(* append_turn, second half, and where _invoke goes from there. *)
AnchorTurn ==
    /\ planner.pc = "anchorTurn"
    /\ index' = [index EXCEPT !.status = planner.status, !.turns = @ + 1]
    /\ LET step == planner.step
           done == [planner EXCEPT !.status = "none", !.step = NoStep]
       IN  /\ planner' = CASE step.go = "again" -> [done EXCEPT !.pc = "invoke"]
                           [] step.go = "question" -> [done EXCEPT !.pc = "ask"]
                           [] step.go = "proposal" -> [done EXCEPT !.pc = "propose"]
                           [] step.go = "error" -> Raise(done, "planning")
                           [] step.go = "exception" -> Raise(done, "other")
                           [] OTHER -> Raise(done, "interrupt")
           /\ inv' = IF step.go = "again" THEN step.inv ELSE FreshInvocation
           /\ route' = IF step.go = "again" THEN step.route ELSE route
    /\ UNCHANGED <<turns, proposals, approvals, terminal, lock>>

-----------------------------------------------------------------------------
(* Questions and proposals *)

(* Mutant: a reader that already waits is not woken. *)
LeaveQuestionUnwoken ==
    /\ planner.pc = "ask" /\ planner.rounds >= MaxRounds
    /\ planner' = Raise(planner, "planning")
    /\ UNCHANGED <<stored, inv, route, terminal, lock>>

(* A question past the limit is an error; otherwise it is asked.  read_answer
   raises KeyboardInterrupt once the event is set, before and after the read,
   and cancel_answer wakes a reader that waits. *)
LeaveQuestion ==
    /\ planner.pc = "ask" /\ (planner.rounds >= MaxRounds \/ cancelled)
    /\ planner' = Raise(planner, IF planner.rounds >= MaxRounds THEN "planning" ELSE "interrupt")
    /\ UNCHANGED <<stored, inv, route, terminal, lock>>

AnswerQuestion ==
    /\ planner.pc = "ask" /\ planner.rounds < MaxRounds /\ ~cancelled
    /\ planner' = [planner EXCEPT !.pc = "invoke", !.msg = "answer", !.rounds = @ + 1]
    /\ UNCHANGED <<stored, inv, route, terminal, lock>>

(* The question's own "cancel": the dialogue cancels the session and returns None. *)
DeclineQuestion ==
    /\ planner.pc = "ask" /\ planner.rounds < MaxRounds /\ ~cancelled
    /\ index' = Cancelled(index)
    /\ planner' = Goto("ended")
    /\ UNCHANGED <<turns, proposals, approvals, inv, route, terminal, lock>>

(* The proposal of _start_dialogue or of _revise_dialogue. *)
ModelProposal == [source |-> "model", turn |-> Len(turns), change |-> planner.change]

WriteProposal ==
    /\ planner.pc = "propose"
    /\ proposals' = Append(proposals, ModelProposal)
    /\ planner' = Goto("anchorProposal")
    /\ UNCHANGED <<turns, approvals, index, inv, route, terminal, lock>>

AnchorProposal ==
    /\ planner.pc = "anchorProposal"
    /\ index' = [index EXCEPT !.status = "proposed", !.latest = Len(proposals)]
    /\ planner' = [Goto("menu") EXCEPT !.shown = Len(proposals), !.mode = "revise",
                                       !.msg = "request", !.change = "request"]
    /\ UNCHANGED <<turns, proposals, approvals, inv, route, terminal, lock>>

-----------------------------------------------------------------------------
(* The review menu of _run_interactive_planning *)

AtMenu == planner.pc = "menu" /\ ~cancelled

LeaveMenu ==
    /\ planner.pc = "menu" /\ cancelled
    /\ planner' = Raise(planner, "interrupt")
    /\ UNCHANGED <<stored, inv, route, terminal, lock>>

(* Mutant: the cancellation is not looked at again under the lock. *)
WriteApprovalUnguarded ==
    /\ planner.pc = "menu" /\ lock = "free"
    /\ index.status = "proposed" /\ index.latest = planner.shown
    /\ approvals' = approvals \cup {planner.shown}
    /\ lock' = "planner" /\ planner' = Goto("anchorApproval")
    /\ UNCHANGED <<turns, proposals, index, inv, route, terminal>>

(* approve, under approval_lock: the cancellation first, then the approval's file. *)
WriteApproval ==
    /\ AtMenu /\ lock = "free"
    /\ index.status = "proposed" /\ index.latest = planner.shown
    /\ approvals' = approvals \cup {planner.shown}
    /\ lock' = "planner" /\ planner' = Goto("anchorApproval")
    /\ UNCHANGED <<turns, proposals, index, inv, route, terminal>>

AnchorApproval ==
    /\ planner.pc = "anchorApproval"
    /\ index' = [index EXCEPT !.status = "approved", !.approved = planner.shown]
    /\ lock' = "free" /\ planner' = Goto("ended")
    /\ UNCHANGED <<turns, proposals, approvals, inv, route, terminal>>

ChooseCancel ==
    /\ AtMenu
    /\ index' = Cancelled(index)
    /\ planner' = Goto("ended")
    /\ UNCHANGED <<turns, proposals, approvals, inv, route, terminal, lock>>

(* revise and structured_edit refuse at the revision limit: the menu again. *)
MayRevise == AtMenu /\ planner.requests < Len(ChangeTexts) /\ planner.shown < MaxRevisions

ChooseRevise ==
    /\ MayRevise
    /\ LET change == ChangeTexts[planner.requests + 1]
       IN  planner' = [Goto("invoke") EXCEPT !.msg = change, !.change = change, !.rounds = 0,
                                             !.requests = @ + 1]
    /\ inv' = FreshInvocation
    /\ UNCHANGED <<stored, route, terminal, lock>>

ChooseEdit ==
    /\ MayRevise
    /\ proposals' = Append(proposals, [source |-> "edit", turn |-> 0, change |-> "request"])
    /\ planner' = [Goto("anchorProposal") EXCEPT !.requests = @ + 1]
    /\ UNCHANGED <<turns, approvals, index, inv, route, terminal, lock>>

-----------------------------------------------------------------------------
(* Exceptions *)

BackToMenu == [planner EXCEPT !.pc = "menu", !.exception = "none", !.msg = "request", !.change = "request"]

(* start fails the session on a PlanningError; revise restores the proposal of
   a session its turns left clarifying, and the menu says that the plan was
   not changed unless the session failed. *)
HandleError ==
    /\ planner.pc = "raise"
    /\ CASE planner.exception = "planning" /\ planner.mode = "start" ->
                /\ index' = [index EXCEPT !.status = "failed"]
                /\ planner' = Goto("unwind")
         [] planner.exception = "planning" /\ planner.mode = "revise" ->
                /\ index' = [index EXCEPT !.status = IF @ = "clarifying" THEN "proposed" ELSE @]
                /\ planner' = IF index.status = "failed" THEN Goto("unwind") ELSE BackToMenu
         [] OTHER -> planner' = Goto("unwind") /\ UNCHANGED index
    /\ UNCHANGED <<turns, proposals, approvals, inv, route, terminal, lock>>

(* The handler of run_interactive_planning: an accepted cancel is applied,
   anything else is raised to the command line. *)
Unwind ==
    /\ planner.pc = "unwind"
    /\ planner' = Goto("ended")
    /\ IF cancelled /\ planner.exception # "other"
       THEN index' = Cancelled(index) /\ control' = "applied"
       ELSE UNCHANGED <<index, control>>
    /\ UNCHANGED <<turns, proposals, approvals, inv, route, console, cancelled, lock>>

-----------------------------------------------------------------------------
(* The terminal's thread: "/cancel confirm" *)

(* submit takes approval_lock and reads session.json. *)
SubmitCancel ==
    /\ console.pc = "idle" /\ planner.pc # "ended" /\ ~cancelled /\ lock = "free"
    /\ lock' = "console"
    /\ console' = [pc |-> "loaded", index |-> index]
    /\ UNCHANGED <<stored, planner, inv, route, cancelled, control>>

(* load_session then compares the files with what it read.  An integrity
   error is not a ValueError: the dashboard drops the command with it. *)
DecideCancel ==
    /\ console.pc = "loaded"
    /\ lock' = "free"
    /\ IF Anchored(console.index) /\ console.index.status # "approved"
       THEN /\ control' = "requested" /\ cancelled' = TRUE
            /\ console' = [Idle EXCEPT !.pc = "stop"]
       ELSE /\ console' = Idle
            /\ UNCHANGED <<cancelled, control>>
    /\ UNCHANGED <<stored, planner, inv, route>>

(* stop_calls finds the process of a running call only. *)
StopCalls ==
    /\ console.pc = "stop"
    /\ console' = Idle
    /\ planner' = IF planner.pc = "run" THEN [planner EXCEPT !.claimed = TRUE] ELSE planner
    /\ UNCHANGED <<stored, inv, route, cancelled, control, lock>>

-----------------------------------------------------------------------------

Init ==
    /\ turns = <<>> /\ proposals = <<>> /\ approvals = {}
    /\ index = NoSession
    /\ planner = [pc |-> "start", mode |-> "start", msg |-> "request", change |-> "request",
                  rounds |-> 0, requests |-> 0, shown |-> 0, claimed |-> FALSE,
                  exception |-> "none", status |-> "none", step |-> NoStep]
    /\ inv = FreshInvocation /\ route = 0
    /\ console = Idle
    /\ cancelled = FALSE /\ control = "none" /\ lock = "free"

(* What the planner's thread does by itself. *)
Dialogue ==
    \/ CreateRequest \/ CreateSession \/ ReserveCall \/ Launch \/ ObserveActivity
    \/ ReturnCompleted \/ ReturnFailed \/ ReturnException \/ ReturnInterrupted \/ AnchorTurn
    \/ LeaveQuestion \/ WriteProposal \/ AnchorProposal \/ LeaveMenu \/ AnchorApproval
    \/ HandleError \/ Unwind

Console == DecideCancel \/ StopCalls

User ==
    \/ AnswerQuestion \/ DeclineQuestion \/ WriteApproval \/ ChooseCancel
    \/ ChooseRevise \/ ChooseEdit \/ SubmitCancel

Next == Dialogue \/ Console \/ User

Spec == Init /\ [][Next]_vars

(* Executions end (each has a time limit) and both threads go on; the user
   need not answer, choose or type anything. *)
FairSpec == Spec /\ WF_vars(Dialogue) /\ WF_vars(Console)

-----------------------------------------------------------------------------
(* Properties *)

(* What the menu offers is what can be approved, and what was approved is what
   it showed: a failed revision, however many turns it took, leaves the session
   proposed with the revision on the screen (restore_proposed_revision), and no
   cancellation was accepted before an approval: approval_lock decides between
   the two threads (approve, submit). *)
ApprovalIsWhatWasShown ==
    /\ planner.pc = "menu" => index.status = "proposed" /\ index.latest = planner.shown
    /\ index.status = "approved" =>
        /\ ~cancelled /\ approvals = {planner.shown}
        /\ index.latest = planner.shown /\ index.approved = planner.shown

(* At every point where the coordinator loads the session it can: no turn,
   proposal or approval is unanchored, and the history from which the user's
   revisions are recovered is in order (load_session, load_user_revision_inputs). *)
EvidenceReadable ==
    planner.pc \in {"invoke", "propose", "menu", "raise", "unwind"} =>
        Anchored(index) /\ HistoryReadable

(* An accepted cancellation ends the dialogue whatever it was doing: waiting
   for an answer or a choice nobody gives, writing evidence, between two
   calls, or in a call that stop_calls came too early to find. *)
CancelEndsPlanning == cancelled ~> planner.pc = "ended"

=============================================================================
