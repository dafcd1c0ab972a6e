---------------------------- MODULE ApprovedPlan ----------------------------
(***************************************************************************)
(* From a submitted proposal to an approved team (planning.py, teams.py,   *)
(* model_routing.py): the controller normalizes and validates a proposal,  *)
(* resolves model routes, review scopes and timeouts, compiles the         *)
(* TeamPlan, applies the user's edits of safe limits, and schedules the    *)
(* team in waves.  A proposal is a body (ProposalBody) with the workload   *)
(* of each Agent and the profile overrides the user set.                   *)
(***************************************************************************)
EXTENDS ProposalBody

CONSTANTS
    MaxEdits      \* bound on the structured edits of a proposal

Unlimited == -1
Within(n, limit) == limit = Unlimited \/ n <= limit

VARIABLES
    policy,   \* PlanningPolicy
    body,     \* the proposal's body
    stage,    \* how far the proposal has come
    issues,   \* the checks that refused it
    edits,    \* structured edits applied
    waves     \* execution_waves of the TeamPlan

vars == <<policy, body, stage, issues, edits, waves>>

-----------------------------------------------------------------------------
(* Model routes *)

(* _eligible_profiles; the profiles are listed by priority. *)
Eligible(p, cap) == SelectSeq(p.profiles, LAMBDA m : cap \in p.supports[m])

(* resolve_model_route_plan, for one Agent: strict pin, the user's override,
   the stage's, the capability's, the default where it can, else the best that
   can.  An Agent stands for its stage. *)
PrimaryRoute(p, b, a) ==
    IF p.strict THEN p.default
    ELSE IF a \in DOMAIN b.overrides THEN b.overrides[a]
    ELSE IF a \in DOMAIN p.byStage THEN p.byStage[a]
    ELSE IF b.cap[a] \in DOMAIN p.byCapability THEN p.byCapability[b.cap[a]]
    ELSE IF b.cap[a] \in p.supports[p.default] THEN p.default
    ELSE Head(Eligible(p, b.cap[a]))

Fallbacks(p, b, a) ==
    IF p.switches THEN ToSet(Eligible(p, b.cap[a])) \ {PrimaryRoute(p, b, a)} ELSE {}

RouteIssues(p, b) ==
    Issue("model_route",
          \E a \in ToSet(b.agents) : \/ Eligible(p, b.cap[a]) = <<>>
                                     \/ PrimaryRoute(p, b, a) \notin ToSet(p.profiles)
                                     \/ b.cap[a] \notin p.supports[PrimaryRoute(p, b, a)])

-----------------------------------------------------------------------------
(* Timeouts *)

(* CapabilityTimeoutPolicy.resolve *)
WorkloadSeconds(t, workload) ==
    CASE workload = "routine" -> t.default
      [] workload = "complex" -> t.ceiling
      [] OTHER -> t.default + (t.ceiling - t.default) \div 2

(* review_scope_workload; a bounded criterion has four boundary obligations. *)
ScopeWorkload(p, b, scope) ==
    LET units == Cardinality(scope) + 4 * Cardinality(scope \cap b.bounded)
    IN  CASE units >= p.complexUnits -> "complex"
          [] units >= p.substantialUnits -> "substantial"
          [] OTHER -> "routine"

(* The resolution preview_adaptive_proposal writes for one Agent; a disabled
   timeout is left to the provider's activity. *)
Timeout(p, b, a) ==
    LET t == p.timeouts[b.cap[a]]
        review == b.cap[a] = "review"
        scope == ReviewScopes(b, ToSet(b.criteria), ToSet(ProfileCriteria))[a]
        minimum == IF review THEN WorkloadSeconds(t, ScopeWorkload(p, b, scope)) ELSE t.default
        workload == WorkloadSeconds(t, b.workload[a])
    IN  IF t.default = 0
        THEN [minimum |-> 0, scoped |-> FALSE, resolved |-> 0, source |-> "provider_activity"]
        ELSE [minimum |-> minimum, scoped |-> review,
              resolved |-> IF minimum > workload THEN minimum ELSE workload,
              source |-> IF minimum > workload THEN "policy_scope_floor" ELSE "policy_workload"]

(* AgentTimeoutResolution.require_valid_resolution *)
ResolutionValid(t, workload, r) ==
    LET seconds == WorkloadSeconds(t, workload)
    IN  CASE r.source = "provider_activity" ->
                t.default = 0 /\ t.ceiling = 0 /\ r.resolved = 0 /\ r.minimum = 0 /\ ~r.scoped
          [] OTHER ->
                /\ t.default <= r.minimum /\ r.minimum <= r.resolved /\ r.resolved <= t.ceiling
                /\ r.scoped \/ r.minimum = t.default
                /\ r.source = "policy_workload" => r.resolved = seconds /\ seconds >= r.minimum
                /\ r.source = "policy_scope_floor" => r.scoped /\ r.minimum > seconds /\ r.resolved = r.minimum

-----------------------------------------------------------------------------
(* preview_adaptive_proposal *)

(* The policy's limits. *)
LimitIssues(p, b) ==
    Issue("policy_limit",
          \/ ~Within(Len(b.agents), p.maxAgents)
          \/ b.concurrency > p.maxConcurrency
          \/ ~Within(b.iterations, p.maxIterations)
          \/ ~Within(Len(b.agents) * b.iterations, p.maxCalls)
          \/ p.requireReview /\ Reviewers(b) = {}
          \/ ~Within(Cardinality(Reviewers(b)), p.maxReviewers))

(* TeamPlan.validate_plan, in three parts: the calls the fallbacks may take. *)
FallbackCallIssues(p, b) ==
    LET fallbacks == SumFunction([a \in ToSet(b.agents) |-> Cardinality(Fallbacks(p, b, a))])
    IN  Issue("fallback_calls", ~Within((Len(b.agents) + fallbacks) * b.iterations, p.maxCalls))

(* The graph and the resources. *)
TeamGraphIssues(p, b) ==
    Issue("team_plan",
          \/ ~Acyclic(b.deps)
          \/ b.concurrency > Len(b.agents)
          \/ ~Within(Len(b.agents) * b.iterations, p.maxCalls))

(* Who writes, who checks, and who is ordered after whom: every Agent a writer
   could meet in its workspace. *)
TeamPlanIssues(p, b) ==
    LET agents == ToSet(b.agents)
    IN  Issue("team_plan",
              \/ Writers(b) = {} \/ Quality(b) = {}
              \/ ~b.revises /\ b.iterations # 1
              \/ \E q \in Quality(b) : ~Writers(b) \subseteq Upstream(b.deps)[q]
              \/ \E a, c \in agents : /\ a # c /\ {a, c} \cap Writers(b) # {}
                                      /\ Overlap(b.scope[a], b.scope[c]) /\ ~Ordered(b, a, c))

TimeoutIssues(p, b) ==
    Issue("timeout_resolution",
          \E a \in ToSet(b.agents) :
             ~ResolutionValid(p.timeouts[b.cap[a]], b.workload[a], Timeout(p, b, a)))

(* In the order of the code: clarity, policy limits, references, routes, then
   the compiled records. *)
PreviewIssues(p, b) ==
    LET stated == ClarityIssues(b) \cup LimitIssues(p, b) \cup ReferenceIssues(b) \cup RouteIssues(p, b)
    IN  IF stated # {} THEN stated
        ELSE TimeoutIssues(p, b) \cup TeamGraphIssues(p, b) \cup TeamPlanIssues(p, b)
             \cup FallbackCallIssues(p, b)

(* PlanningProposal.require_source_evidence *)
CandidateIssues(b) == BindingIssues(b) \cup CanonicalIssues(b) \cup ForecastIssues(b)

-----------------------------------------------------------------------------
(* execution_waves *)

Waves(b) ==
    LET after[n \in 0..Len(b.agents)] ==
            IF n = 0 THEN <<>>
            ELSE LET done == UNION ToSet(after[n - 1])
                     ready == {a \in ToSet(b.agents) \ done : b.deps[a] \subseteq done}
                 IN  IF ready = {} THEN after[n - 1] ELSE Append(after[n - 1], ready)
    IN  after[Len(b.agents)]

-----------------------------------------------------------------------------
(* The proposal's way *)

(* The model submits a body under a policy. *)
Start(p, b) ==
    /\ policy = p /\ body = b
    /\ stage = "submitted" /\ issues = {} /\ edits = 0 /\ waves = <<>>

Settle(found, next) ==
    /\ issues' = found
    /\ stage' = IF found = {} THEN next ELSE "refused"

NormalizeResponse ==
    /\ stage = "submitted"
    /\ body' = Normalized(body)
    /\ stage' = "normalized"
    /\ UNCHANGED <<policy, issues, edits, waves>>

ValidateBody ==
    /\ stage = "normalized"
    /\ Settle(BodyIssues(body), "valid")
    /\ UNCHANGED <<policy, body, edits, waves>>

BecomeCandidate ==
    /\ stage = "valid"
    /\ Settle(IF ClarityIssues(body) # {} THEN ClarityIssues(body) ELSE CandidateIssues(body), "candidate")
    /\ UNCHANGED <<policy, body, edits, waves>>

Preview ==
    /\ stage = "candidate"
    /\ Settle(PreviewIssues(policy, body), "proposed")
    /\ UNCHANGED <<policy, body, edits, waves>>

(* apply_structured_edit, with the validation of the edited body; a refused
   edit leaves the proposal as it was. *)
Edit(edited) ==
    /\ stage = "proposed" /\ edits < MaxEdits
    /\ BodyIssues(edited) \cup CandidateIssues(edited) \cup PreviewIssues(policy, edited) = {}
    /\ body' = edited /\ edits' = edits + 1
    /\ UNCHANGED <<policy, stage, issues, waves>>

EditConcurrency(n) == Edit([body EXCEPT !.concurrency = n])

EditIterations(n) == Edit([body EXCEPT !.iterations = n, !.revises = n > 1])

EditModel(a, m) ==
    Edit([body EXCEPT !.overrides = [x \in DOMAIN @ \cup {a} |-> IF x = a THEN m ELSE @[x]]])

(* approve compiles the preview again and binds it; then the team is scheduled. *)
Approve ==
    /\ stage = "proposed"
    /\ LET found == PreviewIssues(policy, body) \cup CandidateIssues(body)
       IN  /\ Settle(found, "approved")
           /\ waves' = IF found = {} THEN Waves(body) ELSE waves
    /\ UNCHANGED <<policy, body, edits>>

Next ==
    \/ NormalizeResponse \/ ValidateBody \/ BecomeCandidate \/ Preview \/ Approve
    \/ \E n \in 1..3 : EditConcurrency(n) \/ EditIterations(n)
    \/ \E a \in ToSet(body.agents), m \in ToSet(policy.profiles) : EditModel(a, m)

-----------------------------------------------------------------------------
(* Properties *)

(* Normalizing what was normalized changes nothing: a correction turn, which
   normalizes the corrected body again, rewrites nothing it was not asked for
   (_normalize_planning_response_payload). *)
NormalizationStable == stage = "normalized" => Normalized(body) = body

(* What the controller compiles itself its own later checks accept: the
   compiled task graph is the canonical one (validate_task_agent_bindings), the
   resolved timeouts are valid (AgentTimeoutResolution), and the TeamPlan
   refuses a validated body only for calls that fallback routes may take. *)
ControllerChecksAgree ==
    issues \cap {"task_dependency_projection", "timeout_resolution", "team_plan"} = {}

(* An approved plan can be carried out as it was shown.  Every criterion, the
   profile's too, has exactly one reviewer, every reviewer something to review,
   a specialist's criteria belong to that specialist, and no review task has a
   criterion of somebody else (_resolve_review_scope_assignments,
   compile_approved_review_scopes).  The waves hold every Agent once; no wave has
   two Agents that share workspace paths when one of them writes, nor an Agent
   and a task it needs (execution_waves, TeamPlan.validate_plan). *)
ScopesPartition ==
    LET all == ToSet(body.criteria) \cup ToSet(ProfileCriteria)
        scopes == ReviewScopes(body, ToSet(body.criteria), ToSet(ProfileCriteria))
    IN  /\ \A c \in all : \E a \in Reviewers(body) :
                /\ c \in scopes[a]
                /\ \A r \in Reviewers(body) \ {a} : c \notin scopes[r]
                /\ c \in body.bounded => body.authority[a] = "security"
                /\ c \in body.experience \cap ToSet(body.criteria) => body.authority[a] = "user_experience"
        /\ \A a \in Reviewers(body) : scopes[a] # {}
        /\ \A t \in ToSet(body.tasks) :
                body.owner[t] \in Reviewers(body) => ToSet(body.binds[t]) \subseteq scopes[body.owner[t]]

WavesSerializeWriters ==
    LET wave(a) == CHOOSE n \in DOMAIN waves : a \in waves[n]
        agents == ToSet(body.agents)
    IN  /\ UNION ToSet(waves) = agents
        /\ SumFunction([n \in DOMAIN waves |-> Cardinality(waves[n])]) = Len(body.agents)
        /\ \A a, c \in agents : a # c /\ {a, c} \cap Writers(body) # {} /\ wave(a) = wave(c)
                => ~Overlap(body.scope[a], body.scope[c])
        /\ \A t \in ToSet(body.tasks) : \A d \in ToSet(body.needs[t]) :
                body.owner[d] = body.owner[t] \/ wave(body.owner[d]) < wave(body.owner[t])

ApprovedPlanExecutable == stage = "approved" => ScopesPartition /\ WavesSerializeWriters
=============================================================================
