---------------------------- MODULE ProposalBody ----------------------------
(***************************************************************************)
(* A proposed plan (planning.py): what the controller rewrites in it       *)
(* before validation, what it refuses, and who reviews what.               *)
(*                                                                         *)
(* A body b is a record:                                                   *)
(*   agents, cap, authority, deps, scope   the Agents in order, each with  *)
(*        capability, acceptance authority, dependencies, workspace path   *)
(*   tasks, owner, needs, binds, forecast  the tasks in order, each with   *)
(*        owner, dependencies, criteria, expected paths                    *)
(*   criteria, verifiers, reqs             the criteria in order           *)
(*   bounded, experience, promised         sets of criteria: all four      *)
(*        review boundaries; in both product-definition lists; a promised  *)
(*        test suite                                                       *)
(*   authors, required, concurrency, iterations, revises                   *)
(* A criterion is <<name, 0>>; <<name, k>> is its k-th task name, AC_TASK_. *)
(***************************************************************************)
EXTENDS Integers, SequencesExt

CONSTANTS ProfileCriteria  \* ids of the policy's profile criteria, in order

Writers(b) == {a \in ToSet(b.agents) : b.cap[a] = "implementation"}
Reviewers(b) == {a \in ToSet(b.agents) : b.cap[a] = "review"}
Quality(b) == {a \in ToSet(b.agents) : b.cap[a] \in {"testing", "review"}}

(* transitively_depends, by the edges followed so far. *)
Upstream(deps) ==
    LET reach[n \in 0..Cardinality(DOMAIN deps)] ==
            IF n = 0 THEN deps
            ELSE [a \in DOMAIN deps |-> deps[a] \cup UNION {reach[n - 1][d] : d \in deps[a]}]
    IN  reach[Cardinality(DOMAIN deps)]

Acyclic(deps) == \A a \in DOMAIN deps : a \notin Upstream(deps)[a]

(* dict.fromkeys *)
Distinct(s) == FoldLeft(LAMBDA kept, x : IF Contains(kept, x) THEN kept ELSE Append(kept, x), <<>>, s)

(* workspace_scopes_overlap: one path is a prefix of the other. *)
Overlap(p, q) == IsPrefix(p, q) \/ IsPrefix(q, p)

-----------------------------------------------------------------------------
(* Normalization *)

Owned(b, t, ts) == SelectSeq(ts, LAMBDA d : b.owner[d] = b.owner[t])
Derived(b, t) == SelectSeq(b.tasks, LAMBDA d : b.owner[d] \in b.deps[b.owner[t]])

(* Mutant: an edge the Agent graph only implies is kept. *)
CompiledNeedsKept(b, t) ==
    Distinct(Owned(b, t, b.needs[t]) \o Derived(b, t)
             \o SelectSeq(b.needs[t], LAMBDA d : b.owner[d] # b.owner[t]))

(* _compile_task_dependency_projection: local order, then every task of a
   direct upstream Agent, then edges the Agent graph does not allow, which
   validation reports. *)
CompiledNeeds(b, t) ==
    LET outside(d) == b.owner[d] # b.owner[t] /\ b.owner[d] \notin Upstream(b.deps)[b.owner[t]]
    IN  Distinct(Owned(b, t, b.needs[t]) \o Derived(b, t) \o SelectSeq(b.needs[t], outside))

CompileDependencies(b) == [b EXCEPT !.needs = [t \in DOMAIN b.needs |-> CompiledNeeds(b, t)]]

(* The loop of _deconflict_profile_criteria that keeps colliding criteria:
   again and again the one that covers most of what is still uncovered. *)
RetainedCollisions(b) ==
    LET profile == ToSet(ProfileCriteria)
        places == DOMAIN b.criteria
        once(i) == \A j \in places \ {i} : b.criteria[j] # b.criteria[i]
        covered == UNION {b.reqs[b.criteria[i]] : i \in {j \in places : b.criteria[j] \notin profile}}
        candidates == {i \in places : b.criteria[i] \in profile /\ once(i)}
        gain(i, open) == Cardinality(b.reqs[b.criteria[i]] \cap open)
        keep[n \in 0..Len(b.criteria)] ==
            IF n = 0 THEN [kept |-> {}, open |-> b.required \ covered]
            ELSE LET eligible == {i \in candidates \ keep[n - 1].kept : gain(i, keep[n - 1].open) > 0}
                     best == CHOOSE i \in eligible : \A j \in eligible :
                                \/ gain(i, keep[n - 1].open) > gain(j, keep[n - 1].open)
                                \/ gain(i, keep[n - 1].open) = gain(j, keep[n - 1].open) /\ i <= j
                 IN  IF eligible = {} THEN keep[n - 1]
                     ELSE [kept |-> keep[n - 1].kept \cup {best},
                           open |-> keep[n - 1].open \ b.reqs[b.criteria[best]]]
    IN  keep[Len(b.criteria)].kept

TaskName(c, used) == <<c[1], CHOOSE k \in 1..(Cardinality(used) + 1) :
                                /\ <<c[1], k>> \notin used
                                /\ \A j \in 1..(k - 1) : <<c[1], j>> \in used>>

(* A retained collision gets a task name of its own, the other collisions are
   dropped; a task bound to a renamed criterion is bound to both. *)
DeconflictProfile(b) ==
    LET profile == ToSet(ProfileCriteria)
        retained == RetainedCollisions(b)
        used == ToSet(b.criteria) \cup profile
        renamed == {b.criteria[i] : i \in retained}
        new == [c \in renamed |-> TaskName(c, used)]
        old(c) == IF \E o \in renamed : new[o] = c THEN CHOOSE o \in renamed : new[o] = c ELSE c
        place(i) == IF i \in retained THEN <<new[b.criteria[i]]>>
                    ELSE IF b.criteria[i] \in profile THEN <<>> ELSE <<b.criteria[i]>>
        criteria == FlattenSeq([i \in DOMAIN b.criteria |-> place(i)])
        bind(c) == IF c \in renamed THEN <<new[c], c>> ELSE <<c>>
        follow(S) == {c \in ToSet(criteria) : old(c) \in S}
    IN  IF profile = {} THEN b
        ELSE [b EXCEPT !.criteria = criteria,
                       !.verifiers = [c \in ToSet(criteria) |-> b.verifiers[old(c)]],
                       !.reqs = [c \in ToSet(criteria) |-> b.reqs[old(c)]],
                       !.bounded = follow(b.bounded), !.promised = follow(b.promised),
                       \* the product definition keeps the ids it was given
                       !.binds = IF renamed = {} THEN b.binds
                                 ELSE [t \in DOMAIN b.binds |->
                                        Distinct(FlattenSeq([i \in DOMAIN b.binds[t] |-> bind(b.binds[t][i])]))]]

-----------------------------------------------------------------------------
(* Review scopes *)

(* _specialized_review_authority; "conflict" is its ValueError. *)
RequiredAuthority(b, c) ==
    CASE c \in b.bounded /\ c \in b.experience -> "conflict"
      [] c \in b.bounded -> "security"
      [] c \in b.experience -> "user_experience"
      [] OTHER -> "none"

With(b, agents, authority) == {a \in agents : b.authority[a] = authority}

(* generic_owner: a set of at most one owner. *)
GenericOwner(b, explicit) ==
    LET general == With(b, explicit, "general")
        one(S) == Cardinality(S) = 1
    IN  CASE one(general) -> general
          [] Cardinality(general) > 1 -> {}
          [] explicit # {} -> IF one(explicit) THEN explicit ELSE {}
          [] one(With(b, Reviewers(b), "general")) -> With(b, Reviewers(b), "general")
          [] one(Reviewers(b)) -> Reviewers(b)
          [] OTHER -> {}

(* Mutant: the first of several reviewers named is the owner. *)
CriterionOwnerAny(b, c) ==
    LET explicit == ToSet(b.verifiers[c]) \cap Reviewers(b)
        required == RequiredAuthority(b, c)
    IN  IF required \in {"none", "conflict"} THEN GenericOwner(b, explicit)
        ELSE IF explicit = {} THEN {} ELSE {CHOOSE a \in explicit : TRUE}

(* The owner of one criterion in _resolve_review_scope_assignments: a criterion
   that needs a specialist must name exactly that reviewer. *)
CriterionOwner(b, c) ==
    LET explicit == ToSet(b.verifiers[c]) \cap Reviewers(b)
        required == RequiredAuthority(b, c)
    IN  CASE required = "conflict" -> {}
          [] required = "none" -> GenericOwner(b, explicit)
          [] OTHER -> IF Cardinality(explicit) = 1 THEN With(b, explicit, required) ELSE {}

ProfileOwner(b) == GenericOwner(b, {})

(* The scopes: what could not be resolved is in no scope. *)
ReviewScopes(b, criteria, profile) ==
    [a \in Reviewers(b) |->
        {c \in criteria : CriterionOwner(b, c) = {a}}
        \cup (IF profile # {} /\ ProfileOwner(b) = {a} THEN profile ELSE {})]

ScopeIssues(b, criteria, profile) ==
    IF Reviewers(b) = {} THEN {"review_scope_reviewer_required"}
    ELSE LET unresolved ==
                {"criterion_review_scope" : c \in {d \in criteria : CriterionOwner(b, d) = {}}}
                \cup {"profile_review_scope" : p \in {q \in profile : ProfileOwner(b) = {}}}
         IN  IF unresolved # {} THEN unresolved
             ELSE {"review_agent_scope_required" :
                        a \in {r \in Reviewers(b) : ReviewScopes(b, criteria, profile)[r] = {}}}

(* _review_task_scope_invariants *)
TaskScopeIssues(b, scopes) ==
    {"review_task_scope" : t \in {u \in ToSet(b.tasks) :
        b.owner[u] \in DOMAIN scopes /\ ~ToSet(b.binds[u]) \subseteq scopes[b.owner[u]]}}

(* Mutant: the reviewers named are kept beside the specialist. *)
ProjectedVerifiersKept(b, c) ==
    LET matching == With(b, Reviewers(b), RequiredAuthority(b, c))
    IN  IF Cardinality(matching) = 1
        THEN b.verifiers[c] \o <<CHOOSE a \in matching : TRUE>> ELSE b.verifiers[c]

(* _compile_unique_specialist_verifier_projection: the only reviewer with the
   authority replaces the reviewers named. *)
ProjectedVerifiers(b, c) ==
    LET matching == With(b, Reviewers(b), RequiredAuthority(b, c))
    IN  IF Cardinality(matching) = 1 /\ ToSet(b.verifiers[c]) \subseteq ToSet(b.agents)
        THEN SelectSeq(b.verifiers[c], LAMBDA a : a \notin Reviewers(b)) \o <<CHOOSE a \in matching : TRUE>>
        ELSE b.verifiers[c]

ProjectSpecialists(b) == [b EXCEPT !.verifiers = [c \in DOMAIN @ |-> ProjectedVerifiers(b, c)]]

(* _compile_review_task_scope_projection: a review task loses known criteria
   outside its owner's scope, unless nothing would be left. *)
ProjectReviewTasks(b) ==
    LET profile == ToSet(ProfileCriteria)
        scopes == ReviewScopes(b, ToSet(b.criteria), profile)
        known == ToSet(b.criteria) \cup profile
        inside(t) == SelectSeq(b.binds[t], LAMBDA c : c \notin known \/ c \in scopes[b.owner[t]])
        projected(t) == IF b.owner[t] \notin DOMAIN scopes \/ inside(t) = <<>>
                        THEN b.binds[t] ELSE inside(t)
    IN  [b EXCEPT !.binds = [t \in DOMAIN @ |-> projected(t)]]

(* _normalize_planning_response_payload *)
Normalized(b) == ProjectReviewTasks(ProjectSpecialists(DeconflictProfile(CompileDependencies(b))))

-----------------------------------------------------------------------------
(* Validation: each operator gives the names of the checks that fail. *)

Issue(name, fails) == IF fails THEN {name} ELSE {}

TaskGraph(b) == [t \in ToSet(b.tasks) |-> ToSet(b.needs[t])]

(* validate_task_agent_bindings without the canonical projection. *)
BindingIssues(b) ==
    LET owners == {b.owner[t] : t \in ToSet(b.tasks)}
        foreign(t, d) == b.owner[d] # b.owner[t] /\ b.owner[d] \notin Upstream(b.deps)[b.owner[t]]
    IN  Issue("task_dependency_cycle", ~Acyclic(TaskGraph(b)))
        \cup Issue("writer_task_required", ~Writers(b) \subseteq owners)
        \cup Issue("task_owner_dependency",
                   \E t \in ToSet(b.tasks) : \E d \in ToSet(b.needs[t]) : foreign(t, d))

(* require_canonical_cross_agent_projection, of PlanningProposal and of the approval. *)
CanonicalIssues(b) ==
    Issue("task_dependency_projection",
          \E t \in ToSet(b.tasks) : b.needs[t] # Distinct(Owned(b, t, b.needs[t]) \o Derived(b, t)))

(* validate_writer_task_scope_forecasts; a scope is a path below repository. *)
ForecastIssues(b) ==
    Issue("writer_task_workspace_consistency",
          \E t \in ToSet(b.tasks) : /\ b.owner[t] \in Writers(b)
                                    /\ \E p \in b.forecast[t] : ~IsPrefix(b.scope[b.owner[t]], p))

Ordered(b, a, c) == a \in Upstream(b.deps)[c] \/ c \in Upstream(b.deps)[a]

(* validate_complete_proposal *)
BodyIssues(b) ==
    Issue("criterion_id_unique", ~IsInjective(b.criteria))
    \cup Issue("agent_dependency_cycle", ~Acyclic(b.deps))
    \cup Issue("implementation_agent_required", Writers(b) = {})
    \cup Issue("quality_agent_required", Quality(b) = {})
    \cup Issue("quality_dependency_coverage",
               \E q \in Quality(b) : ~Writers(b) \subseteq Upstream(b.deps)[q])
    \cup BindingIssues(b)
    \cup Issue("writer_workspace_dependency_order",
               \E a, c \in Writers(b) : a # c /\ Overlap(b.scope[a], b.scope[c]) /\ ~Ordered(b, a, c))
    \cup Issue("writer_criterion_coverage",
               ~ToSet(b.criteria) \subseteq
                    UNION {ToSet(b.binds[t]) : t \in {u \in ToSet(b.tasks) : b.owner[u] \in Writers(b)}})
    \cup Issue("concurrency_agent_bound", b.concurrency > Len(b.agents))
    \cup Issue("revision_iteration_consistency", b.revises # (b.iterations > 1))

(* validate_test_suite_writer_ownership: scope <<>> is repository. *)
SuiteIssues(b) ==
    {"test_suite_writer_ownership" : c \in {d \in b.promised :
        ~\E t \in b.authors : /\ d \in ToSet(b.binds[t]) /\ b.owner[t] \in Writers(b)
                              /\ b.scope[b.owner[t]] \in {<<>>, <<"tests">>}}}

(* validate_criterion *)
CriterionIssues(b, c) ==
    LET writers == {b.owner[t] : t \in {u \in ToSet(b.tasks) : c \in ToSet(b.binds[u])}} \cap Writers(b)
        verifiers == ToSet(b.verifiers[c])
    IN  Issue("criterion_requirement", b.reqs[c] = {} \/ ~b.reqs[c] \subseteq b.required)
        \cup Issue("criterion_writer_required", writers = {})
        \cup Issue("criterion_verifier_required", verifiers = {})
        \cup Issue("criterion_verifier_capability", ~verifiers \subseteq Quality(b))
        \cup Issue("criterion_verifier_dependency",
                   \E v \in verifiers \cap ToSet(b.agents) : ~writers \subseteq Upstream(b.deps)[v])

(* The part of validate_planning_clarity that is about Agents, criteria and
   requirements. *)
ClarityIssues(b) ==
    LET criteria == ToSet(b.criteria)
        profile == ToSet(ProfileCriteria)
        scopes == ScopeIssues(b, criteria, profile)
    IN  SuiteIssues(b)
        \cup UNION {CriterionIssues(b, c) : c \in criteria}
        \cup (IF scopes = {} THEN TaskScopeIssues(b, ReviewScopes(b, criteria, profile)) ELSE scopes)
        \cup Issue("requirement_acceptance_coverage",
                   ~b.required \subseteq UNION {b.reqs[c] : c \in criteria})

(* validate_task_criterion_references and the collision check of the preview. *)
ReferenceIssues(b) ==
    Issue("repeats_profile_criteria", ToSet(b.criteria) \cap ToSet(ProfileCriteria) # {})
    \cup Issue("task_criterion_reference",
               \E t \in ToSet(b.tasks) :
                    ~ToSet(b.binds[t]) \subseteq ToSet(b.criteria) \cup ToSet(ProfileCriteria))
=============================================================================
