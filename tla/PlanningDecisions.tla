-------------------------- MODULE PlanningDecisions --------------------------
(***************************************************************************)
(* Who decided what in a plan (planning.py): the questions the Planner     *)
(* asks and the user answers, the decision records and the product         *)
(* definition a proposal carries, how the controller normalizes them, and  *)
(* the checks that a proposal passes before it becomes a revision.         *)
(*                                                                         *)
(* A text is a set of words, up to case and spaces: a quote is contained   *)
(* in a user's text when its words are.  An identity <<n, "lower">> is the *)
(* one the wire pattern refuses and the controller may put in upper case.  *)
(* The Agents, tasks and criteria of a proposal are in ProposalBody.       *)
(***************************************************************************)
EXTENDS Naturals, Sequences, FiniteSets

CONSTANTS
    Request,       \* source_request
    ChangeRequests, \* the change requests the user may type
    Questions,     \* the questions the Planner may ask
    Replies(_),    \* the answers the user may give to a question
    Drafts(_),     \* the proposals the Planner may submit, given the contracts
    MaxSummary,    \* MAX_PLANNING_DECISION_SUMMARY_CHARACTERS, in words
    RevisionBound, \* bound on the proposals accepted
    MaxQuestions   \* bound on the questions of a dialogue

VARIABLES
    phase,       \* "dialogue", "proposed", "cancelled" or "failed"
    current,     \* the latest proposal, NoDraft before the first
    revision,    \* its number
    inputs,      \* the request and the change requests of accepted revisions
    change,      \* the change request of this dialogue
    transcript,  \* the answered questions of this dialogue
    recovery,    \* the user decision the next response must ask about
    said,        \* history: the answered questions of accepted revisions
    bound        \* history: the decision each of them was accepted under

decisionsVars == <<phase, current, revision, inputs, change, transcript, recovery, said, bound>>

NoText == {}
Planner == {"planner"}
NoId == <<>>

(* ProductDefinitionDimension, in the order the controller looks at them. *)
Dimensions == {"target_users", "primary_workflow", "delivery_maturity", "usability_expectations",
               "operational_expectations", "delivery_expectations"}
UserDimensions == <<"target_users", "primary_workflow", "delivery_maturity">>
UserOwned == {UserDimensions[i] : i \in DOMAIN UserDimensions}

(* ProductDefinitionDisposition *)
Dispositions == {"explicit_input", "resolved_question", "planner_recommendation", "not_material"}

Levels == {"prototype", "local", "small"}

NoDraft == [decisions |-> {}, dims |-> <<>>, assumes |-> {}]
NoRecovery == [dim |-> "none", question |-> "none", decision |-> NoId, category |-> "none"]

-----------------------------------------------------------------------------
(* Authority *)

(* _DECISION_AUTHORITY *)
Authority(category) ==
    CASE category \in {"product_requirement", "risk_tradeoff", "privacy_or_data", "external_action",
                       "organization_policy"} -> "user"
      [] category \in {"acceptance_scope", "delivery", "resource_budget", "team", "model_route"} -> "planner"
      [] category \in {"local_implementation", "scheduling"} -> "agent"
      [] OTHER -> "controller"

(* _DECISION_PROVENANCE_AUTHORITY *)
ProvenanceAuthority(kind) ==
    CASE kind \in {"explicit_input", "resolved_question"} -> "user"
      [] kind = "planner_recommendation" -> "planner"
      [] OTHER -> "agent"

(* _PRODUCT_DIMENSION_DECISION_CATEGORY *)
DimensionCategory(d) ==
    CASE d \in {"target_users", "primary_workflow"} -> "product_requirement"
      [] d \in {"usability_expectations", "operational_expectations"} -> "acceptance_scope"
      [] OTHER -> "delivery"

(* PlanningDecisionRecord.resolved_question_id, as a text. *)
Resolved(dec) == IF dec.kind = "resolved_question" THEN dec.source ELSE dec.question

Resolving(b, q) == {dec \in b.decisions : Resolved(dec) = {q}}

-----------------------------------------------------------------------------
(* Question contracts *)

(* _question_contracts: those the current proposal resolves, under the values
   it carries, and those of this dialogue, under the answers. *)
ApprovedContract(b, dec) ==
    LET answered == {d \in Dimensions : /\ b.dims[d].disposition = "resolved_question"
                                        /\ b.dims[d].source = Resolved(dec)}
    IN  [category |-> dec.category, dims |-> answered, answer |-> NoText, values |-> <<>>,
         approved |-> [d \in answered |-> b.dims[d].value], required |-> dec.id]

AnswerContract(entry) ==
    [category |-> entry.question.category, dims |-> entry.question.dims, answer |-> entry.answer.text,
     values |-> entry.answer.values, approved |-> <<>>, required |-> entry.decision]

QuestionIds(entries) == {e.question.id : e \in entries}

QuestionContracts ==
    LET linked == {dec \in current.decisions : Resolved(dec) # NoText}
        name(t) == CHOOSE q \in t : TRUE
        approved == {name(Resolved(dec)) : dec \in linked}
    IN  [q \in approved \cup QuestionIds(transcript) |->
            IF q \in approved THEN ApprovedContract(current, CHOOSE dec \in linked : name(Resolved(dec)) = q)
            ELSE AnswerContract(CHOOSE e \in transcript : e.question.id = q)]

UserInputs == inputs \cup (IF change = NoText THEN {} ELSE {change})

Quoted(t, texts) == \E u \in texts : t \subseteq u

-----------------------------------------------------------------------------
(* Normalization *)

Canonical(id) == <<id[1], "upper">>

(* An identity is put in upper case where no two records would then share it. *)
Renamed(b, id) ==
    IF Cardinality({dec \in b.decisions : Canonical(dec.id) = Canonical(id)}) = 1
    THEN Canonical(id) ELSE id

(* _compile_product_dimension_sources *)
CompiledItem(d, item, contracts) ==
    LET asked == {q \in DOMAIN contracts : item.source = {q}}
        contract == contracts[CHOOSE q \in asked : TRUE]
        answer == IF d \in DOMAIN contract.values THEN contract.values[d] ELSE contract.answer
    IN  CASE /\ d # "delivery_maturity" /\ item.disposition = "resolved_question"
             /\ asked # {} /\ answer # NoText -> [item EXCEPT !.value = answer]
          [] d # "primary_workflow" /\ item.disposition = "not_material" ->
                [item EXCEPT !.reqs = {}, !.crits = {}, !.links = {}]
          [] OTHER -> item

CompileSources(b, contracts) ==
    [b EXCEPT !.dims = [d \in Dimensions |-> CompiledItem(d, b.dims[d], contracts)]]

CanonicalIds(b) ==
    [decisions |-> {[dec EXCEPT !.id = Renamed(b, dec.id)] : dec \in b.decisions},
     dims |-> [d \in Dimensions |-> [b.dims[d] EXCEPT !.links = {Renamed(b, r) : r \in @}]],
     assumes |-> {Renamed(b, r) : r \in b.assumes}]

Explicit(b) == {d \in Dimensions : b.dims[d].disposition = "explicit_input"}

(* explicit_sources_by_decision *)
ProductSources(b, id) ==
    {b.dims[d].source : d \in {e \in Explicit(b) : \E r \in b.dims[e].links : Canonical(r) = id}}

(* The provenance compiled for a decision that has none. *)
CompiledProvenance(b, dec, texts) ==
    LET cited == ProductSources(b, dec.id)
        found == IF cited # {} THEN cited ELSE IF Quoted(dec.summary, texts) THEN {dec.summary} ELSE {}
    IN  CASE dec.kind # "none" -> dec
          [] dec.kind = "none" /\ dec.question # NoText ->
                [dec EXCEPT !.kind = "resolved_question", !.source = dec.question]
          [] dec.kind = "none" /\ dec.question = NoText /\ Authority(dec.category) = "planner" ->
                [dec EXCEPT !.kind = "planner_recommendation", !.source = Planner]
          [] dec.kind = "none" /\ dec.question = NoText /\ Authority(dec.category) = "agent" ->
                [dec EXCEPT !.kind = "agent_autonomy", !.source = {"agent"}]
          [] /\ dec.kind = "none" /\ dec.question = NoText /\ Authority(dec.category) = "user"
             /\ Cardinality(found) = 1 ->
                [dec EXCEPT !.kind = "explicit_input", !.source = CHOOSE t \in found : TRUE]
          [] OTHER -> dec

CompiledDecision(b, dec, texts) ==
    LET p == CompiledProvenance(b, dec, texts)
        quotes == p.kind = "explicit_input" /\ Cardinality(p.source) <= MaxSummary
        retired == p.kind = "resolved_question" /\ p.source = p.question
    IN  [p EXCEPT !.summary = IF quotes THEN p.source ELSE @,
                  !.question = IF retired THEN NoText ELSE @]

(* redundant_direct_product_decision_ids: what the product definition already
   says in the user's words. *)
Redundant(b, texts) ==
    {dec.id : dec \in {x \in b.decisions :
        LET p == CompiledProvenance(b, x, texts)
        IN  /\ p.kind = "explicit_input"
            /\ \/ x.kind = "none" /\ ProductSources(b, x.id) # {}
               \/ \E d \in Explicit(b) : /\ DimensionCategory(d) = x.category
                                         /\ b.dims[d].source = p.source}}

Trimmed(item) ==
    IF item.disposition = "explicit_input" /\ (item.reqs # {} \/ item.crits # {})
    THEN [item EXCEPT !.links = {}] ELSE item

(* What still refers to a decision. *)
References(b) == UNION {b.dims[d].links : d \in Dimensions} \cup b.assumes

(* _normalize_planning_decision_relations *)
Relations(b, texts) ==
    LET named == CanonicalIds(b)
        trimmed == [named EXCEPT !.dims = [d \in Dimensions |-> Trimmed(named.dims[d])]]
        dropped == Redundant(named, texts) \ References(trimmed)
    IN  [trimmed EXCEPT !.decisions =
            {CompiledDecision(named, dec, texts) : dec \in {x \in named.decisions : x.id \notin dropped}}]

Normalized(b, texts, contracts) == Relations(CompileSources(b, contracts), texts)

-----------------------------------------------------------------------------
(* Validation.  An issue names who may repair it: the model, the controller,
   or the user, and then the dimension, or the decision and the question, it
   is about. *)
Issue(owner, name) ==
    [owner |-> owner, name |-> name, dim |-> "none", decision |-> NoId, question |-> "none"]
If(failed, issue) == IF failed THEN {issue} ELSE {}

OfDimension(owner, d) == [Issue(owner, "product_definition") EXCEPT !.dim = d]

(* PlanningDecisionProvenance: a source that does not fit its kind. *)
ProvenanceRefused(dec) ==
    \/ dec.kind = "planner_recommendation" /\ dec.source # Planner
    \/ dec.kind = "agent_autonomy" /\ dec.source # {"agent"}
    \/ dec.kind = "resolved_question" /\ dec.source = NoText

(* PlanningDecisionRecord, ProductDefinitionBasis:
   what the response model refuses.  _planning_wire_user_decision_invariants
   then asks the user about a dimension the Planner chose for them. *)
RecordRefused(dec) ==
    \/ dec.id # Canonical(dec.id)
    \/ dec.kind # "none" /\ ProvenanceAuthority(dec.kind) # Authority(dec.category)
    \/ ProvenanceRefused(dec)
    \/ /\ dec.question # NoText
       /\ \/ dec.kind # "none" /\ (dec.kind # "resolved_question" \/ dec.source # dec.question)
          \/ Authority(dec.category) \in {"agent", "controller"}

ItemRefused(item) ==
    \/ item.disposition \notin Dispositions
    \/ item.disposition # "not_material" /\ item.reqs \cup item.crits = {} /\ item.links = {}
    \/ \E r \in item.links : r # Canonical(r)

WireIssues(b) ==
    LET chosen == {d \in UserOwned : b.dims[d].disposition = "planner_recommendation"}
        refused == \/ b.decisions = {}
                   \/ \E dec \in b.decisions : RecordRefused(dec)
                   \/ \E d \in Dimensions : ItemRefused(b.dims[d])
                   \/ \E r \in b.assumes : r # Canonical(r)
    IN  IF ~refused THEN {}
        ELSE IF chosen # {} THEN {OfDimension("user", d) : d \in chosen}
        ELSE {Issue("model", "schema")}

(* _validate_decision_provenance raises at the first decision without a source
   or with a summary beyond it, else reports every quote that is not there. *)
ProvenanceVerdicts(b, texts) ==
    LET unsourced == {dec \in b.decisions : dec.kind = "none"}
        invented == {dec \in b.decisions : dec.kind = "explicit_input" /\ ~Quoted(dec.source, texts)}
        beyond == {dec \in b.decisions \ invented :
                      dec.kind = "explicit_input" /\ ~(dec.summary \subseteq dec.source)}
    IN  IF unsourced \cup beyond # {}
        THEN {{Issue(IF Authority(dec.category) = "user" THEN "user" ELSE "model", "provenance")} : dec \in unsourced}
             \cup {{Issue("model", "summary")} : dec \in beyond}
        ELSE {If(invented # {}, Issue("model", "quote"))}

(* The level in an answer of the user's own words. *)
LevelsIn(answer) == {{l} : l \in answer \cap Levels}

(* A dimension that a question resolved: the decision, the contract, and the
   value the user gave or the last revision carried. *)
QuestionIssue(b, d, contracts) ==
    LET item == b.dims[d]
        linked == {dec \in b.decisions : Resolved(dec) = item.source}
        contract == contracts[CHOOSE q \in DOMAIN contracts : item.source = {q}]
        unlinked == \/ Cardinality(linked) # 1
                    \/ \E dec \in linked : dec.category # "product_requirement" \/ item.links # {dec.id}
        unasked == \/ \A q \in DOMAIN contracts : item.source # {q}
                   \/ contract.category # "product_requirement"
        exact == d \in DOMAIN contract.values
        maturity == d = "delivery_maturity"
        kept == CASE contract.answer = NoText -> d \in DOMAIN contract.approved /\ contract.approved[d] = item.value
                  [] contract.answer # NoText /\ exact -> contract.values[d] = item.value
                  [] contract.answer # NoText /\ ~exact /\ maturity -> LevelsIn(contract.answer) = {item.value}
                  [] OTHER -> item.value \subseteq contract.answer
        silent == contract.answer # NoText /\ maturity /\ ~exact /\ LevelsIn(contract.answer) = {}
    IN  CASE unlinked -> {OfDimension("model", d)}
          [] ~unlinked /\ unasked -> {OfDimension("model", d)}
          [] ~unlinked /\ ~unasked /\ d \notin contract.dims ->
                {OfDimension(IF d \in UserOwned THEN "user" ELSE "model", d)}
          [] ~unlinked /\ ~unasked /\ d \in contract.dims /\ ~kept ->
                {OfDimension(IF silent THEN "user" ELSE "model", d)}
          [] OTHER -> {}

(* What a dimension may not cite, whatever its disposition. *)
TraceRefused(b, d) ==
    LET item == b.dims[d]
        immaterial == item.disposition = "not_material"
    IN  \/ d = "primary_workflow" /\ immaterial
        \/ immaterial /\ (item.reqs \cup item.crits # {} \/ item.links # {})
        \/ ~(item.links \subseteq {dec.id : dec \in b.decisions})

ExplicitIssue(b, d, texts) ==
    LET item == b.dims[d]
    IN  If(\/ ~Quoted(item.source, texts)
           \/ d # "delivery_maturity" /\ item.value # item.source
           \/ item.links # {}, OfDimension("model", d))

RecommendedIssue(b, d) ==
    LET item == b.dims[d]
        category == IF d = "delivery_expectations" THEN "delivery" ELSE "acceptance_scope"
    IN  IF d \in UserOwned THEN {OfDimension("user", d)}
        ELSE If(\/ item.source # Planner \/ item.links = {}
                \/ \E dec \in b.decisions : dec.id \in item.links /\ dec.category # category,
                OfDimension("model", d))

ImmaterialIssue(b, d) ==
    IF \/ d = "delivery_maturity"
       \/ d = "target_users" /\ b.dims["delivery_maturity"].value # {"prototype"}
    THEN {OfDimension("user", d)}
    ELSE If(b.dims[d].source # Planner, OfDimension("model", d))

(* _product_definition_dimension_invariant: at most one issue of a dimension. *)
DimensionIssue(b, d, texts, contracts) ==
    LET disposition == b.dims[d].disposition
    IN  CASE TraceRefused(b, d) -> {OfDimension("model", d)}
          [] ~TraceRefused(b, d) /\ disposition = "explicit_input" -> ExplicitIssue(b, d, texts)
          [] ~TraceRefused(b, d) /\ disposition = "resolved_question" -> QuestionIssue(b, d, contracts)
          [] ~TraceRefused(b, d) /\ disposition = "planner_recommendation" -> RecommendedIssue(b, d)
          [] OTHER -> ImmaterialIssue(b, d)

(* _validate_product_definition *)
ProductIssues(b, texts, contracts) ==
    LET found == UNION {DimensionIssue(b, d, texts, contracts) : d \in Dimensions}
        material(d) == b.dims[d].disposition # "not_material"
    IN  IF found # {} THEN found
        ELSE If(\/ \E d \in {"target_users", "primary_workflow"} : material(d) /\ b.dims[d].reqs = {}
                \/ \E d \in {"usability_expectations", "operational_expectations"} :
                        material(d) /\ b.dims[d].crits = {},
                Issue("model", "effect"))

RecommendationIssues(b) ==
    If({"acceptance_scope", "delivery", "team", "model_route"} \ {dec.category : dec \in b.decisions} # {},
       Issue("model", "recommendation"))

AssumptionIssues(b) ==
    If(\E r \in b.assumes : \A dec \in b.decisions : dec.id = r => Authority(dec.category) # "agent",
       Issue("model", "assumption"))

(* Mutant: a revision may drop an answered question. *)
LinkIssues_Answered(b, contracts) ==
    If(\E q \in DOMAIN contracts : contracts[q].answer # NoText /\ Resolving(b, q) = {},
       Issue("model", "question_missing"))

(* Mutant: a decision may cite a question nobody asked. *)
LinkIssues_Unasked(b, contracts) ==
    If(\E q \in DOMAIN contracts : Cardinality(Resolving(b, q)) # 1, Issue("model", "question_missing"))

(* Every question is resolved by one decision, and no decision by a question
   that was not asked: the user is asked that question. *)
LinkIssues(b, contracts) ==
    LET linked == {dec \in b.decisions : Resolved(dec) # NoText}
        asked == {{q} : q \in DOMAIN contracts}
        twice == \E x, y \in linked : x # y /\ Resolved(x) = Resolved(y)
    IN  IF twice THEN {Issue("model", "question_twice")}
        ELSE If(\E q \in DOMAIN contracts : Resolving(b, q) = {}, Issue("model", "question_missing"))
             \cup {[Issue("user", "question_invented") EXCEPT !.decision = dec.id,
                        !.question = CHOOSE q \in Resolved(dec) : TRUE] :
                    dec \in {x \in linked : Resolved(x) \notin asked}}

ContractIssues(b, contracts) ==
    If(\E q \in DOMAIN contracts : \E dec \in Resolving(b, q) :
            \/ dec.category # contracts[q].category
            \/ contracts[q].required # NoId /\ dec.id # contracts[q].required,
       Issue("model", "contract"))

(* validate_planning_clarity: the issues it may raise, in its order.  Those of
   the product definition and the recommendations wait for each other, unless
   the user is asked. *)
ClarityVerdicts(b, texts, contracts) ==
    LET ids == {dec.id : dec \in b.decisions}
        identity == If(Cardinality(ids) # Cardinality(b.decisions), Issue("model", "identity"))
        claims == If(\E dec \in b.decisions : Authority(dec.category) = "controller",
                     Issue("controller", "authority"))
        provenance == ProvenanceVerdicts(b, texts)
        product == ProductIssues(b, texts, contracts)
        together == product \cup RecommendationIssues(b)
        links == LinkIssues(b, contracts)
    IN  IF identity # {} THEN {identity}
        ELSE IF claims # {} THEN {claims}
        ELSE IF provenance # {{}} THEN provenance
        ELSE IF \E i \in product : i.owner = "user" THEN {product}
        ELSE IF AssumptionIssues(b) # {} THEN {AssumptionIssues(b)}
        ELSE IF together # {} THEN {together}
        ELSE IF links # {} THEN {links}
        ELSE {ContractIssues(b, contracts)}

ProposalVerdicts(b, texts, contracts) ==
    IF WireIssues(b) # {} THEN {WireIssues(b)} ELSE ClarityVerdicts(b, texts, contracts)

(* _clarification_recovery_from_diagnostic: the first dimension that needs the
   user, else a question the Planner made up, bound to its decision. *)
ClarificationRecovery(b, issues) ==
    LET needed == {i \in DOMAIN UserDimensions :
                      \E x \in issues : x.owner = "user" /\ x.dim = UserDimensions[i]}
        invented == {x \in issues : x.name = "question_invented"}
        first == CHOOSE i \in needed : \A j \in needed : i <= j
        made == CHOOSE x \in invented : TRUE
    IN  CASE needed # {} -> [NoRecovery EXCEPT !.dim = UserDimensions[first], !.category = "product_requirement"]
          [] needed = {} /\ invented # {} ->
                [dim |-> "none", question |-> made.question, decision |-> made.decision,
                 category |-> (CHOOSE dec \in b.decisions : dec.id = made.decision).category]
          [] OTHER -> NoRecovery

-----------------------------------------------------------------------------
(* The dialogue *)

DecisionsInit ==
    /\ phase = "dialogue" /\ current = NoDraft /\ revision = 0
    /\ inputs = {Request} /\ change = NoText /\ transcript = {}
    /\ recovery = NoRecovery /\ said = {} /\ bound = <<>>

(* validate_question_admission *)
Admitted(q) ==
    /\ q.id \notin DOMAIN QuestionContracts
    /\ Authority(q.category) \notin {"agent", "controller"}
    /\ q.dims # {} => q.category = "product_requirement"

(* _planning_question_response_schema: a recovery pins what may be asked. *)
Recovers(q) ==
    recovery # NoRecovery =>
        /\ q.category = recovery.category
        /\ recovery.question # "none" => q.id = recovery.question
        /\ CASE recovery.dim # "none" -> q.dims = {recovery.dim}
             [] recovery.dim = "none" /\ recovery.category = "product_requirement" -> Cardinality(q.dims) <= 1
             [] OTHER -> q.dims = {}

(* _interactive_question_answerer: an answer is the user's own text, or an
   option with its value for every dimension of the question. *)
Offered(q, a) == DOMAIN a.values \in {{}, q.dims}

(* _normalize_question_answer lets both through. *)
Answer(q, a) ==
    /\ phase = "dialogue" /\ Cardinality(transcript) < MaxQuestions
    /\ Admitted(q) /\ Recovers(q) /\ Offered(q, a)
    /\ transcript' = transcript \cup
            {[question |-> q, answer |-> a, decision |-> recovery.decision]}
    /\ recovery' = NoRecovery
    /\ UNCHANGED <<phase, current, revision, inputs, change, said, bound>>

Decline ==
    /\ phase = "dialogue"
    /\ phase' = "cancelled"
    /\ UNCHANGED <<current, revision, inputs, change, transcript, recovery, said, bound>>

Accept(b) ==
    /\ phase' = "proposed" /\ current' = b /\ revision' = revision + 1
    /\ inputs' = UserInputs /\ change' = NoText
    /\ transcript' = {} /\ said' = said \cup transcript
    /\ bound' = [q \in DOMAIN bound \cup QuestionIds(transcript) |->
                    IF q \in DOMAIN bound THEN bound[q] ELSE (CHOOSE dec \in Resolving(b, q) : TRUE).id]
    /\ UNCHANGED recovery

(* What the user must decide is asked; what the model may repair is sent back. *)
Refuse(b, issues) ==
    LET next == ClarificationRecovery(b, issues)
        lost == next = NoRecovery /\ \E i \in issues : i.owner # "model"
    IN  /\ recovery' = next
        /\ phase' = IF ~lost THEN phase ELSE IF revision = 0 THEN "failed" ELSE "proposed"
        /\ transcript' = IF lost THEN {} ELSE transcript
        /\ change' = IF lost THEN NoText ELSE change
        /\ UNCHANGED <<current, revision, inputs, said, bound>>

(* A proposal is only heard when no question has to be asked first. *)
Propose(raw) ==
    LET b == Normalized(raw, UserInputs, QuestionContracts)
    IN  /\ phase = "dialogue" /\ recovery = NoRecovery /\ revision < RevisionBound
        /\ \E issues \in ProposalVerdicts(b, UserInputs, QuestionContracts) :
              IF issues = {} THEN Accept(b) ELSE Refuse(b, issues)

Revise(text) ==
    /\ phase = "proposed" /\ revision < RevisionBound
    /\ phase' = "dialogue" /\ change' = text
    /\ UNCHANGED <<current, revision, inputs, transcript, recovery, said, bound>>

(* The corrections are used up: restore_proposed_revision, or the session fails. *)
GiveUp ==
    /\ phase = "dialogue"
    /\ phase' = IF revision = 0 THEN "failed" ELSE "proposed"
    /\ transcript' = {} /\ change' = NoText /\ recovery' = NoRecovery
    /\ UNCHANGED <<current, revision, inputs, said, bound>>

DecisionsNext ==
    \/ \E q \in Questions : \E a \in Replies(q) : Answer(q, a)
    \/ Decline
    \/ \E raw \in Drafts(QuestionContracts) : Propose(raw)
    \/ \E text \in ChangeRequests : Revise(text)
    \/ GiveUp

DecisionsSpec == DecisionsInit /\ [][DecisionsNext]_decisionsVars

-----------------------------------------------------------------------------
(* Properties *)

(* What the user answered stands in every later revision: each question is
   resolved by exactly one decision, of the category that was asked, under the
   identity it was first accepted with (or the controller bound it to), and a
   dimension that cites it has the value of the option the user chose, or is in
   the user's words. *)
AnswersStand ==
    phase = "proposed" => \A e \in said :
        LET q == e.question.id
            cited == {d \in Dimensions : /\ current.dims[d].disposition = "resolved_question"
                                         /\ current.dims[d].source = {q}}
        IN  /\ \E dec \in current.decisions :
                  /\ Resolving(current, q) = {dec}
                  /\ dec.category = e.question.category /\ dec.id = bound[q]
                  /\ e.decision # NoId => dec.id = e.decision
            /\ \A d \in cited :
                  /\ d \in e.question.dims
                  /\ IF d \in DOMAIN e.answer.values THEN current.dims[d].value = e.answer.values[d]
                     ELSE current.dims[d].value \subseteq e.answer.text

(* Nothing is decided in the user's name: in a proposal, each decision and each
   dimension that belongs to the user quotes the request or a change request of
   an accepted revision, or cites a question the user answered. *)
NothingInvented ==
    phase = "proposed" =>
        LET answered(t) == \E e \in said : t = {e.question.id}
        IN  /\ \A dec \in current.decisions : Authority(dec.category) = "user" =>
                  \/ /\ dec.kind = "explicit_input" /\ Quoted(dec.source, inputs)
                     /\ dec.summary \subseteq dec.source
                  \/ dec.kind = "resolved_question" /\ answered(dec.source)
            /\ \A d \in UserOwned : LET item == current.dims[d] IN
                  \/ item.disposition = "explicit_input" /\ Quoted(item.source, inputs)
                  \/ item.disposition = "resolved_question" /\ answered(item.source)
                  \/ /\ d = "target_users" /\ item.disposition = "not_material"
                     /\ current.dims["delivery_maturity"].value = {"prototype"}

=============================================================================
