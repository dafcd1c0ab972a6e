--------------------------- MODULE ReviewGrounding ---------------------------
(***************************************************************************)
(* How one Reviewer's answer becomes a ReviewReport (responses.py,         *)
(* assembly.py, artifacts.py, dynamic_runner._accept_completed_attempt).   *)
(*                                                                         *)
(* The Reviewer runs tools, then submits an assessment of every criterion  *)
(* it was assigned.  Each claim of an assessment is a text fragment that   *)
(* the controller looks up in the results of every attempt of the chain    *)
(* and in the output of the deterministic commands.  Claims that do not    *)
(* ground are corrected by picking from a catalogue the controller makes   *)
(* of the same results; the correction attempt may run tools of its own,   *)
(* whose results join the chain, while a slot whose pick was refused keeps *)
(* the catalogue made before them.                                         *)
(*                                                                         *)
(* A fragment stands for its text up to JSON white space; an output is the *)
(* set of fragments that occur in it.  Two more sets hold texts of a       *)
(* result that do NOT occur in its output: "joined" is what the controller *)
(* reads from a probe by joining its last lines of standard output with    *)
(* its result marker, and lines that a carriage return ends; "split" is    *)
(* what the catalogue makes of such lines in an output.  An assessment     *)
(* makes one claim for the criterion ("main") and one for every boundary   *)
(* it checked.                                                             *)
(***************************************************************************)
EXTENDS Integers, Sequences, FiniteSets, SequencesExt

CONSTANTS
    Criteria,        \* acceptance criteria of the task brief
    Scope,           \* the criteria assigned to this Reviewer
    Boundaries,      \* criterion -> its approved review boundaries
    Specialist,      \* does the artifact kind have surfaces or workflows
    Calls,           \* the tool results an attempt can record
    Commands,        \* the deterministic commands of the iteration
    Answers,          \* the responses a Reviewer can submit
    Rewrites,        \* responses whose fields it may rewrite the targets with
    MaxAttempts,     \* bound: evidence attempts of the chain
    MaxCalls,        \* bound: tool results of one attempt
    MaxCandidates    \* _MAX_REVIEW_EVIDENCE_CANDIDATES_PER_SLOT

(* The parts of a response; every assessment has a claim for its criterion.
   "repeats" names the lists in which an identifier is repeated. *)
WellFormed(b) ==
    /\ DOMAIN b = {"verdict", "terminal", "repeats", "special", "assess", "findings"}
    /\ b.repeats \subseteq {"assess", "findings"}
    /\ \A c \in DOMAIN b.assess :
          /\ c # "body" /\ DOMAIN b.assess[c] = {"status", "claims"}
          /\ b.assess[c].status \in {"satisfied", "blocked"} /\ "main" \in DOMAIN b.assess[c].claims

ASSUME GroundingAssumption ==
    /\ \A b \in Answers \cup Rewrites : WellFormed(b)
    /\ \A call \in Calls : call.exit \in {"zero", "nonzero"}
    /\ Scope \subseteq Criteria
    /\ DOMAIN Boundaries = Criteria
    /\ Specialist \in BOOLEAN
    /\ MaxAttempts \in Nat /\ MaxCalls \in Nat /\ MaxCandidates \in Nat \ {0}

VARIABLES
    attempts,  \* the evidence attempts of the review chain: sets of tool results
    phase,     \* "working", "correcting", "assembled" or "failed"
    body,      \* the semantic payload a correction starts from
    correction, \* the correction plan: its targets, issues and catalogue, and the
                \* number of attempts the catalogue was made from (for the properties)
    met,       \* fingerprints of the diagnostics met
    report     \* the assembled ReviewReport

reviewVars == <<attempts, phase, body, correction, met, report>>

NoBody == [verdict |-> "none"]
NoReport == [verdict |-> "none"]
NoCorrection == [targets |-> {}, issues |-> {}, catalogue |-> <<>>, made |-> 0]

-----------------------------------------------------------------------------
(* Tool results and what they prove *)

Raw(call) == call.stdout \cup call.rest

(* Mutant: the child's stderr counts as well. *)
PositiveSurface_Raw(call) == Raw(call)

(* Of a direct probe only the framed child output and the result marker are
   positive evidence, joined line by line, and only if the frame is complete. *)
PositiveSurface(call) ==
    IF call.kind # "probe" THEN Raw(call)
    ELSE IF call.framed THEN call.stdout \cup call.joined ELSE {}

(* validate_outcome gives the outcome; the last line of a probe, or a legacy
   EXIT line of another tool, tells whether the program it ran failed. *)
Ineligible(call) == call.outcome # "succeeded" \/ call.exit = "nonzero"

(* _observable_matches_output, on fragments: the text itself or, for a keyed
   JSON fragment, the text up to white space. *)
Occurs(fragment, output) == fragment \in output

Results(chain) == UNION {{i} \X chain[i] : i \in DOMAIN chain}

Surface(call, status) == IF status = "satisfied" THEN PositiveSurface(call) ELSE Raw(call)

(* _match_review_evidence.  A successful direct probe is the authoritative
   emission of its fragment: other results that echo it are not cited. *)
ToolMatches(fragment, status, chain) ==
    LET matches == {r \in Results(chain) : Occurs(fragment, Surface(r[2], status))}
        direct == {r \in matches : r[2].kind = "probe" /\ ~Ineligible(r[2])}
    IN  IF status = "satisfied" /\ direct # {} THEN direct ELSE matches

HiddenMatches(fragment, status, chain) ==
    {r \in Results(chain) : /\ status = "satisfied" /\ r[2].kind = "probe"
                            /\ Occurs(fragment, Raw(r[2])) /\ ~Occurs(fragment, PositiveSurface(r[2]))}

CommandMatches(fragment) == {k \in Commands : Occurs(fragment, k.output)}

Unsafe == {"positive_surface_unavailable", "deferred_tool", "failed_tool", "failed_command"}

(* evaluate_claim: the grounding error of one claim, or "none". *)
ClaimError(fragment, status, chain) ==
    LET tools == ToolMatches(fragment, status, chain)
        bad == {r \in tools : status = "satisfied" /\ Ineligible(r[2])}
    IN  CASE tools = {} /\ CommandMatches(fragment) = {} ->
               IF HiddenMatches(fragment, status, chain) # {}
               THEN "positive_surface_unavailable" ELSE "fragment_unmatched"
          [] \E r \in bad : r[2].outcome = "deferred" -> "deferred_tool"
          [] bad # {} -> "failed_tool"
          [] status = "satisfied" /\ \E k \in CommandMatches(fragment) : k.failed -> "failed_command"
          [] OTHER -> "none"

-----------------------------------------------------------------------------
(* From a response body to a grounded one *)

(* _normalize_review_boundary_scope_payload: the brief owns the boundaries. *)
Normalized(b) ==
    [b EXCEPT !.assess = [c \in DOMAIN b.assess |->
        [b.assess[c] EXCEPT !.claims =
            [s \in (DOMAIN b.assess[c].claims) \cap ({"main"} \cup
                        IF c \in Criteria THEN Boundaries[c] ELSE DOMAIN b.assess[c].claims)
                |-> b.assess[c].claims[s]]]]]

Slots(b) == UNION {{<<c, s>> : s \in DOMAIN b.assess[c].claims} : c \in DOMAIN b.assess}

Claim(b, slot) == b.assess[slot[1]].claims[slot[2]]
Status(b, slot) == b.assess[slot[1]].status

(* require_unique_boundary_checks_and_observables, narrowed by
   _target_duplicate_boundary_observables to the leaves that repeat another:
   all but one of each fragment. *)
Repeated(b) ==
    LET leaves == {t \in Slots(b) : t[2] # "main"}
        same(t) == {u \in leaves : u[1] = t[1] /\ Claim(b, u) = Claim(b, t)}
    IN  {t \in leaves : t # CHOOSE u \in same(t) : TRUE}

Blocked(assess) == {c \in DOMAIN assess : assess[c].status = "blocked"}

BlockingScope(findings) == UNION {f.scope : f \in {g \in findings : g.blocking}}

Recoverable(b) ==
    /\ b.verdict = "revise"
    /\ Blocked(b.assess) # {}
    /\ \E f \in b.findings : f.blocking

(* The first pass reports every claim that does not ground; in a revision that
   has a blocker of its own, unsafe proof is left for the second pass.  An error
   is a claim and what is wrong with it. *)
GroundingErrors(b, chain) ==
    LET error == [t \in Slots(b) |-> ClaimError(Claim(b, t), Status(b, t), chain)]
    IN  {<<t, error[t]>> : t \in {u \in DOMAIN error :
            error[u] # "none" /\ ~(error[u] \in Unsafe /\ Recoverable(b))}}

(* ground_assessment under one status; the references are the citations. *)
Cited(a, status, chain) ==
    [s \in DOMAIN a.claims |->
        [tools |-> ToolMatches(a.claims[s], status, chain), commands |-> CommandMatches(a.claims[s])]]

(* The second pass: a positive assessment whose proof is unsafe is blocked. *)
Downgraded(b, chain) ==
    {c \in DOMAIN b.assess : /\ b.assess[c].status = "satisfied"
                             /\ \E s \in DOMAIN b.assess[c].claims :
                                    ClaimError(b.assess[c].claims[s], "satisfied", chain) \in Unsafe}

(* Mutant: only the claims that made the assessment unsafe are bound again. *)
LateErrors_Unsafe(b, chain) ==
    {t \in Slots(b) : /\ t[1] \in Downgraded(b, chain) /\ ClaimError(Claim(b, t), "satisfied", chain) \in Unsafe
                      /\ ClaimError(Claim(b, t), "blocked", chain) # "none"}

(* A claim of a downgraded assessment that does not ground under its new status:
   its text was joined, or another claim of the assessment was the unsafe one. *)
LateErrors(b, chain) ==
    {t \in Slots(b) : t[1] \in Downgraded(b, chain) /\ ClaimError(Claim(b, t), "blocked", chain) # "none"}

ControllerFindings(findings, down) ==
    {[id |-> c, blocking |-> TRUE, critical |-> FALSE, scope |-> {c}] : c \in down \ BlockingScope(findings)}

(* _bind_unambiguous_blocking_finding_scope *)
BindScope(findings, assess) ==
    LET unscoped == {f \in findings : f.blocking /\ f.scope = {}}
        uncovered == Blocked(assess) \ BlockingScope(findings)
    IN  IF Cardinality(unscoped) # 1 \/ uncovered = {} THEN findings
        ELSE (findings \ unscoped) \cup {[f EXCEPT !.scope = uncovered] : f \in unscoped}

Grounded(b, chain) ==
    LET down == Downgraded(b, chain)
        assess == [c \in DOMAIN b.assess |->
                    LET status == IF c \in down THEN "blocked" ELSE b.assess[c].status
                    IN  [status |-> status, cited |-> Cited(b.assess[c], status, chain)]]
    IN  [verdict |-> b.verdict, terminal |-> b.terminal, repeats |-> b.repeats, special |-> b.special,
         assess |-> assess,
         findings |-> BindScope(b.findings \cup ControllerFindings(b.findings, down), assess)]

-----------------------------------------------------------------------------
(* What the context and the artifact model demand *)

Checked(g, c) == (DOMAIN g.assess[c].cited) \ {"main"}

(* The fields the diagnostic of a context failure lets the Reviewer rewrite
   (_context_failure_diagnostic): the first rule that fails decides. *)
AllFields == {"assess", "findings", "verdict"}

Mismatched(g) == Blocked(g.assess) # BlockingScope(g.findings)

(* parse_dynamic_agent_response, in the order of its checks. *)
ContextFailure(g) ==
    CASE g.verdict = "fail" /\ ~g.terminal -> {"assess", "findings"}
      [] "assess" \in g.repeats -> AllFields
      [] DOMAIN g.assess # Scope -> AllFields
      [] Specialist /\ g.special.scope # Scope -> {"special"}
      [] \E c \in DOMAIN g.assess : ~(Checked(g, c) \subseteq Boundaries[c]) -> {"assess", "findings"}
      [] \E c \in DOMAIN g.assess :
            \/ g.assess[c].status = "satisfied" /\ Checked(g, c) # Boundaries[c]
            \/ g.assess[c].status = "blocked" /\ Boundaries[c] # {} /\ Checked(g, c) = {} -> AllFields
      [] \E f \in g.findings : f.scope = {} \/ ~(f.scope \subseteq Scope) -> {"findings"}
      [] Mismatched(g) -> AllFields
      [] (g.verdict = "accept") # (Blocked(g.assess) = {}) -> AllFields
      [] OTHER -> {}

(* _validate_specialized_assessment_scope: the entries of a specialist agree
   with its verdict. *)
SpecialRefused(g) ==
    Specialist /\ \/ ~(g.special.scope \subseteq Scope)
                  \/ (g.verdict = "accept") = g.special.blocked

(* ReviewReport.validate_verdict: the rules a grounded response breaks. *)
ReportRefusals(g) ==
    LET some == g.assess # <<>>
        breaks(rule) ==
            CASE rule = "finding ids" -> "findings" \in g.repeats
              [] rule = "scope" -> some /\ DOMAIN g.assess # Scope
              [] rule = "blocked" -> some /\ Blocked(g.assess) # BlockingScope(g.findings)
              [] rule = "verdict" -> some /\ (g.verdict = "accept") # (Blocked(g.assess) = {})
              [] rule = "accepted blocker" -> g.verdict = "accept" /\ \E f \in g.findings : f.blocking
              [] rule = "no blocker" -> g.verdict = "revise" /\ ~\E f \in g.findings : f.blocking
              [] rule = "critical" -> g.verdict = "fail" /\ ~\E f \in g.findings : f.critical
              [] rule = "terminal" -> g.verdict # "fail" /\ g.terminal
              [] rule = "special" -> SpecialRefused(g)
    IN  {rule \in {"finding ids", "scope", "blocked", "verdict", "accepted blocker", "no blocker",
                   "critical", "terminal", "special"} : breaks(rule)}

-----------------------------------------------------------------------------
(* The correction catalogue *)

(* _review_evidence_candidate_fragments: the text a claim of this status is
   matched with, its lines, and joins of its lines. *)
Fragments(call, status) ==
    IF status = "satisfied" /\ call.kind = "probe" THEN PositiveSurface(call) ELSE Raw(call) \cup call.split

(* What the catalogue of a claim draws from: the results and commands that a
   claim of this status may cite. *)
Sources(status, chain) ==
    LET results == {r \in Results(chain) : r[2].kind # "submit" /\ ~(status = "satisfied" /\ Ineligible(r[2]))}
        commands == {k \in Commands : ~(status = "satisfied" /\ k.failed)}
    IN  (UNION {Fragments(r[2], status) : r \in results}) \cup UNION {k.output \cup k.split : k \in commands}

(* Mutant: a fragment is offered although another result makes it unsafe. *)
Candidates_Eligible(status, chain) == Sources(status, chain)

(* bind_review_evidence_correction_candidates: for a positive claim, those that
   final grounding would refuse are left out; for a blocked one nothing is. *)
Candidates(status, chain) ==
    {f \in Sources(status, chain) : status = "blocked" \/ ClaimError(f, "satisfied", chain) = "none"}

(* The best MaxCandidates are offered, ranked by their likeness to the refused
   text; a slot without a candidate ends the chain. *)
Offers(status, chain) ==
    LET fit == Candidates(status, chain)
        size == IF Cardinality(fit) < MaxCandidates THEN Cardinality(fit) ELSE MaxCandidates
    IN  {s \in SUBSET fit : Cardinality(s) = size}

Catalogues(b, slots, chain) ==
    LET offers == [s \in {"satisfied", "blocked"} |-> Offers(s, chain)]
    IN  {k \in [slots -> offers["satisfied"] \cup offers["blocked"]] :
            \A t \in slots : k[t] \in offers[Status(b, t)]}

Correctable(b, slots, chain) == \A t \in slots : Candidates(Status(b, t), chain) # {}

-----------------------------------------------------------------------------
(* What one completed attempt leads to *)

(* The diagnostic of a response: the places to rewrite, the issues found, and
   the issues of the plan that is made of them.  An issue is known by what it is
   about, not by its place: two unmatched claims of one criterion are one issue
   (ResponseValidationIssue.identity).  Repeated fragments are found as an issue
   of the list they are in, the plan names them one by one.  A second pass ends
   with the first claim that fails, here any of them. *)
Diagnoses(b, g, chain) ==
    LET repeated == Repeated(b)
        errors == GroundingErrors(b, chain)
        late == LateErrors(b, chain)
        context == ContextFailure(g)
        plain(targets, issues) == [targets |-> targets, found |-> issues, issues |-> issues]
    IN  CASE repeated # {} ->
               {[targets |-> repeated, found |-> {<<t[1], "repeated">> : t \in repeated},
                 issues |-> {<<t[1], t[2], "distinct">> : t \in repeated}]}
          [] repeated = {} /\ errors # {} ->
               {plain({e[1] : e \in errors}, {<<e[1][1], e[2]>> : e \in errors})}
          [] repeated = {} /\ errors = {} /\ late # {} ->
               {plain({t}, {<<t[1], "fragment_unmatched">>}) : t \in late}
          [] OTHER ->
               {plain({<<"body", f>> : f \in context}, {<<"body", f>> : f \in context})}

(* correction_outcome: an issue of the plan is gone and the diagnostic is new. *)
Progresses(found) == found \notin met /\ ~(correction.issues \subseteq found)

(* _accept_completed_attempt.  A report the artifact model refuses is raised
   outside the handlers of the response errors: the Agent fails. *)
Examine(raw, chain, first) ==
    \E b \in {Normalized(raw)} : \E g \in {Grounded(b, chain)} : \E d \in Diagnoses(b, g, chain) :
        LET leaves == d.targets \cap Slots(b)
            correct == (first \/ Progresses(d.found)) /\ Correctable(b, leaves, chain)
        IN  /\ body' = b
            /\ \/ /\ d.targets = {}
                  /\ phase' = IF ReportRefusals(g) = {} THEN "assembled" ELSE "failed"
                  /\ report' = g /\ correction' = NoCorrection /\ UNCHANGED met
               \/ /\ d.targets # {} /\ correct
                  /\ \E k \in Catalogues(b, leaves, chain) :
                        correction' = [targets |-> d.targets, issues |-> d.issues, catalogue |-> k, made |-> Len(chain)]
                  /\ phase' = "correcting" /\ met' = met \cup {d.found} /\ report' = NoReport
               \/ /\ d.targets # {} /\ ~correct
                  /\ phase' = "failed" /\ correction' = NoCorrection /\ report' = NoReport /\ UNCHANGED met

ToolUse == {s \in SUBSET Calls : Cardinality(s) <= MaxCalls}

(* A Reviewer whose turn ended early is continued and keeps its results. *)
Continue(calls) ==
    /\ Len(attempts) + 1 < MaxAttempts
    /\ attempts' = Append(attempts, calls)
    /\ UNCHANGED <<phase, body, correction, met, report>>

Submit(raw, calls) ==
    /\ attempts' = Append(attempts, calls)
    /\ Examine(raw, Append(attempts, calls), TRUE)

(* _apply_resolved_correction_values: the chosen leaves are written, nothing else. *)
Rewritten(b, choice) ==
    [b EXCEPT !.assess = [c \in DOMAIN b.assess |->
        [b.assess[c] EXCEPT !.claims =
            [s \in DOMAIN @ |-> IF <<c, s>> \in DOMAIN choice THEN choice[<<c, s>>] ELSE @[s]]]]]

(* A value that is no handle of the slot's catalogue. *)
Unlisted == "unlisted"

(* What a Reviewer can submit for the leaves of the plan: it may leave any out. *)
Picks ==
    LET handles == UNION {correction.catalogue[t] : t \in DOMAIN correction.catalogue}
    IN  UNION {[slots -> handles \cup {Unlisted}] : slots \in SUBSET DOMAIN correction.catalogue}

Listed(choice) == {t \in DOMAIN choice : choice[t] \in correction.catalogue[t]}

(* apply_semantic_correction_with_evidence.  The corrected response is examined
   when every value submitted is a handle; a leaf left out keeps the text it was
   refused for.  Otherwise the handles given are bound, and a plan for the slots
   that were refused follows, with the catalogue they had. *)
CorrectLeaves(choice, calls) ==
    LET listed == Listed(choice)
        refused == DOMAIN choice \ listed
        corrected == Rewritten(body, [t \in listed |-> choice[t]])
    IN  /\ Len(attempts) < MaxAttempts /\ listed # {}
        /\ attempts' = Append(attempts, calls)
        /\ \/ /\ refused = {}
              /\ Examine(corrected, Append(attempts, calls), FALSE)
           \/ /\ refused # {}
              /\ body' = corrected
              /\ correction' = [targets |-> refused, issues |-> {<<t[1], t[2], "member">> : t \in refused},
                                catalogue |-> [t \in refused |-> correction.catalogue[t]], made |-> correction.made]
              /\ UNCHANGED <<phase, met, report>>

(* A free-form plan: the target fields, or some of them, take new values. *)
CorrectFields(raw, fields, calls) ==
    /\ correction.catalogue = <<>> /\ Len(attempts) < MaxAttempts
    /\ fields # {}
    /\ attempts' = Append(attempts, calls)
    /\ LET repeats == (body.repeats \ fields) \cup (raw.repeats \cap fields)
           new == [f \in DOMAIN body |-> IF f \in fields THEN raw[f] ELSE body[f]]
       IN  Examine([new EXCEPT !.repeats = repeats], Append(attempts, calls), FALSE)

(* A submission without a usable value (no replacement, no handle of a
   catalogue, a field of another type), or for a slot that is not in the plan. *)
RefuseSubmission(calls) ==
    /\ Len(attempts) < MaxAttempts
    /\ attempts' = Append(attempts, calls)
    /\ phase' = "failed" /\ correction' = NoCorrection /\ report' = NoReport
    /\ UNCHANGED <<body, met>>

ReviewInit ==
    /\ attempts = <<>> /\ phase = "working" /\ body = NoBody /\ correction = NoCorrection
    /\ met = {} /\ report = NoReport

ReviewNext ==
    \/ /\ phase = "working"
       /\ \E calls \in ToolUse : Continue(calls) \/ \E raw \in Answers : Submit(raw, calls)
    \/ /\ phase = "correcting"
       /\ \E calls \in ToolUse :
            \/ \E choice \in Picks : CorrectLeaves(choice, calls)
            \/ \E raw \in Rewrites, fields \in SUBSET {t[2] : t \in correction.targets} : CorrectFields(raw, fields, calls)
            \/ RefuseSubmission(calls)

ReviewSpec == ReviewInit /\ [][ReviewNext]_reviewVars

-----------------------------------------------------------------------------
(* Properties *)

(* A criterion that a persisted report calls satisfied is proved by what was
   run: its claim and the claim of every approved boundary were printed by a
   result that ended well, a probe on its framed standard output, and no
   result or command cited for it failed. *)
PositiveIsProved ==
    phase = "assembled" => \A c \in Scope : report.assess[c].status = "satisfied" =>
        \A s \in {"main"} \cup Boundaries[c] :
            LET fragment == body.assess[c].claims[s]
                cited == report.assess[c].cited[s]
            IN  /\ \/ \E r \in cited.tools :
                            IF r[2].kind = "probe" THEN r[2].framed /\ fragment \in r[2].stdout \cup r[2].joined
                            ELSE fragment \in Raw(r[2])
                   \/ cited.commands # {}
                /\ \A r \in cited.tools : r[2].outcome = "succeeded" /\ r[2].exit = "zero"
                /\ \A k \in cited.commands : ~k.failed

(* The evidence bound to a report: every claim of every criterion cites a result
   or a command in which its text occurs under the status the report gives the
   criterion, also when the controller changed that status after the claims had
   been accepted under the other one. *)
EvidenceFits ==
    phase = "assembled" => \A c \in DOMAIN report.assess : \A s \in DOMAIN report.assess[c].cited :
        LET cited == report.assess[c].cited[s]
        IN  \/ \E r \in cited.tools : Occurs(body.assess[c].claims[s], Surface(r[2], report.assess[c].status))
            \/ \E k \in cited.commands : Occurs(body.assess[c].claims[s], k.output)

(* The rules of the two validators: of a response the context checks let through,
   the artifact model refuses only what it alone checks (repeated finding ids, a
   failure without a critical finding, a terminal reason on another verdict, the
   status of the specialist entries). *)
ValidatorsFit ==
    phase = "failed" /\ report # NoReport =>
        ReportRefusals(report) \subseteq {"finding ids", "critical", "terminal", "special"}

(* What a later pass over a response finds is what an earlier one let through: a
   report whose assessments were downgraded still cites evidence for every claim,
   and the artifact model refuses no response for a rule the context checks share
   with it (_ground_review_tool_evidence, ReviewReport.validate_verdict). *)
AssemblyAgrees == EvidenceFits /\ ValidatorsFit

(* A result recorded after the first n attempts makes the fragment unsafe. *)
Contaminated(fragment, n, chain) ==
    \E i \in DOMAIN chain : i > n /\ \E call \in chain[i] : Ineligible(call) /\ fragment \in PositiveSurface(call)

(* A text the catalogue made by joining lines, of a result it was made from. *)
MadeByJoining(fragment, n, chain) ==
    \/ \E i \in DOMAIN chain : i <= n /\ \E call \in chain[i] : fragment \in call.split
    \/ \E k \in Commands : fragment \in k.split

(* A correction replaces the text of a claim by a handle of its catalogue, or
   leaves it: no text of the Reviewer's own gets in.  And a handle is refused
   for one of two reasons only, however many submissions and refused picks ago
   the catalogue was made: a failed result recorded since then prints the text,
   or the claim is a blocked one, whose handles are not tried against final
   grounding, and its text was joined of lines. *)
CatalogueGrounds ==
    [][phase = "correcting" => \A t \in DOMAIN correction.catalogue :
        /\ Claim(body', t) \in {Claim(body, t)} \cup correction.catalogue[t]
        /\ Claim(body', t) \in correction.catalogue[t] =>
              \/ ClaimError(Claim(body', t), Status(body', t), attempts') = "none"
              \/ Status(body', t) = "satisfied" /\ Contaminated(Claim(body', t), correction.made, attempts')
              \/ Status(body', t) = "blocked" /\ MadeByJoining(Claim(body', t), correction.made, attempts')]_reviewVars

=============================================================================
