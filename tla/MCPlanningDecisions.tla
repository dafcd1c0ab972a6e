------------------------- MODULE MCPlanningDecisions -------------------------
(* A request that names its users, its workflow and a level of maturity, one   *)
(* change request, two questions, and proposals of two families: what a free   *)
(* decision may say and be cited by, and how the questions may be resolved.    *)
EXTENDS PlanningDecisions

MCRequest == {"team", "flow", "prototype"}
MCChanges == {{"solo"}}

MCQuestions ==
    {[id |-> "q1", category |-> "product_requirement", dims |-> ds] :
        ds \in {{}, {"target_users", "delivery_maturity"}}}
    \cup {[id |-> "q2", category |-> "risk_tradeoff", dims |-> {}]}

MCReplies(q) ==
    LET offered(d) == IF d = "target_users" THEN {{"team"}, {"solo"}} ELSE {{"local"}}
        chosen == {v \in [q.dims -> {{"team"}, {"solo"}, {"local"}}] :
                      \A d \in q.dims : v[d] \in offered(d)}
    IN  {[text |-> {"option"}, values |-> v] : v \in chosen}
        \cup {[text |-> t, values |-> <<>>] : t \in {{"solo"}, {"solo", "local"}}}

Id(n) == <<n, "upper">>
Low(n) == <<n, "lower">>
Decision(id, category, kind, source, summary, question) ==
    [id |-> id, category |-> category, kind |-> kind, source |-> source, summary |-> summary,
     question |-> question]

Standing ==
    {Decision(Id(c), c, "none", NoText, {"plan"}, NoText) :
        c \in {"team", "model_route", "acceptance_scope", "delivery"}}

Item(disposition, source, value, reqs, links) ==
    [disposition |-> disposition, source |-> source, value |-> value, reqs |-> reqs,
     crits |-> {}, links |-> links]
Immaterial == Item("not_material", Planner, NoText, {}, {})
Says(t, links) == Item("explicit_input", t, t, {"R1"}, links)
Recommends(links) == Item("planner_recommendation", Planner, {"plan"}, {}, links)

Body(users, maturity, delivery, free, assumes) ==
    [decisions |-> Standing \cup free,
     dims |-> [d \in Dimensions |->
                  CASE d = "target_users" -> users
                    [] d = "primary_workflow" -> Says({"flow"}, {})
                    [] d = "delivery_maturity" -> maturity
                    [] d = "delivery_expectations" -> delivery
                    [] OTHER -> Immaterial],
     assumes |-> assumes]

(* Relations: a decision of the user, maybe a second one, and what cites them. *)
FreeForms == {<<"none", NoText, {"team"}>>, <<"none", NoText, {"more"}>>, <<"explicit_input", {"team"}, {"team"}>>,
              <<"explicit_input", {"more"}, {"more"}>>, <<"explicit_input", {"solo"}, {"solo", "more"}>>}
Free(id, f) == Decision(id, "product_requirement", f[1], f[2], f[3], NoText)
Seconds == {{}} \cup {{Decision(id, "local_implementation", "none", NoText, {"code"}, NoText)} :
                        id \in {Id("D2"), Low("D2"), Low("D1")}}
Relational ==
    {Body(Item("explicit_input", {"team"}, {"team"}, reqs, links), Says({"prototype"}, {}),
          Recommends({Id("delivery")} \cup more), {Free(id, f)} \cup second, assumes) :
        reqs \in {{}, {"R1"}}, links \in {{}, {Id("D1")}, {Low("D1")}}, more \in {{}, {Low("D1")}},
        id \in {Id("D1"), Low("D1")}, f \in FreeForms, second \in Seconds,
        assumes \in {{}, {Id("D2")}, {Id("D1")}}}

(* Questions: the decisions that resolve them and the dimensions that cite them. *)
Asked(q, id, category) == Decision(id, category, "resolved_question", {q}, {"said"}, NoText)
Legacy(q, id, category) == Decision(id, category, "none", NoText, {"said"}, {q})
First ==
    {{}, {Asked("q1", Id("A"), "product_requirement")}, {Legacy("q1", Low("A"), "product_requirement")},
     {Asked("q1", Id("B"), "product_requirement")},
     {Asked("q1", Id("A"), "product_requirement"), Asked("q1", Id("B"), "product_requirement")}}
Second == {{}, {Asked("q2", Id("C"), "risk_tradeoff")}, {Legacy("q2", Id("C"), "delivery")}}
Resolves(v, id) == Item("resolved_question", {"q1"}, v, {"R1"}, {id})
Users == {Says({"team"}, {}), Says({"solo"}, {}), Immaterial, Recommends({Id("A")}),
          Resolves({"team"}, Id("A")), Resolves({"solo"}, Id("A")), Resolves({"solo"}, Id("B"))}
Maturities == {Says({"prototype"}, {}), Immaterial, Recommends({}), Resolves({"prototype"}, Id("A")),
               Resolves({"local"}, Id("A"))}
Questioned ==
    {Body(users, maturity, Recommends({Id("delivery")}), one \cup two, {}) :
        users \in Users, maturity \in Maturities, one \in First, two \in Second}

MCDrafts(contracts) == Questioned \cup (IF contracts = <<>> THEN Relational ELSE {})
=============================================================================
