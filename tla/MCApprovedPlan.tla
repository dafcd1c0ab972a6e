--------------------------- MODULE MCApprovedPlan ---------------------------
(***************************************************************************)
(* Three families of proposals under a policy with one profile criterion:  *)
(* every graph of three Agents with three tasks, two quality Agents of     *)
(* every kind with every choice of verifiers, and one sound team under     *)
(* policies at their limits.                                               *)
(***************************************************************************)
EXTENDS ApprovedPlan

C1 == <<"c1", 0>>
C2 == <<"c2", 0>>
P == <<"p", 0>>
Profile == <<P>>

LaxPolicy == [maxAgents |-> Unlimited, maxConcurrency |-> 3, maxIterations |-> Unlimited,
              maxCalls |-> Unlimited, requireReview |-> FALSE, maxReviewers |-> Unlimited,
              complexUnits |-> 7, substantialUnits |-> 3,
              timeouts |-> [c \in {"implementation", "testing", "review"} |-> [default |-> 5, ceiling |-> 10]],
              profiles |-> <<"m1", "m2">>,
              supports |-> ("m1" :> {"implementation", "testing", "review"} @@ "m2" :> {"implementation", "review"}),
              default |-> "m1", strict |-> FALSE, byStage |-> <<>>, byCapability |-> <<>>, switches |-> FALSE]

(* A writer, a reviewer after it, and one criterion with the writer's task. *)
SoundBody ==
    [agents |-> <<"a1", "q1">>, cap |-> ("a1" :> "implementation" @@ "q1" :> "review"),
     authority |-> ("a1" :> "none" @@ "q1" :> "general"),
     deps |-> ("a1" :> {} @@ "q1" :> {"a1"}), scope |-> ("a1" :> <<>> @@ "q1" :> <<>>),
     tasks |-> <<"t1">>, owner |-> ("t1" :> "a1"), needs |-> ("t1" :> <<>>),
     binds |-> ("t1" :> <<C1>>), forecast |-> ("t1" :> {<<"app", "main">>}),
     criteria |-> <<C1>>, verifiers |-> (C1 :> <<"q1">>), reqs |-> (C1 :> {"r1"}),
     bounded |-> {}, experience |-> {}, promised |-> {}, authors |-> {}, required |-> {"r1"},
     concurrency |-> 1, iterations |-> 1, revises |-> FALSE,
     workload |-> ("a1" :> "routine" @@ "q1" :> "routine"), overrides |-> <<>>]

GraphBody(d1, d2, dq, s, o3, n) ==
    LET agents == {"a1", "a2", "q1"}
    IN  [SoundBody EXCEPT
            !.agents = <<"a1", "a2", "q1">>,
            !.cap = [a \in agents |-> IF a = "q1" THEN "review" ELSE "implementation"],
            !.authority = [a \in agents |-> IF a = "q1" THEN "general" ELSE "none"],
            !.deps = ("a1" :> d1 @@ "a2" :> d2 @@ "q1" :> dq),
            !.scope = ("a1" :> s[1] @@ "a2" :> s[2] @@ "q1" :> <<>>),
            !.tasks = <<"t1", "t2", "t3">>,
            !.owner = ("t1" :> "a1" @@ "t2" :> "a2" @@ "t3" :> o3),
            !.needs = n,
            !.binds = [t \in {"t1", "t2", "t3"} |-> <<C1>>],
            !.forecast = [t \in {"t1", "t2", "t3"} |-> {<<"app", "ui", "view">>}],
            !.workload = [a \in agents |-> "routine"]]

Scopes == {<<<<>>, <<>>>>, <<<<"app">>, <<"lib">>>>, <<<<"app">>, <<"app", "ui">>>>}
Needs(t) == LET o == SetToSeq({"t1", "t2", "t3"} \ {t}) IN {<<>>, <<o[1]>>, <<o[2]>>, o}

GraphInit ==
    \E d1 \in SUBSET {"a2", "q1"}, d2 \in SUBSET {"a1", "q1"}, dq \in SUBSET {"a1", "a2"},
       s \in Scopes, o3 \in {"a1", "a2", "q1"}, n1 \in Needs("t1"), n2 \in Needs("t2"), n3 \in Needs("t3") :
        Start(LaxPolicy, GraphBody(d1, d2, dq, s, o3, ("t1" :> n1 @@ "t2" :> n2 @@ "t3" :> n3)))

Kinds == {"testing", "general", "security", "user_experience"}

ReviewBody(k, c, v, w, bounded, experience, b) ==
    LET agents == {"a1", "q1", "q2"}
    IN  [SoundBody EXCEPT
            !.agents = <<"a1", "q1", "q2">>,
            !.cap = [a \in agents |-> CASE a = "a1" -> "implementation"
                                        [] a # "a1" /\ k[a] = "testing" -> "testing" [] OTHER -> "review"],
            !.authority = [a \in agents |-> IF a = "a1" \/ k[a] = "testing" THEN "none" ELSE k[a]],
            !.deps = ("a1" :> {} @@ "q1" :> {"a1"} @@ "q2" :> {"a1"}),
            !.scope = [a \in agents |-> <<>>],
            !.tasks = <<"t1", "t2">>, !.owner = ("t1" :> "a1" @@ "t2" :> "q1"),
            !.needs = ("t1" :> <<>> @@ "t2" :> <<>>),
            !.binds = ("t1" :> <<C1, c>> @@ "t2" :> b),
            !.forecast = ("t1" :> {<<"app">>} @@ "t2" :> {}),
            !.criteria = <<C1, c>>, !.verifiers = (C1 :> v @@ c :> w),
            !.reqs = (C1 :> {"r1"} @@ c :> {"r2"}), !.required = {"r1", "r2"},
            !.bounded = bounded, !.experience = experience,
            !.workload = [a \in agents |-> "routine"]]

Named == {<<>>, <<"q1">>, <<"q2">>, <<"q1", "q2">>}

ReviewInit ==
    \E k \in [{"q1", "q2"} -> Kinds], c \in {C2, P}, v \in Named, w \in Named :
    \E bounded \in SUBSET {C1, c}, experience \in SUBSET {C1, c}, b \in {<<C1>>, <<P, c>>, <<C1, c>>} :
        Start(LaxPolicy, ReviewBody(k, c, v, w, bounded, experience, b))

(* The sound team at the limits of its policy. *)
LimitInit ==
    \E calls \in {Unlimited, 2, 4, 6}, rounds \in {Unlimited, 2},
       switches \in BOOLEAN, strict \in BOOLEAN, own \in {"none", "stage", "capability"}, units \in {4, 7},
       t \in {[default |-> 0, ceiling |-> 0], [default |-> 5, ceiling |-> 10], [default |-> 7, ceiling |-> 7]},
       security \in BOOLEAN, promised \in SUBSET {C1}, authors \in SUBSET {"t1"},
       w \in {"routine", "substantial", "complex"} :
        Start([LaxPolicy EXCEPT
                    !.maxCalls = calls, !.maxIterations = rounds, !.maxConcurrency = 2,
                    !.requireReview = TRUE, !.maxReviewers = 1, !.switches = switches, !.strict = strict,
                    !.byCapability = IF own = "capability" THEN "implementation" :> "m2" ELSE <<>>,
                    !.byStage = IF own = "stage" THEN "a1" :> "m2" ELSE <<>>,
                    !.timeouts["review"] = t, !.complexUnits = units],
              [SoundBody EXCEPT !.bounded = IF security THEN {C1} ELSE {},
                    !.authority["q1"] = IF security THEN "security" ELSE "general",
                    !.promised = promised, !.authors = authors, !.workload["q1"] = w])

Init == GraphInit \/ ReviewInit \/ LimitInit
Spec == Init /\ [][Next]_vars
=============================================================================
