------------------------- MODULE MCReviewGrounding -------------------------
(***************************************************************************)
(* One specialist Reviewer, two criteria, the first with two boundaries.   *)
(***************************************************************************)
EXTENDS ReviewGrounding

MCBoundaries == [c \in {"c1", "c2", "c3"} |-> IF c = "c1" THEN {"b1", "b2"} ELSE {}]

Call(kind, outcome, exit, framed, stdout, rest, joined, split) ==
    [kind |-> kind, outcome |-> outcome, exit |-> exit, framed |-> framed,
     stdout |-> stdout, rest |-> rest, joined |-> joined, split |-> split]

(* "j" joins the last line of a probe with its result marker, "x" two lines
   that a carriage return ends: neither occurs in the output. *)
MCCalls ==
    {Call("probe", "succeeded", "zero", TRUE, {"f"}, {"g"}, {"j"}, {}),
     Call("probe", "succeeded", "zero", FALSE, {"f"}, {}, {}, {}),
     Call("probe", "failed", "nonzero", TRUE, {"f"}, {}, {"j"}, {}),
     Call("tool", "deferred", "zero", FALSE, {"f"}, {}, {}, {}),
     Call("tool", "succeeded", "zero", FALSE, {"f", "g"}, {}, {}, {"x"}),
     Call("submit", "succeeded", "zero", FALSE, {"g"}, {}, {}, {})}

MCCommands == {[output |-> {"k"}, failed |-> FALSE, split |-> {}], [output |-> {"g"}, failed |-> TRUE, split |-> {}]}

Assessment(status, main, boundary) == [status |-> status, claims |-> ("main" :> main) @@ boundary]
Apart == "b1" :> "f" @@ "b2" :> "k"
Same == "b1" :> "f" @@ "b2" :> "f"
First == {Assessment("satisfied", "f", Apart), Assessment("blocked", "f", Apart),
          Assessment("satisfied", "h", Apart), Assessment("satisfied", "j", Apart)}
Second == {Assessment(s, "g", <<>>) : s \in {"satisfied", "blocked"}}
Assessments == {("c1" :> a) @@ ("c2" :> b) : a \in First, b \in Second}
               \cup {("c1" :> Assessment("satisfied", "f", <<>>)) @@ ("c2" :> Assessment("blocked", "k", <<>>)),
                     ("c1" :> Assessment("satisfied", "j", "b1" :> "f" @@ "b2" :> "g")) @@ ("c2" :> Assessment("blocked", "k", <<>>)),
                     ("c1" :> Assessment("blocked", "f", Same)) @@ ("c2" :> Assessment("blocked", "g", <<>>)),
                     ("c1" :> Assessment("satisfied", "h", Same)) @@ ("c2" :> Assessment("satisfied", "k", "b1" :> "h")),
                     ("c1" :> Assessment("satisfied", "j", Apart)) @@ ("c2" :> Assessment("blocked", "h", <<>>)),
                     "c1" :> Assessment("blocked", "f", "b1" :> "f"), <<>>}

Finding(id, blocking, critical, scope) ==
    [id |-> id, blocking |-> blocking, critical |-> critical, scope |-> scope]
Findings(verdict) ==
    IF verdict = "accept" THEN {{}}
    ELSE {{Finding("x1", TRUE, FALSE, {"c1"})}, {Finding("x1", TRUE, TRUE, {"c2"})}, {Finding("x1", TRUE, FALSE, {})}}

Body(verdict, terminal, repeats, special, assess, findings) ==
    [verdict |-> verdict, terminal |-> terminal, repeats |-> repeats, special |-> special,
     assess |-> assess, findings |-> findings]

Plain(verdict, assess, findings) ==
    Body(verdict, verdict = "fail", {}, [scope |-> {"c1", "c2"}, blocked |-> verdict # "accept"], assess, findings)

Regular == UNION {{Plain(v, a, f) : a \in Assessments, f \in Findings(v)} : v \in {"accept", "revise"}}

Model(status) == ("c1" :> Assessment(status, "f", Apart))
                 @@ ("c2" :> Assessment(status, "k", <<>>))

(* A well-formed response of each verdict, and one defect of each kind. *)
Sound ==
    {Plain("accept", Model("satisfied"), {}),
     Plain("revise", Model("blocked"), {Finding("x1", TRUE, FALSE, {"c1", "c2"})}),
     Plain("fail", Model("blocked"), {Finding("x1", TRUE, TRUE, {"c1", "c2"})})}

Odd == UNION {{b, [b EXCEPT !.terminal = ~@], [b EXCEPT !.special.blocked = ~@], [b EXCEPT !.findings = {}],
               [b EXCEPT !.repeats = {"findings"}]} : b \in Sound}
       \cup UNION {{[b EXCEPT !.repeats = {"assess"}], [b EXCEPT !.special.scope = {"c1"}],
                    [b EXCEPT !.findings = {Finding("x1", FALSE, FALSE, {"c3"})}],
                    [b EXCEPT !.findings = {Finding("x1", TRUE, FALSE, {"c1"})}]} : b \in {r \in Sound : r.verdict = "revise"}}

MCAnswers == Regular \cup Odd
MCRewrites == {b \in Sound : b.verdict # "fail"}
=============================================================================
