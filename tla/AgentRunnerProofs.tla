--------------------------- MODULE AgentRunnerProofs ---------------------------
(***************************************************************************)
(* What the runner guarantees about the commits its artifacts name, for    *)
(* every number of writers, testers and reviewers, and whatever their      *)
(* processes leave in the workspace.                                       *)
(***************************************************************************)
EXTENDS AgentRunner, ReviewGrounding, TLAPS, SequenceTheorems

(***************************************************************************)
(* The inductive invariant.  An artifact is checked against local          *)
(* variables of its thread (the input commit, the commit frozen for a      *)
(* correction), while the property compares artifacts of different         *)
(* threads: the parts below say in which order the threads can be at work  *)
(* and what their local commits then are.                                  *)
(***************************************************************************)
Places == {"idle", "evidence", "gate", "turn"} \cup Ended

Commit == Commits \cup {None}

Workspace == [head : Commits, dirty : {0, 1}, intact : BOOLEAN, scoped : BOOLEAN]

(* The variables of _invoke_agent; what the plan and the sets of what was   *)
(* seen hold is left open.                                                  *)
IsLocal(r) ==
    /\ r \in [input : Commit, route : {r.route}, streams : {r.streams}, mode : {r.mode},
              plan : {r.plan}, corrections : {r.corrections}, frozen : Commit,
              seenFailures : {r.seenFailures}, seenStates : {r.seenStates},
              seenTools : {r.seenTools}]

Shaped ==
    /\ pc \in [Agents -> Places]
    /\ ws \in Workspace
    /\ latest \in Commits
    /\ quality \in [state : {"pending", "running", "ready", "failed"}, commit : Commit,
                    error : GateErrors \cup {"none", "safety"}]
    /\ DOMAIN local = Agents /\ \A a \in Agents : IsLocal(local[a])
    /\ outputs \in [Agents -> [input : Commit, output : Commit]]

(* An accepted artifact and the end of its thread go together. *)
OutputsOfDone == \A a \in Agents : outputs[a] # NoOutput <=> pc[a] = "done"

(* The writers take turns in dependency order. *)
WritersInOrder ==
    /\ \A w \in WriterSet : pc[w] \notin {"evidence", "gate"}
    /\ \A i, j \in DOMAIN Writers : j < i /\ pc[Writers[i]] # "idle" => pc[Writers[j]] = "done"

WritersDone == \A w \in WriterSet : pc[w] = "done"

(* A writer at work started from the controller's commit, which is the one  *)
(* that the last accepted writer left.                                      *)
CommitsChained ==
    /\ \A w \in WriterSet : pc[w] = "turn" => local[w].input = latest
    /\ \A i \in DOMAIN Writers : pc[Writers[i]] = "done" =>
          /\ outputs[Writers[i]].input = IF i = 1 THEN 0 ELSE outputs[Writers[i - 1]].output
          /\ (\A j \in DOMAIN Writers : j > i => pc[Writers[j]] # "done") =>
                latest = outputs[Writers[i]].output
    /\ (\A i \in DOMAIN Writers : pc[Writers[i]] # "done") => latest = 0

(* The gate and the read-only Agents come after the writers, and one thread *)
(* runs the gate.                                                           *)
ReadersLater ==
    /\ \A q \in Quality : pc[q] # "idle" => WritersDone
    /\ quality.state # "pending" => quality.commit = latest /\ WritersDone
    /\ \A q \in Quality :
          /\ pc[q] = "gate" => quality.state = "running"
          /\ pc[q] = "turn" => quality.state = "ready" /\ local[q].input = latest
          /\ pc[q] = "done" => /\ quality.state = "ready"
                               /\ outputs[q] = [input |-> latest, output |-> latest]
    /\ \A q, r \in Quality : pc[q] = "gate" /\ pc[r] = "gate" => q = r

(* A correction names the commit at which the response was first verified.  *)
FrozenInCorrection ==
    \A a \in Agents : pc[a] = "turn" /\ local[a].plan # NoPlan =>
        /\ local[a].frozen \in Commits
        /\ a \in Quality => local[a].frozen = local[a].input

IInv ==
    /\ Shaped /\ OutputsOfDone /\ WritersInOrder /\ CommitsChained
    /\ ReadersLater /\ FrozenInCorrection

-----------------------------------------------------------------------------
(* The Agents, and the commit that stands for None. *)
LEMMA AgentFacts ==
    /\ None \notin Commits /\ 0 \in Commits /\ Commits \subseteq Int
    /\ WriterSet \subseteq Agents /\ Quality \subseteq Agents /\ WriterSet \cap Quality = {}
    /\ \A a \in Agents : a \in WriterSet \/ a \in Quality
    /\ DOMAIN Writers = 1..Len(Writers) /\ Len(Writers) \in Nat
    /\ \A i \in DOMAIN Writers : Writers[i] \in WriterSet
    /\ \A w \in WriterSet : \E i \in DOMAIN Writers : Writers[i] = w
    /\ \A i, j \in DOMAIN Writers : Writers[i] = Writers[j] => i = j
  <1>1. None \notin Commits /\ 0 \in Commits /\ Commits \subseteq Int
    BY RunnerAssumption DEF None, Commits
  <1>2. Writers \in Seq(WriterSet)
    BY RunnerAssumption
  <1>3. \A w \in WriterSet : \E i \in DOMAIN Writers : Writers[i] = w
    BY <1>2 DEF WriterSet, ToSet
  <1>4. QED BY <1>1, <1>2, <1>3, RunnerAssumption DEF Agents, IsInjective

(* A fresh invocation. *)
LEMMA FreshIs ==
    ASSUME NEW c \in Commit
    PROVE  /\ IsLocal(FreshLocal(c)) /\ FreshLocal(c).input = c
           /\ FreshLocal(c).plan = NoPlan
  BY DEF IsLocal, FreshLocal, Commit

(* The invariant holds when the workspace has been prepared. *)
LEMMA InitInv == Init => IInv
  <1> SUFFICES ASSUME Init PROVE IInv
    OBVIOUS
  <1>1. None \in Commit /\ NoOutput \in [input : Commit, output : Commit]
    BY DEF Commit, NoOutput
  <1>2. Shaped
    <2>1. pc \in [Agents -> Places] /\ ws \in Workspace /\ latest \in Commits
      BY AgentFacts DEF Init, Places, Workspace, Prepared
    <2>2. quality \in [state : {"pending", "running", "ready", "failed"}, commit : Commit,
                       error : GateErrors \cup {"none", "safety"}]
      BY <1>1 DEF Init
    <2>3. DOMAIN local = Agents /\ \A a \in Agents : IsLocal(local[a])
      BY <1>1, FreshIs DEF Init
    <2>4. outputs \in [Agents -> [input : Commit, output : Commit]]
      BY <1>1 DEF Init
    <2>5. QED BY <2>1, <2>2, <2>3, <2>4 DEF Shaped
  <1>3. \A a \in Agents : pc[a] = "idle" /\ outputs[a] = NoOutput
    BY DEF Init
  <1>4. quality.state = "pending" /\ latest = 0
    BY DEF Init
  <1>5. QED BY <1>2, <1>3, <1>4, AgentFacts
            DEF IInv, OutputsOfDone, WritersInOrder, CommitsChained, ReadersLater,
                FrozenInCorrection

-----------------------------------------------------------------------------
(* A thread that is at work ends without an artifact. *)
LEMMA StopInv ==
    ASSUME IInv, NEW a \in Agents, pc[a] \in {"turn", "evidence"},
           NEW p \in {"failed", "interrupted"}, pc' = [pc EXCEPT ![a] = p],
           local' = [local EXCEPT ![a] = FreshLocal(None)], ws' \in Workspace,
           UNCHANGED << latest, quality, outputs >>
    PROVE  IInv'
  <1>1. /\ pc'[a] = p /\ \A b \in Agents : b # a => pc'[b] = pc[b] /\ local'[b] = local[b]
        /\ pc' \in [Agents -> Places]
    BY DEF IInv, Shaped, Places, Ended
  <1>2. Shaped'
    <2>1. DOMAIN local' = Agents /\ \A b \in Agents : IsLocal(local'[b])
      BY FreshIs DEF IInv, Shaped, Commit
    <2>2. QED BY <1>1, <2>1 DEF IInv, Shaped
  <1>3. OutputsOfDone'
    BY <1>1 DEF IInv, OutputsOfDone
  <1>4. \A w \in WriterSet : pc[w] = "done" <=> pc'[w] = "done"
    BY <1>1, AgentFacts
  <1>5. WritersInOrder'
    BY <1>1, <1>4, AgentFacts DEF IInv, WritersInOrder
  <1>6. CommitsChained'
    BY <1>1, <1>4, AgentFacts DEF IInv, CommitsChained
  <1>7. WritersDone' = WritersDone
    BY <1>4 DEF WritersDone
  <1>8. ReadersLater'
    BY <1>1, <1>7, AgentFacts DEF IInv, ReadersLater
  <1>9. FrozenInCorrection'
    BY <1>1 DEF IInv, FrozenInCorrection
  <1>10. QED BY <1>2, <1>3, <1>5, <1>6, <1>8, <1>9 DEF IInv

(* A thread goes on to another turn from the same input. *)
LEMMA AgainInv ==
    ASSUME IInv, NEW a \in Agents, pc[a] = "turn", NEW u, IsLocal(u),
           pc' = [pc EXCEPT ![a] = "turn"], local' = [local EXCEPT ![a] = u],
           u.input = local[a].input,
           u.plan # NoPlan => u.frozen \in Commits /\ (a \in Quality => u.frozen = u.input),
           ws' \in Workspace, UNCHANGED << latest, quality, outputs >>
    PROVE  IInv'
  <1>1. /\ pc' = pc /\ \A b \in Agents : b # a => local'[b] = local[b]
        /\ local'[a] = u
    BY DEF IInv, Shaped
  <1>2. Shaped'
    <2>1. DOMAIN local' = Agents /\ \A b \in Agents : IsLocal(local'[b])
      BY DEF IInv, Shaped
    <2>2. QED BY <1>1, <2>1 DEF IInv, Shaped
  <1>3. OutputsOfDone' /\ WritersInOrder'
    BY <1>1 DEF IInv, OutputsOfDone, WritersInOrder
  <1>4. \A b \in Agents : local'[b].input = local[b].input
    BY <1>1
  <1>5. CommitsChained'
    BY <1>1, <1>4, AgentFacts DEF IInv, CommitsChained
  <1>6. ReadersLater'
    BY <1>1, <1>4, AgentFacts DEF IInv, ReadersLater, WritersDone
  <1>7. FrozenInCorrection'
    BY <1>1 DEF IInv, FrozenInCorrection
  <1>8. QED BY <1>2, <1>3, <1>5, <1>6, <1>7 DEF IInv

(* A writer is accepted: it alone was at work, so its artifact continues    *)
(* the chain of commits.                                                    *)
LEMMA AcceptWriterInv ==
    ASSUME IInv, NEW w \in WriterSet, pc[w] = "turn", NEW c \in Commits,
           latest' = c,
           outputs' = [outputs EXCEPT ![w] = [input |-> latest, output |-> c]],
           pc' = [pc EXCEPT ![w] = "done"],
           local' = [local EXCEPT ![w] = FreshLocal(None)],
           ws' \in Workspace, UNCHANGED quality
    PROVE  IInv'
  <1>1. PICK k \in DOMAIN Writers : Writers[k] = w
    BY AgentFacts
  <1>2. w \in Agents /\ k \in Nat /\ latest \in Commits
    BY AgentFacts DEF IInv, Shaped
  <1>3. /\ pc'[w] = "done" /\ \A b \in Agents : b # w => /\ pc'[b] = pc[b]
                                                         /\ local'[b] = local[b]
                                                         /\ outputs'[b] = outputs[b]
        /\ outputs'[w] = [input |-> latest, output |-> c]
        /\ pc' \in [Agents -> Places]
    BY <1>2 DEF IInv, Shaped, Places, Ended
  <1>4. Shaped'
    <2>1. DOMAIN local' = Agents /\ \A b \in Agents : IsLocal(local'[b])
      BY <1>2, FreshIs DEF IInv, Shaped, Commit
    <2>2. outputs' \in [Agents -> [input : Commit, output : Commit]]
      BY <1>2 DEF IInv, Shaped, Commit
    <2>3. QED BY <1>3, <2>1, <2>2 DEF IInv, Shaped
  <1>5. OutputsOfDone'
    <2>1. outputs'[w] # NoOutput
      BY <1>2, <1>3, AgentFacts DEF NoOutput
    <2>2. QED BY <1>3, <2>1 DEF IInv, OutputsOfDone
  <1>6. /\ \A j \in DOMAIN Writers : j < k => pc[Writers[j]] = "done" /\ Writers[j] # w
        /\ \A j \in DOMAIN Writers : j > k => pc[Writers[j]] = "idle" /\ Writers[j] # w
    BY <1>1, AgentFacts DEF IInv, WritersInOrder
  <1>7. WritersInOrder'
    <2>1. \A v \in WriterSet : pc'[v] \notin {"evidence", "gate"}
      BY <1>3, AgentFacts DEF IInv, WritersInOrder
    <2>2. ASSUME NEW i \in DOMAIN Writers, NEW j \in DOMAIN Writers, j < i,
                 pc'[Writers[i]] # "idle"
          PROVE  pc'[Writers[j]] = "done"
      BY <1>1, <1>2, <1>3, <1>6, <2>2, AgentFacts DEF IInv, WritersInOrder
    <2>3. QED BY <2>1, <2>2 DEF WritersInOrder
  <1>8. latest = IF k = 1 THEN 0 ELSE outputs[Writers[k - 1]].output
    <2>1. CASE k = 1
      <3>1. \A i \in DOMAIN Writers : pc[Writers[i]] # "done"
        BY <1>1, <1>6, <2>1, AgentFacts
      <3>2. QED BY <2>1, <3>1 DEF IInv, CommitsChained
    <2>2. CASE k # 1
      <3>1. k - 1 \in DOMAIN Writers /\ pc[Writers[k - 1]] = "done"
        BY <1>2, <1>6, <2>2, AgentFacts
      <3>2. \A j \in DOMAIN Writers : j > k - 1 => pc[Writers[j]] # "done"
        BY <1>1, <1>2, <1>6, AgentFacts
      <3>3. QED BY <2>2, <3>1, <3>2 DEF IInv, CommitsChained
    <2>3. QED BY <2>1, <2>2
  <1>9. CommitsChained'
    <2>1. \A v \in WriterSet : pc'[v] # "turn"
      <3> SUFFICES ASSUME NEW v \in WriterSet, v # w PROVE pc[v] # "turn"
        BY <1>3, AgentFacts
      <3>1. PICK j \in DOMAIN Writers : Writers[j] = v
        BY AgentFacts
      <3>2. j < k \/ j > k
        BY <1>1, <1>2, <3>1, AgentFacts
      <3>3. QED BY <1>6, <3>1, <3>2
    <2>2. ASSUME NEW i \in DOMAIN Writers, pc'[Writers[i]] = "done"
          PROVE  /\ outputs'[Writers[i]].input =
                       IF i = 1 THEN 0 ELSE outputs'[Writers[i - 1]].output
                 /\ (\A j \in DOMAIN Writers : j > i => pc'[Writers[j]] # "done") =>
                       latest' = outputs'[Writers[i]].output
      <3>1. i <= k /\ i \in Nat
        BY <1>2, <1>3, <1>6, <2>2, AgentFacts
      <3>2. CASE i = k
        <4>1. k # 1 => /\ k - 1 \in DOMAIN Writers
                       /\ outputs'[Writers[k - 1]] = outputs[Writers[k - 1]]
          BY <1>2, <1>3, <1>6, AgentFacts
        <4>2. QED BY <1>1, <1>3, <1>8, <3>2, <4>1
      <3>3. CASE i < k
        <4>1. outputs'[Writers[i]] = outputs[Writers[i]] /\ pc[Writers[i]] = "done"
          BY <1>3, <1>6, <3>3, AgentFacts
        <4>2. i # 1 => /\ i - 1 \in DOMAIN Writers
                       /\ outputs'[Writers[i - 1]] = outputs[Writers[i - 1]]
          BY <1>2, <1>3, <1>6, <3>1, <3>3, AgentFacts
        <4>3. pc'[Writers[k]] = "done"
          BY <1>1, <1>3
        <4>4. QED BY <1>1, <3>3, <4>1, <4>2, <4>3 DEF IInv, CommitsChained
      <3>4. QED BY <1>2, <3>1, <3>2, <3>3
    <2>3. \E i \in DOMAIN Writers : pc'[Writers[i]] = "done"
      BY <1>1, <1>3
    <2>4. QED BY <2>1, <2>2, <2>3 DEF CommitsChained
  <1>10. ReadersLater'
    <2>1. ~WritersDone
      BY DEF WritersDone
    <2>2. quality.state = "pending" /\ \A q \in Quality : pc[q] = "idle"
      BY <2>1 DEF IInv, ReadersLater
    <2>3. \A q \in Quality : pc'[q] = "idle"
      BY <1>3, <2>2, AgentFacts
    <2>4. QED BY <2>2, <2>3 DEF ReadersLater
  <1>11. FrozenInCorrection'
    BY <1>3 DEF IInv, FrozenInCorrection
  <1>12. QED BY <1>4, <1>5, <1>7, <1>9, <1>10, <1>11 DEF IInv

(* A quality report is accepted at the commit that the gate measured. *)
LEMMA AcceptReaderInv ==
    ASSUME IInv, NEW q \in Quality, pc[q] = "turn",
           outputs' = [outputs EXCEPT ![q] = [input |-> latest, output |-> latest]],
           pc' = [pc EXCEPT ![q] = "done"],
           local' = [local EXCEPT ![q] = FreshLocal(None)],
           ws' \in Workspace, UNCHANGED << latest, quality >>
    PROVE  IInv'
  <1>1. q \in Agents /\ latest \in Commits
    BY AgentFacts DEF IInv, Shaped
  <1>2. /\ pc'[q] = "done" /\ \A b \in Agents : b # q => /\ pc'[b] = pc[b]
                                                         /\ local'[b] = local[b]
                                                         /\ outputs'[b] = outputs[b]
        /\ outputs'[q] = [input |-> latest, output |-> latest]
        /\ pc' \in [Agents -> Places]
    BY <1>1 DEF IInv, Shaped, Places, Ended
  <1>3. Shaped'
    <2>1. DOMAIN local' = Agents /\ \A b \in Agents : IsLocal(local'[b])
      BY <1>1, FreshIs DEF IInv, Shaped, Commit
    <2>2. outputs' \in [Agents -> [input : Commit, output : Commit]]
      BY <1>1 DEF IInv, Shaped, Commit
    <2>3. QED BY <1>2, <2>1, <2>2 DEF IInv, Shaped
  <1>4. OutputsOfDone'
    <2>1. outputs'[q] # NoOutput
      BY <1>1, <1>2, AgentFacts DEF NoOutput
    <2>2. QED BY <1>2, <2>1 DEF IInv, OutputsOfDone
  <1>5. \A w \in WriterSet : pc'[w] = pc[w] /\ local'[w] = local[w] /\ outputs'[w] = outputs[w]
    BY <1>2, AgentFacts
  <1>6. WritersInOrder' /\ WritersDone' = WritersDone
    BY <1>5, AgentFacts DEF IInv, WritersInOrder, WritersDone
  <1>7. CommitsChained'
    <2>1. \A i \in DOMAIN Writers :
             /\ pc'[Writers[i]] = pc[Writers[i]] /\ outputs'[Writers[i]] = outputs[Writers[i]]
             /\ i # 1 => outputs'[Writers[i - 1]] = outputs[Writers[i - 1]]
      BY <1>5, AgentFacts
    <2>2. QED BY <1>5, <2>1 DEF IInv, CommitsChained
  <1>8. ReadersLater'
    BY <1>2, <1>6, AgentFacts DEF IInv, ReadersLater
  <1>9. FrozenInCorrection'
    BY <1>2 DEF IInv, FrozenInCorrection
  <1>10. QED BY <1>3, <1>4, <1>6, <1>7, <1>8, <1>9 DEF IInv

-----------------------------------------------------------------------------
(* The verdicts on an invocation that does not reply. *)
LEMMA FailedIs ==
    ASSUME NEW why
    PROVE  /\ Failed(why).reply = FALSE /\ Failed(why).failure = why
           /\ Failed(why).continue = "none" /\ Failed(why).plan = NoPlan
  BY DEF Failed, Nothing

(* What the loop makes of a verdict, whatever the process left behind. *)
LEMMA DecideInv ==
    ASSUME IInv, NEW a \in Agents, pc[a] = "turn", NEW after \in Workspace, NEW j,
           NEW u, IsLocal(u), u.input = local[a].input,
           u.plan # NoPlan \/ j.plan # NoPlan \/ j.reply =>
              u.frozen \in Commits /\ (a \in Quality => u.frozen = u.input),
           Return(a, after, j, u)
    PROVE  IInv'
  <1> DEFINE mine == [u EXCEPT !.mode = "base"]
  <1>1. /\ IsLocal(mine) /\ mine.input = u.input /\ mine.plan = u.plan
        /\ mine.frozen = u.frozen
    BY DEF IsLocal
  <1>2. ws' = after /\ UNCHANGED quality /\ Decide(a, j, u)
    BY DEF Return
  <1>3. CASE j.reply /\ Accept(a, mine)
    <2>1. CASE a \in WriterSet /\ latest # mine.input
      <3>1. Fail(a, "safety") /\ UNCHANGED << latest, outputs >>
        BY <1>3, <2>1 DEF Accept
      <3>2. QED BY <1>2, <3>1, StopInv DEF Fail
    <2>2. CASE a \in WriterSet /\ latest = mine.input
      <3>1. a \notin Quality
        BY <2>2, AgentFacts
      <3>2. QED BY <1>1, <1>2, <1>3, <2>2, AcceptWriterInv DEF Accept
    <2>3. CASE a \in Quality
      <3>1. a \notin WriterSet /\ local[a].input = latest
        BY <2>3, AgentFacts DEF IInv, ReadersLater
      <3>2. mine.input = latest /\ mine.frozen = latest
        BY <1>1, <1>3, <2>3, <3>1
      <3> HIDE DEF mine
      <3>3. QED BY <1>2, <1>3, <2>3, <3>1, <3>2, AcceptReaderInv DEF Accept
    <2>4. QED BY <2>1, <2>2, <2>3, AgentFacts
  <1>4. ASSUME NEW v, Again(a, v), IsLocal(v), v.input = mine.input, v.frozen = mine.frozen,
               v.plan \in {mine.plan, j.plan}
        PROVE  IInv'
    BY <1>1, <1>2, <1>4, AgainInv DEF Again
  <1>5. CASE Again(a, [mine EXCEPT !.mode = j.continue,
                                   !.streams = IF j.stream THEN @ + 1 ELSE @])
    <2> DEFINE v == [mine EXCEPT !.mode = j.continue,
                                 !.streams = IF j.stream THEN @ + 1 ELSE @]
    <2>1. IsLocal(v) /\ v.input = mine.input /\ v.frozen = mine.frozen /\ v.plan = mine.plan
      BY <1>1 DEF IsLocal
    <2>2. QED BY <1>4, <1>5, <2>1
  <1>6. CASE Again(a, [mine EXCEPT !.streams = @ + 1])
    <2> DEFINE v == [mine EXCEPT !.streams = @ + 1]
    <2>1. IsLocal(v) /\ v.input = mine.input /\ v.frozen = mine.frozen /\ v.plan = mine.plan
      BY <1>1 DEF IsLocal
    <2>2. QED BY <1>4, <1>6, <2>1
  <1>7. CASE Again(a, [mine EXCEPT !.route = @ + 1])
    <2> DEFINE v == [mine EXCEPT !.route = @ + 1]
    <2>1. IsLocal(v) /\ v.input = mine.input /\ v.frozen = mine.frozen /\ v.plan = mine.plan
      BY <1>1 DEF IsLocal
    <2>2. QED BY <1>4, <1>7, <2>1
  <1>8. ASSUME NEW n, Again(a, [mine EXCEPT !.plan = j.plan, !.corrections = n])
        PROVE  IInv'
    <2> DEFINE v == [mine EXCEPT !.plan = j.plan, !.corrections = n]
    <2>1. IsLocal(v) /\ v.input = mine.input /\ v.frozen = mine.frozen /\ v.plan = j.plan
      BY <1>1 DEF IsLocal
    <2>2. QED BY <1>4, <1>8, <2>1
  <1>9. CASE Fail(a, j.failure) /\ UNCHANGED << latest, outputs >>
    BY <1>2, <1>9, StopInv DEF Fail
  <1>10. QED BY <1>2, <1>3, <1>5, <1>6, <1>7, <1>8, <1>9 DEF Decide

(* What a process leaves behind is a workspace. *)
LEMMA AftermathType ==
    ASSUME IInv, NEW a
    PROVE  Aftermath(a) \subseteq Workspace /\ WrittenBy(ws) \subseteq Workspace
           /\ [ws EXCEPT !.dirty = 1] \in Workspace
  <1>1. ws \in Workspace /\ MaxHead \in Commits
    BY RunnerAssumption DEF IInv, Shaped, Commits
  <1>2. [ws EXCEPT !.dirty = 1] \in Workspace
    BY <1>1 DEF Workspace
  <1>3. [ws EXCEPT !.intact = FALSE] \in Workspace
    BY <1>1 DEF Workspace
  <1>4. [ws EXCEPT !.head = MaxHead, !.scoped = FALSE] \in Workspace
    BY <1>1 DEF Workspace
  <1>5. [head : Commits, dirty : {0, 1}, intact : {ws.intact}, scoped : {ws.scoped}]
           \subseteq Workspace
    BY <1>1 DEF Workspace
  <1>6. WrittenBy(ws) \subseteq Workspace
    BY <1>3, <1>4, <1>5 DEF WrittenBy
  <1>7. QED BY <1>1, <1>2, <1>6 DEF Aftermath

(* The scheduler calls the Agent when its dependencies are done. *)
LEMMA CallInv == ASSUME IInv, NEW a \in Agents, Call(a) PROVE IInv'
  <1>1. /\ pc[a] = "idle" /\ \A d \in Dependencies(a) : pc[d] = "done"
        /\ UNCHANGED << ws, latest, quality, outputs >> /\ latest \in Commit /\ None \in Commit
    BY DEF Call, IInv, Shaped, Commit
  <1>2. CASE a \in Quality
    <2>1. pc' = [pc EXCEPT ![a] = "evidence"] /\ local' = local
      BY <1>2, AgentFacts DEF Call
    <2>2. WritersDone
      BY <1>1, <1>2 DEF Dependencies, WritersDone
    <2>3. /\ pc'[a] = "evidence" /\ \A b \in Agents : b # a => pc'[b] = pc[b]
          /\ pc' \in [Agents -> Places]
      BY <2>1 DEF IInv, Shaped, Places
    <2>4. \A w \in WriterSet : pc'[w] = pc[w]
      BY <1>2, <2>3, AgentFacts
    <2>5. Shaped' /\ OutputsOfDone' /\ FrozenInCorrection'
      BY <1>1, <2>1, <2>3 DEF IInv, Shaped, OutputsOfDone, FrozenInCorrection
    <2>6. WritersInOrder' /\ CommitsChained' /\ WritersDone'
      BY <1>1, <2>1, <2>2, <2>4, AgentFacts DEF IInv, WritersInOrder, CommitsChained, WritersDone
    <2>7. ReadersLater'
      BY <1>1, <2>1, <2>3, <2>6, AgentFacts DEF IInv, ReadersLater
    <2>8. QED BY <2>5, <2>6, <2>7 DEF IInv
  <1>3. CASE a \in WriterSet
    <2>1. \E p \in {"turn", "failed"}, c \in {latest, None} :
             /\ pc' = [pc EXCEPT ![a] = p] /\ local' = [local EXCEPT ![a] = FreshLocal(c)]
             /\ p = "turn" => c = latest
      <3>1. a \notin Quality
        BY <1>3, AgentFacts
      <3>2. CASE Verified(ws, latest)
        BY <1>3, <3>1, <3>2 DEF Call
      <3>3. CASE ~Verified(ws, latest)
        BY <1>3, <3>1, <3>3 DEF Call, Fail
      <3>4. QED BY <3>2, <3>3
    <2>2. PICK p \in {"turn", "failed"}, c \in {latest, None} :
             /\ pc' = [pc EXCEPT ![a] = p] /\ local' = [local EXCEPT ![a] = FreshLocal(c)]
             /\ p = "turn" => c = latest
      BY <2>1
    <2>3. IsLocal(FreshLocal(c)) /\ FreshLocal(c).input = c /\ FreshLocal(c).plan = NoPlan
      BY <1>1, FreshIs
    <2>4. /\ pc'[a] = p /\ \A b \in Agents : b # a => pc'[b] = pc[b] /\ local'[b] = local[b]
          /\ local'[a] = FreshLocal(c) /\ pc' \in [Agents -> Places]
      BY <2>2 DEF IInv, Shaped, Places, Ended
    <2>5. Shaped'
      <3>1. DOMAIN local' = Agents /\ \A b \in Agents : IsLocal(local'[b])
        BY <2>2, <2>3, <2>4 DEF IInv, Shaped
      <3>2. QED BY <1>1, <2>4, <3>1 DEF IInv, Shaped
    <2>6. OutputsOfDone' /\ FrozenInCorrection'
      BY <1>1, <2>3, <2>4 DEF IInv, OutputsOfDone, FrozenInCorrection
    <2>7. PICK k \in DOMAIN Writers : Writers[k] = a
      BY <1>3, AgentFacts
    <2>8. \A j \in DOMAIN Writers : j < k => Writers[j] \in Dependencies(a)
      BY <1>3, <2>7, AgentFacts DEF Dependencies
    <2>9. \A w \in WriterSet : pc'[w] = "done" <=> pc[w] = "done"
      BY <1>1, <2>4, AgentFacts
    <2>10. WritersInOrder'
      <3>1. \A w \in WriterSet : pc'[w] \notin {"evidence", "gate"}
        BY <2>4, AgentFacts DEF IInv, WritersInOrder
      <3>2. ASSUME NEW i \in DOMAIN Writers, NEW j \in DOMAIN Writers, j < i,
                   pc'[Writers[i]] # "idle"
            PROVE  pc'[Writers[j]] = "done"
        <4>1. CASE i = k
          BY <1>1, <2>8, <2>9, <3>2, <4>1, AgentFacts
        <4>2. CASE i # k
          BY <2>4, <2>7, <2>9, <3>2, <4>2, AgentFacts DEF IInv, WritersInOrder
        <4>3. QED BY <4>1, <4>2
      <3>3. QED BY <3>1, <3>2 DEF WritersInOrder
    <2>11. CommitsChained'
      BY <1>1, <2>2, <2>3, <2>4, <2>9, AgentFacts DEF IInv, CommitsChained
    <2>12. ReadersLater'
      <3>1. ~WritersDone
        BY <1>1, <1>3 DEF WritersDone
      <3>2. \A q \in Quality : pc'[q] = pc[q] /\ pc[q] = "idle"
        BY <1>3, <2>4, <3>1, AgentFacts DEF IInv, ReadersLater
      <3>3. QED BY <1>1, <3>1, <3>2 DEF IInv, ReadersLater
    <2>13. QED BY <2>5, <2>6, <2>10, <2>11, <2>12 DEF IInv
  <1>4. QED BY <1>2, <1>3, AgentFacts

(* One thread claims the gate, at the commit of the last writer. *)
LEMMA ClaimGateInv == ASSUME IInv, NEW a \in Agents, ClaimGate(a) PROVE IInv'
  <1>1. /\ pc[a] = "evidence" /\ quality.state = "pending"
        /\ quality' = [quality EXCEPT !.state = "running", !.commit = latest]
        /\ pc' = [pc EXCEPT ![a] = "gate"]
        /\ UNCHANGED << ws, latest, local, outputs >>
    BY DEF ClaimGate
  <1>2. a \in Quality /\ WritersDone
    BY <1>1, AgentFacts DEF IInv, WritersInOrder, ReadersLater
  <1>3. /\ pc'[a] = "gate" /\ \A b \in Agents : b # a => pc'[b] = pc[b]
        /\ pc' \in [Agents -> Places] /\ latest \in Commits
    BY <1>1 DEF IInv, Shaped, Places
  <1>4. /\ quality' \in [state : {"pending", "running", "ready", "failed"}, commit : Commit,
                         error : GateErrors \cup {"none", "safety"}]
        /\ quality'.state = "running" /\ quality'.commit = latest
    BY <1>1, <1>3 DEF IInv, Shaped, Commit
  <1>5. Shaped' /\ OutputsOfDone' /\ FrozenInCorrection'
    BY <1>1, <1>3, <1>4 DEF IInv, Shaped, OutputsOfDone, FrozenInCorrection
  <1>6. \A w \in WriterSet : pc'[w] = pc[w]
    BY <1>2, <1>3, AgentFacts
  <1>7. WritersInOrder' /\ CommitsChained' /\ WritersDone'
    BY <1>1, <1>2, <1>6, AgentFacts DEF IInv, WritersInOrder, CommitsChained, WritersDone
  <1>8. ReadersLater'
    BY <1>1, <1>3, <1>4, <1>7, AgentFacts DEF IInv, ReadersLater
  <1>9. QED BY <1>5, <1>7, <1>8 DEF IInv

(* A reader starts at the commit of the gate: the thread that ran it, or    *)
(* one that waited for it.                                                  *)
LEMMA ReaderStarts ==
    ASSUME IInv, NEW a \in Quality, pc[a] \in {"evidence", "gate"},
           quality.state # "pending",
           pc[a] = "gate" \/ quality.state = "ready",
           quality' = [quality EXCEPT !.state = "ready"], ws' \in Workspace,
           pc' = [pc EXCEPT ![a] = "turn"],
           local' = [local EXCEPT ![a] = FreshLocal(quality.commit)],
           UNCHANGED << latest, outputs >>
    PROVE  IInv'
  <1>1. /\ quality.commit = latest /\ WritersDone /\ a \in Agents /\ latest \in Commit
        /\ latest \in Commits
    BY AgentFacts DEF IInv, ReadersLater, Shaped, Commit
  <1>2. /\ quality' \in [state : {"pending", "running", "ready", "failed"}, commit : Commit,
                         error : GateErrors \cup {"none", "safety"}]
        /\ quality'.state = "ready" /\ quality'.commit = latest
    BY <1>1 DEF IInv, Shaped
  <1>3. /\ IsLocal(FreshLocal(latest)) /\ FreshLocal(latest).input = latest
        /\ FreshLocal(latest).plan = NoPlan
    BY <1>1, FreshIs
  <1>4. /\ pc'[a] = "turn" /\ \A b \in Agents : b # a => pc'[b] = pc[b] /\ local'[b] = local[b]
        /\ local'[a] = FreshLocal(latest) /\ pc' \in [Agents -> Places]
    BY <1>1 DEF IInv, Shaped, Places
  <1>5. Shaped'
    <2>1. DOMAIN local' = Agents /\ \A b \in Agents : IsLocal(local'[b])
      BY <1>1, <1>3 DEF IInv, Shaped
    <2>2. QED BY <1>2, <1>4, <2>1 DEF IInv, Shaped
  <1>6. OutputsOfDone' /\ FrozenInCorrection'
    BY <1>3, <1>4 DEF IInv, OutputsOfDone, FrozenInCorrection
  <1>7. \A w \in WriterSet : pc'[w] = pc[w] /\ local'[w] = local[w]
    BY <1>4, AgentFacts
  <1>8. WritersInOrder' /\ CommitsChained' /\ WritersDone'
    BY <1>1, <1>7, AgentFacts DEF IInv, WritersInOrder, CommitsChained, WritersDone
  <1>9. ReadersLater'
    BY <1>1, <1>2, <1>3, <1>4, <1>8, AgentFacts DEF IInv, ReadersLater
  <1>10. QED BY <1>5, <1>6, <1>8, <1>9 DEF IInv

(* The gate fails; no reader is at work yet. *)
LEMMA GateFailsInv ==
    ASSUME IInv, NEW a \in Quality, pc[a] = "gate",
           NEW why \in GateErrors \cup {"safety"}, Fail(a, why),
           quality' = [quality EXCEPT !.state = "failed", !.error = why],
           ws' \in Workspace, UNCHANGED << latest, outputs >>
    PROVE  IInv'
  <1>1. /\ quality.state = "running" /\ quality.commit = latest /\ WritersDone
        /\ a \in Agents
    BY AgentFacts DEF IInv, ReadersLater
  <1>2. /\ quality' \in [state : {"pending", "running", "ready", "failed"}, commit : Commit,
                         error : GateErrors \cup {"none", "safety"}]
        /\ quality'.state = "failed" /\ quality'.commit = latest
    BY <1>1 DEF IInv, Shaped
  <1>3. PICK p \in {"failed", "interrupted"} :
           pc' = [pc EXCEPT ![a] = p] /\ local' = [local EXCEPT ![a] = FreshLocal(None)]
    BY DEF Fail
  <1>4. /\ pc'[a] = p /\ \A b \in Agents : b # a => pc'[b] = pc[b] /\ local'[b] = local[b]
        /\ pc' \in [Agents -> Places]
    BY <1>1, <1>3 DEF IInv, Shaped, Places, Ended
  <1>5. Shaped'
    <2>1. DOMAIN local' = Agents /\ \A b \in Agents : IsLocal(local'[b])
      BY <1>3, FreshIs DEF IInv, Shaped, Commit
    <2>2. QED BY <1>2, <1>4, <2>1 DEF IInv, Shaped
  <1>6. OutputsOfDone' /\ FrozenInCorrection'
    BY <1>4 DEF IInv, OutputsOfDone, FrozenInCorrection
  <1>7. \A w \in WriterSet : pc'[w] = pc[w] /\ local'[w] = local[w]
    BY <1>4, AgentFacts
  <1>8. WritersInOrder' /\ CommitsChained' /\ WritersDone'
    BY <1>1, <1>7, AgentFacts DEF IInv, WritersInOrder, CommitsChained, WritersDone
  <1>9. ReadersLater'
    BY <1>1, <1>2, <1>4, <1>8, AgentFacts DEF IInv, ReadersLater
  <1>10. QED BY <1>5, <1>6, <1>8, <1>9 DEF IInv

(* The quality evidence of the iteration. *)
LEMMA EvidenceInv ==
    ASSUME IInv, NEW a \in Agents, TakeEvidence(a) \/ RunGate(a)
    PROVE  IInv'
  <1>1. a \in Quality /\ quality.state # "pending"
    BY AgentFacts DEF TakeEvidence, RunGate, IInv, WritersInOrder, ReadersLater
  <1>2. ws \in Workspace /\ [ws EXCEPT !.dirty = 1] \in Workspace
    BY AftermathType DEF IInv, Shaped
  <1>3. CASE TakeEvidence(a)
    <2>1. CASE quality.state = "ready"
      <3>1. quality' = [quality EXCEPT !.state = "ready"]
        BY <1>3, <2>1 DEF TakeEvidence, IInv, Shaped
      <3>2. QED BY <1>1, <1>2, <1>3, <2>1, <3>1, ReaderStarts DEF TakeEvidence
    <2>2. CASE quality.state # "ready"
      BY <1>2, <1>3, <2>2, StopInv DEF TakeEvidence, Fail
    <2>3. QED BY <2>1, <2>2
  <1>4. CASE RunGate(a)
    <2>1. PICK after \in {ws, [ws EXCEPT !.dirty = 1]}, error \in GateErrors \cup {"none"} :
             /\ ws' = after
             /\ \/ /\ quality' = [quality EXCEPT !.state = "ready"]
                   /\ pc' = [pc EXCEPT ![a] = "turn"]
                   /\ local' = [local EXCEPT ![a] = FreshLocal(quality.commit)]
                \/ \E why \in GateErrors \cup {"safety"} :
                      /\ quality' = [quality EXCEPT !.state = "failed", !.error = why]
                      /\ Fail(a, why)
      BY <1>4 DEF RunGate
    <2>2. pc[a] = "gate" /\ UNCHANGED << latest, outputs >> /\ ws' \in Workspace
      BY <1>2, <1>4, <2>1 DEF RunGate
    <2>3. QED BY <1>1, <2>1, <2>2, ReaderStarts, GateFailsInv
  <1>5. QED BY <1>3, <1>4

-----------------------------------------------------------------------------
(* A turn that does not complete has no reply and asks for no correction. *)
LEMMA IncompleteReturn ==
    ASSUME IInv, NEW a \in Agents,
           ReturnUnusable(a) \/ ReturnIncompleteWriter(a) \/ ReturnIncompleteReader(a)
    PROVE  \E after, j, u :
              /\ after \in Workspace /\ Return(a, after, j, u) /\ j.reply = FALSE /\ j.plan = NoPlan
              /\ IsLocal(u) /\ u.input = local[a].input /\ u.plan = local[a].plan
              /\ u.frozen = local[a].frozen
  <1> DEFINE mine == local[a]
  <1>1. IsLocal(mine)
    BY DEF IInv, Shaped
  <1>2. CASE ReturnUnusable(a)
    <2>1. PICK after \in Aftermath(a), why \in {"safety", "dependency", "user"} :
             Return(a, after, Failed(why), mine)
      BY <1>2 DEF ReturnUnusable
    <2>2. after \in Workspace
      BY AftermathType
    <2>3. Failed(why).reply = FALSE /\ Failed(why).plan = NoPlan
      BY FailedIs
    <2>4. QED BY <1>1, <2>1, <2>2, <2>3
  <1>3. \A result : LET failed == IncompleteVerdict(a, result)
                    IN  /\ failed.reply = FALSE /\ failed.plan = NoPlan
                        /\ [failed EXCEPT !.failure = "safety"].reply = FALSE
                        /\ [failed EXCEPT !.failure = "safety"].plan = NoPlan
                        /\ [failed EXCEPT !.continue = "continue"].reply = FALSE
                        /\ [failed EXCEPT !.continue = "continue"].plan = NoPlan
    BY DEF IncompleteVerdict, Failed, Nothing
  <1>4. \A c : /\ [Nothing EXCEPT !.continue = c].reply = FALSE
               /\ [Nothing EXCEPT !.continue = c].plan = NoPlan
    BY DEF Nothing
  <1>5. CASE ReturnIncompleteWriter(a)
    <2>1. PICK after \in WrittenBy(ws), result \in Incomplete :
             LET failed == IncompleteVerdict(a, result)
                 noted == [mine EXCEPT !.seenStates = @ \cup {ProgressState(after)}]
             IN  \/ Return(a, after, [failed EXCEPT !.failure = "safety"], mine)
                 \/ Return(a, after, [Nothing EXCEPT !.continue = "continue"], noted)
                 \/ Return(a, after, [failed EXCEPT !.continue = "continue"], noted)
                 \/ Return(a, after, failed, mine)
      BY <1>5 DEF ReturnIncompleteWriter
    <2> DEFINE noted == [mine EXCEPT !.seenStates = @ \cup {ProgressState(after)}]
    <2>2. after \in Workspace
      BY AftermathType
    <2>3. /\ IsLocal(noted) /\ noted.input = mine.input /\ noted.plan = mine.plan
          /\ noted.frozen = mine.frozen
      BY <1>1 DEF IsLocal
    <2> HIDE DEF noted
    <2>4. ASSUME NEW j, NEW u \in {mine, noted}, Return(a, after, j, u),
                 j.reply = FALSE, j.plan = NoPlan
          PROVE  \E n, k, v :
                    /\ n \in Workspace /\ Return(a, n, k, v) /\ k.reply = FALSE /\ k.plan = NoPlan
                    /\ IsLocal(v) /\ v.input = local[a].input /\ v.plan = local[a].plan
                    /\ v.frozen = local[a].frozen
      BY <1>1, <2>2, <2>3, <2>4
    <2>5. QED BY <1>3, <1>4, <2>1, <2>4 DEF noted
  <1>6. CASE ReturnIncompleteReader(a)
    <2>1. PICK after \in Aftermath(a), result \in Incomplete, tools \in ToolStates :
             LET failed == IncompleteVerdict(a, result)
                 noted == [mine EXCEPT !.seenTools = @ \cup {tools}]
             IN  \/ Return(a, after, [failed EXCEPT !.failure = "safety"], mine)
                 \/ Return(a, after, [Nothing EXCEPT !.continue = "readonly"], noted)
                 \/ Return(a, after, failed, mine)
      BY <1>6 DEF ReturnIncompleteReader
    <2> DEFINE noted == [mine EXCEPT !.seenTools = @ \cup {tools}]
    <2>2. after \in Workspace
      BY AftermathType
    <2>3. /\ IsLocal(noted) /\ noted.input = mine.input /\ noted.plan = mine.plan
          /\ noted.frozen = mine.frozen
      BY <1>1 DEF IsLocal
    <2> HIDE DEF noted
    <2>4. ASSUME NEW j, NEW u \in {mine, noted}, Return(a, after, j, u),
                 j.reply = FALSE, j.plan = NoPlan
          PROVE  \E n, k, v :
                    /\ n \in Workspace /\ Return(a, n, k, v) /\ k.reply = FALSE /\ k.plan = NoPlan
                    /\ IsLocal(v) /\ v.input = local[a].input /\ v.plan = local[a].plan
                    /\ v.frozen = local[a].frozen
      BY <1>1, <2>2, <2>3, <2>4
    <2>5. QED BY <1>3, <1>4, <2>1, <2>4 DEF noted
  <1>7. QED BY <1>2, <1>5, <1>6

(* A turn that is refused or does not complete keeps the invariant. *)
LEMMA IncompleteInv ==
    ASSUME IInv, NEW a \in Agents,
           \/ TurnRefused(a) \/ ReturnUnusable(a) \/ ReturnExhausted(a)
           \/ ReturnIncompleteWriter(a) \/ ReturnIncompleteReader(a)
    PROVE  IInv'
  <1>1. pc[a] = "turn" /\ ws \in Workspace
    BY DEF TurnRefused, ReturnUnusable, ReturnExhausted, ReturnIncompleteWriter,
           ReturnIncompleteReader, Calling, IInv, Shaped
  <1>2. local[a].plan # NoPlan =>
           /\ local[a].frozen \in Commits
           /\ a \in Quality => local[a].frozen = local[a].input
    BY <1>1 DEF IInv, FrozenInCorrection
  <1>3. CASE TurnRefused(a)
    BY <1>1, <1>3, StopInv DEF TurnRefused, Fail
  <1>4. CASE ReturnExhausted(a)
    <2>1. ws' \in Workspace
      BY <1>4, AftermathType DEF ReturnExhausted
    <2>2. QED BY <1>1, <1>4, <2>1, StopInv DEF ReturnExhausted, Fail
  <1>5. CASE ReturnUnusable(a) \/ ReturnIncompleteWriter(a) \/ ReturnIncompleteReader(a)
    <2>1. PICK after, j, u :
              /\ after \in Workspace /\ Return(a, after, j, u) /\ j.reply = FALSE /\ j.plan = NoPlan
              /\ IsLocal(u) /\ u.input = local[a].input /\ u.plan = local[a].plan
              /\ u.frozen = local[a].frozen
      BY <1>5, IncompleteReturn
    <2>2. QED BY <1>1, <1>2, <2>1, DecideInv
  <1>6. QED BY <1>3, <1>4, <1>5

(* Judging a payload leaves the commits of the thread alone. *)
LEMMA JudgeKeeps ==
    ASSUME NEW a, NEW payload, NEW mine, IsLocal(mine), NEW verifiedNoOp
    PROVE  LET u == Judge(a, payload, mine, verifiedNoOp)[2]
           IN  /\ IsLocal(u) /\ u.input = mine.input /\ u.plan = mine.plan
               /\ u.frozen = mine.frozen
  <1> DEFINE noted(issues) == [mine EXCEPT !.seenFailures = @ \cup {issues}]
  <1>1. \A issues : /\ IsLocal(noted(issues)) /\ noted(issues).input = mine.input
                    /\ noted(issues).plan = mine.plan /\ noted(issues).frozen = mine.frozen
    BY DEF IsLocal
  <1> HIDE DEF noted
  <1>2. Judge(a, payload, mine, verifiedNoOp)[2] \in {mine, noted(Diagnostic(payload))}
    BY DEF Judge, noted
  <1>3. QED BY <1>1, <1>2

(* A completed execution is judged at the commit it was verified at. *)
LEMMA CompletedAt ==
    ASSUME IInv, NEW a \in Agents, ReturnCompleted(a)
    PROVE  \E after, j, u :
              /\ after \in Workspace /\ Return(a, after, j, u)
              /\ IsLocal(u) /\ u.input = local[a].input
              /\ u.plan # NoPlan \/ j.plan # NoPlan \/ j.reply =>
                    /\ u.frozen \in Commits
                    /\ a \in Quality => u.frozen = u.input
              /\ j.reply /\ a \in WriterSet => Verified(after, u.frozen) /\ after.head = u.frozen
  <1> DEFINE own == local[a]
  <1>1. pc[a] = "turn" /\ IsLocal(own)
    BY DEF ReturnCompleted, Calling, IInv, Shaped
  <1>2. own.plan # NoPlan =>
           own.frozen \in Commits /\ (a \in Quality => own.frozen = own.input)
    BY <1>1 DEF IInv, FrozenInCorrection
  <1>3. a \in Quality => own.input \in Commits
    BY <1>1 DEF IInv, ReadersLater, Shaped
  <1> DEFINE Mine(after) == IF own.plan # NoPlan THEN own ELSE [own EXCEPT !.frozen = after.head]
  <1> DEFINE Judged(after, j, u) ==
                \/ ~WorkspaceAccepted(a, after) /\ j = Failed("safety") /\ u = own
                \/ /\ WorkspaceAccepted(a, after)
                   /\ IsLocal(u) /\ u.input = Mine(after).input /\ u.plan = Mine(after).plan
                   /\ u.frozen = Mine(after).frozen
  <1>4. \A after \in Workspace :
           IsLocal(Mine(after)) /\ Mine(after).input = own.input
           /\ Mine(after).frozen = IF own.plan # NoPlan THEN own.frozen ELSE after.head
    BY <1>1 DEF IsLocal, Workspace, Commit
  <1> HIDE DEF Mine
  <1> DEFINE Answered(after, m, v) ==
                \/ Return(a, after, Failed("artifact"), m)
                \/ /\ m.plan = NoPlan
                   /\ \E payload \in Bodies(a) :
                         LET j == Judge(a, payload, m, v) IN Return(a, after, j[1], j[2])
                \/ /\ m.plan # NoPlan
                   /\ \E submission \in Submissions(m.plan) :
                         IF Refused(m.plan, submission) # {}
                         THEN Return(a, after, [Failed("artifact") EXCEPT
                                                 !.plan = RecoveryPlan(m.plan, submission)], m)
                         ELSE LET j == Judge(a, Applied(m.plan, submission), m, v)
                              IN  Return(a, after, j[1], j[2])
  <1>5. PICK after \in Aftermath(a), verifiedNoOp \in BOOLEAN :
           \/ ~WorkspaceAccepted(a, after) /\ Return(a, after, Failed("safety"), own)
           \/ WorkspaceAccepted(a, after) /\ Answered(after, Mine(after), verifiedNoOp)
    <2>1. PICK after \in Aftermath(a), verifiedNoOp \in (IF a \in Integrators THEN BOOLEAN ELSE {FALSE}) :
             \/ ~WorkspaceAccepted(a, after) /\ Return(a, after, Failed("safety"), own)
             \/ WorkspaceAccepted(a, after) /\ Answered(after, Mine(after), verifiedNoOp)
      BY DEF ReturnCompleted, Mine
    <2>2. verifiedNoOp \in BOOLEAN
      BY <2>1
    <2> HIDE DEF Answered
    <2>3. QED BY <2>1, <2>2
  <1>6. after \in Workspace
    BY AftermathType
  <1>7. \E j, u : Return(a, after, j, u) /\ Judged(after, j, u)
    <2>1. CASE ~WorkspaceAccepted(a, after)
      BY <1>5, <2>1
    <2>2. CASE WorkspaceAccepted(a, after)
      <3>1. IsLocal(Mine(after))
        BY <1>4, <1>6
      <3>2. \A j : Judged(after, j, Mine(after))
        BY <2>2, <3>1
      <3>3. \A j, payload : Judged(after, j, Judge(a, payload, Mine(after), verifiedNoOp)[2])
        BY <2>2, <3>1, JudgeKeeps
      <3> HIDE DEF Judged
      <3>4. CASE Return(a, after, Failed("artifact"), Mine(after))
        BY <3>2, <3>4, ZenonT(20)
      <3>5. ASSUME NEW payload,
                   Return(a, after, Judge(a, payload, Mine(after), verifiedNoOp)[1],
                          Judge(a, payload, Mine(after), verifiedNoOp)[2])
            PROVE  \E j, u : Return(a, after, j, u) /\ Judged(after, j, u)
        <4> DEFINE j == Judge(a, payload, Mine(after), verifiedNoOp)[1]
                   u == Judge(a, payload, Mine(after), verifiedNoOp)[2]
        <4>1. Return(a, after, j, u) /\ Judged(after, j, u)
          BY <3>3, <3>5
        <4> HIDE DEF j, u
        <4>2. QED BY <4>1
      <3>6. ASSUME NEW plan, Return(a, after, [Failed("artifact") EXCEPT !.plan = plan], Mine(after))
            PROVE  \E j, u : Return(a, after, j, u) /\ Judged(after, j, u)
        BY <3>2, <3>6
      <3>7. Answered(after, Mine(after), verifiedNoOp)
        BY <1>5, <2>2
      <3>8. QED BY <3>4, <3>5, <3>6, <3>7
    <2>3. QED BY <2>1, <2>2
  <1>8. PICK j, u : Return(a, after, j, u) /\ Judged(after, j, u)
    BY <1>7
  <1>9. CASE ~WorkspaceAccepted(a, after)
    <2>1. j = Failed("safety") /\ u = own
      BY <1>8, <1>9
    <2>2. j.reply = FALSE /\ j.plan = NoPlan
      BY <2>1, FailedIs
    <2>3. QED BY <1>1, <1>2, <1>6, <1>8, <2>1, <2>2
  <1>10. CASE WorkspaceAccepted(a, after)
    <2>1. /\ IsLocal(u) /\ u.input = own.input
          /\ u.frozen = IF own.plan # NoPlan THEN own.frozen ELSE after.head
      BY <1>4, <1>6, <1>8, <1>10
    <2>2. after.head \in Commits /\ None \notin Commits
      BY <1>6, AgentFacts DEF Workspace
    <2>3. u.frozen \in Commits
      BY <1>2, <2>1, <2>2
    <2>4. a \in Quality => u.frozen = u.input
      BY <1>2, <1>3, <1>10, <2>1, <2>2 DEF WorkspaceAccepted, Verified
    <2>5. a \in WriterSet => Verified(after, u.frozen) /\ after.head = u.frozen
      <3> SUFFICES ASSUME a \in WriterSet
                   PROVE  Verified(after, u.frozen) /\ after.head = u.frozen
        OBVIOUS
      <3>1. a \notin Quality
        BY AgentFacts
      <3>2. CASE own.plan # NoPlan
        BY <1>2, <1>10, <2>1, <2>2, <3>1, <3>2 DEF WorkspaceAccepted, Verified
      <3>3. CASE own.plan = NoPlan
        BY <1>10, <2>1, <3>1, <3>3 DEF WorkspaceAccepted, Verified, Snapshot
      <3>4. QED BY <3>2, <3>3
    <2>6. QED BY <1>6, <1>8, <2>1, <2>3, <2>4, <2>5
  <1>11. QED BY <1>9, <1>10

(* Every step keeps the invariant. *)
LEMMA NextInv == IInv /\ [Next]_vars => IInv'
  <1> SUFFICES ASSUME IInv, [Next]_vars PROVE IInv'
    OBVIOUS
  <1>1. CASE UNCHANGED vars
    BY <1>1 DEF vars, IInv, Shaped, OutputsOfDone, WritersInOrder, CommitsChained,
                ReadersLater, WritersDone, FrozenInCorrection
  <1>2. ASSUME NEW a \in Agents, ReturnCompleted(a) PROVE IInv'
    <2>1. pc[a] = "turn"
      BY <1>2 DEF ReturnCompleted, Calling
    <2>2. QED BY <1>2, <2>1, CompletedAt, DecideInv
  <1>3. QED BY <1>1, <1>2, CallInv, ClaimGateInv, EvidenceInv, IncompleteInv DEF Next, Step

(* IInv is an invariant of the runner. *)
THEOREM RunnerInvariant == Spec => []IInv
  BY InitInv, NextInv, PTL DEF Spec

(* The artifacts of one iteration form one chain of commits, and every      *)
(* quality report is bound to its last one, for any number of Agents.       *)
THEOREM OneCommit == Spec => []ReportsShareOneCommit
  <1>1. IInv => ReportsShareOneCommit
    <2> SUFFICES ASSUME IInv PROVE ReportsShareOneCommit
      OBVIOUS
    <2>1. ASSUME NEW q \in Quality, outputs[q] # NoOutput
          PROVE  /\ quality.state = "ready" /\ quality.commit = latest
                 /\ outputs[q] = [input |-> latest, output |-> latest]
      BY <2>1, AgentFacts DEF IInv, OutputsOfDone, ReadersLater
    <2>2. ASSUME NEW i \in DOMAIN Writers, outputs[Writers[i]] # NoOutput
          PROVE  outputs[Writers[i]].input =
                    IF i = 1 THEN 0 ELSE outputs[Writers[i - 1]].output
      BY <2>2, AgentFacts DEF IInv, OutputsOfDone, CommitsChained
    <2>3. QED BY <2>1, <2>2 DEF ReportsShareOneCommit
  <1>2. QED BY <1>1, RunnerInvariant, PTL

(* Only an accepted reply makes an artifact. *)
LEMMA DecideOutputs ==
    ASSUME NEW a, NEW j, NEW u, IsLocal(u), Decide(a, j, u)
    PROVE  \/ outputs' = outputs
           \/ /\ j.reply
              /\ outputs' = [outputs EXCEPT ![a] = [input |-> u.input, output |-> u.frozen]]
              /\ a \in WriterSet => latest' = u.frozen
  <1> DEFINE mine == [u EXCEPT !.mode = "base"]
  <1>1. mine.input = u.input /\ mine.frozen = u.frozen
    BY DEF IsLocal
  <1>2. CASE j.reply /\ Accept(a, mine)
    <2> HIDE DEF mine
    <2>1. QED BY <1>1, <1>2 DEF Accept
  <1>3. CASE ~(j.reply /\ Accept(a, mine))
    BY <1>3 DEF Decide, Again
  <1>4. QED BY <1>2, <1>3

(* What a writer's artifact names is what its workspace holds when it is    *)
(* accepted: a clean tree at that commit, also after corrections.           *)
THEOREM AcceptedCommitIsHead == Spec => AcceptedAtHead
  <1>1. IInv /\ [Next]_vars =>
           \A w \in WriterSet : outputs'[w] # outputs[w] =>
              Verified(ws', outputs'[w].output) /\ latest' = ws'.head
    <2> SUFFICES ASSUME IInv, [Next]_vars, NEW w \in WriterSet, outputs'[w] # outputs[w]
                 PROVE  Verified(ws', outputs'[w].output) /\ latest' = ws'.head
      OBVIOUS
    <2>1. PICK a \in Agents : Call(a) \/ Step(a)
      BY DEF Next, vars
    <2>2. ReturnCompleted(a)
      <3>1. CASE \/ Call(a) \/ ClaimGate(a) \/ TakeEvidence(a) \/ RunGate(a) \/ TurnRefused(a)
                 \/ ReturnExhausted(a)
        BY <3>1 DEF Call, ClaimGate, TakeEvidence, RunGate, TurnRefused, ReturnExhausted
      <3>2. CASE ReturnUnusable(a) \/ ReturnIncompleteWriter(a) \/ ReturnIncompleteReader(a)
        <4>1. PICK after, j, u :
                 Return(a, after, j, u) /\ j.reply = FALSE /\ IsLocal(u)
          BY <3>2, IncompleteReturn
        <4>2. Decide(a, j, u)
          BY <4>1 DEF Return
        <4>3. outputs' = outputs
          BY <4>1, <4>2, DecideOutputs
        <4>4. QED BY <4>3
      <3>3. QED BY <2>1, <3>1, <3>2 DEF Step
    <2>3. PICK after, j, u :
             /\ after \in Workspace /\ Return(a, after, j, u) /\ IsLocal(u)
             /\ j.reply /\ a \in WriterSet =>
                   Verified(after, u.frozen) /\ after.head = u.frozen
      BY <2>2, CompletedAt
    <2>4. ws' = after /\ Decide(a, j, u)
      BY <2>3 DEF Return
    <2>5. /\ j.reply /\ (a \in WriterSet => latest' = u.frozen)
          /\ outputs' = [outputs EXCEPT ![a] = [input |-> u.input, output |-> u.frozen]]
      BY <2>3, <2>4, DecideOutputs
    <2>6. w = a /\ outputs'[w] = [input |-> u.input, output |-> u.frozen]
      BY <2>5, AgentFacts DEF IInv, Shaped
    <2>7. QED BY <2>3, <2>4, <2>5, <2>6
  <1>2. QED BY <1>1, RunnerInvariant, PTL DEF Spec, AcceptedAtHead


-----------------------------------------------------------------------------
(***************************************************************************)
(* What the runner accepts of a Reviewer: ReviewGrounding.  The inductive  *)
(* invariant needs, besides the properties, that a catalogue holds         *)
(* candidates of the results it was made from, which may be a proper       *)
(* prefix of the chain, and that the body it corrects has been normalized: *)
(* otherwise the fragment picked need not be the claim grounded next.      *)
(***************************************************************************)

(* A positive claim that grounds (evaluate_claim) is cited, by nothing that failed. *)
LEMMA CleanClaim ==
    ASSUME NEW f, NEW chain, ClaimError(f, "satisfied", chain) = "none"
    PROVE  /\ ToolMatches(f, "satisfied", chain) # {} \/ CommandMatches(f) # {}
           /\ \A r \in ToolMatches(f, "satisfied", chain) : ~Ineligible(r[2])
           /\ \A k \in CommandMatches(f) : ~k.failed
<1> DEFINE tools == ToolMatches(f, "satisfied", chain)
           bad == {r \in tools : Ineligible(r[2])}
<1>1. ~(tools = {} /\ CommandMatches(f) = {})
  BY DEF ClaimError
<1>2. bad = {}
  BY <1>1 DEF ClaimError
<1>3. ~ \E k \in CommandMatches(f) : k.failed
  BY <1>1, <1>2 DEF ClaimError
<1>4. QED BY <1>1, <1>2, <1>3

(* The results of the first attempts of a chain. *)
LEMMA PrefixResults ==
    ASSUME NEW chain \in Seq(SUBSET Calls), NEW n \in 0..Len(chain)
    PROVE  /\ SubSeq(chain, 1, n) \in Seq(SUBSET Calls)
           /\ Results(SubSeq(chain, 1, n)) = {r \in Results(chain) : r[1] <= n}
           /\ \A r \in Results(chain) : r[1] \in DOMAIN chain /\ r[1] \in Nat /\ r[2] \in chain[r[1]]
<1> DEFINE early == SubSeq(chain, 1, n)
<1>1. early \in Seq(SUBSET Calls) /\ Len(early) = n /\ \A i \in 1..n : early[i] = chain[i]
  BY SubSeqProperties
<1>2. DOMAIN early = 1..n /\ DOMAIN chain = 1..Len(chain)
  BY <1>1
<1> HIDE DEF early
<1>3. \A r : r \in Results(chain) <=> \E i \in 1..Len(chain) : r \in {i} \X chain[i]
  BY <1>2 DEF Results
<1>4. \A r : r \in Results(early) <=> \E i \in 1..n : r \in {i} \X chain[i]
  BY <1>1, <1>2 DEF Results
<1>5. Results(early) = {r \in Results(chain) : r[1] <= n}
  BY <1>3, <1>4
<1>6. QED BY <1>1, <1>2, <1>3, <1>5 DEF early

(* What is still known of a catalogue when a further attempt joins the chain. *)
LEMMA AppendedPrefix ==
    ASSUME NEW chain \in Seq(SUBSET Calls), NEW calls \in SUBSET Calls, NEW n \in 0..Len(chain)
    PROVE  /\ Append(chain, calls) \in Seq(SUBSET Calls) /\ n \in 0..Len(Append(chain, calls))
           /\ SubSeq(Append(chain, calls), 1, n) = SubSeq(chain, 1, n)
<1> DEFINE longer == Append(chain, calls)
<1>1. longer \in Seq(SUBSET Calls) /\ Len(longer) = Len(chain) + 1 /\ \A i \in 1..Len(chain) : longer[i] = chain[i]
  BY AppendProperties
<1> HIDE DEF longer
<1>2. n \in 0..Len(longer)
  BY <1>1
<1>3. \A i \in 1..n : longer[i] = chain[i]
  BY <1>1
<1>4. SubSeq(longer, 1, n) = SubSeq(chain, 1, n)
  <2>1. /\ SubSeq(longer, 1, n) \in Seq(SUBSET Calls) /\ Len(SubSeq(longer, 1, n)) = n
        /\ \A i \in 1..n : SubSeq(longer, 1, n)[i] = longer[i]
    BY <1>1, <1>2, SubSeqProperties
  <2>2. /\ SubSeq(chain, 1, n) \in Seq(SUBSET Calls) /\ Len(SubSeq(chain, 1, n)) = n
        /\ \A i \in 1..n : SubSeq(chain, 1, n)[i] = chain[i]
    BY SubSeqProperties
  <2>3. QED BY <1>3, <2>1, <2>2, SeqEqual
<1>5. QED BY <1>1, <1>2, <1>4 DEF longer

(* A candidate of the first n attempts still grounds after any number of
   further ones, unless one of them printed the fragment in a result that
   failed, or the claim is blocked and the catalogue joined the text itself. *)
LEMMA OfferStands ==
    ASSUME NEW chain \in Seq(SUBSET Calls), NEW n \in 0..Len(chain), NEW status \in {"satisfied", "blocked"},
           NEW f \in Candidates(status, SubSeq(chain, 1, n))
    PROVE  \/ ClaimError(f, status, chain) = "none"
           \/ status = "satisfied" /\ Contaminated(f, n, chain)
           \/ status = "blocked" /\ MadeByJoining(f, n, chain)
<1> DEFINE early == SubSeq(chain, 1, n)
<1>1. Results(early) = {r \in Results(chain) : r[1] <= n}
  BY PrefixResults
<1>2. \A r \in Results(chain) : r[1] \in DOMAIN chain /\ r[1] \in Nat /\ r[2] \in chain[r[1]]
  BY PrefixResults
<1>3. f \in Candidates(status, early)
  OBVIOUS
<1> HIDE DEF early
<1>4. CASE status = "blocked"
  <2> DEFINE results == {r \in Results(early) : r[2].kind # "submit"}
             shown == UNION {Fragments(r[2], "blocked") : r \in results}
             printed == UNION {k.output \cup k.split : k \in Commands}
  <2>1. f \in Sources("blocked", early)
    BY <1>3, <1>4 DEF Candidates
  <2>2. f \in shown \cup printed
    BY <2>1 DEF Sources
  <2>3. CASE f \in shown
    <3>1. PICK r \in results : f \in Fragments(r[2], "blocked")
      BY <2>3
    <3>2. r \in Results(chain) /\ r[1] <= n /\ r[1] \in DOMAIN chain /\ r[2] \in chain[r[1]]
      BY <1>1, <1>2, <3>1
    <3>3. CASE f \in r[2].split
      BY <1>4, <3>2, <3>3 DEF MadeByJoining
    <3>4. CASE f \in Raw(r[2])
      <4>1. r \in ToolMatches(f, "blocked", chain)
        BY <3>2, <3>4 DEF ToolMatches, Surface, Occurs
      <4>2. ClaimError(f, "blocked", chain) = "none"
        BY <4>1 DEF ClaimError
      <4>3. QED BY <1>4, <4>2
    <3>5. QED BY <3>1, <3>3, <3>4 DEF Fragments
  <2>4. CASE f \in printed
    <3>1. PICK k \in Commands : f \in k.output \cup k.split
      BY <2>4
    <3>2. CASE f \in k.split
      BY <1>4, <3>2 DEF MadeByJoining
    <3>3. CASE f \in k.output
      <4>1. k \in CommandMatches(f)
        BY <3>3 DEF CommandMatches, Occurs
      <4>2. ClaimError(f, "blocked", chain) = "none"
        BY <4>1 DEF ClaimError
      <4>3. QED BY <1>4, <4>2
    <3>4. QED BY <3>1, <3>2, <3>3
  <2>5. QED BY <2>2, <2>3, <2>4
<1>5. CASE status = "satisfied" /\ ~Contaminated(f, n, chain)
  <2> DEFINE Matches(c) == {r \in Results(c) : f \in PositiveSurface(r[2])}
             Direct(c) == {r \in Matches(c) : r[2].kind = "probe" /\ ~Ineligible(r[2])}
  <2>1. \A c : ToolMatches(f, "satisfied", c) = IF Direct(c) # {} THEN Direct(c) ELSE Matches(c)
    BY DEF ToolMatches, Surface, Occurs
  <2>2. ClaimError(f, "satisfied", early) = "none"
    BY <1>3, <1>5 DEF Candidates
  <2>3. \A r \in ToolMatches(f, "satisfied", early) : ~Ineligible(r[2])
    BY <2>2, CleanClaim
  <2>4. \A k \in CommandMatches(f) : ~k.failed
    BY <2>2, CleanClaim
  <2>5. Matches(early) \subseteq Matches(chain) /\ Direct(early) \subseteq Direct(chain)
    BY <1>1
  <2>6. \A r \in Matches(chain) \ Matches(early) : ~Ineligible(r[2])
    <3>1. SUFFICES ASSUME NEW r \in Matches(chain) \ Matches(early) PROVE ~Ineligible(r[2])
      OBVIOUS
    <3>2. r[1] > n /\ r[1] \in DOMAIN chain /\ r[2] \in chain[r[1]] /\ f \in PositiveSurface(r[2])
      BY <1>1, <1>2, <3>1
    <3>3. QED BY <1>5, <3>2 DEF Contaminated
  <2> HIDE DEF Matches
  <2>7. \A r \in ToolMatches(f, "satisfied", chain) : ~Ineligible(r[2])
    BY <2>1, <2>3, <2>5, <2>6
  <2>8. ToolMatches(f, "satisfied", early) # {} => ToolMatches(f, "satisfied", chain) # {}
    BY <2>1, <2>5
  <2>9. ToolMatches(f, "satisfied", chain) # {} \/ CommandMatches(f) # {}
    BY <2>2, <2>8, CleanClaim
  <2>10. ClaimError(f, "satisfied", chain) = "none"
    BY <2>4, <2>7, <2>9 DEF ClaimError
  <2>11. QED BY <1>5, <2>10
<1>6. QED BY <1>4, <1>5

(* Without a target every check of the response has passed. *)
LEMMA LetThrough ==
    ASSUME NEW b, NEW g, NEW chain, NEW d \in Diagnoses(b, g, chain), d.targets = {}
    PROVE  GroundingErrors(b, chain) = {} /\ LateErrors(b, chain) = {} /\ ContextFailure(g) = {}
<1>1. Repeated(b) = {}
  BY DEF Diagnoses
<1>2. GroundingErrors(b, chain) = {}
  BY <1>1 DEF Diagnoses
<1>3. LateErrors(b, chain) = {}
  BY <1>1, <1>2 DEF Diagnoses
<1>4. ContextFailure(g) = {}
  <2>1. d.targets = {<<"body", f>> : f \in ContextFailure(g)}
    BY <1>1, <1>2, <1>3 DEF Diagnoses
  <2>2. QED BY <2>1
<1>5. QED BY <1>2, <1>3, <1>4

(* What the context checks of parse_dynamic_agent_response leave. *)
LEMMA ContextAccepts ==
    ASSUME NEW g, ContextFailure(g) = {}
    PROVE  /\ DOMAIN g.assess = Scope
           /\ \A c \in DOMAIN g.assess : g.assess[c].status = "satisfied" => Checked(g, c) = Boundaries[c]
           /\ \A f \in g.findings : f.scope # {}
           /\ Blocked(g.assess) = BlockingScope(g.findings)
           /\ (g.verdict = "accept") = (Blocked(g.assess) = {})
<1> DEFINE A1 == g.verdict = "fail" /\ ~g.terminal
           A2 == "assess" \in g.repeats
           A3 == DOMAIN g.assess # Scope
           A4 == Specialist /\ g.special.scope # Scope
           A5 == \E c \in DOMAIN g.assess : ~(Checked(g, c) \subseteq Boundaries[c])
           A6 == \E c \in DOMAIN g.assess :
                    \/ g.assess[c].status = "satisfied" /\ Checked(g, c) # Boundaries[c]
                    \/ g.assess[c].status = "blocked" /\ Boundaries[c] # {} /\ Checked(g, c) = {}
           A7 == \E f \in g.findings : f.scope = {} \/ ~(f.scope \subseteq Scope)
           A8 == Mismatched(g)
           A9 == (g.verdict = "accept") # (Blocked(g.assess) = {})
<1>1. ContextFailure(g) = CASE A1 -> {"assess", "findings"} [] A2 -> AllFields [] A3 -> AllFields [] A4 -> {"special"}
                            [] A5 -> {"assess", "findings"} [] A6 -> AllFields [] A7 -> {"findings"}
                            [] A8 -> AllFields [] A9 -> AllFields [] OTHER -> {}
  BY DEF ContextFailure
<1> HIDE DEF A1, A2, A3, A4, A5, A6, A7, A8, A9
<1>2. ~A3 /\ ~A6 /\ ~A7 /\ ~A8 /\ ~A9
  BY <1>1 DEF AllFields
<1>3. QED BY <1>2 DEF A3, A6, A7, A8, A9, Mismatched

(* The grounded body: a criterion still satisfied cites what its claims match. *)
LEMMA GroundedParts ==
    ASSUME NEW b, NEW chain
    PROVE  LET g == Grounded(b, chain)
           IN  /\ DOMAIN g.assess = DOMAIN b.assess
               /\ \A c \in DOMAIN b.assess : g.assess[c].status = "satisfied" =>
                     /\ b.assess[c].status = "satisfied" /\ c \notin Downgraded(b, chain)
                     /\ DOMAIN g.assess[c].cited = DOMAIN b.assess[c].claims
                     /\ \A s \in DOMAIN b.assess[c].claims :
                           g.assess[c].cited[s] = [tools |-> ToolMatches(b.assess[c].claims[s], "satisfied", chain),
                                                   commands |-> CommandMatches(b.assess[c].claims[s])]
  BY DEF Grounded, Cited

(* The citation of one claim of a satisfied criterion. *)
LEMMA GroundedCitation ==
    ASSUME NEW b, NEW chain, NEW c \in DOMAIN b.assess, Grounded(b, chain).assess[c].status = "satisfied",
           NEW s \in DOMAIN b.assess[c].claims
    PROVE  Grounded(b, chain).assess[c].cited[s] =
               [tools |-> ToolMatches(b.assess[c].claims[s], "satisfied", chain),
                commands |-> CommandMatches(b.assess[c].claims[s])]
  BY GroundedParts

(* A satisfied criterion of a response that is let through is proved. *)
LEMMA ProvedWhenLetThrough ==
    ASSUME NEW b, NEW chain \in Seq(SUBSET Calls), WellFormed(b),
           NEW d \in Diagnoses(b, Grounded(b, chain), chain), d.targets = {}, NEW c \in Scope, Grounded(b, chain).assess[c].status = "satisfied",
           NEW s \in {"main"} \cup Boundaries[c]
    PROVE  LET fragment == b.assess[c].claims[s]
               cited == Grounded(b, chain).assess[c].cited[s]
           IN  /\ \/ \E r \in cited.tools :
                            IF r[2].kind = "probe" THEN r[2].framed /\ fragment \in r[2].stdout \cup r[2].joined
                            ELSE fragment \in Raw(r[2])
                  \/ cited.commands # {}
               /\ \A r \in cited.tools : r[2].outcome = "succeeded" /\ r[2].exit = "zero"
               /\ \A k \in cited.commands : ~k.failed
<1> DEFINE g == Grounded(b, chain)
           fragment == b.assess[c].claims[s]
<1>1. GroundingErrors(b, chain) = {} /\ ContextFailure(g) = {}
  BY LetThrough
<1>2. c \in DOMAIN b.assess /\ DOMAIN g.assess[c].cited = DOMAIN b.assess[c].claims
  BY <1>1, ContextAccepts, GroundedParts
<1>3. Checked(g, c) = Boundaries[c]
  BY <1>1, <1>2, ContextAccepts, GroundedParts
<1>4. s \in DOMAIN b.assess[c].claims
  BY <1>2, <1>3 DEF Checked, WellFormed
<1>5. b.assess[c].status = "satisfied" /\ c \notin Downgraded(b, chain)
  BY <1>2, GroundedParts
<1>6. ClaimError(fragment, "satisfied", chain) \notin Unsafe
  BY <1>2, <1>4, <1>5 DEF Downgraded
<1>7. ClaimError(fragment, "satisfied", chain) = "none"
  <2> DEFINE t == <<c, s>>
  <2>1. t \in Slots(b)
    BY <1>2, <1>4 DEF Slots
  <2>2. Claim(b, t) = fragment /\ Status(b, t) = "satisfied"
    BY <1>5 DEF Claim, Status
  <2> HIDE DEF t, fragment
  <2>3. QED BY <1>1, <1>6, <2>1, <2>2 DEF GroundingErrors
<1>8. /\ g.assess[c].cited[s].tools = ToolMatches(fragment, "satisfied", chain)
      /\ g.assess[c].cited[s].commands = CommandMatches(fragment)
  <2>1. g.assess[c].cited[s] = [tools |-> ToolMatches(fragment, "satisfied", chain),
                                commands |-> CommandMatches(fragment)]
    <3>1. c \in DOMAIN b.assess /\ s \in DOMAIN b.assess[c].claims
      BY <1>2, <1>4
    <3>2. Grounded(b, chain).assess[c].cited[s] =
              [tools |-> ToolMatches(b.assess[c].claims[s], "satisfied", chain),
               commands |-> CommandMatches(b.assess[c].claims[s])]
      <4>1. Grounded(b, chain).assess[c].status = "satisfied"
        OBVIOUS
      <4>2. QED BY ONLY <3>1, <4>1, GroundedCitation
    <3>3. QED BY <3>2, Zenon
  <2> HIDE DEF g, fragment
  <2> DEFINE cite == g.assess[c].cited[s]
             found == ToolMatches(fragment, "satisfied", chain)
             printed == CommandMatches(fragment)
  <2>2. cite = [tools |-> found, commands |-> printed]
    BY <2>1
  <2> HIDE DEF cite, found, printed
  <2>3. cite.tools = found /\ cite.commands = printed
    BY <2>2
  <2>4. QED BY <2>3 DEF cite, found, printed
<1> HIDE DEF g, fragment
<1>9. \A r \in ToolMatches(fragment, "satisfied", chain) :
          /\ r[2] \in Calls /\ ~Ineligible(r[2]) /\ fragment \in PositiveSurface(r[2])
  <2>1. \A r \in ToolMatches(fragment, "satisfied", chain) : r \in Results(chain) /\ fragment \in PositiveSurface(r[2])
    BY DEF ToolMatches, Surface, Occurs
  <2>2. \A r \in Results(chain) : r[2] \in Calls
    BY DEF Results
  <2>3. QED BY <1>7, <2>1, <2>2, CleanClaim
<1>10. \A r \in ToolMatches(fragment, "satisfied", chain) :
          /\ r[2].outcome = "succeeded" /\ r[2].exit = "zero"
          /\ IF r[2].kind = "probe" THEN r[2].framed /\ fragment \in r[2].stdout \cup r[2].joined ELSE fragment \in Raw(r[2])
  BY <1>9, GroundingAssumption DEF Ineligible, PositiveSurface
<1>11. QED BY <1>7, <1>8, <1>10, CleanClaim DEF g, fragment

(* A claim that grounds is cited by what it occurs in. *)
LEMMA CitedClaim ==
    ASSUME NEW f, NEW status, NEW chain, ClaimError(f, status, chain) = "none"
    PROVE  \/ \E r \in ToolMatches(f, status, chain) : Occurs(f, Surface(r[2], status))
           \/ \E k \in CommandMatches(f) : Occurs(f, k.output)
<1>1. ToolMatches(f, status, chain) # {} \/ CommandMatches(f) # {}
  BY DEF ClaimError
<1>2. \A r \in ToolMatches(f, status, chain) : Occurs(f, Surface(r[2], status))
  BY DEF ToolMatches
<1>3. \A k \in CommandMatches(f) : Occurs(f, k.output)
  BY DEF CommandMatches
<1>4. QED BY <1>1, <1>2, <1>3

(* Every claim of a response that is let through grounds under the status its
   report has, the one it was submitted with or the one it was downgraded to. *)
LEMMA GroundsAsReported ==
    ASSUME NEW b, NEW chain, WellFormed(b), GroundingErrors(b, chain) = {}, LateErrors(b, chain) = {},
           NEW c \in DOMAIN b.assess, NEW s \in DOMAIN b.assess[c].claims
    PROVE  ClaimError(b.assess[c].claims[s], IF c \in Downgraded(b, chain) THEN "blocked" ELSE b.assess[c].status, chain) = "none"
<1> DEFINE t == <<c, s>>
           f == b.assess[c].claims[s]
<1>1. t \in Slots(b) /\ Claim(b, t) = f /\ Status(b, t) = b.assess[c].status
  BY DEF Slots, Claim, Status
<1>2. CASE c \in Downgraded(b, chain)
  BY <1>1, <1>2 DEF LateErrors
<1>3. CASE c \notin Downgraded(b, chain)
  <2>1. ClaimError(f, b.assess[c].status, chain) \in Unsafe \cup {"none"}
    BY <1>1 DEF GroundingErrors
  <2>2. CASE b.assess[c].status = "satisfied"
    <3>1. ClaimError(f, "satisfied", chain) \notin Unsafe
      BY <1>3, <2>2 DEF Downgraded
    <3>2. QED BY <1>3, <2>1, <2>2, <3>1
  <2>3. CASE b.assess[c].status = "blocked"
    <3>1. ClaimError(f, "blocked", chain) \in {"none", "fragment_unmatched"}
      BY DEF ClaimError, HiddenMatches
    <3>2. QED BY <1>3, <2>1, <2>3, <3>1 DEF Unsafe
  <2>4. QED BY <2>2, <2>3 DEF WellFormed
<1>4. QED BY <1>2, <1>3

(* So every claim of its report cites something it occurs in. *)
LEMMA CitedWhenLetThrough ==
    ASSUME NEW b, NEW chain, WellFormed(b), GroundingErrors(b, chain) = {}, LateErrors(b, chain) = {},
           NEW c \in DOMAIN Grounded(b, chain).assess, NEW s \in DOMAIN Grounded(b, chain).assess[c].cited
    PROVE  LET g == Grounded(b, chain)
               cited == g.assess[c].cited[s]
           IN  \/ \E r \in cited.tools : Occurs(b.assess[c].claims[s], Surface(r[2], g.assess[c].status))
               \/ \E k \in cited.commands : Occurs(b.assess[c].claims[s], k.output)
<1> DEFINE g == Grounded(b, chain)
           f == b.assess[c].claims[s]
           status == IF c \in Downgraded(b, chain) THEN "blocked" ELSE b.assess[c].status
<1>1. c \in DOMAIN b.assess
  BY DEF Grounded
<1>2. g.assess[c].status = status /\ g.assess[c].cited = Cited(b.assess[c], status, chain)
  BY <1>1 DEF Grounded
<1>3. s \in DOMAIN b.assess[c].claims
  BY <1>2 DEF Cited
<1>4. g.assess[c].cited[s] = [tools |-> ToolMatches(f, status, chain), commands |-> CommandMatches(f)]
  BY <1>2, <1>3 DEF Cited
<1>5. ClaimError(f, status, chain) = "none"
  BY <1>1, <1>3, GroundsAsReported
<1> HIDE DEF g, f, status
<1>6. QED BY <1>2, <1>4, <1>5, CitedClaim DEF g, f

(* The rules of ReviewReport.validate_verdict that the context checks decide. *)
LEMMA RefusedAlone ==
    ASSUME NEW g, ContextFailure(g) = {}
    PROVE  ReportRefusals(g) \subseteq {"finding ids", "critical", "terminal", "special"}
<1>1. /\ DOMAIN g.assess = Scope /\ Blocked(g.assess) = BlockingScope(g.findings)
      /\ (g.verdict = "accept") = (Blocked(g.assess) = {}) /\ \A f \in g.findings : f.scope # {}
  BY ContextAccepts
<1>2. (\E f \in g.findings : f.blocking) <=> BlockingScope(g.findings) # {}
  BY <1>1 DEF BlockingScope
<1>3. \A rule \in {"scope", "blocked", "verdict", "accepted blocker", "no blocker"} : rule \notin ReportRefusals(g)
  BY <1>1, <1>2 DEF ReportRefusals
<1>4. ReportRefusals(g) \subseteq {"finding ids", "scope", "blocked", "verdict", "accepted blocker", "no blocker",
                                   "critical", "terminal", "special"}
  BY DEF ReportRefusals
<1>5. QED BY <1>3, <1>4

(* What normalization leaves: no claim for a boundary the brief does not own. *)
Owned(b) ==
    \A c \in DOMAIN b.assess : \A s \in DOMAIN b.assess[c].claims :
        s = "main" \/ c \notin Criteria \/ s \in Boundaries[c]

(* _normalize_review_boundary_scope_payload drops the claims of boundaries the
   brief does not own and nothing else. *)
LEMMA NormalizedParts ==
    ASSUME NEW b, WellFormed(b)
    PROVE  /\ WellFormed(Normalized(b)) /\ Owned(Normalized(b))
           /\ DOMAIN Normalized(b).assess = DOMAIN b.assess
           /\ \A c \in DOMAIN b.assess :
                 /\ Normalized(b).assess[c].status = b.assess[c].status
                 /\ \A s \in DOMAIN b.assess[c].claims : (s = "main" \/ c \notin Criteria \/ s \in Boundaries[c]) =>
                       s \in DOMAIN Normalized(b).assess[c].claims /\ Normalized(b).assess[c].claims[s] = b.assess[c].claims[s]
<1> DEFINE kept(c) == (DOMAIN b.assess[c].claims) \cap ({"main"} \cup
                        IF c \in Criteria THEN Boundaries[c] ELSE DOMAIN b.assess[c].claims)
           a == [c \in DOMAIN b.assess |-> [b.assess[c] EXCEPT !.claims = [s \in kept(c) |-> b.assess[c].claims[s]]]]
           n == Normalized(b)
<1>1. n = [b EXCEPT !.assess = a]
  BY DEF Normalized
<1> HIDE DEF n, a
<1>2. DOMAIN n = DOMAIN b /\ n.assess = a /\ n.repeats = b.repeats
  BY <1>1 DEF WellFormed
<1>3. DOMAIN a = DOMAIN b.assess
  BY DEF a
<1>4. \A c \in DOMAIN b.assess : /\ a[c].claims = [s \in kept(c) |-> b.assess[c].claims[s]]
                                 /\ DOMAIN a[c] = {"status", "claims"} /\ a[c].status = b.assess[c].status
  BY DEF a, WellFormed
<1>5. \A c \in DOMAIN b.assess : "main" \in DOMAIN a[c].claims
  <2>1. \A c \in DOMAIN b.assess : "main" \in kept(c)
    BY DEF WellFormed
  <2> HIDE DEF kept
  <2>2. QED BY <1>4, <2>1
<1>6. WellFormed(n)
  BY <1>2, <1>3, <1>4, <1>5 DEF WellFormed
<1>7. Owned(n)
  BY <1>2, <1>3, <1>4 DEF Owned
<1>8. \A c \in DOMAIN b.assess : \A s \in DOMAIN b.assess[c].claims : (s = "main" \/ c \notin Criteria \/ s \in Boundaries[c]) =>
          s \in DOMAIN a[c].claims /\ a[c].claims[s] = b.assess[c].claims[s]
  <2>1. \A c \in DOMAIN b.assess : \A s \in DOMAIN b.assess[c].claims :
            (s = "main" \/ c \notin Criteria \/ s \in Boundaries[c]) => s \in kept(c)
    OBVIOUS
  <2> HIDE DEF kept
  <2>2. QED BY <1>4, <2>1
<1>9. QED BY <1>2, <1>3, <1>4, <1>6, <1>7, <1>8 DEF n

(* _apply_resolved_correction_values writes the chosen fragments and nothing else. *)
LEMMA RewrittenParts ==
    ASSUME NEW b, NEW choice, WellFormed(b)
    PROVE  /\ WellFormed(Rewritten(b, choice)) /\ Slots(Rewritten(b, choice)) = Slots(b)
           /\ DOMAIN Rewritten(b, choice).assess = DOMAIN b.assess
           /\ \A c \in DOMAIN b.assess :
                 /\ Rewritten(b, choice).assess[c].status = b.assess[c].status
                 /\ DOMAIN Rewritten(b, choice).assess[c].claims = DOMAIN b.assess[c].claims
                 /\ \A s \in DOMAIN b.assess[c].claims : Rewritten(b, choice).assess[c].claims[s] =
                       IF <<c, s>> \in DOMAIN choice THEN choice[<<c, s>>] ELSE b.assess[c].claims[s]
<1> DEFINE new(c) == [s \in DOMAIN b.assess[c].claims |->
                        IF <<c, s>> \in DOMAIN choice THEN choice[<<c, s>>] ELSE b.assess[c].claims[s]]
           a == [c \in DOMAIN b.assess |-> [b.assess[c] EXCEPT !.claims = new(c)]]
           n == Rewritten(b, choice)
<1>1. n = [b EXCEPT !.assess = a]
  BY DEF Rewritten
<1> HIDE DEF n, a
<1>2. DOMAIN n = DOMAIN b /\ n.assess = a /\ n.repeats = b.repeats
  BY <1>1 DEF WellFormed
<1>3. DOMAIN a = DOMAIN b.assess
  BY DEF a
<1>4. \A c \in DOMAIN b.assess : /\ a[c].claims = new(c)
                                 /\ DOMAIN a[c] = {"status", "claims"} /\ a[c].status = b.assess[c].status
  BY DEF a, WellFormed
<1>5. \A c \in DOMAIN b.assess : /\ DOMAIN new(c) = DOMAIN b.assess[c].claims
                                 /\ \A s \in DOMAIN new(c) : new(c)[s] =
                                       IF <<c, s>> \in DOMAIN choice THEN choice[<<c, s>>] ELSE b.assess[c].claims[s]
  OBVIOUS
<1> HIDE DEF new
<1>6. WellFormed(n)
  BY <1>2, <1>3, <1>4, <1>5 DEF WellFormed
<1>7. \A c \in DOMAIN b.assess : DOMAIN n.assess[c].claims = DOMAIN b.assess[c].claims
  BY <1>2, <1>4, <1>5
<1>8. Slots(n) = Slots(b)
  BY <1>2, <1>3, <1>7 DEF Slots
<1>9. QED BY <1>2, <1>3, <1>4, <1>5, <1>6, <1>8 DEF n

(* A chosen fragment is the claim of the next body, as is the text of a slot
   without one; the status of an assessment is not the Reviewer's to change. *)
LEMMA ChosenClaims ==
    ASSUME NEW b, NEW choice, WellFormed(b), Owned(b), NEW t \in Slots(b),
           NEW n, n = Rewritten(b, choice) \/ n = Normalized(Rewritten(b, choice))
    PROVE  Claim(n, t) = (IF t \in DOMAIN choice THEN choice[t] ELSE Claim(b, t)) /\ Status(n, t) = Status(b, t)
<1>1. PICK c, s : c \in DOMAIN b.assess /\ s \in DOMAIN b.assess[c].claims /\ t = <<c, s>>
  BY DEF Slots
<1>2. s = "main" \/ c \notin Criteria \/ s \in Boundaries[c]
  BY <1>1 DEF Owned
<1> DEFINE r == Rewritten(b, choice)
           new == IF t \in DOMAIN choice THEN choice[t] ELSE Claim(b, t)
<1>3. /\ WellFormed(r) /\ c \in DOMAIN r.assess /\ s \in DOMAIN r.assess[c].claims
      /\ r.assess[c].status = b.assess[c].status /\ r.assess[c].claims[s] = new
  BY <1>1, RewrittenParts DEF Claim
<1> HIDE DEF r, new
<1>4. Normalized(r).assess[c].status = r.assess[c].status /\ Normalized(r).assess[c].claims[s] = r.assess[c].claims[s]
  BY <1>2, <1>3, NormalizedParts
<1>5. n = r \/ n = Normalized(r)
  BY DEF r
<1>6. QED BY <1>1, <1>3, <1>4, <1>5 DEF Claim, Status, new

(* The catalogue of a correction offers, for claims of the body it starts from,
   what was a candidate when the catalogue was made. *)
CatalogueFits ==
    /\ correction.made \in 0..Len(attempts)
    /\ \A t \in DOMAIN correction.catalogue :
          t \in Slots(body) /\ correction.catalogue[t] \subseteq Candidates(Status(body, t), SubSeq(attempts, 1, correction.made))

(* The inductive invariant. *)
GInv ==
    /\ attempts \in Seq(SUBSET Calls)
    /\ phase = "correcting" => WellFormed(body) /\ Owned(body) /\ CatalogueFits
    /\ PositiveIsProved
    /\ EvidenceFits
    /\ ValidatorsFit

(* The catalogue offers candidates, each for its own slot. *)
LEMMA OffersFit ==
    ASSUME NEW b, NEW chain, WellFormed(b), NEW slots \in SUBSET Slots(b), NEW k \in Catalogues(b, slots, chain)
    PROVE  \A t \in slots : k[t] \subseteq Candidates(Status(b, t), chain)
<1> DEFINE offers == [s \in {"satisfied", "blocked"} |-> Offers(s, chain)]
<1>1. k \in [slots -> offers["satisfied"] \cup offers["blocked"]] /\ \A t \in slots : k[t] \in offers[Status(b, t)]
  BY DEF Catalogues
<1>2. \A t \in slots : Status(b, t) \in {"satisfied", "blocked"}
  <2>1. SUFFICES ASSUME NEW t \in slots PROVE Status(b, t) \in {"satisfied", "blocked"}
    OBVIOUS
  <2>2. PICK c, s : c \in DOMAIN b.assess /\ s \in DOMAIN b.assess[c].claims /\ t = <<c, s>>
    BY DEF Slots
  <2>3. QED BY <2>2 DEF Status, WellFormed
<1>3. \A t \in slots : k[t] \in Offers(Status(b, t), chain)
  BY <1>1, <1>2
<1>4. QED BY <1>3 DEF Offers

(* A catalogue made of the whole chain fits the body it is made for. *)
LEMMA FreshCatalogue ==
    ASSUME NEW b, NEW chain \in Seq(SUBSET Calls), WellFormed(b), NEW slots \in SUBSET Slots(b), NEW k \in Catalogues(b, slots, chain),
           body' = b, attempts' = chain, correction'.catalogue = k, correction'.made = Len(chain)
    PROVE  CatalogueFits'
<1>1. \A t \in slots : k[t] \subseteq Candidates(Status(b, t), chain)
  BY OffersFit
<1>2. DOMAIN k = slots
  BY DEF Catalogues
<1>3. SubSeq(chain, 1, Len(chain)) = chain /\ Len(chain) \in 0..Len(chain)
  OBVIOUS
<1>4. QED BY <1>1, <1>2, <1>3 DEF CatalogueFits

(* _accept_completed_attempt establishes the invariant, whatever was there before. *)
LEMMA AcceptKeeps ==
    ASSUME NEW raw, WellFormed(raw), NEW chain \in Seq(SUBSET Calls), NEW first \in BOOLEAN,
           attempts' = chain, Examine(raw, chain, first)
    PROVE  GInv'
<1> DEFINE b == Normalized(raw)
           g == Grounded(b, chain)
<1>1. WellFormed(b) /\ Owned(b)
  BY NormalizedParts
<1> DEFINE Assembled(d) == /\ d.targets = {} /\ phase' = IF ReportRefusals(g) = {} THEN "assembled" ELSE "failed"
                           /\ report' = g /\ correction' = NoCorrection
           Correcting(d) == /\ phase' = "correcting" /\ report' = NoReport
                            /\ \E k \in Catalogues(b, d.targets \cap Slots(b), chain) :
                                  correction' = [targets |-> d.targets, issues |-> d.issues, catalogue |-> k, made |-> Len(chain)]
           Stopped == phase' = "failed" /\ report' = NoReport
<1>2. PICK d \in Diagnoses(b, g, chain) : body' = b /\ (Assembled(d) \/ Correcting(d) \/ Stopped)
  BY ZenonT(60) DEF Examine
<1> HIDE DEF b
<1>3. CASE Assembled(d)
  <2>1. GroundingErrors(b, chain) = {} /\ LateErrors(b, chain) = {} /\ ContextFailure(g) = {}
    BY <1>3, LetThrough
  <2>2. \A c \in Scope : g.assess[c].status = "satisfied" =>
             \A s \in {"main"} \cup Boundaries[c] :
                LET fragment == b.assess[c].claims[s]
                    cited == g.assess[c].cited[s]
                IN  /\ \/ \E r \in cited.tools :
                            IF r[2].kind = "probe" THEN r[2].framed /\ fragment \in r[2].stdout \cup r[2].joined
                            ELSE fragment \in Raw(r[2])
                       \/ cited.commands # {}
                    /\ \A r \in cited.tools : r[2].outcome = "succeeded" /\ r[2].exit = "zero"
                    /\ \A k \in cited.commands : ~k.failed
    BY <1>1, <1>3, ProvedWhenLetThrough
  <2>3. \A c \in DOMAIN g.assess : \A s \in DOMAIN g.assess[c].cited :
           LET cited == g.assess[c].cited[s]
           IN  \/ \E r \in cited.tools : Occurs(b.assess[c].claims[s], Surface(r[2], g.assess[c].status))
               \/ \E k \in cited.commands : Occurs(b.assess[c].claims[s], k.output)
    BY <1>1, <2>1, CitedWhenLetThrough
  <2>4. ReportRefusals(g) \subseteq {"finding ids", "critical", "terminal", "special"}
    BY <2>1, RefusedAlone
  <2>5. report' = g /\ phase' # "correcting"
    BY <1>3
  <2> HIDE DEF g
  <2>6. PositiveIsProved'
    BY <1>2, <2>2, <2>5 DEF PositiveIsProved
  <2>7. EvidenceFits'
    BY <1>2, <2>3, <2>5 DEF EvidenceFits
  <2>8. ValidatorsFit'
    BY <2>4, <2>5 DEF ValidatorsFit
  <2>9. QED BY <2>5, <2>6, <2>7, <2>8 DEF GInv
<1>4. CASE Correcting(d)
  <2>1. PICK k \in Catalogues(b, d.targets \cap Slots(b), chain) :
           correction' = [targets |-> d.targets, issues |-> d.issues, catalogue |-> k, made |-> Len(chain)]
    BY <1>4
  <2>2. correction'.catalogue = k /\ correction'.made = Len(chain)
    BY <2>1
  <2>3. CatalogueFits'
    BY <1>1, <1>2, <2>2, FreshCatalogue
  <2>4. QED BY <1>1, <1>2, <1>4, <2>3 DEF GInv, PositiveIsProved, EvidenceFits, ValidatorsFit
<1>5. CASE Stopped
  BY <1>5 DEF GInv, PositiveIsProved, EvidenceFits, ValidatorsFit
<1>6. QED BY <1>2, <1>3, <1>4, <1>5

(* The recovery of a submission keeps the catalogue of the slots it refused:
   the candidates of the attempts that catalogue was made from. *)
LEMMA RecoveryKeeps ==
    ASSUME GInv, phase = "correcting", NEW calls \in SUBSET Calls, NEW choice, NEW refused \in SUBSET DOMAIN correction.catalogue,
           attempts' = Append(attempts, calls), body' = Rewritten(body, choice),
           correction'.catalogue = [t \in refused |-> correction.catalogue[t]], correction'.made = correction.made,
           UNCHANGED <<phase, met, report>>
    PROVE  GInv'
<1>1. /\ attempts \in Seq(SUBSET Calls) /\ WellFormed(body) /\ Owned(body) /\ CatalogueFits
  BY DEF GInv
<1>2. correction.made \in 0..Len(attempts)
  BY <1>1 DEF CatalogueFits
<1>3. /\ attempts' \in Seq(SUBSET Calls) /\ correction.made \in 0..Len(attempts')
      /\ SubSeq(attempts', 1, correction.made) = SubSeq(attempts, 1, correction.made)
  BY <1>1, <1>2, AppendedPrefix
<1>4. WellFormed(body') /\ Slots(body') = Slots(body)
  BY <1>1, RewrittenParts
<1>5. Owned(body')
  BY <1>1, RewrittenParts DEF Owned
<1>6. \A t \in Slots(body) : Status(body', t) = Status(body, t)
  BY <1>1, ChosenClaims
<1>7. CatalogueFits'
  BY <1>1, <1>3, <1>4, <1>6 DEF CatalogueFits
<1>8. QED BY <1>3, <1>4, <1>5, <1>7 DEF GInv, PositiveIsProved, EvidenceFits, ValidatorsFit

(* Every step keeps the invariant. *)
LEMMA GInvStep ==
    GInv /\ [ReviewNext]_reviewVars => GInv'
<1> SUFFICES ASSUME GInv, [ReviewNext]_reviewVars PROVE GInv'
  OBVIOUS
<1>1. CASE UNCHANGED reviewVars
  <2>1. UNCHANGED <<attempts, phase, body, correction, met, report>>
    BY <1>1 DEF reviewVars
  <2>2. CatalogueFits => CatalogueFits'
    BY <2>1 DEF CatalogueFits
  <2>3. PositiveIsProved => PositiveIsProved'
    BY <2>1 DEF PositiveIsProved
  <2>4. EvidenceFits => EvidenceFits'
    BY <2>1 DEF EvidenceFits
  <2>5. ValidatorsFit => ValidatorsFit'
    BY <2>1 DEF ValidatorsFit
  <2>6. QED BY <2>1, <2>2, <2>3, <2>4, <2>5 DEF GInv
<1>2. ASSUME NEW calls \in ToolUse PROVE Append(attempts, calls) \in Seq(SUBSET Calls) /\ calls \in SUBSET Calls
  BY AppendProperties DEF GInv, ToolUse
<1>3. ASSUME NEW calls \in ToolUse, NEW raw \in Answers, Submit(raw, calls) PROVE GInv'
  <2>1. WellFormed(raw)
    BY GroundingAssumption
  <2>2. QED BY <1>2, <1>3, <2>1, AcceptKeeps DEF Submit
<1>4. ASSUME phase = "working", NEW calls \in ToolUse, Continue(calls) PROVE GInv'
  BY <1>2, <1>4 DEF Continue, GInv, PositiveIsProved, EvidenceFits, ValidatorsFit
<1>5. ASSUME phase = "correcting", NEW calls \in ToolUse, NEW choice \in Picks, CorrectLeaves(choice, calls) PROVE GInv'
  <2> DEFINE listed == Listed(choice)
             refused == DOMAIN choice \ listed
             chosen == [t \in listed |-> choice[t]]
  <2>1. refused \in SUBSET DOMAIN correction.catalogue
    BY DEF Picks
  <2>2. CASE refused = {}
    <3>1. WellFormed(Rewritten(body, chosen))
      BY <1>5, RewrittenParts DEF GInv
    <3>2. Examine(Rewritten(body, chosen), Append(attempts, calls), FALSE) /\ attempts' = Append(attempts, calls)
      BY <1>5, <2>2 DEF CorrectLeaves
    <3> HIDE DEF chosen
    <3>3. QED BY <1>2, <3>1, <3>2, AcceptKeeps
  <2>3. CASE refused # {}
    <3>1. /\ attempts' = Append(attempts, calls) /\ body' = Rewritten(body, chosen)
          /\ correction'.catalogue = [t \in refused |-> correction.catalogue[t]] /\ correction'.made = correction.made
          /\ UNCHANGED <<phase, met, report>>
      <4>1. /\ attempts' = Append(attempts, calls) /\ body' = Rewritten(body, chosen) /\ UNCHANGED <<phase, met, report>>
            /\ correction' = [targets |-> refused, issues |-> {<<t[1], t[2], "member">> : t \in refused},
                              catalogue |-> [t \in refused |-> correction.catalogue[t]], made |-> correction.made]
        BY <1>5, <2>3, Zenon DEF CorrectLeaves
      <4> HIDE DEF chosen, refused
      <4>2. QED BY <4>1
    <3> HIDE DEF chosen, refused
    <3>2. QED BY <1>2, <1>5, <2>1, <3>1, RecoveryKeeps
  <2>4. QED BY <2>2, <2>3
<1>6. ASSUME phase = "correcting", NEW calls \in ToolUse, NEW raw \in Rewrites, NEW fields, CorrectFields(raw, fields, calls) PROVE GInv'
  <2> DEFINE repeats == (body.repeats \ fields) \cup (raw.repeats \cap fields)
             new == [f \in DOMAIN body |-> IF f \in fields THEN raw[f] ELSE body[f]]
             r == [new EXCEPT !.repeats = repeats]
  <2>1. WellFormed(raw) /\ WellFormed(body)
    BY <1>6, GroundingAssumption DEF GInv
  <2>2. DOMAIN r = DOMAIN body /\ (r.assess = raw.assess \/ r.assess = body.assess)
    BY <2>1 DEF WellFormed
  <2>3. r.repeats = repeats /\ repeats \subseteq {"assess", "findings"}
    BY <2>1 DEF WellFormed
  <2>4. attempts' = Append(attempts, calls) /\ Examine(r, Append(attempts, calls), FALSE)
    BY <1>6 DEF CorrectFields
  <2> HIDE DEF r
  <2>5. WellFormed(r)
    BY <2>1, <2>2, <2>3 DEF WellFormed
  <2>6. QED BY <1>2, <2>4, <2>5, AcceptKeeps
<1>7. ASSUME NEW calls \in ToolUse, RefuseSubmission(calls), phase = "correcting" PROVE GInv'
  <2>1. phase' = "failed" /\ report' = NoReport /\ attempts' \in Seq(SUBSET Calls)
    BY <1>2, <1>7 DEF RefuseSubmission
  <2>2. QED BY <2>1 DEF GInv, PositiveIsProved, EvidenceFits, ValidatorsFit
<1>8. QED BY <1>1, <1>3, <1>4, <1>5, <1>6, <1>7 DEF ReviewNext

(* The invariant of the review chain. *)
THEOREM GroundingInvariant ==
    ReviewSpec => []GInv
<1>1. ReviewInit => GInv
  BY DEF ReviewInit, GInv, PositiveIsProved, EvidenceFits, ValidatorsFit, NoReport
<1>2. QED BY <1>1, GInvStep, PTL DEF ReviewSpec

(* A criterion that a persisted report calls satisfied was proved by a result or
   a command that ended well, and nothing cited for it failed: for every scope,
   every response, every tool result and every length of the chain. *)
THEOREM SatisfiedMeansProved ==
    ReviewSpec => []PositiveIsProved
<1>1. GInv => PositiveIsProved
  BY DEF GInv
<1>2. QED BY <1>1, GroundingInvariant, PTL

(* Every claim of a persisted report cites a result or a command it occurs in
   under the status the report gives it, whether the Reviewer or the controller
   chose that status and whatever texts the results are joined of; and the
   artifact model refuses of what the context checks let through only what it
   alone checks. *)
THEOREM ValidatorsAgree ==
    ReviewSpec => []AssemblyAgrees
<1>1. GInv => AssemblyAgrees
  BY DEF GInv, AssemblyAgrees
<1>2. QED BY <1>1, GroundingInvariant, PTL

(* One claim of a correction: a step of it leaves the claim or binds a handle,
   and the handle grounds unless one of the two reasons holds. *)
LEMMA OfferedClaim ==
    ASSUME GInv, ReviewNext, phase = "correcting", NEW t \in DOMAIN correction.catalogue
    PROVE  /\ Claim(body', t) \in {Claim(body, t)} \cup correction.catalogue[t]
           /\ Claim(body', t) \in correction.catalogue[t] =>
                 \/ ClaimError(Claim(body', t), Status(body', t), attempts') = "none"
                 \/ Status(body', t) = "satisfied" /\ Contaminated(Claim(body', t), correction.made, attempts')
                 \/ Status(body', t) = "blocked" /\ MadeByJoining(Claim(body', t), correction.made, attempts')
<1> DEFINE early == SubSeq(attempts, 1, correction.made)
<1>1. /\ attempts \in Seq(SUBSET Calls) /\ WellFormed(body) /\ Owned(body) /\ correction.made \in 0..Len(attempts)
      /\ t \in Slots(body) /\ correction.catalogue[t] \subseteq Candidates(Status(body, t), early)
  BY DEF GInv, CatalogueFits
<1>2. PICK calls \in ToolUse :
        \/ \E choice \in Picks : CorrectLeaves(choice, calls)
        \/ \E raw \in Rewrites, fields \in SUBSET {u[2] : u \in correction.targets} : CorrectFields(raw, fields, calls)
        \/ RefuseSubmission(calls)
  BY DEF ReviewNext
<1>3. ~ \E raw \in Rewrites, fields \in SUBSET {u[2] : u \in correction.targets} : CorrectFields(raw, fields, calls)
  <2>1. correction.catalogue # << >>
    OBVIOUS
  <2>2. QED BY <2>1 DEF CorrectFields
<1>4. attempts' = Append(attempts, calls) /\ calls \in SUBSET Calls
  BY <1>2, <1>3 DEF CorrectLeaves, RefuseSubmission, ToolUse
<1>5. Claim(body', t) \in {Claim(body, t)} \cup correction.catalogue[t] /\ Status(body', t) = Status(body, t)
  <2>1. CASE RefuseSubmission(calls)
    BY <2>1 DEF RefuseSubmission
  <2>2. ASSUME NEW choice \in Picks, CorrectLeaves(choice, calls)
        PROVE  Claim(body', t) \in {Claim(body, t)} \cup correction.catalogue[t] /\ Status(body', t) = Status(body, t)
    <3> DEFINE chosen == [u \in Listed(choice) |-> choice[u]]
    <3>1. body' = Rewritten(body, chosen) \/ body' = Normalized(Rewritten(body, chosen))
      BY <2>2 DEF CorrectLeaves, Examine
    <3>2. t \in DOMAIN chosen => chosen[t] \in correction.catalogue[t]
      BY DEF Listed
    <3> HIDE DEF chosen
    <3>3. QED BY <1>1, <3>1, <3>2, ChosenClaims
  <2>3. QED BY <1>2, <1>3, <2>1, <2>2
<1>6. Status(body, t) \in {"satisfied", "blocked"}
  <2>1. PICK c, s : c \in DOMAIN body.assess /\ s \in DOMAIN body.assess[c].claims /\ t = <<c, s>>
    BY <1>1 DEF Slots
  <2>2. QED BY <1>1, <2>1 DEF Status, WellFormed
<1>7. /\ attempts' \in Seq(SUBSET Calls) /\ correction.made \in 0..Len(attempts')
      /\ SubSeq(attempts', 1, correction.made) = early
  BY <1>1, <1>4, AppendedPrefix
<1> HIDE DEF early
<1>8. QED BY <1>1, <1>5, <1>6, <1>7, OfferStands

(* A correction gets no text of the Reviewer's own into a claim, and a handle of
   its catalogue is refused only because of a failed result recorded since the
   catalogue was made, or because the catalogue joined the text of a blocked
   claim itself: over any number of partial submissions and recoveries. *)
THEOREM OffersAreAccepted ==
    ReviewSpec => CatalogueGrounds
<1>1. GInv /\ [ReviewNext]_reviewVars =>
        [phase = "correcting" => \A t \in DOMAIN correction.catalogue :
            /\ Claim(body', t) \in {Claim(body, t)} \cup correction.catalogue[t]
            /\ Claim(body', t) \in correction.catalogue[t] =>
                  \/ ClaimError(Claim(body', t), Status(body', t), attempts') = "none"
                  \/ Status(body', t) = "satisfied" /\ Contaminated(Claim(body', t), correction.made, attempts')
                  \/ Status(body', t) = "blocked" /\ MadeByJoining(Claim(body', t), correction.made, attempts')]_reviewVars
  BY OfferedClaim
<1>2. QED BY <1>1, GroundingInvariant, PTL DEF ReviewSpec, CatalogueGrounds

=============================================================================
