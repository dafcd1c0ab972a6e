--------------------------- MODULE WorkflowProofs ---------------------------
(***************************************************************************)
(* What a run leaves on disk, whenever its process dies, and what it never *)
(* trips over: for any team, either coordinator, and any number of I/O     *)
(* errors.                                                                 *)
(***************************************************************************)
EXTENDS FixedWorkflow, TLAPS, SequenceTheorems

(***************************************************************************)
(* The inductive invariant.                                                *)
(***************************************************************************)

IsScript(s) == s \in Seq({s[i] : i \in 1..Len(s)})
IsRecord(r) == r \in [phase : {r.phase}, source : {r.source}, revision : Nat, iteration : {r.iteration},
                      workspace : {r.workspace}, snaps : {r.snaps}, events : Nat, refs : {r.refs},
                      reason : {r.reason}]
IsHold(h) == h \in [at : {"start", "read", "written", "loaded", "moving", "linking"}, rec : {h.rec}]

(* The shape of the state. *)
Shaped ==
    /\ IsRecord(rec) /\ journal \in Seq(Nat) /\ faults \in Seq(FaultKinds)
    /\ DOMAIN todo = Threads /\ DOMAIN hold = Threads /\ DOMAIN raised = Threads
    /\ DOMAIN agent = Agents
    /\ \A t \in Threads : IsScript(todo[t]) /\ IsHold(hold[t])

(* A thread is inside an operation only if it has one, and inside the journal
   only if it holds the journal's lock. *)
ThreadsInStep ==
    /\ \A t \in Threads : todo[t] = <<>> => hold[t].at = "start"
    /\ \A t \in Threads : hold[t].at \in {"read", "written", "loaded"} => Head(todo[t]).op = "emit"
    /\ \A t \in Threads : hold[t].at \in {"written", "loaded"} <=> jlock = t

(* Every event carries a revision the record has had, and what a thread is
   about to write is the revision the record has. *)
RevisionsInOrder ==
    /\ \A i \in 1..Len(journal) : journal[i] <= rec.revision
    /\ Readable(journal)
    /\ \A t \in Threads : hold[t].at = "read" => hold[t].rec.revision = rec.revision

(* The distance between the journal and the record. *)
HeadAnchored ==
    LET ahead == Len(journal) - rec.events
    IN  /\ jlock # "free" => ahead = 1
        /\ jlock = "free" => ahead \in {-1, 0, 1}
        /\ jlock = "free" /\ ~Torn => ahead = 0

StoreInv == ThreadsInStep /\ RevisionsInOrder /\ HeadAnchored

(* A script that leaves the lifecycle alone; one whose last transition is to
   "verifying". *)
Transition(op) == op.op \in {"move", "bind"}
MoveFree(s) == \A i \in 1..Len(s) : ~Transition(s[i])
EndsVerifying(s) ==
    \E i \in 1..Len(s) : /\ s[i].op = "move" /\ s[i].to = "verifying"
                         /\ \A j \in i + 1..Len(s) : ~Transition(s[j])

Running(a) == agent[a] = "running"
Calm == \A a \in Agents : todo[a] = <<>>

(* The adaptive coordinator: its threads run while it schedules, and the first
   quality Agent waits for the snapshot. *)
ScheduleInv ==
    /\ pc \in {"boot", "revise", "schedule", "submit", "scheduled", "decide", "act", "ending", "handling"}
    /\ \A a \in Agents \ Dynamic : ~Running(a)
    /\ pc \notin {"schedule", "submit", "handling"} => \A a \in Agents : ~Running(a)
    /\ pc = "handling" => Calm
    /\ pc = "schedule" => MoveFree(todo[Coord])
    /\ pc = "submit" =>
        /\ starting \in Dynamic /\ ~Running(starting)
        /\ MoveFree(todo[Coord]) \/ \A a \in Agents : ~Running(a)
        /\ raised[Coord] = "none" /\ starting \notin WriterSet =>
              (rec.phase = "verifying" /\ MoveFree(todo[Coord])) \/ EndsVerifying(todo[Coord])
    /\ pc \in {"schedule", "submit"} =>
        \A q \in Testers \cup Reviewers : Running(q) => rec.phase = "verifying"

(* The fixed coordinator: it waits for the threads it called. *)
Called ==
    CASE pc = "planned" -> {"planner"} [] pc = "implemented" -> {"developer"}
      [] pc = "tested" -> {"tester"} [] pc = "verified" -> {"tester", "reviewer"} [] OTHER -> {}
CallInv ==
    \A a \in Agents : Running(a) => a \in Called /\ todo[Coord] = <<>> /\ raised[Coord] = "none"

WorkflowInv ==
    /\ \A a \in Agents : todo[a] # <<>> => Running(a)
    /\ IF mode = "dynamic" THEN ScheduleInv ELSE CallInv

IInv == Shaped /\ StoreInv /\ WorkflowInv

(* An error leaves the coordinator nothing more to do in its script. *)
ErrorStops == raised[Coord] # "none" => todo[Coord] = <<>>

-----------------------------------------------------------------------------
(* Scripts *)

(* A sequence is one of its own elements, and of every set that has them. *)
LEMMA SeqOf ==
    ASSUME NEW S, NEW R, NEW s \in Seq(S), \A i \in 1..Len(s) : s[i] \in R
    PROVE  s \in Seq(R)
  <1>1. SubSeq(s, 1, Len(s)) \in Seq(R)
    BY SubSeqProperties, LenProperties
  <1>2. QED BY <1>1, SubSeqFull

(* The scripts that the coordinators write down are scripts. *)
LEMMA Scripts ==
    ASSUME NEW a, NEW b, NEW c, NEW d, NEW e
    PROVE  /\ IsScript(<<>>) /\ IsScript(<<a>>) /\ IsScript(<<a, b>>) /\ IsScript(<<a, b, c>>)
           /\ IsScript(<<a, b, c, d>>) /\ IsScript(<<a, b, c, d, e>>)
  BY DEF IsScript

LEMMA ScriptConcat ==
    ASSUME NEW s, NEW r, IsScript(s), IsScript(r)
    PROVE  IsScript(s \o r)
  <1> DEFINE S == {s[i] : i \in 1..Len(s)} \cup {r[i] : i \in 1..Len(r)}
             T == {(s \o r)[i] : i \in 1..Len(s \o r)}
  <1>1. /\ \A i \in 1..Len(s) : s[i] \in S
        /\ \A i \in 1..Len(r) : r[i] \in S
        /\ \A i \in 1..Len(s \o r) : (s \o r)[i] \in T
    OBVIOUS
  <1> HIDE DEF S, T
  <1>2. s \in Seq(S) /\ r \in Seq(S)
    BY <1>1, SeqOf DEF IsScript
  <1>3. s \o r \in Seq(S)
    BY <1>2, ConcatProperties
  <1>4. s \o r \in Seq(T)
    BY <1>1, <1>3, SeqOf
  <1>5. QED BY <1>4 DEF IsScript, T

(* What is left of a script after its first operation. *)
LEMMA ScriptTail ==
    ASSUME NEW s, IsScript(s), s # <<>>
    PROVE  /\ Len(s) \in Nat \ {0} /\ Head(s) = s[1]
           /\ IsScript(Tail(s)) /\ Len(Tail(s)) = Len(s) - 1
           /\ \A i \in 1..Len(Tail(s)) : Tail(s)[i] = s[i + 1]
  <1> DEFINE S == {s[i] : i \in 1..Len(s)}
  <1>1. s \in Seq(S)
    BY DEF IsScript
  <1>2. /\ Tail(s) \in Seq(S) /\ Len(Tail(s)) = Len(s) - 1 /\ Len(s) \in Nat
        /\ \A i \in 1..Len(Tail(s)) : Tail(s)[i] = s[i + 1]
    BY <1>1, HeadTailProperties, LenProperties
  <1>3. Len(s) # 0
    BY <1>1, EmptySeq
  <1>4. Tail(s) \in Seq({Tail(s)[i] : i \in 1..Len(Tail(s))})
    <2> DEFINE R == {Tail(s)[i] : i \in 1..Len(Tail(s))}
    <2>1. \A i \in 1..Len(Tail(s)) : Tail(s)[i] \in R
      OBVIOUS
    <2> HIDE DEF R
    <2>2. Tail(s) \in Seq(R)
      BY <1>2, <2>1, SeqOf
    <2>3. QED BY <2>2 DEF R
  <1>5. QED BY <1>1, <1>2, <1>3, <1>4 DEF IsScript

(* A shorter script has no other transitions. *)
LEMMA MoveFreeTail ==
    ASSUME NEW s, IsScript(s), s # <<>>
    PROVE  /\ MoveFree(s) => MoveFree(Tail(s)) /\ ~Transition(Head(s))
           /\ EndsVerifying(s) /\ ~Transition(Head(s)) => EndsVerifying(Tail(s))
           /\ EndsVerifying(s) =>
                 \/ EndsVerifying(Tail(s))
                 \/ Head(s).to = "verifying" /\ MoveFree(Tail(s))
  <1> DEFINE r == Tail(s)
  <1>1. /\ Len(s) \in Nat \ {0} /\ Head(s) = s[1] /\ Len(r) = Len(s) - 1
        /\ \A i \in 1..Len(r) : r[i] = s[i + 1]
    BY ScriptTail
  <1>2. ASSUME MoveFree(s) PROVE MoveFree(r) /\ ~Transition(Head(s))
    BY <1>1, <1>2 DEF MoveFree
  <1>3. ASSUME EndsVerifying(s)
        PROVE  EndsVerifying(r) \/ (Head(s).to = "verifying" /\ Transition(Head(s)) /\ MoveFree(r))
    <2>1. PICK i \in 1..Len(s) : /\ s[i].op = "move" /\ s[i].to = "verifying"
                                 /\ \A j \in i + 1..Len(s) : ~Transition(s[j])
      BY <1>3 DEF EndsVerifying
    <2>2. CASE i = 1
      BY <1>1, <2>1, <2>2 DEF MoveFree, Transition
    <2>3. CASE i # 1
      <3>1. i - 1 \in 1..Len(r) /\ r[i - 1] = s[i]
        BY <1>1, <2>3
      <3>2. \A j \in (i - 1) + 1..Len(r) : ~Transition(r[j])
        BY <1>1, <2>1, <2>3
      <3>3. QED BY <2>1, <3>1, <3>2 DEF EndsVerifying
    <2>4. QED BY <2>2, <2>3
  <1>4. QED BY <1>2, <1>3

-----------------------------------------------------------------------------
(* The effect of an operation on the threads *)

(* Only thread t goes on. *)
OnlyThread(t) ==
    /\ DOMAIN todo' = Threads /\ DOMAIN hold' = Threads /\ DOMAIN raised' = Threads
    /\ \A u \in Threads \ {t} : todo'[u] = todo[u] /\ hold'[u] = hold[u] /\ raised'[u] = raised[u]
    /\ todo[t] # <<>>

Stays(t) == OnlyThread(t) /\ todo'[t] = todo[t] /\ raised'[t] = raised[t] /\ IsHold(hold'[t])
Finishes(t) ==
    OnlyThread(t) /\ todo'[t] = Tail(todo[t]) /\ raised'[t] = raised[t] /\ hold'[t] = Free
Raises(t) == OnlyThread(t) /\ todo'[t] = <<>> /\ raised'[t] # "none" /\ hold'[t] = Free

(* The parts of an operation have these effects. *)
LEMMA Effects ==
    ASSUME Shaped, NEW t \in Threads, todo[t] # <<>>
    PROVE  /\ Finish(t) => Finishes(t)
           /\ \A why : why # "none" /\ Raise(t, why) => Raises(t)
           /\ \A h : IsHold(h) /\ hold' = [hold EXCEPT ![t] = h] /\ UNCHANGED <<todo, raised>>
                        => Stays(t) /\ hold'[t] = h
  BY DEF Shaped, Finish, Raise, Finishes, Raises, Stays, OnlyThread

LEMMA Holds ==
    /\ IsHold(Free) /\ Free.at = "start"
    /\ \A r, p : p \in {"read", "loaded", "moving"} =>
          /\ IsHold([at |-> p, rec |-> r])
          /\ [at |-> p, rec |-> r].at = p /\ [at |-> p, rec |-> r].rec = r
    /\ \A h : IsHold(h) => /\ IsHold([h EXCEPT !.at = "written"]) /\ [h EXCEPT !.at = "written"].at = "written"
                           /\ IsHold([h EXCEPT !.at = "linking"]) /\ [h EXCEPT !.at = "linking"].at = "linking"
  BY DEF IsHold, Free

(* An operation keeps the shape of the threads. *)
LEMMA ThreadsShaped ==
    ASSUME Shaped, NEW t \in Threads, Stays(t) \/ Finishes(t) \/ Raises(t)
    PROVE  /\ DOMAIN todo' = Threads /\ DOMAIN hold' = Threads /\ DOMAIN raised' = Threads
           /\ \A u \in Threads : IsScript(todo'[u]) /\ IsHold(hold'[u])
  <1>1. IsScript(todo'[t]) /\ IsHold(hold'[t])
    <2>1. IsScript(todo[t]) /\ IsHold(hold[t]) /\ IsHold(Free) /\ IsScript(<<>>)
      BY Scripts, Holds DEF Shaped
    <2>2. todo[t] # <<>> => IsScript(Tail(todo[t]))
      BY <2>1, ScriptTail
    <2>3. QED BY <2>1, <2>2 DEF Stays, Finishes, Raises, OnlyThread
  <1>2. QED BY <1>1 DEF Shaped, Stays, Finishes, Raises, OnlyThread

(* The lifecycle moves only by a transition the coordinator performs. *)
PhaseStep(t) ==
    \/ rec'.phase = rec.phase /\ (Stays(t) \/ Raises(t) \/ ~Transition(Head(todo[t])))
    \/ /\ t = Coord /\ Transition(Head(todo[Coord]))
       /\ Raises(t) \/ (Finishes(t) /\ rec'.phase = Head(todo[Coord]).to)

(* An operation of one thread keeps the order of the workflow. *)
LEMMA OperationKeepsWorkflow ==
    ASSUME Shaped, WorkflowInv, NEW t \in Threads, Stays(t) \/ Finishes(t) \/ Raises(t),
           PhaseStep(t), UNCHANGED <<pc, agent, starting, mode>>
    PROVE  WorkflowInv'
  <1> DEFINE s == todo[Coord]
             z == todo'[Coord]
  <1>1. \A a \in Agents : todo'[a] # <<>> => todo[a] # <<>>
    BY DEF Stays, Finishes, Raises, OnlyThread, Threads
  <1>2. Coord \in Threads /\ IsScript(s)
    BY DEF Shaped, Threads
  <1>3. \/ /\ z = s /\ raised'[Coord] = raised[Coord]
           /\ rec'.phase = rec.phase \/ (s # <<>> /\ Transition(Head(s)))
        \/ /\ s # <<>> /\ z = Tail(s) /\ raised'[Coord] = raised[Coord]
           /\ \/ rec'.phase = rec.phase /\ ~Transition(Head(s))
              \/ rec'.phase = Head(s).to /\ Transition(Head(s))
        \/ s # <<>> /\ z = <<>> /\ raised'[Coord] # "none" /\ (rec'.phase = rec.phase \/ Transition(Head(s)))
    BY <1>2 DEF Stays, Finishes, Raises, OnlyThread, PhaseStep
  <1>4. /\ MoveFree(<<>>)
        /\ s # <<>> => /\ MoveFree(s) => MoveFree(Tail(s)) /\ ~Transition(Head(s))
                       /\ EndsVerifying(s) /\ ~Transition(Head(s)) => EndsVerifying(Tail(s))
                       /\ EndsVerifying(s) => \/ EndsVerifying(Tail(s))
                                              \/ Head(s).to = "verifying" /\ MoveFree(Tail(s))
    <2>1. MoveFree(<<>>)
      BY DEF MoveFree
    <2>2. QED BY <1>2, <2>1, MoveFreeTail
  <1>5. CASE mode = "dynamic"
    <2>1. ScheduleInv
      BY <1>5 DEF WorkflowInv
    <2>2. pc' = "handling" => Calm'
      BY <1>1, <2>1 DEF ScheduleInv, Calm
    <2>3. pc' = "schedule" => MoveFree(z)
      BY <1>3, <1>4, <2>1 DEF ScheduleInv
    <2>4. ASSUME pc' = "submit" PROVE MoveFree(z) \/ \A a \in Agents : ~Running(a)
      BY <1>3, <1>4, <2>1, <2>4 DEF ScheduleInv
    <2>5. ASSUME pc' = "submit", raised'[Coord] = "none", starting \notin WriterSet
          PROVE  (rec'.phase = "verifying" /\ MoveFree(z)) \/ EndsVerifying(z)
      BY <1>3, <1>4, <2>1, <2>5 DEF ScheduleInv
    <2>6. ASSUME pc' \in {"schedule", "submit"}, NEW q \in Testers \cup Reviewers, Running(q)
          PROVE  rec'.phase = "verifying"
      <3>1. q \in Agents
        BY TeamAssumption DEF Dynamic
      <3>2. QED BY <1>3, <1>4, <2>1, <2>6, <3>1 DEF ScheduleInv
    <2>7. QED BY <1>1, <1>5, <2>1, <2>2, <2>3, <2>4, <2>5, <2>6 DEF WorkflowInv, ScheduleInv, Running
  <1>6. CASE mode # "dynamic"
    BY <1>1, <1>3, <1>6 DEF WorkflowInv, CallInv, Running, Called
  <1>7. QED BY <1>5, <1>6

-----------------------------------------------------------------------------
(* The effect of an operation on the stores *)

Late(f) == \E i \in DOMAIN f : f[i] = "late"

(* Late errors are remembered. *)
LEMMA FaultRemembered ==
    ASSUME NEW f \in Seq(FaultKinds), NEW kind \in FaultKinds
    PROVE  /\ Append(f, kind) \in Seq(FaultKinds) /\ (Late(f) => Late(Append(f, kind)))
           /\ kind = "late" => Late(Append(f, kind))
  <1> DEFINE g == Append(f, kind)
  <1>1. /\ g \in Seq(FaultKinds) /\ Len(g) = Len(f) + 1 /\ Len(f) \in Nat
        /\ \A i \in 1..Len(f) : g[i] = f[i]
        /\ g[Len(f) + 1] = kind
    BY AppendProperties, LenProperties
  <1>2. DOMAIN f = 1..Len(f) /\ DOMAIN g = 1..Len(g)
    BY <1>1, LenProperties
  <1> HIDE DEF g
  <1>3. g \in Seq(FaultKinds) /\ (Late(f) => Late(g)) /\ (kind = "late" => Late(g))
    BY <1>1, <1>2 DEF Late
  <1>4. QED BY <1>3 DEF g

(* What every operation of a thread establishes. *)
Performed(t) ==
    /\ Stays(t) \/ Finishes(t) \/ Raises(t)
    /\ PhaseStep(t)
    /\ IsRecord(rec') /\ journal' \in Seq(Nat) /\ faults' \in Seq(FaultKinds)
    /\ StoreInv'

(* An operation outside the journal, by a thread that does not hold its lock. *)
LEMMA OutsideJournal ==
    ASSUME Shaped, StoreInv, NEW t \in Threads, UNCHANGED <<rec, journal, jlock>>,
           \/ UNCHANGED faults
           \/ \E kind \in FaultKinds : faults' = Append(faults, kind),
           \/ Stays(t) /\ hold'[t].at \in {"moving", "linking"}
           \/ Stays(t) /\ hold'[t].at = "read" /\ hold'[t].rec = rec /\ Head(todo[t]).op = "emit"
           \/ Finishes(t) /\ ~Transition(Head(todo[t]))
           \/ Raises(t),
           hold[t].at \notin {"written", "loaded"}
    PROVE  Performed(t)
  <1>1. faults' \in Seq(FaultKinds) /\ (Torn => Torn')
    BY FaultRemembered DEF Shaped, Torn, Late
  <1>2. hold'[t].at \in {"start", "read", "moving", "linking"} /\ OnlyThread(t)
    BY Holds DEF Stays, Finishes, Raises
  <1>3. jlock # t
    BY DEF StoreInv, ThreadsInStep
  <1>4. ThreadsInStep'
    <2> SUFFICES ASSUME NEW u \in Threads
                 PROVE  /\ todo'[u] = <<>> => hold'[u].at = "start"
                        /\ hold'[u].at \in {"read", "written", "loaded"} => Head(todo'[u]).op = "emit"
                        /\ hold'[u].at \in {"written", "loaded"} <=> jlock' = u
      BY DEF ThreadsInStep
    <2>1. CASE u # t
      BY <1>2, <2>1 DEF StoreInv, ThreadsInStep, OnlyThread
    <2>2. CASE u = t
      BY <1>2, <1>3, <2>2, Holds DEF Stays, Finishes, Raises, OnlyThread
    <2>3. QED BY <2>1, <2>2
  <1>5. RevisionsInOrder'
    <2>1. \A u \in Threads : hold'[u].at = "read" => hold'[u].rec.revision = rec'.revision
      BY <1>2, Holds DEF StoreInv, RevisionsInOrder, OnlyThread, Stays, Finishes, Raises
    <2>2. QED BY <2>1 DEF StoreInv, RevisionsInOrder, Readable
  <1>6. HeadAnchored'
    BY <1>1 DEF StoreInv, HeadAnchored
  <1>7. PhaseStep(t)
    BY DEF PhaseStep, Stays, Finishes, Raises
  <1>8. QED BY <1>1, <1>4, <1>5, <1>6, <1>7 DEF Performed, StoreInv, Shaped

(* The operations of scripts that are not about the journal. *)
LEMMA PlainOperations ==
    ASSUME Shaped, StoreInv, NEW t \in Threads,
           ArtifactWrite(t) \/ OutsideWork(t) \/ Reserve(t) \/ Settle(t)
    PROVE  Performed(t)
  <1>1. /\ todo[t] # <<>> /\ Head(todo[t]).op \in {"artifact", "iteration", "prepare", "gate", "reserve", "settle"}
        /\ Finish(t) \/ Raise(t, "refused") \/ Raise(t, "fault")
        /\ UNCHANGED <<rec, journal, jlock>>
    BY DEF ArtifactWrite, OutsideWork, Reserve, Settle, Doing
  <1>2. UNCHANGED faults \/ \E kind \in FaultKinds : faults' = Append(faults, kind)
    BY DEF ArtifactWrite, OutsideWork, Reserve, Settle, Fault
  <1>3. Finishes(t) \/ Raises(t)
    BY <1>1, Effects
  <1>4. hold[t].at \notin {"written", "loaded"}
    BY <1>1 DEF StoreInv, ThreadsInStep
  <1>5. ~Transition(Head(todo[t]))
    BY <1>1 DEF Transition
  <1>6. QED BY <1>1, <1>2, <1>3, <1>4, <1>5, OutsideJournal

(* Settling and linking the terminal files. *)
LEMMA BundleOperations ==
    ASSUME Shaped, StoreInv, BundleBegin \/ BundleLink
    PROVE  Performed(Coord)
  <1>0. Coord \in Threads
    BY DEF Threads
  <1>1. /\ todo[Coord] # <<>> /\ Head(todo[Coord]).op = "bundle"
        /\ UNCHANGED <<rec, journal, jlock>>
    BY DEF BundleBegin, BundleLink, Doing
  <1>2. UNCHANGED faults \/ \E kind \in FaultKinds : faults' = Append(faults, kind)
    BY DEF BundleBegin, BundleLink, Fault
  <1>3. \/ Finishes(Coord) \/ Raises(Coord)
        \/ Stays(Coord) /\ hold'[Coord].at = "linking"
    <2>1. CASE Finish(Coord) \/ Raise(Coord, "refused") \/ Raise(Coord, "fault")
      BY <1>0, <1>1, <2>1, Effects
    <2>2. CASE hold' = [hold EXCEPT ![Coord].at = "linking"] /\ UNCHANGED <<todo, raised>>
      <3> DEFINE h == [hold[Coord] EXCEPT !.at = "linking"]
      <3>1. IsHold(h) /\ h.at = "linking"
        BY <1>0, Holds DEF Shaped
      <3>2. hold' = [hold EXCEPT ![Coord] = h]
        BY <2>2
      <3>3. QED BY <1>0, <1>1, <2>2, <3>1, <3>2, Effects
    <2>3. CASE UNCHANGED <<todo, hold, raised>> /\ At(Coord, "linking")
      BY <1>0, <1>1, <2>3 DEF Stays, OnlyThread, Shaped, At
    <2>4. QED BY <2>1, <2>2, <2>3 DEF BundleBegin, BundleLink
  <1>4. hold[Coord].at \notin {"written", "loaded"}
    BY <1>0, <1>1 DEF StoreInv, ThreadsInStep
  <1>5. ~Transition(Head(todo[Coord]))
    BY <1>1 DEF Transition
  <1>6. QED BY <1>0, <1>1, <1>2, <1>3, <1>4, <1>5, OutsideJournal

(* A transition raises nothing but "refused" and "fault", and leaves the journal. *)
LEMMA UnbindRaises ==
    ASSUME Shaped, todo[Coord] # <<>>, NEW why \in {"refused", "fault"}, NEW f, Unbind(why, f)
    PROVE  Raises(Coord) /\ (faults' = f \/ ("early" \in FaultKinds /\ faults' = Append(f, "early")))
  BY Effects DEF Unbind, Threads

(* The coordinator reads the record it is about to replace. *)
LEMMA MoveLoadOperation ==
    ASSUME Shaped, StoreInv, MoveLoad
    PROVE  Performed(Coord)
  <1>0. Coord \in Threads
    BY DEF Threads
  <1>1. /\ todo[Coord] # <<>> /\ Head(todo[Coord]).op \in {"move", "bind"}
        /\ UNCHANGED <<rec, journal, jlock>> /\ hold[Coord].at = "start"
    BY DEF MoveLoad, Moving, Doing, At
  <1>2. CASE Unbind("refused", faults)
    <2>1. Raises(Coord) /\ (UNCHANGED faults \/ \E kind \in FaultKinds : faults' = Append(faults, kind))
      BY <1>1, <1>2, UnbindRaises
    <2>2. QED BY <1>0, <1>1, <2>1, OutsideJournal
  <1>3. CASE /\ hold' = [hold EXCEPT ![Coord] = [at |-> "moving", rec |-> rec]]
             /\ UNCHANGED <<todo, raised, bundle, faults>>
    <2> DEFINE h == [at |-> "moving", rec |-> rec]
    <2>0. IsHold(h) /\ h.at = "moving"
      BY Holds
    <2> HIDE DEF h
    <2>1. Stays(Coord) /\ hold'[Coord].at = "moving"
      BY <1>0, <1>1, <1>3, <2>0, Effects DEF h
    <2>2. QED BY <1>0, <1>1, <1>3, <2>1, OutsideJournal
  <1>4. QED BY <1>2, <1>3 DEF MoveLoad

(* While the coordinator performs a transition no other thread is at work. *)
LEMMA TransitionsAlone ==
    ASSUME Shaped, WorkflowInv, todo[Coord] # <<>>, Transition(Head(todo[Coord]))
    PROVE  Calm
  <1>1. ~MoveFree(todo[Coord])
    <2>1. Len(todo[Coord]) \in Nat \ {0} /\ Head(todo[Coord]) = todo[Coord][1]
      BY ScriptTail DEF Shaped, Threads
    <2>2. QED BY <2>1 DEF MoveFree
  <1>2. QED BY <1>1 DEF WorkflowInv, ScheduleInv, CallInv, Calm

(* A record with one field replaced. *)
LEMMA FieldReplaced ==
    ASSUME NEW r, IsRecord(r), NEW v
    PROVE  /\ IsRecord([r EXCEPT !.phase = v]) /\ IsRecord([r EXCEPT !.source = v])
           /\ IsRecord([r EXCEPT !.revision = @ + 1]) /\ IsRecord([r EXCEPT !.iteration = v])
           /\ IsRecord([r EXCEPT !.workspace = v]) /\ IsRecord([r EXCEPT !.snaps = v])
           /\ IsRecord([r EXCEPT !.refs = v]) /\ IsRecord([r EXCEPT !.reason = v])
  BY DEF IsRecord

(* A transition: the next revision, in the phase of its operation, with the
   events the record had. *)
LEMMA MovedRecord ==
    ASSUME NEW r, IsRecord(r), NEW op
    PROVE  /\ IsRecord(Moved(r, op)) /\ Moved(r, op).revision = r.revision + 1
           /\ Moved(r, op).events = r.events /\ Moved(r, op).phase = op.to
  <1> DEFINE r1 == [r EXCEPT !.phase = op.to]
             r2 == [r1 EXCEPT !.source = r.phase]
             r3 == [r2 EXCEPT !.revision = @ + 1]
             r4 == [r3 EXCEPT !.iteration = IF r.phase = "deciding" /\ op.to = "implementing"
                                            THEN @ + 1 ELSE @]
             r5 == [r4 EXCEPT !.workspace = @ \/ op.to = "planning"]
             r6 == [r5 EXCEPT !.snaps = IF op.to = "verifying" THEN @ + 1 ELSE @]
             r7 == [r6 EXCEPT !.refs = @ \cup op.refs]
             r8 == [r7 EXCEPT !.reason = op.reason]
  <1>1. Moved(r, op) = r8
    BY DEF Moved
  <1>2. IsRecord(r1) /\ r1.phase = op.to /\ r1.events = r.events /\ r1.revision = r.revision
    BY FieldReplaced DEF IsRecord
  <1> HIDE DEF r1
  <1>3. IsRecord(r2) /\ r2.phase = op.to /\ r2.events = r.events /\ r2.revision = r.revision
    BY <1>2, FieldReplaced DEF IsRecord
  <1> HIDE DEF r2
  <1>4. IsRecord(r3) /\ r3.phase = op.to /\ r3.events = r.events /\ r3.revision = r.revision + 1
    BY <1>3, FieldReplaced DEF IsRecord
  <1> HIDE DEF r3
  <1>5. IsRecord(r4) /\ r4.phase = op.to /\ r4.events = r.events /\ r4.revision = r.revision + 1
    BY <1>4, FieldReplaced DEF IsRecord
  <1> HIDE DEF r4
  <1>6. IsRecord(r5) /\ r5.phase = op.to /\ r5.events = r.events /\ r5.revision = r.revision + 1
    BY <1>5, FieldReplaced DEF IsRecord
  <1> HIDE DEF r5
  <1>7. IsRecord(r6) /\ r6.phase = op.to /\ r6.events = r.events /\ r6.revision = r.revision + 1
    BY <1>6, FieldReplaced DEF IsRecord
  <1> HIDE DEF r6
  <1>8. IsRecord(r7) /\ r7.phase = op.to /\ r7.events = r.events /\ r7.revision = r.revision + 1
    BY <1>7, FieldReplaced DEF IsRecord
  <1> HIDE DEF r7
  <1>9. IsRecord(r8) /\ r8.phase = op.to /\ r8.events = r.events /\ r8.revision = r.revision + 1
    BY <1>8, FieldReplaced DEF IsRecord
  <1>10. QED BY <1>1, <1>9

(* An anchored event changes nothing but the head. *)
LEMMA AnchoredRecord ==
    ASSUME NEW r, IsRecord(r)
    PROVE  LET n == [r EXCEPT !.events = @ + 1] IN
           /\ IsRecord(n) /\ n.events = r.events + 1 /\ n.revision = r.revision /\ n.phase = r.phase
  BY DEF IsRecord

(* The record is replaced, or the transition raises; an error after the file
   was in place does both. *)
LEMMA MoveReplaceOperation ==
    ASSUME Shaped, StoreInv, WorkflowInv, MoveReplace
    PROVE  Performed(Coord)
  <1> DEFINE op == Head(todo[Coord])
  <1>0. Coord \in Threads
    BY DEF Threads
  <1>1. /\ todo[Coord] # <<>> /\ op.op \in {"move", "bind"} /\ Transition(op)
        /\ UNCHANGED <<journal, jlock>> /\ hold[Coord].at = "moving"
    BY DEF MoveReplace, Moving, Doing, At, Transition
  <1>2. CASE Unbind("refused", faults) /\ UNCHANGED rec
    <2>1. Raises(Coord) /\ (UNCHANGED faults \/ \E kind \in FaultKinds : faults' = Append(faults, kind))
      BY <1>1, <1>2, UnbindRaises
    <2>2. QED BY <1>0, <1>1, <1>2, <2>1, OutsideJournal
  <1>3. CASE ~(Unbind("refused", faults) /\ UNCHANGED rec)
    <2>1. /\ rec = hold[Coord].rec
          /\ \/ rec' = Moved(rec, op) /\ Finish(Coord) /\ UNCHANGED faults
             \/ \E kind \in FaultKinds :
                    rec' \in {rec, Moved(rec, op)} /\ Unbind("fault", Append(faults, kind))
      BY <1>3 DEF MoveReplace
    <2>2. /\ IsRecord(rec') /\ rec'.revision \in {rec.revision, rec.revision + 1}
          /\ rec'.events = rec.events
      <3>1. IsRecord(rec) /\ IsRecord(Moved(rec, op)) /\ Moved(rec, op).revision = rec.revision + 1
            /\ Moved(rec, op).events = rec.events
        BY MovedRecord DEF Shaped
      <3>2. rec' \in {rec, Moved(rec, op)}
        BY <2>1
      <3>3. QED BY <3>1, <3>2
    <2>3. \/ Finishes(Coord) /\ rec'.phase = op.to
          \/ Raises(Coord)
      <3>1. Moved(rec, op).phase = op.to
        BY MovedRecord DEF Shaped
      <3>2. QED BY <1>0, <1>1, <2>1, <3>1, Effects, UnbindRaises
    <2>4. faults' \in Seq(FaultKinds) /\ (Torn => Torn')
      <3>1. CASE UNCHANGED faults
        BY <3>1 DEF Shaped, Torn
      <3>2. ASSUME NEW kind \in FaultKinds, Unbind("fault", Append(faults, kind))
            PROVE  faults' \in Seq(FaultKinds) /\ (Torn => Torn')
        <4>1. \/ faults' = Append(faults, kind)
              \/ "early" \in FaultKinds /\ faults' = Append(Append(faults, kind), "early")
          BY <1>1, <3>2, UnbindRaises
        <4>2. faults \in Seq(FaultKinds)
          BY DEF Shaped
        <4>3. faults' \in Seq(FaultKinds) /\ (Late(faults) => Late(faults'))
          BY <4>1, <4>2, FaultRemembered
        <4>4. QED BY <4>3 DEF Torn, Late
      <3>3. QED BY <2>1, <3>1, <3>2
    <2>5. \A u \in Threads : hold'[u].at = "start"
      <3>1. Calm
        BY <1>1, TransitionsAlone
      <3>2. hold'[Coord].at = "start"
        BY <2>3, Holds DEF Finishes, Raises
      <3>3. QED BY <2>3, <3>1, <3>2 DEF Calm, StoreInv, ThreadsInStep, Threads, Finishes, Raises, OnlyThread
    <2>6. ThreadsInStep'
      <3>1. jlock \notin Threads
        <4>1. \A u \in Threads : hold[u].at \notin {"written", "loaded"}
          BY <1>1, TransitionsAlone DEF Calm, StoreInv, ThreadsInStep, Threads
        <4>2. QED BY <4>1 DEF StoreInv, ThreadsInStep
      <3>2. QED BY <1>1, <2>5, <3>1 DEF ThreadsInStep
    <2>7. RevisionsInOrder'
      BY <1>1, <2>2, <2>5 DEF Shaped, IsRecord, StoreInv, RevisionsInOrder, Readable
    <2>8. HeadAnchored'
      BY <1>1, <2>2, <2>4 DEF StoreInv, HeadAnchored
    <2>9. QED BY <1>1, <2>2, <2>3, <2>4, <2>6, <2>7, <2>8
              DEF Performed, PhaseStep, StoreInv, Shaped
  <1>4. QED BY <1>2, <1>3

-----------------------------------------------------------------------------
(* The journal *)

(* An event of the current revision is appended, or the last one withdrawn. *)
LEMMA JournalGrows ==
    ASSUME Shaped, RevisionsInOrder
    PROVE  LET j == Append(journal, rec.revision) IN
           /\ j \in Seq(Nat) /\ Len(j) = Len(journal) + 1 /\ Len(journal) \in Nat
           /\ Readable(j) /\ \A i \in 1..Len(j) : j[i] <= rec.revision
  <1> DEFINE j == Append(journal, rec.revision)
  <1>1. rec.revision \in Nat /\ journal \in Seq(Nat)
    BY DEF Shaped, IsRecord
  <1>2. /\ j \in Seq(Nat) /\ Len(j) = Len(journal) + 1 /\ Len(journal) \in Nat
        /\ \A i \in 1..Len(journal) : j[i] = journal[i] /\ journal[i] \in Nat
        /\ j[Len(journal) + 1] = rec.revision
    BY <1>1, AppendProperties, LenProperties, ElementOfSeq
  <1> HIDE DEF j
  <1>3. \A i \in 1..Len(j) : j[i] <= rec.revision /\ j[i] \in Nat
    BY <1>1, <1>2 DEF RevisionsInOrder
  <1>4. Readable(j)
    <2> SUFFICES ASSUME NEW i \in 1..Len(j) - 1 PROVE j[i] <= j[i + 1]
      BY DEF Readable
    <2>1. CASE i = Len(journal)
      BY <1>2, <1>3, <2>1
    <2>2. CASE i # Len(journal)
      <3>1. i \in 1..Len(journal) - 1 /\ j[i] = journal[i] /\ j[i + 1] = journal[i + 1]
        BY <1>2, <2>2
      <3>2. QED BY <3>1 DEF RevisionsInOrder, Readable
    <2>3. QED BY <2>1, <2>2
  <1>5. QED BY <1>2, <1>3, <1>4 DEF j

LEMMA JournalShrinks ==
    ASSUME Shaped, RevisionsInOrder, journal # <<>>
    PROVE  LET j == SubSeq(journal, 1, Len(journal) - 1) IN
           /\ j \in Seq(Nat) /\ Len(j) = Len(journal) - 1 /\ Len(journal) \in Nat
           /\ Readable(j) /\ \A i \in 1..Len(j) : j[i] <= rec.revision
  <1> DEFINE j == SubSeq(journal, 1, Len(journal) - 1)
  <1>1. journal \in Seq(Nat) /\ Len(journal) \in Nat \ {0}
    BY EmptySeq DEF Shaped
  <1>2. \A i \in 1..Len(journal) - 1 : journal[i] \in Nat
    BY <1>1, ElementOfSeq
  <1>3. /\ j \in Seq(Nat) /\ Len(j) = Len(journal) - 1
        /\ \A i \in 1..Len(journal) - 1 : j[i] = journal[i]
    <2> DEFINE n == Len(journal) - 1
    <2>1. 1 \in Int /\ n \in Int /\ n >= 0 /\ \A i \in 1..n : journal[i] \in Nat
      BY <1>1, <1>2
    <2> HIDE DEF n
    <2>2. /\ SubSeq(journal, 1, n) \in Seq(Nat)
          /\ Len(SubSeq(journal, 1, n)) = IF 1 <= n THEN n - 1 + 1 ELSE 0
          /\ \A i \in 1..n - 1 + 1 : SubSeq(journal, 1, n)[i] = journal[1 + i - 1]
      BY <2>1, SubSeqProperties
    <2>3. Len(SubSeq(journal, 1, n)) = n /\ \A i \in 1..n : SubSeq(journal, 1, n)[i] = journal[i]
      BY <2>1, <2>2
    <2>4. QED BY <2>2, <2>3 DEF n
  <1> HIDE DEF j
  <1>4. Readable(j) /\ \A i \in 1..Len(j) : j[i] <= rec.revision
    <2>1. \A i \in 1..Len(j) : i \in 1..Len(journal) /\ j[i] = journal[i]
      BY <1>1, <1>3
    <2>2. \A i \in 1..Len(j) - 1 : /\ i \in 1..Len(journal) - 1 /\ i \in 1..Len(j) /\ i + 1 \in 1..Len(j)
      BY <1>1, <1>3
    <2>3. QED BY <2>1, <2>2 DEF RevisionsInOrder, Readable
  <1>5. QED BY <1>1, <1>3, <1>4 DEF j

(* The journal's lock is held by the thread that is inside it. *)
LEMMA LockHolder ==
    ASSUME StoreInv, NEW t \in Threads
    PROVE  /\ t # "free"
           /\ jlock = t => \A u \in Threads \ {t} : hold[u].at \notin {"written", "loaded"}
           /\ jlock = "free" => \A u \in Threads : hold[u].at \notin {"written", "loaded"}
  BY StoresAssumption DEF StoreInv, ThreadsInStep, Threads, Coord

(* The revision an event will carry is read. *)
LEMMA EmitReadOperation ==
    ASSUME Shaped, StoreInv, NEW t \in Threads, EmitRead(t)
    PROVE  Performed(t)
  <1> DEFINE h == [at |-> "read", rec |-> rec]
  <1>1. IsHold(h) /\ h.at = "read" /\ h.rec = rec
    BY Holds
  <1>2. todo[t] # <<>> /\ Head(todo[t]).op = "emit" /\ hold[t].at = "start"
        /\ hold' = [hold EXCEPT ![t] = h]
        /\ UNCHANGED <<rec, journal, jlock, todo, raised, faults>>
    BY DEF EmitRead, Doing, At
  <1> HIDE DEF h
  <1>3. Stays(t) /\ hold'[t] = h
    BY <1>1, <1>2, Effects
  <1>4. QED BY <1>1, <1>2, <1>3, OutsideJournal

(* The event file is written under the lock, or not at all, or by a write that
   raised. *)
LEMMA EmitWriteOperation ==
    ASSUME Shaped, StoreInv, NEW t \in Threads, EmitWrite(t)
    PROVE  Performed(t)
  <1>1. /\ todo[t] # <<>> /\ Head(todo[t]).op = "emit" /\ hold[t].at = "read" /\ jlock = "free"
        /\ UNCHANGED rec /\ hold[t].rec.revision = rec.revision
    BY DEF EmitWrite, Doing, At, StoreInv, RevisionsInOrder
  <1>2. CASE Raise(t, "refused") /\ UNCHANGED <<journal, jlock, faults>>
    <2>1. Raises(t)
      BY <1>1, <1>2, Effects
    <2>2. QED BY <1>1, <1>2, <2>1, OutsideJournal
  <1>3. CASE ~(Raise(t, "refused") /\ UNCHANGED <<journal, jlock, faults>>)
    <2>1. /\ rec.events = Len(journal)
          /\ \/ /\ journal' = Append(journal, rec.revision) /\ jlock' = t
                /\ hold' = [hold EXCEPT ![t].at = "written"]
                /\ UNCHANGED <<todo, raised, faults>>
             \/ \E kind \in FaultKinds :
                    /\ faults' = Append(faults, kind)
                    /\ journal' = IF kind = "late" THEN Append(journal, rec.revision) ELSE journal
                    /\ Raise(t, "fault") /\ UNCHANGED jlock
      BY <1>1, <1>3 DEF EmitWrite, Fault
    <2>2. /\ Append(journal, rec.revision) \in Seq(Nat)
          /\ Len(Append(journal, rec.revision)) = Len(journal) + 1 /\ Len(journal) \in Nat
          /\ Readable(Append(journal, rec.revision))
          /\ \A i \in 1..Len(Append(journal, rec.revision)) : Append(journal, rec.revision)[i] <= rec.revision
      BY JournalGrows DEF StoreInv
    <2>3. CASE /\ journal' = Append(journal, rec.revision) /\ jlock' = t
               /\ hold' = [hold EXCEPT ![t].at = "written"]
               /\ UNCHANGED <<todo, raised, faults>>
      <3> DEFINE h == [hold[t] EXCEPT !.at = "written"]
      <3>1. IsHold(h) /\ h.at = "written"
        BY Holds DEF Shaped
      <3>2. hold' = [hold EXCEPT ![t] = h]
        BY <2>3
      <3> HIDE DEF h
      <3>3. Stays(t) /\ hold'[t].at = "written"
        BY <1>1, <2>3, <3>1, <3>2, Effects
      <3>4. ThreadsInStep'
        BY <1>1, <2>3, <3>3, LockHolder DEF StoreInv, ThreadsInStep, Stays, OnlyThread
      <3>5. RevisionsInOrder'
        <4>1. \A u \in Threads : hold'[u].at = "read" => hold'[u].rec.revision = rec'.revision
          BY <1>1, <3>3 DEF StoreInv, RevisionsInOrder, Stays, OnlyThread
        <4>2. QED BY <1>1, <2>2, <2>3, <4>1 DEF RevisionsInOrder, Readable
      <3>6. HeadAnchored'
        BY <1>1, <2>1, <2>2, <2>3, LockHolder DEF HeadAnchored
      <3>7. QED BY <1>1, <2>2, <2>3, <3>3, <3>4, <3>5, <3>6
                DEF Performed, PhaseStep, StoreInv, Shaped
    <2>4. ASSUME NEW kind \in FaultKinds, faults' = Append(faults, kind),
                 journal' = IF kind = "late" THEN Append(journal, rec.revision) ELSE journal,
                 Raise(t, "fault"), UNCHANGED jlock
          PROVE  Performed(t)
      <3>1. Raises(t) /\ hold'[t].at = "start"
        BY <1>1, <2>4, Effects, Holds DEF Raises
      <3>2. faults' \in Seq(FaultKinds) /\ (Torn => Torn') /\ (kind = "late" => Torn')
        BY <2>4, FaultRemembered DEF Shaped, Torn, Late
      <3>3. ThreadsInStep'
        BY <1>1, <2>4, <3>1, LockHolder DEF StoreInv, ThreadsInStep, Raises, OnlyThread
      <3>4. RevisionsInOrder'
        <4>1. \A u \in Threads : hold'[u].at = "read" => hold'[u].rec.revision = rec'.revision
          BY <1>1, <3>1 DEF StoreInv, RevisionsInOrder, Raises, OnlyThread
        <4>2. QED BY <1>1, <2>2, <2>4, <4>1 DEF StoreInv, RevisionsInOrder, Readable
      <3>5. HeadAnchored'
        BY <1>1, <2>1, <2>2, <2>4, <3>2 DEF StoreInv, HeadAnchored
      <3>6. journal' \in Seq(Nat)
        BY <2>2, <2>4 DEF Shaped
      <3>7. QED BY <1>1, <3>1, <3>2, <3>3, <3>4, <3>5, <3>6 DEF Performed, PhaseStep, StoreInv, Shaped
    <2>5. QED BY <2>1, <2>3, <2>4
  <1>4. QED BY <1>2, <1>3

(* The record is read under the lock: it is one event behind. *)
LEMMA EmitLoadOperation ==
    ASSUME Shaped, StoreInv, NEW t \in Threads, EmitLoad(t)
    PROVE  Performed(t)
  <1> DEFINE h == [at |-> "loaded", rec |-> rec]
  <1>1. /\ todo[t] # <<>> /\ Head(todo[t]).op = "emit" /\ hold[t].at = "written" /\ jlock = t
        /\ UNCHANGED <<rec, faults>>
    BY DEF EmitLoad, Doing, At, StoreInv, ThreadsInStep
  <1>2. Len(journal) = rec.events + 1
    <2>1. Len(journal) \in Nat /\ rec.events \in Nat
      BY LenProperties DEF Shaped, IsRecord
    <2>2. QED BY <1>1, <2>1, LockHolder DEF StoreInv, HeadAnchored
  <1>3. hold' = [hold EXCEPT ![t] = h] /\ UNCHANGED <<journal, jlock, todo, raised>>
    BY <1>2 DEF EmitLoad
  <1>4. IsHold(h) /\ h.at = "loaded"
    BY Holds
  <1> HIDE DEF h
  <1>5. Stays(t) /\ hold'[t].at = "loaded"
    BY <1>1, <1>3, <1>4, Effects
  <1>6. ThreadsInStep'
    BY <1>1, <1>3, <1>5 DEF StoreInv, ThreadsInStep, Stays, OnlyThread
  <1>7. RevisionsInOrder'
    BY <1>1, <1>3, <1>5 DEF StoreInv, RevisionsInOrder, Readable, Stays, OnlyThread
  <1>8. HeadAnchored'
    BY <1>1, <1>3 DEF StoreInv, HeadAnchored, Torn
  <1>9. QED BY <1>1, <1>3, <1>5, <1>6, <1>7, <1>8 DEF Performed, PhaseStep, StoreInv, Shaped

(* The record anchors the event, or the event is withdrawn; an error after the
   record was replaced does both. *)
LEMMA EmitAnchorOperation ==
    ASSUME Shaped, StoreInv, NEW t \in Threads, EmitAnchor(t)
    PROVE  Performed(t)
  <1> DEFINE anchored == [rec EXCEPT !.events = @ + 1]
             shorter == SubSeq(journal, 1, Len(journal) - 1)
  <1>1. /\ todo[t] # <<>> /\ Head(todo[t]).op = "emit" /\ hold[t].at = "loaded" /\ jlock = t
        /\ ~Transition(Head(todo[t]))
    BY DEF EmitAnchor, Doing, At, StoreInv, ThreadsInStep, Transition
  <1>2. Len(journal) = rec.events + 1 /\ Len(journal) \in Nat /\ rec.events \in Nat
    <2>1. Len(journal) \in Nat /\ rec.events \in Nat
      BY LenProperties DEF Shaped, IsRecord
    <2>2. QED BY <1>1, <2>1, LockHolder DEF StoreInv, HeadAnchored
  <1>3. /\ IsRecord(anchored) /\ anchored.events = rec.events + 1
        /\ anchored.revision = rec.revision /\ anchored.phase = rec.phase /\ IsRecord(rec)
    BY AnchoredRecord DEF Shaped
  <1>4. /\ shorter \in Seq(Nat) /\ Len(shorter) = Len(journal) - 1
        /\ Readable(shorter) /\ \A i \in 1..Len(shorter) : shorter[i] <= rec.revision
    <2>1. journal # <<>>
      BY <1>2
    <2>2. QED BY <2>1, JournalShrinks DEF StoreInv
  <1>5. \/ rec' = anchored /\ jlock' = "free" /\ Finish(t) /\ UNCHANGED <<journal, faults>>
        \/ UNCHANGED <<rec, faults>> /\ Withdraw(t, "refused")
        \/ \E kind \in FaultKinds :
              /\ faults' = Append(faults, kind)
              /\ rec' = IF kind = "late" THEN anchored ELSE rec
              /\ Withdraw(t, "fault")
    BY DEF EmitAnchor, Fault
  <1> HIDE DEF anchored, shorter
  <1>6. /\ Finishes(t) \/ Raises(t)
        /\ hold'[t].at = "start" /\ jlock' = "free"
        /\ IsRecord(rec') /\ rec'.revision = rec.revision /\ rec'.phase = rec.phase
        /\ \/ rec'.events = rec.events + 1 /\ UNCHANGED journal
           \/ rec'.events = rec.events /\ journal' = shorter
           \/ rec'.events = rec.events + 1 /\ journal' = shorter /\ Torn'
        /\ faults' \in Seq(FaultKinds) /\ (Torn => Torn')
    <2>1. CASE rec' = anchored /\ jlock' = "free" /\ Finish(t) /\ UNCHANGED <<journal, faults>>
      BY <1>1, <1>3, <2>1, Effects, Holds DEF Finishes, Shaped, Torn
    <2>2. CASE UNCHANGED <<rec, faults>> /\ Withdraw(t, "refused")
      BY <1>1, <1>3, <2>2, Effects, Holds DEF Raises, Shaped, Torn, Withdraw, shorter
    <2>3. ASSUME NEW kind \in FaultKinds, faults' = Append(faults, kind),
                 rec' = IF kind = "late" THEN anchored ELSE rec, Withdraw(t, "fault")
          PROVE  <1>6!:
      <3>1. faults' \in Seq(FaultKinds) /\ (Torn => Torn') /\ (kind = "late" => Torn')
        BY <2>3, FaultRemembered DEF Shaped, Torn, Late
      <3>2. Raises(t) /\ hold'[t].at = "start"
        BY <1>1, <2>3, Effects, Holds DEF Raises, Withdraw
      <3>3. QED BY <1>3, <2>3, <3>1, <3>2 DEF Withdraw, shorter
    <2>4. QED BY <1>5, <2>1, <2>2, <2>3
  <1>7. OnlyThread(t)
    BY <1>6 DEF Finishes, Raises
  <1>8. ThreadsInStep'
    <2>1. hold'[t].at = "start" /\ jlock' = "free"
      BY <1>6
    <2>2. \A u \in Threads : u # "free" /\ (u # t => hold[u].at \notin {"written", "loaded"})
      BY <1>1, LockHolder
    <2>3. QED BY <1>7, <2>1, <2>2 DEF StoreInv, ThreadsInStep, OnlyThread
  <1>9. RevisionsInOrder'
    <2>1. \A u \in Threads : hold'[u].at = "read" => hold'[u].rec.revision = rec'.revision
      BY <1>6, <1>7 DEF StoreInv, RevisionsInOrder, OnlyThread
    <2>2. Readable(journal') /\ \A i \in 1..Len(journal') : journal'[i] <= rec'.revision
      BY <1>4, <1>6 DEF StoreInv, RevisionsInOrder
    <2>3. QED BY <2>1, <2>2 DEF RevisionsInOrder, Readable
  <1>10. HeadAnchored'
    <2>1. jlock' = "free" /\ Len(journal') \in Int /\ rec'.events \in Int
      BY <1>2, <1>4, <1>6
    <2>2. Len(journal') - rec'.events \in {-1, 0} /\ (Len(journal') - rec'.events = -1 => Torn')
      BY <1>2, <1>4, <1>6
    <2>3. QED BY <2>1, <2>2 DEF HeadAnchored
  <1>11. journal' \in Seq(Nat)
    BY <1>4, <1>6 DEF Shaped
  <1>12. QED BY <1>1, <1>6, <1>8, <1>9, <1>10, <1>11 DEF Performed, PhaseStep, StoreInv

(* Every operation on the stores keeps the invariant. *)
LEMMA StoreStepInv ==
    ASSUME IInv, ErrorStops, StoreNext, UNCHANGED <<pc, agent, starting, mode>>
    PROVE  IInv' /\ ErrorStops'
  <1>1. \E t \in Threads : Performed(t)
    <2>1. Coord \in Threads
      BY DEF Threads
    <2>2. QED BY <2>1, PlainOperations, BundleOperations, MoveLoadOperation, MoveReplaceOperation,
                 EmitReadOperation, EmitWriteOperation, EmitLoadOperation, EmitAnchorOperation
              DEF StoreNext, StoreStep, IInv
  <1>2. PICK t \in Threads : Performed(t)
    BY <1>1
  <1>3. WorkflowInv'
    BY <1>2, OperationKeepsWorkflow DEF IInv, Performed
  <1>4. Shaped'
    BY <1>2, ThreadsShaped DEF IInv, Performed, Shaped
  <1>5. ErrorStops'
    BY <1>2 DEF IInv, Performed, ErrorStops, Stays, Finishes, Raises, OnlyThread, Threads
  <1>6. QED BY <1>2, <1>3, <1>4, <1>5 DEF IInv, Performed

-----------------------------------------------------------------------------
(* The steps of the coordinators *)

(* A step beside the stores gives new scripts only to threads that have none. *)
LEMMA QuietKeepsStores ==
    ASSUME Shaped, StoreInv, Quiet, DOMAIN todo' = Threads, DOMAIN raised' = Threads,
           DOMAIN agent' = Agents,
           \A t \in Threads : todo'[t] = todo[t] \/ (todo[t] = <<>> /\ IsScript(todo'[t]))
    PROVE  Shaped' /\ StoreInv'
  <1>1. UNCHANGED <<rec, journal, hold, jlock, faults>>
    BY DEF Quiet
  <1>2. Shaped'
    BY <1>1 DEF Shaped, IsRecord
  <1>3. ThreadsInStep'
    BY <1>1 DEF StoreInv, ThreadsInStep
  <1>4. RevisionsInOrder' /\ HeadAnchored'
    BY <1>1 DEF StoreInv, RevisionsInOrder, HeadAnchored, Readable, Torn
  <1>5. QED BY <1>2, <1>3, <1>4 DEF StoreInv

(* The coordinator takes a script and goes on, and nothing else does. *)
LEMMA CoordinatorRuns ==
    ASSUME Shaped, StoreInv, Quiet, todo[Coord] = <<>>, NEW s, NEW place, IsScript(s), Run(s, place),
           DOMAIN raised' = Threads, DOMAIN agent' = Agents
    PROVE  /\ Shaped' /\ StoreInv'
           /\ pc' = place /\ todo'[Coord] = s /\ \A a \in Agents : todo'[a] = todo[a]
  <1>1. /\ DOMAIN todo' = Threads /\ pc' = place /\ todo'[Coord] = s
        /\ \A a \in Agents : todo'[a] = todo[a]
    BY StoresAssumption DEF Run, Shaped, Threads
  <1>2. \A t \in Threads : todo'[t] = todo[t] \/ (todo[t] = <<>> /\ IsScript(todo'[t]))
    BY <1>1 DEF Threads
  <1>3. QED BY <1>1, <1>2, QuietKeepsStores

(* The scripts of the schedule announce and do not move the run. *)
LEMMA Announcements ==
    ASSUME NEW p
    PROVE  IsScript(<<Emit(p)>>) /\ MoveFree(<<Emit(p)>>) /\ IsScript(<<>>) /\ MoveFree(<<>>)
  <1>1. IsScript(<<Emit(p)>>) /\ IsScript(<<>>)
    BY Scripts
  <1>2. MoveFree(<<Emit(p)>>) /\ MoveFree(<<>>)
    BY DEF MoveFree, Transition, Emit
  <1>3. QED BY <1>1, <1>2

(* The terminal paths. *)
LEMMA TerminalScripts ==
    ASSUME NEW reason
    PROVE  IsScript(Failing(reason)) /\ IsScript(Completing)
  BY Scripts DEF Failing, Completing

(* Outside a schedule the adaptive coordinator has no thread at work. *)
LEMMA NobodyRuns ==
    ASSUME WorkflowInv, mode = "dynamic", pc \notin {"schedule", "submit", "handling"}
    PROVE  Calm /\ \A a \in Agents : ~Running(a)
  BY DEF WorkflowInv, ScheduleInv, Calm

(* The coordinator goes on outside a schedule. *)
LEMMA OutsideSchedule ==
    ASSUME IInv, mode = "dynamic", pc \notin {"schedule", "submit", "handling"}, Quiet,
           UNCHANGED <<mode, agent>>, pc' \in {"boot", "revise", "scheduled", "decide", "act", "ending"},
           \/ \E s, place : IsScript(s) /\ Run(s, place) /\ todo[Coord] = <<>>
           \/ UNCHANGED todo,
           DOMAIN raised' = Threads
    PROVE  IInv'
  <1>1. DOMAIN agent' = Agents /\ DOMAIN todo = Threads
    BY DEF IInv, Shaped
  <1>2. Shaped' /\ StoreInv' /\ \A a \in Agents : todo'[a] = todo[a]
    BY <1>1, CoordinatorRuns, QuietKeepsStores DEF IInv
  <1>3. \A a \in Agents : todo'[a] = <<>> /\ ~Running(a)
    BY <1>2, NobodyRuns DEF IInv, Calm
  <1>4. WorkflowInv'
    BY <1>3 DEF WorkflowInv, ScheduleInv, Running
  <1>5. QED BY <1>2, <1>4 DEF IInv

(* Up to the first schedule, and from its end to the next decision. *)
LEMMA DynamicOutside ==
    ASSUME IInv, mode = "dynamic", UNCHANGED fixedVars,
           DynamicBegin \/ AfterSchedule \/ RecordDecision \/ ActOnDecision
    PROVE  IInv'
  <1>0. DOMAIN raised = Threads /\ UNCHANGED mode
    BY DEF IInv, Shaped, fixedVars
  <1>1. CASE DynamicBegin
    BY <1>0, <1>1, OutsideSchedule, Scripts DEF DynamicBegin, Ready, Run
  <1>2. CASE AfterSchedule
    <2>1. pc = "scheduled" /\ todo[Coord] = <<>> /\ Quiet /\ UNCHANGED agent /\ DOMAIN raised' = Threads
      BY <1>0, <1>2 DEF AfterSchedule, Ready
    <2>2. \/ UNCHANGED <<todo, pc>>
          \/ Run(Failing(stop), "ending")
          \/ \E refs : Run(<<Move("reviewing", refs)>>, "decide")
      BY <1>2 DEF AfterSchedule
    <2>3. CASE UNCHANGED <<todo, pc>>
      BY <1>0, <2>1, <2>3, OutsideSchedule
    <2>4. CASE Run(Failing(stop), "ending")
      <3>1. pc' = "ending"
        BY <2>4 DEF Run
      <3>2. QED BY <1>0, <2>1, <2>4, <3>1, OutsideSchedule, TerminalScripts
    <2>5. ASSUME NEW refs, Run(<<Move("reviewing", refs)>>, "decide") PROVE IInv'
      <3>1. pc' = "decide"
        BY <2>5 DEF Run
      <3>2. QED BY <1>0, <2>1, <2>5, <3>1, OutsideSchedule, Scripts
    <2>6. QED BY <2>2, <2>3, <2>4, <2>5
  <1>3. CASE RecordDecision
    <2>1. pc = "decide" /\ todo[Coord] = <<>> /\ Quiet /\ UNCHANGED <<agent, raised>>
      BY <1>3 DEF RecordDecision, Ready
    <2>2. \E a, b, c : Run(<<a, b, c>>, "act")
      BY <1>3 DEF RecordDecision
    <2>3. pc' = "act" /\ \E s, place : IsScript(s) /\ Run(s, place)
      BY <2>2, Scripts DEF Run
    <2>4. QED BY <1>0, <2>1, <2>3, OutsideSchedule
  <1>4. CASE ActOnDecision
    <2>1. pc = "act" /\ todo[Coord] = <<>> /\ Quiet /\ UNCHANGED <<agent, raised>>
      BY <1>4 DEF ActOnDecision, Ready
    <2>2. \/ Run(Completing, "ending")
          \/ \E reason : Run(Failing(reason), "ending")
          \/ \E a : Run(<<a>>, "revise")
      BY <1>4 DEF ActOnDecision
    <2>3. pc' \in {"ending", "revise"} /\ \E s, place : IsScript(s) /\ Run(s, place)
      BY <2>2, Scripts, TerminalScripts DEF Run
    <2>4. QED BY <1>0, <2>1, <2>3, OutsideSchedule
  <1>5. QED BY <1>1, <1>2, <1>3, <1>4

(* A schedule begins with nobody at work and ends when nobody is. *)
LEMMA DynamicBorders ==
    ASSUME IInv, mode = "dynamic", UNCHANGED fixedVars, StartSchedule \/ EndSchedule
    PROVE  IInv'
  <1>0. DOMAIN raised = Threads /\ DOMAIN agent = Agents /\ UNCHANGED <<mode, raised>>
    BY DEF IInv, Shaped, fixedVars, StartSchedule, EndSchedule
  <1>1. CASE StartSchedule
    <2>1. /\ pc = "revise" /\ todo[Coord] = <<>> /\ Quiet /\ Run(<<Emit("any")>>, "schedule")
          /\ agent' = [a \in Agents |-> "pending"]
      BY <1>1 DEF StartSchedule, Ready
    <2>2. /\ Shaped' /\ StoreInv' /\ pc' = "schedule" /\ MoveFree(todo'[Coord])
          /\ \A a \in Agents : todo'[a] = todo[a]
      BY <1>0, <2>1, Announcements, CoordinatorRuns DEF IInv
    <2>3. \A a \in Agents : todo'[a] = <<>> /\ agent'[a] = "pending"
      BY <2>1, <2>2, NobodyRuns DEF IInv, Calm
    <2>4. WorkflowInv'
      BY <1>0, <2>2, <2>3, TeamAssumption DEF WorkflowInv, ScheduleInv, Running, Dynamic
    <2>5. QED BY <2>2, <2>4 DEF IInv
  <1>2. CASE EndSchedule
    <2>1. /\ pc = "schedule" /\ todo[Coord] = <<>> /\ Quiet /\ Idle /\ UNCHANGED agent
          /\ Run(<<>>, "scheduled") \/ Run(<<Emit("any")>>, "scheduled")
      BY <1>2 DEF EndSchedule, Ready
    <2>2. Shaped' /\ StoreInv' /\ pc' = "scheduled" /\ \A a \in Agents : todo'[a] = todo[a]
      BY <1>0, <2>1, Announcements, CoordinatorRuns DEF IInv
    <2>3. \A a \in Agents : todo'[a] = <<>> /\ ~Running(a)
      BY <2>1, <2>2 DEF Idle, Running, IInv, WorkflowInv
    <2>4. WorkflowInv'
      BY <1>0, <2>1, <2>2, <2>3 DEF WorkflowInv, ScheduleInv, Running
    <2>5. QED BY <2>2, <2>4 DEF IInv
  <1>3. QED BY <1>1, <1>2

(* Launching: a first quality Agent waits for the snapshot, which is taken when
   every writer is collected. *)
LEMMA DynamicLaunch ==
    ASSUME IInv, mode = "dynamic", UNCHANGED fixedVars, NEW a \in Dynamic, Launch(a)
    PROVE  IInv'
  <1>0. /\ DOMAIN raised = Threads /\ DOMAIN raised' = Threads /\ DOMAIN agent = Agents
        /\ UNCHANGED <<mode, agent>> /\ pc = "schedule" /\ todo[Coord] = <<>> /\ Quiet
        /\ starting' = a /\ agent[a] = "pending" /\ DependenciesMet(a) /\ rec' = rec
        /\ DOMAIN todo = Threads /\ ScheduleInv
    BY DEF IInv, Shaped, fixedVars, Launch, Ready, Quiet, WorkflowInv
  <1>1. CASE Run(<<Emit("any")>>, "submit") /\ (a \in WriterSet \/ rec.phase = "verifying")
    <2>1. /\ Shaped' /\ StoreInv' /\ pc' = "submit" /\ MoveFree(todo'[Coord])
          /\ \A b \in Agents : todo'[b] = todo[b]
      BY <1>0, <1>1, Announcements, CoordinatorRuns DEF IInv
    <2>2. WorkflowInv'
      BY <1>0, <1>1, <2>1 DEF IInv, WorkflowInv, ScheduleInv, Running
    <2>3. QED BY <2>1, <2>2 DEF IInv
  <1>2. ASSUME a \notin WriterSet, rec.phase # "verifying", NEW refs,
               Run(<<Move("snapshotting", refs), Move("verifying", {}), Emit("verifying"),
                     Emit("verifying"), Emit("any")>>, "submit")
        PROVE  IInv'
    <2> DEFINE s == <<Move("snapshotting", refs), Move("verifying", {}), Emit("verifying"),
                      Emit("verifying"), Emit("any")>>
    <2>1. IsScript(s)
      BY Scripts
    <2>2. EndsVerifying(s)
      <3>1. /\ Len(s) = 5 /\ s[2] = Move("verifying", {}) /\ s[3] = Emit("verifying")
            /\ s[4] = Emit("verifying") /\ s[5] = Emit("any")
        OBVIOUS
      <3>2. /\ Move("verifying", {}).op = "move" /\ Move("verifying", {}).to = "verifying"
            /\ \A p : ~Transition(Emit(p))
        BY DEF Move, Emit, Transition
      <3> HIDE DEF s
      <3>3. \A j \in 2 + 1..Len(s) : ~Transition(s[j])
        BY <3>1, <3>2
      <3>4. QED BY <3>1, <3>2, <3>3 DEF EndsVerifying
    <2> HIDE DEF s
    <2>3. /\ Shaped' /\ StoreInv' /\ pc' = "submit" /\ todo'[Coord] = s
          /\ \A b \in Agents : todo'[b] = todo[b]
      BY <1>0, <1>2, <2>1, CoordinatorRuns DEF IInv, s
    <2>4. \A b \in Agents : ~Running(b)
      <3>1. a \in Testers \cup Reviewers
        BY <1>2 DEF Dynamic, WriterSet
      <3>2. \A w \in WriterSet : agent[w] = "collected"
        BY <1>0, <3>1 DEF DependenciesMet
      <3>3. \A q \in Testers \cup Reviewers : ~Running(q)
        BY <1>0, <1>2 DEF ScheduleInv
      <3>4. \A b \in Agents \ Dynamic : ~Running(b)
        BY <1>0 DEF ScheduleInv
      <3>5. QED BY <3>2, <3>3, <3>4 DEF Running, Dynamic, WriterSet
    <2>5. WorkflowInv'
      BY <1>0, <2>2, <2>3, <2>4, TeamAssumption DEF IInv, WorkflowInv, ScheduleInv, Running, Dynamic
    <2>6. QED BY <2>3, <2>5 DEF IInv
  <1>3. CASE UNCHANGED <<todo, pc>>
    <2>1. Shaped' /\ StoreInv'
      BY <1>0, <1>3, QuietKeepsStores DEF IInv
    <2>2. WorkflowInv'
      BY <1>0, <1>3 DEF IInv, WorkflowInv, ScheduleInv, Running
    <2>3. QED BY <2>1, <2>2 DEF IInv
  <1>4. QED BY <1>1, <1>2, <1>3 DEF Launch

(* The rest of a schedule: an Agent's thread starts, ends and is collected, and
   the user stops the schedule. *)
LEMMA DynamicSubmit ==
    ASSUME IInv, mode = "dynamic", UNCHANGED fixedVars, Submit
    PROVE  IInv'
  <1> DEFINE s == <<Work("reserve"), Emit("any"), Work("settle")>>
  <1>0. /\ DOMAIN todo = Threads /\ DOMAIN raised = Threads /\ DOMAIN agent = Agents
        /\ UNCHANGED <<mode, starting>> /\ Quiet /\ ScheduleInv /\ rec' = rec
        /\ pc = "submit" /\ pc' = "schedule" /\ todo[Coord] = <<>> /\ raised[Coord] = "none"
        /\ agent' = [agent EXCEPT ![starting] = "running"]
        /\ todo' = [todo EXCEPT ![starting] = s]
        /\ raised' = [raised EXCEPT ![starting] = "none"]
    BY DEF IInv, Shaped, fixedVars, Submit, Ready, Quiet, WorkflowInv
  <1>1. IsScript(s)
    BY Scripts
  <1> HIDE DEF s
  <1>2. /\ starting \in Dynamic /\ starting \in Agents /\ starting \in Threads /\ starting # Coord
        /\ Coord \in Threads /\ \A a \in Agents : a \in Threads /\ a # Coord
    BY <1>0, TeamAssumption, StoresAssumption DEF ScheduleInv, Threads
  <1>3. todo[starting] = <<>>
    BY <1>0, <1>2 DEF IInv, WorkflowInv, ScheduleInv
  <1>4. /\ DOMAIN todo' = Threads /\ DOMAIN raised' = Threads /\ DOMAIN agent' = Agents
        /\ todo'[Coord] = <<>> /\ raised'[Coord] = "none"
        /\ agent'[starting] = "running" /\ todo'[starting] = s
        /\ \A a \in Agents : a # starting => agent'[a] = agent[a] /\ todo'[a] = todo[a]
    BY <1>0, <1>2
  <1>5. Shaped' /\ StoreInv'
    <2>1. \A t \in Threads : todo'[t] = todo[t] \/ (todo[t] = <<>> /\ IsScript(todo'[t]))
      BY <1>0, <1>1, <1>3, <1>4 DEF Threads
    <2>2. QED BY <1>0, <1>4, <2>1, QuietKeepsStores DEF IInv
  <1>6. \A a \in Agents : todo'[a] # <<>> => agent'[a] = "running"
    BY <1>4 DEF IInv, WorkflowInv, Running
  <1>7. \A a \in Agents \ Dynamic : agent'[a] # "running"
    BY <1>0, <1>2, <1>4 DEF ScheduleInv, Running
  <1>8. ASSUME NEW q \in Testers \cup Reviewers, agent'[q] = "running"
        PROVE  rec.phase = "verifying"
    <2>1. q \in Agents
      BY TeamAssumption DEF Dynamic
    <2>2. CASE q # starting
      BY <1>0, <1>4, <1>8, <2>1, <2>2 DEF ScheduleInv, Running
    <2>3. CASE q = starting
      <3>1. starting \notin WriterSet
        BY <1>8, <2>3, TeamAssumption
      <3>2. ~EndsVerifying(<<>>)
        BY DEF EndsVerifying
      <3>3. QED BY <1>0, <3>1, <3>2 DEF ScheduleInv
    <2>4. QED BY <2>2, <2>3
  <1>9. MoveFree(<<>>)
    BY DEF MoveFree
  <1>10. WorkflowInv'
    BY <1>0, <1>4, <1>6, <1>7, <1>8, <1>9 DEF WorkflowInv, ScheduleInv, Running
  <1>11. QED BY <1>5, <1>10 DEF IInv

LEMMA DynamicSchedule ==
    ASSUME IInv, mode = "dynamic", UNCHANGED fixedVars,
           UserStop \/ \E a \in Dynamic : AgentEnds(a) \/ Collect(a)
    PROVE  IInv'
  <1>0. /\ DOMAIN todo = Threads /\ DOMAIN raised = Threads /\ DOMAIN agent = Agents
        /\ UNCHANGED <<mode, starting, raised>> /\ Quiet /\ ScheduleInv /\ rec' = rec
    BY DEF IInv, Shaped, fixedVars, UserStop, AgentEnds, Collect, Quiet, WorkflowInv
  <1>1. CASE UserStop
    <2>1. UNCHANGED <<todo, pc, agent>>
      BY <1>1 DEF UserStop
    <2>2. Shaped' /\ StoreInv'
      BY <1>0, <2>1, QuietKeepsStores DEF IInv
    <2>3. WorkflowInv'
      BY <1>0, <2>1 DEF IInv, WorkflowInv, ScheduleInv, Running, Calm
    <2>4. QED BY <2>2, <2>3 DEF IInv
  <1>2. ASSUME NEW a \in Dynamic, AgentEnds(a) PROVE IInv'
    <2>1. /\ UNCHANGED <<todo, pc>> /\ todo[a] = <<>> /\ a \in Agents
          /\ agent' = [agent EXCEPT ![a] = "done"]
      BY <1>2, TeamAssumption DEF AgentEnds
    <2>2. /\ DOMAIN agent' = Agents /\ agent'[a] = "done"
          /\ \A b \in Agents : b # a => agent'[b] = agent[b]
      BY <1>0, <2>1
    <2>3. Shaped' /\ StoreInv'
      BY <1>0, <2>1, <2>2, QuietKeepsStores DEF IInv
    <2>4. \A b \in Agents : (agent'[b] = "running" => Running(b)) /\ (todo[b] # <<>> => agent'[b] = "running")
      BY <2>1, <2>2 DEF IInv, WorkflowInv, Running
    <2>5. WorkflowInv'
      BY <1>0, <2>1, <2>4, TeamAssumption DEF WorkflowInv, ScheduleInv, Running, Calm, Dynamic
    <2>6. QED BY <2>3, <2>5 DEF IInv
  <1>3. ASSUME NEW a \in Dynamic, Collect(a) PROVE IInv'
    <2>1. /\ pc = "schedule" /\ todo[Coord] = <<>> /\ agent[a] = "done" /\ a \in Agents
          /\ Run(<<Emit("any")>>, "schedule")
          /\ agent' = [agent EXCEPT ![a] = IF output[a] = "error" THEN "failed" ELSE "collected"]
      BY <1>3, TeamAssumption DEF Collect, Ready
    <2>2. /\ DOMAIN agent' = Agents /\ agent'[a] # "running"
          /\ \A b \in Agents : b # a => agent'[b] = agent[b]
      BY <1>0, <2>1
    <2>3. /\ Shaped' /\ StoreInv' /\ pc' = "schedule" /\ MoveFree(todo'[Coord])
          /\ \A b \in Agents : todo'[b] = todo[b]
      BY <1>0, <2>1, <2>2, Announcements, CoordinatorRuns DEF IInv
    <2>4. \A b \in Agents : (agent'[b] = "running" => Running(b)) /\ (todo[b] # <<>> => agent'[b] = "running")
      BY <2>1, <2>2 DEF IInv, WorkflowInv, Running
    <2>5. WorkflowInv'
      BY <1>0, <2>1, <2>3, <2>4, TeamAssumption DEF WorkflowInv, ScheduleInv, Running, Calm, Dynamic
    <2>6. QED BY <2>3, <2>5 DEF IInv
  <1>4. QED BY <1>1, <1>2, <1>3

(* Leaving execute: the handler reports the failure when every thread has
   been joined. *)
LEMMA Leaving ==
    ASSUME IInv, ErrorStops, UNCHANGED fixedVars, Return \/ Catch
    PROVE  IInv'
  <1>0. /\ DOMAIN todo = Threads /\ DOMAIN raised = Threads /\ DOMAIN agent = Agents
        /\ UNCHANGED <<mode, starting, agent>> /\ Quiet /\ rec' = rec
    BY DEF IInv, Shaped, fixedVars, Return, Catch, Quiet
  <1>1. CASE UNCHANGED <<todo, pc, raised>>
    <2>1. Shaped' /\ StoreInv'
      BY <1>0, <1>1, QuietKeepsStores DEF IInv
    <2>2. WorkflowInv'
      BY <1>0, <1>1 DEF IInv, WorkflowInv, ScheduleInv, CallInv, Called, Running, Calm
    <2>3. QED BY <2>1, <2>2 DEF IInv
  <1>2. CASE /\ Run(Failing("controller_error"), "handling") /\ raised[Coord] # "none"
             /\ todo[Coord] = <<>> /\ Calm /\ raised' = [raised EXCEPT ![Coord] = "none"]
    <2>1. /\ Shaped' /\ StoreInv' /\ pc' = "handling" /\ \A a \in Agents : todo'[a] = todo[a]
      BY <1>0, <1>2, TerminalScripts, CoordinatorRuns DEF IInv
    <2>2. Calm'
      BY <1>2, <2>1 DEF Calm
    <2>3. CASE mode = "dynamic"
      BY <1>0, <2>1, <2>2, <2>3 DEF IInv, WorkflowInv, ScheduleInv, Running, Calm
    <2>4. CASE mode # "dynamic"
      <3>1. \A a \in Agents : ~Running(a)
        BY <1>2, <2>4 DEF IInv, WorkflowInv, CallInv
      <3>2. QED BY <1>0, <2>1, <2>2, <2>4, <3>1 DEF IInv, WorkflowInv, CallInv, Running, Calm
    <2>5. QED BY <2>1, <2>3, <2>4 DEF IInv, WorkflowInv
  <1>3. QED BY <1>1, <1>2 DEF Return, Catch, Calm, ErrorStops

(* The fixed coordinator goes on while no role is at work. *)
LEMMA FixedRuns ==
    ASSUME IInv, mode # "dynamic", Quiet, todo[Coord] = <<>>, UNCHANGED mode, DOMAIN raised' = Threads,
           DOMAIN agent' = Agents, \A a \in Agents : agent'[a] # "running",
           \A a \in Agents : ~Running(a),
           (\E s, place : IsScript(s) /\ Run(s, place)) \/ UNCHANGED todo
    PROVE  IInv'
  <1>1. DOMAIN todo = Threads
    BY DEF IInv, Shaped
  <1>2. Shaped' /\ StoreInv' /\ \A a \in Agents : todo'[a] = todo[a]
    BY <1>1, CoordinatorRuns, QuietKeepsStores DEF IInv
  <1>3. WorkflowInv'
    BY <1>2 DEF IInv, WorkflowInv, CallInv, Running
  <1>4. QED BY <1>2, <1>3 DEF IInv

(* It calls roles of which none is at work, and waits for them. *)
LEMMA FixedCalls ==
    ASSUME IInv, mode # "dynamic", Quiet, todo[Coord] = <<>>, raised[Coord] = "none",
           UNCHANGED <<mode, raised>>, NEW roles \in SUBSET Roles, NEW place, Call(roles, place),
           \A a \in Agents : ~Running(a), roles \subseteq Called'
    PROVE  IInv'
  <1>1. /\ Roles \subseteq Agents /\ DOMAIN todo = Threads /\ DOMAIN agent = Agents
        /\ DOMAIN raised = Threads /\ Coord \in Threads /\ Coord \notin roles /\ Agents \subseteq Threads
    BY FixedAssumption, StoresAssumption DEF IInv, Shaped, Threads
  <1>2. /\ DOMAIN todo' = Threads /\ DOMAIN agent' = Agents /\ todo'[Coord] = <<>>
        /\ \A a \in Agents : IF a \in roles THEN todo'[a] = Attempt /\ agent'[a] = "running"
                               ELSE todo'[a] = todo[a] /\ agent'[a] = agent[a]
    BY <1>1 DEF Call
  <1>3. \A a \in Agents : todo[a] = <<>>
    BY DEF IInv, WorkflowInv
  <1>4. IsScript(Attempt)
    BY Scripts DEF Attempt
  <1>5. Shaped' /\ StoreInv'
    <2>1. \A t \in Threads : todo'[t] = todo[t] \/ (todo[t] = <<>> /\ IsScript(todo'[t]))
      BY <1>2, <1>3, <1>4 DEF Threads
    <2>2. QED BY <1>1, <1>2, <2>1, QuietKeepsStores DEF IInv
  <1>6. WorkflowInv'
    BY <1>2, <1>3 DEF WorkflowInv, CallInv, Running
  <1>7. QED BY <1>5, <1>6 DEF IInv

(* Outside its calls the fixed coordinator has no thread at work, and a call that
   was joined has none left. *)
LEMMA NoRoleRuns ==
    ASSUME IInv, mode # "dynamic",
           \/ pc \notin {"planned", "implemented", "tested", "verified"}
           \/ \E place, roles : Joined(place, roles) /\ Called \subseteq roles
    PROVE  \A a \in Agents : ~Running(a)
  <1>1. \A a \in Agents : Running(a) => a \in Called
    BY DEF IInv, WorkflowInv, CallInv
  <1>2. CASE pc \notin {"planned", "implemented", "tested", "verified"}
    BY <1>1, <1>2 DEF Called
  <1>3. CASE \E place, roles : Joined(place, roles) /\ Called \subseteq roles
    BY <1>1, <1>3 DEF Joined, Running
  <1>4. QED BY <1>2, <1>3

(* The results of joined calls are handed on, or their error propagates. *)
LEMMA FixedContinues ==
    ASSUME IInv, mode # "dynamic", NEW place, NEW roles, Joined(place, roles), Called \subseteq roles,
           NEW s, NEW next, IsScript(s), Continue(roles, s, next), Untouched
    PROVE  IInv'
  <1>1. \A a \in Agents : ~Running(a)
    BY NoRoleRuns
  <1>2. /\ todo[Coord] = <<>> /\ Quiet /\ UNCHANGED mode /\ DOMAIN raised = Threads
    BY DEF IInv, Shaped, Joined, Ready, Untouched
  <1>3. /\ DOMAIN agent' = Agents /\ \A a \in Agents : agent'[a] # "running"
    BY <1>1 DEF Continue, Running
  <1>4. DOMAIN raised' = Threads /\ (Run(s, next) \/ UNCHANGED todo)
    BY <1>2 DEF Continue
  <1>5. QED BY <1>1, <1>2, <1>3, <1>4, FixedRuns

LEMMA FixedPlain ==
    ASSUME IInv, mode # "dynamic", FixedBegin \/ FixedJudge \/ FixedConclude
    PROVE  IInv'
  <1>1. /\ pc \notin {"planned", "implemented", "tested", "verified"} /\ todo[Coord] = <<>> /\ Quiet
        /\ UNCHANGED <<mode, agent, raised>>
    BY DEF FixedBegin, FixedJudge, FixedConclude, Ready, Untouched, fixedVars
  <1>2. \E s, place : IsScript(s) /\ Run(s, place)
    <2>1. CASE FixedBegin
      <3>1. PICK s, r, place : Run(s \o r, place) /\ IsScript(s) /\ IsScript(r)
        BY <2>1, Scripts DEF FixedBegin, SingleStart
      <3>2. IsScript(s \o r)
        BY <3>1, ScriptConcat
      <3>3. QED BY <3>1, <3>2
    <2>2. CASE FixedJudge
      <3>1. \E a, b, c : Run(<<a, b, c>>, "conclude")
        BY <2>2 DEF FixedJudge, SingleRecord, FixedRecord
      <3>2. QED BY <3>1, Scripts
    <2>3. CASE FixedConclude
      <3>1. \/ Run(Completing, "ending")
            \/ \E reason : Run(Failing(reason), "ending")
            \/ \E a : Run(<<a>>, "implement")
        BY <2>3 DEF FixedConclude, FixedCompleting, FixedFailing
      <3>2. QED BY <3>1, Scripts, TerminalScripts
    <2>4. QED BY <2>1, <2>2, <2>3
  <1>3. \A a \in Agents : ~Running(a)
    BY <1>1, NoRoleRuns
  <1>4. DOMAIN agent' = Agents /\ DOMAIN raised' = Threads /\ \A a \in Agents : agent'[a] # "running"
    BY <1>1, <1>3 DEF IInv, Shaped, Running
  <1>5. QED BY <1>1, <1>2, <1>3, <1>4, FixedRuns

(* The calls. *)
LEMMA FixedInvokes ==
    ASSUME IInv, mode # "dynamic",
           InvokePlanner \/ InvokeDeveloper \/ InvokeVerifiers \/ InvokeReviewer
    PROVE  IInv'
  <1>0. /\ todo[Coord] = <<>> /\ raised[Coord] = "none" /\ Quiet /\ UNCHANGED mode
        /\ DOMAIN agent = Agents /\ DOMAIN raised = Threads
    BY DEF InvokePlanner, InvokeDeveloper, InvokeVerifiers, InvokeReviewer, Joined, Ready, Untouched,
           IInv, Shaped
  <1>1. \A a \in Agents : ~Running(a)
    <2>1. CASE InvokeReviewer
      <3>1. Joined("tested", {"tester"}) /\ Called \subseteq {"tester"}
        BY <2>1 DEF InvokeReviewer, Joined, Ready, Called
      <3>2. QED BY <3>1, NoRoleRuns
    <2>2. CASE InvokePlanner \/ InvokeDeveloper \/ InvokeVerifiers
      <3>1. pc \in {"plan", "implement", "verify"}
        BY <2>2 DEF InvokePlanner, InvokeDeveloper, InvokeVerifiers, Ready
      <3>2. QED BY <3>1, NoRoleRuns
    <2>3. QED BY <2>1, <2>2
  <1>2. \/ Call({"planner"}, "planned") /\ UNCHANGED raised
        \/ Call({"developer"}, "implemented") /\ UNCHANGED raised
        \/ Call({"tester"}, "tested") /\ UNCHANGED raised
        \/ Call({"tester", "reviewer"}, "verified") /\ UNCHANGED raised
        \/ Call({"reviewer"}, "verified") /\ UNCHANGED raised
        \/ Run(SingleEvidence, "judge") /\ UNCHANGED <<agent, raised>>
        \/ raised' = [raised EXCEPT ![Coord] = "agent"] /\ UNCHANGED <<todo, agent>>
    BY DEF InvokePlanner, InvokeDeveloper, InvokeVerifiers, InvokeReviewer
  <1>3. ASSUME NEW roles \in SUBSET Roles, NEW place, Call(roles, place), UNCHANGED raised,
               \/ place = "planned" /\ roles = {"planner"}
               \/ place = "implemented" /\ roles = {"developer"}
               \/ place = "tested" /\ roles = {"tester"}
               \/ place = "verified" /\ roles \in {{"tester", "reviewer"}, {"reviewer"}}
        PROVE  IInv'
    <2>1. roles \subseteq Called'
      BY <1>3 DEF Called, Call
    <2>2. QED BY <1>0, <1>1, <1>3, <2>1, FixedCalls
  <1>4. ASSUME UNCHANGED agent, DOMAIN raised' = Threads, Run(SingleEvidence, "judge") \/ UNCHANGED todo
        PROVE  IInv'
    <2>1. IsScript(SingleEvidence)
      BY Scripts DEF SingleEvidence
    <2>2. DOMAIN agent' = Agents /\ \A a \in Agents : agent'[a] # "running"
      BY <1>0, <1>1, <1>4 DEF Running
    <2>3. QED BY <1>0, <1>1, <1>4, <2>1, <2>2, FixedRuns
  <1>5. /\ {"planner"} \subseteq Roles /\ {"developer"} \subseteq Roles /\ {"tester"} \subseteq Roles
        /\ {"reviewer"} \subseteq Roles /\ {"tester", "reviewer"} \subseteq Roles
    BY DEF Roles
  <1>6. QED BY <1>0, <1>2, <1>3, <1>4, <1>5

(* Their results. *)
LEMMA FixedResults ==
    ASSUME IInv, mode # "dynamic", PlanReady \/ WorkReady \/ EvidenceReady
    PROVE  IInv'
  <1>1. CASE PlanReady
    <2>1. /\ Joined("planned", {"planner"}) /\ Called \subseteq {"planner"} /\ Untouched
          /\ \E a, b : Continue({"planner"}, <<a, b>>, "implement")
      BY <1>1 DEF PlanReady, Joined, Ready, Called
    <2>2. QED BY <2>1, Scripts, FixedContinues
  <1>2. CASE WorkReady
    <2>1. /\ Joined("implemented", {"developer"}) /\ Called \subseteq {"developer"} /\ Untouched
          /\ \E a, b, c, d, e, f : \/ Continue({"developer"}, <<a, b, c, d, e>>, "verify")
                                   \/ Continue({"developer"}, <<a, b, c, d, e, f>>, "verify")
      BY <1>2 DEF WorkReady, Joined, Ready, Called, SingleSnapshot
    <2>2. \A a, b, c, d, e, f : IsScript(<<a, b, c, d, e, f>>)
      BY DEF IsScript
    <2>3. QED BY <2>1, <2>2, Scripts, FixedContinues
  <1>3. CASE EvidenceReady
    <2>1. /\ Joined("verified", {"tester", "reviewer"}) /\ Called \subseteq {"tester", "reviewer"}
          /\ Untouched
          /\ \E a, b : Continue({"tester", "reviewer"}, <<a, b>>, "judge")
      BY <1>3 DEF EvidenceReady, Joined, Ready, Called
    <2>2. QED BY <2>1, Scripts, FixedContinues
  <1>4. QED BY <1>1, <1>2, <1>3

(* A role's thread is refused its reservation, is corrected or ends. *)
LEMMA FixedRole ==
    ASSUME IInv, mode # "dynamic", NEW r \in Roles, ReserveRefused(r) \/ InvokeEnds(r)
    PROVE  IInv'
  <1>0. /\ r \in Agents /\ r \in Threads /\ r # Coord /\ Coord \in Threads
        /\ DOMAIN todo = Threads /\ DOMAIN raised = Threads /\ DOMAIN agent = Agents
        /\ Agents \subseteq Threads /\ Coord \notin Agents
    BY FixedAssumption, StoresAssumption DEF IInv, Shaped, Threads
  <1>1. CASE ReserveRefused(r)
    <2>1. /\ todo[r] # <<>> /\ Head(todo[r]).op = "reserve" /\ Raise(r, "agent")
          /\ UNCHANGED <<rec, journal, jlock, faults, pc, agent, starting, mode>>
      BY <1>1 DEF ReserveRefused, Doing, runVars, fixedVars
    <2>2. hold[r].at \notin {"written", "loaded"}
      BY <1>0, <2>1 DEF IInv, StoreInv, ThreadsInStep
    <2>3. Raises(r)
      BY <1>0, <2>1, Effects DEF IInv
    <2>4. Performed(r)
      BY <1>0, <2>1, <2>2, <2>3, OutsideJournal DEF IInv
    <2>5. WorkflowInv' /\ Shaped'
      BY <1>0, <2>1, <2>4, OperationKeepsWorkflow, ThreadsShaped DEF IInv, Performed, Shaped
    <2>6. QED BY <2>4, <2>5 DEF IInv, Performed
  <1>2. CASE InvokeEnds(r)
    <2>1. /\ agent[r] = "running" /\ todo[r] = <<>> /\ Quiet /\ UNCHANGED <<mode, raised, pc>>
          /\ \/ agent' = [agent EXCEPT ![r] = "done"] /\ UNCHANGED todo
             \/ todo' = [todo EXCEPT ![r] = <<Emit("any")>> \o Attempt] /\ UNCHANGED agent
      BY <1>2 DEF InvokeEnds, Untouched
    <2>2. IsScript(<<Emit("any")>> \o Attempt)
      BY Scripts, ScriptConcat DEF Attempt
    <2>3. /\ DOMAIN todo' = Threads /\ DOMAIN agent' = Agents /\ todo'[Coord] = todo[Coord]
          /\ \A a \in Agents \ {r} : todo'[a] = todo[a] /\ agent'[a] = agent[a]
          /\ \/ agent'[r] = "done" /\ todo'[r] = <<>>
             \/ agent'[r] = "running" /\ IsScript(todo'[r])
      BY <1>0, <2>1, <2>2
    <2>4. Shaped' /\ StoreInv'
      <3>1. \A t \in Threads : todo'[t] = todo[t] \/ (todo[t] = <<>> /\ IsScript(todo'[t]))
        BY <2>1, <2>3 DEF Threads
      <3>2. QED BY <1>0, <2>1, <2>3, <3>1, QuietKeepsStores DEF IInv
    <2>5. \A a \in Agents : (agent'[a] = "running" => Running(a)) /\ (todo'[a] # <<>> => agent'[a] = "running")
      BY <2>1, <2>3 DEF IInv, WorkflowInv, Running
    <2>6. WorkflowInv'
      BY <2>1, <2>3, <2>5 DEF IInv, WorkflowInv, CallInv, Running, Called
    <2>7. QED BY <2>4, <2>6 DEF IInv
  <1>3. QED BY <1>1, <1>2

(* No step of a coordinator takes up a script after an error. *)
LEMMA CoordinatorErrorStops ==
    ASSUME IInv, ErrorStops,
           \/ Return \/ Catch \/ DynamicBegin \/ StartSchedule \/ Submit \/ UserStop \/ EndSchedule
           \/ AfterSchedule \/ RecordDecision \/ ActOnDecision
           \/ \E a \in Dynamic : Launch(a) \/ AgentEnds(a) \/ Collect(a)
           \/ FixedNext
    PROVE  ErrorStops'
  <1>0. DOMAIN todo = Threads /\ DOMAIN raised = Threads /\ Coord \in Threads
    BY DEF IInv, Shaped, Threads
  <1>1. CASE UNCHANGED <<todo, raised>>
    BY <1>1 DEF ErrorStops
  <1>2. CASE raised[Coord] = "none" /\ UNCHANGED raised
    BY <1>2 DEF ErrorStops
  <1>3. CASE todo[Coord] = <<>> /\ UNCHANGED todo
    BY <1>3 DEF ErrorStops
  <1>4. CASE raised'[Coord] = "none"
    BY <1>4 DEF ErrorStops
  <1>5. CASE \/ Return \/ DynamicBegin \/ StartSchedule \/ UserStop \/ EndSchedule \/ RecordDecision
             \/ ActOnDecision
             \/ \E a \in Dynamic : AgentEnds(a) \/ Collect(a)
    BY <1>1, <1>2, <1>5 DEF Return, DynamicBegin, StartSchedule, UserStop, EndSchedule, RecordDecision,
       ActOnDecision, AgentEnds, Collect, Ready
  <1>6. CASE Catch
    BY <1>0, <1>1, <1>4, <1>6 DEF Catch
  <1>7. CASE Submit
    BY <1>0, <1>4, <1>7 DEF Submit, Ready
  <1>8. CASE AfterSchedule \/ \E a \in Dynamic : Launch(a)
    BY <1>2, <1>3, <1>8 DEF AfterSchedule, Launch, Ready
  <1>9. CASE FixedBegin \/ FixedJudge \/ FixedConclude \/ InvokePlanner \/ InvokeDeveloper \/ InvokeVerifiers
    BY <1>2, <1>9 DEF FixedBegin, FixedJudge, FixedConclude, InvokePlanner, InvokeDeveloper,
       InvokeVerifiers, Ready
  <1>10. CASE PlanReady \/ WorkReady \/ EvidenceReady \/ InvokeReviewer
    <2>1. /\ todo[Coord] = <<>> /\ raised[Coord] = "none"
          /\ UNCHANGED todo \/ UNCHANGED raised
      BY <1>10 DEF PlanReady, WorkReady, EvidenceReady, InvokeReviewer, Joined, Ready, Continue
    <2>2. QED BY <1>2, <1>3, <2>1
  <1>11. ASSUME NEW r \in Roles, ReserveRefused(r) \/ InvokeEnds(r) PROVE ErrorStops'
    <2>1. r # Coord
      BY FixedAssumption, StoresAssumption
    <2>2. todo'[Coord] = todo[Coord] /\ raised'[Coord] = raised[Coord]
      BY <1>0, <1>11, <2>1 DEF ReserveRefused, InvokeEnds, Raise
    <2>3. QED BY <2>2 DEF ErrorStops
  <1>12. QED BY <1>5, <1>6, <1>7, <1>8, <1>9, <1>10, <1>11 DEF FixedNext

-----------------------------------------------------------------------------
(* The theorems *)

LEMMA InitInv ==
    ASSUME Init
    PROVE  IInv /\ ErrorStops
  <1>1. /\ rec = NewRecord /\ journal = <<>> /\ faults = <<>> /\ jlock = "free" /\ pc = "boot"
        /\ todo = [t \in Threads |-> IF t = Coord THEN <<Emit("created")>> ELSE <<>>]
        /\ hold = [t \in Threads |-> Free] /\ raised = [t \in Threads |-> "none"]
        /\ agent = [a \in Agents |-> "pending"]
    BY DEF Init, StoreInit
  <1>2. Shaped
    <2>1. IsRecord(rec) /\ journal \in Seq(Nat) /\ faults \in Seq(FaultKinds)
      BY <1>1 DEF IsRecord, NewRecord
    <2>2. \A t \in Threads : IsScript(todo[t]) /\ IsHold(hold[t])
      BY <1>1, Holds, Scripts
    <2>3. QED BY <1>1, <2>1, <2>2 DEF Shaped
  <1>3. StoreInv
    <2>1. rec.events = 0 /\ Len(journal) = 0
      BY <1>1 DEF NewRecord
    <2>2. \A t \in Threads : hold[t].at = "start" /\ t # "free"
      BY <1>1, Holds, StoresAssumption DEF Threads, Coord
    <2>3. QED BY <1>1, <2>1, <2>2
              DEF StoreInv, ThreadsInStep, RevisionsInOrder, HeadAnchored, Readable
  <1>4. \A a \in Agents : todo[a] = <<>> /\ agent[a] = "pending"
    BY <1>1, StoresAssumption DEF Threads
  <1>5. WorkflowInv
    BY <1>1, <1>4 DEF WorkflowInv, ScheduleInv, CallInv, Running
  <1>6. ErrorStops
    BY <1>1 DEF ErrorStops, Threads
  <1>7. QED BY <1>2, <1>3, <1>5, <1>6 DEF IInv

LEMMA StepInv ==
    ASSUME IInv, ErrorStops, [Next]_vars
    PROVE  IInv' /\ ErrorStops'
  <1>1. CASE UNCHANGED vars
    BY <1>1 DEF vars, storeVars, runVars, fixedVars, IInv, Shaped, IsRecord, StoreInv, ThreadsInStep,
                RevisionsInOrder, HeadAnchored, Readable, Torn, WorkflowInv, ScheduleInv, CallInv,
                Called, Running, Calm, ErrorStops
  <1>2. CASE StoreNext /\ UNCHANGED runVars /\ UNCHANGED fixedVars
    BY <1>2, StoreStepInv DEF runVars, fixedVars
  <1>3. CASE (Return \/ Catch) /\ UNCHANGED fixedVars
    BY <1>3, Leaving, CoordinatorErrorStops
  <1>4. CASE mode = "dynamic" /\ DynamicNext /\ UNCHANGED fixedVars
    <2>1. CASE StoreNext /\ UNCHANGED runVars
      BY <1>2, <1>4, <2>1
    <2>2. CASE Return \/ Catch
      BY <1>3, <1>4, <2>2
    <2>3. CASE \/ DynamicBegin \/ StartSchedule \/ Submit \/ UserStop \/ EndSchedule
               \/ AfterSchedule \/ RecordDecision \/ ActOnDecision
               \/ \E a \in Dynamic : Launch(a) \/ AgentEnds(a) \/ Collect(a)
      <3>1. IInv'
        BY <1>4, <2>3, DynamicOutside, DynamicBorders, DynamicLaunch, DynamicSubmit, DynamicSchedule
      <3>2. QED BY <2>3, <3>1, CoordinatorErrorStops
    <2>4. QED BY <1>4, <2>1, <2>2, <2>3 DEF DynamicNext
  <1>5. CASE mode # "dynamic" /\ FixedNext
    <2>1. IInv'
      BY <1>5, FixedPlain, FixedInvokes, FixedResults, FixedRole DEF FixedNext
    <2>2. QED BY <1>5, <2>1, CoordinatorErrorStops
  <1>6. QED BY <1>1, <1>2, <1>3, <1>4, <1>5 DEF Next

(* In every state of every run the journal is in the order of the revisions, no
   thread is inside the journal without its lock, and an Agent's thread works
   only while the coordinator schedules or waits for it. *)
THEOREM WorkflowInvariant == Spec => []IInv
  <1>1. Init => IInv /\ ErrorStops
    BY InitInv
  <1>2. IInv /\ ErrorStops /\ [Next]_vars => (IInv /\ ErrorStops)'
    BY StepInv
  <1>3. QED BY <1>1, <1>2, PTL DEF Spec

(* Whenever the process dies, the journal on disk can be loaded and is what the
   record anchors, one event ahead while the holder of its lock anchors the
   event, or one event apart after an error that came behind a replaced file. *)
THEOREM JournalIsAnchored == Spec => []JournalAnchored
  <1>1. IInv => JournalAnchored
    BY DEF IInv, StoreInv, RevisionsInOrder, HeadAnchored, JournalAnchored
  <1>2. QED BY <1>1, WorkflowInvariant, PTL

-----------------------------------------------------------------------------
(* The test report the controller assembles is one its own artifact model     *)
(* accepts, for every gate, every coverage and every way the commands end.     *)

(* A command that did not pass is evidence for some criterion of the scope,    *)
(* and the report says so there (assembly.py validate_verification_assignment, *)
(* assemble_test_report).                                                      *)
LEMMA BadCommandShows ==
    ASSUME NEW criteria, NEW manual, Assigned(criteria, manual), NEW result \in Results,
           NEW k \in Commands
    PROVE  /\ result[k] = "timed_out" =>
                \E c \in criteria : CriterionStatus(result, manual, c) = "blocked"
           /\ result[k] = "failed" =>
                \E c \in criteria : CriterionStatus(result, manual, c) \in {"failed", "blocked"}
  <1>1. PICK c \in Covers[k] : c \in criteria
    BY DEF Assigned, Deterministic
  <1>2. result[k] \in {result[j] : j \in {i \in Commands : c \in Covers[i]}}
    BY <1>1
  <1>3. QED BY <1>1, <1>2 DEF CriterionStatus

(* Without a time-out no criterion is blocked. *)
LEMMA NothingBlocked ==
    ASSUME NEW criteria, NEW manual, NEW result \in Results, NEW c \in criteria,
           \A k \in Commands : result[k] # "timed_out"
    PROVE  CriterionStatus(result, manual, c) \in {"failed", "pending_review", "passed"}
  <1>1. "timed_out" \notin {result[j] : j \in {i \in Commands : c \in Covers[i]}}
    OBVIOUS
  <1>2. QED BY <1>1 DEF CriterionStatus

(* A criterion without a bad command is pending exactly when it is manual. *)
LEMMA CriterionScope ==
    ASSUME NEW manual, NEW result \in Results, NEW c
    PROVE  IF c \in manual THEN CriterionStatus(result, manual, c) # "passed"
           ELSE CriterionStatus(result, manual, c) # "pending_review"
  <1> DEFINE ends == {result[k] : k \in {j \in Commands : c \in Covers[j]}}
  <1>1. ends \subseteq {"passed", "failed", "timed_out"}
    BY DEF Results
  <1>2. CASE "timed_out" \in ends
    BY <1>2 DEF CriterionStatus
  <1>3. CASE "timed_out" \notin ends /\ "failed" \in ends
    BY <1>3 DEF CriterionStatus
  <1>4. CASE "timed_out" \notin ends /\ "failed" \notin ends
    <2>1. ends \subseteq {"passed"}
      BY <1>1, <1>4
    <2>2. QED BY <1>4, <2>1 DEF CriterionStatus
  <1>5. QED BY <1>2, <1>3, <1>4

(* Whatever the commands of a gate do, the report assembled from them is       *)
(* accepted by TestReport.validate_evidence: the overall status, the criteria  *)
(* and the blockers never contradict each other.                               *)
THEOREM AssembledReportValid ==
    ASSUME NEW criteria, NEW manual, Assigned(criteria, manual), NEW result \in Results
    PROVE  TestReportValid(TestReport(result, criteria, manual), manual)
  <1> DEFINE report == TestReport(result, criteria, manual)
             statuses == {report.criteria[c] : c \in DOMAIN report.criteria}
             passing == report.blockers = {} /\ statuses \subseteq {"passed", "pending_review"}
  <1>1. /\ report.status = TestStatus(result)
        /\ report.blockers = {k \in Commands : result[k] # "passed"}
        /\ DOMAIN report.criteria = criteria
        /\ \A c \in criteria : report.criteria[c] = CriterionStatus(result, manual, c)
    BY DEF TestReport
  <1>2. \A c \in DOMAIN report.criteria :
           IF c \in manual THEN report.criteria[c] # "passed"
           ELSE report.criteria[c] # "pending_review"
    BY <1>1, CriterionScope
  <1>3. CASE \E k \in Commands : result[k] = "timed_out"
    <2>1. report.status = "blocked" /\ report.blockers # {}
      BY <1>1, <1>3 DEF TestStatus
    <2>2. "blocked" \in statuses
      BY <1>1, <1>3, BadCommandShows
    <2>3. QED BY <1>2, <2>1, <2>2 DEF TestReportValid
  <1>4. CASE \A k \in Commands : result[k] = "passed"
    <2>1. report.status = "passed" /\ report.blockers = {}
      BY <1>1, <1>4 DEF TestStatus
    <2>2. \A c \in criteria : CriterionStatus(result, manual, c) \in {"passed", "pending_review"}
      <3>1. TAKE c \in criteria
      <3>2. {result[k] : k \in {j \in Commands : c \in Covers[j]}} \subseteq {"passed"}
        BY <1>4
      <3>3. QED BY <3>2 DEF CriterionStatus
    <2>3. QED BY <1>1, <1>2, <2>1, <2>2 DEF TestReportValid
  <1>5. CASE /\ \A k \in Commands : result[k] # "timed_out"
             /\ \E k \in Commands : result[k] # "passed"
    <2>1. report.status = "failed" /\ report.blockers # {}
      BY <1>1, <1>5 DEF TestStatus
    <2>2. "failed" \in statuses
      <3>1. PICK k \in Commands : result[k] = "failed"
        BY <1>5 DEF Results
      <3>2. PICK c \in criteria : CriterionStatus(result, manual, c) \in {"failed", "blocked"}
        BY <3>1, BadCommandShows
      <3>3. CriterionStatus(result, manual, c) = "failed"
        BY <1>5, <3>2, NothingBlocked
      <3>4. QED BY <1>1, <3>3
    <2>3. QED BY <1>2, <2>1, <2>2 DEF TestReportValid
  <1>6. QED BY <1>3, <1>4, <1>5

(* A gate that can be assembled never reports "refused", which is what the     *)
(* runs check of the instance (OnlyFaultsAreRefused).                          *)
COROLLARY GateNeverRefused ==
    ASSUME NEW criteria, NEW manual, Assigned(criteria, manual)
    PROVE  "refused" \notin GateStatuses(criteria, manual)
  <1>1. \A r \in Results : TestReportValid(TestReport(r, criteria, manual), manual)
    BY AssembledReportValid
  <1>2. \A r \in Results : TestStatus(r) # "refused"
    BY DEF TestStatus
  <1>3. QED BY <1>1, <1>2 DEF GateStatuses

-----------------------------------------------------------------------------
(***************************************************************************)
(* How a run ends on disk: the terminal record and the terminal files go   *)
(* together, whatever fails and whenever the process dies; and a completed *)
(* record rests on the evidence of its last iteration.                     *)
(***************************************************************************)

(***************************************************************************)
(* The inductive invariant, beside the one above.                          *)
(***************************************************************************)

Report == <<"final_report", Coord, 0>>
TerminalPath == {"ending", "handling"}
Open == rec.phase \notin Terminal

(* Before the terminal paths a script neither writes nor binds the report. *)
PlainOp(op) ==
    /\ op.op \notin {"bundle", "bind"}
    /\ op.op = "move" => op.to \notin Terminal /\ Report \notin op.refs
PlainScript(s) == \A i \in 1..Len(s) : PlainOp(s[i])

(* What the validators of the record have accepted so far. *)
RecordInv ==
    /\ ValidRecord(rec) /\ rec.phase \in Phases
    /\ rec.phase \in BeforeWorkspace => rec.snaps = 0
    /\ Open => Report \notin rec.refs
    /\ raised[Coord] = "none" => mem = rec.revision

(* A transition is built from the record on disk. *)
CoordinatorInStep ==
    /\ hold[Coord].at = "moving" => Moving /\ hold[Coord].rec = rec
    /\ hold[Coord].at = "linking" => Doing(Coord, "bundle")
    /\ ended # "no" => todo[Coord] = <<>>

(* The lifecycle accepts this way to end. *)
MayEnd(to, reason) ==
    \/ to = "failed" /\ reason \notin {"none", "succeeded"}
    \/ to = "completed" /\ reason = "succeeded" /\ rec.phase = "delivering"

ToReport(s) ==
    \E status, to, reason : s = <<WriteBundle(status), Bind(to, reason), Emit(to)>> /\ MayEnd(to, reason)
ToBind(s) == \E to, reason : s = <<Bind(to, reason), Emit(to)>> /\ MayEnd(to, reason)
ToAnnounce(s) == s = <<>> \/ \E p : s = <<Emit(p)>>

(* The stages of a terminal path. *)
PathInv ==
    IF pc \notin TerminalPath THEN Open /\ bundle = 0 /\ PlainScript(todo[Coord])
    ELSE raised[Coord] = "none" =>
        \/ Open /\ (todo[Coord] = Completing \/ ToReport(todo[Coord]))
        \/ Open /\ ToBind(todo[Coord]) /\ bundle = 3
        \/ ~Open /\ ToAnnounce(todo[Coord])

(* The terminal files: complete once the record is terminal, and otherwise there
   only while they are being linked and bound, or when their removal failed. *)
BundleInv ==
    /\ bundle \in 0..3
    /\ ~Open /\ ~Torn => bundle = 3
    /\ Open /\ bundle # 0 /\ Len(faults) < 2 =>
        Doing(Coord, "bind") \/ (Doing(Coord, "bundle") /\ hold[Coord].at = "linking")

TInv == RecordInv /\ CoordinatorInStep /\ PathInv /\ BundleInv

-----------------------------------------------------------------------------
(* Scripts *)

LEMMA PlainTail ==
    ASSUME NEW s, IsScript(s), s # <<>>, PlainScript(s)
    PROVE  PlainScript(Tail(s)) /\ PlainOp(Head(s))
  <1>1. /\ Len(s) \in Nat \ {0} /\ Head(s) = s[1] /\ Len(Tail(s)) = Len(s) - 1
        /\ \A i \in 1..Len(Tail(s)) : Tail(s)[i] = s[i + 1]
    BY ScriptTail
  <1>2. QED BY <1>1 DEF PlainScript

(* The stages of a terminal path, by the operation that comes next. *)
LEMMA Stages ==
    /\ Completing # <<>> /\ Head(Completing) = Decided("delivering", "accept")
    /\ Head(Completing).op = "move"
    /\ Tail(Completing) = <<WriteBundle("completed"), Bind("completed", "succeeded"), Emit("completed")>>
    /\ \A status, to, reason :
          LET r == <<WriteBundle(status), Bind(to, reason), Emit(to)>>
              b == <<Bind(to, reason), Emit(to)>>
          IN  /\ r # <<>> /\ Head(r).op = "bundle" /\ Tail(r) = b
              /\ b # <<>> /\ Head(b).op = "bind" /\ Head(b) = Bind(to, reason) /\ Tail(b) = <<Emit(to)>>
    /\ \A p : <<Emit(p)>> # <<>> /\ Head(<<Emit(p)>>).op = "emit" /\ Tail(<<Emit(p)>>) = <<>>
  BY DEF Completing, WriteBundle, Bind, Emit, Decided, Move

(* What the coordinator does next on a terminal path tells the stage. *)
LEMMA StageOf ==
    ASSUME PathInv, pc \in TerminalPath, raised[Coord] = "none", todo[Coord] # <<>>
    PROVE  /\ Doing(Coord, "move") => Open /\ todo[Coord] = Completing
           /\ Doing(Coord, "bundle") => Open /\ ToReport(todo[Coord])
           /\ Doing(Coord, "bind") => Open /\ ToBind(todo[Coord]) /\ bundle = 3
           /\ Head(todo[Coord]).op \notin {"move", "bundle", "bind"} =>
                 ~Open /\ Tail(todo[Coord]) = <<>>
  <1> DEFINE s == todo[Coord]
             op == Head(s).op
  <1>1. s = Completing => op = "move"
    BY Stages
  <1>2. ToReport(s) => op = "bundle"
    BY Stages DEF ToReport
  <1>3. ToBind(s) => op = "bind"
    BY Stages DEF ToBind
  <1>4. ToAnnounce(s) => op = "emit" /\ Tail(s) = <<>>
    BY Stages DEF ToAnnounce
  <1>5. \/ Open /\ (s = Completing \/ ToReport(s))
        \/ Open /\ ToBind(s) /\ bundle = 3
        \/ ~Open /\ ToAnnounce(s)
    BY DEF PathInv
  <1> HIDE DEF op
  <1>6. QED BY <1>1, <1>2, <1>3, <1>4, <1>5 DEF Doing, op

-----------------------------------------------------------------------------
(* The record *)

(* An anchored event is not part of the lifecycle. *)
LEMMA AnchoredLifecycle ==
    ASSUME NEW r, IsRecord(r)
    PROVE  LET n == [r EXCEPT !.events = @ + 1] IN
           /\ n.phase = r.phase /\ n.snaps = r.snaps /\ n.refs = r.refs /\ n.revision = r.revision
           /\ ValidRecord(n) <=> ValidRecord(r)
  <1> DEFINE n == [r EXCEPT !.events = @ + 1]
  <1>1. /\ n.phase = r.phase /\ n.snaps = r.snaps /\ n.refs = r.refs /\ n.revision = r.revision
        /\ n.iteration = r.iteration /\ n.workspace = r.workspace /\ n.source = r.source
        /\ n.reason = r.reason
    BY DEF IsRecord
  <1> HIDE DEF n
  <1>2. ValidRecord(n) <=> ValidRecord(r)
    BY <1>1 DEF ValidRecord
  <1>3. QED BY <1>1, <1>2 DEF n

(* The record after a transition. *)
LEMMA MovedFields ==
    ASSUME NEW r, IsRecord(r), NEW op
    PROVE  LET n == Moved(r, op) IN
           /\ n.phase = op.to /\ n.source = r.phase /\ n.refs = r.refs \cup op.refs /\ n.reason = op.reason
           /\ n.iteration = IF r.phase = "deciding" /\ op.to = "implementing" THEN r.iteration + 1
                            ELSE r.iteration
           /\ n.snaps = IF op.to = "verifying" THEN r.snaps + 1 ELSE r.snaps
           /\ op.to # "planning" => (n.workspace <=> r.workspace)
  <1> DEFINE f == DOMAIN r
  <1>1. {"phase", "source", "revision", "iteration", "workspace", "snaps", "refs", "reason"} \subseteq f
    BY DEF IsRecord
  <1>2. Moved(r, op).phase = op.to /\ Moved(r, op).source = r.phase
    BY <1>1 DEF Moved
  <1>3. Moved(r, op).refs = r.refs \cup op.refs
    BY <1>1 DEF Moved
  <1>4. Moved(r, op).reason = op.reason
    BY <1>1 DEF Moved
  <1>5. Moved(r, op).iteration = IF r.phase = "deciding" /\ op.to = "implementing" THEN r.iteration + 1
                                 ELSE r.iteration
    BY <1>1 DEF Moved
  <1>6. Moved(r, op).snaps = IF op.to = "verifying" THEN r.snaps + 1 ELSE r.snaps
    BY <1>1 DEF Moved
  <1>7. Moved(r, op).workspace = (r.workspace \/ op.to = "planning")
    BY <1>1 DEF Moved
  <1>8. QED BY <1>2, <1>3, <1>4, <1>5, <1>6, <1>7

(* The record accepts the end of a run, from every phase that is not terminal. *)
LEMMA EndAccepted ==
    ASSUME Shaped, RecordInv, Open, NEW to, NEW reason, MayEnd(to, reason)
    PROVE  MoveAccepted(rec, Bind(to, reason))
  <1> DEFINE op == Bind(to, reason)
             n == Moved(rec, op)
  <1>1. /\ op.to = to /\ op.reason = reason /\ op.decision = "none" /\ op.refs = {Report}
    BY DEF Bind, Report
  <1>2. to \in Terminal /\ to \notin {"verifying", "planning", "implementing", "delivering"}
    BY DEF MayEnd, Terminal
  <1>3. /\ n.phase = to /\ n.source = rec.phase /\ n.reason = reason /\ n.iteration = rec.iteration
        /\ n.snaps = rec.snaps /\ (n.workspace <=> rec.workspace)
    BY <1>1, <1>2, MovedFields DEF Shaped
  <1>4. "final_report" \in Kinds(op.refs)
    BY <1>1 DEF Kinds, Report
  <1> HIDE DEF op, n
  <1>5. ValidTransition(rec, op)
    <2>1. IsLegalTransition(rec.phase, to)
      BY DEF MayEnd, IsLegalTransition, LegalNextPhases, Open
    <2>2. RequiredKind(rec.phase, to) \subseteq Kinds(op.refs)
      BY <1>4 DEF MayEnd, RequiredKind
    <2>3. /\ (reason # "none") = (to \in Terminal) /\ (to = "completed") = (reason = "succeeded")
      BY DEF MayEnd, Terminal
    <2>4. QED BY <1>1, <1>2, <2>1, <2>2, <2>3 DEF ValidTransition
  <1>6. op.refs \cap rec.refs = {}
    BY <1>1 DEF RecordInv
  <1>7. ValidRecord(n)
    <2>1. CASE to = "failed"
      BY <1>3, <2>1 DEF RecordInv, ValidRecord, MayEnd, Open, Terminal, Phases, BeforeWorkspace,
                        BeforeSnapshot, AfterSnapshot
    <2>2. CASE to = "completed"
      BY <1>3, <2>2 DEF RecordInv, ValidRecord, MayEnd, Open, Terminal, Phases, BeforeWorkspace,
                        BeforeSnapshot, AfterSnapshot
    <2>3. QED BY <2>1, <2>2 DEF MayEnd
  <1>8. QED BY <1>5, <1>6, <1>7 DEF MoveAccepted, op, n

(* An accepted transition leaves a record that the next one can be built from. *)
LEMMA AcceptedRecord ==
    ASSUME Shaped, RecordInv, NEW op, MoveAccepted(rec, op), op.to \in Terminal \/ Report \notin op.refs, Open
    PROVE  LET n == Moved(rec, op) IN
           /\ ValidRecord(n) /\ n.phase \in Phases /\ (n.phase \in BeforeWorkspace => n.snaps = 0)
           /\ n.phase \notin Terminal => Report \notin n.refs
  <1> DEFINE n == Moved(rec, op)
  <1>1. /\ n.phase = op.to /\ n.refs = rec.refs \cup op.refs
        /\ n.snaps = IF op.to = "verifying" THEN rec.snaps + 1 ELSE rec.snaps
    BY MovedFields DEF Shaped
  <1>2. ValidRecord(n) /\ IsLegalTransition(rec.phase, op.to)
    BY DEF MoveAccepted, ValidTransition
  <1> HIDE DEF n
  <1>3. n.phase \in BeforeWorkspace => rec.phase = "created" /\ n.snaps = rec.snaps
    BY <1>1, <1>2 DEF BeforeWorkspace, IsLegalTransition, LegalNextPhases
  <1>4. n.phase \in Phases
    BY <1>1, <1>2 DEF Phases, IsLegalTransition, LegalNextPhases
  <1>5. QED BY <1>1, <1>2, <1>3, <1>4 DEF RecordInv, Open, BeforeWorkspace, n

-----------------------------------------------------------------------------
(* Operations that touch neither the lifecycle nor the terminal files *)

EventStep(t) ==
    /\ UNCHANGED <<bundle, mem>> /\ rec' \in {rec, [rec EXCEPT !.events = @ + 1]}
    /\ todo[t] # <<>> /\ Head(todo[t]).op \notin {"move", "bind", "bundle"}
    /\ UNCHANGED faults \/ \E kind \in FaultKinds : faults' = Append(faults, kind)
    /\ \/ Stays(t) /\ hold'[t].at \in {"read", "written", "loaded"}
       \/ Finishes(t) \/ Raises(t)

LEMMA StoreSteps ==
    ASSUME Shaped, NEW t \in Threads, StoreStep(t)
    PROVE  EventStep(t)
  <1>1. CASE EmitRead(t)
    <2> DEFINE h == [at |-> "read", rec |-> rec]
    <2>1. IsHold(h) /\ h.at = "read"
      BY Holds
    <2>2. hold' = [hold EXCEPT ![t] = h] /\ UNCHANGED <<bundle, mem, rec, todo, raised, faults>>
      BY <1>1 DEF EmitRead
    <2> HIDE DEF h
    <2>3. Stays(t) /\ hold'[t].at = "read"
      BY <1>1, <2>1, <2>2, Effects DEF EmitRead, Doing
    <2>4. QED BY <1>1, <2>2, <2>3 DEF EmitRead, Doing, EventStep
  <1>2. CASE EmitWrite(t)
    <2>1. /\ UNCHANGED <<bundle, mem, rec>> /\ todo[t] # <<>> /\ Head(todo[t]).op = "emit"
          /\ UNCHANGED faults \/ \E kind \in FaultKinds : faults' = Append(faults, kind)
          /\ \/ Raise(t, "refused") \/ Raise(t, "fault")
             \/ hold' = [hold EXCEPT ![t].at = "written"] /\ UNCHANGED <<todo, raised>>
      BY <1>2 DEF EmitWrite, Doing, Fault
    <2> DEFINE h == [hold[t] EXCEPT !.at = "written"]
    <2>2. IsHold(h) /\ h.at = "written"
      BY Holds DEF Shaped
    <2>3. hold' = [hold EXCEPT ![t].at = "written"] => hold' = [hold EXCEPT ![t] = h]
      OBVIOUS
    <2> HIDE DEF h
    <2>4. Raises(t) \/ (Stays(t) /\ hold'[t].at = "written")
      BY <2>1, <2>2, <2>3, Effects
    <2>5. QED BY <2>1, <2>4 DEF EventStep
  <1>3. CASE EmitLoad(t)
    <2> DEFINE h == [at |-> "loaded", rec |-> rec]
    <2>1. IsHold(h) /\ h.at = "loaded"
      BY Holds
    <2>2. /\ UNCHANGED <<bundle, mem, rec, faults>> /\ todo[t] # <<>> /\ Head(todo[t]).op = "emit"
          /\ Raise(t, "refused") \/ (hold' = [hold EXCEPT ![t] = h] /\ UNCHANGED <<todo, raised>>)
      BY <1>3 DEF EmitLoad, Doing, Withdraw
    <2> HIDE DEF h
    <2>3. Raises(t) \/ (Stays(t) /\ hold'[t].at = "loaded")
      BY <2>1, <2>2, Effects
    <2>4. QED BY <2>2, <2>3 DEF EventStep
  <1>4. CASE EmitAnchor(t)
    <2>1. /\ UNCHANGED <<bundle, mem>> /\ todo[t] # <<>> /\ Head(todo[t]).op = "emit"
          /\ rec' \in {rec, [rec EXCEPT !.events = @ + 1]}
          /\ UNCHANGED faults \/ \E kind \in FaultKinds : faults' = Append(faults, kind)
          /\ Raise(t, "refused") \/ Raise(t, "fault") \/ Finish(t)
      BY <1>4 DEF EmitAnchor, Doing, Fault, Withdraw
    <2>2. Raises(t) \/ Finishes(t)
      BY <2>1, Effects
    <2>3. QED BY <2>1, <2>2 DEF EventStep
  <1>5. CASE ArtifactWrite(t) \/ OutsideWork(t) \/ Reserve(t) \/ Settle(t)
    <2>1. /\ todo[t] # <<>> /\ Head(todo[t]).op \notin {"move", "bind", "bundle"}
          /\ Finish(t) \/ Raise(t, "refused") \/ Raise(t, "fault")
          /\ UNCHANGED <<rec, bundle, mem>>
      BY <1>5 DEF ArtifactWrite, OutsideWork, Reserve, Settle, Doing
    <2>2. UNCHANGED faults \/ \E kind \in FaultKinds : faults' = Append(faults, kind)
      BY <1>5 DEF ArtifactWrite, OutsideWork, Reserve, Settle, Fault
    <2>3. Finishes(t) \/ Raises(t)
      BY <2>1, Effects
    <2>4. QED BY <2>1, <2>2, <2>3 DEF EventStep
  <1>6. QED BY <1>1, <1>2, <1>3, <1>4, <1>5 DEF StoreStep

(* More errors, never fewer. *)
LEMMA FaultsGrow ==
    ASSUME Shaped, UNCHANGED faults \/ \E kind \in FaultKinds : faults' = Append(faults, kind)
    PROVE  (Torn => Torn') /\ Len(faults) \in Nat /\ Len(faults') \in Nat /\ Len(faults) <= Len(faults')
  <1>1. faults \in Seq(FaultKinds) /\ Len(faults) \in Nat
    BY LenProperties DEF Shaped
  <1>2. CASE UNCHANGED faults
    BY <1>1, <1>2 DEF Torn
  <1>3. ASSUME NEW kind \in FaultKinds, faults' = Append(faults, kind)
        PROVE  (Torn => Torn') /\ Len(faults') = Len(faults) + 1
    BY <1>1, <1>3, FaultRemembered, AppendProperties DEF Torn, Late
  <1>4. QED BY <1>1, <1>2, <1>3

LEMMA EventStepInv ==
    ASSUME IInv, ErrorStops, TInv, NEW t \in Threads, EventStep(t), UNCHANGED <<pc, ended>>
    PROVE  TInv'
  <1>0. /\ Shaped /\ Coord \in Threads /\ IsScript(todo[Coord]) /\ IsRecord(rec)
        /\ UNCHANGED <<bundle, mem>>
    BY DEF IInv, Shaped, Threads, EventStep
  <1>1. /\ rec'.phase = rec.phase /\ rec'.snaps = rec.snaps /\ rec'.refs = rec.refs
        /\ rec'.revision = rec.revision /\ (ValidRecord(rec') <=> ValidRecord(rec))
    <2>1. CASE rec' = rec
      BY <2>1
    <2>2. CASE rec' = [rec EXCEPT !.events = @ + 1]
      BY <1>0, <2>2, AnchoredLifecycle
    <2>3. QED BY <2>1, <2>2 DEF EventStep
  <1>2. (Torn => Torn') /\ Len(faults) \in Nat /\ Len(faults') \in Nat /\ Len(faults) <= Len(faults')
    BY <1>0, FaultsGrow DEF EventStep
  <1>3. CASE t # Coord
    <2>1. todo'[Coord] = todo[Coord] /\ hold'[Coord] = hold[Coord] /\ raised'[Coord] = raised[Coord]
      BY <1>0, <1>3 DEF EventStep, Stays, Finishes, Raises, OnlyThread
    <2>2. hold[Coord].at # "moving"
      <3>1. ~Calm
        BY <1>3 DEF EventStep, Calm, Threads
      <3>2. ~Moving
        BY <1>0, <3>1, TransitionsAlone DEF Moving, Doing, Transition, IInv
      <3>3. QED BY <3>2 DEF TInv, CoordinatorInStep
    <2>3. RecordInv'
      BY <1>0, <1>1, <2>1 DEF TInv, RecordInv, Open
    <2>4. CoordinatorInStep'
      BY <2>1, <2>2 DEF TInv, CoordinatorInStep, Doing
    <2>5. PathInv'
      BY <1>0, <1>1, <2>1 DEF TInv, PathInv, Open, ToReport, ToBind, MayEnd
    <2>6. BundleInv'
      BY <1>0, <1>1, <1>2, <2>1 DEF TInv, BundleInv, Open, Doing
    <2>7. QED BY <2>3, <2>4, <2>5, <2>6 DEF TInv
  <1>4. CASE t = Coord
    <2> DEFINE s == todo[Coord]
    <2>1. /\ s # <<>> /\ Head(s).op \notin {"move", "bind", "bundle"} /\ raised[Coord] = "none"
          /\ ended = "no"
      BY <1>4 DEF EventStep, ErrorStops, TInv, CoordinatorInStep
    <2>2. /\ \/ todo'[Coord] = s /\ raised'[Coord] = "none"
             \/ todo'[Coord] = Tail(s) /\ raised'[Coord] = "none"
             \/ todo'[Coord] = <<>> /\ raised'[Coord] # "none"
          /\ hold'[Coord].at \notin {"moving", "linking"}
      BY <1>4, <2>1, Holds DEF EventStep, Stays, Finishes, Raises
    <2>3. RecordInv'
      BY <1>0, <1>1, <2>1 DEF TInv, RecordInv, Open
    <2>4. CoordinatorInStep'
      BY <2>1, <2>2 DEF CoordinatorInStep
    <2>5. PathInv'
      <3>1. CASE pc \notin TerminalPath
        <4>1. PlainScript(s) /\ PlainScript(Tail(s)) /\ PlainScript(<<>>)
          <5>1. PlainScript(<<>>)
            BY DEF PlainScript
          <5>2. QED BY <1>0, <2>1, <3>1, <5>1, PlainTail DEF TInv, PathInv
        <4>2. QED BY <1>0, <1>1, <2>2, <3>1, <4>1 DEF TInv, PathInv, Open
      <3>2. CASE pc \in TerminalPath
        <4>1. ~Open /\ Tail(s) = <<>>
          BY <2>1, <3>2, StageOf DEF TInv
        <4>2. ToAnnounce(s) /\ ToAnnounce(<<>>)
          BY <2>1, <3>2, <4>1 DEF TInv, PathInv, ToAnnounce
        <4>3. QED BY <1>1, <2>2, <3>2, <4>1, <4>2 DEF PathInv, Open
      <3>3. QED BY <3>1, <3>2
    <2>6. BundleInv'
      <3>1. Open => bundle = 0 \/ Len(faults) >= 2
        BY <1>2, <2>1 DEF TInv, BundleInv, Doing
      <3>2. QED BY <1>0, <1>1, <1>2, <3>1 DEF TInv, BundleInv, Open
    <2>7. QED BY <2>3, <2>4, <2>5, <2>6 DEF TInv
  <1>5. QED BY <1>3, <1>4

-----------------------------------------------------------------------------
(* The terminal files and the lifecycle *)

(* The coordinator at one of its own operations. *)
LEMMA AtOperation ==
    ASSUME IInv, ErrorStops, TInv, NEW name \in {"move", "bind", "bundle"}, Doing(Coord, name)
    PROVE  /\ raised[Coord] = "none" /\ ended = "no" /\ Open /\ IsScript(todo[Coord]) /\ todo[Coord] # <<>>
           /\ pc \notin TerminalPath => name = "move" /\ PlainOp(Head(todo[Coord])) /\ PlainScript(Tail(todo[Coord]))
           /\ pc \in TerminalPath =>
                 /\ name = "move" => todo[Coord] = Completing
                 /\ name = "bundle" => ToReport(todo[Coord])
                 /\ name = "bind" => ToBind(todo[Coord]) /\ bundle = 3
  <1>1. /\ raised[Coord] = "none" /\ ended = "no" /\ IsScript(todo[Coord]) /\ todo[Coord] # <<>>
        /\ Head(todo[Coord]).op = name
    BY DEF Doing, ErrorStops, TInv, CoordinatorInStep, IInv, Shaped, Threads
  <1>2. CASE pc \notin TerminalPath
    <2>1. Open /\ PlainScript(todo[Coord])
      BY <1>2 DEF TInv, PathInv
    <2>2. PlainOp(Head(todo[Coord])) /\ PlainScript(Tail(todo[Coord]))
      BY <1>1, <2>1, PlainTail
    <2>3. name = "move"
      BY <1>1, <2>2 DEF PlainOp
    <2>4. QED BY <1>1, <1>2, <2>1, <2>2, <2>3
  <1>3. CASE pc \in TerminalPath
    BY <1>1, <1>3, StageOf DEF TInv
  <1>4. QED BY <1>2, <1>3

LEMMA BundleStepInv ==
    ASSUME IInv, ErrorStops, TInv, BundleBegin \/ BundleLink, UNCHANGED <<pc, ended>>
    PROVE  TInv'
  <1> DEFINE s == todo[Coord]
  <1>1. /\ Doing(Coord, "bundle") /\ UNCHANGED <<rec, mem>> /\ Shaped /\ Coord \in Threads
        /\ s # <<>> /\ Head(s).op = "bundle"
    BY DEF BundleBegin, BundleLink, Doing, IInv, Threads
  <1>2. raised[Coord] = "none" /\ ended = "no" /\ Open /\ pc \in TerminalPath /\ ToReport(s)
    BY <1>1, AtOperation
  <1>3. UNCHANGED faults \/ \E kind \in FaultKinds : faults' = Append(faults, kind)
    BY DEF BundleBegin, BundleLink, Fault
  <1>4. (Torn => Torn') /\ Len(faults) \in Nat /\ Len(faults') \in Nat /\ Len(faults) <= Len(faults')
    BY <1>1, <1>3, FaultsGrow
  <1>5. ToBind(Tail(s)) /\ Tail(s) # <<>> /\ Head(Tail(s)).op = "bind"
    BY <1>2, Stages DEF ToReport, ToBind
  <1>6. /\ bundle' \in 0..3
        /\ \/ todo'[Coord] = s /\ raised'[Coord] = "none" /\ hold'[Coord].at = "linking"
           \/ todo'[Coord] = Tail(s) /\ raised'[Coord] = "none" /\ hold'[Coord].at = "start" /\ bundle' = 3
           \/ todo'[Coord] = <<>> /\ raised'[Coord] # "none" /\ hold'[Coord].at = "start"
              /\ (bundle' = 0 \/ Len(faults) >= 2)
    <2>1. bundle \in 0..3 /\ (At(Coord, "linking") \/ bundle = 0 \/ Len(faults) >= 2)
      BY <1>1, <1>2, <1>4 DEF TInv, BundleInv, Doing, At
    <2>2. CASE BundleBegin
      <3>1. CASE hold' = [hold EXCEPT ![Coord].at = "linking"] /\ UNCHANGED <<todo, raised, bundle>>
        <4>1. hold'[Coord] = [hold[Coord] EXCEPT !.at = "linking"] /\ IsHold(hold[Coord])
          BY <1>1, <3>1 DEF Shaped
        <4>2. hold'[Coord].at = "linking"
          BY <4>1, Holds
        <4>3. todo'[Coord] = s /\ raised'[Coord] = "none" /\ bundle' \in 0..3
          BY <1>2, <2>1, <3>1
        <4>4. QED BY <4>2, <4>3
      <3>2. CASE Raise(Coord, "refused") /\ UNCHANGED bundle
        <4>1. Raises(Coord) /\ hold'[Coord].at = "start"
          BY <1>1, <3>2, Effects, Holds DEF Raises
        <4>2. hold[Coord].at = "start"
          BY <2>2 DEF BundleBegin, At
        <4>3. QED BY <2>1, <3>2, <4>1, <4>2 DEF Raises, At
      <3>3. QED BY <2>2, <3>1, <3>2 DEF BundleBegin
    <2>3. CASE BundleLink
      <3>1. CASE bundle < 3 /\ bundle' = bundle + 1 /\ UNCHANGED <<todo, hold, raised>>
        BY <1>2, <2>1, <2>3, <3>1 DEF BundleLink, At
      <3>2. CASE bundle = 3 /\ Finish(Coord) /\ UNCHANGED bundle
        <4>1. Finishes(Coord) /\ hold'[Coord].at = "start"
          BY <1>1, <3>2, Effects, Holds DEF Finishes
        <4>2. QED BY <1>2, <3>2, <4>1 DEF Finishes
      <3>3. CASE bundle' = 0 /\ Raise(Coord, "fault")
        <4>1. Raises(Coord) /\ hold'[Coord].at = "start"
          BY <1>1, <3>3, Effects, Holds DEF Raises
        <4>2. QED BY <3>3, <4>1 DEF Raises
      <3>4. QED BY <2>3, <3>1, <3>2, <3>3 DEF BundleLink
    <2>4. QED BY <2>2, <2>3
  <1>7. RecordInv'
    BY <1>1, <1>2 DEF TInv, RecordInv, Open
  <1>8. CoordinatorInStep'
    BY <1>1, <1>2, <1>6 DEF CoordinatorInStep, Doing
  <1>9. PathInv'
    BY <1>1, <1>2, <1>5, <1>6 DEF PathInv, Open, ToReport, ToBind, MayEnd
  <1>10. BundleInv'
    <2>1. Open' /\ bundle' \in 0..3
      BY <1>1, <1>2, <1>6 DEF Open
    <2>2. CASE todo'[Coord] = s /\ hold'[Coord].at = "linking"
      BY <1>1, <2>1, <2>2 DEF BundleInv, Doing
    <2>3. CASE todo'[Coord] = Tail(s)
      BY <1>5, <2>1, <2>3 DEF BundleInv, Doing
    <2>4. CASE bundle' = 0 \/ Len(faults) >= 2
      BY <1>4, <2>1, <2>4 DEF BundleInv
    <2>5. QED BY <1>6, <2>2, <2>3, <2>4
  <1>11. QED BY <1>7, <1>8, <1>9, <1>10 DEF TInv

(* A transition is never built from a stale record. *)
LEMMA MoveLoadInv ==
    ASSUME IInv, ErrorStops, TInv, MoveLoad, UNCHANGED <<pc, ended>>
    PROVE  TInv'
  <1> DEFINE h == [at |-> "moving", rec |-> rec]
  <1>1. Moving /\ UNCHANGED <<rec, mem>> /\ Coord \in Threads /\ Shaped
    BY DEF MoveLoad, IInv, Threads
  <1>2. raised[Coord] = "none" /\ ended = "no" /\ Open
    BY <1>1, AtOperation DEF Moving
  <1>3. rec.revision = mem
    BY <1>2 DEF TInv, RecordInv
  <1>4. hold' = [hold EXCEPT ![Coord] = h] /\ UNCHANGED <<todo, raised, bundle, faults>>
    BY <1>2, <1>3 DEF MoveLoad, Open
  <1>5. h.at = "moving" /\ h.rec = rec
    OBVIOUS
  <1> HIDE DEF h
  <1>6. hold'[Coord].at = "moving" /\ hold'[Coord].rec = rec
    BY <1>1, <1>4, <1>5 DEF Shaped
  <1>7. RecordInv' /\ PathInv'
    BY <1>1, <1>4 DEF TInv, RecordInv, PathInv, Open, ToReport, ToBind, MayEnd
  <1>8. CoordinatorInStep'
    BY <1>1, <1>2, <1>4, <1>6 DEF CoordinatorInStep, Moving, Doing
  <1>9. BundleInv'
    BY <1>1, <1>4 DEF TInv, BundleInv, Open, Doing, Torn, MoveLoad, At, Moving
  <1>10. QED BY <1>7, <1>8, <1>9 DEF TInv

(* A transition that is not the last one: it leaves the terminal files alone. *)
LEMMA PlainMoveInv ==
    ASSUME IInv, ErrorStops, TInv, MoveReplace, Doing(Coord, "move"), UNCHANGED <<pc, ended>>
    PROVE  TInv'
  <1> DEFINE s == todo[Coord]
             op == Head(s)
             n == Moved(rec, op)
  <1>1. /\ Shaped /\ Coord \in Threads /\ s # <<>> /\ op.op = "move" /\ ~Doing(Coord, "bind")
        /\ hold[Coord].rec = rec /\ hold[Coord].at = "moving"
    BY DEF Doing, IInv, Threads, MoveReplace, At, TInv, CoordinatorInStep
  <1>2. /\ raised[Coord] = "none" /\ ended = "no" /\ Open
        /\ pc \notin TerminalPath => PlainOp(op) /\ PlainScript(Tail(s))
        /\ pc \in TerminalPath => s = Completing
    BY AtOperation
  <1>3. op.to \notin Terminal /\ Report \notin op.refs /\ (pc \in TerminalPath => op.to = "delivering")
    <2>1. CASE pc \notin TerminalPath
      BY <1>1, <1>2, <2>1 DEF PlainOp
    <2>2. CASE pc \in TerminalPath
      <3>1. op = Decided("delivering", "accept")
        BY <1>2, <2>2, Stages
      <3>2. QED BY <3>1 DEF Decided, Move, Terminal
    <2>3. QED BY <2>1, <2>2
  <1>4. /\ UNCHANGED bundle
        /\ UNCHANGED faults \/ \E kind \in FaultKinds : faults' = Append(faults, kind)
        /\ \/ Raise(Coord, "refused") /\ rec' = rec
           \/ Raise(Coord, "fault") /\ MoveAccepted(rec, op) /\ rec' \in {rec, n}
           \/ Finish(Coord) /\ MoveAccepted(rec, op) /\ rec' = n /\ mem' = n.revision
    BY <1>1 DEF MoveReplace, Unbind
  <1>5. (Torn => Torn') /\ Len(faults) \in Nat /\ Len(faults') \in Nat /\ Len(faults) <= Len(faults')
    BY <1>1, <1>4, FaultsGrow
  <1>6. n.phase = op.to
    BY <1>1, MovedFields DEF Shaped
  <1>7. MoveAccepted(rec, op) => /\ ValidRecord(n) /\ n.phase \in Phases
                                 /\ n.phase \in BeforeWorkspace => n.snaps = 0
                                 /\ n.phase \notin Terminal => Report \notin n.refs
    BY <1>1, <1>2, <1>3, AcceptedRecord DEF TInv
  <1> HIDE DEF n
  <1>8. /\ Open' /\ hold'[Coord].at = "start"
        /\ ValidRecord(rec') /\ rec'.phase \in Phases
        /\ rec'.phase \in BeforeWorkspace => rec'.snaps = 0
        /\ Report \notin rec'.refs
        /\ \/ todo'[Coord] = <<>> /\ raised'[Coord] # "none"
           \/ todo'[Coord] = Tail(s) /\ mem' = rec'.revision /\ rec'.phase = op.to
    <2>1. /\ ValidRecord(rec) /\ rec.phase \in Phases /\ rec.phase \notin Terminal
          /\ rec.phase \in BeforeWorkspace => rec.snaps = 0
          /\ Report \notin rec.refs
      BY <1>2 DEF TInv, RecordInv, Open
    <2>2. rec' = rec \/ (MoveAccepted(rec, op) /\ rec' = n)
      BY <1>4
    <2>3. /\ ValidRecord(rec') /\ rec'.phase \in Phases /\ rec'.phase \notin Terminal
          /\ rec'.phase \in BeforeWorkspace => rec'.snaps = 0
          /\ Report \notin rec'.refs
      <3>1. CASE rec' = rec
        BY <2>1, <3>1
      <3>2. CASE MoveAccepted(rec, op) /\ rec' = n
        BY <1>3, <1>6, <1>7, <3>2
      <3>3. QED BY <2>2, <3>1, <3>2
    <2>4. Raises(Coord) \/ (Finishes(Coord) /\ rec' = n /\ mem' = n.revision)
      BY <1>1, <1>4, Effects
    <2>5. QED BY <1>6, <2>3, <2>4, Holds DEF Open, Raises, Finishes
  <1>9. RecordInv'
    BY <1>8 DEF RecordInv
  <1>10. CoordinatorInStep'
    BY <1>2, <1>8 DEF CoordinatorInStep
  <1>11. PathInv'
    <2>1. CASE pc \notin TerminalPath
      <3>1. bundle = 0 /\ PlainScript(<<>>)
        BY <2>1 DEF TInv, PathInv, PlainScript
      <3>2. QED BY <1>2, <1>4, <1>8, <2>1, <3>1 DEF PathInv
    <2>2. CASE pc \in TerminalPath
      <3>1. /\ Tail(s) = <<WriteBundle("completed"), Bind("completed", "succeeded"), Emit("completed")>>
        BY <1>2, <2>2, Stages
      <3>2. rec'.phase = op.to => MayEnd("completed", "succeeded")'
        BY <1>3, <2>2 DEF MayEnd
      <3>3. todo'[Coord] = Tail(s) /\ rec'.phase = op.to => ToReport(todo[Coord])'
        BY <3>1, <3>2 DEF ToReport, MayEnd
      <3>4. QED BY <1>2, <1>8, <2>2, <3>3 DEF PathInv
    <2>3. QED BY <2>1, <2>2
  <1>12. BundleInv'
    <2>1. bundle \in 0..3 /\ (bundle = 0 \/ Len(faults) >= 2)
      BY <1>1, <1>2, <1>5 DEF TInv, BundleInv, Doing
    <2>2. QED BY <1>4, <1>5, <1>8, <2>1 DEF BundleInv
  <1>13. QED BY <1>9, <1>10, <1>11, <1>12 DEF TInv

(* The last transition is never refused.  An error before it takes the terminal
   files back, or is the second error when one of them stays. *)
LEMMA BindInv ==
    ASSUME IInv, ErrorStops, TInv, MoveReplace, Doing(Coord, "bind"), UNCHANGED <<pc, ended>>
    PROVE  TInv'
  <1> DEFINE s == todo[Coord]
             op == Head(s)
             n == Moved(rec, op)
             Failed(kind) == /\ rec' = IF kind = "late" THEN n ELSE rec
                             /\ Unbind("fault", Append(faults, kind))
  <1>1. /\ Shaped /\ Coord \in Threads /\ s # <<>>
        /\ hold[Coord].rec = rec /\ hold[Coord].at = "moving"
    BY DEF Doing, IInv, Threads, MoveReplace, At, TInv, CoordinatorInStep
  <1>2. raised[Coord] = "none" /\ ended = "no" /\ Open /\ pc \in TerminalPath /\ ToBind(s) /\ bundle = 3
    BY AtOperation
  <1>3. PICK to, reason : s = <<Bind(to, reason), Emit(to)>> /\ MayEnd(to, reason)
    BY <1>2 DEF ToBind
  <1>4. op = Bind(to, reason) /\ Tail(s) = <<Emit(to)>> /\ op.to = to /\ to \in Terminal
    BY <1>3, Stages DEF Bind, MayEnd, Terminal
  <1>5. MoveAccepted(rec, op)
    BY <1>1, <1>2, <1>3, <1>4, EndAccepted DEF TInv
  <1>6. /\ n.phase = to /\ ValidRecord(n) /\ n.phase \in Phases
        /\ n.phase \in BeforeWorkspace => n.snaps = 0
    BY <1>1, <1>2, <1>4, <1>5, MovedFields, AcceptedRecord DEF TInv, Shaped
  <1>7. \/ rec' = n /\ mem' = n.revision /\ Finish(Coord) /\ UNCHANGED <<bundle, faults>>
        \/ \E kind \in FaultKinds : Failed(kind)
    <2>1. /\ n = Moved(hold[Coord].rec, Head(todo[Coord]))
          /\ rec = hold[Coord].rec /\ MoveAccepted(rec, Head(todo[Coord]))
      BY <1>1, <1>5
    <2> HIDE DEF n, op
    <2>2. QED BY <2>1 DEF MoveReplace
  <1> HIDE DEF n, op
  <1>8. CASE rec' = n /\ mem' = n.revision /\ Finish(Coord) /\ UNCHANGED <<bundle, faults>>
    <2>1. todo'[Coord] = Tail(s) /\ hold'[Coord].at = "start" /\ raised'[Coord] = "none"
      BY <1>1, <1>2, <1>8, Effects, Holds DEF Finishes
    <2>2. ~Open' /\ bundle' = 3
      BY <1>2, <1>4, <1>6, <1>8 DEF Open
    <2>3. RecordInv'
      BY <1>6, <1>8, <2>2 DEF RecordInv
    <2>4. CoordinatorInStep'
      BY <1>2, <2>1 DEF CoordinatorInStep
    <2>5. PathInv'
      BY <1>2, <1>4, <2>1, <2>2 DEF PathInv, ToAnnounce
    <2>6. BundleInv'
      BY <2>2 DEF BundleInv
    <2>7. QED BY <2>3, <2>4, <2>5, <2>6 DEF TInv
  <1>9. ASSUME NEW kind \in FaultKinds, Failed(kind) PROVE TInv'
    <2>1. todo'[Coord] = <<>> /\ hold'[Coord].at = "start" /\ raised'[Coord] # "none"
      BY <1>1, <1>9, UnbindRaises, Holds DEF Raises
    <2>2. \/ bundle' = 0 /\ faults' = Append(faults, kind)
          \/ /\ "early" \in FaultKinds /\ bundle' \in 1..3
             /\ faults' = Append(Append(faults, kind), "early")
      BY <1>2, <1>9 DEF Unbind
    <2>3. /\ Append(faults, kind) \in Seq(FaultKinds) /\ Len(Append(faults, kind)) = Len(faults) + 1
          /\ Len(faults) \in Nat /\ (kind = "late" => Late(Append(faults, kind)))
      BY <1>1, FaultRemembered, AppendProperties, LenProperties DEF Shaped
    <2>4. (kind = "late" => Torn') /\ (bundle' = 0 \/ Len(faults') >= 2) /\ bundle' \in 0..3
      <3>1. CASE bundle' = 0 /\ faults' = Append(faults, kind)
        BY <2>3, <3>1 DEF Torn, Late
      <3>2. CASE /\ "early" \in FaultKinds /\ bundle' \in 1..3
                 /\ faults' = Append(Append(faults, kind), "early")
        <4> DEFINE f == Append(faults, kind)
        <4> HIDE DEF f
        <4>1. Len(Append(f, "early")) = Len(f) + 1 /\ (Late(f) => Late(Append(f, "early")))
          BY <2>3, <3>2, FaultRemembered, AppendProperties DEF f
        <4>2. faults' = Append(f, "early") /\ Len(f) = Len(faults) + 1 /\ (kind = "late" => Late(f))
          BY <2>3, <3>2 DEF f
        <4>3. QED BY <2>3, <3>2, <4>1, <4>2 DEF Torn, Late
      <3>3. QED BY <2>2, <3>1, <3>2
    <2>5. RecordInv' /\ (kind # "late" => Open')
      <3>1. CASE kind = "late"
        BY <1>4, <1>6, <1>9, <2>1, <3>1 DEF RecordInv, Open
      <3>2. CASE kind # "late"
        BY <1>2, <1>9, <2>1, <3>2 DEF TInv, RecordInv, Open
      <3>3. QED BY <3>1, <3>2
    <2>6. CoordinatorInStep' /\ PathInv'
      BY <1>2, <2>1 DEF CoordinatorInStep, PathInv
    <2>7. BundleInv'
      BY <2>4, <2>5 DEF BundleInv
    <2>8. QED BY <2>5, <2>6, <2>7 DEF TInv
  <1>10. QED BY <1>7, <1>8, <1>9

LEMMA StoreTInv ==
    ASSUME IInv, ErrorStops, TInv, StoreNext, UNCHANGED <<pc, ended>>
    PROVE  TInv'
  <1>1. Shaped
    BY DEF IInv
  <1>2. QED BY <1>1, StoreSteps, EventStepInv, BundleStepInv, MoveLoadInv, PlainMoveInv, BindInv
            DEF StoreNext, MoveReplace, Moving

-----------------------------------------------------------------------------
(* The scripts of the coordinators *)

LEMMA PlainScripts ==
    ASSUME NEW a, NEW b, NEW c, NEW d, NEW e, NEW f
    PROVE  /\ PlainScript(<<>>)
           /\ PlainOp(a) => PlainScript(<<a>>)
           /\ PlainOp(a) /\ PlainOp(b) => PlainScript(<<a, b>>)
           /\ PlainOp(a) /\ PlainOp(b) /\ PlainOp(c) => PlainScript(<<a, b, c>>)
           /\ PlainOp(a) /\ PlainOp(b) /\ PlainOp(c) /\ PlainOp(d) => PlainScript(<<a, b, c, d>>)
           /\ PlainOp(a) /\ PlainOp(b) /\ PlainOp(c) /\ PlainOp(d) /\ PlainOp(e) =>
                 /\ PlainScript(<<a, b, c, d, e>>)
                 /\ PlainOp(f) => PlainScript(<<a, b, c, d, e, f>>)
  BY DEF PlainScript

LEMMA PlainConcat ==
    ASSUME NEW s, NEW r, IsScript(s), IsScript(r), PlainScript(s), PlainScript(r)
    PROVE  PlainScript(s \o r)
  <1> DEFINE S == {s[i] : i \in 1..Len(s)} \cup {r[i] : i \in 1..Len(r)}
  <1>1. (\A i \in 1..Len(s) : s[i] \in S) /\ (\A i \in 1..Len(r) : r[i] \in S)
    OBVIOUS
  <1> HIDE DEF S
  <1>2. s \in Seq(S) /\ r \in Seq(S)
    BY <1>1, SeqOf DEF IsScript
  <1>3. /\ Len(s) \in Nat /\ Len(r) \in Nat /\ Len(s \o r) = Len(s) + Len(r)
        /\ \A i \in 1..Len(s) + Len(r) : (s \o r)[i] = IF i <= Len(s) THEN s[i] ELSE r[i - Len(s)]
    BY <1>2, ConcatProperties, LenProperties
  <1>4. QED BY <1>3 DEF PlainScript

LEMMA PlainOps ==
    /\ \A p : PlainOp(Emit(p))
    /\ \A name \in {"prepare", "gate", "artifact"} : PlainOp(Work(name))
    /\ \A r : PlainOp(WriteIteration(r))
    /\ \A to, refs : to \notin Terminal /\ Report \notin refs => PlainOp(Move(to, refs))
    /\ PlainOp(Decided("implementing", "revise"))
    /\ \A kind, agents : kind # "final_report" => Report \notin Refs(kind, agents)
  <1>1. /\ \A p : PlainOp(Emit(p))
        /\ \A name \in {"prepare", "gate", "artifact"} : PlainOp(Work(name))
        /\ \A r : PlainOp(WriteIteration(r))
    BY DEF PlainOp, Emit, Work, WriteIteration
  <1>2. \A to, refs : to \notin Terminal /\ Report \notin refs => PlainOp(Move(to, refs))
    BY DEF PlainOp, Move
  <1>3. PlainOp(Decided("implementing", "revise"))
    BY DEF PlainOp, Decided, Move, Terminal
  <1>4. \A kind, agents : kind # "final_report" => Report \notin Refs(kind, agents)
    BY DEF Refs, Report
  <1>5. QED BY <1>1, <1>2, <1>3, <1>4

-----------------------------------------------------------------------------
(* The steps of the coordinators *)

(* A step of another thread. *)
LEMMA BesideCoordinator ==
    ASSUME TInv, UNCHANGED <<rec, bundle, faults, mem, pc, ended>>, todo'[Coord] = todo[Coord],
           raised'[Coord] = raised[Coord], hold'[Coord] = hold[Coord]
    PROVE  TInv'
  <1>1. RecordInv' /\ CoordinatorInStep'
    BY DEF TInv, RecordInv, CoordinatorInStep, Open, Moving, Doing
  <1>2. PathInv' /\ BundleInv'
    BY DEF TInv, PathInv, BundleInv, Open, ToReport, ToBind, MayEnd, Doing, Torn
  <1>3. QED BY <1>1, <1>2 DEF TInv

(* The coordinator between two scripts. *)
LEMMA BetweenScripts ==
    ASSUME IInv, TInv, pc \notin TerminalPath, todo[Coord] = <<>>, raised[Coord] = "none", ended = "no"
    PROVE  /\ hold[Coord].at = "start" /\ Open /\ bundle = 0 /\ mem = rec.revision
  BY DEF IInv, StoreInv, ThreadsInStep, Threads, TInv, PathInv, RecordInv

(* It goes on with a plain script, or raises. *)
LEMMA GoesOn ==
    ASSUME IInv, TInv, pc \notin TerminalPath, todo[Coord] = <<>>, raised[Coord] = "none", ended = "no",
           Quiet, UNCHANGED <<mem, ended>>, pc' \notin TerminalPath, PlainScript(todo'[Coord])
    PROVE  TInv'
  <1>1. hold[Coord].at = "start" /\ Open /\ bundle = 0 /\ mem = rec.revision
    BY BetweenScripts
  <1>2. UNCHANGED <<rec, bundle, hold, faults>>
    BY DEF Quiet
  <1>3. RecordInv' /\ CoordinatorInStep'
    BY <1>1, <1>2 DEF TInv, RecordInv, CoordinatorInStep, Open
  <1>4. PathInv' /\ BundleInv'
    BY <1>1, <1>2 DEF PathInv, BundleInv, Open
  <1>5. QED BY <1>3, <1>4 DEF TInv

(* It takes a terminal path. *)
LEMMA TakesTerminalPath ==
    ASSUME IInv, TInv, hold[Coord].at = "start", Open, bundle = 0 \/ Len(faults) >= 2, mem' = rec.revision,
           todo[Coord] = <<>>, ended = "no", Quiet, UNCHANGED ended,
           NEW s, NEW place \in TerminalPath, Run(s, place),
           s = Completing \/ \E reason : s = Failing(reason) /\ reason \notin {"none", "succeeded"}
    PROVE  TInv'
  <1>1. UNCHANGED <<rec, bundle, hold, faults>>
    BY DEF Quiet
  <1>2. todo'[Coord] = s /\ pc' = place
    BY DEF Run, IInv, Shaped, Threads
  <1>3. RecordInv' /\ CoordinatorInStep'
    BY <1>1 DEF TInv, RecordInv, CoordinatorInStep, Open
  <1>4. PathInv'
    <2>1. Open' /\ pc' \in TerminalPath
      BY <1>1, <1>2 DEF Open
    <2>2. todo'[Coord] = Completing \/ ToReport(todo[Coord])'
      BY <1>2 DEF ToReport, Failing, MayEnd
    <2>3. QED BY <2>1, <2>2 DEF PathInv
  <1>5. BundleInv'
    <2>1. Len(faults) \in Nat /\ bundle \in 0..3
      BY LenProperties DEF IInv, Shaped, TInv, BundleInv
    <2>2. QED BY <1>1, <2>1 DEF BundleInv, Open
  <1>6. QED BY <1>3, <1>4, <1>5 DEF TInv

LEMMA LeavingTInv ==
    ASSUME IInv, ErrorStops, TInv, Return \/ Catch
    PROVE  TInv'
  <1>1. CASE UNCHANGED <<todo, mem, raised, pc>> /\ todo[Coord] = <<>> /\ Quiet
    <2>1. UNCHANGED <<rec, bundle, hold, faults>>
      BY <1>1 DEF Quiet
    <2>2. CoordinatorInStep'
      BY <1>1, <2>1 DEF TInv, CoordinatorInStep, Moving, Doing
    <2>3. RecordInv' /\ PathInv' /\ BundleInv'
      BY <1>1, <2>1 DEF TInv, RecordInv, PathInv, BundleInv, Open, ToReport, ToBind, MayEnd, Doing, Torn
    <2>4. QED BY <2>2, <2>3 DEF TInv
  <1>2. CASE Return
    BY <1>1, <1>2 DEF Return, Ready
  <1>3. CASE Catch
    <2>1. todo[Coord] = <<>> /\ Quiet /\ ended = "no"
      BY <1>3 DEF Catch, ErrorStops
    <2>2. CASE UNCHANGED <<todo, mem, raised, pc>>
      BY <1>1, <2>1, <2>2
    <2>3. CASE ~UNCHANGED <<todo, mem, raised, pc>>
      <3>1. /\ Run(Failing("controller_error"), "handling") /\ mem' = rec.revision
            /\ Open /\ UNCHANGED ended
        BY <1>3, <2>3 DEF Catch, Open
      <3>2. hold[Coord].at = "start"
        BY <2>1 DEF IInv, StoreInv, ThreadsInStep, Threads
      <3>3. bundle = 0 \/ Len(faults) >= 2
        <4>1. Len(faults) \in Nat
          BY LenProperties DEF IInv, Shaped
        <4>2. QED BY <2>1, <3>1, <4>1 DEF TInv, BundleInv, Doing
      <3>4. "handling" \in TerminalPath
        BY DEF TerminalPath
      <3>5. QED BY <2>1, <3>1, <3>2, <3>3, <3>4, TakesTerminalPath
    <2>4. QED BY <2>2, <2>3
  <1>4. QED BY <1>2, <1>3

(* It runs a plain script. *)
LEMMA RunsPlain ==
    ASSUME IInv, TInv, NEW here, here \notin TerminalPath, Ready(here), Quiet, UNCHANGED <<mem, ended>>,
           NEW s, NEW place, Run(s, place), place \notin TerminalPath, PlainScript(s)
    PROVE  TInv'
  <1>1. todo'[Coord] = s /\ pc' = place
    BY DEF Run, IInv, Shaped, Threads
  <1>2. QED BY <1>1, GoesOn DEF Ready

(* It raises, and its script stays empty. *)
LEMMA RaisesPlain ==
    ASSUME IInv, TInv, NEW here, here \notin TerminalPath, Ready(here), Quiet, UNCHANGED <<mem, ended, todo, pc>>
    PROVE  TInv'
  <1>1. PlainScript(todo'[Coord])
    BY PlainScripts DEF Ready
  <1>2. QED BY <1>1, GoesOn DEF Ready

LEMMA EndsRun ==
    ASSUME IInv, TInv, NEW here, here \notin TerminalPath, Ready(here), Quiet, UNCHANGED <<mem, ended>>,
           NEW s, Run(s, "ending"),
           s = Completing \/ \E reason : s = Failing(reason) /\ reason \notin {"none", "succeeded"}
    PROVE  TInv'
  <1>1. hold[Coord].at = "start" /\ Open /\ bundle = 0 /\ mem = rec.revision
    BY BetweenScripts DEF Ready
  <1>2. "ending" \in TerminalPath
    BY DEF TerminalPath
  <1>3. QED BY <1>1, <1>2, TakesTerminalPath DEF Ready

LEMMA DynamicTInv ==
    ASSUME IInv, ErrorStops, TInv, mode = "dynamic",
           \/ DynamicBegin \/ StartSchedule \/ Submit \/ UserStop \/ EndSchedule
           \/ AfterSchedule \/ RecordDecision \/ ActOnDecision
           \/ \E a \in Dynamic : Launch(a) \/ AgentEnds(a) \/ Collect(a)
    PROVE  TInv'
  <1>0. /\ \A p \in {"boot", "revise", "schedule", "submit", "scheduled", "decide", "act"} : p \notin TerminalPath
        /\ \A p \in {"preparing_workspace", "planning", "implementing", "snapshotting", "verifying",
                      "reviewing", "deciding"} : p \notin Terminal
    BY DEF TerminalPath, Terminal
  <1>1. CASE DynamicBegin
    <2> DEFINE s == <<Move("preparing_workspace", {}), Work("prepare"), Move("planning", {}),
                      Emit("planning"), Move("implementing", {})>>
    <2>1. PlainScript(s)
      BY <1>0, PlainOps, PlainScripts
    <2> HIDE DEF s
    <2>2. Ready("boot") /\ Run(s, "revise") /\ Quiet /\ UNCHANGED <<mem, ended>>
      BY <1>1 DEF DynamicBegin, s
    <2>3. QED BY <1>0, <2>1, <2>2, RunsPlain
  <1>2. CASE StartSchedule
    <2>1. PlainScript(<<Emit("any")>>)
      BY PlainOps, PlainScripts
    <2>2. Ready("revise") /\ Run(<<Emit("any")>>, "schedule") /\ Quiet /\ UNCHANGED <<mem, ended>>
      BY <1>2 DEF StartSchedule
    <2>3. QED BY <1>0, <2>1, <2>2, RunsPlain
  <1>3. CASE Submit
    <2>1. Ready("submit") /\ Quiet /\ UNCHANGED <<mem, ended>> /\ pc' = "schedule"
      BY <1>3 DEF Submit
    <2>2. todo'[Coord] = <<>>
      <3>1. starting \in Dynamic
        BY <2>1 DEF IInv, WorkflowInv, ScheduleInv, Ready
      <3>2. starting # Coord
        BY <3>1, TeamAssumption, StoresAssumption
      <3>3. QED BY <1>3, <2>1, <3>2 DEF Submit, Ready, IInv, Shaped, Threads
    <2>3. PlainScript(todo'[Coord])
      BY <2>2, PlainScripts
    <2>4. QED BY <1>0, <2>1, <2>3, GoesOn DEF Ready
  <1>4. CASE UserStop
    BY <1>4, BesideCoordinator DEF UserStop, Quiet
  <1>5. CASE EndSchedule
    <2>1. PlainScript(<<Emit("any")>>) /\ PlainScript(<<>>)
      BY PlainOps, PlainScripts
    <2>2. /\ Ready("schedule") /\ Quiet /\ UNCHANGED <<mem, ended>>
          /\ Run(<<>>, "scheduled") \/ Run(<<Emit("any")>>, "scheduled")
      BY <1>5 DEF EndSchedule
    <2>3. QED BY <1>0, <2>1, <2>2, RunsPlain
  <1>6. CASE AfterSchedule
    <2>1. /\ Ready("scheduled") /\ Quiet /\ UNCHANGED <<mem, ended>>
          /\ \/ stop \in {"user", "failed"} /\ Run(Failing(stop), "ending")
             \/ UNCHANGED <<todo, pc>>
             \/ \E agents : Run(<<Move("reviewing", Refs("test_report", agents))>>, "decide")
      BY <1>6 DEF AfterSchedule
    <2>2. CASE stop \in {"user", "failed"} /\ Run(Failing(stop), "ending")
      BY <1>0, <2>1, <2>2, EndsRun
    <2>3. CASE UNCHANGED <<todo, pc>>
      BY <1>0, <2>1, <2>3, RaisesPlain
    <2>4. ASSUME NEW agents, Run(<<Move("reviewing", Refs("test_report", agents))>>, "decide")
          PROVE  TInv'
      <3>1. PlainScript(<<Move("reviewing", Refs("test_report", agents))>>)
        BY <1>0, PlainOps, PlainScripts
      <3>2. QED BY <1>0, <2>1, <2>4, <3>1, RunsPlain
    <2>5. QED BY <2>1, <2>2, <2>3, <2>4
  <1>7. CASE RecordDecision
    <2>1. /\ Ready("decide") /\ Quiet /\ UNCHANGED <<mem, ended>>
          /\ \E r, refs : /\ refs = Refs("review_report", Collected(Reviewers)) \cup Refs("iteration_record", {Coord})
                          /\ Run(<<WriteIteration(r), Move("deciding", refs), Emit("deciding")>>, "act")
      BY <1>7 DEF RecordDecision
    <2>2. PICK r, refs : /\ refs = Refs("review_report", Collected(Reviewers)) \cup Refs("iteration_record", {Coord})
                         /\ Run(<<WriteIteration(r), Move("deciding", refs), Emit("deciding")>>, "act")
      BY <2>1
    <2>3. Report \notin refs
      BY <2>2, PlainOps
    <2>4. PlainScript(<<WriteIteration(r), Move("deciding", refs), Emit("deciding")>>)
      BY <1>0, <2>3, PlainOps, PlainScripts
    <2>5. QED BY <1>0, <2>1, <2>2, <2>4, RunsPlain
  <1>8. CASE ActOnDecision
    <2>1. /\ Ready("act") /\ Quiet /\ UNCHANGED <<mem, ended>>
          /\ \/ Run(Completing, "ending")
             \/ \E reason \in TerminationReasons : Run(Failing(reason), "ending")
             \/ Run(<<Decided("implementing", "revise")>>, "revise")
      BY <1>8 DEF ActOnDecision
    <2>2. CASE Run(Completing, "ending")
      BY <1>0, <2>1, <2>2, EndsRun
    <2>3. ASSUME NEW reason \in TerminationReasons, Run(Failing(reason), "ending") PROVE TInv'
      <3>1. reason \notin {"none", "succeeded"}
        BY <2>3 DEF TerminationReasons, FailedReview
      <3>2. QED BY <1>0, <2>1, <2>3, <3>1, EndsRun
    <2>4. CASE Run(<<Decided("implementing", "revise")>>, "revise")
      <3>1. PlainScript(<<Decided("implementing", "revise")>>)
        BY PlainOps, PlainScripts
      <3>2. QED BY <1>0, <2>1, <2>4, <3>1, RunsPlain
    <2>5. QED BY <2>1, <2>2, <2>3, <2>4
  <1>9. ASSUME NEW a \in Dynamic, Launch(a) PROVE TInv'
    <2>1. /\ Ready("schedule") /\ Quiet /\ UNCHANGED <<mem, ended>>
          /\ \/ Run(<<Emit("any")>>, "submit")
             \/ Run(<<Move("snapshotting", Refs("work_result", WriterSet)), Move("verifying", {}),
                      Emit("verifying"), Emit("verifying"), Emit("any")>>, "submit")
             \/ UNCHANGED <<todo, pc>>
      BY <1>9 DEF Launch
    <2>2. /\ PlainScript(<<Emit("any")>>)
          /\ PlainScript(<<Move("snapshotting", Refs("work_result", WriterSet)), Move("verifying", {}),
                           Emit("verifying"), Emit("verifying"), Emit("any")>>)
      BY <1>0, PlainOps, PlainScripts
    <2>3. QED BY <1>0, <2>1, <2>2, RunsPlain, RaisesPlain
  <1>10. ASSUME NEW a \in Dynamic, AgentEnds(a) PROVE TInv'
    BY <1>10, BesideCoordinator DEF AgentEnds, Quiet
  <1>11. ASSUME NEW a \in Dynamic, Collect(a) PROVE TInv'
    <2>1. PlainScript(<<Emit("any")>>)
      BY PlainOps, PlainScripts
    <2>2. Ready("schedule") /\ Run(<<Emit("any")>>, "schedule") /\ Quiet /\ UNCHANGED <<mem, ended>>
      BY <1>11 DEF Collect
    <2>3. QED BY <1>0, <2>1, <2>2, RunsPlain
  <1>12. QED BY <1>1, <1>2, <1>3, <1>4, <1>5, <1>6, <1>7, <1>8, <1>9, <1>10, <1>11

(* The fixed coordinator calls roles, and hands on what they returned. *)
LEMMA CallsPlain ==
    ASSUME IInv, TInv, NEW here, here \notin TerminalPath, Ready(here), Quiet, UNCHANGED <<mem, ended>>,
           NEW roles \in SUBSET Roles, NEW place, Call(roles, place), place \notin TerminalPath
    PROVE  TInv'
  <1>1. Coord \notin roles
    BY FixedAssumption, StoresAssumption
  <1>2. todo'[Coord] = <<>> /\ pc' = place
    BY <1>1 DEF Call, Ready, Threads
  <1>3. PlainScript(todo'[Coord])
    BY <1>2, PlainScripts
  <1>4. QED BY <1>2, <1>3, GoesOn DEF Ready

LEMMA ContinuesPlain ==
    ASSUME IInv, TInv, NEW here, here \notin TerminalPath, NEW roles, Joined(here, roles), Untouched,
           NEW s, NEW place, Continue(roles, s, place), place \notin TerminalPath, PlainScript(s)
    PROVE  TInv'
  <1>1. Ready(here) /\ Quiet /\ UNCHANGED <<mem, ended>>
    BY DEF Joined, Untouched
  <1>2. Run(s, place) \/ UNCHANGED <<todo, pc>>
    BY DEF Continue
  <1>3. QED BY <1>1, <1>2, RunsPlain, RaisesPlain

LEMMA FixedTInv ==
    ASSUME IInv, ErrorStops, TInv, mode # "dynamic", FixedNext
    PROVE  TInv'
  <1>0. /\ \A p \in {"boot", "plan", "planned", "implement", "implemented", "verify", "tested", "verified",
                      "judge", "conclude"} : p \notin TerminalPath
        /\ \A p \in {"preparing_workspace", "planning", "implementing", "snapshotting", "verifying",
                      "reviewing", "deciding"} : p \notin Terminal
        /\ {"planner"} \subseteq Roles /\ {"developer"} \subseteq Roles /\ {"tester"} \subseteq Roles
        /\ {"reviewer"} \subseteq Roles /\ {"tester", "reviewer"} \subseteq Roles
    BY DEF TerminalPath, Terminal, Roles
  <1>1. CASE FixedBegin
    <2> DEFINE s == <<Move("preparing_workspace", {}), Work("prepare"), Move("planning", {}), Emit("planning")>>
               r == IF mode = "single" THEN SingleStart ELSE <<>>
    <2>1. PlainScript(s) /\ IsScript(s)
      BY <1>0, PlainOps, PlainScripts, Scripts
    <2>2. PlainScript(r) /\ IsScript(r)
      <3>1. PlainScript(SingleStart) /\ PlainScript(<<>>) /\ IsScript(SingleStart) /\ IsScript(<<>>)
        BY <1>0, PlainOps, PlainScripts, Scripts DEF SingleStart
      <3>2. QED BY <3>1
    <2>3. \E place \in {"implement", "plan"} : Run(s \o r, place)
      BY <1>1 DEF FixedBegin
    <2> HIDE DEF s, r
    <2>4. PlainScript(s \o r)
      BY <2>1, <2>2, PlainConcat
    <2>5. Ready("boot") /\ Quiet /\ UNCHANGED <<mem, ended>>
      BY <1>1 DEF FixedBegin, Untouched
    <2>6. QED BY <1>0, <2>3, <2>4, <2>5, RunsPlain
  <1>2. CASE InvokePlanner \/ InvokeDeveloper
    BY <1>0, <1>2, CallsPlain DEF InvokePlanner, InvokeDeveloper, Untouched
  <1>3. CASE PlanReady
    <2>1. PlainScript(<<Work("artifact"), Move("implementing", Refs("implementation_plan", {"planner"}))>>)
      BY <1>0, PlainOps, PlainScripts
    <2>2. QED BY <1>0, <1>3, <2>1, ContinuesPlain DEF PlanReady
  <1>4. CASE WorkReady
    <2> DEFINE s == IF mode = "single" THEN SingleSnapshot
                    ELSE <<Move("snapshotting", Refs("work_result", {"developer"})), Move("verifying", {}),
                           Emit("verifying"), Work("artifact"), Emit("verifying"), Work("gate")>>
    <2>1. /\ PlainScript(SingleSnapshot)
          /\ PlainScript(<<Move("snapshotting", Refs("work_result", {"developer"})), Move("verifying", {}),
                           Emit("verifying"), Work("artifact"), Emit("verifying"), Work("gate")>>)
      BY <1>0, PlainOps, PlainScripts DEF SingleSnapshot
    <2>2. PlainScript(s)
      BY <2>1
    <2>3. Joined("implemented", {"developer"}) /\ Continue({"developer"}, s, "verify") /\ Untouched
      BY <1>4 DEF WorkReady
    <2> HIDE DEF s
    <2>4. QED BY <1>0, <2>2, <2>3, ContinuesPlain
  <1>5. CASE InvokeVerifiers
    <2>1. /\ Ready("verify") /\ Quiet /\ UNCHANGED <<mem, ended>>
          /\ \/ Run(SingleEvidence, "judge") \/ Call({"tester"}, "tested")
             \/ Call({"tester", "reviewer"}, "verified")
      BY <1>5 DEF InvokeVerifiers
    <2>2. PlainScript(SingleEvidence)
      BY <1>0, PlainOps, PlainScripts DEF SingleEvidence
    <2>3. QED BY <1>0, <2>1, <2>2, CallsPlain, RunsPlain
  <1>6. CASE InvokeReviewer
    <2>1. /\ Ready("tested") /\ Quiet /\ UNCHANGED <<mem, ended>>
          /\ UNCHANGED <<todo, pc>> \/ Call({"reviewer"}, "verified")
      BY <1>6 DEF InvokeReviewer, Joined, Untouched
    <2>2. QED BY <1>0, <2>1, CallsPlain, RaisesPlain
  <1>7. CASE EvidenceReady
    <2>1. PlainScript(<<Work("artifact"), Move("reviewing", Refs("test_report", {"tester"}))>>)
      BY <1>0, PlainOps, PlainScripts
    <2>2. QED BY <1>0, <1>7, <2>1, ContinuesPlain DEF EvidenceReady
  <1>8. CASE FixedJudge
    <2>1. PlainScript(SingleRecord)
      BY <1>0, PlainOps, PlainScripts DEF SingleRecord
    <2>2. PlainScript(FixedRecord)
      <3>1. Report \notin Refs("iteration_record", {Coord}) \cup Refs("review_report", {"reviewer"})
        BY PlainOps
      <3>2. QED BY <1>0, <3>1, PlainOps, PlainScripts DEF FixedRecord
    <2>3. /\ Ready("judge") /\ Quiet /\ UNCHANGED <<mem, ended>>
          /\ Run(SingleRecord, "conclude") \/ Run(FixedRecord, "conclude")
      BY <1>8 DEF FixedJudge
    <2>4. QED BY <1>0, <2>1, <2>2, <2>3, RunsPlain
  <1>9. CASE FixedConclude
    <2>1. /\ Ready("conclude") /\ Quiet /\ UNCHANGED <<mem, ended>>
          /\ \/ Run(Completing, "ending")
             \/ \E reason \in FixedTerminationReasons : Run(Failing(reason), "ending")
             \/ Run(<<Decided("implementing", "revise")>>, "implement")
      BY <1>9 DEF FixedConclude, FixedCompleting, FixedFailing, Untouched
    <2>2. CASE Run(Completing, "ending")
      BY <1>0, <2>1, <2>2, EndsRun
    <2>3. ASSUME NEW reason \in FixedTerminationReasons, Run(Failing(reason), "ending") PROVE TInv'
      <3>1. reason \notin {"none", "succeeded"}
        BY <2>3 DEF FixedTerminationReasons, FailedReview
      <3>2. QED BY <1>0, <2>1, <2>3, <3>1, EndsRun
    <2>4. CASE Run(<<Decided("implementing", "revise")>>, "implement")
      <3>1. PlainScript(<<Decided("implementing", "revise")>>)
        BY PlainOps, PlainScripts
      <3>2. QED BY <1>0, <2>1, <2>4, <3>1, RunsPlain
    <2>5. QED BY <2>1, <2>2, <2>3, <2>4
  <1>10. ASSUME NEW r \in Roles, ReserveRefused(r) \/ InvokeEnds(r) PROVE TInv'
    <2>1. r # Coord /\ Coord \in Threads /\ DOMAIN todo = Threads /\ DOMAIN hold = Threads /\ DOMAIN raised = Threads
      BY FixedAssumption, StoresAssumption DEF Threads, IInv, Shaped
    <2>2. CASE ReserveRefused(r)
      <3>1. todo'[Coord] = todo[Coord] /\ raised'[Coord] = raised[Coord] /\ hold'[Coord] = hold[Coord]
        BY <2>1, <2>2 DEF ReserveRefused, Raise
      <3>2. QED BY <2>2, <3>1, BesideCoordinator DEF ReserveRefused, runVars
    <2>3. CASE InvokeEnds(r)
      <3>1. todo'[Coord] = todo[Coord] /\ UNCHANGED <<raised, pc, mem, ended>> /\ Quiet
        BY <2>1, <2>3 DEF InvokeEnds, Untouched
      <3>2. QED BY <3>1, BesideCoordinator DEF Quiet
    <2>4. QED BY <1>10, <2>2, <2>3
  <1>11. QED BY <1>1, <1>2, <1>3, <1>4, <1>5, <1>6, <1>7, <1>8, <1>9, <1>10 DEF FixedNext

-----------------------------------------------------------------------------
(* The theorems *)

LEMMA InitTInv ==
    ASSUME Init
    PROVE  TInv
  <1>1. /\ rec = NewRecord /\ bundle = 0 /\ faults = <<>> /\ pc = "boot" /\ ended = "no" /\ mem = 0
        /\ todo[Coord] = <<Emit("created")>> /\ hold[Coord] = Free
    BY DEF Init, StoreInit, Threads
  <1>2. /\ rec.phase = "created" /\ rec.revision = 0 /\ rec.iteration = 1 /\ rec.snaps = 0 /\ rec.refs = {}
        /\ rec.reason = "none" /\ ~rec.workspace
    BY <1>1 DEF NewRecord
  <1>3. RecordInv
    <2>1. ValidRecord(rec)
      BY <1>2, StoresAssumption DEF ValidRecord, BeforeWorkspace, BeforeSnapshot, AfterSnapshot, Terminal
    <2>2. QED BY <1>1, <1>2, <2>1 DEF RecordInv, Phases, Report
  <1>4. CoordinatorInStep
    BY <1>1, Holds DEF CoordinatorInStep
  <1>5. PathInv /\ BundleInv
    <2>1. PlainScript(<<Emit("created")>>) /\ Open /\ pc \notin TerminalPath
      BY <1>1, <1>2, PlainOps, PlainScripts DEF Open, Terminal, TerminalPath
    <2>2. QED BY <1>1, <2>1 DEF PathInv, BundleInv
  <1>6. QED BY <1>3, <1>4, <1>5 DEF TInv

LEMMA StepTInv ==
    ASSUME IInv, ErrorStops, TInv, [Next]_vars
    PROVE  TInv'
  <1>1. CASE UNCHANGED vars
    BY <1>1, BesideCoordinator DEF vars, storeVars, runVars
  <1>2. CASE StoreNext /\ UNCHANGED runVars
    BY <1>2, StoreTInv DEF runVars
  <1>3. CASE Return \/ Catch
    BY <1>3, LeavingTInv
  <1>4. CASE mode = "dynamic" /\ DynamicNext
    BY <1>2, <1>3, <1>4, DynamicTInv DEF DynamicNext
  <1>5. CASE mode # "dynamic" /\ FixedNext
    BY <1>5, FixedTInv
  <1>6. QED BY <1>1, <1>2, <1>3, <1>4, <1>5 DEF Next

(* In every state of every run the record is one the validators accepted, the
   terminal path is at a stage that fits it, and the last transition is built
   from the record on disk. *)
THEOREM TerminalInvariant == Spec => []TInv
  <1>1. Init => IInv /\ ErrorStops /\ TInv
    BY InitInv, InitTInv
  <1>2. IInv /\ ErrorStops /\ TInv /\ [Next]_vars => (IInv /\ ErrorStops /\ TInv)'
    BY StepInv, StepTInv
  <1>3. QED BY <1>1, <1>2, PTL DEF Spec

(* Whenever the process dies, a terminal record has its three terminal files,
   unless an error came behind the replaced record; and a run that was left
   without one has no terminal file, unless the removal failed as well. *)
THEOREM ReportBoundOrRolledBack == Spec => []BoundOrRolledBack
  <1>1. IInv /\ TInv => BoundOrRolledBack
    <2> SUFFICES ASSUME IInv, TInv PROVE BoundOrRolledBack
      OBVIOUS
    <2>1. rec.phase \in Terminal /\ ~Torn => bundle = 3
      BY DEF TInv, BundleInv, Open
    <2>2. ended # "no" /\ rec.phase \notin Terminal /\ Len(faults) < 2 => bundle = 0
      BY DEF TInv, BundleInv, CoordinatorInStep, Open, Doing
    <2>3. QED BY <2>1, <2>2 DEF BoundOrRolledBack
  <1>2. QED BY <1>1, WorkflowInvariant, TerminalInvariant, PTL

-----------------------------------------------------------------------------
(***************************************************************************)
(* On what a run is completed.  The evidence is looked at when the         *)
(* decision is made, and the record becomes terminal many steps later: the *)
(* invariant follows the count of iteration records and the evidence from  *)
(* one to the other.                                                       *)
(***************************************************************************)

(* What the decision to accept rests on, and what the validator of the
   iteration record adds to it. *)
Accepted ==
    /\ gate = "passed"
    /\ mode = "dynamic" => Verdicts \subseteq {"accept"}
    /\ mode \in {"team", "serial_team"} => output["reviewer"] = "accept"
AllHeard == mode = "dynamic" => \A a \in Dynamic : agent[a] = "collected"

(* The operations that count iterations, and those that complete the run. *)
Counts(op) == op.op = "iteration" \/ (op.op \in {"move", "bind"} /\ op.decision = "revise")
Ordinary(op) == ~Counts(op) /\ ~(op.op = "bind" /\ op.to = "completed")
Uncounted(s) == \A i \in 1..Len(s) : ~Counts(s[i])
OrdinaryScript(s) == \A i \in 1..Len(s) : Ordinary(s[i])

Deciding == {"act", "conclude"}
Revising == <<Decided("implementing", "revise")>>

(* The iteration record that is about to be written. *)
Judged(op) ==
    /\ op.op = "iteration" /\ op.record.test = gate
    /\ mode = "dynamic" => (op.record.complete <=> AllHeard)

(* Before a decision the current iteration has no record; while it is recorded
   it gets one; a terminal path that completes has one, and the evidence. *)
CountInv ==
    raised[Coord] = "none" =>
        /\ pc \notin Deciding \cup TerminalPath =>
            \/ Len(records) = rec.iteration - 1 /\ OrdinaryScript(todo[Coord])
            \/ Len(records) = rec.iteration /\ todo[Coord] = Revising
        /\ pc \in Deciding =>
            /\ decision.decision = "accept" => Accepted
            /\ \/ /\ Len(records) = rec.iteration /\ OrdinaryScript(todo[Coord])
                  /\ gate = "passed" => AllHeard
               \/ /\ Len(records) = rec.iteration - 1 /\ todo[Coord] # <<>>
                  /\ Judged(Head(todo[Coord])) /\ OrdinaryScript(Tail(todo[Coord]))
        /\ pc \in TerminalPath =>
            /\ Uncounted(todo[Coord])
            /\ \/ OrdinaryScript(todo[Coord])
               \/ pc = "ending" /\ Len(records) = rec.iteration /\ Accepted /\ AllHeard

CompletionInv ==
    rec.phase = "completed" =>
        pc = "ending" /\ Len(records) = rec.iteration /\ Accepted /\ AllHeard

WorkerScripts == \A a \in Agents : Uncounted(todo[a])

EInv == rec.iteration \in Nat /\ IsScript(records) /\ WorkerScripts /\ CountInv /\ CompletionInv
-----------------------------------------------------------------------------
LEMMA OrdinaryTail ==
    ASSUME NEW s, IsScript(s), s # <<>>
    PROVE  /\ OrdinaryScript(s) => OrdinaryScript(Tail(s)) /\ Ordinary(Head(s))
           /\ Uncounted(s) => Uncounted(Tail(s)) /\ ~Counts(Head(s))
  <1>1. /\ Len(s) \in Nat \ {0} /\ Head(s) = s[1] /\ Len(Tail(s)) = Len(s) - 1
        /\ \A i \in 1..Len(Tail(s)) : Tail(s)[i] = s[i + 1]
    BY ScriptTail
  <1>2. QED BY <1>1 DEF OrdinaryScript, Uncounted

LEMMA OrdinaryEmpty == OrdinaryScript(<<>>) /\ Uncounted(<<>>)
  BY DEF OrdinaryScript, Uncounted

LEMMA RevisingScript ==
    /\ Revising # <<>> /\ Tail(Revising) = <<>> /\ Head(Revising).op = "move"
    /\ Head(Revising).to = "implementing" /\ Head(Revising).decision = "revise"
  BY DEF Revising, Decided, Move

(* The next operation of the coordinator, by what it counts. *)
LEMMA NextCounts ==
    ASSUME EInv, raised[Coord] = "none", NEW s, s = todo[Coord], s # <<>>, IsScript(s)
    PROVE  /\ Head(s).op = "iteration" =>
                 /\ pc \in Deciding /\ Len(records) = rec.iteration - 1 /\ Judged(Head(s))
                 /\ OrdinaryScript(Tail(s))
           /\ Counts(Head(s)) /\ Head(s).op # "iteration" =>
                 pc \notin Deciding \cup TerminalPath /\ Len(records) = rec.iteration /\ s = Revising
  <1>1. /\ OrdinaryScript(s) => ~Counts(Head(s))
        /\ Uncounted(s) => ~Counts(Head(s))
        /\ Head(s).op = "iteration" => Counts(Head(s))
    BY OrdinaryTail DEF Ordinary, Counts
  <1>2. s = Revising => Head(s).op # "iteration"
    BY RevisingScript
  <1>3. CASE pc \notin Deciding \cup TerminalPath
    BY <1>1, <1>2, <1>3 DEF EInv, CountInv
  <1>4. CASE pc \in Deciding
    BY <1>1, <1>4 DEF EInv, CountInv, Judged
  <1>5. CASE pc \in TerminalPath
    BY <1>1, <1>5 DEF EInv, CountInv
  <1>6. QED BY <1>3, <1>4, <1>5

(* What CountInv and CompletionInv say of a state does not depend on the stores
   beyond these. *)
LEMMA EvidenceStays ==
    ASSUME UNCHANGED <<gate, output, agent, mode>>
    PROVE  /\ (Accepted <=> Accepted') /\ (AllHeard <=> AllHeard')
           /\ \A op : Judged(op) <=> Judged(op)'
  BY DEF Accepted, AllHeard, Judged, Verdicts, Collected

(* An operation that neither counts nor changes the lifecycle. *)
LEMMA OperationEInv ==
    ASSUME IInv, ErrorStops, EInv, NEW t \in Threads,
           Stays(t) \/ Raises(t) \/ (Finishes(t) /\ ~Counts(Head(todo[t]))),
           rec'.iteration = rec.iteration, rec'.phase = rec.phase, UNCHANGED records,
           UNCHANGED runVars, UNCHANGED fixedVars
    PROVE  EInv'
  <1>1. UNCHANGED <<gate, output, agent, mode, pc, decision>>
    BY DEF runVars, fixedVars
  <1>2. Shaped /\ \A u \in Threads : IsScript(todo[u])
    BY DEF IInv, Shaped
  <1>3. CompletionInv'
    BY <1>1, EvidenceStays DEF EInv, CompletionInv
  <1>4. WorkerScripts'
    <2> SUFFICES ASSUME NEW a \in Agents PROVE Uncounted(todo'[a])
      BY DEF WorkerScripts, Uncounted
    <2>1. a \in Threads /\ Uncounted(todo[a]) /\ IsScript(todo[a])
      BY <1>2 DEF Threads, EInv, WorkerScripts
    <2>2. todo'[a] = todo[a] \/ todo'[a] = <<>> \/ (todo[a] # <<>> /\ todo'[a] = Tail(todo[a]))
      BY <2>1 DEF Stays, Finishes, Raises, OnlyThread
    <2>3. QED BY <2>1, <2>2, OrdinaryTail, OrdinaryEmpty
  <1>5. CountInv'
    <2> DEFINE s == todo[Coord]
               z == todo'[Coord]
    <2>1. Coord \in Threads /\ IsScript(s)
      BY <1>2 DEF Threads
    <2>2. CASE z = s /\ raised'[Coord] = raised[Coord]
      BY <1>1, <2>2, EvidenceStays DEF EInv, CountInv
    <2>3. CASE raised'[Coord] # "none"
      BY <2>3 DEF CountInv
    <2>4. CASE s # <<>> /\ z = Tail(s) /\ raised'[Coord] = raised[Coord] /\ ~Counts(Head(s))
      <3>1. SUFFICES ASSUME raised[Coord] = "none" PROVE CountInv'
        BY <2>4 DEF CountInv
      <3>2. s # Revising /\ ~Judged(Head(s))
        BY <2>4, RevisingScript DEF Counts, Judged
      <3>3. /\ OrdinaryScript(s) => OrdinaryScript(z)
            /\ Uncounted(s) => Uncounted(z)
        BY <2>1, <2>4, OrdinaryTail
      <3>4. CASE pc \notin Deciding \cup TerminalPath
        BY <1>1, <3>1, <3>2, <3>3, <3>4 DEF EInv, CountInv, Deciding, TerminalPath
      <3>5. CASE pc \in Deciding
        <4>1. pc \notin TerminalPath
          BY <3>5 DEF Deciding, TerminalPath
        <4>2. QED BY <1>1, <3>1, <3>2, <3>3, <3>5, <4>1, EvidenceStays DEF EInv, CountInv
      <3>6. CASE pc \in TerminalPath
        <4>1. pc \notin Deciding
          BY <3>6 DEF Deciding, TerminalPath
        <4>2. QED BY <1>1, <3>1, <3>3, <3>6, <4>1, EvidenceStays DEF EInv, CountInv
      <3>7. QED BY <3>4, <3>5, <3>6
    <2>5. QED BY <2>1, <2>2, <2>3, <2>4 DEF Stays, Finishes, Raises, OnlyThread
  <1>6. QED BY <1>3, <1>4, <1>5 DEF EInv

(* The artifact store writes the record of the iteration. *)
LEMMA IterationEInv ==
    ASSUME IInv, ErrorStops, EInv, Finishes(Coord), Head(todo[Coord]).op = "iteration",
           ValidIteration(Head(todo[Coord]).record),
           records' = Append(records, Head(todo[Coord]).record), UNCHANGED rec,
           UNCHANGED runVars, UNCHANGED fixedVars
    PROVE  EInv'
  <1> DEFINE s == todo[Coord]
             r == Head(s).record
  <1>1. UNCHANGED <<gate, output, agent, mode, pc, decision>>
    BY DEF runVars, fixedVars
  <1>2. /\ Coord \in Threads /\ IsScript(s) /\ s # <<>> /\ raised[Coord] = "none"
        /\ todo'[Coord] = Tail(s) /\ raised'[Coord] = raised[Coord]
    BY DEF IInv, Shaped, Threads, Finishes, OnlyThread, ErrorStops
  <1>3. /\ pc \in Deciding /\ Len(records) = rec.iteration - 1 /\ Judged(Head(s))
        /\ OrdinaryScript(Tail(s))
    BY <1>2, NextCounts
  <1>4. IsScript(records') /\ Len(records') = rec.iteration
    <2> DEFINE S == {records[i] : i \in 1..Len(records)} \cup {r}
    <2>1. \A i \in 1..Len(records) : records[i] \in S
      OBVIOUS
    <2>2. r \in S
      OBVIOUS
    <2> HIDE DEF S
    <2>3. records \in Seq(S)
      BY <2>1, SeqOf DEF EInv, IsScript
    <2>4. records' \in Seq(S) /\ Len(records') = Len(records) + 1 /\ Len(records) \in Nat
      <3>1. records' = Append(records, r)
        OBVIOUS
      <3> HIDE DEF r
      <3>2. QED BY <2>2, <2>3, <3>1, AppendProperties, LenProperties
    <2>5. IsScript(records')
      <3>1. \A i \in 1..Len(records') : records'[i] \in {records'[j] : j \in 1..Len(records')}
        OBVIOUS
      <3> DEFINE z == records'
      <3>2. z \in Seq(S) /\ \A i \in 1..Len(z) : z[i] \in {z[j] : j \in 1..Len(z)}
        BY <2>4, <3>1
      <3> HIDE DEF z
      <3>3. IsScript(z)
        BY <3>2, SeqOf DEF IsScript
      <3>4. QED BY <3>3 DEF z
    <2>6. QED BY <1>3, <2>4, <2>5 DEF EInv
  <1>5. gate = "passed" => AllHeard
    BY <1>3 DEF Judged, ValidIteration, AllHeard
  <1>6. pc \notin TerminalPath
    BY <1>3 DEF Deciding, TerminalPath
  <1>7. CountInv'
    <2>1. decision.decision = "accept" => Accepted
      BY <1>2, <1>3 DEF EInv, CountInv
    <2>2. QED BY <1>1, <1>2, <1>3, <1>4, <1>5, <1>6, <2>1, EvidenceStays DEF CountInv
  <1>8. CompletionInv'
    BY <1>3, <1>6 DEF EInv, CompletionInv, TerminalPath
  <1>9. WorkerScripts'
    BY StoresAssumption DEF EInv, WorkerScripts, Uncounted, Finishes, OnlyThread, Threads
  <1>10. QED BY <1>4, <1>7, <1>8, <1>9 DEF EInv

(* Steps of the stores that leave the lifecycle alone. *)
LEMMA StoreStepEInv ==
    ASSUME IInv, ErrorStops, TInv, EInv, NEW t \in Threads, StoreStep(t),
           UNCHANGED runVars, UNCHANGED fixedVars
    PROVE  EInv'
  <1>1. Shaped /\ IsRecord(rec) /\ EventStep(t)
    BY StoreSteps DEF IInv, Shaped
  <1>2. rec'.phase = rec.phase /\ rec'.iteration = rec.iteration
    <2>1. CASE rec' = rec
      BY <2>1
    <2>2. CASE rec' = [rec EXCEPT !.events = @ + 1]
      BY <1>1, <2>2 DEF IsRecord
    <2>3. QED BY <1>1, <2>1, <2>2 DEF EventStep
  <1>3. /\ todo[t] # <<>> /\ Head(todo[t]).op \notin {"move", "bind", "bundle"}
        /\ Stays(t) \/ Finishes(t) \/ Raises(t)
    BY <1>1 DEF EventStep
  <1>4. \/ /\ UNCHANGED records
           /\ Stays(t) \/ Raises(t) \/ (Finishes(t) /\ ~Counts(Head(todo[t])))
        \/ /\ Finishes(t) /\ Head(todo[t]).op = "iteration" /\ UNCHANGED rec
           /\ ValidIteration(Head(todo[t]).record)
           /\ records' = Append(records, Head(todo[t]).record)
    <2>1. CASE ArtifactWrite(t)
      <3>1. CASE Doing(t, "artifact")
        BY <1>3, <2>1, <3>1 DEF ArtifactWrite, Counts, Doing
      <3>2. CASE Doing(t, "iteration")
        <4>1. Head(todo[t]).op = "iteration" /\ UNCHANGED rec
          BY <2>1, <3>2 DEF Doing, ArtifactWrite
        <4>2. \/ Raise(t, "refused") /\ UNCHANGED records
              \/ Raise(t, "fault") /\ UNCHANGED records
              \/ /\ ValidIteration(Head(todo[t]).record) /\ Finish(t)
                 /\ records' = Append(records, Head(todo[t]).record)
          BY <2>1, <4>1 DEF ArtifactWrite, Doing
        <4>3. QED BY <1>1, <1>3, <4>1, <4>2, Effects
      <3>3. QED BY <2>1, <3>1, <3>2 DEF ArtifactWrite
    <2>2. CASE ~ArtifactWrite(t)
      <3>1. UNCHANGED records /\ Head(todo[t]).op # "iteration"
        BY <2>2 DEF StoreStep, EmitRead, EmitWrite, EmitLoad, EmitAnchor, OutsideWork, Reserve,
                    Settle, Doing
      <3>2. QED BY <1>3, <3>1 DEF Counts
    <2>3. QED BY <2>1, <2>2
  <1>5. CASE /\ UNCHANGED records
             /\ Stays(t) \/ Raises(t) \/ (Finishes(t) /\ ~Counts(Head(todo[t])))
    BY <1>2, <1>3, <1>5, OperationEInv
  <1>6. CASE /\ Finishes(t) /\ Head(todo[t]).op = "iteration" /\ UNCHANGED rec
             /\ ValidIteration(Head(todo[t]).record)
             /\ records' = Append(records, Head(todo[t]).record)
    <2>1. t = Coord
      <3>1. t # Coord => t \in Agents
        BY DEF Threads
      <3>2. t \in Agents => ~Counts(Head(todo[t]))
        BY <1>1, <1>3, OrdinaryTail DEF EInv, WorkerScripts, Shaped
      <3>3. QED BY <1>6, <3>1, <3>2 DEF Counts
    <2>2. QED BY <1>6, <2>1, IterationEInv
  <1>7. QED BY <1>4, <1>5, <1>6

(* The terminal files, and the record a transition is built from. *)
LEMMA BesideLifecycleEInv ==
    ASSUME IInv, ErrorStops, TInv, EInv, BundleBegin \/ BundleLink \/ MoveLoad,
           UNCHANGED runVars, UNCHANGED fixedVars
    PROVE  EInv'
  <1>1. /\ Shaped /\ Coord \in Threads /\ todo[Coord] # <<>> /\ UNCHANGED <<rec, records>>
        /\ IsHold(hold[Coord])
    BY DEF BundleBegin, BundleLink, MoveLoad, Moving, Doing, IInv, Shaped, Threads
  <1>2. Stays(Coord) \/ Raises(Coord) \/ (Finishes(Coord) /\ Head(todo[Coord]).op = "bundle")
    <2>1. CASE BundleBegin
      <3> DEFINE h == [hold[Coord] EXCEPT !.at = "linking"]
      <3>1. IsHold(h)
        BY <1>1, Holds
      <3>2. \/ hold' = [hold EXCEPT ![Coord] = h] /\ UNCHANGED <<todo, raised>>
            \/ Raise(Coord, "refused")
        BY <2>1 DEF BundleBegin
      <3> HIDE DEF h
      <3>3. QED BY <1>1, <3>1, <3>2, Effects
    <2>2. CASE BundleLink
      <3>1. \/ UNCHANGED <<todo, hold, raised>> \/ Finish(Coord) \/ Raise(Coord, "fault")
        BY <2>2 DEF BundleLink
      <3>2. UNCHANGED <<todo, hold, raised>> => Stays(Coord)
        BY <1>1 DEF Stays, OnlyThread, Shaped
      <3>3. QED BY <1>1, <2>2, <3>1, <3>2, Effects DEF BundleLink, Doing
    <2>3. CASE MoveLoad
      <3> DEFINE h == [at |-> "moving", rec |-> rec]
      <3>1. IsHold(h)
        BY Holds
      <3>2. \/ hold' = [hold EXCEPT ![Coord] = h] /\ UNCHANGED <<todo, raised>>
            \/ Raise(Coord, "refused")
        BY <2>3 DEF MoveLoad, Unbind
      <3> HIDE DEF h
      <3>3. QED BY <1>1, <3>1, <3>2, Effects
    <2>4. QED BY <2>1, <2>2, <2>3
  <1>3. QED BY <1>1, <1>2, OperationEInv DEF Counts

(* A transition. *)
LEMMA MoveEInv ==
    ASSUME IInv, ErrorStops, TInv, EInv, MoveReplace, UNCHANGED runVars, UNCHANGED fixedVars
    PROVE  EInv'
  <1> DEFINE s == todo[Coord]
             op == Head(s)
             n == Moved(rec, op)
  <1>1. UNCHANGED <<gate, output, agent, mode, pc, decision>>
    BY DEF runVars, fixedVars
  <1>2. /\ Shaped /\ Coord \in Threads /\ s # <<>> /\ IsScript(s) /\ op.op \in {"move", "bind"}
        /\ hold[Coord].rec = rec /\ raised[Coord] = "none" /\ UNCHANGED records
    BY DEF Doing, IInv, Shaped, Threads, MoveReplace, Moving, At, TInv, CoordinatorInStep, ErrorStops
  <1>3. \/ Raises(Coord) /\ (rec' = rec \/ (MoveAccepted(rec, op) /\ rec' = n))
        \/ Finishes(Coord) /\ MoveAccepted(rec, op) /\ rec' = n
    <2>1. \/ Raise(Coord, "refused") /\ rec' = rec
          \/ Raise(Coord, "fault") /\ (rec' = rec \/ (MoveAccepted(rec, op) /\ rec' = n))
          \/ Finish(Coord) /\ MoveAccepted(rec, op) /\ rec' = n
      BY <1>2 DEF MoveReplace, Unbind
    <2>2. QED BY <1>2, <2>1, Effects
  <1>4. Open /\ (op.to = "completed" => pc \in TerminalPath /\ op.op = "bind")
    <2>1. CASE op.op = "move"
      <3>1. Doing(Coord, "move")
        BY <1>2, <2>1 DEF Doing
      <3>2. Open /\ (pc \notin TerminalPath => PlainOp(op)) /\ (pc \in TerminalPath => s = Completing)
        BY <3>1, AtOperation
      <3>3. s = Completing => op.to = "delivering"
        BY Stages DEF Decided, Move
      <3>4. QED BY <2>1, <3>2, <3>3 DEF PlainOp, Terminal
    <2>2. CASE op.op = "bind"
      BY <1>2, <2>2, AtOperation DEF Doing
    <2>3. QED BY <1>2, <2>1, <2>2
  <1>5. MoveAccepted(rec, op) =>
           /\ n.phase = op.to
           /\ n.iteration = IF op.decision = "revise" THEN rec.iteration + 1 ELSE rec.iteration
           /\ op.decision = "revise" => op.to = "implementing"
    <2>1. /\ n.phase = op.to
          /\ n.iteration = IF rec.phase = "deciding" /\ op.to = "implementing" THEN rec.iteration + 1
                           ELSE rec.iteration
      BY <1>2, MovedFields DEF Shaped
    <2> HIDE DEF n
    <2>2. MoveAccepted(rec, op) =>
             (op.decision = "revise" <=> rec.phase = "deciding" /\ op.to = "implementing")
      BY DEF MoveAccepted, ValidTransition
    <2>3. QED BY <2>1, <2>2
  <1>6. op.to = "completed" => pc = "ending" /\ Len(records) = rec.iteration /\ Accepted /\ AllHeard
    <2>1. SUFFICES ASSUME op.to = "completed"
                   PROVE  pc = "ending" /\ Len(records) = rec.iteration /\ Accepted /\ AllHeard
      OBVIOUS
    <2>2. ~OrdinaryScript(s)
      BY <1>2, <1>4, <2>1, OrdinaryTail DEF Ordinary
    <2>3. QED BY <1>2, <1>4, <2>1, <2>2 DEF EInv, CountInv
  <1>7. Counts(op) <=> op.decision = "revise"
    BY <1>2 DEF Counts
  <1> HIDE DEF n, op
  <1>8. rec'.iteration \in Nat /\ IsScript(records') /\ CompletionInv'
    <2>1. rec'.iteration \in Nat /\ IsScript(records')
      BY <1>2, <1>3, <1>5 DEF EInv
    <2>2. CASE rec' = rec
      <3>1. rec'.phase # "completed"
        BY <1>4, <2>2 DEF Open, Terminal
      <3>2. QED BY <2>1, <3>1 DEF CompletionInv
    <2>3. CASE MoveAccepted(rec, op) /\ rec' = n
      <3>1. /\ rec'.phase = op.to
            /\ op.to = "completed" => rec'.iteration = rec.iteration
        BY <1>5, <2>3
      <3>2. /\ pc' = pc /\ records' = records
            /\ (Accepted <=> Accepted') /\ (AllHeard <=> AllHeard')
        BY <1>1, <1>2, EvidenceStays
      <3>3. rec'.phase = "completed" =>
               pc' = "ending" /\ Len(records') = rec'.iteration /\ Accepted' /\ AllHeard'
        BY <1>6, <3>1, <3>2
      <3>4. QED BY <2>1, <3>3 DEF CompletionInv
    <2>4. QED BY <1>3, <2>1, <2>2, <2>3
  <1>9. WorkerScripts'
    <2>1. \A a \in Agents : todo'[a] = todo[a]
      BY <1>3, StoresAssumption DEF Raises, Finishes, OnlyThread, Threads
    <2>2. QED BY <2>1 DEF EInv, WorkerScripts, Uncounted
  <1>10. CASE Raises(Coord)
    BY <1>8, <1>9, <1>10 DEF EInv, CountInv, Raises
  <1>11. CASE Finishes(Coord) /\ MoveAccepted(rec, op) /\ rec' = n
    <2>1. todo'[Coord] = Tail(s) /\ raised'[Coord] = "none"
      BY <1>2, <1>11 DEF Finishes
    <2>2. CASE Counts(op)
      <3>1. pc \notin Deciding \cup TerminalPath /\ Len(records) = rec.iteration /\ s = Revising
        <4>1. Counts(Head(s)) /\ Head(s).op # "iteration"
          BY <1>2, <2>2 DEF op
        <4>2. QED BY <1>2, <4>1, NextCounts
      <3>2. rec'.iteration = rec.iteration + 1 /\ todo'[Coord] = <<>>
        BY <1>5, <1>7, <1>11, <2>1, <2>2, <3>1, RevisingScript
      <3>3. Len(records') = rec'.iteration - 1
        BY <1>2, <3>1, <3>2 DEF EInv
      <3>4. CountInv'
        BY <1>1, <3>1, <3>2, <3>3, OrdinaryEmpty DEF CountInv, Deciding, TerminalPath
      <3>5. QED BY <1>8, <1>9, <3>4 DEF EInv
    <2>3. CASE ~Counts(op)
      <3>1. rec'.iteration = rec.iteration
        BY <1>5, <1>7, <1>11, <2>3
      <3>2. /\ OrdinaryScript(s) => OrdinaryScript(todo'[Coord])
            /\ Uncounted(s) => Uncounted(todo'[Coord])
        BY <1>2, <2>1, OrdinaryTail
      <3>3. s # Revising /\ ~Judged(Head(s))
        BY <1>2, <2>3, RevisingScript DEF Judged, Counts, op
      <3>4. CountInv'
        <4>1. CASE pc \notin Deciding \cup TerminalPath
          BY <1>1, <1>2, <2>1, <3>1, <3>2, <3>3, <4>1 DEF EInv, CountInv, Deciding, TerminalPath
        <4>2. CASE pc \in Deciding
          <5>1. pc \notin TerminalPath
            BY <4>2 DEF Deciding, TerminalPath
          <5>2. QED BY <1>1, <1>2, <2>1, <3>1, <3>2, <3>3, <4>2, <5>1, EvidenceStays DEF EInv, CountInv
        <4>3. CASE pc \in TerminalPath
          <5>1. pc \notin Deciding
            BY <4>3 DEF Deciding, TerminalPath
          <5>2. QED BY <1>1, <1>2, <2>1, <3>1, <3>2, <4>3, <5>1, EvidenceStays DEF EInv, CountInv
        <4>4. QED BY <4>1, <4>2, <4>3
      <3>5. QED BY <1>8, <1>9, <3>4 DEF EInv
    <2>4. QED BY <2>2, <2>3
  <1>12. QED BY <1>3, <1>10, <1>11

LEMMA StoreEInv ==
    ASSUME IInv, ErrorStops, TInv, EInv, StoreNext, UNCHANGED runVars, UNCHANGED fixedVars
    PROVE  EInv'
  BY StoreStepEInv, BesideLifecycleEInv, MoveEInv DEF StoreNext

-----------------------------------------------------------------------------
(* The scripts of the coordinators *)

LEMMA OrdinaryOps ==
    /\ \A p : Ordinary(Emit(p))
    /\ \A name \in {"prepare", "gate", "artifact", "reserve", "settle"} : Ordinary(Work(name))
    /\ \A to, refs : Ordinary(Move(to, refs))
    /\ \A status : Ordinary(WriteBundle(status))
    /\ \A reason : Ordinary(Bind("failed", reason))
    /\ \A to, reason : ~Counts(Bind(to, reason))
    /\ Ordinary(Decided("delivering", "accept"))
    /\ \A op : Ordinary(op) => ~Counts(op)
  <1>1. /\ \A p : Ordinary(Emit(p))
        /\ \A name \in {"prepare", "gate", "artifact", "reserve", "settle"} : Ordinary(Work(name))
        /\ \A status : Ordinary(WriteBundle(status))
    BY DEF Ordinary, Counts, Emit, Work, WriteBundle
  <1>2. \A to, refs : Ordinary(Move(to, refs))
    BY DEF Ordinary, Counts, Move
  <1>3. /\ \A reason : Ordinary(Bind("failed", reason))
        /\ \A to, reason : ~Counts(Bind(to, reason))
    BY DEF Ordinary, Counts, Bind
  <1>4. Ordinary(Decided("delivering", "accept"))
    BY DEF Ordinary, Counts, Decided, Move
  <1>5. QED BY <1>1, <1>2, <1>3, <1>4 DEF Ordinary

LEMMA OrdinaryScripts ==
    ASSUME NEW a, NEW b, NEW c, NEW d, NEW e, NEW f
    PROVE  /\ Ordinary(a) => OrdinaryScript(<<a>>)
           /\ Ordinary(a) /\ Ordinary(b) => OrdinaryScript(<<a, b>>)
           /\ Ordinary(a) /\ Ordinary(b) /\ Ordinary(c) => OrdinaryScript(<<a, b, c>>)
           /\ Ordinary(a) /\ Ordinary(b) /\ Ordinary(c) /\ Ordinary(d) => OrdinaryScript(<<a, b, c, d>>)
           /\ Ordinary(a) /\ Ordinary(b) /\ Ordinary(c) /\ Ordinary(d) /\ Ordinary(e) =>
                 /\ OrdinaryScript(<<a, b, c, d, e>>)
                 /\ Ordinary(f) => OrdinaryScript(<<a, b, c, d, e, f>>)
  BY DEF OrdinaryScript

LEMMA OrdinaryConcat ==
    ASSUME NEW s, NEW r, IsScript(s), IsScript(r), OrdinaryScript(s), OrdinaryScript(r)
    PROVE  OrdinaryScript(s \o r)
  <1> DEFINE S == {s[i] : i \in 1..Len(s)} \cup {r[i] : i \in 1..Len(r)}
  <1>1. (\A i \in 1..Len(s) : s[i] \in S) /\ (\A i \in 1..Len(r) : r[i] \in S)
    OBVIOUS
  <1> HIDE DEF S
  <1>2. s \in Seq(S) /\ r \in Seq(S)
    BY <1>1, SeqOf DEF IsScript
  <1>3. /\ Len(s) \in Nat /\ Len(r) \in Nat /\ Len(s \o r) = Len(s) + Len(r)
        /\ \A i \in 1..Len(s) + Len(r) : (s \o r)[i] = IF i <= Len(s) THEN s[i] ELSE r[i - Len(s)]
    BY <1>2, ConcatProperties, LenProperties
  <1>4. QED BY <1>3 DEF OrdinaryScript

(* What the threads of the Agents run, and the terminal scripts. *)
LEMMA CountedScripts ==
    /\ OrdinaryScript(<<Work("reserve"), Emit("any"), Work("settle")>>)
    /\ OrdinaryScript(Attempt) /\ OrdinaryScript(<<Emit("any")>> \o Attempt)
    /\ \A reason : OrdinaryScript(Failing(reason))
    /\ Uncounted(Completing)
  <1>1. OrdinaryScript(<<Work("reserve"), Emit("any"), Work("settle")>>)
    BY OrdinaryOps, OrdinaryScripts
  <1>2. OrdinaryScript(Attempt) /\ OrdinaryScript(<<Emit("any")>>) /\ IsScript(Attempt) /\ IsScript(<<Emit("any")>>)
    BY OrdinaryOps, OrdinaryScripts, Scripts DEF Attempt
  <1>3. OrdinaryScript(<<Emit("any")>> \o Attempt)
    BY <1>2, OrdinaryConcat
  <1>4. ASSUME NEW reason PROVE OrdinaryScript(Failing(reason))
    BY OrdinaryOps, OrdinaryScripts DEF Failing
  <1>5. Uncounted(Completing)
    <2>1. \A a, b, c, d : ~Counts(a) /\ ~Counts(b) /\ ~Counts(c) /\ ~Counts(d) => Uncounted(<<a, b, c, d>>)
      BY DEF Uncounted
    <2>2. QED BY <2>1, OrdinaryOps DEF Completing
  <1>6. QED BY <1>1, <1>2, <1>3, <1>4, <1>5

-----------------------------------------------------------------------------
(* The steps of the coordinators *)

(* The threads of the Agents take up scripts that count nothing. *)
Workers == \A a \in Agents : todo'[a] = todo[a] \/ OrdinaryScript(todo'[a])

LEMMA WorkersStay ==
    ASSUME EInv, Workers
    PROVE  WorkerScripts'
  <1>1. \A s : OrdinaryScript(s) => Uncounted(s)
    BY DEF OrdinaryScript, Uncounted, Ordinary
  <1>2. \A a \in Agents : Uncounted(todo'[a])
    BY <1>1 DEF EInv, Workers, WorkerScripts
  <1>3. QED BY <1>2 DEF WorkerScripts, Uncounted

(* The coordinator between two scripts, before it has decided. *)
LEMMA Undecided ==
    ASSUME EInv, NEW here, here \notin Deciding \cup TerminalPath, Ready(here)
    PROVE  Len(records) = rec.iteration - 1 /\ rec.phase # "completed"
  <1>1. todo[Coord] # Revising
    BY RevisingScript DEF Ready
  <1>2. QED BY <1>1 DEF EInv, CountInv, CompletionInv, Ready, TerminalPath

(* It goes on with an ordinary script, or raises. *)
LEMMA GoesOnCounted ==
    ASSUME EInv, NEW here, here \notin Deciding \cup TerminalPath, Ready(here), Quiet, Workers,
           pc' \notin Deciding \cup TerminalPath, OrdinaryScript(todo'[Coord])
    PROVE  EInv'
  <1>1. Len(records) = rec.iteration - 1 /\ rec.phase # "completed" /\ UNCHANGED <<rec, records>>
    BY Undecided DEF Quiet
  <1>2. CountInv'
    BY <1>1 DEF CountInv, OrdinaryScript
  <1>3. CompletionInv' /\ WorkerScripts'
    BY <1>1, WorkersStay DEF CompletionInv
  <1>4. QED BY <1>1, <1>2, <1>3 DEF EInv

LEMMA RunsCounted ==
    ASSUME IInv, EInv, NEW here, here \notin Deciding \cup TerminalPath, Ready(here), Quiet,
           NEW s, NEW place, Run(s, place), place \notin Deciding \cup TerminalPath, OrdinaryScript(s)
    PROVE  EInv'
  <1>1. todo'[Coord] = s /\ pc' = place /\ Workers
    BY StoresAssumption DEF Run, IInv, Shaped, Threads, Workers
  <1>2. QED BY <1>1, GoesOnCounted

LEMMA RaisesCounted ==
    ASSUME EInv, NEW here, here \notin Deciding \cup TerminalPath, Ready(here), Quiet, UNCHANGED <<todo, pc>>
    PROVE  EInv'
  <1>1. OrdinaryScript(todo'[Coord]) /\ Workers /\ pc' = here
    BY OrdinaryEmpty DEF Ready, Workers
  <1>2. QED BY <1>1, GoesOnCounted

(* A step of another thread, while nothing depends on the evidence. *)
LEMMA BesideCounted ==
    ASSUME EInv, pc \notin Deciding \cup {"ending"}, Quiet, UNCHANGED pc, Workers,
           todo'[Coord] = todo[Coord], raised'[Coord] = raised[Coord]
    PROVE  EInv'
  <1>1. UNCHANGED <<rec, records>> /\ rec.phase # "completed"
    BY DEF Quiet, EInv, CompletionInv
  <1>2. CountInv'
    <2>1. CASE pc \in TerminalPath
      BY <1>1, <2>1 DEF EInv, CountInv
    <2>2. CASE pc \notin TerminalPath
      BY <1>1, <2>2 DEF EInv, CountInv
    <2>3. QED BY <2>1, <2>2
  <1>3. CompletionInv' /\ WorkerScripts'
    BY <1>1, WorkersStay DEF CompletionInv
  <1>4. QED BY <1>1, <1>2, <1>3 DEF EInv

(* A step that changes none of this. *)
LEMMA SameCounted ==
    ASSUME EInv, UNCHANGED <<rec, records, todo, raised, pc, decision, gate, output, agent, mode>>
    PROVE  EInv'
  <1>1. CountInv' /\ CompletionInv'
    BY EvidenceStays DEF EInv, CountInv, CompletionInv
  <1>2. WorkerScripts'
    BY DEF EInv, WorkerScripts
  <1>3. QED BY <1>1, <1>2 DEF EInv

(* It takes the failing path. *)
LEMMA FailsCounted ==
    ASSUME IInv, EInv, Quiet, rec.phase # "completed", NEW place \in TerminalPath, NEW reason,
           Run(Failing(reason), place)
    PROVE  EInv'
  <1>1. todo'[Coord] = Failing(reason) /\ pc' = place /\ Workers /\ UNCHANGED <<rec, records>>
    BY StoresAssumption DEF Run, IInv, Shaped, Threads, Workers, Quiet
  <1>2. OrdinaryScript(todo'[Coord]) /\ Uncounted(todo'[Coord])
    BY <1>1, CountedScripts DEF OrdinaryScript, Uncounted, Ordinary
  <1>3. pc' \notin Deciding
    BY <1>1 DEF Deciding, TerminalPath
  <1>4. CountInv'
    BY <1>1, <1>2, <1>3 DEF CountInv, OrdinaryScript, Uncounted
  <1>5. CompletionInv' /\ WorkerScripts'
    BY <1>1, WorkersStay DEF CompletionInv
  <1>6. QED BY <1>1, <1>4, <1>5 DEF EInv

(* It writes the record of the iteration. *)
LEMMA JudgesCounted ==
    ASSUME IInv, EInv, NEW here, here \notin Deciding \cup TerminalPath, Ready(here), Quiet,
           UNCHANGED <<gate, output, agent, mode>>,
           NEW r, NEW x, NEW y, Ordinary(x), Ordinary(y), NEW place \in Deciding,
           Run(<<WriteIteration(r), x, y>>, place), Judged(WriteIteration(r)),
           decision'.decision = "accept" => Accepted
    PROVE  EInv'
  <1> DEFINE s == <<WriteIteration(r), x, y>>
  <1>1. /\ Len(records) = rec.iteration - 1 /\ rec.phase # "completed" /\ UNCHANGED <<rec, records>>
        /\ todo'[Coord] = s /\ pc' = place /\ Workers
    BY Undecided, StoresAssumption DEF Quiet, Run, IInv, Shaped, Threads, Workers
  <1>2. s # <<>> /\ Head(s) = WriteIteration(r) /\ Tail(s) = <<x, y>>
    OBVIOUS
  <1>3. OrdinaryScript(<<x, y>>)
    BY OrdinaryScripts
  <1>4. pc' \notin TerminalPath
    BY <1>1 DEF Deciding, TerminalPath
  <1> HIDE DEF s
  <1>5. CountInv'
    BY <1>1, <1>2, <1>3, <1>4, EvidenceStays DEF CountInv, OrdinaryScript
  <1>6. CompletionInv' /\ WorkerScripts'
    BY <1>1, WorkersStay DEF CompletionInv
  <1>7. QED BY <1>1, <1>5, <1>6 DEF EInv

(* It acts on the decision: the iteration has its record. *)
LEMMA DecidedCounted ==
    ASSUME EInv, NEW here \in Deciding, Ready(here)
    PROVE  /\ Len(records) = rec.iteration /\ rec.phase # "completed"
           /\ decision.decision = "accept" => Accepted /\ AllHeard
  BY DEF EInv, CountInv, CompletionInv, Ready, Deciding, Accepted

LEMMA CompletesCounted ==
    ASSUME IInv, EInv, NEW here \in Deciding, Ready(here), Quiet, UNCHANGED <<gate, output, agent, mode>>,
           decision.decision = "accept", Run(Completing, "ending")
    PROVE  EInv'
  <1>1. Len(records) = rec.iteration /\ Accepted /\ AllHeard /\ UNCHANGED <<rec, records>>
    BY DecidedCounted DEF Quiet
  <1>2. todo'[Coord] = Completing /\ pc' = "ending" /\ Workers /\ "ending" \in TerminalPath /\ "ending" \notin Deciding
    BY StoresAssumption DEF Run, IInv, Shaped, Threads, Workers, TerminalPath, Deciding
  <1>3. Uncounted(Completing)
    BY CountedScripts
  <1>4. CountInv' /\ CompletionInv'
    BY <1>1, <1>2, <1>3, EvidenceStays DEF CountInv, CompletionInv, Uncounted
  <1>5. WorkerScripts'
    BY <1>2, WorkersStay
  <1>6. QED BY <1>1, <1>4, <1>5 DEF EInv

LEMMA RevisesCounted ==
    ASSUME IInv, EInv, NEW here \in Deciding, Ready(here), Quiet,
           NEW place, place \notin Deciding \cup TerminalPath, Run(Revising, place)
    PROVE  EInv'
  <1>1. Len(records) = rec.iteration /\ rec.phase # "completed" /\ UNCHANGED <<rec, records>>
    BY DecidedCounted DEF Quiet
  <1>2. todo'[Coord] = Revising /\ pc' = place /\ Workers
    BY StoresAssumption DEF Run, IInv, Shaped, Threads, Workers
  <1>3. CountInv' /\ CompletionInv'
    BY <1>1, <1>2 DEF CountInv, CompletionInv
  <1>4. WorkerScripts'
    BY <1>2, WorkersStay
  <1>5. QED BY <1>1, <1>3, <1>4 DEF EInv

LEMMA DynamicEInv ==
    ASSUME IInv, ErrorStops, TInv, EInv, mode = "dynamic", UNCHANGED fixedVars,
           \/ DynamicBegin \/ StartSchedule \/ Submit \/ UserStop \/ EndSchedule
           \/ AfterSchedule \/ RecordDecision \/ ActOnDecision
           \/ \E a \in Dynamic : Launch(a) \/ AgentEnds(a) \/ Collect(a)
    PROVE  EInv'
  <1>0. /\ \A p \in {"boot", "revise", "schedule", "submit", "scheduled", "decide"} :
              p \notin Deciding \cup TerminalPath
        /\ "act" \in Deciding /\ "ending" \in TerminalPath /\ OrdinaryScript(<<Emit("any")>>)
        /\ mode' = mode
    BY OrdinaryOps, OrdinaryScripts DEF TerminalPath, Deciding, fixedVars
  <1>1. CASE DynamicBegin
    <2> DEFINE s == <<Move("preparing_workspace", {}), Work("prepare"), Move("planning", {}),
                      Emit("planning"), Move("implementing", {})>>
    <2>1. OrdinaryScript(s)
      BY OrdinaryOps, OrdinaryScripts
    <2> HIDE DEF s
    <2>2. Ready("boot") /\ Run(s, "revise") /\ Quiet
      BY <1>1 DEF DynamicBegin, s
    <2>3. QED BY <1>0, <2>1, <2>2, RunsCounted
  <1>2. CASE StartSchedule
    <2>1. Ready("revise") /\ Run(<<Emit("any")>>, "schedule") /\ Quiet
      BY <1>2 DEF StartSchedule
    <2>2. QED BY <1>0, <2>1, RunsCounted
  <1>3. CASE Submit
    <2>1. /\ Ready("submit") /\ Quiet /\ pc' = "schedule" /\ DOMAIN todo = Threads
          /\ todo' = [todo EXCEPT ![starting] = <<Work("reserve"), Emit("any"), Work("settle")>>]
      BY <1>3 DEF Submit, IInv, Shaped
    <2>2. starting \in Agents /\ starting # Coord /\ Coord \in Threads /\ Agents \subseteq Threads
      BY <2>1, TeamAssumption, StoresAssumption DEF IInv, WorkflowInv, ScheduleInv, Ready, Threads
    <2>3. /\ todo'[Coord] = <<>>
          /\ \A a \in Agents : todo'[a] = todo[a]
                               \/ todo'[a] = <<Work("reserve"), Emit("any"), Work("settle")>>
      BY <2>1, <2>2 DEF Ready
    <2>4. Workers /\ OrdinaryScript(todo'[Coord])
      BY <2>3, CountedScripts, OrdinaryEmpty DEF Workers
    <2>5. QED BY <1>0, <2>1, <2>4, GoesOnCounted
  <1>4. CASE UserStop
    BY <1>0, <1>4, RaisesCounted DEF UserStop
  <1>5. CASE EndSchedule
    <2>1. /\ Ready("schedule") /\ Quiet
          /\ Run(<<>>, "scheduled") \/ Run(<<Emit("any")>>, "scheduled")
      BY <1>5 DEF EndSchedule
    <2>2. QED BY <1>0, <2>1, RunsCounted, OrdinaryEmpty
  <1>6. CASE AfterSchedule
    <2>1. /\ Ready("scheduled") /\ Quiet
          /\ \/ Run(Failing(stop), "ending")
             \/ UNCHANGED <<todo, pc>>
             \/ \E agents : Run(<<Move("reviewing", Refs("test_report", agents))>>, "decide")
      BY <1>6 DEF AfterSchedule
    <2>2. CASE Run(Failing(stop), "ending")
      <3>1. rec.phase # "completed"
        BY <1>0, <2>1, Undecided
      <3>2. QED BY <1>0, <2>1, <2>2, <3>1, FailsCounted
    <2>3. CASE UNCHANGED <<todo, pc>>
      BY <1>0, <2>1, <2>3, RaisesCounted
    <2>4. ASSUME NEW agents, Run(<<Move("reviewing", Refs("test_report", agents))>>, "decide")
          PROVE  EInv'
      <3>1. OrdinaryScript(<<Move("reviewing", Refs("test_report", agents))>>)
        BY OrdinaryOps, OrdinaryScripts
      <3>2. QED BY <1>0, <2>1, <2>4, <3>1, RunsCounted
    <2>5. QED BY <2>1, <2>2, <2>3, <2>4
  <1>7. CASE RecordDecision
    <2>1. PICK signature \in Signatures :
            LET choice == IF Repeated(signature) THEN "fail" ELSE DynamicDecide(gate, Verdicts)
                record == [iteration |-> rec.iteration, decision |-> choice, test |-> gate,
                           reviews |-> Verdicts, complete |-> \A a \in Dynamic : agent[a] = "collected"]
                refs == Refs("review_report", Collected(Reviewers)) \cup Refs("iteration_record", {Coord})
            IN  /\ decision' = [decision |-> choice, signature |-> IF choice = "revise" THEN signature ELSE "none",
                                repeated |-> Repeated(signature)]
                /\ Run(<<WriteIteration(record), Move("deciding", refs), Emit("deciding")>>, "act")
      BY <1>7 DEF RecordDecision
    <2> DEFINE choice == IF Repeated(signature) THEN "fail" ELSE DynamicDecide(gate, Verdicts)
               record == [iteration |-> rec.iteration, decision |-> choice, test |-> gate,
                          reviews |-> Verdicts, complete |-> \A a \in Dynamic : agent[a] = "collected"]
               refs == Refs("review_report", Collected(Reviewers)) \cup Refs("iteration_record", {Coord})
               x == Move("deciding", refs)
               y == Emit("deciding")
    <2>2. decision'.decision = choice /\ Run(<<WriteIteration(record), x, y>>, "act")
      BY <2>1
    <2>3. Ready("decide") /\ Quiet /\ UNCHANGED <<gate, output, agent, mode>>
      BY <1>0, <1>7 DEF RecordDecision
    <2>4. Ordinary(x) /\ Ordinary(y)
      BY OrdinaryOps
    <2>5. Judged(WriteIteration(record))
      BY DEF Judged, WriteIteration, AllHeard
    <2>6. choice = "accept" => Accepted
      BY DEF DynamicDecide, Accepted
    <2> HIDE DEF choice, record, refs, x, y
    <2>7. QED BY <1>0, <2>2, <2>3, <2>4, <2>5, <2>6, JudgesCounted
  <1>8. CASE ActOnDecision
    <2>1. /\ Ready("act") /\ Quiet /\ UNCHANGED <<gate, output, agent, mode>>
          /\ \/ decision.decision = "accept" /\ Run(Completing, "ending")
             \/ \E reason : Run(Failing(reason), "ending")
             \/ Run(Revising, "revise")
      BY <1>0, <1>8 DEF ActOnDecision, Revising
    <2>2. CASE decision.decision = "accept" /\ Run(Completing, "ending")
      BY <1>0, <2>1, <2>2, CompletesCounted
    <2>3. CASE \E reason : Run(Failing(reason), "ending")
      <3>1. rec.phase # "completed"
        BY <1>0, <2>1, DecidedCounted
      <3>2. QED BY <1>0, <2>1, <2>3, <3>1, FailsCounted
    <2>4. CASE Run(Revising, "revise")
      BY <1>0, <2>1, <2>4, RevisesCounted
    <2>5. QED BY <2>1, <2>2, <2>3, <2>4
  <1>9. ASSUME NEW a \in Dynamic, Launch(a) PROVE EInv'
    <2> DEFINE s == <<Move("snapshotting", Refs("work_result", WriterSet)), Move("verifying", {}),
                      Emit("verifying"), Emit("verifying"), Emit("any")>>
    <2>1. /\ Ready("schedule") /\ Quiet
          /\ Run(<<Emit("any")>>, "submit") \/ Run(s, "submit") \/ UNCHANGED <<todo, pc>>
      BY <1>9 DEF Launch
    <2>2. OrdinaryScript(s)
      BY OrdinaryOps, OrdinaryScripts
    <2> HIDE DEF s
    <2>3. QED BY <1>0, <2>1, <2>2, RunsCounted, RaisesCounted
  <1>10. ASSUME NEW a \in Dynamic, AgentEnds(a) PROVE EInv'
    <2>1. /\ Quiet /\ UNCHANGED <<todo, raised, pc>> /\ Running(a) /\ a \in Agents
      BY <1>10, TeamAssumption DEF AgentEnds, Running
    <2>2. pc \in {"schedule", "submit", "handling"}
      BY <2>1 DEF IInv, WorkflowInv, ScheduleInv
    <2>3. pc \notin Deciding \cup {"ending"}
      BY <2>2 DEF Deciding
    <2>4. QED BY <2>1, <2>3, BesideCounted DEF Workers
  <1>11. ASSUME NEW a \in Dynamic, Collect(a) PROVE EInv'
    <2>1. Ready("schedule") /\ Run(<<Emit("any")>>, "schedule") /\ Quiet
      BY <1>11 DEF Collect
    <2>2. QED BY <1>0, <2>1, RunsCounted
  <1>12. QED BY <1>1, <1>2, <1>3, <1>4, <1>5, <1>6, <1>7, <1>8, <1>9, <1>10, <1>11

LEMMA LeavingEInv ==
    ASSUME IInv, ErrorStops, TInv, EInv, Return \/ Catch, UNCHANGED fixedVars
    PROVE  EInv'
  <1>1. Quiet /\ UNCHANGED <<rec, records, gate, output, agent, mode, decision>>
    BY DEF Return, Catch, Quiet, fixedVars
  <1>2. CASE UNCHANGED <<todo, raised, pc>>
    BY <1>1, <1>2, SameCounted
  <1>3. CASE Run(Failing("controller_error"), "handling") /\ rec.phase \notin Terminal
    <2>1. rec.phase # "completed" /\ "handling" \in TerminalPath
      BY <1>3 DEF Terminal, TerminalPath
    <2>2. QED BY <1>1, <1>3, <2>1, FailsCounted
  <1>4. QED BY <1>2, <1>3 DEF Return, Catch

(* The fixed coordinator calls roles, and hands on what they returned. *)
LEMMA CallsCounted ==
    ASSUME IInv, EInv, NEW here, here \notin Deciding \cup TerminalPath, Ready(here), Quiet,
           NEW roles \in SUBSET Roles, NEW place, Call(roles, place), place \notin Deciding \cup TerminalPath
    PROVE  EInv'
  <1>1. Coord \notin roles /\ Coord \in Threads /\ Agents \subseteq Threads
    BY FixedAssumption, StoresAssumption DEF Threads
  <1>2. todo'[Coord] = <<>> /\ pc' = place /\ \A a \in Agents : todo'[a] = todo[a] \/ todo'[a] = Attempt
    BY <1>1 DEF Call, Ready
  <1>3. OrdinaryScript(todo'[Coord]) /\ Workers
    BY <1>2, CountedScripts, OrdinaryEmpty DEF Workers
  <1>4. QED BY <1>2, <1>3, GoesOnCounted

LEMMA ContinuesCounted ==
    ASSUME IInv, EInv, NEW here, here \notin Deciding \cup TerminalPath, NEW roles, Joined(here, roles), Untouched,
           NEW s, NEW place, Continue(roles, s, place), place \notin Deciding \cup TerminalPath,
           OrdinaryScript(s)
    PROVE  EInv'
  <1>1. Ready(here) /\ Quiet
    BY DEF Joined, Untouched
  <1>2. Run(s, place) \/ UNCHANGED <<todo, pc>>
    BY DEF Continue
  <1>3. QED BY <1>1, <1>2, RunsCounted, RaisesCounted

LEMMA FixedEInv ==
    ASSUME IInv, ErrorStops, TInv, EInv, mode # "dynamic", FixedNext
    PROVE  EInv'
  <1>0. /\ \A p \in {"boot", "plan", "planned", "implement", "implemented", "verify", "tested", "verified",
                      "judge"} : p \notin Deciding \cup TerminalPath
        /\ "conclude" \in Deciding /\ "ending" \in TerminalPath
        /\ {"planner"} \subseteq Roles /\ {"developer"} \subseteq Roles /\ {"tester"} \subseteq Roles
        /\ {"reviewer"} \subseteq Roles /\ {"tester", "reviewer"} \subseteq Roles
    BY DEF TerminalPath, Deciding, Roles
  <1>1. CASE FixedBegin
    <2> DEFINE s == <<Move("preparing_workspace", {}), Work("prepare"), Move("planning", {}), Emit("planning")>>
               r == IF mode = "single" THEN SingleStart ELSE <<>>
    <2>1. OrdinaryScript(s) /\ IsScript(s)
      BY OrdinaryOps, OrdinaryScripts, Scripts
    <2>2. OrdinaryScript(r) /\ IsScript(r)
      <3>1. OrdinaryScript(SingleStart) /\ OrdinaryScript(<<>>) /\ IsScript(SingleStart) /\ IsScript(<<>>)
        BY OrdinaryOps, OrdinaryScripts, OrdinaryEmpty, Scripts DEF SingleStart
      <3>2. QED BY <3>1
    <2>3. \E place \in {"implement", "plan"} : Run(s \o r, place)
      BY <1>1 DEF FixedBegin
    <2> HIDE DEF s, r
    <2>4. OrdinaryScript(s \o r)
      BY <2>1, <2>2, OrdinaryConcat
    <2>5. Ready("boot") /\ Quiet
      BY <1>1 DEF FixedBegin, Untouched
    <2>6. QED BY <1>0, <2>3, <2>4, <2>5, RunsCounted
  <1>2. CASE InvokePlanner \/ InvokeDeveloper
    BY <1>0, <1>2, CallsCounted DEF InvokePlanner, InvokeDeveloper, Untouched
  <1>3. CASE PlanReady
    <2>1. OrdinaryScript(<<Work("artifact"), Move("implementing", Refs("implementation_plan", {"planner"}))>>)
      BY OrdinaryOps, OrdinaryScripts
    <2>2. QED BY <1>0, <1>3, <2>1, ContinuesCounted DEF PlanReady
  <1>4. CASE WorkReady
    <2> DEFINE s == IF mode = "single" THEN SingleSnapshot
                    ELSE <<Move("snapshotting", Refs("work_result", {"developer"})), Move("verifying", {}),
                           Emit("verifying"), Work("artifact"), Emit("verifying"), Work("gate")>>
    <2>1. /\ OrdinaryScript(SingleSnapshot)
          /\ OrdinaryScript(<<Move("snapshotting", Refs("work_result", {"developer"})), Move("verifying", {}),
                              Emit("verifying"), Work("artifact"), Emit("verifying"), Work("gate")>>)
      BY OrdinaryOps, OrdinaryScripts DEF SingleSnapshot
    <2>2. OrdinaryScript(s)
      BY <2>1
    <2>3. Joined("implemented", {"developer"}) /\ Continue({"developer"}, s, "verify") /\ Untouched
      BY <1>4 DEF WorkReady
    <2> HIDE DEF s
    <2>4. QED BY <1>0, <2>2, <2>3, ContinuesCounted
  <1>5. CASE InvokeVerifiers
    <2>1. /\ Ready("verify") /\ Quiet
          /\ \/ Run(SingleEvidence, "judge") \/ Call({"tester"}, "tested")
             \/ Call({"tester", "reviewer"}, "verified")
      BY <1>5 DEF InvokeVerifiers
    <2>2. OrdinaryScript(SingleEvidence)
      BY OrdinaryOps, OrdinaryScripts DEF SingleEvidence
    <2>3. QED BY <1>0, <2>1, <2>2, CallsCounted, RunsCounted
  <1>6. CASE InvokeReviewer
    <2>1. /\ Ready("tested") /\ Quiet
          /\ UNCHANGED <<todo, pc>> \/ Call({"reviewer"}, "verified")
      BY <1>6 DEF InvokeReviewer, Joined, Untouched
    <2>2. QED BY <1>0, <2>1, CallsCounted, RaisesCounted
  <1>7. CASE EvidenceReady
    <2>1. OrdinaryScript(<<Work("artifact"), Move("reviewing", Refs("test_report", {"tester"}))>>)
      BY OrdinaryOps, OrdinaryScripts
    <2>2. QED BY <1>0, <1>7, <2>1, ContinuesCounted DEF EvidenceReady
  <1>8. CASE FixedJudge
    <2>1. /\ Ready("judge") /\ Quiet /\ UNCHANGED <<gate, output, agent, mode>>
          /\ Run(IF mode = "single" THEN SingleRecord ELSE FixedRecord, "conclude")
          /\ decision'.decision = IF mode = "single" THEN SingleDecide ELSE FixedDecide
      BY <1>8 DEF FixedJudge, fixedVars
    <2>2. decision'.decision = "accept" => Accepted
      BY <2>1 DEF SingleDecide, FixedDecide, Accepted
    <2>3. CASE mode = "single"
      <3> DEFINE record == [iteration |-> rec.iteration, decision |-> SingleDecide, test |-> gate,
                            reviews |-> {}, complete |-> TRUE]
                 x == Move("deciding", Refs("iteration_record", {Coord}))
                 y == Emit("deciding")
      <3>1. Run(<<WriteIteration(record), x, y>>, "conclude")
        BY <2>1, <2>3 DEF SingleRecord
      <3>2. Ordinary(x) /\ Ordinary(y) /\ Judged(WriteIteration(record))
        BY <2>3, OrdinaryOps DEF Judged, WriteIteration
      <3> HIDE DEF record, x, y
      <3>3. QED BY <1>0, <2>1, <2>2, <3>1, <3>2, JudgesCounted
    <2>4. CASE mode # "single"
      <3> DEFINE record == [iteration |-> rec.iteration, decision |-> FixedDecide, test |-> gate,
                            reviews |-> {output["reviewer"]}, complete |-> TRUE]
                 x == Move("deciding", Refs("iteration_record", {Coord}) \cup Refs("review_report", {"reviewer"}))
                 y == Emit("deciding")
      <3>1. Run(<<WriteIteration(record), x, y>>, "conclude")
        BY <2>1, <2>4 DEF FixedRecord
      <3>2. Ordinary(x) /\ Ordinary(y) /\ Judged(WriteIteration(record))
        BY OrdinaryOps DEF Judged, WriteIteration
      <3> HIDE DEF record, x, y
      <3>3. QED BY <1>0, <2>1, <2>2, <3>1, <3>2, JudgesCounted
    <2>5. QED BY <2>3, <2>4
  <1>9. CASE FixedConclude
    <2>1. /\ Ready("conclude") /\ Quiet /\ UNCHANGED <<gate, output, agent, mode>>
          /\ \/ decision.decision = "accept" /\ Run(Completing, "ending")
             \/ \E reason : Run(Failing(reason), "ending")
             \/ Run(Revising, "implement")
      BY <1>9 DEF FixedConclude, FixedCompleting, FixedFailing, Untouched, Revising
    <2>2. CASE decision.decision = "accept" /\ Run(Completing, "ending")
      BY <1>0, <2>1, <2>2, CompletesCounted
    <2>3. CASE \E reason : Run(Failing(reason), "ending")
      <3>1. rec.phase # "completed"
        BY <1>0, <2>1, DecidedCounted
      <3>2. QED BY <1>0, <2>1, <2>3, <3>1, FailsCounted
    <2>4. CASE Run(Revising, "implement")
      BY <1>0, <2>1, <2>4, RevisesCounted
    <2>5. QED BY <2>1, <2>2, <2>3, <2>4
  <1>10. ASSUME NEW r \in Roles, ReserveRefused(r) \/ InvokeEnds(r) PROVE EInv'
    <2>1. /\ r \in Agents /\ r \in Threads /\ r # Coord /\ Coord \in Threads /\ Agents \subseteq Threads
          /\ DOMAIN todo = Threads /\ Shaped
      BY FixedAssumption, StoresAssumption DEF Threads, IInv, Shaped
    <2>2. CASE ReserveRefused(r)
      <3>1. /\ todo[r] # <<>> /\ Raise(r, "agent") /\ UNCHANGED <<rec, records>>
            /\ UNCHANGED runVars /\ UNCHANGED fixedVars
        BY <2>2 DEF ReserveRefused, Doing
      <3>2. Raises(r)
        BY <2>1, <3>1, Effects
      <3>3. QED BY <2>1, <3>1, <3>2, OperationEInv
    <2>3. CASE InvokeEnds(r)
      <3>1. /\ Running(r) /\ Quiet /\ UNCHANGED <<raised, pc>>
            /\ UNCHANGED todo \/ todo' = [todo EXCEPT ![r] = <<Emit("any")>> \o Attempt]
        BY <2>3 DEF InvokeEnds, Untouched, Running
      <3>2. pc \notin Deciding \cup {"ending"}
        BY <2>1, <3>1 DEF IInv, WorkflowInv, CallInv, Called, Deciding
      <3>3. todo'[Coord] = todo[Coord]
            /\ \A a \in Agents : todo'[a] = todo[a] \/ todo'[a] = <<Emit("any")>> \o Attempt
        BY <2>1, <3>1
      <3>4. QED BY <3>1, <3>2, <3>3, BesideCounted, CountedScripts DEF Workers
    <2>4. QED BY <1>10, <2>2, <2>3
  <1>11. QED BY <1>1, <1>2, <1>3, <1>4, <1>5, <1>6, <1>7, <1>8, <1>9, <1>10 DEF FixedNext

-----------------------------------------------------------------------------
(* The theorems about the evidence *)

LEMMA InitEInv ==
    ASSUME Init
    PROVE  EInv
  <1>1. /\ rec = NewRecord /\ records = <<>> /\ pc = "boot" /\ todo[Coord] = <<Emit("created")>>
        /\ \A a \in Agents : todo[a] = <<>>
    BY StoresAssumption DEF Init, StoreInit, Threads
  <1>2. /\ rec.phase = "created" /\ rec.iteration = 1 /\ Len(records) = 0 /\ IsScript(records)
        /\ pc \notin Deciding \cup TerminalPath
    BY <1>1, Scripts DEF NewRecord, Deciding, TerminalPath
  <1>3. OrdinaryScript(todo[Coord]) /\ WorkerScripts
    BY <1>1, OrdinaryOps, OrdinaryScripts, OrdinaryEmpty DEF WorkerScripts
  <1>4. CountInv /\ CompletionInv
    BY <1>2, <1>3 DEF CountInv, CompletionInv
  <1>5. QED BY <1>2, <1>3, <1>4 DEF EInv

LEMMA StepEInv ==
    ASSUME IInv, ErrorStops, TInv, EInv, [Next]_vars
    PROVE  EInv'
  <1>1. CASE UNCHANGED vars
    BY <1>1, SameCounted DEF vars, storeVars, runVars, fixedVars
  <1>2. CASE StoreNext /\ UNCHANGED runVars /\ UNCHANGED fixedVars
    BY <1>2, StoreEInv
  <1>3. CASE (Return \/ Catch) /\ UNCHANGED fixedVars
    BY <1>3, LeavingEInv
  <1>4. CASE mode = "dynamic" /\ DynamicNext /\ UNCHANGED fixedVars
    BY <1>2, <1>3, <1>4, DynamicEInv DEF DynamicNext
  <1>5. CASE mode # "dynamic" /\ FixedNext
    BY <1>5, FixedEInv
  <1>6. QED BY <1>1, <1>2, <1>3, <1>4, <1>5 DEF Next

(* In every state of every run, of either coordinator, each iteration before the
   current one has its record, the current one gets its own when the decision
   is recorded, and a path that completes still has the evidence the decision
   was made on: no thread of an Agent can change it in between. *)
THEOREM EvidenceInvariant == Spec => []EInv
  <1>1. Init => IInv /\ ErrorStops /\ TInv /\ EInv
    BY InitInv, InitTInv, InitEInv
  <1>2. IInv /\ ErrorStops /\ TInv /\ EInv /\ [Next]_vars => (IInv /\ ErrorStops /\ TInv /\ EInv)'
    BY StepInv, StepTInv, StepEInv
  <1>3. QED BY <1>1, <1>2, PTL DEF Spec

(* A run is recorded as completed only with passing gates, with every planned
   Agent heard and every Review Agent accepting, and with one record and one
   snapshot per iteration. *)
THEOREM CompletedOnlyOnEvidence == Spec => []CompletedOnEvidence
  <1>1. TInv /\ EInv => CompletedOnEvidence
    <2> SUFFICES ASSUME TInv, EInv, rec.phase = "completed" PROVE CompletedOnEvidence
      BY DEF CompletedOnEvidence
    <2>1. Len(records) = rec.iteration /\ Accepted /\ AllHeard
      BY DEF EInv, CompletionInv
    <2>2. rec.snaps = rec.iteration
      BY DEF TInv, RecordInv, ValidRecord, AfterSnapshot
    <2>3. ASSUME mode = "dynamic", NEW a \in Dynamic
          PROVE  agent[a] = "collected" /\ (a \in Reviewers => output[a] = "accept")
      BY <2>1, <2>3 DEF Accepted, AllHeard, Verdicts, Collected
    <2>4. QED BY <2>1, <2>2, <2>3 DEF CompletedOnEvidence, Accepted
  <1>2. QED BY <1>1, TerminalInvariant, EvidenceInvariant, PTL

-----------------------------------------------------------------------------
(***************************************************************************)
(* Nothing is refused without an I/O error.  Every check of the stores is  *)
(* passed because what each thread still has to do is in order: a script   *)
(* is a path through the phases of the lifecycle, from the phase the run   *)
(* is in to one the coordinator's next place expects.  So the invariant    *)
(* follows the remaining operations of a script, not only the next one.    *)
(***************************************************************************)

(* What the transition out of a phase hands over, and what the current iteration
   has handed over when the run is in a phase. *)
Brings(p) ==
    CASE p = "planning" -> {"implementation_plan"} [] p = "implementing" -> {"work_result"}
      [] p = "verifying" -> {"test_report"} [] p = "reviewing" -> {"review_report", "iteration_record"}
      [] OTHER -> {}
Given(p) ==
    CASE p \in BeforeWorkspace \cup {"planning"} -> {}
      [] p = "implementing" -> {"implementation_plan"}
      [] p \in {"snapshotting", "verifying"} -> {"implementation_plan", "work_result"}
      [] p = "reviewing" -> {"implementation_plan", "work_result", "test_report"}
      [] OTHER -> {"implementation_plan", "work_result", "test_report", "review_report", "iteration_record"}

(* An operation of the coordinator is in order in phase p of iteration n, and
   leaves the run in phase After(op, p). *)
DecisionOf(p, to) ==
    IF p # "deciding" THEN "none" ELSE IF to = "implementing" THEN "revise" ELSE "accept"
MoveInOrder(op, p, n) ==
    /\ op.to \in LegalNextPhases(p) \ Terminal
    /\ RequiredKind(p, op.to) \subseteq Kinds(op.refs)
    /\ \A x \in op.refs : x[1] \in Brings(p) /\ x[3] = n
    /\ op.reason = "none" /\ op.decision = DecisionOf(p, op.to)
    /\ op.decision = "revise" => n < IterationLimit
InOrder(op, p, n) ==
    \/ op.op = "emit" /\ op.phase \in {"any", p}
    \/ op.op = "move" /\ MoveInOrder(op, p, n)
    \/ op.op = "iteration" /\ ValidIteration(op.record) /\ op.record.iteration = n
    \/ op.op \in {"artifact", "prepare", "gate", "bundle", "bind"}
After(op, p) == IF op.op \in {"move", "bind"} THEN op.to ELSE p

(* A script is in order from phase p, and leads to phase q: by way of the phases
   ph that it goes through. *)
Leads(s, p, n, q) ==
    \E ph : /\ ph[1] = p /\ ph[Len(s) + 1] = q
            /\ \A i \in 1..Len(s) : InOrder(s[i], ph[i], n) /\ ph[i + 1] = After(s[i], ph[i])

(* The script of an Agent's thread settles what it reserves. *)
WorkerOp(op) == op.op \in {"reserve", "settle"} \/ (op.op = "emit" /\ op.phase = "any")
Settles(s) ==
    /\ \E i \in 1..Len(s) : s[i].op = "settle"
    /\ \A i \in 1..Len(s) : s[i].op # "reserve"
WorkerScript(s, holds) ==
    /\ \A i \in 1..Len(s) : WorkerOp(s[i])
    /\ holds => Settles(s)
    /\ \A i \in 1..Len(s) : s[i].op = "reserve" =>
          /\ \E j \in i + 1..Len(s) : s[j].op = "settle"
          /\ \A j \in i + 1..Len(s) : s[j].op # "reserve"

(* Where a script leaves the run, by the place that follows it. *)
Destinations ==
    CASE pc = "boot" -> {"created"}
      [] pc \in {"plan", "planned"} -> {"planning"}
      [] pc \in {"revise", "implement", "implemented"} -> {"implementing"}
      [] pc \in {"schedule", "submit", "scheduled"} -> {"implementing", "verifying"}
      [] pc \in {"verify", "tested", "verified"} -> {"verifying"}
      [] pc \in {"decide", "judge"} -> {"reviewing"}
      [] pc \in Deciding -> {"deciding"}
      [] OTHER -> Terminal

Unrefused == \A t \in Threads : raised[t] \in {"none", "agent"}

(* What a thread inside the journal has read is what the record says. *)
ReadersInStep ==
    \A t \in Threads : /\ hold[t].at = "read" => hold[t].rec.phase = rec.phase
                       /\ hold[t].at = "loaded" => hold[t].rec = rec

WorkersInOrder ==
    /\ \A a \in Agents : WorkerScript(todo[a], a \in reserved)
    /\ reserved \subseteq Agents

CoordinatorInOrder ==
    raised[Coord] = "none" /\ ended = "no" =>
        \E q \in Destinations : Leads(todo[Coord], rec.phase, rec.iteration, q)

(* The references of the record belong to what the run has been through. *)
ReferencesInOrder ==
    /\ rec.phase \in BeforeWorkspace => rec.iteration = 1
    /\ Open => \A x \in rec.refs :
        /\ x[3] \in Nat
        /\ x[3] < rec.iteration \/ (x[3] = rec.iteration /\ x[1] \in Given(rec.phase))

(* The iteration records are numbered, and the last one has the decision that
   is acted on. *)
LastDecides(choice) == records # <<>> /\ records[Len(records)].decision = choice
RecordsInOrder ==
    /\ \A i \in 1..Len(records) : records[i].iteration = i
    /\ raised[Coord] = "none" =>
        /\ pc \in Deciding =>
            /\ decision.decision \in {"accept", "revise", "fail"}
            /\ decision.decision = "revise" => rec.iteration < IterationLimit
            /\ IF Doing(Coord, "iteration") THEN Head(todo[Coord]).record.decision = decision.decision
               ELSE LastDecides(decision.decision)
        /\ pc \in TerminalPath => \A i \in 1..Len(todo[Coord]) :
            todo[Coord][i] = WriteBundle("completed") => LastDecides("accept")

(* The schedule: writers one after the other, their commits as they were
   collected, nobody who judges before the snapshot, one verdict of the gate. *)
Begun(a) == agent[a] # "pending"
Earlier(a) == \A i, j \in 1..Len(Writers) : Writers[j] = a /\ i < j => agent[Writers[i]] = "collected"
Committed(w) == agent[w] = "done" /\ output[w] = "work"
Scheduling ==
    /\ \A w \in WriterSet : Begun(w) => Earlier(w)
    /\ \A w \in WriterSet : Committed(w) => commits = Append(finished, w)
    /\ (\A w \in WriterSet : ~Committed(w)) => commits = finished
    /\ \A q \in Testers \cup Reviewers : Begun(q) => rec.phase = "verifying"
    /\ \A a \in Agents : agent[a] = "done" =>
          IF a \in Testers THEN output[a] = "error" \/ (output[a] = gate /\ gate # "none")
          ELSE output[a] \notin {"failed", "blocked"} /\ (a \in WriterSet => output[a] \in {"work", "error"})
(* The first quality Agent takes the run over the snapshot once. *)
Starting ==
    /\ starting \in Dynamic /\ ~Begun(starting) /\ (starting \in WriterSet => Earlier(starting))
    /\ rec.phase = "verifying" => MoveFree(todo[Coord])
    /\ \A i \in 1..Len(todo[Coord]) : todo[Coord][i].op = "move" /\ todo[Coord][i].to = "verifying" =>
          \A j \in i + 1..Len(todo[Coord]) : ~Transition(todo[Coord][j])
AllCollected == \A a \in Dynamic : agent[a] = "collected"
ScheduleInOrder ==
    mode = "dynamic" =>
        /\ DOMAIN output = Agents
        /\ pc \in {"schedule", "submit"} => Scheduling
        /\ pc = "submit" => Starting
        /\ pc \in {"schedule", "submit", "scheduled"} /\ stop = "quality" =>
              gate \in {"failed", "blocked"} /\ rec.phase = "verifying"
        /\ pc = "scheduled" =>
              MoveFree(todo[Coord]) /\ (stop = "none" => rec.phase = "verifying" /\ AllCollected)
        /\ pc = "decide" => \/ stop = "none" /\ AllCollected
                            \/ stop = "quality" /\ gate # "passed"
        /\ stop \in {"none", "user", "failed", "quality"}

GateInv == gate \in {"none", "passed", "failed", "blocked"}

Orderly ==
    /\ Unrefused /\ ReadersInStep /\ WorkersInOrder /\ CoordinatorInOrder
    /\ ReferencesInOrder /\ RecordsInOrder /\ ScheduleInOrder
LInv == faults = <<>> => Orderly

-----------------------------------------------------------------------------
(* Scripts in order *)

LEMMA LeadsEmpty ==
    ASSUME NEW p, NEW n, NEW q
    PROVE  Leads(<<>>, p, n, q) <=> p = q
  <1>1. ASSUME Leads(<<>>, p, n, q) PROVE p = q
    BY <1>1 DEF Leads
  <1>2. ASSUME p = q PROVE Leads(<<>>, p, n, q)
    <2> DEFINE ph == [i \in 1..1 |-> p]
    <2>1. ph[1] = p /\ ph[Len(<<>>) + 1] = q
      BY <1>2
    <2>2. \A i \in 1..Len(<<>>) : InOrder(<<>>[i], ph[i], n) /\ ph[i + 1] = After(<<>>[i], ph[i])
      OBVIOUS
    <2> HIDE DEF ph
    <2>3. QED BY <2>1, <2>2 DEF Leads
  <1>3. QED BY <1>1, <1>2

LEMMA LeadsTail ==
    ASSUME NEW s, IsScript(s), s # <<>>, NEW p, NEW n, NEW q, Leads(s, p, n, q)
    PROVE  InOrder(Head(s), p, n) /\ Leads(Tail(s), After(Head(s), p), n, q)
  <1>1. PICK ph : /\ ph[1] = p /\ ph[Len(s) + 1] = q
                  /\ \A i \in 1..Len(s) : InOrder(s[i], ph[i], n) /\ ph[i + 1] = After(s[i], ph[i])
    BY DEF Leads
  <1>2. /\ Len(s) \in Nat \ {0} /\ Head(s) = s[1] /\ Len(Tail(s)) = Len(s) - 1
        /\ \A i \in 1..Len(Tail(s)) : Tail(s)[i] = s[i + 1]
    BY ScriptTail
  <1> DEFINE z == [i \in 1..Len(s) |-> ph[i + 1]]
             r == Tail(s)
  <1>3. \A i \in 1..Len(s) : z[i] = ph[i + 1]
    OBVIOUS
  <1> HIDE DEF z, r
  <1>4. InOrder(Head(s), p, n) /\ z[1] = After(Head(s), p) /\ z[Len(r) + 1] = q
    BY <1>1, <1>2, <1>3 DEF r
  <1>5. \A i \in 1..Len(r) : InOrder(r[i], z[i], n) /\ z[i + 1] = After(r[i], z[i])
    <2> SUFFICES ASSUME NEW i \in 1..Len(r) PROVE InOrder(r[i], z[i], n) /\ z[i + 1] = After(r[i], z[i])
      OBVIOUS
    <2>1. i + 1 \in 1..Len(s) /\ i \in 1..Len(s) /\ r[i] = s[i + 1]
      BY <1>2 DEF r
    <2>2. z[i] = ph[i + 1] /\ z[i + 1] = ph[(i + 1) + 1]
      BY <1>3, <2>1
    <2>3. QED BY <1>1, <2>1, <2>2
  <1>6. Leads(r, After(Head(s), p), n, q)
    BY <1>4, <1>5 DEF Leads
  <1>7. QED BY <1>4, <1>6 DEF r

(* The phases that a script of a few operations goes through. *)
LEMMA LeadsThrough ==
    ASSUME NEW n, NEW a, NEW b, NEW c, NEW d, NEW e, NEW f, NEW p, NEW q, NEW r, NEW s, NEW t, NEW u, NEW v,
           InOrder(a, p, n), q = After(a, p)
    PROVE  /\ Leads(<<a>>, p, n, q)
           /\ InOrder(b, q, n) /\ r = After(b, q) =>
                /\ Leads(<<a, b>>, p, n, r)
                /\ InOrder(c, r, n) /\ s = After(c, r) =>
                     /\ Leads(<<a, b, c>>, p, n, s)
                     /\ InOrder(d, s, n) /\ t = After(d, s) =>
                          /\ Leads(<<a, b, c, d>>, p, n, t)
                          /\ InOrder(e, t, n) /\ u = After(e, t) =>
                               /\ Leads(<<a, b, c, d, e>>, p, n, u)
                               /\ InOrder(f, u, n) /\ v = After(f, u) => Leads(<<a, b, c, d, e, f>>, p, n, v)
  <1>1. Leads(<<a>>, p, n, q)
    <2> DEFINE ph == <<p, q>>
    <2>1. ph[1] = p /\ ph[2] = q
      OBVIOUS
    <2> HIDE DEF ph
    <2>2. QED BY <2>1 DEF Leads
  <1>2. ASSUME InOrder(b, q, n), r = After(b, q) PROVE Leads(<<a, b>>, p, n, r)
    <2> DEFINE ph == <<p, q, r>>
    <2>1. ph[1] = p /\ ph[2] = q /\ ph[3] = r
      OBVIOUS
    <2> HIDE DEF ph
    <2>2. QED BY <1>2, <2>1 DEF Leads
  <1>3. ASSUME InOrder(b, q, n), r = After(b, q), InOrder(c, r, n), s = After(c, r)
        PROVE  Leads(<<a, b, c>>, p, n, s)
    <2> DEFINE ph == <<p, q, r, s>>
    <2>1. ph[1] = p /\ ph[2] = q /\ ph[3] = r /\ ph[4] = s
      OBVIOUS
    <2> HIDE DEF ph
    <2>2. QED BY <1>3, <2>1 DEF Leads
  <1>4. ASSUME InOrder(b, q, n), r = After(b, q), InOrder(c, r, n), s = After(c, r), InOrder(d, s, n), t = After(d, s)
        PROVE  Leads(<<a, b, c, d>>, p, n, t)
    <2> DEFINE ph == <<p, q, r, s, t>>
    <2>1. ph[1] = p /\ ph[2] = q /\ ph[3] = r /\ ph[4] = s /\ ph[5] = t
      OBVIOUS
    <2> HIDE DEF ph
    <2>2. QED BY <1>4, <2>1 DEF Leads
  <1>5. ASSUME InOrder(b, q, n), r = After(b, q), InOrder(c, r, n), s = After(c, r), InOrder(d, s, n), t = After(d, s),
               InOrder(e, t, n), u = After(e, t)
        PROVE  Leads(<<a, b, c, d, e>>, p, n, u)
    <2> DEFINE ph == <<p, q, r, s, t, u>>
    <2>1. ph[1] = p /\ ph[2] = q /\ ph[3] = r /\ ph[4] = s /\ ph[5] = t /\ ph[6] = u
      OBVIOUS
    <2> HIDE DEF ph
    <2>2. QED BY <1>5, <2>1 DEF Leads
  <1>6. ASSUME InOrder(b, q, n), r = After(b, q), InOrder(c, r, n), s = After(c, r), InOrder(d, s, n), t = After(d, s),
               InOrder(e, t, n), u = After(e, t), InOrder(f, u, n), v = After(f, u)
        PROVE  Leads(<<a, b, c, d, e, f>>, p, n, v)
    <2> DEFINE ph == <<p, q, r, s, t, u, v>>
    <2>1. ph[1] = p /\ ph[2] = q /\ ph[3] = r /\ ph[4] = s /\ ph[5] = t /\ ph[6] = u /\ ph[7] = v
      OBVIOUS
    <2> HIDE DEF ph
    <2>2. QED BY <1>6, <2>1 DEF Leads
  <1>7. QED BY <1>1, <1>2, <1>3, <1>4, <1>5, <1>6

LEMMA LeadsConcat ==
    ASSUME NEW s, NEW r, IsScript(s), IsScript(r), NEW n, NEW p, NEW q, NEW z,
           Leads(s, p, n, q), Leads(r, q, n, z)
    PROVE  Leads(s \o r, p, n, z)
  <1>1. PICK ps : /\ ps[1] = p /\ ps[Len(s) + 1] = q
                  /\ \A i \in 1..Len(s) : InOrder(s[i], ps[i], n) /\ ps[i + 1] = After(s[i], ps[i])
    BY DEF Leads
  <1>2. PICK pr : /\ pr[1] = q /\ pr[Len(r) + 1] = z
                  /\ \A i \in 1..Len(r) : InOrder(r[i], pr[i], n) /\ pr[i + 1] = After(r[i], pr[i])
    BY DEF Leads
  <1>3. /\ Len(s) \in Nat /\ Len(r) \in Nat /\ Len(s \o r) = Len(s) + Len(r)
        /\ \A i \in 1..Len(s) + Len(r) : (s \o r)[i] = IF i <= Len(s) THEN s[i] ELSE r[i - Len(s)]
    <2> DEFINE S == {s[i] : i \in 1..Len(s)} \cup {r[i] : i \in 1..Len(r)}
    <2>1. (\A i \in 1..Len(s) : s[i] \in S) /\ (\A i \in 1..Len(r) : r[i] \in S)
      OBVIOUS
    <2> HIDE DEF S
    <2>2. s \in Seq(S) /\ r \in Seq(S)
      BY <2>1, SeqOf DEF IsScript
    <2>3. QED BY <2>2, ConcatProperties, LenProperties
  <1> DEFINE ph == [i \in 1..Len(s) + Len(r) + 1 |-> IF i <= Len(s) THEN ps[i] ELSE pr[i - Len(s)]]
             w == s \o r
  <1>4. \A i \in 1..Len(s) + Len(r) + 1 : ph[i] = IF i <= Len(s) THEN ps[i] ELSE pr[i - Len(s)]
    OBVIOUS
  <1> HIDE DEF ph, w
  <1>5. Len(w) = Len(s) + Len(r) /\ \A i \in 1..Len(w) : w[i] = IF i <= Len(s) THEN s[i] ELSE r[i - Len(s)]
    BY <1>3 DEF w
  <1>6. ph[1] = p /\ ph[Len(w) + 1] = z
    <2>1. 1 \in 1..Len(s) + Len(r) + 1 /\ Len(w) + 1 \in 1..Len(s) + Len(r) + 1 /\ ~(Len(w) + 1 <= Len(s))
          /\ Len(w) + 1 - Len(s) = Len(r) + 1
      BY <1>3, <1>5
    <2>2. ph[Len(w) + 1] = z
      BY <1>2, <1>4, <2>1
    <2>3. CASE Len(s) = 0
      BY <1>1, <1>2, <1>4, <2>1, <2>3
    <2>4. CASE Len(s) # 0
      <3>1. 1 <= Len(s)
        BY <1>3, <2>4
      <3>2. QED BY <1>1, <1>4, <2>1, <2>2, <3>1
    <2>5. QED BY <2>2, <2>3, <2>4
  <1>7. \A i \in 1..Len(w) : InOrder(w[i], ph[i], n) /\ ph[i + 1] = After(w[i], ph[i])
    <2> SUFFICES ASSUME NEW i \in 1..Len(w) PROVE InOrder(w[i], ph[i], n) /\ ph[i + 1] = After(w[i], ph[i])
      OBVIOUS
    <2>1. i \in Nat /\ i \in 1..Len(s) + Len(r) + 1 /\ i + 1 \in 1..Len(s) + Len(r) + 1
      BY <1>3, <1>5
    <2>2. CASE i < Len(s)
      <3>1. i \in 1..Len(s) /\ w[i] = s[i] /\ ph[i] = ps[i] /\ ph[i + 1] = ps[i + 1]
        BY <1>3, <1>4, <1>5, <2>1, <2>2
      <3>2. QED BY <1>1, <3>1
    <2>3. CASE i = Len(s)
      <3>1. i \in 1..Len(s) /\ w[i] = s[i] /\ ph[i] = ps[i] /\ ph[i + 1] = pr[1]
        BY <1>3, <1>4, <1>5, <2>1, <2>3
      <3>2. QED BY <1>1, <1>2, <2>3, <3>1
    <2>4. CASE i > Len(s)
      <3> DEFINE k == i - Len(s)
      <3>1. k \in 1..Len(r) /\ w[i] = r[k] /\ ph[i] = pr[k] /\ ph[i + 1] = pr[k + 1]
        <4>1. k \in 1..Len(r) /\ (i + 1) - Len(s) = k + 1 /\ ~(i <= Len(s)) /\ ~(i + 1 <= Len(s))
          BY <1>3, <1>5, <2>1, <2>4
        <4>2. QED BY <1>4, <1>5, <2>1, <4>1
      <3> HIDE DEF k
      <3>2. QED BY <1>2, <3>1
    <2>5. QED BY <1>3, <2>1, <2>2, <2>3, <2>4
  <1>8. Leads(w, p, n, z)
    BY <1>6, <1>7 DEF Leads
  <1>9. QED BY <1>8 DEF w

(* The operations of the coordinators, where they are in order. *)
LEMMA OrderedOps ==
    ASSUME NEW p, NEW n
    PROVE  /\ InOrder(Emit("any"), p, n) /\ InOrder(Emit(p), p, n)
           /\ \A x : After(Emit(x), p) = p
           /\ \A name \in {"artifact", "prepare", "gate"} :
                 InOrder(Work(name), p, n) /\ After(Work(name), p) = p
           /\ \A x : InOrder(WriteBundle(x), p, n) /\ After(WriteBundle(x), p) = p
           /\ \A r : ValidIteration(r) /\ r.iteration = n =>
                 InOrder(WriteIteration(r), p, n) /\ After(WriteIteration(r), p) = p
  <1>1. InOrder(Emit("any"), p, n) /\ InOrder(Emit(p), p, n) /\ \A x : After(Emit(x), p) = p
    BY DEF InOrder, After, Emit
  <1>2. \A name \in {"artifact", "prepare", "gate"} : InOrder(Work(name), p, n) /\ After(Work(name), p) = p
    BY DEF InOrder, After, Work
  <1>3. \A x : InOrder(WriteBundle(x), p, n) /\ After(WriteBundle(x), p) = p
    BY DEF InOrder, After, WriteBundle
  <1>4. \A r : ValidIteration(r) /\ r.iteration = n =>
                 InOrder(WriteIteration(r), p, n) /\ After(WriteIteration(r), p) = p
    BY DEF InOrder, After, WriteIteration
  <1>5. QED BY <1>1, <1>2, <1>3, <1>4

LEMMA BindInOrder ==
    ASSUME NEW p, NEW n, NEW to, NEW reason
    PROVE  InOrder(Bind(to, reason), p, n) /\ After(Bind(to, reason), p) = to
  BY DEF InOrder, After, Bind

LEMMA RefsOf ==
    ASSUME NEW kind, NEW A
    PROVE  /\ \A x \in Refs(kind, A) : x[1] = kind /\ x[3] = rec.iteration
           /\ A # {} => kind \in Kinds(Refs(kind, A))
  <1>1. \A x \in Refs(kind, A) : x[1] = kind /\ x[3] = rec.iteration
    BY DEF Refs
  <1>2. ASSUME A # {} PROVE kind \in Kinds(Refs(kind, A))
    <2>1. PICK a \in A : TRUE
      BY <1>2
    <2>2. <<kind, a, rec.iteration>> \in Refs(kind, A)
      BY <2>1 DEF Refs
    <2>3. \E x \in Refs(kind, A) : x[1] = kind
      BY <1>1, <2>2
    <2>4. QED BY <2>3 DEF Kinds
  <1>3. QED BY <1>1, <1>2

(* A transition with what it has to hand over. *)
LEMMA MovesInOrder ==
    ASSUME NEW p, NEW to, NEW refs, p # "deciding", to \in LegalNextPhases(p), to \notin Terminal,
           RequiredKind(p, to) \subseteq Kinds(refs),
           \A x \in refs : x[1] \in Brings(p) /\ x[3] = rec.iteration
    PROVE  InOrder(Move(to, refs), p, rec.iteration) /\ After(Move(to, refs), p) = to
  <1>1. /\ Move(to, refs).op = "move" /\ Move(to, refs).to = to /\ Move(to, refs).refs = refs
        /\ Move(to, refs).reason = "none" /\ Move(to, refs).decision = "none"
    BY DEF Move
  <1>2. MoveInOrder(Move(to, refs), p, rec.iteration)
    BY <1>1 DEF MoveInOrder, DecisionOf
  <1>3. QED BY <1>1, <1>2 DEF InOrder, After

LEMMA Transitions ==
    /\ \A p, to : <<p, to>> \in {<<"created", "preparing_workspace">>, <<"preparing_workspace", "planning">>,
                                  <<"planning", "implementing">>, <<"snapshotting", "verifying">>} =>
          InOrder(Move(to, {}), p, rec.iteration) /\ After(Move(to, {}), p) = to
    /\ \A A : A # {} =>
          /\ LET op == Move("implementing", Refs("implementation_plan", A))
             IN  InOrder(op, "planning", rec.iteration) /\ After(op, "planning") = "implementing"
          /\ LET op == Move("snapshotting", Refs("work_result", A))
             IN  InOrder(op, "implementing", rec.iteration) /\ After(op, "implementing") = "snapshotting"
          /\ LET op == Move("reviewing", Refs("test_report", A))
             IN  InOrder(op, "verifying", rec.iteration) /\ After(op, "verifying") = "reviewing"
    /\ \A A, refs : refs = Refs("iteration_record", {Coord}) \cup Refs("review_report", A) =>
          InOrder(Move("deciding", refs), "reviewing", rec.iteration) /\ After(Move("deciding", refs), "reviewing") = "deciding"
  <1>0. \A p \in {"preparing_workspace", "planning", "implementing", "snapshotting", "verifying",
                   "reviewing", "deciding"} : p \notin Terminal
    BY DEF Terminal
  <1>1. ASSUME NEW p, NEW to, <<p, to>> \in {<<"created", "preparing_workspace">>, <<"preparing_workspace", "planning">>,
                                  <<"planning", "implementing">>, <<"snapshotting", "verifying">>}
        PROVE  InOrder(Move(to, {}), p, rec.iteration) /\ After(Move(to, {}), p) = to
    <2>1. /\ p # "deciding" /\ to \in LegalNextPhases(p) /\ to \notin Terminal /\ RequiredKind(p, to) = {}
      BY <1>1, <1>0 DEF LegalNextPhases, RequiredKind
    <2>2. QED BY <2>1, MovesInOrder
  <1>2. ASSUME NEW A, A # {}
        PROVE  LET op == Move("implementing", Refs("implementation_plan", A))
               IN  InOrder(op, "planning", rec.iteration) /\ After(op, "planning") = "implementing"
    <2>1. "implementing" \in LegalNextPhases("planning") /\ RequiredKind("planning", "implementing") = {}
          /\ "implementation_plan" \in Brings("planning")
      BY DEF LegalNextPhases, RequiredKind, Brings
    <2>2. QED BY <1>0, <2>1, RefsOf, MovesInOrder
  <1>3. ASSUME NEW A, A # {}
        PROVE  LET op == Move("snapshotting", Refs("work_result", A))
               IN  InOrder(op, "implementing", rec.iteration) /\ After(op, "implementing") = "snapshotting"
    <2>1. "snapshotting" \in LegalNextPhases("implementing")
          /\ RequiredKind("implementing", "snapshotting") = {"work_result"} /\ "work_result" \in Brings("implementing")
      BY DEF LegalNextPhases, RequiredKind, Brings
    <2>2. QED BY <1>0, <1>3, <2>1, RefsOf, MovesInOrder
  <1>4. ASSUME NEW A, A # {}
        PROVE  LET op == Move("reviewing", Refs("test_report", A))
               IN  InOrder(op, "verifying", rec.iteration) /\ After(op, "verifying") = "reviewing"
    <2>1. "reviewing" \in LegalNextPhases("verifying")
          /\ RequiredKind("verifying", "reviewing") = {"test_report"} /\ "test_report" \in Brings("verifying")
      BY DEF LegalNextPhases, RequiredKind, Brings
    <2>2. QED BY <1>0, <1>4, <2>1, RefsOf, MovesInOrder
  <1>5. ASSUME NEW A, NEW refs, refs = Refs("iteration_record", {Coord}) \cup Refs("review_report", A)
        PROVE  InOrder(Move("deciding", refs), "reviewing", rec.iteration) /\ After(Move("deciding", refs), "reviewing") = "deciding"
    <2>1. "deciding" \in LegalNextPhases("reviewing")
          /\ RequiredKind("reviewing", "deciding") = {"iteration_record"}
          /\ {"iteration_record", "review_report"} \subseteq Brings("reviewing")
      BY DEF LegalNextPhases, RequiredKind, Brings
    <2>2. "iteration_record" \in Kinds(refs)
      BY <1>5, RefsOf DEF Kinds
    <2>3. \A x \in refs : x[1] \in Brings("reviewing") /\ x[3] = rec.iteration
      BY <1>5, <2>1, RefsOf
    <2>4. QED BY <1>0, <2>1, <2>2, <2>3, MovesInOrder
  <1>6. QED BY <1>1, <1>2, <1>3, <1>4, <1>5

(* The decided transitions. *)
LEMMA DecidedInOrder ==
    ASSUME NEW n
    PROVE  /\ InOrder(Decided("delivering", "accept"), "deciding", n)
           /\ After(Decided("delivering", "accept"), "deciding") = "delivering"
           /\ n < IterationLimit => InOrder(Decided("implementing", "revise"), "deciding", n)
           /\ After(Decided("implementing", "revise"), "deciding") = "implementing"
  <1>1. \A to, d : LET op == Decided(to, d) IN op.op = "move" /\ op.to = to /\ op.refs = {} /\ op.reason = "none" /\ op.decision = d
    BY DEF Decided, Move
  <1>2. /\ {"delivering", "implementing"} = LegalNextPhases("deciding") \ Terminal
        /\ RequiredKind("deciding", "delivering") = {} /\ RequiredKind("deciding", "implementing") = {}
    BY DEF LegalNextPhases, RequiredKind, Terminal
  <1>3. QED BY <1>1, <1>2 DEF InOrder, After, MoveInOrder, DecisionOf

(* The terminal paths, and what an Agent's thread is given. *)
LEMMA EndsInOrder ==
    ASSUME NEW n
    PROVE  /\ \A reason, p : Leads(Failing(reason), p, n, "failed")
           /\ Leads(Completing, "deciding", n, "completed")
           /\ n < IterationLimit => Leads(Revising, "deciding", n, "implementing")
           /\ \A p : Leads(<<Emit("any")>>, p, n, p) /\ Leads(<<>>, p, n, p)
  <1>1. ASSUME NEW reason, NEW p PROVE Leads(Failing(reason), p, n, "failed")
    <2> DEFINE a == WriteBundle("failed")
               b == Bind("failed", reason)
               c == Emit("failed")
    <2>1. InOrder(a, p, n) /\ After(a, p) = p
      BY OrderedOps
    <2>8. InOrder(b, p, n) /\ After(b, p) = "failed"
      BY BindInOrder
    <2>9. InOrder(c, "failed", n) /\ After(c, "failed") = "failed"
      BY OrderedOps
    <2> HIDE DEF a, b, c
    <2>2. Leads(<<a, b, c>>, p, n, "failed")
      BY <2>1, <2>8, <2>9, LeadsThrough
    <2>3. QED BY <2>2 DEF a, b, c, Failing
  <1>2. Leads(Completing, "deciding", n, "completed")
    <2> DEFINE a == Decided("delivering", "accept")
               b == WriteBundle("completed")
               c == Bind("completed", "succeeded")
               d == Emit("completed")
    <2>1. InOrder(a, "deciding", n) /\ After(a, "deciding") = "delivering"
      BY DecidedInOrder
    <2>7. InOrder(b, "delivering", n) /\ After(b, "delivering") = "delivering"
      BY OrderedOps
    <2>8. InOrder(c, "delivering", n) /\ After(c, "delivering") = "completed"
      BY BindInOrder
    <2>9. InOrder(d, "completed", n) /\ After(d, "completed") = "completed"
      BY OrderedOps
    <2> HIDE DEF a, b, c, d
    <2>2. Leads(<<a, b, c, d>>, "deciding", n, "completed")
      BY <2>1, <2>7, <2>8, <2>9, LeadsThrough
    <2>3. QED BY <2>2 DEF a, b, c, d, Completing
  <1>3. n < IterationLimit => Leads(Revising, "deciding", n, "implementing")
    BY DecidedInOrder, LeadsThrough DEF Revising
  <1>4. \A p : Leads(<<Emit("any")>>, p, n, p) /\ Leads(<<>>, p, n, p)
    BY OrderedOps, LeadsThrough, LeadsEmpty
  <1>5. QED BY <1>1, <1>2, <1>3, <1>4

(* What is left of the script of an Agent's thread. *)
LEMMA WorkerTail ==
    ASSUME NEW s, IsScript(s), s # <<>>, NEW h \in BOOLEAN, WorkerScript(s, h)
    PROVE  /\ WorkerOp(Head(s))
           /\ Head(s).op = "emit" => WorkerScript(Tail(s), h)
           /\ Head(s).op = "reserve" => ~h /\ WorkerScript(Tail(s), TRUE)
           /\ Head(s).op = "settle" => WorkerScript(Tail(s), FALSE)
  <1> DEFINE r == Tail(s)
  <1>1. /\ Len(s) \in Nat \ {0} /\ Head(s) = s[1] /\ Len(r) = Len(s) - 1
        /\ \A i \in 1..Len(r) : r[i] = s[i + 1]
    BY ScriptTail
  <1>2. 1 \in 1..Len(s) /\ \A i \in 1..Len(r) : i + 1 \in 1..Len(s)
    BY <1>1
  <1> HIDE DEF r
  <1>3. WorkerOp(Head(s)) /\ \A i \in 1..Len(r) : WorkerOp(r[i])
    BY <1>1, <1>2 DEF WorkerScript
  <1>4. \A i \in 1..Len(r) : r[i].op = "reserve" =>
          /\ \E j \in i + 1..Len(r) : r[j].op = "settle"
          /\ \A j \in i + 1..Len(r) : r[j].op # "reserve"
    <2> SUFFICES ASSUME NEW i \in 1..Len(r), r[i].op = "reserve"
                 PROVE  /\ \E j \in i + 1..Len(r) : r[j].op = "settle"
                        /\ \A j \in i + 1..Len(r) : r[j].op # "reserve"
      OBVIOUS
    <2>1. i + 1 \in 1..Len(s) /\ s[i + 1].op = "reserve"
      BY <1>1, <1>2
    <2>2. PICK k \in (i + 1) + 1..Len(s) : s[k].op = "settle"
      BY <2>1 DEF WorkerScript
    <2>3. \A k2 \in (i + 1) + 1..Len(s) : s[k2].op # "reserve"
      BY <2>1 DEF WorkerScript
    <2>4. k - 1 \in i + 1..Len(r) /\ r[k - 1] = s[k]
      BY <1>1, <2>2
    <2>5. \A j \in i + 1..Len(r) : j + 1 \in (i + 1) + 1..Len(s) /\ r[j] = s[j + 1]
      BY <1>1
    <2>6. QED BY <2>2, <2>3, <2>4, <2>5
  <1>5. ASSUME Head(s).op = "emit" PROVE WorkerScript(r, h)
    <2>1. h => Settles(r)
      <3> SUFFICES ASSUME h PROVE Settles(r)
        OBVIOUS
      <3>1. Settles(s)
        BY DEF WorkerScript
      <3>2. PICK k \in 1..Len(s) : s[k].op = "settle"
        BY <3>1 DEF Settles
      <3>3. k - 1 \in 1..Len(r) /\ r[k - 1] = s[k]
        BY <1>1, <1>5, <3>2
      <3>4. \A i \in 1..Len(r) : r[i].op # "reserve"
        BY <1>1, <1>2, <3>1 DEF Settles
      <3>5. QED BY <3>2, <3>3, <3>4 DEF Settles
    <2>2. QED BY <1>3, <1>4, <2>1 DEF WorkerScript
  <1>6. ASSUME Head(s).op = "reserve" PROVE ~h /\ WorkerScript(r, TRUE)
    <2>1. ~h
      BY <1>1, <1>2, <1>6 DEF WorkerScript, Settles
    <2>2. PICK k \in 1 + 1..Len(s) : s[k].op = "settle"
      BY <1>1, <1>2, <1>6 DEF WorkerScript
    <2>3. \A j \in 1 + 1..Len(s) : s[j].op # "reserve"
      BY <1>1, <1>2, <1>6 DEF WorkerScript
    <2>4. k - 1 \in 1..Len(r) /\ r[k - 1] = s[k]
      BY <1>1, <2>2
    <2>5. \A i \in 1..Len(r) : i + 1 \in 1 + 1..Len(s) /\ r[i] = s[i + 1]
      BY <1>1
    <2>6. Settles(r)
      BY <2>2, <2>3, <2>4, <2>5 DEF Settles
    <2>7. QED BY <1>3, <1>4, <2>1, <2>6 DEF WorkerScript
  <1>7. WorkerScript(r, FALSE)
    BY <1>3, <1>4 DEF WorkerScript
  <1>8. QED BY <1>3, <1>5, <1>6, <1>7 DEF r

LEMMA WorkersGiven ==
    /\ WorkerScript(<<>>, FALSE) /\ ~WorkerScript(<<>>, TRUE)
    /\ WorkerScript(<<Work("reserve"), Emit("any"), Work("settle")>>, FALSE)
    /\ WorkerScript(Attempt, FALSE) /\ WorkerScript(<<Emit("any")>> \o Attempt, FALSE)
  <1> DEFINE a == Work("reserve")
             b == Emit("any")
             c == Work("settle")
  <1>1. a.op = "reserve" /\ b.op = "emit" /\ b.phase = "any" /\ c.op = "settle"
    BY DEF Work, Emit
  <1>2. WorkerOp(a) /\ WorkerOp(b) /\ WorkerOp(c)
    BY <1>1 DEF WorkerOp
  <1>3. WorkerScript(<<>>, FALSE) /\ ~WorkerScript(<<>>, TRUE)
    BY DEF WorkerScript, Settles
  <1>4. IsScript(<<a, b, c>>) /\ IsScript(Attempt)
    BY Scripts DEF Attempt
  <1> HIDE DEF a, b, c
  <1>5. WorkerScript(<<a, b, c>>, FALSE)
    <2> DEFINE s == <<a, b, c>>
    <2>1. Len(s) = 3 /\ s[1] = a /\ s[2] = b /\ s[3] = c
      OBVIOUS
    <2> HIDE DEF s
    <2>2. WorkerScript(s, FALSE)
      BY <1>1, <1>2, <2>1 DEF WorkerScript
    <2>3. QED BY <2>2 DEF s
  <1>6. WorkerScript(<<a, b, c, b>>, FALSE)
    <2> DEFINE s == <<a, b, c, b>>
    <2>1. Len(s) = 4 /\ s[1] = a /\ s[2] = b /\ s[3] = c /\ s[4] = b
      OBVIOUS
    <2> HIDE DEF s
    <2>2. WorkerScript(s, FALSE)
      BY <1>1, <1>2, <2>1 DEF WorkerScript
    <2>3. QED BY <2>2 DEF s
  <1>7. WorkerScript(<<b>> \o <<a, b, c, b>>, FALSE)
    <2> DEFINE s == <<b>> \o <<a, b, c, b>>
    <2>1. Len(s) = 5 /\ s[1] = b /\ s[2] = a /\ s[3] = b /\ s[4] = c /\ s[5] = b
      OBVIOUS
    <2> HIDE DEF s
    <2>2. WorkerScript(s, FALSE)
      BY <1>1, <1>2, <2>1 DEF WorkerScript
    <2>3. QED BY <2>2 DEF s
  <1>8. QED BY <1>3, <1>5, <1>6, <1>7 DEF a, b, c, Attempt

-----------------------------------------------------------------------------
(* Transitions in order are accepted *)

LEMMA OrderAccepted ==
    ASSUME Shaped, RecordInv, rec.iteration \in Nat, ReferencesInOrder, NEW op, MoveInOrder(op, rec.phase, rec.iteration)
    PROVE  MoveAccepted(rec, op)
  <1> DEFINE n == Moved(rec, op)
             p == rec.phase
  <1>1. /\ op.to \in LegalNextPhases(p) /\ op.to \notin Terminal /\ op.reason = "none"
        /\ RequiredKind(p, op.to) \subseteq Kinds(op.refs) /\ op.decision = DecisionOf(p, op.to)
        /\ \A x \in op.refs : x[1] \in Brings(p) /\ x[3] = rec.iteration
        /\ op.decision = "revise" => rec.iteration < IterationLimit
    BY DEF MoveInOrder
  <1>2. /\ n.phase = op.to /\ n.source = p /\ n.reason = op.reason
        /\ n.iteration = IF p = "deciding" /\ op.to = "implementing" THEN rec.iteration + 1
                         ELSE rec.iteration
        /\ n.snaps = IF op.to = "verifying" THEN rec.snaps + 1 ELSE rec.snaps
        /\ op.to # "planning" => (n.workspace <=> rec.workspace)
        /\ op.to = "planning" => n.workspace
    <2>1. op.to = "planning" => n.workspace
      BY DEF Moved, Shaped, IsRecord
    <2>2. QED BY <2>1, MovedFields DEF Shaped
  <1> HIDE DEF n
  <1>3. ValidTransition(rec, op)
    <2>1. IsLegalTransition(p, op.to)
      BY <1>1 DEF IsLegalTransition
    <2>2. op.decision = CASE p = "deciding" /\ op.to = "implementing" -> "revise"
                       [] p = "deciding" /\ op.to = "delivering" -> "accept"
                       [] OTHER -> "none"
      <3>1. p = "deciding" => op.to \in {"implementing", "delivering"}
        BY <1>1 DEF LegalNextPhases
      <3>2. QED BY <1>1, <3>1 DEF DecisionOf
    <2>3. /\ (op.reason # "none") = (op.to \in Terminal)
          /\ (op.to = "completed") = (op.reason = "succeeded")
      BY <1>1 DEF Terminal
    <2>4. QED BY <1>1, <2>1, <2>2, <2>3 DEF ValidTransition
  <1>4. op.refs \cap rec.refs = {}
    <2> SUFFICES ASSUME NEW x \in op.refs, x \in rec.refs PROVE FALSE
      OBVIOUS
    <2>1. Open
      BY <1>1 DEF Open, Terminal, LegalNextPhases
    <2>2. x[1] \in Brings(p) /\ x[3] = rec.iteration /\ x[1] \in Given(p)
      BY <1>1, <2>1 DEF ReferencesInOrder
    <2>3. Brings(p) \cap Given(p) = {}
      BY DEF Brings, Given, BeforeWorkspace
    <2>4. QED BY <2>2, <2>3
  <1>5. ValidRecord(n)
    <2>1. op.decision = "revise" <=> p = "deciding" /\ op.to = "implementing"
      BY <1>1 DEF DecisionOf, LegalNextPhases
    <2>2. ValidRecord(rec) /\ (p \in BeforeWorkspace => rec.snaps = 0)
      BY DEF RecordInv
    <2>3. n.iteration <= IterationLimit
      BY <1>1, <1>2, <2>1, <2>2, StoresAssumption DEF ValidRecord
    <2>4. n.phase # "failed" /\ (n.reason # "none") = (n.phase \in Terminal)
      BY <1>1, <1>2 DEF Terminal
    <2>5. /\ n.phase \in BeforeWorkspace => ~n.workspace
          /\ n.phase \notin BeforeWorkspace \cup {"failed"} => n.workspace
      BY <1>1, <1>2, <2>2 DEF ValidRecord, LegalNextPhases, BeforeWorkspace
    <2>6. /\ n.snaps <= n.iteration
          /\ n.phase \in BeforeSnapshot => n.snaps = n.iteration - 1
          /\ n.phase \in AfterSnapshot => n.snaps = n.iteration
      <3>1. CASE p \in BeforeWorkspace
        <4>1. /\ op.to \in {"preparing_workspace", "planning"} /\ rec.snaps = 0 /\ rec.iteration = 1
              /\ p # "deciding"
          BY <1>1, <2>2, <3>1 DEF LegalNextPhases, BeforeWorkspace, ReferencesInOrder
        <4>2. n.snaps = 0 /\ n.iteration = 1 /\ n.phase \notin AfterSnapshot
          BY <1>2, <4>1 DEF AfterSnapshot
        <4>3. QED BY <4>2
      <3>2. CASE p \in BeforeSnapshot
        <4>1. op.to \in {"implementing", "snapshotting", "verifying"} /\ p # "deciding"
          BY <1>1, <3>2 DEF LegalNextPhases, BeforeSnapshot
        <4>2. rec.snaps = rec.iteration - 1 /\ n.iteration = rec.iteration
          BY <1>2, <2>2, <3>2, <4>1 DEF ValidRecord
        <4>3. CASE op.to = "verifying"
          BY <1>2, <4>2, <4>3 DEF BeforeSnapshot, AfterSnapshot
        <4>4. CASE op.to # "verifying"
          BY <1>2, <4>1, <4>2, <4>4 DEF BeforeSnapshot, AfterSnapshot
        <4>5. QED BY <4>3, <4>4
      <3>3. CASE p \in {"verifying", "reviewing"}
        <4>1. op.to \in {"reviewing", "deciding"} /\ p # "deciding" /\ rec.snaps = rec.iteration
          BY <1>1, <2>2, <3>3 DEF LegalNextPhases, AfterSnapshot, ValidRecord
        <4>2. n.snaps = rec.iteration /\ n.iteration = rec.iteration /\ n.phase \notin BeforeSnapshot
          BY <1>2, <4>1 DEF BeforeSnapshot
        <4>3. QED BY <4>2
      <3>4. CASE p = "deciding"
        <4>1. op.to \in {"implementing", "delivering"} /\ rec.snaps = rec.iteration
          BY <1>1, <2>2, <3>4 DEF LegalNextPhases, AfterSnapshot, ValidRecord
        <4>2. CASE op.to = "implementing"
          <5>1. n.snaps = rec.iteration /\ n.iteration = rec.iteration + 1 /\ n.phase \notin AfterSnapshot
            BY <1>2, <3>4, <4>1, <4>2 DEF AfterSnapshot
          <5>2. QED BY <5>1
        <4>3. CASE op.to = "delivering"
          <5>1. n.snaps = rec.iteration /\ n.iteration = rec.iteration /\ n.phase \notin BeforeSnapshot
            BY <1>2, <4>1, <4>3 DEF BeforeSnapshot
          <5>2. QED BY <5>1
        <4>4. QED BY <4>1, <4>2, <4>3
      <3>5. p \in BeforeWorkspace \cup BeforeSnapshot \cup {"verifying", "reviewing", "deciding"}
        BY <1>1 DEF LegalNextPhases, BeforeWorkspace, BeforeSnapshot, Terminal
      <3>6. QED BY <3>1, <3>2, <3>3, <3>4, <3>5
    <2>7. QED BY <2>3, <2>4, <2>5, <2>6 DEF ValidRecord
  <1>6. QED BY <1>3, <1>4, <1>5 DEF MoveAccepted, n

(* Without an error an operation goes on, or it is done: then the run is where
   the operation leads. *)
Continues(t) ==
    /\ Stays(t) /\ UNCHANGED <<rec, records, reserved>>
    /\ hold'[t].at \in {"read", "loaded"} => hold'[t].rec = rec
Advances(t) ==
    LET op == Head(todo[t])
    IN  /\ Finishes(t)
        /\ rec'.phase = After(op, rec.phase)
        /\ rec'.iteration = IF Transition(op) /\ op.decision = "revise" THEN rec.iteration + 1 ELSE rec.iteration
        /\ rec'.refs = IF Transition(op) THEN rec.refs \cup op.refs ELSE rec.refs
        /\ records' = IF op.op = "iteration" THEN Append(records, op.record) ELSE records
        /\ op.op = "reserve" => reserved' = reserved \cup {t}
        /\ op.op = "settle" => reserved' = reserved \ {t}
        /\ op.op \notin {"reserve", "settle"} => reserved' = reserved
        /\ Transition(op) => t = Coord /\ Open
        /\ rec' # rec => \A u \in Threads \ {t} : hold[u].at # "loaded"
        /\ rec'.phase # rec.phase => \A u \in Threads \ {t} : hold[u].at # "read"

(* What a thread does next. *)
LEMMA HeadInOrder ==
    ASSUME IInv, ErrorStops, TInv, Orderly, NEW t \in Threads, todo[t] # <<>>
    PROVE  /\ IsScript(todo[t])
           /\ t # Coord => t \in Agents /\ WorkerOp(Head(todo[t]))
           /\ t = Coord =>
                 /\ raised[Coord] = "none" /\ ended = "no"
                 /\ InOrder(Head(todo[Coord]), rec.phase, rec.iteration)
  <1>1. IsScript(todo[t])
    BY DEF IInv, Shaped
  <1>2. ASSUME t # Coord PROVE t \in Agents /\ WorkerOp(Head(todo[t]))
    <2>1. t \in Agents
      BY <1>2 DEF Threads
    <2>2. WorkerScript(todo[t], t \in reserved)
      BY <2>1 DEF Orderly, WorkersInOrder
    <2>3. (t \in reserved) \in BOOLEAN
      OBVIOUS
    <2>4. WorkerOp(Head(todo[t]))
      BY <1>1, <2>2, <2>3, WorkerTail
    <2>5. QED BY <2>1, <2>4
  <1>3. ASSUME t = Coord
        PROVE  /\ raised[Coord] = "none" /\ ended = "no"
               /\ InOrder(Head(todo[Coord]), rec.phase, rec.iteration)
    <2>1. raised[Coord] = "none" /\ ended = "no"
      BY <1>3 DEF ErrorStops, TInv, CoordinatorInStep
    <2>2. PICK q \in Destinations : Leads(todo[Coord], rec.phase, rec.iteration, q)
      BY <2>1 DEF Orderly, CoordinatorInOrder
    <2>3. InOrder(Head(todo[Coord]), rec.phase, rec.iteration)
      BY <1>1, <1>3, <2>2, LeadsTail
    <2>4. QED BY <2>1, <2>3
  <1>4. QED BY <1>1, <1>2, <1>3

(* No error happens. *)
LEMMA NoError ==
    ASSUME Shaped, faults' = <<>>
    PROVE  \A kind : ~Fault(kind) /\ (kind \in FaultKinds => faults' # Append(faults, kind))
  <1> SUFFICES ASSUME NEW kind, kind \in FaultKinds, faults' = Append(faults, kind) PROVE FALSE
    BY DEF Fault
  <1>1. Len(Append(faults, kind)) = Len(faults) + 1 /\ Len(faults) \in Nat
    BY AppendProperties, LenProperties DEF Shaped
  <1>2. QED BY <1>1

(* The journal. *)
LEMMA EventsAccepted ==
    ASSUME IInv, ErrorStops, TInv, Orderly, faults = <<>>, faults' = <<>>, NEW t \in Threads,
           EmitRead(t) \/ EmitWrite(t) \/ EmitLoad(t) \/ EmitAnchor(t)
    PROVE  Continues(t) \/ Advances(t)
  <1> DEFINE op == Head(todo[t])
  <1>1. /\ todo[t] # <<>> /\ op.op = "emit" /\ ~Torn /\ IsHold(hold[t])
        /\ \A kind : ~Fault(kind)
    BY NoError DEF EmitRead, EmitWrite, EmitLoad, EmitAnchor, Doing, Torn, IInv, Shaped
  <1>2. op.phase \in {"any", rec.phase}
    <2>1. CASE t = Coord
      BY <1>1, <2>1, HeadInOrder DEF InOrder
    <2>2. CASE t # Coord
      BY <1>1, <2>2, HeadInOrder DEF WorkerOp
    <2>3. QED BY <2>1, <2>2
  <1>3. /\ ~Transition(op) /\ op.op \notin {"iteration", "reserve", "settle"} /\ After(op, rec.phase) = rec.phase
    BY <1>1 DEF Transition, After
  <1> HIDE DEF op
  <1>4. CASE EmitRead(t)
    <2>1. IsHold([at |-> "read", rec |-> rec]) /\ [at |-> "read", rec |-> rec].rec = rec
      BY Holds
    <2>2. Stays(t) /\ hold'[t] = [at |-> "read", rec |-> rec]
      BY <1>1, <1>4, <2>1, Effects DEF EmitRead, IInv
    <2>3. UNCHANGED <<rec, records, reserved>>
      BY <1>4 DEF EmitRead
    <2>4. QED BY <2>1, <2>2, <2>3 DEF Continues
  <1>5. CASE EmitWrite(t)
    <2>1. hold[t].at = "read" /\ jlock = "free" /\ UNCHANGED <<rec, records, reserved>>
      BY <1>5 DEF EmitWrite, At
    <2>2. hold[t].rec.phase = rec.phase
      BY <2>1 DEF Orderly, ReadersInStep
    <2>3. Readable(journal) /\ rec.events = Len(journal)
      <3>1. Len(journal) - rec.events = 0 /\ Readable(journal)
        BY <1>1, <2>1 DEF IInv, StoreInv, HeadAnchored, RevisionsInOrder
      <3>2. Len(journal) \in Nat /\ rec.events \in Nat
        BY LenProperties DEF IInv, Shaped, IsRecord
      <3>3. QED BY <3>1, <3>2
    <2>4. hold' = [hold EXCEPT ![t].at = "written"] /\ UNCHANGED <<todo, raised>>
      BY <1>1, <1>2, <1>5, <2>2, <2>3 DEF EmitWrite, op
    <2> DEFINE h == [hold[t] EXCEPT !.at = "written"]
    <2>5. IsHold(h) /\ h.at = "written" /\ hold' = [hold EXCEPT ![t] = h]
      BY <1>1, <2>4, Holds
    <2> HIDE DEF h
    <2>6. Stays(t) /\ hold'[t] = h
      BY <1>1, <2>4, <2>5, Effects DEF IInv
    <2>7. QED BY <2>1, <2>5, <2>6 DEF Continues
  <1>6. CASE EmitLoad(t)
    <2>1. hold[t].at = "written" /\ UNCHANGED <<rec, records, reserved>>
      BY <1>6 DEF EmitLoad, At
    <2>2. Len(journal) = rec.events + 1
      <3>1. jlock = t /\ t # "free"
        BY <2>1, LockHolder DEF IInv, StoreInv, ThreadsInStep
      <3>2. Len(journal) - rec.events = 1
        BY <3>1 DEF IInv, StoreInv, HeadAnchored
      <3>3. Len(journal) \in Nat /\ rec.events \in Nat
        BY LenProperties DEF IInv, Shaped, IsRecord
      <3>4. QED BY <3>2, <3>3
    <2>3. IsHold([at |-> "loaded", rec |-> rec]) /\ [at |-> "loaded", rec |-> rec].rec = rec
      BY Holds
    <2>4. hold' = [hold EXCEPT ![t] = [at |-> "loaded", rec |-> rec]] /\ UNCHANGED <<todo, raised>>
      BY <1>6, <2>2 DEF EmitLoad
    <2>5. Stays(t) /\ hold'[t] = [at |-> "loaded", rec |-> rec]
      BY <1>1, <2>3, <2>4, Effects DEF IInv
    <2>6. QED BY <2>1, <2>3, <2>5 DEF Continues
  <1>7. CASE EmitAnchor(t)
    <2>1. hold[t].at = "loaded" /\ UNCHANGED <<records, reserved>>
      BY <1>7 DEF EmitAnchor, At
    <2>2. rec = hold[t].rec
      BY <2>1 DEF Orderly, ReadersInStep
    <2>3. rec' = [rec EXCEPT !.events = @ + 1] /\ Finish(t)
      BY <1>1, <1>7, <2>2 DEF EmitAnchor
    <2>4. Finishes(t)
      BY <1>1, <2>3, Effects DEF IInv
    <2>5. \A u \in Threads \ {t} : hold[u].at # "loaded"
      BY <2>1, LockHolder DEF IInv, StoreInv, ThreadsInStep
    <2>6. rec'.phase = rec.phase /\ rec'.refs = rec.refs /\ rec'.iteration = rec.iteration
      <3>1. IsRecord(rec)
        BY DEF IInv, Shaped
      <3>2. rec'.phase = rec.phase /\ rec'.refs = rec.refs
        BY <2>3, <3>1, AnchoredLifecycle
      <3>3. rec'.iteration = rec.iteration
        BY <2>3, <3>1 DEF IsRecord
      <3>4. QED BY <3>2, <3>3
    <2>7. Advances(t)
      BY <1>3, <2>1, <2>4, <2>5, <2>6 DEF Advances, op
    <2>8. QED BY <2>7
  <1>8. QED BY <1>4, <1>5, <1>6, <1>7

(* The artifacts, the ledger and the work beside the stores. *)
LEMMA PlainAdvances ==
    ASSUME IInv, ErrorStops, TInv, Orderly, faults' = <<>>, NEW t \in Threads,
           ArtifactWrite(t) \/ OutsideWork(t) \/ Reserve(t) \/ Settle(t)
    PROVE  Advances(t)
  <1> DEFINE op == Head(todo[t])
  <1>1. /\ todo[t] # <<>> /\ op.op \in {"artifact", "iteration", "prepare", "gate", "reserve", "settle"}
        /\ \A kind : ~Fault(kind)
    BY NoError DEF ArtifactWrite, OutsideWork, Reserve, Settle, Doing, IInv
  <1>2. op.op = "iteration" => ValidIteration(op.record)
    <2>1. CASE t = Coord
      BY <2>1, <1>1, HeadInOrder DEF InOrder
    <2>2. CASE t # Coord
      BY <1>1, <2>2, HeadInOrder DEF WorkerOp
    <2>3. QED BY <2>1, <2>2
  <1>3. /\ ~Transition(op) /\ After(op, rec.phase) = rec.phase
    BY <1>1 DEF Transition, After
  <1> HIDE DEF op
  <1>4. /\ UNCHANGED rec /\ Finish(t)
        /\ records' = IF op.op = "iteration" THEN Append(records, op.record) ELSE records
        /\ op.op = "reserve" => reserved' = reserved \cup {t}
        /\ op.op = "settle" => reserved' = reserved \ {t}
        /\ op.op \notin {"reserve", "settle"} => reserved' = reserved
    <2>1. CASE ArtifactWrite(t)
      BY <1>1, <1>2, <2>1 DEF ArtifactWrite, Doing, op
    <2>2. CASE OutsideWork(t)
      BY <1>1, <2>2 DEF OutsideWork, Doing, op
    <2>3. CASE Reserve(t)
      BY <2>3 DEF Reserve, Doing, op
    <2>4. CASE Settle(t)
      BY <2>4 DEF Settle, Doing, op
    <2>5. QED BY <2>1, <2>2, <2>3, <2>4
  <1>5. Finishes(t)
    BY <1>1, <1>4, Effects DEF IInv
  <1>6. QED BY <1>3, <1>4, <1>5 DEF Advances, op

(* The terminal files. *)
LEMMA BundleAccepted ==
    ASSUME IInv, ErrorStops, TInv, EInv, Orderly, faults = <<>>, faults' = <<>>, BundleBegin \/ BundleLink
    PROVE  Continues(Coord) \/ Advances(Coord)
  <1> DEFINE op == Head(todo[Coord])
  <1>1. /\ todo[Coord] # <<>> /\ op.op = "bundle" /\ Coord \in Threads /\ IsHold(hold[Coord])
        /\ Doing(Coord, "bundle") /\ \A kind : ~Fault(kind)
    BY NoError DEF BundleBegin, BundleLink, Doing, IInv, Shaped, Threads
  <1>2. raised[Coord] = "none" /\ Open /\ pc \in TerminalPath /\ ToReport(todo[Coord])
    BY <1>1, AtOperation
  <1>3. /\ ~Transition(op) /\ op.op \notin {"iteration", "reserve", "settle"} /\ After(op, rec.phase) = rec.phase
    BY <1>1 DEF Transition, After
  <1>4. UNCHANGED <<rec, records, reserved>>
    BY DEF BundleBegin, BundleLink
  <1>5. CASE BundleBegin
    <2>1. reserved = {}
      <3>1. Calm
        BY <1>1, <1>2 DEF IInv, WorkflowInv, ScheduleInv, CallInv, Calm, TerminalPath
      <3>2. \A a \in Agents : a \notin reserved
        <4> SUFFICES ASSUME NEW a \in Agents, a \in reserved PROVE FALSE
          OBVIOUS
        <4>1. WorkerScript(<<>>, TRUE)
          BY <3>1 DEF Calm, Orderly, WorkersInOrder
        <4>2. QED BY <4>1, WorkersGiven
      <3>3. QED BY <3>2 DEF Orderly, WorkersInOrder
    <2>2. ValidReport(op.status)
      <3>1. \A i \in DOMAIN records : records[i].iteration = i
        BY DEF Orderly, RecordsInOrder, EInv, IsScript
      <3>2. ASSUME op.status = "completed" PROVE LastDecides("accept")
        <4>1. PICK status, to, reason : todo[Coord] = <<WriteBundle(status), Bind(to, reason), Emit(to)>>
          BY <1>2 DEF ToReport
        <4>2. 1 \in 1..Len(todo[Coord]) /\ todo[Coord][1] = WriteBundle(status) /\ op = WriteBundle(status)
          BY <4>1
        <4>3. status = "completed"
          BY <3>2, <4>2 DEF WriteBundle
        <4>4. QED BY <1>2, <4>2, <4>3 DEF Orderly, RecordsInOrder
      <3>3. QED BY <3>1, <3>2 DEF ValidReport, LastDecides
    <2>3. bundle = 0
      <3>1. ~Doing(Coord, "bind") /\ hold[Coord].at = "start" /\ Len(faults) < 2
        BY <1>1, <1>5 DEF BundleBegin, Doing, At
      <3>2. QED BY <1>2, <3>1 DEF TInv, BundleInv
    <2>4. hold' = [hold EXCEPT ![Coord].at = "linking"] /\ UNCHANGED <<todo, raised>>
      BY <1>5, <2>1, <2>2, <2>3 DEF BundleBegin, op
    <2> DEFINE h == [hold[Coord] EXCEPT !.at = "linking"]
    <2>5. IsHold(h) /\ h.at = "linking" /\ hold' = [hold EXCEPT ![Coord] = h]
      BY <1>1, <2>4, Holds
    <2> HIDE DEF h
    <2>6. Stays(Coord) /\ hold'[Coord] = h
      BY <1>1, <2>4, <2>5, Effects DEF IInv
    <2>7. QED BY <1>4, <2>5, <2>6 DEF Continues
  <1>6. CASE BundleLink
    <2>1. UNCHANGED <<todo, hold, raised>> \/ Finish(Coord)
      BY <1>1, <1>6 DEF BundleLink
    <2>2. hold[Coord].at = "linking"
      BY <1>6 DEF BundleLink, At
    <2>3. CASE UNCHANGED <<todo, hold, raised>>
      <3>1. Stays(Coord) /\ hold'[Coord].at = "linking"
        BY <1>1, <2>2, <2>3 DEF Stays, OnlyThread, IInv, Shaped
      <3>2. QED BY <1>4, <3>1 DEF Continues
    <2>4. CASE Finish(Coord)
      <3>1. Finishes(Coord)
        BY <1>1, <2>4, Effects DEF IInv
      <3>2. QED BY <1>3, <1>4, <3>1 DEF Advances, op
    <2>5. QED BY <2>1, <2>3, <2>4
  <1>7. QED BY <1>5, <1>6

(* The lifecycle. *)
LEMMA MovesAccepted ==
    ASSUME IInv, ErrorStops, TInv, EInv, Orderly, faults = <<>>, faults' = <<>>, MoveLoad \/ MoveReplace
    PROVE  Continues(Coord) \/ Advances(Coord)
  <1> DEFINE op == Head(todo[Coord])
  <1>1. /\ todo[Coord] # <<>> /\ op.op \in {"move", "bind"} /\ Coord \in Threads /\ Transition(op)
        /\ UNCHANGED <<records, reserved>>
    BY DEF MoveLoad, MoveReplace, Moving, Doing, Threads, Transition
  <1>2. /\ raised[Coord] = "none" /\ Open
        /\ op.op = "bind" => ToBind(todo[Coord])
    <2>1. CASE op.op = "move"
      <3>1. Doing(Coord, "move")
        BY <1>1, <2>1 DEF Doing
      <3>2. QED BY <2>1, <3>1, AtOperation
    <2>2. CASE op.op = "bind"
      <3>1. Doing(Coord, "bind")
        BY <1>1, <2>2 DEF Doing
      <3>2. /\ raised[Coord] = "none" /\ Open /\ (pc \notin TerminalPath => "bind" = "move")
            /\ (pc \in TerminalPath => ToBind(todo[Coord]))
        BY <3>1, AtOperation
      <3>3. QED BY <3>2
    <2>3. QED BY <1>1, <2>1, <2>2
  <1>3. CASE MoveLoad
    <2>1. rec.revision = mem /\ rec.phase \notin Terminal
      BY <1>2 DEF TInv, RecordInv, Open
    <2>2. /\ hold' = [hold EXCEPT ![Coord] = [at |-> "moving", rec |-> rec]]
          /\ UNCHANGED <<todo, raised, rec>>
      BY <1>3, <2>1 DEF MoveLoad
    <2>3. IsHold([at |-> "moving", rec |-> rec]) /\ [at |-> "moving", rec |-> rec].at = "moving"
      BY Holds
    <2>4. Stays(Coord) /\ hold'[Coord] = [at |-> "moving", rec |-> rec]
      BY <1>1, <2>2, <2>3, Effects DEF IInv
    <2>5. QED BY <1>1, <2>2, <2>3, <2>4 DEF Continues
  <1>4. CASE MoveReplace
    <2>1. rec = hold[Coord].rec
      BY <1>4 DEF MoveReplace, At, TInv, CoordinatorInStep
    <2>2. /\ MoveAccepted(rec, op)
          /\ op.decision = "revise" <=> rec.phase = "deciding" /\ op.to = "implementing"
      <3>1. CASE op.op = "move"
        <4>1. MoveInOrder(op, rec.phase, rec.iteration)
          BY <1>1, <3>1, HeadInOrder DEF InOrder
        <4>2. MoveAccepted(rec, op)
          BY <4>1, OrderAccepted DEF IInv, TInv, EInv, Orderly
        <4>3. op.decision = "revise" <=> rec.phase = "deciding" /\ op.to = "implementing"
          BY <4>1 DEF MoveInOrder, DecisionOf
        <4>4. QED BY <4>2, <4>3
      <3>2. CASE op.op = "bind"
        <4>1. PICK to, reason : todo[Coord] = <<Bind(to, reason), Emit(to)>> /\ MayEnd(to, reason)
          BY <1>2, <3>2 DEF ToBind
        <4>2. op = Bind(to, reason)
          BY <4>1
        <4>3. MoveAccepted(rec, op)
          BY <1>2, <4>1, <4>2, EndAccepted DEF IInv, TInv
        <4>4. op.decision = "none" /\ op.to = to /\ to \in {"failed", "completed"}
          BY <4>1, <4>2 DEF Bind, MayEnd
        <4>5. QED BY <4>3, <4>4
      <3>3. QED BY <1>1, <3>1, <3>2
    <2>3. \A kind \in FaultKinds : ~Unbind("fault", Append(faults, kind))
      <3> SUFFICES ASSUME NEW kind \in FaultKinds, Unbind("fault", Append(faults, kind)) PROVE FALSE
        OBVIOUS
      <3>1. Append(faults, kind) \in Seq(FaultKinds) /\ faults \in Seq(FaultKinds)
        BY FaultRemembered DEF IInv, Shaped
      <3>2. faults' = Append(faults, kind) \/ \E k \in FaultKinds : faults' = Append(Append(faults, kind), k)
        BY DEF Unbind
      <3>3. Len(faults') > 0
        BY <3>1, <3>2, AppendProperties, LenProperties
      <3>4. QED BY <3>3
    <2>4. rec' = Moved(rec, op) /\ Finish(Coord)
      BY <1>4, <2>1, <2>2, <2>3 DEF MoveReplace, op
    <2>5. Finishes(Coord)
      BY <1>1, <2>4, Effects DEF IInv
    <2>6. /\ rec'.phase = op.to /\ rec'.refs = rec.refs \cup op.refs
          /\ rec'.iteration = IF rec.phase = "deciding" /\ op.to = "implementing" THEN rec.iteration + 1
                              ELSE rec.iteration
      BY <2>4, MovedFields DEF IInv, Shaped
    <2>7. After(op, rec.phase) = op.to
      BY <1>1 DEF After
    <2>8. \A u \in Threads \ {Coord} : hold[u].at \notin {"read", "loaded"}
      <3>1. Calm
        BY <1>1, TransitionsAlone DEF IInv
      <3>2. QED BY <3>1 DEF Calm, IInv, StoreInv, ThreadsInStep, Threads
    <2>9. Advances(Coord)
      BY <1>1, <1>2, <2>2, <2>5, <2>6, <2>7, <2>8 DEF Advances, op
    <2>10. QED BY <2>9
  <1>5. QED BY <1>3, <1>4

(* Without an error nothing is refused: every operation goes on or is done. *)
LEMMA StoreAdvances ==
    ASSUME IInv, ErrorStops, TInv, EInv, Orderly, faults = <<>>, faults' = <<>>, StoreNext
    PROVE  \E t \in Threads : Continues(t) \/ Advances(t)
  <1>1. Coord \in Threads
    BY DEF Threads
  <1>2. ASSUME NEW t \in Threads, StoreStep(t) PROVE Continues(t) \/ Advances(t)
    BY <1>2, EventsAccepted, PlainAdvances DEF StoreStep
  <1>3. QED BY <1>1, <1>2, BundleAccepted, MovesAccepted DEF StoreNext

-----------------------------------------------------------------------------
(* The steps of the stores keep the order *)

(* What the order depends on, beside what the threads have read. *)
LEMMA SameOrder ==
    ASSUME Shaped, Orderly, UNCHANGED runVars, UNCHANGED fixedVars, UNCHANGED <<rec, records, reserved>>,
           \A t \in Threads : todo'[t] = todo[t] /\ raised'[t] = raised[t]
    PROVE  /\ Unrefused' /\ WorkersInOrder' /\ CoordinatorInOrder' /\ ReferencesInOrder'
           /\ RecordsInOrder' /\ ScheduleInOrder'
  <1>1. Coord \in Threads /\ Agents \subseteq Threads
    BY DEF Threads
  <1>2. todo'[Coord] = todo[Coord] /\ raised'[Coord] = raised[Coord] /\ \A a \in Agents : todo'[a] = todo[a]
    BY <1>1
  <1>3. Unrefused'
    BY DEF Orderly, Unrefused
  <1>4. WorkersInOrder'
    BY <1>2 DEF Orderly, WorkersInOrder
  <1>5. CoordinatorInOrder'
    BY <1>2 DEF Orderly, CoordinatorInOrder, Destinations, runVars
  <1>6. ReferencesInOrder'
    BY DEF Orderly, ReferencesInOrder, Open
  <1>7. RecordsInOrder'
    BY <1>2 DEF Orderly, RecordsInOrder, LastDecides, Doing, runVars
  <1>8. ScheduleInOrder'
    <2>1. UNCHANGED <<agent, output, gate, commits, finished, stop, starting, pc, mode>>
      BY DEF runVars, fixedVars
    <2>2. Scheduling => Scheduling'
      BY <2>1 DEF Scheduling, Begun, Earlier, Committed
    <2>3. Starting => Starting'
      BY <1>2, <2>1 DEF Starting, Begun, Earlier
    <2>4. AllCollected => AllCollected'
      BY <2>1 DEF AllCollected
    <2>5. QED BY <1>2, <2>1, <2>2, <2>3, <2>4 DEF Orderly, ScheduleInOrder
  <1>9. QED BY <1>3, <1>4, <1>5, <1>6, <1>7, <1>8

LEMMA ContinuesInOrder ==
    ASSUME Shaped, Orderly, NEW t \in Threads, Continues(t), UNCHANGED runVars, UNCHANGED fixedVars
    PROVE  Orderly'
  <1>1. \A u \in Threads : todo'[u] = todo[u] /\ raised'[u] = raised[u]
    BY DEF Continues, Stays, OnlyThread
  <1>2. ReadersInStep'
    BY DEF Orderly, ReadersInStep, Continues, Stays, OnlyThread
  <1>3. UNCHANGED <<rec, records, reserved>>
    BY DEF Continues
  <1>4. QED BY <1>1, <1>2, <1>3, SameOrder DEF Orderly

(* The operation of an Agent's thread is beside the lifecycle and the records. *)
LEMMA WorkerAdvances ==
    ASSUME IInv, ErrorStops, TInv, Orderly, NEW t \in Threads, t # Coord, Advances(t)
    PROVE  /\ rec'.phase = rec.phase /\ rec'.iteration = rec.iteration /\ rec'.refs = rec.refs
           /\ UNCHANGED records /\ todo'[Coord] = todo[Coord]
  <1>1. todo[t] # <<>> /\ Coord \in Threads
    BY DEF Advances, Finishes, OnlyThread, Threads
  <1>2. WorkerOp(Head(todo[t]))
    BY <1>1, HeadInOrder
  <1>3. ~Transition(Head(todo[t])) /\ Head(todo[t]).op # "iteration" /\ After(Head(todo[t]), rec.phase) = rec.phase
    BY <1>2 DEF WorkerOp, Transition, After
  <1>4. QED BY <1>1, <1>3 DEF Advances, Finishes, OnlyThread

(* The operation of the coordinator is in order. *)
LEMMA CoordinatorAdvances ==
    ASSUME IInv, ErrorStops, TInv, EInv, Orderly, Advances(Coord)
    PROVE  LET op == Head(todo[Coord]) IN
           /\ todo[Coord] # <<>> /\ IsScript(todo[Coord]) /\ raised[Coord] = "none" /\ ended = "no"
           /\ InOrder(op, rec.phase, rec.iteration)
           /\ todo'[Coord] = Tail(todo[Coord]) /\ \A a \in Agents : todo'[a] = todo[a]
           /\ ~Transition(op) =>
                 rec'.phase = rec.phase /\ rec'.iteration = rec.iteration /\ rec'.refs = rec.refs
           /\ Transition(op) => op.op = "move" \/ (op.op = "bind" /\ pc \in TerminalPath /\ rec'.phase \in Terminal)
           /\ Transition(op) /\ op.decision = "revise" =>
                 op.op = "move" /\ pc \notin Deciding \cup TerminalPath /\ todo[Coord] = Revising
           /\ UNCHANGED reserved
  <1> DEFINE op == Head(todo[Coord])
  <1>1. Coord \in Threads /\ todo[Coord] # <<>>
    BY DEF Advances, Finishes, OnlyThread, Threads
  <1>2. /\ IsScript(todo[Coord]) /\ raised[Coord] = "none" /\ ended = "no"
        /\ InOrder(op, rec.phase, rec.iteration)
    BY <1>1, HeadInOrder
  <1>3. todo'[Coord] = Tail(todo[Coord]) /\ \A a \in Agents : todo'[a] = todo[a]
    <2>1. Coord \notin Agents
      BY StoresAssumption
    <2>2. QED BY <2>1 DEF Advances, Finishes, OnlyThread, Threads
  <1>4. ~Transition(op) =>
                 rec'.phase = rec.phase /\ rec'.iteration = rec.iteration /\ rec'.refs = rec.refs
    <2>1. ~Transition(op) => After(op, rec.phase) = rec.phase
      BY DEF Transition, After
    <2>2. QED BY <2>1 DEF Advances
  <1>5. ASSUME op.op = "bind"
        PROVE  pc \in TerminalPath /\ rec'.phase \in Terminal /\ op.decision = "none"
    <2>1. Doing(Coord, "bind")
      BY <1>1, <1>5 DEF Doing
    <2>2. pc \in TerminalPath /\ ToBind(todo[Coord])
      BY <2>1, AtOperation
    <2>3. PICK to, reason : todo[Coord] = <<Bind(to, reason), Emit(to)>> /\ MayEnd(to, reason)
      BY <2>2 DEF ToBind
    <2>4. op = Bind(to, reason) /\ to \in Terminal
      BY <2>3 DEF MayEnd, Terminal
    <2>5. rec'.phase = op.to
      BY <1>5 DEF Advances, After
    <2>6. op.to = to /\ op.decision = "none"
      BY <2>4 DEF Bind
    <2>7. QED BY <2>2, <2>4, <2>5, <2>6
  <1>6. ASSUME Transition(op), op.decision = "revise"
        PROVE  op.op = "move" /\ pc \notin Deciding \cup TerminalPath /\ todo[Coord] = Revising
    <2>1. op.op = "move"
      BY <1>5, <1>6 DEF Transition
    <2>2. Counts(op) /\ op.op # "iteration"
      BY <1>6, <2>1 DEF Counts
    <2>3. QED BY <1>1, <1>2, <2>1, <2>2, NextCounts
  <1>7. UNCHANGED reserved
    BY <1>2 DEF InOrder, Advances
  <1>8. QED BY <1>1, <1>2, <1>3, <1>4, <1>5, <1>6, <1>7 DEF Transition

LEMMA AdvancesReaders ==
    ASSUME IInv, ErrorStops, TInv, Orderly, NEW t \in Threads, Advances(t)
    PROVE  Unrefused' /\ ReadersInStep'
  <1>1. \A u \in Threads : raised'[u] = raised[u]
    BY DEF Advances, Finishes, OnlyThread
  <1>2. Unrefused'
    BY <1>1 DEF Orderly, Unrefused
  <1>3. hold'[t].at = "start"
    BY Holds DEF Advances, Finishes
  <1>4. \A u \in Threads \ {t} : hold'[u] = hold[u]
    BY DEF Advances, Finishes, OnlyThread
  <1>5. /\ rec' # rec => \A u \in Threads \ {t} : hold[u].at # "loaded"
        /\ rec'.phase # rec.phase => \A u \in Threads \ {t} : hold[u].at # "read"
    BY DEF Advances
  <1>6. ReadersInStep'
    BY <1>3, <1>4, <1>5 DEF Orderly, ReadersInStep
  <1>7. QED BY <1>2, <1>6

LEMMA AdvancesWorkers ==
    ASSUME IInv, ErrorStops, TInv, EInv, Orderly, NEW t \in Threads, Advances(t)
    PROVE  WorkersInOrder'
  <1>0. WorkersInOrder /\ Coord \notin Agents
    BY StoresAssumption DEF Orderly
  <1>1. CASE t = Coord
    <2>1. UNCHANGED reserved /\ \A a \in Agents : todo'[a] = todo[a]
      BY <1>1, CoordinatorAdvances
    <2>2. QED BY <1>0, <2>1 DEF WorkersInOrder
  <1>2. CASE t # Coord
    <2> DEFINE op == Head(todo[t])
    <2>1. t \in Agents /\ todo[t] # <<>> /\ IsScript(todo[t]) /\ WorkerOp(op)
      BY <1>2, HeadInOrder DEF Advances, Finishes, OnlyThread
    <2>2. /\ todo'[t] = Tail(todo[t]) /\ \A a \in Agents \ {t} : todo'[a] = todo[a]
          /\ op.op = "reserve" => reserved' = reserved \cup {t}
          /\ op.op = "settle" => reserved' = reserved \ {t}
          /\ op.op \notin {"reserve", "settle"} => reserved' = reserved
      BY DEF Advances, Finishes, OnlyThread, Threads
    <2>3. op.op \in {"reserve", "settle", "emit"}
      BY <2>1 DEF WorkerOp
    <2>4. reserved' \subseteq Agents /\ \A a \in Agents \ {t} : (a \in reserved') = (a \in reserved)
      BY <1>0, <2>1, <2>2 DEF WorkersInOrder
    <2> DEFINE h == t \in reserved
    <2>5. h \in BOOLEAN /\ WorkerScript(todo[t], h)
      BY <1>0, <2>1 DEF WorkersInOrder
    <2>6. /\ op.op = "emit" => WorkerScript(Tail(todo[t]), h)
          /\ op.op = "reserve" => WorkerScript(Tail(todo[t]), TRUE)
          /\ op.op = "settle" => WorkerScript(Tail(todo[t]), FALSE)
      <3> HIDE DEF h
      <3>1. QED BY <2>1, <2>5, WorkerTail
    <2>7. WorkerScript(todo'[t], t \in reserved')
      <3>1. CASE op.op = "emit"
        <4>1. reserved' = reserved
          BY <2>2, <3>1
        <4>2. QED BY <2>2, <2>6, <3>1, <4>1
      <3>2. CASE op.op = "reserve"
        <4>1. (t \in reserved') = TRUE
          BY <2>2, <3>2
        <4>2. QED BY <2>2, <2>6, <3>2, <4>1
      <3>3. CASE op.op = "settle"
        <4>1. (t \in reserved') = FALSE
          BY <2>2, <3>3
        <4>2. QED BY <2>2, <2>6, <3>3, <4>1
      <3>4. QED BY <2>3, <3>1, <3>2, <3>3
    <2>8. \A a \in Agents \ {t} : WorkerScript(todo'[a], a \in reserved')
      BY <1>0, <2>2, <2>4 DEF WorkersInOrder
    <2>9. QED BY <2>4, <2>7, <2>8 DEF WorkersInOrder
  <1>3. QED BY <1>1, <1>2

LEMMA AdvancesCoordinator ==
    ASSUME IInv, ErrorStops, TInv, EInv, Orderly, NEW t \in Threads, Advances(t), UNCHANGED runVars
    PROVE  CoordinatorInOrder'
  <1>0. Destinations' = Destinations /\ ended' = ended /\ raised'[Coord] = raised[Coord]
    BY DEF Destinations, runVars, Advances, Finishes, OnlyThread, Threads
  <1>1. CASE t # Coord
    <2>1. rec'.phase = rec.phase /\ rec'.iteration = rec.iteration /\ todo'[Coord] = todo[Coord]
      BY <1>1, WorkerAdvances
    <2>2. QED BY <1>0, <2>1 DEF Orderly, CoordinatorInOrder
  <1>2. CASE t = Coord
    <2> DEFINE op == Head(todo[Coord])
    <2>1. /\ todo[Coord] # <<>> /\ IsScript(todo[Coord]) /\ raised[Coord] = "none" /\ ended = "no"
          /\ todo'[Coord] = Tail(todo[Coord])
          /\ Transition(op) /\ op.decision = "revise" => todo[Coord] = Revising
      BY <1>2, CoordinatorAdvances
    <2>2. PICK q \in Destinations : Leads(todo[Coord], rec.phase, rec.iteration, q)
      BY <2>1 DEF Orderly, CoordinatorInOrder
    <2>3. Leads(Tail(todo[Coord]), rec'.phase, rec.iteration, q)
      <3>1. rec'.phase = After(op, rec.phase)
        BY <1>2 DEF Advances
      <3>2. QED BY <2>1, <2>2, <3>1, LeadsTail
    <2>4. Leads(Tail(todo[Coord]), rec'.phase, rec'.iteration, q)
      <3>1. CASE Transition(op) /\ op.decision = "revise"
        <4>1. Tail(todo[Coord]) = <<>>
          BY <2>1, <3>1, RevisingScript
        <4>2. Leads(<<>>, rec'.phase, rec.iteration, q)
          BY <2>3, <4>1
        <4>3. rec'.phase = q
          BY <4>2, LeadsEmpty
        <4>4. Leads(<<>>, rec'.phase, rec'.iteration, q)
          BY <4>3, LeadsEmpty
        <4>5. QED BY <4>1, <4>4
      <3>2. CASE ~(Transition(op) /\ op.decision = "revise")
        <4>1. rec'.iteration = rec.iteration
          BY <1>2, <3>2 DEF Advances
        <4>2. QED BY <2>3, <4>1
      <3>3. QED BY <3>1, <3>2
    <2>5. QED BY <1>0, <2>1, <2>4 DEF CoordinatorInOrder
  <1>3. QED BY <1>1, <1>2

(* What a phase hands over is not asked for again in the iteration. *)
LEMMA HandedOver ==
    ASSUME NEW p, NEW to, to \in LegalNextPhases(p) \ Terminal, ~(p = "deciding" /\ to = "implementing")
    PROVE  Given(p) \cup Brings(p) \subseteq Given(to)
  <1>1. <<p, to>> \in {<<"created", "preparing_workspace">>, <<"preparing_workspace", "planning">>,
                        <<"planning", "implementing">>, <<"implementing", "snapshotting">>,
                        <<"snapshotting", "verifying">>, <<"verifying", "reviewing">>,
                        <<"reviewing", "deciding">>, <<"deciding", "delivering">>}
    BY DEF LegalNextPhases, Terminal
  <1>2. QED BY <1>1 DEF Given, Brings, BeforeWorkspace

LEMMA AdvancesReferences ==
    ASSUME IInv, ErrorStops, TInv, EInv, Orderly, NEW t \in Threads, Advances(t)
    PROVE  ReferencesInOrder'
  <1> DEFINE op == Head(todo[Coord])
  <1>0. ReferencesInOrder /\ rec.iteration \in Nat
    BY DEF Orderly, EInv
  <1>1. ASSUME rec'.phase = rec.phase, rec'.iteration = rec.iteration, rec'.refs = rec.refs
        PROVE  ReferencesInOrder'
    BY <1>0, <1>1 DEF ReferencesInOrder, Open
  <1>2. CASE t # Coord
    BY <1>1, <1>2, WorkerAdvances
  <1>3. CASE t = Coord /\ ~Transition(op)
    BY <1>1, <1>3, CoordinatorAdvances
  <1>4. CASE t = Coord /\ Transition(op)
    <2>1. /\ InOrder(op, rec.phase, rec.iteration)
          /\ op.op = "move" \/ (op.op = "bind" /\ rec'.phase \in Terminal)
      BY <1>4, CoordinatorAdvances
    <2>2. /\ rec'.phase = op.to /\ rec'.refs = rec.refs \cup op.refs /\ Open
          /\ rec'.iteration = IF op.decision = "revise" THEN rec.iteration + 1 ELSE rec.iteration
      BY <1>4 DEF Advances, After, Transition
    <2>3. CASE op.op = "bind"
      <3>1. rec'.phase \in Terminal
        BY <2>1, <2>3
      <3>2. rec'.phase \notin BeforeWorkspace
        BY <3>1 DEF Terminal, BeforeWorkspace
      <3>3. QED BY <3>1, <3>2 DEF ReferencesInOrder, Open
    <2>4. CASE op.op = "move"
      <3>1. MoveInOrder(op, rec.phase, rec.iteration)
        BY <2>1, <2>4 DEF InOrder
      <3>2. /\ op.to \in LegalNextPhases(rec.phase) \ Terminal
            /\ \A x \in op.refs : x[1] \in Brings(rec.phase) /\ x[3] = rec.iteration
            /\ op.decision = "revise" <=> rec.phase = "deciding" /\ op.to = "implementing"
        BY <3>1 DEF MoveInOrder, DecisionOf
      <3>3. rec'.phase \in BeforeWorkspace => rec'.iteration = 1
        <4> SUFFICES ASSUME rec'.phase \in BeforeWorkspace PROVE rec'.iteration = 1
          OBVIOUS
        <4>1. rec.phase \in BeforeWorkspace /\ op.to # "implementing"
          BY <2>2, <3>2 DEF LegalNextPhases, BeforeWorkspace
        <4>2. QED BY <1>0, <2>2, <3>2, <4>1 DEF ReferencesInOrder
      <3>4. \A x \in rec.refs :
              /\ x[3] \in Nat
              /\ x[3] < rec.iteration \/ (x[3] = rec.iteration /\ x[1] \in Given(rec.phase))
        BY <1>0, <2>2 DEF ReferencesInOrder
      <3>5. ASSUME NEW x \in rec'.refs
            PROVE  /\ x[3] \in Nat
                   /\ x[3] < rec'.iteration \/ (x[3] = rec'.iteration /\ x[1] \in Given(rec'.phase))
        <4>1. x \in rec.refs \/ x \in op.refs
          BY <2>2
        <4>2. CASE op.decision = "revise"
          <5>1. op.refs = {} /\ rec'.iteration = rec.iteration + 1
            BY <2>2, <3>2, <4>2 DEF Brings
          <5>2. QED BY <1>0, <3>4, <4>1, <5>1
        <4>3. CASE op.decision # "revise"
          <5>1. Given(rec.phase) \cup Brings(rec.phase) \subseteq Given(op.to) /\ rec'.iteration = rec.iteration
            BY <2>2, <3>2, <4>3, HandedOver
          <5>2. CASE x \in rec.refs
            BY <2>2, <3>4, <5>1, <5>2
          <5>3. CASE x \in op.refs
            BY <1>0, <2>2, <3>2, <5>1, <5>3
          <5>4. QED BY <4>1, <5>2, <5>3
        <4>4. QED BY <4>2, <4>3
      <3>6. QED BY <3>3, <3>5 DEF ReferencesInOrder
    <2>5. QED BY <2>1, <2>3, <2>4
  <1>5. QED BY <1>2, <1>3, <1>4

(* The next operation is the record of the iteration, or the iteration has it. *)
LEMMA AdvancesRecords ==
    ASSUME IInv, ErrorStops, TInv, EInv, Orderly, NEW t \in Threads, Advances(t), UNCHANGED runVars
    PROVE  RecordsInOrder'
  <1> DEFINE op == Head(todo[Coord])
             s == todo[Coord]
  <1>0. RecordsInOrder /\ rec.iteration \in Nat /\ IsScript(records)
    BY DEF Orderly, EInv
  <1>1. UNCHANGED <<pc, decision>> /\ raised'[Coord] = raised[Coord]
    BY DEF runVars, Advances, Finishes, OnlyThread, Threads
  <1>2. CASE t # Coord
    <2>1. rec'.iteration = rec.iteration /\ UNCHANGED records /\ todo'[Coord] = todo[Coord]
      BY <1>2, WorkerAdvances
    <2>2. QED BY <1>0, <1>1, <2>1 DEF RecordsInOrder, LastDecides, Doing
  <1>3. CASE t = Coord
    <2>1. /\ s # <<>> /\ IsScript(s) /\ raised[Coord] = "none" /\ todo'[Coord] = Tail(s)
          /\ InOrder(op, rec.phase, rec.iteration)
          /\ Transition(op) /\ op.decision = "revise" => pc \notin Deciding
      BY <1>3, CoordinatorAdvances
    <2>2. /\ Len(s) \in Nat \ {0} /\ Len(Tail(s)) = Len(s) - 1 /\ \A i \in 1..Len(Tail(s)) : Tail(s)[i] = s[i + 1]
      BY <2>1, ScriptTail
    <2>3. records' = IF op.op = "iteration" THEN Append(records, op.record) ELSE records
      BY <1>3 DEF Advances
    <2>4. op.op = "iteration" =>
            /\ pc \in Deciding /\ Len(records) = rec.iteration - 1 /\ OrdinaryScript(Tail(s))
            /\ op.record.iteration = rec.iteration
      <3>1. op.op = "iteration" => pc \in Deciding /\ Len(records) = rec.iteration - 1 /\ OrdinaryScript(Tail(s))
        BY <2>1, NextCounts
      <3>2. QED BY <2>1, <3>1 DEF InOrder
    <2>5. pc \in Deciding /\ op.op # "iteration" => OrdinaryScript(s) /\ LastDecides(decision.decision)
      <3> SUFFICES ASSUME pc \in Deciding, op.op # "iteration"
                   PROVE  OrdinaryScript(s) /\ LastDecides(decision.decision)
        OBVIOUS
      <3>1. OrdinaryScript(s)
        BY <2>1 DEF EInv, CountInv, Judged
      <3>2. QED BY <1>0, <2>1, <3>1 DEF RecordsInOrder, Doing
    <2>6. op.op = "iteration" =>
            /\ records' # <<>> /\ Len(records') = rec.iteration
            /\ records'[Len(records')] = op.record
            /\ \A i \in 1..Len(records) : records'[i] = records[i]
      <3> SUFFICES ASSUME op.op = "iteration"
                   PROVE  /\ records' # <<>> /\ Len(records') = rec.iteration
                          /\ records'[Len(records')] = op.record
                          /\ \A i \in 1..Len(records) : records'[i] = records[i]
        OBVIOUS
      <3> DEFINE S == {records[i] : i \in 1..Len(records)} \cup {op.record}
      <3>1. records \in Seq(S) /\ op.record \in S
        <4>1. \A i \in 1..Len(records) : records[i] \in S
          OBVIOUS
        <4> HIDE DEF S
        <4>2. records \in Seq(S)
          BY <1>0, <4>1, SeqOf DEF IsScript
        <4>3. QED BY <4>2 DEF S
      <3> HIDE DEF S
      <3>2. records' = Append(records, op.record)
        BY <2>3
      <3>3. QED BY <1>0, <2>4, <3>1, <3>2, AppendProperties, LenProperties
    <2>7. \A i \in 1..Len(records') : records'[i].iteration = i
      <3>1. CASE op.op = "iteration"
        <4> SUFFICES ASSUME NEW i \in 1..Len(records') PROVE records'[i].iteration = i
          OBVIOUS
        <4>1. CASE i \in 1..Len(records)
          BY <1>0, <2>6, <3>1, <4>1 DEF RecordsInOrder
        <4>2. CASE i \notin 1..Len(records)
          <5>1. i = rec.iteration
            BY <1>0, <2>4, <2>6, <3>1, <4>2
          <5>2. QED BY <2>4, <2>6, <3>1, <5>1
        <4>3. QED BY <4>1, <4>2
      <3>2. CASE op.op # "iteration"
        BY <1>0, <2>3, <3>2 DEF RecordsInOrder
      <3>3. QED BY <3>1, <3>2
    <2>8. ASSUME pc \in Deciding
          PROVE  /\ decision.decision \in {"accept", "revise", "fail"}
                 /\ decision.decision = "revise" => rec'.iteration < IterationLimit
                 /\ ~Doing(Coord, "iteration")'
                 /\ LastDecides(decision.decision)'
      <3>1. decision.decision \in {"accept", "revise", "fail"}
            /\ (decision.decision = "revise" => rec.iteration < IterationLimit)
        BY <1>0, <2>1, <2>8 DEF RecordsInOrder
      <3>2. rec'.iteration = rec.iteration
        BY <1>3, <2>1, <2>8 DEF Advances
      <3>3. OrdinaryScript(Tail(s))
        BY <2>1, <2>4, <2>5, <2>8, OrdinaryTail
      <3>4. ~Doing(Coord, "iteration")'
        <4> SUFFICES ASSUME Tail(s) # <<>>, Head(Tail(s)).op = "iteration" PROVE FALSE
          BY <2>1 DEF Doing
        <4>1. IsScript(Tail(s))
          BY <2>1, ScriptTail
        <4>2. Ordinary(Head(Tail(s)))
          BY <3>3, <4>1, OrdinaryTail
        <4>3. QED BY <4>2 DEF Ordinary, Counts
      <3>5. LastDecides(decision.decision)'
        <4>1. CASE op.op = "iteration"
          <5>1. op.record.decision = decision.decision
            BY <1>0, <2>1, <2>8, <4>1 DEF RecordsInOrder, Doing
          <5>2. QED BY <1>1, <2>6, <4>1, <5>1 DEF LastDecides
        <4>2. CASE op.op # "iteration"
          BY <1>1, <2>3, <2>5, <2>8, <4>2 DEF LastDecides
        <4>3. QED BY <4>1, <4>2
      <3>6. QED BY <3>1, <3>2, <3>4, <3>5
    <2>9. ASSUME pc \in TerminalPath, NEW i \in 1..Len(Tail(s)), Tail(s)[i] = WriteBundle("completed")
          PROVE  LastDecides("accept")'
      <3>1. i + 1 \in 1..Len(s) /\ s[i + 1] = WriteBundle("completed")
        BY <2>2, <2>9
      <3>2. LastDecides("accept")
        BY <1>0, <2>1, <2>9, <3>1 DEF RecordsInOrder
      <3>3. op.op # "iteration"
        BY <2>4, <2>9 DEF Deciding, TerminalPath
      <3>4. QED BY <2>3, <3>2, <3>3 DEF LastDecides
    <2>10. QED BY <1>1, <2>1, <2>7, <2>8, <2>9 DEF RecordsInOrder
  <1>4. QED BY <1>2, <1>3

(* The schedule sees the run enter "verifying" once, and nothing after it. *)
LEMMA AdvancesSchedule ==
    ASSUME IInv, ErrorStops, TInv, EInv, Orderly, NEW t \in Threads, Advances(t),
           UNCHANGED runVars, UNCHANGED fixedVars
    PROVE  ScheduleInOrder'
  <1> SUFFICES ASSUME mode = "dynamic" PROVE ScheduleInOrder'
    BY DEF ScheduleInOrder, fixedVars
  <1> DEFINE s == todo[Coord]
             op == Head(s)
  <1>0. ScheduleInOrder /\ ScheduleInv
    BY DEF Orderly, IInv, WorkflowInv
  <1>1. UNCHANGED <<agent, output, gate, commits, finished, stop, starting, pc, mode>>
    BY DEF runVars, fixedVars
  <1>2. \/ todo'[Coord] = s /\ rec'.phase = rec.phase
        \/ /\ todo'[Coord] = Tail(s) /\ s # <<>> /\ IsScript(s)
           /\ \/ ~Transition(op) /\ rec'.phase = rec.phase
              \/ Transition(op) /\ op.op = "move" /\ rec'.phase = op.to
              \/ pc \in TerminalPath
    <2>1. CASE t # Coord
      BY <2>1, WorkerAdvances
    <2>2. CASE t = Coord
      <3>1. /\ todo'[Coord] = Tail(s) /\ s # <<>> /\ IsScript(s)
            /\ ~Transition(op) => rec'.phase = rec.phase
            /\ Transition(op) => op.op = "move" \/ pc \in TerminalPath
        BY <2>2, CoordinatorAdvances
      <3>2. Transition(op) => rec'.phase = op.to
        BY <2>2 DEF Advances, After, Transition
      <3>3. QED BY <3>1, <3>2
    <2>3. QED BY <2>1, <2>2
  <1> HIDE DEF op
  <1>3. pc \in {"schedule", "submit", "scheduled"} => pc \notin TerminalPath
    BY DEF TerminalPath
  <1>4. s # <<>> /\ IsScript(s) => /\ MoveFree(s) => MoveFree(Tail(s)) /\ ~Transition(op)
    BY MoveFreeTail DEF op
  <1>5. ASSUME pc \in {"schedule", "submit", "scheduled"}, MoveFree(s)
        PROVE  MoveFree(todo'[Coord]) /\ rec'.phase = rec.phase
    BY <1>2, <1>3, <1>4, <1>5
  <1>6. pc \in {"schedule", "scheduled"} => MoveFree(s)
    BY <1>0 DEF ScheduleInv, ScheduleInOrder
  <1>7. pc \in {"schedule", "submit"} /\ rec.phase = "verifying" => MoveFree(s)
    BY <1>0, <1>6 DEF ScheduleInOrder, Starting
  <1>8. pc \in {"schedule", "submit"} => Scheduling'
    <2> SUFFICES ASSUME pc \in {"schedule", "submit"} PROVE Scheduling'
      OBVIOUS
    <2>1. Scheduling /\ (rec.phase = "verifying" => rec'.phase = "verifying")
      BY <1>0, <1>5, <1>7 DEF ScheduleInOrder
    <2>2. QED BY <1>1, <2>1 DEF Scheduling, Begun, Earlier, Committed
  <1>9. pc = "submit" => Starting'
    <2> SUFFICES ASSUME pc = "submit" PROVE Starting'
      OBVIOUS
    <2>1. /\ starting \in Dynamic /\ ~Begun(starting) /\ (starting \in WriterSet => Earlier(starting))
          /\ \A i \in 1..Len(s) : s[i].op = "move" /\ s[i].to = "verifying" =>
                \A j \in i + 1..Len(s) : ~Transition(s[j])
      BY <1>0 DEF ScheduleInOrder, Starting
    <2>2. (starting \in Dynamic /\ ~Begun(starting) /\ (starting \in WriterSet => Earlier(starting)))'
      BY <1>1, <2>1 DEF Begun, Earlier
    <2>3. CASE todo'[Coord] = s /\ rec'.phase = rec.phase
      BY <1>0, <2>2, <2>3 DEF ScheduleInOrder, Starting
    <2>4. CASE todo'[Coord] = Tail(s) /\ s # <<>> /\ IsScript(s)
      <3> DEFINE r == Tail(s)
      <3>1. /\ Len(s) \in Nat \ {0} /\ op = s[1] /\ Len(r) = Len(s) - 1
            /\ \A i \in 1..Len(r) : r[i] = s[i + 1]
        BY <2>4, ScriptTail DEF op
      <3> HIDE DEF r
      <3>2. rec'.phase = "verifying" => MoveFree(r)
        <4>1. CASE rec.phase = "verifying"
          BY <1>4, <1>7, <2>4, <4>1 DEF r
        <4>2. CASE rec.phase # "verifying" /\ rec'.phase = "verifying"
          <5>1. op.op = "move" /\ op.to = "verifying"
            BY <1>2, <1>3, <4>2
          <5>2. \A j \in 1 + 1..Len(s) : ~Transition(s[j])
            BY <2>1, <3>1, <5>1
          <5>3. \A i \in 1..Len(r) : i + 1 \in 1 + 1..Len(s)
            BY <3>1
          <5>4. QED BY <3>1, <5>2, <5>3 DEF MoveFree
        <4>3. QED BY <4>1, <4>2
      <3>3. ASSUME NEW i \in 1..Len(r), r[i].op = "move", r[i].to = "verifying", NEW j \in i + 1..Len(r)
            PROVE  ~Transition(r[j])
        <4>1. i + 1 \in 1..Len(s) /\ s[i + 1] = r[i] /\ j + 1 \in (i + 1) + 1..Len(s) /\ s[j + 1] = r[j]
          BY <3>1
        <4>2. QED BY <2>1, <3>3, <4>1
      <3>4. todo'[Coord] = r
        BY <2>4 DEF r
      <3>5. QED BY <2>2, <3>2, <3>3, <3>4 DEF Starting
    <2>5. QED BY <1>2, <2>3, <2>4
  <1>10. pc \in {"schedule", "submit", "scheduled"} /\ stop = "quality" =>
              gate \in {"failed", "blocked"} /\ rec'.phase = "verifying"
    BY <1>0, <1>5, <1>6, <1>7 DEF ScheduleInOrder
  <1>11. pc = "scheduled" => MoveFree(todo'[Coord]) /\ (stop = "none" => rec'.phase = "verifying" /\ AllCollected)
    BY <1>0, <1>5, <1>6 DEF ScheduleInOrder
  <1>12. AllCollected => AllCollected'
    BY <1>1 DEF AllCollected
  <1>13. QED BY <1>0, <1>1, <1>8, <1>9, <1>10, <1>11, <1>12 DEF ScheduleInOrder

LEMMA StoreOrder ==
    ASSUME IInv, ErrorStops, TInv, EInv, Orderly, faults = <<>>, faults' = <<>>, StoreNext,
           UNCHANGED runVars, UNCHANGED fixedVars
    PROVE  Orderly'
  <1>1. PICK t \in Threads : Continues(t) \/ Advances(t)
    BY StoreAdvances
  <1>2. CASE Continues(t)
    BY <1>2, ContinuesInOrder DEF IInv
  <1>3. CASE Advances(t)
    BY <1>3, AdvancesReaders, AdvancesWorkers, AdvancesCoordinator, AdvancesReferences,
       AdvancesRecords, AdvancesSchedule DEF Orderly
  <1>4. QED BY <1>1, <1>2, <1>3

-----------------------------------------------------------------------------
(* The steps of the coordinators keep the order *)

(* The coordinator between two scripts is where its place says. *)
LEMMA AtPlace ==
    ASSUME Orderly, NEW here, Ready(here)
    PROVE  rec.phase \in Destinations
  <1>1. PICK q \in Destinations : Leads(<<>>, rec.phase, rec.iteration, q)
    BY DEF Orderly, CoordinatorInOrder, Ready
  <1>2. QED BY <1>1, LeadsEmpty

LEMMA QuietOrder ==
    ASSUME Orderly, Quiet
    PROVE  ReadersInStep' /\ ReferencesInOrder'
  BY DEF Orderly, Quiet, ReadersInStep, ReferencesInOrder, Open

(* Threads that have nothing to do are given what settles. *)
LEMMA WorkersGoOn ==
    ASSUME Orderly, UNCHANGED reserved,
           \A a \in Agents : todo'[a] = todo[a] \/ (todo[a] = <<>> /\ WorkerScript(todo'[a], FALSE))
    PROVE  WorkersInOrder'
  <1>1. WorkersInOrder
    BY DEF Orderly
  <1>2. ASSUME NEW a \in Agents PROVE WorkerScript(todo'[a], a \in reserved)
    <2>1. WorkerScript(todo[a], a \in reserved)
      BY <1>1 DEF WorkersInOrder
    <2>2. CASE todo'[a] = todo[a]
      BY <2>1, <2>2
    <2>3. CASE todo[a] = <<>> /\ WorkerScript(todo'[a], FALSE)
      <3>1. (a \in reserved) = FALSE
        <4> SUFFICES ASSUME a \in reserved PROVE FALSE
          OBVIOUS
        <4>1. WorkerScript(<<>>, TRUE)
          BY <2>1, <2>3
        <4>2. QED BY <4>1, WorkersGiven
      <3>2. QED BY <2>3, <3>1
    <2>4. QED BY <2>2, <2>3
  <1>3. QED BY <1>1, <1>2 DEF WorkersInOrder

(* It takes a script that leads to its next place. *)
LEMMA ScriptTaken ==
    ASSUME Shaped, Orderly, Quiet, NEW s, NEW place, Run(s, place), NEW q, q \in Destinations',
           Leads(s, rec.phase, rec.iteration, q), Unrefused'
    PROVE  Unrefused' /\ ReadersInStep' /\ WorkersInOrder' /\ CoordinatorInOrder' /\ ReferencesInOrder'
  <1>1. Coord \in Threads /\ Agents \subseteq Threads /\ Coord \notin Agents
    BY StoresAssumption DEF Threads
  <1>2. todo'[Coord] = s /\ \A a \in Agents : todo'[a] = todo[a]
    BY <1>1 DEF Run, Shaped
  <1>3. UNCHANGED <<rec, reserved>>
    BY DEF Quiet
  <1>4. WorkersInOrder'
    BY <1>2, <1>3, WorkersGoOn
  <1>5. CoordinatorInOrder'
    BY <1>2, <1>3 DEF CoordinatorInOrder
  <1>6. QED BY <1>4, <1>5, QuietOrder

(* Nothing of the coordinator changes but the place, if it goes nowhere else. *)
LEMMA ScriptKept ==
    ASSUME Shaped, Orderly, Quiet, todo'[Coord] = todo[Coord], UNCHANGED ended, Unrefused',
           raised'[Coord] # "none" \/ (raised'[Coord] = raised[Coord] /\ Destinations' = Destinations),
           \A a \in Agents : todo'[a] = todo[a] \/ (todo[a] = <<>> /\ WorkerScript(todo'[a], FALSE))
    PROVE  Unrefused' /\ ReadersInStep' /\ WorkersInOrder' /\ CoordinatorInOrder' /\ ReferencesInOrder'
  <1>1. UNCHANGED <<rec, reserved>>
    BY DEF Quiet
  <1>2. WorkersInOrder'
    BY <1>1, WorkersGoOn
  <1>3. CoordinatorInOrder'
    BY <1>1 DEF CoordinatorInOrder, Orderly
  <1>4. QED BY <1>2, <1>3, QuietOrder

(* Outside the decision and the terminal paths. *)
LEMMA RecordsPlain ==
    ASSUME Orderly, Quiet, raised'[Coord] # "none" \/ pc' \notin Deciding \cup TerminalPath
    PROVE  RecordsInOrder'
  BY DEF Orderly, Quiet, RecordsInOrder

(* A failing path does not report a completed run. *)
LEMMA RecordsFailing ==
    ASSUME Shaped, Orderly, Quiet, NEW reason, NEW place \in TerminalPath, Run(Failing(reason), place)
    PROVE  RecordsInOrder'
  <1>1. todo'[Coord] = Failing(reason) /\ pc' \in TerminalPath /\ pc' \notin Deciding /\ UNCHANGED records
    BY DEF Run, Shaped, Threads, TerminalPath, Deciding, Quiet
  <1> DEFINE s == Failing(reason)
  <1>2. /\ Len(s) = 3 /\ s[1] = WriteBundle("failed") /\ s[2] = Bind("failed", reason) /\ s[3] = Emit("failed")
    BY DEF Failing
  <1>3. /\ WriteBundle("failed").status = "failed" /\ Bind("failed", reason).op = "bind" /\ Emit("failed").op = "emit"
        /\ WriteBundle("completed").status = "completed" /\ WriteBundle("completed").op = "bundle"
    BY DEF WriteBundle, Bind, Emit
  <1> HIDE DEF s
  <1>4. \A i \in 1..Len(s) : s[i] # WriteBundle("completed")
    BY <1>2, <1>3
  <1>5. QED BY <1>1, <1>4 DEF Orderly, RecordsInOrder, s

LEMMA RecordsSame ==
    ASSUME Orderly, Quiet, UNCHANGED <<pc, decision>>, todo'[Coord] = todo[Coord], raised'[Coord] = raised[Coord]
    PROVE  RecordsInOrder'
  BY DEF Orderly, Quiet, RecordsInOrder, LastDecides, Doing

(* The fixed coordinator schedules nothing, and outside a schedule the adaptive
   one has nothing to keep. *)
LEMMA NoSchedule ==
    ASSUME Orderly, \/ mode' # "dynamic"
                    \/ /\ mode = "dynamic" /\ pc' \notin {"schedule", "submit", "scheduled", "decide"}
                       /\ UNCHANGED <<output, stop>>
    PROVE  ScheduleInOrder'
  BY DEF Orderly, ScheduleInOrder

(* The iteration record that is about to be written says what was decided. *)
LEMMA RecordsJudge ==
    ASSUME Shaped, Orderly, Quiet, NEW r, NEW x, NEW y, NEW place \in Deciding,
           Run(<<WriteIteration(r), x, y>>, place), decision'.decision = r.decision,
           r.decision \in {"accept", "revise", "fail"}, r.decision = "revise" => rec.iteration < IterationLimit
    PROVE  RecordsInOrder'
  <1> DEFINE s == <<WriteIteration(r), x, y>>
  <1>1. /\ todo'[Coord] = s /\ pc' \in Deciding /\ pc' \notin TerminalPath /\ UNCHANGED <<rec, records>>
    BY DEF Run, Shaped, Threads, TerminalPath, Deciding, Quiet
  <1>2. s # <<>> /\ Head(s) = WriteIteration(r)
    OBVIOUS
  <1>3. WriteIteration(r).op = "iteration" /\ WriteIteration(r).record = r
    BY DEF WriteIteration
  <1> HIDE DEF s
  <1>4. Doing(Coord, "iteration")' /\ Head(todo'[Coord]).record = r
    BY <1>1, <1>2, <1>3 DEF Doing
  <1>5. QED BY <1>1, <1>4 DEF Orderly, RecordsInOrder

(* What the coordinators decide is a decision that the artifact store accepts. *)
LEMMA DecisionValid ==
    ASSUME NEW r, r.decision \in {"accept", "revise", "fail"},
           r.decision = "accept" <=> r.test = "passed" /\ \A v \in r.reviews : v = "accept",
           r.decision = "revise" => "fail" \notin r.reviews, r.complete \/ r.test # "passed"
    PROVE  ValidIteration(r)
  BY DEF ValidIteration

(* The script that records a decision. *)
LEMMA JudgeInOrder ==
    ASSUME rec.phase = "reviewing", NEW r, ValidIteration(r), r.iteration = rec.iteration, NEW refs, NEW A,
           refs = Refs("iteration_record", {Coord}) \cup Refs("review_report", A)
    PROVE  Leads(<<WriteIteration(r), Move("deciding", refs), Emit("deciding")>>, rec.phase, rec.iteration, "deciding")
  <1> DEFINE a == WriteIteration(r)
             b == Move("deciding", refs)
             c == Emit("deciding")
             n == rec.iteration
  <1>1. InOrder(a, "reviewing", n) /\ After(a, "reviewing") = "reviewing"
    BY OrderedOps
  <1>2. InOrder(b, "reviewing", n) /\ After(b, "reviewing") = "deciding"
    BY Transitions
  <1>3. InOrder(c, "deciding", n) /\ After(c, "deciding") = "deciding"
    BY OrderedOps
  <1> HIDE DEF a, b, c, n
  <1>4. Leads(<<a, b, c>>, "reviewing", n, "deciding")
    BY <1>1, <1>2, <1>3, LeadsThrough
  <1>5. QED BY <1>4 DEF a, b, c, n

(* Up to the first schedule. *)
LEMMA BeginOrder ==
    ASSUME IInv, Orderly, mode = "dynamic", UNCHANGED fixedVars, DynamicBegin
    PROVE  Orderly'
  <1> DEFINE a == Move("preparing_workspace", {})
             b == Work("prepare")
             c == Move("planning", {})
             d == Emit("planning")
             e == Move("implementing", {})
             n == rec.iteration
  <1>1. Ready("boot") /\ Quiet /\ Run(<<a, b, c, d, e>>, "revise") /\ UNCHANGED <<raised, output, stop>>
    BY DEF DynamicBegin
  <1>2. rec.phase = "created"
    BY <1>1, AtPlace DEF Ready, Destinations, Deciding
  <1>3. InOrder(a, "created", n) /\ After(a, "created") = "preparing_workspace"
    BY Transitions
  <1>4. InOrder(b, "preparing_workspace", n) /\ After(b, "preparing_workspace") = "preparing_workspace"
    BY OrderedOps
  <1>5. InOrder(c, "preparing_workspace", n) /\ After(c, "preparing_workspace") = "planning"
    BY Transitions
  <1>6. InOrder(d, "planning", n) /\ After(d, "planning") = "planning"
    BY OrderedOps
  <1>7. InOrder(e, "planning", n) /\ After(e, "planning") = "implementing"
    BY Transitions
  <1> HIDE DEF a, b, c, d, e, n
  <1>8. Leads(<<a, b, c, d, e>>, "created", n, "implementing")
    BY <1>3, <1>4, <1>5, <1>6, <1>7, LeadsThrough
  <1>9. pc' = "revise" /\ "implementing" \in Destinations' /\ Unrefused'
    BY <1>1 DEF Run, Destinations, Deciding, Orderly, Unrefused
  <1>10. Unrefused' /\ ReadersInStep' /\ WorkersInOrder' /\ CoordinatorInOrder' /\ ReferencesInOrder'
    BY <1>1, <1>2, <1>8, <1>9, ScriptTaken DEF IInv, n
  <1>11. RecordsInOrder'
    BY <1>1, <1>9, RecordsPlain DEF Deciding, TerminalPath
  <1>12. ScheduleInOrder'
    BY <1>1, <1>9, NoSchedule
  <1>13. QED BY <1>10, <1>11, <1>12 DEF Orderly

(* A schedule begins in the iteration that is being implemented, and ends after
   the snapshot, or with what stopped it. *)
LEMMA StartOrder ==
    ASSUME IInv, Orderly, mode = "dynamic", UNCHANGED fixedVars, StartSchedule
    PROVE  Orderly'
  <1>1. Ready("revise") /\ Quiet /\ Run(<<Emit("any")>>, "schedule") /\ UNCHANGED raised
    BY DEF StartSchedule
  <1>2. rec.phase = "implementing"
    BY <1>1, AtPlace DEF Ready, Destinations, Deciding
  <1>3. pc' = "schedule" /\ rec.phase \in Destinations' /\ Unrefused'
    BY <1>1, <1>2 DEF Run, Destinations, Deciding, Orderly, Unrefused
  <1>4. Unrefused' /\ ReadersInStep' /\ WorkersInOrder' /\ CoordinatorInOrder' /\ ReferencesInOrder'
    BY <1>1, <1>3, EndsInOrder, ScriptTaken DEF IInv
  <1>5. RecordsInOrder'
    BY <1>1, <1>3, RecordsPlain DEF Deciding, TerminalPath
  <1>6. /\ agent' = [x \in Agents |-> "pending"] /\ output' = [x \in Agents |-> "none"]
        /\ commits' = <<>> /\ finished' = <<>> /\ stop' = "none"
    BY DEF StartSchedule
  <1>7. \A x \in Agents : agent'[x] = "pending"
    BY <1>6
  <1>8. WriterSet \subseteq Agents /\ Testers \cup Reviewers \subseteq Agents
    BY TeamAssumption DEF Dynamic, WriterSet
  <1>9. Scheduling'
    BY <1>6, <1>7, <1>8 DEF Scheduling, Begun, Committed
  <1>10. ScheduleInOrder'
    BY <1>3, <1>6, <1>9 DEF ScheduleInOrder
  <1>11. QED BY <1>4, <1>5, <1>10 DEF Orderly

LEMMA EndOrder ==
    ASSUME IInv, Orderly, mode = "dynamic", UNCHANGED fixedVars, EndSchedule
    PROVE  Orderly'
  <1> DEFINE s == IF \A a \in Dynamic : agent[a] # "pending" THEN <<>> ELSE <<Emit("any")>>
  <1>1. Ready("schedule") /\ Quiet /\ Run(s, "scheduled") /\ UNCHANGED <<raised, agent, output, gate, stop>>
    BY DEF EndSchedule
  <1>2. rec.phase \in {"implementing", "verifying"}
    BY <1>1, AtPlace DEF Ready, Destinations, Deciding
  <1>3. pc' = "scheduled" /\ rec.phase \in Destinations' /\ Unrefused'
    BY <1>1, <1>2 DEF Run, Destinations, Deciding, Orderly, Unrefused
  <1>4. MoveFree(s) /\ Leads(s, rec.phase, rec.iteration, rec.phase)
    BY Announcements, EndsInOrder
  <1> HIDE DEF s
  <1>5. Unrefused' /\ ReadersInStep' /\ WorkersInOrder' /\ CoordinatorInOrder' /\ ReferencesInOrder'
    BY <1>1, <1>3, <1>4, ScriptTaken DEF IInv
  <1>6. RecordsInOrder'
    BY <1>1, <1>3, RecordsPlain DEF Deciding, TerminalPath
  <1>7. MoveFree(todo'[Coord]) /\ UNCHANGED rec
    BY <1>1, <1>4 DEF Run, IInv, Shaped, Threads, Quiet
  <1>8. /\ DOMAIN output = Agents /\ Scheduling /\ stop \in {"none", "user", "failed", "quality"}
        /\ stop = "quality" => gate \in {"failed", "blocked"} /\ rec.phase = "verifying"
    BY <1>1 DEF Orderly, ScheduleInOrder, Ready
  <1>9. stop = "none" => rec.phase = "verifying" /\ AllCollected
    <2> SUFFICES ASSUME stop = "none" PROVE rec.phase = "verifying" /\ AllCollected
      OBVIOUS
    <2>1. AllCollected
      BY DEF EndSchedule, AllCollected
    <2>2. PICK q \in Testers \cup Reviewers : TRUE
      BY TeamAssumption
    <2>3. Begun(q)
      BY <2>1 DEF AllCollected, Begun, Dynamic
    <2>4. QED BY <1>8, <2>1, <2>3 DEF Scheduling
  <1>10. AllCollected => AllCollected'
    BY <1>1 DEF AllCollected
  <1>11. ScheduleInOrder'
    BY <1>1, <1>3, <1>7, <1>8, <1>9, <1>10 DEF ScheduleInOrder
  <1>12. QED BY <1>5, <1>6, <1>11 DEF Orderly

LEMMA AfterOrder ==
    ASSUME IInv, Orderly, mode = "dynamic", UNCHANGED fixedVars, AfterSchedule
    PROVE  Orderly'
  <1>1. Ready("scheduled") /\ Quiet /\ UNCHANGED <<agent, output, gate, stop>>
    BY DEF AfterSchedule
  <1>2. /\ DOMAIN output = Agents /\ stop \in {"none", "user", "failed", "quality"}
        /\ stop = "quality" => gate \in {"failed", "blocked"} /\ rec.phase = "verifying"
        /\ stop = "none" => rec.phase = "verifying" /\ AllCollected
    BY <1>1 DEF Orderly, ScheduleInOrder, Ready
  <1>3. CASE stop \in {"user", "failed"}
    <2>1. Run(Failing(stop), "ending") /\ UNCHANGED raised
      BY <1>3 DEF AfterSchedule
    <2>2. pc' = "ending" /\ "failed" \in Destinations' /\ Unrefused'
      BY <2>1 DEF Run, Destinations, Terminal, Deciding, Orderly, Unrefused
    <2>3. Leads(Failing(stop), rec.phase, rec.iteration, "failed")
      BY EndsInOrder
    <2>4. Unrefused' /\ ReadersInStep' /\ WorkersInOrder' /\ CoordinatorInOrder' /\ ReferencesInOrder'
      BY <1>1, <2>1, <2>2, <2>3, ScriptTaken DEF IInv
    <2>5. RecordsInOrder'
      BY <1>1, <2>1, RecordsFailing DEF IInv, TerminalPath
    <2>6. ScheduleInOrder'
      BY <1>1, <2>2, NoSchedule
    <2>7. QED BY <2>4, <2>5, <2>6 DEF Orderly
  <1>4. CASE stop \notin {"user", "failed"}
    <2> DEFINE A == IF Collected(Testers) = {} THEN {Coord} ELSE Collected(Testers)
               op == Move("reviewing", Refs("test_report", A))
    <2>1. rec.phase = "verifying"
      BY <1>2, <1>4
    <2>2. Run(<<op>>, "decide") /\ UNCHANGED raised
      BY <1>4, <2>1 DEF AfterSchedule
    <2>3. pc' = "decide" /\ "reviewing" \in Destinations' /\ Unrefused'
      BY <2>2 DEF Run, Destinations, Deciding, Orderly, Unrefused
    <2>4. A # {}
      OBVIOUS
    <2>5. InOrder(op, rec.phase, rec.iteration) /\ After(op, rec.phase) = "reviewing"
      <3> HIDE DEF A
      <3>1. QED BY <2>1, <2>4, Transitions
    <2> HIDE DEF op
    <2>6. Leads(<<op>>, rec.phase, rec.iteration, "reviewing")
      BY <2>5, LeadsThrough
    <2>7. Unrefused' /\ ReadersInStep' /\ WorkersInOrder' /\ CoordinatorInOrder' /\ ReferencesInOrder'
      BY <1>1, <2>2, <2>3, <2>6, ScriptTaken DEF IInv
    <2>8. RecordsInOrder'
      BY <1>1, <2>3, RecordsPlain DEF Deciding, TerminalPath
    <2>9. AllCollected => AllCollected'
      BY <1>1 DEF AllCollected
    <2>10. ScheduleInOrder'
      BY <1>1, <1>2, <1>4, <2>3, <2>9 DEF ScheduleInOrder
    <2>11. QED BY <2>7, <2>8, <2>10 DEF Orderly
  <1>5. QED BY <1>3, <1>4

(* The decision is one that the artifact store accepts. *)
LEMMA DecideOrder ==
    ASSUME IInv, GateInv, Orderly, mode = "dynamic", UNCHANGED fixedVars, RecordDecision
    PROVE  Orderly'
  <1>1. Ready("decide") /\ Quiet /\ UNCHANGED <<raised, output, stop>>
    BY DEF RecordDecision
  <1>2. rec.phase = "reviewing" /\ (AllCollected \/ gate # "passed")
    BY <1>1, AtPlace DEF Ready, Destinations, Deciding, Orderly, ScheduleInOrder
  <1>3. PICK signature \in Signatures :
        LET choice == IF Repeated(signature) THEN "fail" ELSE DynamicDecide(gate, Verdicts)
        IN  /\ decision' = [decision |-> choice,
                            signature |-> IF choice = "revise" THEN signature ELSE "none",
                            repeated |-> Repeated(signature)]
            /\ Run(<<WriteIteration([iteration |-> rec.iteration, decision |-> choice, test |-> gate,
                                     reviews |-> Verdicts,
                                     complete |-> \A a \in Dynamic : agent[a] = "collected"]),
                     Move("deciding", Refs("review_report", Collected(Reviewers))
                                      \cup Refs("iteration_record", {Coord})),
                     Emit("deciding")>>, "act")
    BY DEF RecordDecision
  <1> DEFINE choice == IF Repeated(signature) THEN "fail" ELSE DynamicDecide(gate, Verdicts)
             r == [iteration |-> rec.iteration, decision |-> choice, test |-> gate, reviews |-> Verdicts,
                   complete |-> \A a \in Dynamic : agent[a] = "collected"]
             refs == Refs("review_report", Collected(Reviewers)) \cup Refs("iteration_record", {Coord})
             x == Move("deciding", refs)
             y == Emit("deciding")
  <1>4. /\ choice \in {"accept", "revise", "fail"}
        /\ choice = "accept" <=> gate = "passed" /\ \A v \in Verdicts : v = "accept"
        /\ choice = "revise" => "fail" \notin Verdicts /\ rec.iteration < IterationLimit
    BY DEF Repeated, DynamicDecide
  <1> HIDE DEF choice
  <1>5. /\ r.iteration = rec.iteration /\ r.decision = choice /\ r.test = gate /\ r.reviews = Verdicts
        /\ r.complete = AllCollected
    BY DEF AllCollected
  <1>6. Run(<<WriteIteration(r), x, y>>, "act") /\ decision'.decision = choice
    BY <1>3 DEF choice
  <1> HIDE DEF r
  <1>7. ValidIteration(r)
    BY <1>2, <1>4, <1>5, DecisionValid
  <1>8. refs = Refs("iteration_record", {Coord}) \cup Refs("review_report", Collected(Reviewers))
    OBVIOUS
  <1> HIDE DEF refs
  <1>9. Leads(<<WriteIteration(r), x, y>>, rec.phase, rec.iteration, "deciding")
    BY <1>2, <1>5, <1>7, <1>8, JudgeInOrder
  <1> HIDE DEF x, y
  <1>10. pc' = "act" /\ "deciding" \in Destinations' /\ Unrefused' /\ "act" \in Deciding
    BY <1>1, <1>6 DEF Run, Destinations, Deciding, Orderly, Unrefused
  <1>11. Unrefused' /\ ReadersInStep' /\ WorkersInOrder' /\ CoordinatorInOrder' /\ ReferencesInOrder'
    BY <1>1, <1>6, <1>9, <1>10, ScriptTaken DEF IInv
  <1>12. RecordsInOrder'
    BY <1>1, <1>4, <1>5, <1>6, <1>10, RecordsJudge DEF IInv
  <1>13. ScheduleInOrder'
    BY <1>1, <1>10, NoSchedule
  <1>14. QED BY <1>11, <1>12, <1>13 DEF Orderly

(* What was decided is done: the last record says so. *)
LEMMA ConcludeOrder ==
    ASSUME IInv, Orderly, NEW here \in Deciding, Ready(here), Quiet, UNCHANGED <<raised, output, stop>>,
           NEW next, <<here, next>> \in {<<"act", "revise">>, <<"conclude", "implement">>},
           mode' = mode,
           \/ decision.decision = "accept" /\ Run(Completing, "ending")
           \/ decision.decision = "fail" /\ \E reason : Run(Failing(reason), "ending")
           \/ decision.decision \notin {"accept", "fail"} /\ Run(Revising, next)
    PROVE  Orderly'
  <1>1. rec.phase = "deciding"
    BY AtPlace DEF Ready, Destinations, Deciding
  <1>2. LastDecides(decision.decision) /\ decision.decision \in {"accept", "revise", "fail"}
        /\ (decision.decision = "revise" => rec.iteration < IterationLimit)
    BY DEF Ready, Orderly, RecordsInOrder, Doing
  <1>3. Unrefused'
    BY DEF Orderly, Unrefused
  <1>4. Coord \in Threads
    BY DEF Threads
  <1>5. pc' \notin {"schedule", "submit", "scheduled", "decide"} => ScheduleInOrder'
    BY NoSchedule
  <1>6. CASE decision.decision = "accept" /\ Run(Completing, "ending")
    <2>1. pc' = "ending" /\ "completed" \in Destinations'
      BY <1>6 DEF Run, Destinations, Terminal, Deciding
    <2>2. Leads(Completing, rec.phase, rec.iteration, "completed")
      BY <1>1, EndsInOrder
    <2>3. Unrefused' /\ ReadersInStep' /\ WorkersInOrder' /\ CoordinatorInOrder' /\ ReferencesInOrder'
      BY <1>3, <1>6, <2>1, <2>2, ScriptTaken DEF IInv
    <2>4. RecordsInOrder'
      BY <1>2, <1>6, <2>1 DEF Orderly, RecordsInOrder, LastDecides, Deciding, TerminalPath, Quiet
    <2>5. QED BY <1>5, <2>1, <2>3, <2>4 DEF Orderly
  <1>7. CASE decision.decision = "fail" /\ \E reason : Run(Failing(reason), "ending")
    <2>1. PICK reason : Run(Failing(reason), "ending")
      BY <1>7
    <2>2. pc' = "ending" /\ "failed" \in Destinations'
      BY <2>1 DEF Run, Destinations, Terminal, Deciding
    <2>3. Leads(Failing(reason), rec.phase, rec.iteration, "failed")
      BY EndsInOrder
    <2>4. Unrefused' /\ ReadersInStep' /\ WorkersInOrder' /\ CoordinatorInOrder' /\ ReferencesInOrder'
      BY <1>3, <2>1, <2>2, <2>3, ScriptTaken DEF IInv
    <2>5. RecordsInOrder'
      BY <2>1, RecordsFailing DEF IInv, TerminalPath
    <2>6. QED BY <1>5, <2>2, <2>4, <2>5 DEF Orderly
  <1>8. CASE decision.decision \notin {"accept", "fail"} /\ Run(Revising, next)
    <2>1. pc' = next /\ next \in {"revise", "implement"} /\ "implementing" \in Destinations'
      BY <1>8 DEF Run, Destinations, Deciding
    <2>2. Leads(Revising, rec.phase, rec.iteration, "implementing")
      BY <1>1, <1>2, <1>8, EndsInOrder
    <2>3. Unrefused' /\ ReadersInStep' /\ WorkersInOrder' /\ CoordinatorInOrder' /\ ReferencesInOrder'
      BY <1>3, <1>8, <2>1, <2>2, ScriptTaken DEF IInv
    <2>4. RecordsInOrder'
      BY <2>1, RecordsPlain DEF Deciding, TerminalPath
    <2>5. QED BY <1>5, <2>1, <2>3, <2>4 DEF Orderly
  <1>9. QED BY <1>6, <1>7, <1>8

LEMMA ActOrder ==
    ASSUME IInv, Orderly, mode = "dynamic", UNCHANGED fixedVars, ActOnDecision
    PROVE  Orderly'
  <1>1. Ready("act") /\ Quiet /\ UNCHANGED <<raised, output, stop, mode>> /\ "act" \in Deciding
    BY DEF ActOnDecision, Deciding, fixedVars
  <1>2. \/ decision.decision = "accept" /\ Run(Completing, "ending")
        \/ decision.decision = "fail" /\ \E reason : Run(Failing(reason), "ending")
        \/ decision.decision \notin {"accept", "fail"} /\ Run(Revising, "revise")
    BY DEF ActOnDecision, Revising
  <1>3. QED BY <1>1, <1>2, ConcludeOrder

(* Leaving execute. *)
LEMMA LeavingOrder ==
    ASSUME IInv, Orderly, UNCHANGED fixedVars, Return \/ Catch
    PROVE  Orderly'
  <1>1. Quiet /\ UNCHANGED <<agent, output, gate, commits, finished, stop, starting, decision, mode>>
    BY DEF Return, Catch, fixedVars
  <1>2. CASE ended' # "no" /\ UNCHANGED <<todo, pc, raised>>
    <2>1. Unrefused' /\ CoordinatorInOrder'
      BY <1>2 DEF Orderly, Unrefused, CoordinatorInOrder
    <2>2. ReadersInStep' /\ ReferencesInOrder' /\ RecordsInOrder'
      BY <1>1, <1>2, QuietOrder, RecordsSame
    <2>3. WorkersInOrder'
      BY <1>1, <1>2, WorkersGoOn DEF Quiet
    <2>4. ScheduleInOrder'
      <3>1. (Scheduling <=> Scheduling') /\ (Starting <=> Starting') /\ (AllCollected <=> AllCollected')
        BY <1>1, <1>2 DEF Quiet, Scheduling, Starting, AllCollected, Begun, Earlier, Committed
      <3>2. QED BY <1>1, <1>2, <3>1 DEF Quiet, Orderly, ScheduleInOrder
    <2>5. QED BY <2>1, <2>2, <2>3, <2>4 DEF Orderly
  <1>3. CASE /\ Run(Failing("controller_error"), "handling")
             /\ raised' = [raised EXCEPT ![Coord] = "none"]
    <2>1. pc' = "handling" /\ "failed" \in Destinations' /\ Unrefused'
      BY <1>3 DEF Run, Destinations, Terminal, Deciding, Orderly, Unrefused, IInv, Shaped
    <2>2. Leads(Failing("controller_error"), rec.phase, rec.iteration, "failed")
      BY EndsInOrder
    <2>3. Unrefused' /\ ReadersInStep' /\ WorkersInOrder' /\ CoordinatorInOrder' /\ ReferencesInOrder'
      BY <1>1, <1>3, <2>1, <2>2, ScriptTaken DEF IInv
    <2>4. RecordsInOrder'
      BY <1>1, <1>3, RecordsFailing DEF IInv, TerminalPath
    <2>5. ScheduleInOrder'
      BY <1>1, <2>1, NoSchedule
    <2>6. QED BY <2>3, <2>4, <2>5 DEF Orderly
  <1>4. QED BY <1>2, <1>3 DEF Return, Catch

(* A gate of either coordinator reports how its commands ended. *)
LEMMA GateReports ==
    /\ GateStatuses(Deterministic \cup Manual, Manual) \subseteq {"passed", "failed", "blocked"}
    /\ GateStatuses(Deterministic, {}) \subseteq {"passed", "failed", "blocked"}
  <1>1. Assigned(Deterministic \cup Manual, Manual) /\ Assigned(Deterministic, {})
    BY GateAssumption DEF Assigned
  <1>2. \A result : TestStatus(result) \in {"passed", "failed", "blocked"}
    BY DEF TestStatus
  <1>3. ASSUME NEW criteria, NEW manual, Assigned(criteria, manual)
        PROVE  GateStatuses(criteria, manual) \subseteq {"passed", "failed", "blocked"}
    <2>1. "refused" \notin GateStatuses(criteria, manual)
      BY <1>3, GateNeverRefused
    <2>2. GateStatuses(criteria, manual) \subseteq {"passed", "failed", "blocked", "refused"}
      BY <1>2 DEF GateStatuses
    <2>3. QED BY <2>1, <2>2
  <1>4. QED BY <1>1, <1>3

(* At most one writer is at work, or waits to be collected. *)
LEMMA OneWriter ==
    ASSUME Scheduling, NEW w \in WriterSet, NEW v \in WriterSet,
           agent[w] \notin {"pending", "collected"}, agent[v] \notin {"pending", "collected"}
    PROVE  w = v
  <1>1. PICK i \in DOMAIN Writers, j \in DOMAIN Writers : Writers[i] = w /\ Writers[j] = v
    BY DEF WriterSet
  <1>2. DOMAIN Writers = 1..Len(Writers) /\ Len(Writers) \in Nat
    BY TeamAssumption, LenProperties
  <1>3. Earlier(w) /\ Earlier(v)
    BY DEF Scheduling, Begun
  <1>4. ~(i < j)
    BY <1>1, <1>2, <1>3 DEF Earlier
  <1>5. ~(j < i)
    BY <1>1, <1>2, <1>3 DEF Earlier
  <1>6. i = j
    BY <1>2, <1>4, <1>5
  <1>7. QED BY <1>1, <1>6

(* An Agent is launched: a writer in its turn, and the first one that judges
   after the snapshot of all their work. *)
LEMMA LaunchOrder ==
    ASSUME IInv, Orderly, mode = "dynamic", UNCHANGED fixedVars, NEW a \in Dynamic, Launch(a)
    PROVE  Orderly'
  <1>1. /\ Ready("schedule") /\ Quiet /\ stop = "none" /\ agent[a] = "pending" /\ DependenciesMet(a)
        /\ UNCHANGED <<agent, output, gate, commits, finished, stop>> /\ starting' = a
    BY DEF Launch
  <1>2. rec.phase \in {"implementing", "verifying"} /\ Coord \in Threads /\ UNCHANGED rec
    BY <1>1, AtPlace DEF Ready, Destinations, Deciding, Threads, Quiet
  <1>3. DOMAIN output = Agents /\ Scheduling
    BY <1>1 DEF Orderly, ScheduleInOrder, Ready
  <1>4. Scheduling'
    BY <1>1, <1>2, <1>3 DEF Scheduling, Begun, Earlier, Committed
  <1>5. (starting \in Dynamic /\ ~Begun(starting) /\ (starting \in WriterSet => Earlier(starting)))'
    <2>1. a \in WriterSet => Earlier(a)
      <3> SUFFICES ASSUME a \in WriterSet, NEW i \in 1..Len(Writers), NEW j \in 1..Len(Writers),
                          Writers[j] = a, i < j
                   PROVE  agent[Writers[i]] = "collected"
        BY DEF Earlier
      <3>1. DOMAIN Writers = 1..Len(Writers)
        BY TeamAssumption, LenProperties
      <3>2. QED BY <1>1, <3>1 DEF DependenciesMet
    <2>2. QED BY <1>1, <2>1 DEF Begun, Earlier
  <1>6. CASE a \in WriterSet \/ rec.phase = "verifying"
    <2> DEFINE s == <<Emit("any")>>
    <2>1. Run(s, "submit") /\ UNCHANGED raised
      BY <1>6 DEF Launch
    <2>2. pc' = "submit" /\ rec.phase \in Destinations' /\ Unrefused' /\ todo'[Coord] = s
      BY <1>2, <2>1 DEF Run, Destinations, Deciding, Orderly, Unrefused, IInv, Shaped
    <2>3. Leads(s, rec.phase, rec.iteration, rec.phase) /\ MoveFree(s)
      BY EndsInOrder, Announcements
    <2>4. \A i \in 1..Len(s) : s[i].op = "emit"
      BY DEF Emit
    <2> HIDE DEF s
    <2>5. Unrefused' /\ ReadersInStep' /\ WorkersInOrder' /\ CoordinatorInOrder' /\ ReferencesInOrder'
      BY <1>1, <2>1, <2>2, <2>3, ScriptTaken DEF IInv
    <2>6. RecordsInOrder'
      BY <1>1, <2>2, RecordsPlain DEF Deciding, TerminalPath
    <2>7. Starting'
      BY <1>5, <2>2, <2>3, <2>4 DEF Starting
    <2>8. ScheduleInOrder'
      BY <1>1, <1>3, <1>4, <2>2, <2>7 DEF ScheduleInOrder
    <2>9. QED BY <2>5, <2>6, <2>8 DEF Orderly
  <1>7. CASE ~(a \in WriterSet \/ rec.phase = "verifying")
    <2>1. rec.phase = "implementing" /\ a \in Testers \cup Reviewers
      BY <1>2, <1>7 DEF Dynamic, WriterSet
    <2>2. WorkChain
      <3>1. \A w \in WriterSet : ~Committed(w)
        BY <1>1, <2>1 DEF DependenciesMet, Committed
      <3>2. QED BY <1>3, <3>1 DEF Scheduling, WorkChain
    <2> DEFINE x == Move("snapshotting", Refs("work_result", WriterSet))
               y == Move("verifying", {})
               z == Emit("verifying")
               e == Emit("any")
               s == <<x, y, z, z, e>>
               n == rec.iteration
    <2>3. Run(s, "submit") /\ UNCHANGED raised
      BY <1>7, <2>2 DEF Launch
    <2>4. pc' = "submit" /\ "verifying" \in Destinations' /\ Unrefused' /\ todo'[Coord] = s
      BY <1>2, <2>3 DEF Run, Destinations, Deciding, Orderly, Unrefused, IInv, Shaped
    <2>5. WriterSet # {}
      <3>1. 1 \in DOMAIN Writers
        BY TeamAssumption, EmptySeq, LenProperties
      <3>2. QED BY <3>1 DEF WriterSet
    <2>6. InOrder(x, "implementing", n) /\ After(x, "implementing") = "snapshotting"
      BY <2>5, Transitions
    <2>7. InOrder(y, "snapshotting", n) /\ After(y, "snapshotting") = "verifying"
      BY Transitions
    <2>8. InOrder(z, "verifying", n) /\ After(z, "verifying") = "verifying"
      BY OrderedOps
    <2>9. InOrder(e, "verifying", n) /\ After(e, "verifying") = "verifying"
      BY OrderedOps
    <2>10. /\ x.to # "verifying" /\ ~Transition(z) /\ ~Transition(e) /\ z.op = "emit" /\ e.op = "emit"
      BY DEF Move, Emit, Transition
    <2> HIDE DEF x, y, z, e, n
    <2>11. Leads(s, rec.phase, rec.iteration, "verifying")
      <3>1. Leads(<<x, y, z, z, e>>, "implementing", n, "verifying")
        BY <2>6, <2>7, <2>8, <2>9, LeadsThrough
      <3>2. QED BY <2>1, <3>1 DEF n
    <2>12. Len(s) = 5 /\ s[1] = x /\ s[2] = y /\ s[3] = z /\ s[4] = z /\ s[5] = e
      OBVIOUS
    <2> HIDE DEF s
    <2>13. Unrefused' /\ ReadersInStep' /\ WorkersInOrder' /\ CoordinatorInOrder' /\ ReferencesInOrder'
      BY <1>1, <2>3, <2>4, <2>11, ScriptTaken DEF IInv
    <2>14. RecordsInOrder'
      BY <1>1, <2>4, RecordsPlain DEF Deciding, TerminalPath
    <2>15. ASSUME NEW i \in 1..Len(s), s[i].op = "move", s[i].to = "verifying", NEW j \in i + 1..Len(s)
           PROVE  ~Transition(s[j])
      <3>1. i = 2
        BY <2>10, <2>12, <2>15
      <3>2. j \in 3..5
        BY <2>12, <3>1
      <3>3. QED BY <2>10, <2>12, <3>2
    <2>16. Starting'
      BY <1>2, <1>5, <2>1, <2>4, <2>15 DEF Starting
    <2>17. ScheduleInOrder'
      BY <1>1, <1>3, <1>4, <2>4, <2>16 DEF ScheduleInOrder
    <2>18. QED BY <2>13, <2>14, <2>17 DEF Orderly
  <1>8. QED BY <1>6, <1>7

LEMMA SubmitOrder ==
    ASSUME IInv, Orderly, mode = "dynamic", UNCHANGED fixedVars, Submit
    PROVE  Orderly'
  <1>1. /\ Ready("submit") /\ Quiet /\ pc' = "schedule" /\ todo[Coord] = <<>>
        /\ agent' = [agent EXCEPT ![starting] = "running"]
        /\ todo' = [todo EXCEPT ![starting] = <<Work("reserve"), Emit("any"), Work("settle")>>]
        /\ raised' = [raised EXCEPT ![starting] = "none"]
        /\ UNCHANGED <<output, gate, commits, finished, stop, ended>>
    BY DEF Submit, Ready
  <1>2. /\ DOMAIN output = Agents /\ Scheduling /\ Starting
        /\ stop = "quality" => gate \in {"failed", "blocked"} /\ rec.phase = "verifying"
        /\ stop \in {"none", "user", "failed", "quality"}
    BY <1>1 DEF Orderly, ScheduleInOrder, Ready
  <1>3. /\ starting \in Agents /\ starting # Coord /\ agent[starting] = "pending" /\ todo[starting] = <<>>
        /\ Coord \in Threads /\ Agents \subseteq Threads
        /\ DOMAIN agent = Agents /\ DOMAIN todo = Threads /\ DOMAIN raised = Threads
    <2>1. starting \in Agents /\ starting # Coord /\ agent[starting] = "pending"
      BY <1>2, TeamAssumption, StoresAssumption DEF Starting, Begun
    <2>2. todo[starting] = <<>>
      BY <2>1 DEF IInv, WorkflowInv, Running
    <2>3. QED BY <2>1, <2>2 DEF Threads, IInv, Shaped
  <1>4. /\ todo'[Coord] = todo[Coord] /\ raised'[Coord] = raised[Coord]
        /\ \A a \in Agents : todo'[a] = IF a = starting THEN <<Work("reserve"), Emit("any"), Work("settle")>>
                                        ELSE todo[a]
        /\ \A a \in Agents : agent'[a] = IF a = starting THEN "running" ELSE agent[a]
        /\ Unrefused'
    BY <1>1, <1>3 DEF Orderly, Unrefused
  <1>5. Destinations' = Destinations
    BY <1>1 DEF Destinations, Deciding, Ready
  <1>6. Unrefused' /\ ReadersInStep' /\ WorkersInOrder' /\ CoordinatorInOrder' /\ ReferencesInOrder'
    <2>1. \A a \in Agents : todo'[a] = todo[a] \/ (todo[a] = <<>> /\ WorkerScript(todo'[a], FALSE))
      BY <1>3, <1>4, WorkersGiven
    <2>2. QED BY <1>1, <1>4, <1>5, <2>1, ScriptKept DEF IInv
  <1>7. RecordsInOrder'
    BY <1>1, RecordsPlain DEF Deciding, TerminalPath
  <1>8. WriterSet \subseteq Agents /\ Testers \cup Reviewers \subseteq Agents /\ UNCHANGED rec
        /\ \A i \in 1..Len(Writers) : Writers[i] \in Agents
    BY <1>1, TeamAssumption DEF Dynamic, WriterSet, Quiet
  <1>9. Scheduling'
    <2>1. \A w : Earlier(w) => Earlier(w)'
      BY <1>3, <1>4, <1>8 DEF Earlier
    <2>2. \A w \in WriterSet : Begun(w)' => Earlier(w)'
      <3> SUFFICES ASSUME NEW w \in WriterSet, Begun(w)' PROVE Earlier(w)
        BY <2>1
      <3>1. CASE w = starting
        BY <1>2, <3>1 DEF Starting
      <3>2. CASE w # starting
        BY <1>2, <1>4, <1>8, <3>2 DEF Scheduling, Begun
      <3>3. QED BY <3>1, <3>2
    <2>3. \A w \in WriterSet : Committed(w)' <=> Committed(w)
      BY <1>1, <1>3, <1>4, <1>8 DEF Committed
    <2>4. \A q \in Testers \cup Reviewers : Begun(q)' => rec.phase = "verifying"
      <3> SUFFICES ASSUME NEW q \in Testers \cup Reviewers, Begun(q)' PROVE rec.phase = "verifying"
        OBVIOUS
      <3>1. CASE q = starting
        <4>1. starting \notin WriterSet /\ raised[Coord] = "none"
          BY <1>1, <3>1, TeamAssumption DEF Ready
        <4>2. ~EndsVerifying(todo[Coord])
          BY <1>1 DEF EndsVerifying
        <4>3. QED BY <1>1, <4>1, <4>2 DEF IInv, WorkflowInv, ScheduleInv, Ready
      <3>2. CASE q # starting
        BY <1>2, <1>4, <1>8, <3>2 DEF Scheduling, Begun
      <3>3. QED BY <3>1, <3>2
    <2>5. \A a \in Agents : agent'[a] = "done" => agent[a] = "done"
      BY <1>4
    <2>6. QED BY <1>1, <1>2, <1>8, <2>2, <2>3, <2>4, <2>5 DEF Scheduling
  <1>10. ScheduleInOrder'
    BY <1>1, <1>2, <1>8, <1>9 DEF ScheduleInOrder
  <1>11. QED BY <1>6, <1>7, <1>10 DEF Orderly

(* The user stops the schedule. *)
LEMMA StopOrder ==
    ASSUME IInv, Orderly, mode = "dynamic", UNCHANGED fixedVars, UserStop
    PROVE  Orderly'
  <1>1. /\ Ready("schedule") /\ Quiet /\ stop' = "user"
        /\ UNCHANGED <<todo, raised, pc, agent, output, gate, commits, finished, starting, decision, ended>>
    BY DEF UserStop
  <1>2. Destinations' = Destinations /\ Unrefused' /\ UNCHANGED rec
    BY <1>1 DEF Destinations, Orderly, Unrefused, Quiet
  <1>3. Unrefused' /\ ReadersInStep' /\ WorkersInOrder' /\ CoordinatorInOrder' /\ ReferencesInOrder'
    BY <1>1, <1>2, ScriptKept DEF IInv
  <1>4. RecordsInOrder'
    BY <1>1, RecordsSame
  <1>5. Scheduling => Scheduling'
    BY <1>1, <1>2 DEF Scheduling, Begun, Earlier, Committed
  <1>6. ScheduleInOrder'
    BY <1>1, <1>5 DEF Orderly, ScheduleInOrder, Ready
  <1>7. QED BY <1>3, <1>4, <1>6 DEF Orderly

(* What an Agent of the schedule can report. *)
LEMMA ReportsInOrder ==
    ASSUME GateInv, NEW a \in Dynamic, NEW report \in Reports(a) \cup {"error"}
    PROVE  /\ a \in WriterSet => report \in {"work", "error"}
           /\ a \notin WriterSet => report # "work"
           /\ a \in Testers => /\ report \in {"passed", "failed", "blocked", "error"}
                               /\ gate # "none" => report \in {gate, "error"}
           /\ a \notin Testers => report \notin {"failed", "blocked"}
           /\ report # "refused"
  <1>1. a \in WriterSet => a \notin Testers
    BY TeamAssumption
  <1>2. CASE a \in WriterSet
    BY <1>1, <1>2 DEF Reports
  <1>3. CASE a \in Testers
    <2>1. a \notin WriterSet
      BY <1>1, <1>3
    <2>2. Reports(a) = IF gate = "none" THEN GateStatuses(Deterministic \cup Manual, Manual) ELSE {gate}
      BY <1>3, <2>1 DEF Reports
    <2>3. QED BY <1>3, <2>1, <2>2, GateReports DEF GateInv
  <1>4. CASE a \notin WriterSet /\ a \notin Testers
    BY <1>4 DEF Reports
  <1>5. QED BY <1>2, <1>3, <1>4

(* An Agent's thread ends, in the order of the writers. *)
LEMMA AgentEndsOrder ==
    ASSUME IInv, GateInv, Orderly, mode = "dynamic", UNCHANGED fixedVars, NEW a \in Dynamic, AgentEnds(a)
    PROVE  Orderly'
  <1>1. PICK report \in Reports(a) \cup {"error"} :
            /\ output' = [output EXCEPT ![a] = IF report = "refused" THEN "error" ELSE report]
            /\ gate' = IF a \in Testers /\ report # "error" THEN report ELSE gate
            /\ commits' = IF report = "work" THEN Append(commits, a) ELSE commits
    BY DEF AgentEnds
  <1>2. /\ agent[a] = "running" /\ Quiet /\ agent' = [agent EXCEPT ![a] = "done"]
        /\ UNCHANGED <<todo, raised, pc, finished, stop, starting, decision, ended>>
    BY DEF AgentEnds
  <1>3. /\ a \in WriterSet => report \in {"work", "error"}
        /\ a \notin WriterSet => report # "work"
        /\ a \in Testers => /\ report \in {"passed", "failed", "blocked", "error"}
                            /\ gate # "none" => report \in {gate, "error"}
        /\ a \notin Testers => report \notin {"failed", "blocked"}
        /\ report # "refused"
    BY ReportsInOrder
  <1>4. /\ a \in Agents /\ WriterSet \subseteq Agents /\ Testers \cup Reviewers \subseteq Agents
        /\ \A i \in 1..Len(Writers) : Writers[i] \in Agents
        /\ UNCHANGED rec
    BY <1>2, TeamAssumption DEF Dynamic, WriterSet, Quiet
  <1>5. DOMAIN output = Agents /\ DOMAIN agent = Agents
    BY DEF Orderly, ScheduleInOrder, IInv, Shaped
  <1>6. /\ \A b \in Agents : agent'[b] = IF b = a THEN "done" ELSE agent[b]
        /\ \A b \in Agents : output'[b] = IF b = a THEN report ELSE output[b]
        /\ DOMAIN output' = Agents
    BY <1>1, <1>2, <1>3, <1>4, <1>5
  <1>7. pc \in {"schedule", "submit", "handling"}
    BY <1>2, <1>4 DEF IInv, WorkflowInv, ScheduleInv, Running
  <1>8. Unrefused' /\ ReadersInStep' /\ WorkersInOrder' /\ CoordinatorInOrder' /\ ReferencesInOrder'
    <2>1. Destinations' = Destinations /\ Unrefused'
      BY <1>2 DEF Destinations, Orderly, Unrefused
    <2>2. QED BY <1>2, <2>1, ScriptKept DEF IInv
  <1>9. RecordsInOrder'
    BY <1>2, RecordsSame
  <1>10. gate # "none" => gate' = gate
    BY <1>1, <1>3
  <1>11. ASSUME pc \in {"schedule", "submit"} PROVE Scheduling'
    <2>1. Scheduling
      BY <1>11 DEF Orderly, ScheduleInOrder
    <2>2. \A w \in Agents : (Begun(w)' <=> Begun(w)) /\ (Earlier(w) => Earlier(w)')
      BY <1>2, <1>4, <1>6 DEF Begun, Earlier
    <2>3. ASSUME a \in WriterSet, NEW w \in WriterSet, Committed(w) PROVE FALSE
      <3>1. agent[w] = "done" /\ w # a
        BY <1>2, <2>3 DEF Committed
      <3>2. QED BY <1>2, <2>1, <2>3, <3>1, OneWriter
    <2>4. \A w \in WriterSet : w # a => (Committed(w)' <=> Committed(w))
      BY <1>4, <1>6 DEF Committed
    <2>5. (\A w \in WriterSet : Committed(w)' => commits' = Append(finished', w))
          /\ ((\A w \in WriterSet : ~Committed(w)') => commits' = finished')
      <3>1. CASE a \notin WriterSet
        <4>1. UNCHANGED <<commits, finished>>
          BY <1>1, <1>2, <1>3, <3>1
        <4>2. QED BY <2>1, <2>4, <3>1, <4>1 DEF Scheduling
      <3>2. CASE a \in WriterSet
        <4>1. commits = finished /\ finished' = finished /\ \A w \in WriterSet : w # a => ~Committed(w)'
          BY <1>2, <2>1, <2>3, <2>4, <3>2 DEF Scheduling
        <4>2. commits' = IF report = "work" THEN Append(commits, a) ELSE commits
          BY <1>1
        <4>3. Committed(a)' <=> report = "work"
          BY <1>4, <1>6 DEF Committed
        <4>4. QED BY <3>2, <4>1, <4>2, <4>3
      <3>3. QED BY <3>1, <3>2
    <2>6. \A w \in WriterSet : Begun(w)' => Earlier(w)'
      BY <1>4, <2>1, <2>2 DEF Scheduling
    <2>7. \A q \in Testers \cup Reviewers : Begun(q)' => rec'.phase = "verifying"
      BY <1>4, <2>1, <2>2 DEF Scheduling
    <2>8. ASSUME NEW b \in Agents, agent'[b] = "done"
          PROVE  IF b \in Testers THEN output'[b] = "error" \/ (output'[b] = gate' /\ gate' # "none")
                 ELSE output'[b] \notin {"failed", "blocked"} /\ (b \in WriterSet => output'[b] \in {"work", "error"})
      <3>1. CASE b = a
        <4>1. output'[b] = report
          BY <1>6, <3>1
        <4>2. CASE b \in Testers
          BY <1>1, <1>3, <3>1, <4>1, <4>2
        <4>3. CASE b \notin Testers
          BY <1>3, <3>1, <4>1, <4>3
        <4>4. QED BY <4>2, <4>3
      <3>2. CASE b # a
        <4>1. agent[b] = "done" /\ output'[b] = output[b]
          BY <1>6, <2>8, <3>2
        <4>2. IF b \in Testers THEN output[b] = "error" \/ (output[b] = gate /\ gate # "none")
              ELSE output[b] \notin {"failed", "blocked"} /\ (b \in WriterSet => output[b] \in {"work", "error"})
          BY <2>1, <4>1 DEF Scheduling
        <4>3. QED BY <1>10, <4>1, <4>2
      <3>3. QED BY <3>1, <3>2
    <2>9. QED BY <2>5, <2>6, <2>7, <2>8 DEF Scheduling
  <1>12. ASSUME pc = "submit" PROVE Starting'
    <2>1. Starting
      BY <1>12 DEF Orderly, ScheduleInOrder
    <2>2. starting \in Agents /\ starting # a
      BY <1>2, <2>1, TeamAssumption DEF Starting, Begun
    <2>3. QED BY <1>2, <1>4, <1>6, <2>1, <2>2 DEF Starting, Begun, Earlier
  <1>13. pc \in {"schedule", "submit"} /\ stop = "quality" =>
              gate' \in {"failed", "blocked"} /\ rec'.phase = "verifying"
    <2>1. pc \in {"schedule", "submit"} /\ stop = "quality" => gate \in {"failed", "blocked"} /\ rec.phase = "verifying"
      BY DEF Orderly, ScheduleInOrder
    <2>2. QED BY <1>4, <1>10, <2>1
  <1>14. stop' \in {"none", "user", "failed", "quality"}
    BY <1>2 DEF Orderly, ScheduleInOrder
  <1>15. ScheduleInOrder'
    BY <1>2, <1>6, <1>7, <1>11, <1>12, <1>13, <1>14 DEF ScheduleInOrder
  <1>16. QED BY <1>8, <1>9, <1>15 DEF Orderly

(* It is collected, in the same order. *)
LEMMA CollectOrder ==
    ASSUME IInv, Orderly, mode = "dynamic", UNCHANGED fixedVars, NEW a \in Dynamic, Collect(a)
    PROVE  Orderly'
  <1>1. /\ Ready("schedule") /\ agent[a] = "done" /\ Quiet /\ Run(<<Emit("any")>>, "schedule")
        /\ agent' = [agent EXCEPT ![a] = IF output[a] = "error" THEN "failed" ELSE "collected"]
        /\ finished' = IF a \in WriterSet /\ output[a] # "error" THEN Append(finished, a) ELSE finished
        /\ stop' = CASE stop # "user" /\ output[a] = "error" -> "failed"
                     [] stop = "none" /\ output[a] \in {"failed", "blocked"} -> "quality"
                     [] OTHER -> stop
        /\ UNCHANGED <<raised, output, gate, commits>>
    BY DEF Collect
  <1>2. /\ DOMAIN output = Agents /\ Scheduling
        /\ stop = "quality" => gate \in {"failed", "blocked"} /\ rec.phase = "verifying"
        /\ stop \in {"none", "user", "failed", "quality"}
    BY <1>1 DEF Orderly, ScheduleInOrder, Ready
  <1>3. rec.phase \in {"implementing", "verifying"} /\ UNCHANGED rec
    BY <1>1, AtPlace DEF Ready, Destinations, Deciding, Quiet
  <1>4. pc' = "schedule" /\ rec.phase \in Destinations' /\ Unrefused'
    BY <1>1, <1>3 DEF Run, Destinations, Deciding, Orderly, Unrefused
  <1>5. Unrefused' /\ ReadersInStep' /\ WorkersInOrder' /\ CoordinatorInOrder' /\ ReferencesInOrder'
    BY <1>1, <1>4, EndsInOrder, ScriptTaken DEF IInv
  <1>6. RecordsInOrder'
    BY <1>1, <1>4, RecordsPlain DEF Deciding, TerminalPath
  <1>7. /\ a \in Agents /\ WriterSet \subseteq Agents /\ Testers \cup Reviewers \subseteq Agents
        /\ \A i \in 1..Len(Writers) : Writers[i] \in Agents
        /\ DOMAIN agent = Agents
    BY TeamAssumption DEF Dynamic, WriterSet, IInv, Shaped
  <1>8. /\ \A b \in Agents \ {a} : agent'[b] = agent[b]
        /\ agent'[a] \in {"failed", "collected"}
    BY <1>1, <1>7
  <1>9. IF a \in Testers THEN output[a] = "error" \/ (output[a] = gate /\ gate # "none")
        ELSE output[a] \notin {"failed", "blocked"} /\ (a \in WriterSet => output[a] \in {"work", "error"})
    BY <1>1, <1>2, <1>7 DEF Scheduling
  <1>10. Scheduling'
    <2>1. \A w \in Agents : (Begun(w)' <=> Begun(w)) /\ (Earlier(w) => Earlier(w)')
      BY <1>1, <1>7, <1>8 DEF Begun, Earlier
    <2>2. \A w \in WriterSet \ {a} : Committed(w)' <=> Committed(w)
      BY <1>1, <1>7, <1>8 DEF Committed
    <2>3. ~Committed(a)'
      BY <1>8 DEF Committed
    <2>4. (\A w \in WriterSet : Committed(w)' => commits' = Append(finished', w))
          /\ ((\A w \in WriterSet : ~Committed(w)') => commits' = finished')
      <3>1. CASE a \notin WriterSet
        <4>1. UNCHANGED <<commits, finished>> /\ \A w \in WriterSet : Committed(w)' <=> Committed(w)
          BY <1>1, <2>2, <3>1
        <4>2. QED BY <1>2, <4>1 DEF Scheduling
      <3>2. CASE a \in WriterSet
        <4>1. \A w \in WriterSet \ {a} : ~Committed(w)
          <5> SUFFICES ASSUME NEW w \in WriterSet \ {a}, Committed(w) PROVE FALSE
            OBVIOUS
          <5>1. agent[w] = "done"
            BY DEF Committed
          <5>2. QED BY <1>1, <1>2, <3>2, <5>1, OneWriter
        <4>2. \A w \in WriterSet : ~Committed(w)'
          BY <2>2, <2>3, <4>1
        <4>3. commits' = finished'
          <5>1. CASE output[a] = "error"
            <6>1. \A w \in WriterSet : ~Committed(w)
              BY <4>1, <5>1 DEF Committed
            <6>2. QED BY <1>1, <1>2, <5>1, <6>1 DEF Scheduling
          <5>2. CASE output[a] # "error"
            <6>1. a \notin Testers
              BY <3>2, TeamAssumption
            <6>2. Committed(a)
              BY <1>1, <1>9, <3>2, <5>2, <6>1 DEF Committed
            <6>3. QED BY <1>1, <1>2, <3>2, <5>2, <6>2 DEF Scheduling
          <5>3. QED BY <5>1, <5>2
        <4>4. QED BY <4>2, <4>3
      <3>3. QED BY <3>1, <3>2
    <2>5. \A b \in Agents : agent'[b] = "done" => agent[b] = "done"
      BY <1>8
    <2>6. \A w \in WriterSet : Begun(w)' => Earlier(w)'
      BY <1>2, <1>7, <2>1 DEF Scheduling
    <2>7. \A q \in Testers \cup Reviewers : Begun(q)' => rec'.phase = "verifying"
      BY <1>2, <1>3, <1>7, <2>1 DEF Scheduling
    <2>8. QED BY <1>1, <1>2, <2>4, <2>5, <2>6, <2>7 DEF Scheduling
  <1>11. stop' = "quality" => gate \in {"failed", "blocked"} /\ rec.phase = "verifying"
    <2>1. CASE stop = "none" /\ output[a] \in {"failed", "blocked"}
      <3>1. a \in Testers /\ output[a] = gate
        BY <1>9, <2>1
      <3>2. Begun(a)
        BY <1>1 DEF Begun
      <3>3. QED BY <1>2, <2>1, <3>1, <3>2 DEF Scheduling
    <2>2. CASE ~(stop = "none" /\ output[a] \in {"failed", "blocked"})
      BY <1>1, <1>2, <2>2
    <2>3. QED BY <2>1, <2>2
  <1>12. stop' \in {"none", "user", "failed", "quality"}
    BY <1>1, <1>2
  <1>13. ScheduleInOrder'
    BY <1>1, <1>2, <1>3, <1>4, <1>10, <1>11, <1>12 DEF ScheduleInOrder
  <1>14. QED BY <1>5, <1>6, <1>13 DEF Orderly

(* The fixed coordinator goes on with a script. *)
LEMMA FixedTakes ==
    ASSUME IInv, Orderly, mode' # "dynamic", Quiet, UNCHANGED raised, NEW s, NEW place, Run(s, place),
           place \notin Deciding \cup TerminalPath, NEW q, pc' = place => q \in Destinations',
           Leads(s, rec.phase, rec.iteration, q)
    PROVE  Orderly'
  <1>1. pc' = place /\ Unrefused'
    BY DEF Run, Orderly, Unrefused
  <1>2. Unrefused' /\ ReadersInStep' /\ WorkersInOrder' /\ CoordinatorInOrder' /\ ReferencesInOrder'
    BY <1>1, ScriptTaken DEF IInv
  <1>3. RecordsInOrder' /\ ScheduleInOrder'
    BY <1>1, RecordsPlain, NoSchedule
  <1>4. QED BY <1>2, <1>3 DEF Orderly

(* It calls roles that have nothing to do. *)
LEMMA FixedCallsOrder ==
    ASSUME IInv, Orderly, mode' # "dynamic", Quiet, UNCHANGED <<raised, ended>>,
           \A a \in Agents : ~Running(a), NEW roles \in SUBSET Roles, NEW place, Call(roles, place),
           Destinations' = Destinations, place \notin Deciding \cup TerminalPath
    PROVE  Orderly'
  <1>1. Coord \in Threads /\ Agents \subseteq Threads /\ Coord \notin Agents /\ Coord \notin roles
    BY StoresAssumption, FixedAssumption DEF Threads
  <1>2. \A a \in Agents : todo[a] = <<>>
    BY DEF IInv, WorkflowInv
  <1>3. /\ todo' = [t \in Threads |-> IF t \in roles THEN Attempt ELSE todo[t]]
        /\ pc' = place
    BY DEF Call
  <1>4. todo'[Coord] = todo[Coord] /\ \A a \in Agents : todo'[a] \in {todo[a], Attempt}
    BY <1>1, <1>3
  <1>5. Unrefused' /\ WorkerScript(Attempt, FALSE)
    BY WorkersGiven DEF Orderly, Unrefused
  <1>6. Unrefused' /\ ReadersInStep' /\ WorkersInOrder' /\ CoordinatorInOrder' /\ ReferencesInOrder'
    BY <1>2, <1>4, <1>5, ScriptKept DEF IInv
  <1>7. RecordsInOrder' /\ ScheduleInOrder'
    BY <1>3, RecordsPlain, NoSchedule
  <1>8. QED BY <1>6, <1>7 DEF Orderly

(* It hands on what they returned, or raises their error. *)
LEMMA FixedRaisesOrder ==
    ASSUME IInv, Orderly, mode' # "dynamic", Quiet, UNCHANGED <<todo, ended>>,
           raised' = [raised EXCEPT ![Coord] = "agent"]
    PROVE  Orderly'
  <1>1. Coord \in Threads
    BY DEF Threads
  <1>2. raised'[Coord] = "agent" /\ Unrefused'
    BY <1>1 DEF Orderly, Unrefused, IInv, Shaped
  <1>3. Unrefused' /\ ReadersInStep' /\ WorkersInOrder' /\ CoordinatorInOrder' /\ ReferencesInOrder'
    BY <1>2, ScriptKept DEF IInv
  <1>4. RecordsInOrder' /\ ScheduleInOrder'
    BY <1>2, RecordsPlain, NoSchedule
  <1>5. QED BY <1>3, <1>4 DEF Orderly

LEMMA FixedContinuesOrder ==
    ASSUME IInv, Orderly, mode # "dynamic", NEW roles, NEW s, NEW next, Continue(roles, s, next), Untouched,
           next \notin Deciding \cup TerminalPath, NEW q, pc' = next => q \in Destinations',
           Leads(s, rec.phase, rec.iteration, q)
    PROVE  Orderly'
  <1>1. mode' # "dynamic" /\ Quiet /\ UNCHANGED ended
    BY DEF Untouched
  <1>2. CASE raised' = [raised EXCEPT ![Coord] = "agent"] /\ UNCHANGED <<todo, pc>>
    BY <1>1, <1>2, FixedRaisesOrder
  <1>3. CASE Run(s, next) /\ UNCHANGED raised
    BY <1>1, <1>3, FixedTakes
  <1>4. QED BY <1>2, <1>3 DEF Continue

LEMMA FixedBeginOrder ==
    ASSUME IInv, Orderly, mode # "dynamic", FixedBegin
    PROVE  Orderly'
  <1> DEFINE a == Move("preparing_workspace", {})
             b == Work("prepare")
             c == Move("planning", {})
             d == Emit("planning")
             e == Move("implementing", {})
             n == rec.iteration
             s == <<a, b, c, d>>
             r == IF mode = "single" THEN SingleStart ELSE <<>>
             place == IF mode = "single" THEN "implement" ELSE "plan"
             q == IF mode = "single" THEN "implementing" ELSE "planning"
  <1>1. Ready("boot") /\ Quiet /\ Run(s \o r, place) /\ UNCHANGED raised /\ mode' # "dynamic"
    BY DEF FixedBegin, Untouched
  <1>2. rec.phase = "created"
    BY <1>1, AtPlace DEF Ready, Destinations, Deciding
  <1>3. InOrder(a, "created", n) /\ After(a, "created") = "preparing_workspace"
    BY Transitions
  <1>4. InOrder(b, "preparing_workspace", n) /\ After(b, "preparing_workspace") = "preparing_workspace"
    BY OrderedOps
  <1>5. InOrder(c, "preparing_workspace", n) /\ After(c, "preparing_workspace") = "planning"
    BY Transitions
  <1>6. InOrder(d, "planning", n) /\ After(d, "planning") = "planning"
    BY OrderedOps
  <1>7. InOrder(e, "planning", n) /\ After(e, "planning") = "implementing"
    BY Transitions
  <1>8. IsScript(s) /\ IsScript(r)
    BY Scripts DEF SingleStart
  <1>9. r = IF mode = "single" THEN <<e>> ELSE <<>>
    BY DEF SingleStart
  <1> HIDE DEF a, b, c, d, e, n, r
  <1>10. Leads(s, "created", n, "planning")
    BY <1>3, <1>4, <1>5, <1>6, LeadsThrough
  <1>11. Leads(r, "planning", n, q)
    <2>1. Leads(<<e>>, "planning", n, "implementing") /\ Leads(<<>>, "planning", n, "planning")
      BY <1>7, LeadsThrough, LeadsEmpty
    <2>2. QED BY <1>9, <2>1
  <1> HIDE DEF s
  <1>12. Leads(s \o r, "created", n, q)
    BY <1>8, <1>10, <1>11, LeadsConcat
  <1>13. place \notin Deciding \cup TerminalPath /\ (pc' = place => q \in Destinations')
    BY DEF Deciding, TerminalPath, Destinations
  <1> HIDE DEF place, q
  <1>14. QED BY <1>1, <1>2, <1>12, <1>13, FixedTakes DEF n

(* The calls. *)
LEMMA FixedInvokesOrder ==
    ASSUME IInv, Orderly, mode # "dynamic",
           InvokePlanner \/ InvokeDeveloper \/ InvokeVerifiers \/ InvokeReviewer
    PROVE  Orderly'
  <1>1. {"planner"} \in SUBSET Roles /\ {"developer"} \in SUBSET Roles /\ {"tester"} \in SUBSET Roles
        /\ {"reviewer"} \in SUBSET Roles /\ {"tester", "reviewer"} \in SUBSET Roles
    BY DEF Roles
  <1>2. CASE InvokePlanner
    <2>1. Ready("plan") /\ Call({"planner"}, "planned") /\ Quiet /\ UNCHANGED <<raised, ended>> /\ mode' # "dynamic"
      BY <1>2 DEF InvokePlanner, Untouched
    <2>2. pc = "plan" /\ pc' = "planned"
      BY <2>1 DEF Ready, Call
    <2>3. Destinations' = Destinations /\ "planned" \notin Deciding \cup TerminalPath
      BY <2>2 DEF Destinations, Deciding, TerminalPath
    <2>4. \A a \in Agents : ~Running(a)
      BY <2>2, NoRoleRuns
    <2>5. QED BY <1>1, <2>1, <2>3, <2>4, FixedCallsOrder
  <1>3. CASE InvokeDeveloper
    <2>1. Ready("implement") /\ Call({"developer"}, "implemented") /\ Quiet /\ UNCHANGED <<raised, ended>>
          /\ mode' # "dynamic"
      BY <1>3 DEF InvokeDeveloper, Untouched
    <2>2. pc = "implement" /\ pc' = "implemented"
      BY <2>1 DEF Ready, Call
    <2>3. Destinations' = Destinations /\ "implemented" \notin Deciding \cup TerminalPath
      BY <2>2 DEF Destinations, Deciding, TerminalPath
    <2>4. \A a \in Agents : ~Running(a)
      BY <2>2, NoRoleRuns
    <2>5. QED BY <1>1, <2>1, <2>3, <2>4, FixedCallsOrder
  <1>4. CASE InvokeVerifiers
    <2>1. Ready("verify") /\ Quiet /\ UNCHANGED <<raised, ended, mode>> /\ mode' # "dynamic"
      BY <1>4 DEF InvokeVerifiers
    <2>2. pc = "verify" /\ rec.phase = "verifying"
      BY <2>1, AtPlace DEF Ready, Destinations, Deciding
    <2>3. \A a \in Agents : ~Running(a)
      BY <2>2, NoRoleRuns
    <2>4. \A place \in {"tested", "verified"} :
            pc' = place => Destinations' = Destinations /\ place \notin Deciding \cup TerminalPath
      BY <2>2 DEF Destinations, Deciding, TerminalPath
    <2>5. CASE Run(SingleEvidence, "judge")
      <3> DEFINE a == Work("artifact")
                 b == Move("reviewing", Refs("test_report", {Coord}))
                 n == rec.iteration
      <3>1. InOrder(a, "verifying", n) /\ After(a, "verifying") = "verifying"
        BY OrderedOps
      <3>2. {Coord} # {}
        OBVIOUS
      <3>3. InOrder(b, "verifying", n) /\ After(b, "verifying") = "reviewing"
        BY <3>2, Transitions
      <3>4. SingleEvidence = <<a, b>>
        BY DEF SingleEvidence
      <3> HIDE DEF a, b, n
      <3>5. Leads(SingleEvidence, rec.phase, n, "reviewing")
        BY <2>2, <3>1, <3>3, <3>4, LeadsThrough
      <3>6. "judge" \notin Deciding \cup TerminalPath /\ (pc' = "judge" => "reviewing" \in Destinations')
        BY DEF Deciding, TerminalPath, Destinations
      <3>7. QED BY <2>1, <2>5, <3>5, <3>6, FixedTakes DEF n
    <2>6. CASE Call({"tester"}, "tested")
      <3>1. pc' = "tested"
        BY <2>6 DEF Call
      <3>2. QED BY <1>1, <2>1, <2>3, <2>4, <2>6, <3>1, FixedCallsOrder
    <2>7. CASE Call({"tester", "reviewer"}, "verified")
      <3>1. pc' = "verified"
        BY <2>7 DEF Call
      <3>2. QED BY <1>1, <2>1, <2>3, <2>4, <2>7, <3>1, FixedCallsOrder
    <2>8. QED BY <1>4, <2>5, <2>6, <2>7 DEF InvokeVerifiers
  <1>5. CASE InvokeReviewer
    <2>1. Joined("tested", {"tester"}) /\ Quiet /\ UNCHANGED <<ended, mode>> /\ mode' # "dynamic"
      BY <1>5 DEF InvokeReviewer, Untouched
    <2>2. CASE raised' = [raised EXCEPT ![Coord] = "agent"] /\ UNCHANGED <<todo, pc, agent, attempt>>
      BY <2>1, <2>2, FixedRaisesOrder
    <2>3. CASE Call({"reviewer"}, "verified") /\ UNCHANGED raised
      <3>1. pc = "tested" /\ pc' = "verified"
        BY <2>1, <2>3 DEF Joined, Ready, Call
      <3>2. Called \subseteq {"tester"}
        BY <3>1 DEF Called
      <3>3. \A a \in Agents : ~Running(a)
        BY <2>1, <3>2, NoRoleRuns
      <3>4. Destinations' = Destinations /\ "verified" \notin Deciding \cup TerminalPath
        BY <3>1 DEF Destinations, Deciding, TerminalPath
      <3>5. QED BY <1>1, <2>1, <2>3, <3>3, <3>4, FixedCallsOrder
    <2>4. QED BY <1>5, <2>2, <2>3 DEF InvokeReviewer
  <1>6. QED BY <1>2, <1>3, <1>4, <1>5

(* Their results. *)
LEMMA FixedResultsOrder ==
    ASSUME IInv, Orderly, mode # "dynamic", PlanReady \/ WorkReady \/ EvidenceReady
    PROVE  Orderly'
  <1> DEFINE n == rec.iteration
             art == Work("artifact")
             em == Emit("verifying")
             any == Work("gate")
             ver == Move("verifying", {})
             snap == Move("snapshotting", Refs("work_result", {"developer"}))
             impl == Move("implementing", Refs("implementation_plan", {"planner"}))
             revw == Move("reviewing", Refs("test_report", {"tester"}))
  <1>0. {"developer"} # {} /\ {"planner"} # {} /\ {"tester"} # {}
    OBVIOUS
  <1>1. /\ \A p \in {"planning", "verifying"} : InOrder(art, p, n) /\ After(art, p) = p
        /\ InOrder(any, "verifying", n) /\ After(any, "verifying") = "verifying"
    BY OrderedOps
  <1>2. InOrder(em, "verifying", n) /\ After(em, "verifying") = "verifying"
    BY OrderedOps
  <1>3. InOrder(ver, "snapshotting", n) /\ After(ver, "snapshotting") = "verifying"
    BY Transitions
  <1>4. /\ InOrder(snap, "implementing", n) /\ After(snap, "implementing") = "snapshotting"
        /\ InOrder(impl, "planning", n) /\ After(impl, "planning") = "implementing"
        /\ InOrder(revw, "verifying", n) /\ After(revw, "verifying") = "reviewing"
    BY <1>0, Transitions
  <1>5. CASE PlanReady
    <2>1. Ready("planned") /\ Untouched /\ Continue({"planner"}, <<art, impl>>, "implement")
      BY <1>5 DEF PlanReady, Joined
    <2>2. rec.phase = "planning"
      BY <2>1, AtPlace DEF Ready, Destinations, Deciding
    <2>3. "implement" \notin Deciding \cup TerminalPath /\ (pc' = "implement" => "implementing" \in Destinations')
      BY DEF Deciding, TerminalPath, Destinations
    <2> HIDE DEF art, impl, n
    <2>4. Leads(<<art, impl>>, rec.phase, n, "implementing")
      BY <1>1, <1>4, <2>2, LeadsThrough
    <2>5. QED BY <2>1, <2>3, <2>4, FixedContinuesOrder DEF n
  <1>6. CASE WorkReady
    <2> DEFINE s == IF mode = "single" THEN <<snap, ver, em, em, any>> ELSE <<snap, ver, em, art, em, any>>
    <2>1. Ready("implemented") /\ Untouched /\ Continue({"developer"}, s, "verify")
      BY <1>6 DEF WorkReady, Joined, SingleSnapshot
    <2>2. rec.phase = "implementing"
      BY <2>1, AtPlace DEF Ready, Destinations, Deciding
    <2>3. "verify" \notin Deciding \cup TerminalPath /\ (pc' = "verify" => "verifying" \in Destinations')
      BY DEF Deciding, TerminalPath, Destinations
    <2> HIDE DEF art, any, em, ver, snap, n
    <2>4. Leads(<<snap, ver, em, em, any>>, "implementing", n, "verifying")
      BY <1>1, <1>2, <1>3, <1>4, LeadsThrough
    <2>5. Leads(<<snap, ver, em, art, em, any>>, "implementing", n, "verifying")
      <3>1. InOrder(art, "verifying", n) /\ After(art, "verifying") = "verifying"
        BY <1>1
      <3>2. QED BY <1>1, <1>2, <1>3, <1>4, <3>1, LeadsThrough
    <2>6. Leads(s, rec.phase, n, "verifying")
      BY <2>2, <2>4, <2>5
    <2> HIDE DEF s
    <2>7. QED BY <2>1, <2>3, <2>6, FixedContinuesOrder DEF n
  <1>7. CASE EvidenceReady
    <2>1. Ready("verified") /\ Untouched /\ Continue({"tester", "reviewer"}, <<art, revw>>, "judge")
      BY <1>7 DEF EvidenceReady, Joined
    <2>2. rec.phase = "verifying"
      BY <2>1, AtPlace DEF Ready, Destinations, Deciding
    <2>3. "judge" \notin Deciding \cup TerminalPath /\ (pc' = "judge" => "reviewing" \in Destinations')
      BY DEF Deciding, TerminalPath, Destinations
    <2> HIDE DEF art, revw, n
    <2>4. Leads(<<art, revw>>, rec.phase, n, "reviewing")
      BY <1>1, <1>4, <2>2, LeadsThrough
    <2>5. QED BY <2>1, <2>3, <2>4, FixedContinuesOrder DEF n
  <1>8. QED BY <1>5, <1>6, <1>7

(* The decision. *)
LEMMA FixedJudgeOrder ==
    ASSUME IInv, Orderly, mode # "dynamic", FixedJudge
    PROVE  Orderly'
  <1> DEFINE choice == IF mode = "single" THEN SingleDecide ELSE FixedDecide
             verdicts == IF mode = "single" THEN {} ELSE {output["reviewer"]}
             A == IF mode = "single" THEN {} ELSE {"reviewer"}
             r == [iteration |-> rec.iteration, decision |-> choice, test |-> gate, reviews |-> verdicts,
                   complete |-> TRUE]
             refs == Refs("iteration_record", {Coord}) \cup Refs("review_report", A)
             x == Move("deciding", refs)
             y == Emit("deciding")
  <1>1. /\ Ready("judge") /\ Quiet /\ UNCHANGED raised /\ mode' # "dynamic"
        /\ Run(IF mode = "single" THEN SingleRecord ELSE FixedRecord, "conclude")
        /\ decision'.decision = choice
    BY DEF FixedJudge, fixedVars
  <1>2. rec.phase = "reviewing"
    BY <1>1, AtPlace DEF Ready, Destinations, Deciding
  <1>3. (IF mode = "single" THEN SingleRecord ELSE FixedRecord) = <<WriteIteration(r), x, y>>
    <2>1. CASE mode = "single"
      <3>1. Refs("review_report", {}) = {}
        BY DEF Refs
      <3>2. refs = Refs("iteration_record", {Coord})
        BY <2>1, <3>1
      <3>3. QED BY <2>1, <3>2 DEF SingleRecord
    <2>2. CASE mode # "single"
      BY <2>2 DEF FixedRecord
    <2>3. QED BY <2>1, <2>2
  <1>4. /\ choice \in {"accept", "revise", "fail"}
        /\ choice = "accept" <=> gate = "passed" /\ \A v \in verdicts : v = "accept"
        /\ choice = "revise" => "fail" \notin verdicts /\ rec.iteration < IterationLimit
    BY DEF SingleDecide, FixedDecide
  <1> HIDE DEF choice, verdicts
  <1>5. /\ r.iteration = rec.iteration /\ r.decision = choice /\ r.test = gate /\ r.reviews = verdicts
        /\ r.complete = TRUE
    OBVIOUS
  <1> HIDE DEF r
  <1>6. ValidIteration(r)
    BY <1>4, <1>5, DecisionValid
  <1>7. refs = Refs("iteration_record", {Coord}) \cup Refs("review_report", A)
    OBVIOUS
  <1> HIDE DEF refs, A
  <1>8. Leads(<<WriteIteration(r), x, y>>, rec.phase, rec.iteration, "deciding")
    BY <1>2, <1>5, <1>6, <1>7, JudgeInOrder
  <1> HIDE DEF x, y
  <1>9. Run(<<WriteIteration(r), x, y>>, "conclude")
    BY <1>1, <1>3
  <1>10. "deciding" \in Destinations' /\ Unrefused' /\ "conclude" \in Deciding
    BY <1>1, <1>9 DEF Run, Destinations, Deciding, Orderly, Unrefused
  <1>11. Unrefused' /\ ReadersInStep' /\ WorkersInOrder' /\ CoordinatorInOrder' /\ ReferencesInOrder'
    BY <1>1, <1>8, <1>9, <1>10, ScriptTaken DEF IInv
  <1>12. RecordsInOrder'
    BY <1>1, <1>4, <1>5, <1>9, <1>10, RecordsJudge DEF IInv
  <1>13. ScheduleInOrder'
    BY <1>1, NoSchedule
  <1>14. QED BY <1>11, <1>12, <1>13 DEF Orderly

LEMMA FixedConcludeOrder ==
    ASSUME IInv, Orderly, mode # "dynamic", FixedConclude
    PROVE  Orderly'
  <1>1. Ready("conclude") /\ Quiet /\ UNCHANGED <<raised, output, stop, mode>> /\ "conclude" \in Deciding
    BY DEF FixedConclude, Deciding, Untouched
  <1>2. \/ decision.decision = "accept" /\ Run(Completing, "ending")
        \/ decision.decision = "fail" /\ \E reason : Run(Failing(reason), "ending")
        \/ decision.decision \notin {"accept", "fail"} /\ Run(Revising, "implement")
    BY DEF FixedConclude, FixedCompleting, FixedFailing, Revising
  <1>3. QED BY <1>1, <1>2, ConcludeOrder

(* A role's thread is refused its reservation before it has one, is corrected
   when it has settled, or ends. *)
LEMMA FixedRoleOrder ==
    ASSUME IInv, ErrorStops, TInv, Orderly, mode # "dynamic", NEW r \in Roles, ReserveRefused(r) \/ InvokeEnds(r)
    PROVE  Orderly'
  <1>1. r \in Agents /\ Coord \in Threads /\ r \in Threads /\ r # Coord
    BY FixedAssumption, StoresAssumption DEF Threads
  <1>2. CASE InvokeEnds(r)
    <2>1. /\ Quiet /\ UNCHANGED <<raised, pc, ended, decision, mode>> /\ todo[r] = <<>>
          /\ UNCHANGED todo \/ todo' = [todo EXCEPT ![r] = <<Emit("any")>> \o Attempt]
      BY <1>2 DEF InvokeEnds, Untouched
    <2>2. todo'[Coord] = todo[Coord]
      BY <1>1, <2>1 DEF IInv, Shaped
    <2>3. \A a \in Agents : todo'[a] = todo[a] \/ (todo[a] = <<>> /\ WorkerScript(todo'[a], FALSE))
      <3>1. \A a \in Agents : todo'[a] = todo[a] \/ (a = r /\ todo'[a] = <<Emit("any")>> \o Attempt)
        BY <1>1, <2>1 DEF IInv, Shaped, Threads
      <3>2. WorkerScript(<<Emit("any")>> \o Attempt, FALSE)
        BY WorkersGiven
      <3>3. QED BY <2>1, <3>1, <3>2
    <2>4. Unrefused' /\ Destinations' = Destinations
      BY <2>1 DEF Orderly, Unrefused, Destinations
    <2>5. Unrefused' /\ ReadersInStep' /\ WorkersInOrder' /\ CoordinatorInOrder' /\ ReferencesInOrder'
      BY <2>1, <2>2, <2>3, <2>4, ScriptKept DEF IInv
    <2>6. RecordsInOrder' /\ ScheduleInOrder'
      BY <2>1, <2>2, RecordsSame, NoSchedule
    <2>7. QED BY <2>5, <2>6 DEF Orderly
  <1>3. CASE ReserveRefused(r)
    <2>1. /\ Doing(r, "reserve") /\ UNCHANGED <<rec, records, reserved, pc, decision, ended, mode>>
          /\ todo' = [todo EXCEPT ![r] = <<>>] /\ hold' = [hold EXCEPT ![r] = Free]
          /\ raised' = [raised EXCEPT ![r] = "agent"]
      BY <1>3 DEF ReserveRefused, Raise, runVars, fixedVars
    <2>2. /\ todo'[r] = <<>> /\ hold'[r] = Free /\ raised'[r] = "agent"
          /\ \A u \in Threads \ {r} : todo'[u] = todo[u] /\ hold'[u] = hold[u] /\ raised'[u] = raised[u]
      BY <1>1, <2>1 DEF IInv, Shaped
    <2>3. Unrefused' /\ ReadersInStep'
      BY <2>1, <2>2, Holds DEF Orderly, Unrefused, ReadersInStep
    <2>4. WorkersInOrder'
      <3> DEFINE h == r \in reserved
      <3>1. h \in BOOLEAN /\ WorkerScript(todo[r], h) /\ IsScript(todo[r])
        BY <1>1 DEF Orderly, WorkersInOrder, IInv, Shaped
      <3>2. ~h
        <4> HIDE DEF h
        <4>1. QED BY <2>1, <3>1, WorkerTail DEF Doing
      <3>3. \A a \in Agents : WorkerScript(todo'[a], a \in reserved)
        <4> SUFFICES ASSUME NEW a \in Agents PROVE WorkerScript(todo'[a], a \in reserved)
          OBVIOUS
        <4>1. CASE a = r
          <5>1. (a \in reserved) = FALSE
            BY <3>2, <4>1
          <5>2. QED BY <2>2, <4>1, <5>1, WorkersGiven
        <4>2. CASE a # r
          BY <2>2, <4>2 DEF Orderly, WorkersInOrder, Threads
        <4>3. QED BY <4>1, <4>2
      <3>4. QED BY <2>1, <3>3 DEF Orderly, WorkersInOrder
    <2>5. todo'[Coord] = todo[Coord] /\ raised'[Coord] = raised[Coord]
      BY <1>1, <2>2
    <2>6. CoordinatorInOrder' /\ ReferencesInOrder' /\ RecordsInOrder'
      <3>1. Destinations' = Destinations
        BY <2>1 DEF Destinations
      <3>2. CoordinatorInOrder'
        BY <2>1, <2>5, <3>1 DEF Orderly, CoordinatorInOrder
      <3>3. ReferencesInOrder'
        BY <2>1 DEF Orderly, ReferencesInOrder, Open
      <3>4. RecordsInOrder'
        BY <2>1, <2>5 DEF Orderly, RecordsInOrder, LastDecides, Doing
      <3>5. QED BY <3>2, <3>3, <3>4
    <2>7. ScheduleInOrder'
      BY <2>1, NoSchedule
    <2>8. QED BY <2>3, <2>4, <2>6, <2>7 DEF Orderly
  <1>4. QED BY <1>2, <1>3

LEMMA FixedOrder ==
    ASSUME IInv, ErrorStops, TInv, Orderly, mode # "dynamic", FixedNext
    PROVE  Orderly'
  <1>1. CASE FixedBegin \/ FixedJudge \/ FixedConclude
    BY <1>1, FixedBeginOrder, FixedJudgeOrder, FixedConcludeOrder
  <1>2. CASE InvokePlanner \/ InvokeDeveloper \/ InvokeVerifiers \/ InvokeReviewer
    BY <1>2, FixedInvokesOrder
  <1>3. CASE PlanReady \/ WorkReady \/ EvidenceReady
    BY <1>3, FixedResultsOrder
  <1>4. CASE \E r \in Roles : ReserveRefused(r) \/ InvokeEnds(r)
    BY <1>4, FixedRoleOrder
  <1>5. QED BY <1>1, <1>2, <1>3, <1>4 DEF FixedNext

(* The steps of the adaptive coordinator, those of the stores left aside. *)
LEMMA DynamicOrder ==
    ASSUME IInv, GateInv, Orderly, mode = "dynamic", UNCHANGED fixedVars,
           \/ DynamicBegin \/ StartSchedule \/ Submit \/ UserStop \/ EndSchedule \/ AfterSchedule
           \/ RecordDecision \/ ActOnDecision
           \/ \E a \in Dynamic : Launch(a) \/ AgentEnds(a) \/ Collect(a)
    PROVE  Orderly'
  <1>1. CASE DynamicBegin \/ StartSchedule \/ EndSchedule \/ AfterSchedule
    BY <1>1, BeginOrder, StartOrder, EndOrder, AfterOrder
  <1>2. CASE Submit \/ UserStop \/ RecordDecision \/ ActOnDecision
    BY <1>2, SubmitOrder, StopOrder, DecideOrder, ActOrder
  <1>3. CASE \E a \in Dynamic : Launch(a) \/ AgentEnds(a) \/ Collect(a)
    BY <1>3, LaunchOrder, AgentEndsOrder, CollectOrder
  <1>4. QED BY <1>1, <1>2, <1>3

-----------------------------------------------------------------------------
(* The order is an invariant *)

(* Errors are not forgotten. *)
LEMMA NoEarlierFault ==
    ASSUME Shaped, [Next]_vars, faults' = <<>>
    PROVE  faults = <<>>
  <1>1. CASE UNCHANGED faults
    BY <1>1
  <1>2. CASE StoreNext
    <2>1. \A f, kind : f \in Seq(FaultKinds) => Append(f, kind) # <<>>
      <3> SUFFICES ASSUME NEW f \in Seq(FaultKinds), NEW kind PROVE Append(f, kind) # <<>>
        OBVIOUS
      <3> DEFINE S == FaultKinds \cup {kind}
      <3>1. f \in Seq(S) /\ kind \in S
        BY SeqOf, ElementOfSeq
      <3> HIDE DEF S
      <3>2. Len(Append(f, kind)) = Len(f) + 1 /\ Len(f) \in Nat
        BY <3>1, AppendProperties, LenProperties
      <3>3. QED BY <3>2
    <2>2. faults \in Seq(FaultKinds)
      BY DEF Shaped
    <2>3. \A kind : ~Fault(kind)
      BY <2>1, <2>2 DEF Fault
    <2>4. ASSUME NEW t \in Threads, StoreStep(t) PROVE UNCHANGED faults
      <3>1. UNCHANGED faults \/ \E kind \in FaultKinds : faults' = Append(faults, kind)
        BY <2>4, StoreSteps DEF EventStep
      <3>2. QED BY <2>1, <2>2, <3>1
    <2>5. CASE MoveLoad
      BY <2>1, <2>2, <2>5 DEF MoveLoad, Unbind
    <2>6. CASE BundleBegin \/ BundleLink
      BY <2>3, <2>6 DEF BundleBegin, BundleLink
    <2>7. CASE MoveReplace
      <3>1. \/ UNCHANGED faults \/ Unbind("refused", faults)
            \/ \E kind \in FaultKinds : Unbind("fault", Append(faults, kind))
        BY <2>7 DEF MoveReplace
      <3>2. ASSUME NEW kind \in FaultKinds, Unbind("fault", Append(faults, kind)) PROVE FALSE
        <4>1. Append(faults, kind) \in Seq(FaultKinds)
          BY <2>2, AppendProperties
        <4>2. QED BY <2>1, <2>2, <3>2, <4>1 DEF Unbind
      <3>3. CASE Unbind("refused", faults)
        BY <2>1, <2>2, <3>3 DEF Unbind
      <3>4. QED BY <3>1, <3>2, <3>3
    <2>8. QED BY <1>2, <2>4, <2>5, <2>6, <2>7 DEF StoreNext
  <1>3. CASE Return \/ Catch
    BY <1>3 DEF Return, Catch, Quiet
  <1>4. CASE DynamicNext /\ ~StoreNext
    BY <1>3, <1>4 DEF DynamicNext, DynamicBegin, StartSchedule, Submit, UserStop, EndSchedule, AfterSchedule,
                 RecordDecision, ActOnDecision, Launch, AgentEnds, Collect, Quiet
  <1>5. CASE FixedNext
    <2>1. CASE FixedBegin \/ InvokePlanner \/ PlanReady \/ InvokeDeveloper \/ WorkReady \/ InvokeReviewer
               \/ EvidenceReady \/ FixedConclude
      BY <2>1 DEF FixedBegin, InvokePlanner, PlanReady, InvokeDeveloper, WorkReady, InvokeReviewer,
                  EvidenceReady, FixedConclude, Untouched, Quiet
    <2>2. CASE InvokeVerifiers \/ FixedJudge
      BY <2>2 DEF InvokeVerifiers, FixedJudge, Quiet
    <2>3. CASE \E r \in Roles : ReserveRefused(r) \/ InvokeEnds(r)
      BY <2>3 DEF ReserveRefused, InvokeEnds, Untouched, Quiet
    <2>4. QED BY <1>5, <2>1, <2>2, <2>3 DEF FixedNext
  <1>6. QED BY <1>1, <1>2, <1>3, <1>4, <1>5 DEF Next, vars, storeVars

(* The gate's verdict is one that a test report has. *)
LEMMA StepGate ==
    ASSUME GateInv, [Next]_vars
    PROVE  GateInv'
  <1>1. CASE UNCHANGED gate
    BY <1>1 DEF GateInv
  <1>2. CASE StoreNext /\ UNCHANGED runVars
    BY <1>1, <1>2 DEF runVars
  <1>3. CASE Return \/ Catch
    BY <1>1, <1>3 DEF Return, Catch
  <1>4. CASE DynamicNext
    <2>1. CASE StartSchedule
      BY <2>1 DEF StartSchedule, GateInv
    <2>2. ASSUME NEW a \in Dynamic, AgentEnds(a) PROVE GateInv'
      <3>1. PICK report \in Reports(a) \cup {"error"} :
                gate' = IF a \in Testers /\ report # "error" THEN report ELSE gate
        BY <2>2 DEF AgentEnds
      <3>2. a \in Testers => report \in {"passed", "failed", "blocked", "error"}
        BY ReportsInOrder
      <3>3. QED BY <3>1, <3>2 DEF GateInv
    <2>3. CASE DynamicBegin \/ Submit \/ UserStop \/ EndSchedule \/ AfterSchedule \/ RecordDecision
               \/ ActOnDecision \/ \E a \in Dynamic : Launch(a) \/ Collect(a)
      BY <1>1, <2>3 DEF DynamicBegin, Submit, UserStop, EndSchedule, AfterSchedule, RecordDecision,
                        ActOnDecision, Launch, Collect
    <2>4. QED BY <1>2, <1>3, <1>4, <2>1, <2>2, <2>3 DEF DynamicNext
  <1>5. CASE FixedNext
    <2>1. CASE InvokeVerifiers
      BY <2>1, GateReports DEF InvokeVerifiers, GateInv
    <2>2. CASE FixedBegin \/ InvokePlanner \/ PlanReady \/ InvokeDeveloper \/ WorkReady \/ InvokeReviewer
               \/ EvidenceReady \/ FixedConclude
      BY <1>1, <2>2 DEF FixedBegin, InvokePlanner, PlanReady, InvokeDeveloper, WorkReady, InvokeReviewer,
                        EvidenceReady, FixedConclude, Untouched
    <2>3. CASE FixedJudge \/ \E r \in Roles : ReserveRefused(r) \/ InvokeEnds(r)
      BY <1>1, <2>3 DEF FixedJudge, ReserveRefused, InvokeEnds, Untouched, runVars
    <2>4. QED BY <1>5, <2>1, <2>2, <2>3 DEF FixedNext
  <1>6. QED BY <1>1, <1>2, <1>3, <1>4, <1>5 DEF Next, vars, runVars

LEMMA StepOrder ==
    ASSUME IInv, ErrorStops, TInv, EInv, GateInv, LInv, [Next]_vars
    PROVE  LInv'
  <1> SUFFICES ASSUME faults' = <<>> PROVE Orderly'
    BY DEF LInv
  <1>1. faults = <<>> /\ Orderly
    BY NoEarlierFault DEF LInv, IInv
  <1>2. CASE UNCHANGED vars
    <2>1. UNCHANGED <<rec, records, reserved, todo, raised, hold>> /\ UNCHANGED runVars /\ UNCHANGED fixedVars
      BY <1>2 DEF vars, storeVars
    <2>2. \A t \in Threads : todo'[t] = todo[t] /\ raised'[t] = raised[t]
      BY <2>1
    <2>3. ReadersInStep'
      BY <1>1, <2>1 DEF Orderly, ReadersInStep
    <2>4. QED BY <1>1, <2>1, <2>2, <2>3, SameOrder DEF IInv, Orderly
  <1>3. CASE StoreNext /\ UNCHANGED runVars /\ UNCHANGED fixedVars
    BY <1>1, <1>3, StoreOrder
  <1>4. CASE (Return \/ Catch) /\ UNCHANGED fixedVars
    BY <1>1, <1>4, LeavingOrder
  <1>5. CASE mode = "dynamic" /\ DynamicNext /\ UNCHANGED fixedVars
    BY <1>1, <1>3, <1>4, <1>5, DynamicOrder DEF DynamicNext
  <1>6. CASE mode # "dynamic" /\ FixedNext
    BY <1>1, <1>6, FixedOrder
  <1>7. QED BY <1>2, <1>3, <1>4, <1>5, <1>6 DEF Next

LEMMA InitOrder ==
    ASSUME Init
    PROVE  GateInv /\ LInv
  <1>1. /\ rec = NewRecord /\ records = <<>> /\ reserved = {} /\ todo[Coord] = <<Emit("created")>>
        /\ \A a \in Agents : todo[a] = <<>>
        /\ \A t \in Threads : hold[t] = Free /\ raised[t] = "none"
        /\ pc = "boot" /\ stop = "none" /\ gate = "none"
        /\ output = [a \in Agents |-> "none"]
    BY StoresAssumption DEF Init, StoreInit, Threads
  <1>2. rec.phase = "created" /\ rec.iteration = 1 /\ rec.refs = {}
    BY <1>1 DEF NewRecord
  <1>3. Unrefused /\ ReadersInStep
    BY <1>1, Holds DEF Unrefused, ReadersInStep
  <1>4. WorkersInOrder
    <2>1. \A a \in Agents : todo[a] = <<>> /\ (a \in reserved) = FALSE
      BY <1>1
    <2>2. \A a \in Agents : WorkerScript(todo[a], a \in reserved)
      BY <2>1, WorkersGiven
    <2>3. QED BY <1>1, <2>2 DEF WorkersInOrder
  <1>5. CoordinatorInOrder
    <2> DEFINE op == Emit("created")
    <2>1. InOrder(op, "created", 1) /\ After(op, "created") = "created"
      BY OrderedOps
    <2> HIDE DEF op
    <2>2. Leads(<<op>>, "created", 1, "created")
      BY <2>1, LeadsThrough
    <2>3. "created" \in Destinations
      BY <1>1 DEF Destinations, Deciding
    <2>4. QED BY <1>1, <1>2, <2>2, <2>3 DEF CoordinatorInOrder, op
  <1>6. ReferencesInOrder
    BY <1>2 DEF ReferencesInOrder
  <1>7. RecordsInOrder
    <2>1. pc \notin Deciding \cup TerminalPath /\ Len(records) = 0
      BY <1>1 DEF Deciding, TerminalPath
    <2>2. QED BY <1>1, <2>1 DEF RecordsInOrder
  <1>8. ScheduleInOrder
    BY <1>1 DEF ScheduleInOrder
  <1>9. QED BY <1>1, <1>3, <1>4, <1>5, <1>6, <1>7, <1>8 DEF GateInv, LInv, Orderly

(* In every state of every run without an I/O error, of either coordinator, what
   each thread still has to do is in order: every operation of a script is one
   that the stores accept when the thread gets to it, and the script leads the
   run to the phase in which the coordinator's next place needs it. *)
THEOREM OrderInvariant == Spec => [](GateInv /\ LInv)
  <1>1. Init => IInv /\ ErrorStops /\ TInv /\ EInv /\ GateInv /\ LInv
    BY InitInv, InitTInv, InitEInv, InitOrder
  <1>2. IInv /\ ErrorStops /\ TInv /\ EInv /\ GateInv /\ LInv /\ [Next]_vars
            => (IInv /\ ErrorStops /\ TInv /\ EInv /\ GateInv /\ LInv)'
    BY StepInv, StepTInv, StepEInv, StepGate, StepOrder
  <1>3. QED BY <1>1, <1>2, PTL DEF Spec

(* The workflow and its threads never trip over a check of the stores unless an
   I/O error came first, and no gate assembles a report that is refused. *)
THEOREM OnlyFaultsRefused == Spec => []OnlyFaultsAreRefused
  <1>1. GateInv /\ LInv => OnlyFaultsAreRefused
    BY DEF GateInv, LInv, Orderly, Unrefused, OnlyFaultsAreRefused
  <1>2. QED BY <1>1, OrderInvariant, PTL
=============================================================================
