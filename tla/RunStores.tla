------------------------------ MODULE RunStores ------------------------------
(***************************************************************************)
(* What a run keeps on disk: the run record (run_control.py), the event    *)
(* journal whose head the record anchors (progress.py) and the artifacts   *)
(* (artifact_store.py), and the operations the threads of a workflow       *)
(* perform on them.                                                        *)
(*                                                                         *)
(* A thread runs a script, todo[t]: a sequence of store operations.  Each  *)
(* operation is split at every point at which another thread can run: an   *)
(* emitted event is read, write, load, anchor; a lifecycle transition is   *)
(* load, replace.  An operation that raises empties the script and sets    *)
(* raised[t]; the workflow modules say what catches it.                    *)
(*                                                                         *)
(* Nothing in the program resumes a run, so a crash is a behaviour that    *)
(* stops: an invariant on rec, journal and bundle is a statement about     *)
(* what a crash at any point leaves on disk.                               *)
(***************************************************************************)
EXTENDS Integers, Sequences, FiniteSets

CONSTANTS
    Agents,          \* the Agents whose threads write to the stores
    IterationLimit,  \* iteration_limit of the TeamPlan
    FaultKinds,      \* subset of {"early", "late"}: I/O errors that may happen
    MaxFaults        \* bound: how many of them in one run

Coord == "coordinator"
Threads == Agents \cup {Coord}

ASSUME StoresAssumption ==
    /\ Agents \cap {Coord, "free"} = {}
    /\ IterationLimit \in Nat \ {0}
    /\ FaultKinds \subseteq {"early", "late"}
    /\ MaxFaults \in Nat

VARIABLES
    rec,      \* the run record on disk
    journal,  \* lifecycle revisions of the event files on disk, in sequence order
    bundle,   \* how many of the three terminal files are linked
    records,  \* iteration records in the artifact store
    todo,     \* thread -> operations it still has to perform
    hold,     \* thread -> where it is inside its first operation, and the record it read
    jlock,    \* holder of RunEventJournal._lock
    mem,      \* revision of the record the coordinator holds
    reserved, \* Agents with an open reservation in the spend ledger
    raised,   \* thread -> "none", "fault" (I/O) or "refused" (a check of the program)
    faults    \* history: the kinds of the I/O errors so far

storeVars == <<rec, journal, bundle, records, todo, hold, jlock, mem, reserved, raised, faults>>

-----------------------------------------------------------------------------
(* The run record *)

Phases == {"created", "preparing_workspace", "planning", "implementing", "snapshotting",
           "verifying", "reviewing", "deciding", "delivering", "completed", "failed"}
Terminal == {"completed", "failed"}
BeforeWorkspace == {"created", "preparing_workspace"}
BeforeSnapshot == {"planning", "implementing", "snapshotting"}
AfterSnapshot == {"verifying", "reviewing", "deciding", "delivering", "completed"}

LegalNextPhases(source) ==
    CASE source = "created" -> {"preparing_workspace"}
      [] source = "preparing_workspace" -> {"planning"}
      [] source = "planning" -> {"implementing"}
      [] source = "implementing" -> {"snapshotting"}
      [] source = "snapshotting" -> {"verifying"}
      [] source = "verifying" -> {"reviewing"}
      [] source = "reviewing" -> {"deciding"}
      [] source = "deciding" -> {"implementing", "delivering"}
      [] source = "delivering" -> {"completed"}
      [] OTHER -> {}

IsLegalTransition(source, target) ==
    \/ target \in LegalNextPhases(source)
    \/ target = "failed" /\ source \notin Terminal

(* An artifact reference is <<kind, producer, iteration>>. *)
Kinds(refs) == {r[1] : r \in refs}

RequiredKind(source, target) ==
    IF target = "failed" THEN {"final_report"}
    ELSE CASE source = "implementing" -> {"work_result"}
           [] source = "verifying" -> {"test_report"}
           [] source = "reviewing" -> {"iteration_record"}
           [] source = "delivering" -> {"final_report"}
           [] OTHER -> {}

(* RunTransition: the shape of one step of the lifecycle. *)
ValidTransition(r, op) ==
    /\ IsLegalTransition(r.phase, op.to)
    /\ RequiredKind(r.phase, op.to) \subseteq Kinds(op.refs)
    /\ op.decision = CASE r.phase = "deciding" /\ op.to = "implementing" -> "revise"
                       [] r.phase = "deciding" /\ op.to = "delivering" -> "accept"
                       [] OTHER -> "none"
    /\ (op.reason # "none") = (op.to \in Terminal)
    /\ (op.to = "completed") = (op.reason = "succeeded")

(* RunRecord: what has to hold of the whole record. *)
ValidRecord(r) ==
    /\ r.iteration <= IterationLimit
    /\ r.phase \in BeforeWorkspace => ~r.workspace
    /\ r.phase \notin BeforeWorkspace \cup {"failed"} => r.workspace
    /\ r.snaps <= r.iteration
    /\ r.phase \in BeforeSnapshot => r.snaps = r.iteration - 1
    /\ r.phase \in AfterSnapshot => r.snaps = r.iteration
    /\ r.phase = "failed" =>
        IF r.source \in BeforeWorkspace THEN ~r.workspace /\ r.snaps = 0
        ELSE /\ r.workspace
             /\ r.snaps = IF r.source \in AfterSnapshot THEN r.iteration ELSE r.iteration - 1
    /\ (r.reason # "none") = (r.phase \in Terminal)

NewRecord ==
    [phase |-> "created", source |-> "created", revision |-> 0, iteration |-> 1,
     workspace |-> FALSE, snaps |-> 0, events |-> 0, refs |-> {}, reason |-> "none"]

(* The updated record RunController._transition builds from the current one. *)
Moved(r, op) ==
    [r EXCEPT !.phase = op.to, !.source = r.phase, !.revision = @ + 1,
              !.iteration = IF r.phase = "deciding" /\ op.to = "implementing" THEN @ + 1 ELSE @,
              !.workspace = @ \/ op.to = "planning",
              !.snaps = IF op.to = "verifying" THEN @ + 1 ELSE @,
              !.refs = @ \cup op.refs, !.reason = op.reason]

(* advance refuses an iteration beyond the limit; the models refuse the rest. *)
MoveAccepted(r, op) ==
    /\ ValidTransition(r, op)
    /\ op.refs \cap r.refs = {}
    /\ ValidRecord(Moved(r, op))

-----------------------------------------------------------------------------
(* Operations of a script *)

Emit(phase) == [op |-> "emit", phase |-> phase]
Move(to, refs) == [op |-> "move", to |-> to, refs |-> refs, decision |-> "none", reason |-> "none"]
Decided(to, decision) == [Move(to, {}) EXCEPT !.decision = decision]
Bind(to, reason) ==
    [op |-> "bind", to |-> to, refs |-> {<<"final_report", Coord, 0>>}, decision |-> "none",
     reason |-> reason]
WriteBundle(status) == [op |-> "bundle", status |-> status]
WriteIteration(record) == [op |-> "iteration", record |-> record]
Work(name) == [op |-> name]  \* work outside the stores: prepare, gate, artifact, reserve, settle

Doing(t, name) == todo[t] # <<>> /\ Head(todo[t]).op = name
At(t, place) == hold[t].at = place
Free == [at |-> "start", rec |-> NewRecord]

Finish(t) ==
    /\ todo' = [todo EXCEPT ![t] = Tail(@)]
    /\ hold' = [hold EXCEPT ![t] = Free]
    /\ UNCHANGED raised

Raise(t, why) ==
    /\ todo' = [todo EXCEPT ![t] = <<>>]
    /\ hold' = [hold EXCEPT ![t] = Free]
    /\ raised' = [raised EXCEPT ![t] = why]

Fault(kind) == kind \in FaultKinds /\ Len(faults) < MaxFaults /\ faults' = Append(faults, kind)

-----------------------------------------------------------------------------
(* RunEventJournal *)

(* _load_unlocked: what a reader of the journal insists on. *)
Readable(j) == \A i \in 1..Len(j) - 1 : j[i] <= j[i + 1]

(* _emit: the phase and revision an event will carry are read before any lock. *)
EmitRead(t) ==
    /\ Doing(t, "emit") /\ At(t, "start")
    /\ hold' = [hold EXCEPT ![t] = [at |-> "read", rec |-> rec]]
    /\ UNCHANGED <<rec, journal, bundle, records, todo, jlock, mem, reserved, raised, faults>>

(* append, up to the event file. *)
EmitWrite(t) ==
    /\ Doing(t, "emit") /\ At(t, "read") /\ jlock = "free"
    /\ LET seen == hold[t].rec
           draft == Head(todo[t]).phase
           written == Append(journal, seen.revision)
       IN  \/ /\ \/ draft \notin {"any", seen.phase}
                 \/ ~Readable(journal)
                 \/ rec.events # Len(journal)
              /\ Raise(t, "refused")
              /\ UNCHANGED <<journal, jlock, faults>>
           \/ /\ draft \in {"any", seen.phase} /\ Readable(journal) /\ rec.events = Len(journal)
              /\ \/ /\ journal' = written
                    /\ jlock' = t
                    /\ hold' = [hold EXCEPT ![t].at = "written"]
                    /\ UNCHANGED <<todo, raised, faults>>
                 \/ \E kind \in FaultKinds :
                        /\ Fault(kind)
                        /\ journal' = IF kind = "late" THEN written ELSE journal
                        /\ Raise(t, "fault")
                        /\ UNCHANGED jlock
    /\ UNCHANGED <<rec, bundle, records, mem, reserved>>

(* Mutant: the event file of a failed anchor stays. *)
WithdrawKeepsFile(t, why) == UNCHANGED journal /\ jlock' = "free" /\ Raise(t, why)

(* The anchor failed: append removes the event file and re-raises. *)
Withdraw(t, why) ==
    /\ journal' = SubSeq(journal, 1, Len(journal) - 1)
    /\ jlock' = "free"
    /\ Raise(t, why)

(* record_event_head: load, then replace_event_head. *)
EmitLoad(t) ==
    /\ Doing(t, "emit") /\ At(t, "written")
    /\ IF Len(journal) = rec.events + 1
       THEN /\ hold' = [hold EXCEPT ![t] = [at |-> "loaded", rec |-> rec]]
            /\ UNCHANGED <<journal, jlock, todo, raised>>
       ELSE Withdraw(t, "refused")
    /\ UNCHANGED <<rec, bundle, records, mem, reserved, faults>>

EmitAnchor(t) ==
    /\ Doing(t, "emit") /\ At(t, "loaded")
    /\ LET anchored == [rec EXCEPT !.events = @ + 1]
       IN  \/ /\ rec # hold[t].rec
              /\ Withdraw(t, "refused")
              /\ UNCHANGED <<rec, faults>>
           \/ /\ rec = hold[t].rec
              /\ \/ /\ rec' = anchored
                    /\ jlock' = "free"
                    /\ Finish(t)
                    /\ UNCHANGED <<journal, faults>>
                 \/ \E kind \in FaultKinds :
                        /\ Fault(kind)
                        /\ rec' = IF kind = "late" THEN anchored ELSE rec
                        /\ Withdraw(t, "fault")
    /\ UNCHANGED <<bundle, records, mem, reserved>>

-----------------------------------------------------------------------------
(* RunController and RunStore.replace, for the coordinator *)

Moving == Doing(Coord, "move") \/ Doing(Coord, "bind")

(* Mutant: a transition that raised leaves the prepared bundle. *)
UnbindKeepsBundle(why, f) == Raise(Coord, why) /\ faults' = f /\ UNCHANGED bundle

(* bind_final_report_bundle: a transition that raised removes the bundle; a
   rollback that fails as well is only noted on the error.  f: faults so far. *)
Unbind(why, f) ==
    /\ Raise(Coord, why)
    /\ \/ bundle' = (IF Doing(Coord, "bind") THEN 0 ELSE bundle) /\ faults' = f
       \/ /\ Doing(Coord, "bind") /\ "early" \in FaultKinds /\ Len(f) < MaxFaults
          /\ bundle' \in 1..bundle /\ faults' = Append(f, "early")

(* _load_expected_with_plan *)
MoveLoad ==
    /\ Moving /\ At(Coord, "start")
    /\ IF rec.revision = mem /\ rec.phase \notin Terminal
       THEN /\ hold' = [hold EXCEPT ![Coord] = [at |-> "moving", rec |-> rec]]
            /\ UNCHANGED <<todo, raised, bundle, faults>>
       ELSE Unbind("refused", faults)
    /\ UNCHANGED <<rec, journal, records, jlock, mem, reserved>>

(* replace: persisted must equal the record the transition was built from. *)
MoveReplace ==
    /\ Moving /\ At(Coord, "moving")
    /\ LET op == Head(todo[Coord])
           updated == Moved(hold[Coord].rec, op)
           accepted == rec = hold[Coord].rec /\ MoveAccepted(rec, op)
       IN  \/ /\ ~accepted
              /\ Unbind("refused", faults)
              /\ UNCHANGED <<rec, mem>>
           \/ /\ accepted
              /\ \/ /\ rec' = updated
                    /\ mem' = updated.revision
                    /\ Finish(Coord)
                    /\ UNCHANGED <<bundle, faults>>
                 \/ \E kind \in FaultKinds :
                        /\ Len(faults) < MaxFaults
                        /\ rec' = IF kind = "late" THEN updated ELSE rec
                        /\ Unbind("fault", Append(faults, kind))
                        /\ UNCHANGED mem
    /\ UNCHANGED <<journal, records, jlock, reserved>>

-----------------------------------------------------------------------------
(* ArtifactStore *)

(* _validate_references for an IterationRecord: what the decision may be. *)
ValidIteration(r) ==
    LET passes == r.test = "passed" /\ \A v \in r.reviews : v = "accept"
    IN  /\ r.decision = "accept" => passes
        /\ r.decision = "revise" => "fail" \notin r.reviews /\ ~passes
        /\ r.decision = "fail" => ~passes
        /\ r.complete \/ r.test # "passed"

(* _validate_references for a FinalReport. *)
ValidReport(status) ==
    /\ \A i \in DOMAIN records : records[i].iteration = i
    /\ status = "completed" => records # <<>> /\ records[Len(records)].decision = "accept"

(* write: a new immutable file, or nothing. *)
ArtifactWrite(t) ==
    /\ \/ /\ Doing(t, "artifact")
          /\ \/ Finish(t) /\ UNCHANGED <<records, faults>>
             \/ Fault("early") /\ Raise(t, "fault") /\ UNCHANGED records
       \/ /\ Doing(t, "iteration")
          /\ LET record == Head(todo[t]).record
             IN  \/ ~ValidIteration(record) /\ Raise(t, "refused") /\ UNCHANGED <<records, faults>>
                 \/ /\ ValidIteration(record)
                    /\ \/ /\ records' = Append(records, record)
                          /\ Finish(t)
                          /\ UNCHANGED faults
                       \/ Fault("early") /\ Raise(t, "fault") /\ UNCHANGED records
    /\ UNCHANGED <<rec, journal, bundle, jlock, mem, reserved>>

(* _write_terminal_report and write_final_report_bundle: settle the spend
   ledger, check the report and the three destinations, link one by one. *)
BundleBegin ==
    /\ Doing(Coord, "bundle") /\ At(Coord, "start")
    /\ IF reserved = {} /\ ValidReport(Head(todo[Coord]).status) /\ bundle = 0
       THEN hold' = [hold EXCEPT ![Coord].at = "linking"] /\ UNCHANGED <<todo, raised>>
       ELSE Raise(Coord, "refused")
    /\ UNCHANGED <<rec, journal, bundle, records, jlock, mem, reserved, faults>>

BundleLink ==
    /\ Doing(Coord, "bundle") /\ At(Coord, "linking")
    /\ \/ bundle < 3 /\ bundle' = bundle + 1 /\ UNCHANGED <<todo, hold, raised, faults>>
       \/ bundle = 3 /\ Finish(Coord) /\ UNCHANGED <<bundle, faults>>
       \/ Fault("early") /\ bundle' = 0 /\ Raise(Coord, "fault")
    /\ UNCHANGED <<rec, journal, records, jlock, mem, reserved>>

(* Steps that touch no store: the Git workspace, the quality gate and the
   spend ledger, each of which may fail. *)
OutsideWork(t) ==
    /\ \E name \in {"prepare", "gate"} : Doing(t, name)
    /\ \/ Finish(t) /\ UNCHANGED faults
       \/ Fault("early") /\ Raise(t, "fault")
    /\ UNCHANGED <<rec, journal, bundle, records, jlock, mem, reserved>>

Reserve(t) ==
    /\ Doing(t, "reserve")
    /\ reserved' = reserved \cup {t}
    /\ Finish(t)
    /\ UNCHANGED <<rec, journal, bundle, records, jlock, mem, faults>>

Settle(t) ==
    /\ Doing(t, "settle")
    /\ reserved' = reserved \ {t}
    /\ Finish(t)
    /\ UNCHANGED <<rec, journal, bundle, records, jlock, mem, faults>>

StoreStep(t) ==
    \/ EmitRead(t) \/ EmitWrite(t) \/ EmitLoad(t) \/ EmitAnchor(t)
    \/ ArtifactWrite(t) \/ OutsideWork(t) \/ Reserve(t) \/ Settle(t)

StoreNext == (\E t \in Threads : StoreStep(t)) \/ MoveLoad \/ MoveReplace \/ BundleBegin \/ BundleLink

StoreInit ==
    /\ rec = NewRecord
    /\ journal = <<>> /\ bundle = 0 /\ records = <<>>
    /\ todo = [t \in Threads |-> IF t = Coord THEN <<Emit("created")>> ELSE <<>>]
    /\ hold = [t \in Threads |-> Free]
    /\ jlock = "free" /\ mem = 0 /\ reserved = {}
    /\ raised = [t \in Threads |-> "none"]
    /\ faults = <<>>
=============================================================================
