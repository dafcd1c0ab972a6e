------------------------- MODULE PlanningSessionProofs -------------------------
(***************************************************************************)
(* What a planning dialogue shows, approves and can read back, for every   *)
(* limit, every list of change requests and every response of the model,   *)
(* wherever "/cancel confirm" falls.                                       *)
(***************************************************************************)
EXTENDS PlanningSession, PlanningDecisions, TLAPS, SequenceTheorems

(***************************************************************************)
(* The inductive invariant.                                                *)
(***************************************************************************)
Parsed == {"none", "question", "proposal"}
TurnFile == [msg : Messages, parsed : Parsed]
ProposalFile == [source : {"model", "edit"}, turn : Nat, change : Messages]
Index == [status : Status, turns : Nat, latest : Nat, approved : Nat]

(* The step that follows a turn, like the locals of the invocation, is left   *)
(* open but for what the dialogue does with it.                               *)
TypeOK ==
    /\ turns \in Seq(TurnFile) /\ proposals \in Seq(ProposalFile) /\ index \in Index
    /\ planner \in [pc : {planner.pc}, mode : {"start", "revise"}, msg : Messages,
                    change : Messages, rounds : Nat, requests : Nat, shown : Nat,
                    claimed : BOOLEAN, exception : {planner.exception},
                    status : {planner.status}, step : {planner.step}]
    /\ console \in [pc : {"idle", "loaded", "stop"}, index : {console.index}]

(* The index is at most one file behind, the one that is being appended, and  *)
(* its latest proposal is the one on the screen.                              *)
OneFileAhead ==
    /\ index.latest = planner.shown
    /\ Len(turns) = index.turns + (IF planner.pc = "anchorTurn" THEN 1 ELSE 0)
    /\ Len(proposals) = index.latest + (IF planner.pc = "anchorProposal" THEN 1 ELSE 0)
    /\ index.status = "absent" <=> planner.pc \in {"start", "created"}

(* An approval is written and anchored under the lock, and ends the dialogue. *)
OneApproval ==
    /\ index.status = "approved" =>
        /\ planner.pc = "ended" /\ ~cancelled
        /\ approvals = {planner.shown} /\ index.approved = planner.shown
    /\ index.status # "approved" =>
        /\ index.approved = 0
        /\ approvals = IF planner.pc = "anchorApproval" THEN {planner.shown} ELSE {}
    /\ planner.pc = "anchorApproval" =>
        index.status = "proposed" /\ lock = "planner" /\ ~cancelled
    /\ console.pc = "loaded" => lock = "console" /\ index.status # "approved"

(* Where the dialogue is and what its session says of it. *)
StatusFits ==
    /\ planner.pc = "menu" => index.status = "proposed"
    /\ planner.pc = "ask" => index.status = "clarifying"
    /\ planner.pc = "propose" => turns[Len(turns)].parsed = "proposal"
    /\ planner.pc = "anchorTurn" =>
        /\ planner.status \in {"clarifying", "failed", "cancelled"}
        /\ planner.step.go = "error" => planner.status # "cancelled"
        /\ planner.step.go = "question" => planner.status = "clarifying"
        /\ planner.step.go = "proposal" => turns[Len(turns)].parsed = "proposal"
    /\ planner.pc = "raise" /\ planner.exception = "planning" =>
        index.status \in {"clarifying", "failed"}

(* A turn since the last model proposal holds what the user asked to change.  *)
Heard(text) ==
    \E t \in DOMAIN turns :
        turns[t].msg = text /\ \A q \in ModelProposals : proposals[q].turn < t

(* The change request is the next message, or it has been heard; it has been  *)
(* heard wherever a turn has just been written.                               *)
ChangeOnRecord ==
    /\ HistoryReadable
    /\ planner.pc # "anchorProposal" => planner.msg = planner.change \/ Heard(planner.change)
    /\ planner.pc \in {"anchorTurn", "ask", "propose"} => Heard(planner.change)

IInv == TypeOK /\ OneFileAhead /\ OneApproval /\ StatusFits /\ ChangeOnRecord

-----------------------------------------------------------------------------
(* What the actions have in common *)

(* The actions that append a turn, and what is known of the turn and of the   *)
(* step that follows it.                                                      *)
Return == ReturnCompleted \/ ReturnFailed \/ ReturnException \/ ReturnInterrupted

TurnOf(parsed, status, step) ==
    /\ parsed \in Parsed /\ status \in {"clarifying", "failed", "cancelled"}
    /\ step.go = "error" => status # "cancelled"
    /\ step.go = "question" => status = "clarifying"
    /\ step.go = "proposal" => parsed = "proposal"

LEMMA ReturnWrites ==
    ASSUME Return
    PROVE  /\ planner.pc = "run"
           /\ \E parsed, status, step : TurnOf(parsed, status, step) /\ WriteTurn(parsed, status, step)
  <1>1. CASE ReturnCompleted
    <2>1. PICK step \in CompletedSteps, exhausted \in BOOLEAN :
            WriteTurn(IF step.go \in {"question", "proposal"} THEN step.go ELSE "none",
                      TurnStatus("completed", "none"), IF exhausted THEN RaiseStep ELSE step)
      BY <1>1 DEF ReturnCompleted
    <2>2. TurnOf(IF step.go \in {"question", "proposal"} THEN step.go ELSE "none",
                 TurnStatus("completed", "none"), IF exhausted THEN RaiseStep ELSE step)
      BY DEF TurnOf, TurnStatus, RaiseStep, NoStep, Parsed
    <2>3. QED BY <1>1, <2>1, <2>2 DEF ReturnCompleted
  <1>2. CASE ReturnFailed
    <2>1. PICK result \in {"provider_failed", "recoverable", "failed"}, safe \in BOOLEAN :
            LET next == Recovery(result, safe)
            IN  WriteTurn("none", TurnStatus(result, next), RecoveryStep(next))
      BY <1>2 DEF ReturnFailed
    <2> DEFINE next == Recovery(result, safe)
    <2>2. next \in {"fallback", "retry", "none"}
      BY DEF Recovery
    <2>3. TurnOf("none", TurnStatus(result, next), RecoveryStep(next))
      <3>1. TurnStatus(result, next) \in {"clarifying", "failed"}
        BY DEF TurnStatus
      <3>2. RecoveryStep(next).go \in {"again", "error"}
        BY <2>2 DEF RecoveryStep, Again, RaiseStep, NoStep
      <3>3. QED BY <3>1, <3>2 DEF TurnOf, Parsed
    <2>4. QED BY <1>2, <2>1, <2>3 DEF ReturnFailed
  <1>3. CASE ReturnException
    <2>1. TurnOf("none", TurnStatus("failed", "none"), [NoStep EXCEPT !.go = "exception"])
      BY DEF TurnOf, TurnStatus, NoStep, Parsed
    <2>2. QED BY <1>3, <2>1 DEF ReturnException
  <1>4. CASE ReturnInterrupted
    <2>1. TurnOf("none", TurnStatus("interrupted", "none"), [NoStep EXCEPT !.go = "interrupt"])
      BY DEF TurnOf, TurnStatus, NoStep, Parsed
    <2>2. QED BY <1>4, <2>1 DEF ReturnInterrupted
  <1>5. QED BY <1>1, <1>2, <1>3, <1>4 DEF Return

(* The initial states. *)
LEMMA InitInv == Init => IInv
  <1> SUFFICES ASSUME Init PROVE IInv
    OBVIOUS
  <1>1. TypeOK
    BY PlanningAssumption
    DEF Init, TypeOK, Index, NoSession, Idle, Status, Terminal, Messages
  <1>2. OneFileAhead /\ OneApproval /\ StatusFits
    BY DEF Init, OneFileAhead, OneApproval, StatusFits, NoSession, Idle
  <1>3. ChangeOnRecord
    BY DEF Init, ChangeOnRecord, HistoryReadable, ModelProposals
  <1>4. QED BY <1>1, <1>2, <1>3 DEF IInv

PlannerType(p) ==
    p \in [pc : {p.pc}, mode : {"start", "revise"}, msg : Messages, change : Messages,
           rounds : Nat, requests : Nat, shown : Nat, claimed : BOOLEAN,
           exception : {p.exception}, status : {p.status}, step : {p.step}]

(* The steps of the dialogue that write nothing. *)
Move == CreateRequest \/ ReserveCall \/ Launch \/ ObserveActivity \/ LeaveQuestion \/ LeaveMenu

LEMMA MoveWritesNothing ==
    ASSUME TypeOK, Move
    PROVE  /\ UNCHANGED << turns, proposals, approvals, index, console, cancelled, lock >>
           /\ PlannerType(planner')
           /\ planner'.shown = planner.shown /\ planner'.msg = planner.msg
           /\ planner'.change = planner.change
           /\ planner.pc \in {"start", "invoke", "launch", "run", "ask", "menu"}
           /\ planner'.pc \in {"created", "launch", "run", "raise"}
           /\ planner'.pc = "created" <=> planner.pc = "start"
           /\ planner'.pc = "raise" /\ planner'.exception = "planning" => planner.pc = "ask"
  <1> USE DEF TypeOK, PlannerType
  <1>1. UNCHANGED << turns, proposals, approvals, index, console, cancelled, lock >>
    BY DEF Move, CreateRequest, ReserveCall, Launch, ObserveActivity, LeaveQuestion, LeaveMenu,
           stored, terminal
  <1>2. CASE CreateRequest
    BY <1>1, <1>2 DEF CreateRequest, Goto
  <1>3. CASE ReserveCall
    BY <1>1, <1>3 DEF ReserveCall, Goto, Raise
  <1>4. CASE Launch
    BY <1>1, <1>4 DEF Launch, Goto
  <1>5. CASE ObserveActivity
    BY <1>1, <1>5 DEF ObserveActivity
  <1>6. CASE LeaveQuestion
    BY <1>1, <1>6 DEF LeaveQuestion, Raise
  <1>7. CASE LeaveMenu
    BY <1>1, <1>7 DEF LeaveMenu, Raise
  <1>8. QED BY <1>2, <1>3, <1>4, <1>5, <1>6, <1>7 DEF Move

(* The steps that only change the status of the session. *)
Mark == CreateSession \/ DeclineQuestion \/ ChooseCancel

LEMMA MarkChangesStatus ==
    ASSUME TypeOK, Mark
    PROVE  /\ UNCHANGED << turns, proposals, approvals, console, cancelled, lock >>
           /\ PlannerType(planner')
           /\ planner'.shown = planner.shown /\ planner'.msg = planner.msg
           /\ planner'.change = planner.change
           /\ index' \in Index
           /\ index'.turns = index.turns /\ index'.latest = index.latest
           /\ index'.approved = index.approved
           /\ \/ /\ planner.pc = "created" /\ planner'.pc = "invoke"
                 /\ index'.status = "authorized"
              \/ /\ planner.pc \in {"ask", "menu"} /\ planner'.pc = "ended"
                 /\ index'.status = "cancelled"
  <1> USE DEF TypeOK, PlannerType
  <1>1. UNCHANGED << turns, proposals, approvals, console, cancelled, lock >>
    BY DEF Mark, CreateSession, DeclineQuestion, ChooseCancel, terminal
  <1>2. CASE CreateSession
    BY <1>1, <1>2 DEF CreateSession, Goto, Index, Status
  <1>3. CASE DeclineQuestion
    BY <1>1, <1>3 DEF DeclineQuestion, Goto, Cancelled, Index, Status, Terminal
  <1>4. CASE ChooseCancel
    BY <1>1, <1>4 DEF ChooseCancel, AtMenu, Goto, Cancelled, Index, Status, Terminal
  <1>5. QED BY <1>2, <1>3, <1>4 DEF Mark

(* The files and the session keep their types. *)
LEMMA TypeStep == ASSUME TypeOK, StatusFits, [Next]_vars PROVE TypeOK'
  <1> USE DEF TypeOK, PlannerType
  <1>0. planner.rounds + 1 \in Nat /\ planner.requests + 1 \in Nat /\ index.turns + 1 \in Nat
    BY DEF Index
  <1>1. CASE UNCHANGED vars
    BY <1>1 DEF vars
  <1>2. CASE Move
    BY <1>2, MoveWritesNothing
  <1>3. CASE Mark
    BY <1>3, MarkChangesStatus
  <1>4. CASE Return
    <2>1. PICK parsed, status, step :
            TurnOf(parsed, status, step) /\ WriteTurn(parsed, status, step)
      BY <1>4, ReturnWrites
    <2>2. turns' = Append(turns, [msg |-> planner.msg, parsed |-> parsed])
      BY <2>1 DEF WriteTurn
    <2>3. [msg |-> planner.msg, parsed |-> parsed] \in TurnFile
      BY <2>1 DEF TurnOf, TurnFile
    <2>4. turns' \in Seq(TurnFile)
      BY <2>2, <2>3, AppendProperties
    <2>5. QED BY <2>1, <2>4 DEF WriteTurn, Goto, terminal
  <1>5. CASE AnchorTurn
    <2>1. index' \in Index
      <3>1. planner.status \in Status
        BY <1>5 DEF AnchorTurn, StatusFits, Status, Terminal
      <3>2. index' = [index EXCEPT !.status = planner.status, !.turns = index.turns + 1]
        BY <1>5 DEF AnchorTurn
      <3>3. QED BY <1>0, <3>1, <3>2 DEF Index
    <2>2. planner'.step = planner'.step /\ planner' \in
            [pc : {planner'.pc}, mode : {"start", "revise"}, msg : Messages, change : Messages,
             rounds : Nat, requests : Nat, shown : Nat, claimed : BOOLEAN,
             exception : {planner'.exception}, status : {planner'.status}, step : {planner'.step}]
      BY <1>5 DEF AnchorTurn, Raise
    <2>3. QED BY <1>5, <2>1, <2>2 DEF AnchorTurn, terminal
  <1>6. CASE AnswerQuestion
    BY <1>0, <1>6 DEF AnswerQuestion, stored, terminal, Messages
  <1>7. CASE WriteProposal
    <2>1. ModelProposal \in ProposalFile
      BY DEF ModelProposal, ProposalFile
    <2>2. proposals' \in Seq(ProposalFile)
      BY <1>7, <2>1, AppendProperties DEF WriteProposal
    <2>3. QED BY <1>7, <2>2 DEF WriteProposal, Goto, terminal
  <1>8. CASE AnchorProposal
    <2>1. Len(proposals) \in Nat
      BY LenProperties
    <2>2. index' \in Index
      BY <1>8, <2>1 DEF AnchorProposal, Index, Status
    <2>3. QED BY <1>8, <2>1, <2>2 DEF AnchorProposal, Goto, terminal, Messages
  <1>9. CASE WriteApproval \/ AnchorApproval
    <2>1. index' \in Index
      BY <1>9 DEF WriteApproval, AnchorApproval, Index, Status, Terminal
    <2>2. planner' \in {Goto("anchorApproval"), Goto("ended")}
      BY <1>9 DEF WriteApproval, AnchorApproval
    <2>3. UNCHANGED << turns, proposals, console >>
      BY <1>9 DEF WriteApproval, AnchorApproval, terminal
    <2>4. QED BY <2>1, <2>2, <2>3 DEF Goto
  <1>10. CASE ChooseRevise
    <2>1. ChangeTexts[planner.requests + 1] \in Changes
      <3>1. planner.requests + 1 \in 1..Len(ChangeTexts)
        BY <1>10, PlanningAssumption, LenProperties DEF ChooseRevise, MayRevise
      <3>2. QED BY <3>1, PlanningAssumption, LenProperties DEF Changes
    <2>2. QED BY <1>0, <1>10, <2>1 DEF ChooseRevise, Goto, stored, terminal, Messages
  <1>11. CASE ChooseEdit
    <2>1. [source |-> "edit", turn |-> 0, change |-> "request"] \in ProposalFile
      BY DEF ProposalFile, Messages
    <2>2. proposals' \in Seq(ProposalFile)
      BY <1>11, <2>1, AppendProperties DEF ChooseEdit
    <2>3. QED BY <1>0, <1>11, <2>2 DEF ChooseEdit, Goto, terminal
  <1>12. CASE HandleError
    <2>1. index' \in Index
      BY <1>12 DEF HandleError, Index, Status, Terminal
    <2>2. planner' \in {Goto("unwind"), BackToMenu}
      BY <1>12 DEF HandleError
    <2>3. QED BY <1>12, <2>1, <2>2 DEF HandleError, Goto, BackToMenu, terminal, Messages
  <1>13. CASE Unwind
    BY <1>13 DEF Unwind, Goto, Cancelled, Index, Status, Terminal
  <1>14. CASE SubmitCancel \/ DecideCancel \/ StopCalls
    <2>1. console' \in [pc : {"idle", "loaded", "stop"}, index : {console'.index}]
      BY <1>14 DEF SubmitCancel, DecideCancel, StopCalls, Idle
    <2>2. planner' \in {planner, [planner EXCEPT !.claimed = TRUE]} /\ UNCHANGED stored
      BY <1>14 DEF SubmitCancel, DecideCancel, StopCalls
    <2>3. QED BY <2>1, <2>2 DEF stored
  <1>15. QED
    BY <1>1, <1>2, <1>3, <1>4, <1>5, <1>6, <1>7, <1>8, <1>9, <1>10, <1>11, <1>12, <1>13, <1>14
    DEF Next, Dialogue, Console, User, Return, Move, Mark

(* Every append is anchored before the next one. *)
LEMMA OneFileAheadStep ==
    ASSUME TypeOK, OneFileAhead, StatusFits, [Next]_vars PROVE OneFileAhead'
  <1> USE DEF OneFileAhead
  <1>0. /\ Len(turns) \in Nat /\ Len(proposals) \in Nat
        /\ index.turns \in Nat /\ index.latest \in Nat
    BY LenProperties DEF TypeOK, Index
  <1>1. CASE UNCHANGED vars
    BY <1>1 DEF vars
  <1>2. CASE Move
    BY <1>2, MoveWritesNothing
  <1>3. CASE Mark
    BY <1>3, MarkChangesStatus
  <1>4. CASE Return
    <2>1. planner.pc = "run"
      BY <1>4, ReturnWrites
    <2>2. PICK parsed, status, step : WriteTurn(parsed, status, step)
      BY <1>4, ReturnWrites
    <2>3. Len(turns') = Len(turns) + 1
      BY <2>2, AppendProperties DEF WriteTurn, TypeOK
    <2>4. planner'.pc = "anchorTurn" /\ planner'.shown = planner.shown
      BY <2>2 DEF WriteTurn, Goto, TypeOK
    <2>5. UNCHANGED << proposals, index >>
      BY <2>2 DEF WriteTurn
    <2>6. QED BY <1>0, <2>1, <2>3, <2>4, <2>5
  <1>5. CASE AnchorTurn
    <2>1. /\ index'.turns = index.turns + 1 /\ index'.latest = index.latest
          /\ index'.status = planner.status
      BY <1>5 DEF AnchorTurn, TypeOK, Index
    <2>2. /\ planner'.pc \in {"invoke", "ask", "propose", "raise"}
          /\ planner'.shown = planner.shown
      BY <1>5 DEF AnchorTurn, Raise, TypeOK
    <2>3. UNCHANGED << turns, proposals >> /\ planner.pc = "anchorTurn"
      BY <1>5 DEF AnchorTurn
    <2>4. QED BY <1>0, <2>1, <2>2, <2>3 DEF StatusFits
  <1>6. CASE AnswerQuestion
    BY <1>6 DEF AnswerQuestion, stored, terminal, TypeOK
  <1>7. CASE WriteProposal
    <2>1. Len(proposals') = Len(proposals) + 1
      <3>1. ModelProposal \in ProposalFile
        BY DEF ModelProposal, ProposalFile, TypeOK
      <3>2. QED BY <1>7, <3>1, AppendProperties DEF WriteProposal, TypeOK
    <2>2. QED BY <1>0, <1>7, <2>1 DEF WriteProposal, Goto, TypeOK
  <1>8. CASE AnchorProposal
    <2>1. /\ index'.turns = index.turns /\ index'.latest = Len(proposals)
          /\ index'.status = "proposed"
      BY <1>8 DEF AnchorProposal, TypeOK, Index
    <2>2. planner'.pc = "menu" /\ planner'.shown = Len(proposals)
      BY <1>8 DEF AnchorProposal, Goto, TypeOK
    <2>3. QED BY <1>0, <1>8, <2>1, <2>2 DEF AnchorProposal
  <1>9. CASE WriteApproval \/ AnchorApproval
    <2>1. /\ index'.turns = index.turns /\ index'.latest = index.latest
          /\ index'.status \in {index.status, "approved"}
      BY <1>9 DEF WriteApproval, AnchorApproval, TypeOK, Index
    <2>2. /\ planner.pc \in {"menu", "anchorApproval"}
          /\ planner'.pc \in {"anchorApproval", "ended"} /\ planner'.shown = planner.shown
      BY <1>9 DEF WriteApproval, AnchorApproval, AtMenu, Goto, TypeOK
    <2>3. UNCHANGED << turns, proposals >>
      BY <1>9 DEF WriteApproval, AnchorApproval
    <2>4. QED BY <1>0, <2>1, <2>2, <2>3
  <1>10. CASE ChooseRevise
    BY <1>10 DEF ChooseRevise, MayRevise, AtMenu, Goto, stored, TypeOK
  <1>11. CASE ChooseEdit
    <2>1. Len(proposals') = Len(proposals) + 1
      <3>1. [source |-> "edit", turn |-> 0, change |-> "request"] \in ProposalFile
        BY DEF ProposalFile, Messages
      <3>2. QED BY <1>11, <3>1, AppendProperties DEF ChooseEdit, TypeOK
    <2>2. QED BY <1>0, <1>11, <2>1 DEF ChooseEdit, MayRevise, AtMenu, Goto, TypeOK
  <1>12. CASE HandleError
    <2>1. /\ index'.turns = index.turns /\ index'.latest = index.latest
          /\ index'.status \in {index.status, "failed", "proposed"}
          /\ index'.status # index.status => index'.status # "absent" /\ index.status # "absent"
      BY <1>12 DEF HandleError, TypeOK, Index
    <2>2. planner'.pc \in {"unwind", "menu"} /\ planner'.shown = planner.shown
      BY <1>12 DEF HandleError, Goto, BackToMenu, TypeOK
    <2>3. QED BY <1>12, <2>1, <2>2 DEF HandleError
  <1>13. CASE Unwind
    BY <1>13 DEF Unwind, Goto, Cancelled, TypeOK, Index
  <1>14. CASE SubmitCancel \/ DecideCancel \/ StopCalls
    BY <1>14 DEF SubmitCancel, DecideCancel, StopCalls, stored, TypeOK
  <1>15. QED
    BY <1>1, <1>2, <1>3, <1>4, <1>5, <1>6, <1>7, <1>8, <1>9, <1>10, <1>11, <1>12, <1>13, <1>14
    DEF Next, Dialogue, Console, User, Return, Move, Mark

(* The lock orders a cancellation and an approval.                            *)
LEMMA OneApprovalStep ==
    ASSUME TypeOK, OneFileAhead, StatusFits, OneApproval, [Next]_vars PROVE OneApproval'
  <1> USE DEF OneApproval
  <1>1. CASE UNCHANGED vars
    BY <1>1 DEF vars
  <1>2. CASE Move
    BY <1>2, MoveWritesNothing
  <1>3. CASE Mark
    BY <1>3, MarkChangesStatus
  <1>4. CASE Return
    <2>1. planner.pc = "run"
      BY <1>4, ReturnWrites
    <2>2. PICK parsed, status, step : WriteTurn(parsed, status, step)
      BY <1>4, ReturnWrites
    <2>3. planner'.pc = "anchorTurn" /\ UNCHANGED << approvals, index, console, cancelled, lock >>
      BY <2>2 DEF WriteTurn, Goto, TypeOK, terminal
    <2>4. QED BY <2>1, <2>3
  <1>5. CASE AnchorTurn
    <2>1. /\ index'.approved = index.approved /\ index'.status = planner.status
          /\ planner.status \in {"clarifying", "failed", "cancelled"}
      BY <1>5 DEF AnchorTurn, StatusFits, TypeOK, Index
    <2>2. planner'.pc \in {"invoke", "ask", "propose", "raise"}
      BY <1>5 DEF AnchorTurn, Raise, TypeOK
    <2>3. UNCHANGED << approvals, console, cancelled, lock >> /\ planner.pc = "anchorTurn"
      BY <1>5 DEF AnchorTurn, terminal
    <2>4. QED BY <2>1, <2>2, <2>3
  <1>6. CASE AnswerQuestion
    BY <1>6 DEF AnswerQuestion, stored, terminal, TypeOK
  <1>7. CASE WriteProposal \/ ChooseEdit \/ ChooseRevise
    <2>1. planner'.pc \in {"anchorProposal", "invoke"} /\ planner.pc \in {"propose", "menu"}
          /\ planner'.shown = planner.shown
      BY <1>7 DEF WriteProposal, ChooseEdit, ChooseRevise, MayRevise, AtMenu, Goto, TypeOK
    <2>2. UNCHANGED << approvals, index, console, cancelled, lock >>
      BY <1>7 DEF WriteProposal, ChooseEdit, ChooseRevise, stored, terminal
    <2>3. QED BY <2>1, <2>2
  <1>8. CASE AnchorProposal
    BY <1>8 DEF AnchorProposal, Goto, terminal, TypeOK, Index
  <1>9. CASE WriteApproval
    BY <1>9 DEF WriteApproval, AtMenu, Goto, terminal, TypeOK
  <1>10. CASE AnchorApproval
    <2>1. index'.status = "approved" /\ index'.approved = planner.shown
      BY <1>10 DEF AnchorApproval, TypeOK, Index
    <2>2. planner'.pc = "ended" /\ planner'.shown = planner.shown
      BY <1>10 DEF AnchorApproval, Goto, TypeOK
    <2>3. QED BY <1>10, <2>1, <2>2 DEF AnchorApproval, terminal
  <1>11. CASE HandleError
    <2>1. /\ index'.approved = index.approved
          /\ index'.status # "approved" \/ index'.status = index.status
      BY <1>11 DEF HandleError, TypeOK, Index
    <2>2. planner.pc = "raise" /\ planner'.pc \in {"unwind", "menu"}
      BY <1>11 DEF HandleError, Goto, BackToMenu, TypeOK
    <2>3. QED BY <1>11, <2>1, <2>2 DEF HandleError, terminal
  <1>12. CASE Unwind
    <2>1. /\ index'.approved = index.approved
          /\ index'.status = "cancelled" \/ index'.status = index.status
      BY <1>12 DEF Unwind, Cancelled, TypeOK, Index
    <2>2. planner.pc = "unwind" /\ planner'.pc = "ended"
      BY <1>12 DEF Unwind, Goto, TypeOK
    <2>3. QED BY <1>12, <2>1, <2>2 DEF Unwind
  <1>13. CASE SubmitCancel
    BY <1>13 DEF SubmitCancel, stored, TypeOK
  <1>14. CASE DecideCancel
    BY <1>14 DEF DecideCancel, Idle, stored, TypeOK
  <1>15. CASE StopCalls
    BY <1>15 DEF StopCalls, Idle, stored, TypeOK
  <1>16. QED
    BY <1>1, <1>2, <1>3, <1>4, <1>5, <1>6, <1>7, <1>8, <1>9, <1>10, <1>11, <1>12, <1>13, <1>14,
       <1>15
    DEF Next, Dialogue, Console, User, Return, Move, Mark

(* The status follows the dialogue, a failed revision included.               *)
LEMMA StatusFitsStep ==
    ASSUME TypeOK, OneApproval, StatusFits, [Next]_vars PROVE StatusFits'
  <1> USE DEF StatusFits
  <1>1. CASE UNCHANGED vars
    BY <1>1 DEF vars
  <1>2. CASE Move
    BY <1>2, MoveWritesNothing
  <1>3. CASE Mark
    BY <1>3, MarkChangesStatus
  <1>4. CASE Return
    <2>1. PICK parsed, status, step :
            TurnOf(parsed, status, step) /\ WriteTurn(parsed, status, step)
      BY <1>4, ReturnWrites
    <2>2. /\ turns' = Append(turns, [msg |-> planner.msg, parsed |-> parsed])
          /\ planner'.pc = "anchorTurn" /\ planner'.status = status /\ planner'.step = step
      BY <2>1 DEF WriteTurn, Goto, TypeOK
    <2>3. turns'[Len(turns')].parsed = parsed
      <3>1. [msg |-> planner.msg, parsed |-> parsed] \in TurnFile
        BY <2>1 DEF TurnOf, TurnFile, TypeOK
      <3>2. turns'[Len(turns')] = [msg |-> planner.msg, parsed |-> parsed]
        BY <2>2, <3>1, AppendProperties DEF TypeOK
      <3>3. QED BY <3>2
    <2>4. QED BY <2>1, <2>2, <2>3 DEF TurnOf
  <1>5. CASE AnchorTurn
    <2>1. index'.status = planner.status /\ UNCHANGED turns /\ planner.pc = "anchorTurn"
      BY <1>5 DEF AnchorTurn, TypeOK, Index
    <2>2. /\ planner'.pc \in {"invoke", "ask", "propose", "raise"}
          /\ planner'.pc = "ask" => planner.step.go = "question"
          /\ planner'.pc = "propose" => planner.step.go = "proposal"
          /\ planner'.pc = "raise" /\ planner'.exception = "planning" => planner.step.go = "error"
      BY <1>5 DEF AnchorTurn, Raise, TypeOK
    <2>3. QED BY <2>1, <2>2
  <1>6. CASE AnswerQuestion
    BY <1>6 DEF AnswerQuestion, stored, terminal, TypeOK
  <1>7. CASE WriteProposal \/ ChooseEdit \/ ChooseRevise
    <2>1. planner'.pc \in {"anchorProposal", "invoke"}
      BY <1>7 DEF WriteProposal, ChooseEdit, ChooseRevise, Goto, TypeOK
    <2>2. QED BY <2>1
  <1>8. CASE AnchorProposal
    BY <1>8 DEF AnchorProposal, Goto, TypeOK, Index
  <1>14. CASE WriteApproval \/ AnchorApproval
    <2>1. planner'.pc \in {"anchorApproval", "ended"}
      BY <1>14 DEF WriteApproval, AnchorApproval, Goto, TypeOK
    <2>2. QED BY <2>1
  <1>9. CASE HandleError
    <2>1. planner'.pc \in {"unwind", "menu"}
      BY <1>9 DEF HandleError, Goto, BackToMenu, TypeOK
    <2>2. planner'.pc = "menu" => planner.exception = "planning" /\ index.status = "clarifying"
      BY <1>9 DEF HandleError, Goto, BackToMenu, TypeOK
    <2>3. planner'.pc = "menu" => index'.status = "proposed"
      <3>1. HAVE planner'.pc = "menu"
      <3>2. index.status = "clarifying" /\ planner.mode = "revise" /\ planner.exception = "planning"
        BY <1>9, <2>2, <3>1 DEF HandleError, Goto, TypeOK
      <3>3. QED BY <1>9, <3>2 DEF HandleError, TypeOK, Index
    <2>4. QED BY <2>1, <2>3
  <1>10. CASE Unwind
    BY <1>10 DEF Unwind, Goto, TypeOK
  <1>11. CASE SubmitCancel \/ DecideCancel
    BY <1>11 DEF SubmitCancel, DecideCancel, stored
  <1>12. CASE StopCalls
    BY <1>12 DEF StopCalls, stored, TypeOK
  <1>13. QED
    BY <1>1, <1>2, <1>3, <1>4, <1>5, <1>6, <1>7, <1>8, <1>9, <1>10, <1>11, <1>12, <1>14
    DEF Next, Dialogue, Console, User, Return, Move, Mark

-----------------------------------------------------------------------------
(* The history *)

(* A message already heard stays heard, and what was readable stays readable,  *)
(* while no file is appended.                                                  *)
LEMMA HistoryKept ==
    ASSUME UNCHANGED << turns, proposals >>
    PROVE  /\ HistoryReadable => HistoryReadable'
           /\ \A text : Heard(text) => Heard(text)'
  BY DEF HistoryReadable, Heard, ModelProposals

(* A turn is appended: the messages heard stay heard, and its own is now.      *)
LEMMA TurnAppended ==
    ASSUME TypeOK, HistoryReadable, NEW file \in TurnFile, turns' = Append(turns, file),
           UNCHANGED proposals
    PROVE  /\ HistoryReadable'
           /\ \A text : Heard(text) \/ file.msg = text => Heard(text)'
  <1>1. /\ Len(turns) \in Nat /\ DOMAIN turns = 1..Len(turns)
        /\ DOMAIN turns' = 1..(Len(turns) + 1)
        /\ \A t \in DOMAIN turns : turns'[t] = turns[t]
        /\ turns'[Len(turns) + 1] = file
    BY AppendProperties, LenProperties DEF TypeOK
  <1>2. ModelProposals' = ModelProposals
    BY DEF ModelProposals
  <1>3. HistoryReadable'
    <2> SUFFICES ASSUME NEW r \in ModelProposals
                 PROVE  /\ proposals[r].turn \in DOMAIN turns'
                        /\ \A q \in ModelProposals : q < r => proposals[q].turn < proposals[r].turn
                        /\ turns'[proposals[r].turn].parsed = "proposal"
                        /\ proposals[r].change \in Changes =>
                              \E t \in 1..proposals[r].turn :
                                 /\ turns'[t].msg = proposals[r].change
                                 /\ \A q \in ModelProposals : q < r => proposals[q].turn < t
      BY <1>2 DEF HistoryReadable
    <2>1. /\ proposals[r].turn \in DOMAIN turns
          /\ \A q \in ModelProposals : q < r => proposals[q].turn < proposals[r].turn
          /\ turns[proposals[r].turn].parsed = "proposal"
          /\ proposals[r].change \in Changes =>
                \E t \in 1..proposals[r].turn :
                   /\ turns[t].msg = proposals[r].change
                   /\ \A q \in ModelProposals : q < r => proposals[q].turn < t
      BY DEF HistoryReadable
    <2>2. 1..proposals[r].turn \subseteq DOMAIN turns
      BY <1>1, <2>1
    <2>3. QED BY <1>1, <2>1, <2>2
  <1>4. ASSUME NEW text, Heard(text) PROVE Heard(text)'
    BY <1>1, <1>2, <1>4 DEF Heard
  <1>5. Heard(file.msg)'
    <2>1. \A q \in ModelProposals : proposals[q].turn < Len(turns) + 1
      BY <1>1 DEF HistoryReadable
    <2>2. QED BY <1>1, <1>2, <2>1 DEF Heard
  <1>6. QED BY <1>3, <1>4, <1>5

(* A proposal is appended: of a model, when its turn is the last and the       *)
(* change has been heard; of an edit, always.                                  *)
LEMMA ProposalAppended ==
    ASSUME TypeOK, HistoryReadable, NEW file \in ProposalFile,
           proposals' = Append(proposals, file), UNCHANGED turns,
           file.source = "model" =>
              /\ file.turn = Len(turns) /\ turns[Len(turns)].parsed = "proposal"
              /\ Heard(file.change)
    PROVE  HistoryReadable'
  <1> DEFINE last == Len(proposals) + 1
  <1>1. /\ Len(proposals) \in Nat /\ DOMAIN proposals = 1..Len(proposals)
        /\ DOMAIN proposals' = 1..last
        /\ \A q \in DOMAIN proposals : proposals'[q] = proposals[q]
        /\ proposals'[last] = file
    BY AppendProperties, LenProperties DEF TypeOK
  <1>2. /\ ModelProposals \subseteq DOMAIN proposals
        /\ ModelProposals' \subseteq ModelProposals \cup {last}
        /\ ModelProposals \subseteq ModelProposals'
        /\ last \in ModelProposals' => file.source = "model"
    BY <1>1 DEF ModelProposals
  <1>3. SUFFICES ASSUME NEW r \in ModelProposals'
                 PROVE  /\ proposals'[r].turn \in DOMAIN turns
                        /\ \A q \in ModelProposals' : q < r => proposals'[q].turn < proposals'[r].turn
                        /\ turns[proposals'[r].turn].parsed = "proposal"
                        /\ proposals'[r].change \in Changes =>
                              \E t \in 1..proposals'[r].turn :
                                 /\ turns[t].msg = proposals'[r].change
                                 /\ \A q \in ModelProposals' : q < r => proposals'[q].turn < t
    BY DEF HistoryReadable
  <1>4. CASE r \in ModelProposals
    <2>1. \A q \in ModelProposals' : q < r => q \in ModelProposals /\ proposals'[q] = proposals[q]
      BY <1>1, <1>2, <1>4
    <2>2. proposals'[r] = proposals[r]
      BY <1>1, <1>2, <1>4
    <2>3. QED BY <1>4, <2>1, <2>2 DEF HistoryReadable
  <1>5. CASE r = last
    <2>1. file.turn = Len(turns) /\ turns[Len(turns)].parsed = "proposal" /\ proposals'[r] = file
      BY <1>1, <1>2, <1>5
    <2>2. PICK t \in DOMAIN turns :
             turns[t].msg = file.change /\ \A q \in ModelProposals : proposals[q].turn < t
      BY <1>2, <1>5 DEF Heard
    <2>3. Len(turns) \in Nat /\ DOMAIN turns = 1..Len(turns)
      BY LenProperties DEF TypeOK
    <2>4. \A q \in ModelProposals' : q < r => q \in ModelProposals /\ proposals'[q] = proposals[q]
      BY <1>1, <1>2, <1>5
    <2>5. \A q \in ModelProposals : proposals[q].turn \in DOMAIN turns
      BY DEF HistoryReadable
    <2>6. \A q \in ModelProposals : proposals[q].turn < Len(turns)
      BY <2>2, <2>3, <2>5
    <2>7. Len(turns) \in DOMAIN turns /\ t \in 1..Len(turns)
      BY <2>2, <2>3
    <2>8. QED BY <2>1, <2>2, <2>4, <2>6, <2>7
  <1>6. QED BY <1>2, <1>4, <1>5

(* Every proposal a model gives has the change it answers on record before it. *)
LEMMA ChangeOnRecordStep ==
    ASSUME TypeOK, StatusFits, ChangeOnRecord, [Next]_vars PROVE ChangeOnRecord'
  <1> USE DEF ChangeOnRecord
  <1>1. CASE UNCHANGED vars
    BY <1>1, HistoryKept DEF vars
  <1>2. CASE Move
    <2>1. UNCHANGED << turns, proposals >> /\ planner'.pc \in {"created", "launch", "run", "raise"}
      BY <1>2, MoveWritesNothing
    <2>2. planner'.msg = planner.msg /\ planner'.change = planner.change
          /\ planner.pc # "anchorProposal"
      BY <1>2, MoveWritesNothing
    <2>3. QED BY <2>1, <2>2, HistoryKept
  <1>3. CASE Mark
    <2>1. UNCHANGED << turns, proposals >> /\ planner'.pc \in {"invoke", "ended"}
      BY <1>3, MarkChangesStatus
    <2>2. planner'.msg = planner.msg /\ planner'.change = planner.change
          /\ planner.pc # "anchorProposal"
      BY <1>3, MarkChangesStatus
    <2>3. QED BY <2>1, <2>2, HistoryKept
  <1>15. CASE WriteApproval \/ AnchorApproval
    <2>1. /\ planner'.msg = planner.msg /\ planner'.change = planner.change
          /\ planner'.pc \in {"anchorApproval", "ended"}
          /\ planner.pc \in {"menu", "anchorApproval"}
      BY <1>15 DEF WriteApproval, AnchorApproval, AtMenu, Goto, TypeOK
    <2>2. UNCHANGED << turns, proposals >>
      BY <1>15 DEF WriteApproval, AnchorApproval
    <2>3. QED BY <2>1, <2>2, HistoryKept
  <1>4. CASE Return
    <2>1. planner.pc = "run"
      BY <1>4, ReturnWrites
    <2>2. PICK parsed, status, step :
            TurnOf(parsed, status, step) /\ WriteTurn(parsed, status, step)
      BY <1>4, ReturnWrites
    <2> DEFINE file == [msg |-> planner.msg, parsed |-> parsed]
    <2>3. file \in TurnFile /\ file.msg = planner.msg
      BY <2>2 DEF TurnOf, TurnFile, TypeOK
    <2>4. turns' = Append(turns, file) /\ UNCHANGED proposals
      BY <2>2 DEF WriteTurn
    <2>5. planner'.pc = "anchorTurn" /\ planner'.change = planner.change
      BY <2>2 DEF WriteTurn, Goto, TypeOK
    <2>6. /\ HistoryReadable'
          /\ \A text : Heard(text) \/ file.msg = text => Heard(text)'
      <3> HIDE DEF file
      <3>1. QED BY <2>3, <2>4, TurnAppended
    <2>7. QED BY <2>1, <2>3, <2>5, <2>6
  <1>5. CASE AnchorTurn
    <2>1. planner'.change = planner.change /\ planner.pc = "anchorTurn"
      BY <1>5 DEF AnchorTurn, Raise, TypeOK
    <2>2. UNCHANGED << turns, proposals >>
      BY <1>5 DEF AnchorTurn
    <2>3. QED BY <2>1, <2>2, HistoryKept
  <1>6. CASE AnswerQuestion \/ ChooseRevise
    <2>1. /\ planner'.pc = "invoke"
          /\ \/ planner'.msg = planner'.change
             \/ planner'.change = planner.change /\ planner.pc = "ask"
      <3>1. CASE AnswerQuestion
        BY <3>1 DEF AnswerQuestion, TypeOK
      <3>2. CASE ChooseRevise
        BY <3>2 DEF ChooseRevise, Goto, TypeOK
      <3>3. QED BY <1>6, <3>1, <3>2
    <2>2. UNCHANGED << turns, proposals >>
      BY <1>6 DEF AnswerQuestion, ChooseRevise, stored
    <2>3. QED BY <2>1, <2>2, HistoryKept
  <1>7. CASE WriteProposal
    <2>1. ModelProposal \in ProposalFile
      BY LenProperties DEF ModelProposal, ProposalFile, TypeOK
    <2>2. /\ ModelProposal.turn = Len(turns) /\ ModelProposal.change = planner.change
          /\ planner.pc = "propose"
      BY <1>7 DEF ModelProposal, WriteProposal
    <2>3. HistoryReadable'
      BY <1>7, <2>1, <2>2, ProposalAppended DEF WriteProposal, StatusFits
    <2>4. planner'.pc = "anchorProposal"
      BY <1>7 DEF WriteProposal, Goto, TypeOK
    <2>5. QED BY <2>3, <2>4
  <1>8. CASE ChooseEdit
    <2> DEFINE file == [source |-> "edit", turn |-> 0, change |-> "request"]
    <2>1. file \in ProposalFile /\ file.source # "model"
      BY DEF ProposalFile, Messages
    <2>2. proposals' = Append(proposals, file) /\ UNCHANGED turns
      BY <1>8 DEF ChooseEdit
    <2>3. HistoryReadable'
      <3> HIDE DEF file
      <3>1. QED BY <2>1, <2>2, ProposalAppended
    <2>4. planner'.pc = "anchorProposal"
      BY <1>8 DEF ChooseEdit, Goto, TypeOK
    <2>5. QED BY <2>3, <2>4
  <1>9. CASE AnchorProposal
    BY <1>9, HistoryKept DEF AnchorProposal, Goto, TypeOK
  <1>10. CASE HandleError
    <2>1. planner' \in {Goto("unwind"), BackToMenu} /\ planner.pc = "raise"
      BY <1>10 DEF HandleError
    <2>2. /\ planner'.pc \in {"unwind", "menu"}
          /\ \/ planner'.msg = planner'.change
             \/ planner'.change = planner.change /\ planner'.msg = planner.msg
      <3>1. CASE planner' = Goto("unwind")
        BY <3>1 DEF Goto, TypeOK
      <3>2. CASE planner' = BackToMenu
        BY <3>2 DEF BackToMenu, TypeOK
      <3>3. QED BY <2>1, <3>1, <3>2
    <2>3. UNCHANGED << turns, proposals >>
      BY <1>10 DEF HandleError
    <2>4. QED BY <2>1, <2>2, <2>3, HistoryKept
  <1>11. CASE Unwind
    BY <1>11, HistoryKept DEF Unwind, Goto, TypeOK
  <1>12. CASE SubmitCancel \/ DecideCancel
    BY <1>12, HistoryKept DEF SubmitCancel, DecideCancel, stored
  <1>13. CASE StopCalls
    BY <1>13, HistoryKept DEF StopCalls, stored, TypeOK
  <1>14. QED
    BY <1>1, <1>2, <1>3, <1>4, <1>5, <1>6, <1>7, <1>8, <1>9, <1>10, <1>11, <1>12, <1>13, <1>15
    DEF Next, Dialogue, Console, User, Return, Move, Mark

-----------------------------------------------------------------------------
(* The theorems *)

LEMMA StepInv == IInv /\ [Next]_vars => IInv'
  BY TypeStep, OneFileAheadStep, OneApprovalStep, StatusFitsStep, ChangeOnRecordStep DEF IInv

(* The menu offers the latest proposal and the session it can approve; what is *)
(* approved is what it showed, nothing else was approved before, and no        *)
(* cancellation had been accepted (PlanningCoordinator.approve, submit).       *)
THEOREM ApprovedAsShown == Spec => []ApprovalIsWhatWasShown
  <1>1. IInv => ApprovalIsWhatWasShown
    BY DEF IInv, OneFileAhead, OneApproval, StatusFits, ApprovalIsWhatWasShown
  <1>2. QED BY <1>1, InitInv, StepInv, PTL DEF Spec

(* Wherever the coordinator loads its session the files are those the index    *)
(* anchors, and the user's change requests can be recovered from the turns     *)
(* between the proposals (load_session, load_user_revision_inputs).            *)
THEOREM SessionLoads == Spec => []EvidenceReadable
  <1>1. IInv => EvidenceReadable
    <2> SUFFICES ASSUME IInv, planner.pc \in {"invoke", "propose", "menu", "raise", "unwind"}
                 PROVE  Anchored(index) /\ HistoryReadable
      BY DEF EvidenceReadable
    <2>1. index.turns \in Nat /\ index.latest \in Nat
      BY DEF IInv, TypeOK, Index
    <2>2. Len(turns) = index.turns /\ Len(proposals) = index.latest /\ index.status # "absent"
      BY <2>1 DEF IInv, OneFileAhead
    <2>3. approvals = {} /\ index.approved = 0
      BY DEF IInv, OneApproval
    <2>4. QED BY <2>2, <2>3 DEF IInv, ChangeOnRecord, Anchored
  <1>2. QED BY <1>1, InitInv, StepInv, PTL DEF Spec

-----------------------------------------------------------------------------
(***************************************************************************)
(* Who decided what: PlanningDecisions.  An answer stands because three    *)
(* checks meet: a question is resolved once, what resolves it has the      *)
(* category and identity of the last revision, and a dimension that cites  *)
(* it keeps its value.  So the contracts of a dialogue have to be the      *)
(* questions answered so far, which is what the inductive invariant says.  *)
(***************************************************************************)

(* What AnswersStand says of one answered question. *)
Stands(e) ==
    LET q == e.question.id
        cited == {d \in Dimensions : /\ current.dims[d].disposition = "resolved_question"
                                     /\ current.dims[d].source = {q}}
    IN  /\ \E dec \in current.decisions :
              /\ Resolving(current, q) = {dec}
              /\ dec.category = e.question.category /\ dec.id = bound[q]
              /\ e.decision # NoId => dec.id = e.decision
        /\ \A d \in cited :
              /\ d \in e.question.dims
              /\ IF d \in DOMAIN e.answer.values THEN current.dims[d].value = e.answer.values[d]
                 ELSE current.dims[d].value \subseteq e.answer.text

(* What NothingInvented says of the current proposal. *)
Attributed ==
    LET answered(t) == \E e \in said : t = {e.question.id}
    IN  /\ \A dec \in current.decisions : Authority(dec.category) = "user" =>
              \/ /\ dec.kind = "explicit_input" /\ Quoted(dec.source, inputs)
                 /\ dec.summary \subseteq dec.source
              \/ dec.kind = "resolved_question" /\ answered(dec.source)
        /\ \A d \in UserOwned : LET item == current.dims[d] IN
              \/ item.disposition = "explicit_input" /\ Quoted(item.source, inputs)
              \/ item.disposition = "resolved_question" /\ answered(item.source)
              \/ /\ d = "target_users" /\ item.disposition = "not_material"
                 /\ current.dims["delivery_maturity"].value = {"prototype"}

(* The questions the current proposal cites are those that were answered, and
   each of them was accepted under an identity. *)
OnlyAnswered ==
    /\ \A dec \in current.decisions : Resolved(dec) # NoText => \E e \in said : Resolved(dec) = {e.question.id}
    /\ DOMAIN bound = QuestionIds(said)
    /\ \A e \in said : bound[e.question.id] # NoId

(* A question is asked once: in this dialogue, or before it. *)
AskedOnce ==
    /\ \A e \in transcript : e.question.id \notin QuestionIds(said)
    /\ \A e, o \in transcript : e.question.id = o.question.id => e = o

(* The inductive invariant. *)
DInv ==
    /\ \A e \in said : Stands(e)
    /\ OnlyAnswered /\ AskedOnce
    /\ revision \in Nat
    /\ revision > 0 => Attributed
    /\ phase = "proposed" => revision > 0

LEMMA NameOf == ASSUME NEW q PROVE (CHOOSE x \in {q} : TRUE) = q
  OBVIOUS

LEMMA UserOwnedNames == UserOwned = {"target_users", "primary_workflow", "delivery_maturity"}
<1>1. DOMAIN UserDimensions = {1, 2, 3}
  BY DEF UserDimensions
<1>2. /\ UserDimensions[1] = "target_users" /\ UserDimensions[2] = "primary_workflow"
      /\ UserDimensions[3] = "delivery_maturity"
  BY DEF UserDimensions
<1>3. QED BY <1>1, <1>2 DEF UserOwned

(* The decision that resolves a question answered before. *)
LEMMA ApprovedDecision ==
    ASSUME DInv, NEW e \in said
    PROVE  \E dec \in current.decisions :
              /\ Resolving(current, e.question.id) = {dec} /\ Resolved(dec) = {e.question.id}
              /\ dec.category = e.question.category /\ dec.id = bound[e.question.id] /\ dec.id # NoId
              /\ e.decision # NoId => dec.id = e.decision
<1>1. PICK dec \in current.decisions :
              /\ Resolving(current, e.question.id) = {dec}
              /\ dec.category = e.question.category /\ dec.id = bound[e.question.id]
              /\ e.decision # NoId => dec.id = e.decision
  BY DEF DInv, Stands
<1>2. Resolved(dec) = {e.question.id}
  BY <1>1 DEF Resolving
<1>3. dec.id # NoId
  BY <1>1 DEF DInv, OnlyAnswered
<1>4. QED BY <1>1, <1>2, <1>3

(* The contracts are the questions answered before and in this dialogue. *)
LEMMA ContractsKnown ==
    ASSUME DInv
    PROVE  /\ DOMAIN QuestionContracts = QuestionIds(said) \cup QuestionIds(transcript)
           /\ \A e \in said : \E dec \in current.decisions :
                 /\ Resolving(current, e.question.id) = {dec} /\ Resolved(dec) = {e.question.id}
                 /\ dec.category = e.question.category /\ dec.id = bound[e.question.id] /\ dec.id # NoId
                 /\ e.decision # NoId => dec.id = e.decision
                 /\ QuestionContracts[e.question.id] = ApprovedContract(current, dec)
           /\ \A e \in transcript : QuestionContracts[e.question.id] = AnswerContract(e)
<1> DEFINE linked == {dec \in current.decisions : Resolved(dec) # NoText}
           name(t) == CHOOSE q \in t : TRUE
           approved == {name(Resolved(dec)) : dec \in linked}
           value(q) == IF q \in approved THEN ApprovedContract(current, CHOOSE dec \in linked : name(Resolved(dec)) = q)
                       ELSE AnswerContract(CHOOSE e \in transcript : e.question.id = q)
<1>1. QuestionContracts = [q \in approved \cup QuestionIds(transcript) |-> value(q)]
  BY DEF QuestionContracts
<1>2. \A dec \in linked : \E e \in said : Resolved(dec) = {e.question.id} /\ name(Resolved(dec)) = e.question.id
  <2>1. SUFFICES ASSUME NEW dec \in linked
                 PROVE  \E e \in said : Resolved(dec) = {e.question.id} /\ name(Resolved(dec)) = e.question.id
    OBVIOUS
  <2>2. PICK e \in said : Resolved(dec) = {e.question.id}
    BY DEF DInv, OnlyAnswered
  <2>3. QED BY <2>2, NameOf
<1>3. approved = QuestionIds(said)
  <2>1. approved \subseteq QuestionIds(said)
    BY <1>2 DEF QuestionIds
  <2>2. SUFFICES ASSUME NEW e \in said PROVE e.question.id \in approved
    BY <2>1 DEF QuestionIds
  <2>3. PICK dec \in current.decisions : Resolved(dec) = {e.question.id}
    BY ApprovedDecision
  <2>4. dec \in linked
    BY <2>3 DEF NoText
  <2>5. name(Resolved(dec)) = e.question.id
    BY <2>3, NameOf
  <2>6. QED BY <2>4, <2>5
<1>4. DOMAIN QuestionContracts = QuestionIds(said) \cup QuestionIds(transcript)
  BY <1>1, <1>3
<1>5. \A q \in QuestionIds(said) \cup QuestionIds(transcript) : QuestionContracts[q] = value(q)
  BY <1>1, <1>3
<1> HIDE DEF value
<1>6. ASSUME NEW e \in said
      PROVE  \E dec \in current.decisions :
                 /\ Resolving(current, e.question.id) = {dec} /\ Resolved(dec) = {e.question.id}
                 /\ dec.category = e.question.category /\ dec.id = bound[e.question.id] /\ dec.id # NoId
                 /\ e.decision # NoId => dec.id = e.decision
                 /\ QuestionContracts[e.question.id] = ApprovedContract(current, dec)
  <2> DEFINE q == e.question.id
  <2>1. PICK dec \in current.decisions :
              /\ Resolving(current, e.question.id) = {dec} /\ Resolved(dec) = {e.question.id}
              /\ dec.category = e.question.category /\ dec.id = bound[e.question.id] /\ dec.id # NoId
              /\ e.decision # NoId => dec.id = e.decision
    BY ApprovedDecision
  <2>2. q \in approved
    BY <1>3, <1>6 DEF QuestionIds
  <2>3. dec \in linked /\ name(Resolved(dec)) = q
    BY <2>1, NameOf DEF NoText
  <2>4. \A x \in linked : name(Resolved(x)) = q => x = dec
    <3>1. SUFFICES ASSUME NEW x \in linked, name(Resolved(x)) = q PROVE x = dec
      OBVIOUS
    <3>2. Resolved(x) = {q}
      BY <1>2, <3>1
    <3>3. x \in Resolving(current, q)
      BY <3>2 DEF Resolving
    <3>4. QED BY <2>1, <3>3
  <2>5. (CHOOSE x \in linked : name(Resolved(x)) = q) = dec
    BY <2>3, <2>4
  <2>6. value(q) = ApprovedContract(current, dec)
    BY <2>2, <2>5 DEF value
  <2>7. QuestionContracts[q] = value(q)
    BY <1>5, <1>6 DEF QuestionIds
  <2>8. QED BY <2>1, <2>6, <2>7
<1>7. ASSUME NEW e \in transcript
      PROVE  QuestionContracts[e.question.id] = AnswerContract(e)
  <2> DEFINE q == e.question.id
  <2>1. q \notin approved
    BY <1>3, <1>7 DEF DInv, AskedOnce
  <2>2. \A o \in transcript : o.question.id = q => o = e
    BY <1>7 DEF DInv, AskedOnce
  <2>3. (CHOOSE o \in transcript : o.question.id = q) = e
    BY <1>7, <2>2
  <2>4. value(q) = AnswerContract(e)
    BY <2>1, <2>3 DEF value
  <2>5. QuestionContracts[q] = value(q)
    BY <1>5, <1>7 DEF QuestionIds
  <2>6. QED BY <2>4, <2>5
<1>8. QED BY <1>4, <1>6, <1>7

(* What a proposal that is accepted was found to be. *)
LEMMA Heeded ==
    ASSUME NEW b, NEW texts, NEW contracts, {} \in ProposalVerdicts(b, texts, contracts)
    PROVE  /\ WireIssues(b) = {} /\ {} \in ProvenanceVerdicts(b, texts)
           /\ ProductIssues(b, texts, contracts) = {}
           /\ LinkIssues(b, contracts) = {} /\ ContractIssues(b, contracts) = {}
<1> DEFINE ids == {dec.id : dec \in b.decisions}
           identity == If(Cardinality(ids) # Cardinality(b.decisions), Issue("model", "identity"))
           claims == If(\E dec \in b.decisions : Authority(dec.category) = "controller",
                        Issue("controller", "authority"))
           provenance == ProvenanceVerdicts(b, texts)
           product == ProductIssues(b, texts, contracts)
           together == product \cup RecommendationIssues(b)
           links == LinkIssues(b, contracts)
           asked == \E i \in product : i.owner = "user"
<1>1. WireIssues(b) = {} /\ {} \in ClarityVerdicts(b, texts, contracts)
  BY DEF ProposalVerdicts
<1>2. ClarityVerdicts(b, texts, contracts) =
         IF identity # {} THEN {identity}
         ELSE IF claims # {} THEN {claims}
         ELSE IF provenance # {{}} THEN provenance
         ELSE IF asked THEN {product}
         ELSE IF AssumptionIssues(b) # {} THEN {AssumptionIssues(b)}
         ELSE IF together # {} THEN {together}
         ELSE IF links # {} THEN {links}
         ELSE {ContractIssues(b, contracts)}
  BY Zenon DEF ClarityVerdicts
<1>3. provenance # {{}} => {} \notin provenance
  <2> DEFINE unsourced == {dec \in b.decisions : dec.kind = "none"}
             invented == {dec \in b.decisions : dec.kind = "explicit_input" /\ ~Quoted(dec.source, texts)}
             beyond == {dec \in b.decisions \ invented :
                           dec.kind = "explicit_input" /\ ~(dec.summary \subseteq dec.source)}
             raised == {{Issue(IF Authority(dec.category) = "user" THEN "user" ELSE "model", "provenance")} : dec \in unsourced}
                       \cup {{Issue("model", "summary")} : dec \in beyond}
             reported == If(invented # {}, Issue("model", "quote"))
  <2>1. provenance = IF unsourced \cup beyond # {} THEN raised ELSE {reported}
    BY Zenon DEF ProvenanceVerdicts
  <2>2. {} \notin raised
    OBVIOUS
  <2> HIDE DEF unsourced, beyond, raised, reported, provenance
  <2>3. QED BY <2>1, <2>2
<1>4. asked => product # {}
  OBVIOUS
<1>5. product \subseteq together
  OBVIOUS
<1> HIDE DEF identity, claims, provenance, product, together, links, asked
<1>6. {} \in provenance /\ product = {} /\ links = {} /\ ContractIssues(b, contracts) = {}
  BY <1>1, <1>2, <1>3, <1>4, <1>5
<1>7. QED BY <1>1, <1>6 DEF provenance, product, links

LEMMA SourcesHold ==
    ASSUME NEW b, NEW texts, {} \in ProvenanceVerdicts(b, texts), NEW dec \in b.decisions
    PROVE  /\ dec.kind # "none"
           /\ dec.kind = "explicit_input" => Quoted(dec.source, texts) /\ dec.summary \subseteq dec.source
<1> DEFINE unsourced == {x \in b.decisions : x.kind = "none"}
           invented == {x \in b.decisions : x.kind = "explicit_input" /\ ~Quoted(x.source, texts)}
           beyond == {x \in b.decisions \ invented :
                         x.kind = "explicit_input" /\ ~(x.summary \subseteq x.source)}
           raised == {{Issue(IF Authority(x.category) = "user" THEN "user" ELSE "model", "provenance")} : x \in unsourced}
                     \cup {{Issue("model", "summary")} : x \in beyond}
           reported == If(invented # {}, Issue("model", "quote"))
<1>1. ProvenanceVerdicts(b, texts) = IF unsourced \cup beyond # {} THEN raised ELSE {reported}
  BY Zenon DEF ProvenanceVerdicts
<1>2. {} \notin raised
  OBVIOUS
<1>3. reported = {} => invented = {}
  BY DEF If
<1> HIDE DEF raised, reported
<1>4. unsourced \cup beyond = {} /\ reported = {}
  <2> HIDE DEF unsourced, beyond
  <2>1. QED BY <1>1, <1>2
<1>5. dec \notin unsourced /\ dec \notin beyond /\ dec \notin invented
  BY <1>3, <1>4
<1>6. QED BY <1>5

LEMMA WireAccepts ==
    ASSUME NEW b, WireIssues(b) = {}
    PROVE  /\ \A dec \in b.decisions : ~RecordRefused(dec)
           /\ \A d \in Dimensions : ~ItemRefused(b.dims[d])
<1> DEFINE chosen == {d \in UserOwned : b.dims[d].disposition = "planner_recommendation"}
           refused == \/ b.decisions = {}
                      \/ \E dec \in b.decisions : RecordRefused(dec)
                      \/ \E d \in Dimensions : ItemRefused(b.dims[d])
                      \/ \E r \in b.assumes : r # Canonical(r)
<1>1. WireIssues(b) = IF ~refused THEN {}
                      ELSE IF chosen # {} THEN {OfDimension("user", d) : d \in chosen}
                      ELSE {Issue("model", "schema")}
  BY Zenon DEF WireIssues
<1>2. chosen # {} => {OfDimension("user", d) : d \in chosen} # {}
  OBVIOUS
<1> HIDE DEF chosen
<1>3. ~refused
  <2> HIDE DEF refused
  <2>1. QED BY <1>1, <1>2
<1>4. QED BY <1>3, Zenon

LEMMA DimensionAccepted ==
    ASSUME NEW b, NEW texts, NEW contracts, ProductIssues(b, texts, contracts) = {}, NEW d \in Dimensions
    PROVE  ~TraceRefused(b, d) /\ DimensionIssue(b, d, texts, contracts) = {}
<1> DEFINE found == UNION {DimensionIssue(b, x, texts, contracts) : x \in Dimensions}
<1>1. found = {}
  <2> DEFINE material(x) == b.dims[x].disposition # "not_material"
             effect == If(\/ \E x \in {"target_users", "primary_workflow"} : material(x) /\ b.dims[x].reqs = {}
                          \/ \E x \in {"usability_expectations", "operational_expectations"} :
                                  material(x) /\ b.dims[x].crits = {},
                          Issue("model", "effect"))
  <2>1. ProductIssues(b, texts, contracts) = IF found # {} THEN found ELSE effect
    BY Zenon DEF ProductIssues
  <2> HIDE DEF found, effect
  <2>2. QED BY <2>1
<1>2. DimensionIssue(b, d, texts, contracts) = {}
  BY <1>1
<1>3. TraceRefused(b, d) => DimensionIssue(b, d, texts, contracts) = {OfDimension("model", d)}
  BY DEF DimensionIssue
<1>4. QED BY <1>2, <1>3

(* Every contract is resolved by one decision, which has the category that was
   asked and the identity that is bound; every citation has a contract. *)
LEMMA LinksHold ==
    ASSUME NEW b, NEW contracts, LinkIssues(b, contracts) = {}, ContractIssues(b, contracts) = {}
    PROVE  /\ \A q \in DOMAIN contracts : \E dec \in b.decisions :
                 /\ Resolving(b, q) = {dec} /\ dec.category = contracts[q].category
                 /\ contracts[q].required # NoId => dec.id = contracts[q].required
           /\ \A dec \in b.decisions : Resolved(dec) # NoText => \E q \in DOMAIN contracts : Resolved(dec) = {q}
<1> DEFINE linked == {dec \in b.decisions : Resolved(dec) # NoText}
           asked == {{q} : q \in DOMAIN contracts}
           twice == \E x, y \in linked : x # y /\ Resolved(x) = Resolved(y)
           missing == \E q \in DOMAIN contracts : Resolving(b, q) = {}
           named(dec) == [Issue("user", "question_invented") EXCEPT !.decision = dec.id,
                             !.question = CHOOSE q \in Resolved(dec) : TRUE]
           invented == {named(dec) : dec \in {x \in linked : Resolved(x) \notin asked}}
<1>1. LinkIssues(b, contracts) = IF twice THEN {Issue("model", "question_twice")}
                                 ELSE If(missing, Issue("model", "question_missing")) \cup invented
  BY DEF LinkIssues
<1>2. ~twice
  <2> HIDE DEF twice, missing, invented
  <2>1. QED BY <1>1
<1>3. ~missing /\ invented = {}
  <2> HIDE DEF twice, missing, invented
  <2>1. If(missing, Issue("model", "question_missing")) \cup invented = {}
    BY <1>1, <1>2
  <2>2. QED BY <2>1 DEF If
<1>4. \A dec \in linked : Resolved(dec) \in asked
  <2> HIDE DEF named
  <2>1. QED BY <1>3
<1>5. \A q \in DOMAIN contracts : \A dec \in Resolving(b, q) :
         /\ dec.category = contracts[q].category
         /\ contracts[q].required # NoId => dec.id = contracts[q].required
  BY DEF ContractIssues, If
<1>6. ASSUME NEW q \in DOMAIN contracts
      PROVE  \E dec \in b.decisions : Resolving(b, q) = {dec}
  <2>1. PICK dec : dec \in Resolving(b, q)
    BY <1>3, <1>6
  <2>2. \A x \in Resolving(b, q) : x \in linked /\ Resolved(x) = {q}
    BY DEF Resolving, NoText
  <2>3. \A x \in Resolving(b, q) : x = dec
    BY <1>2, <2>1, <2>2
  <2>4. Resolving(b, q) = {dec}
    BY <2>1, <2>3
  <2>5. QED BY <2>1, <2>4 DEF Resolving
<1>7. QED BY <1>4, <1>5, <1>6

(* A dimension that cites a question keeps what was asked and answered. *)
LEMMA CitationHolds ==
    ASSUME NEW b, NEW texts, NEW contracts, ProductIssues(b, texts, contracts) = {},
           NEW d \in Dimensions, b.dims[d].disposition = "resolved_question"
    PROVE  \E q \in DOMAIN contracts :
              /\ b.dims[d].source = {q} /\ d \in contracts[q].dims
              /\ contracts[q].answer = NoText =>
                    d \in DOMAIN contracts[q].approved /\ contracts[q].approved[d] = b.dims[d].value
              /\ contracts[q].answer # NoText =>
                    IF d \in DOMAIN contracts[q].values THEN b.dims[d].value = contracts[q].values[d]
                    ELSE b.dims[d].value \subseteq contracts[q].answer
<1> DEFINE item == b.dims[d]
           linked == {dec \in b.decisions : Resolved(dec) = item.source}
           contract == contracts[CHOOSE q \in DOMAIN contracts : item.source = {q}]
           unlinked == \/ Cardinality(linked) # 1
                       \/ \E dec \in linked : dec.category # "product_requirement" \/ item.links # {dec.id}
           unasked == \/ \A q \in DOMAIN contracts : item.source # {q}
                      \/ contract.category # "product_requirement"
           exact == d \in DOMAIN contract.values
           maturity == d = "delivery_maturity"
           kept == CASE contract.answer = NoText -> d \in DOMAIN contract.approved /\ contract.approved[d] = item.value
                     [] contract.answer # NoText /\ exact -> contract.values[d] = item.value
                     [] contract.answer # NoText /\ ~exact /\ maturity -> LevelsIn(contract.answer) = {item.value}
                     [] OTHER -> item.value \subseteq contract.answer
           silent == contract.answer # NoText /\ maturity /\ ~exact /\ LevelsIn(contract.answer) = {}
<1>1. QuestionIssue(b, d, contracts) = {}
  BY DimensionAccepted DEF DimensionIssue
<1>2. QuestionIssue(b, d, contracts) =
         CASE unlinked -> {OfDimension("model", d)}
           [] ~unlinked /\ unasked -> {OfDimension("model", d)}
           [] ~unlinked /\ ~unasked /\ d \notin contract.dims ->
                 {OfDimension(IF d \in UserOwned THEN "user" ELSE "model", d)}
           [] ~unlinked /\ ~unasked /\ d \in contract.dims /\ ~kept ->
                 {OfDimension(IF silent THEN "user" ELSE "model", d)}
           [] OTHER -> {}
  BY DEF QuestionIssue
<1>3. ~unasked /\ d \in contract.dims /\ kept
  <2> HIDE DEF unlinked, unasked, kept, silent, contract
  <2>1. QED BY <1>1, <1>2
<1>4. PICK q \in DOMAIN contracts : item.source = {q}
  BY <1>3
<1>5. contract = contracts[q]
  BY <1>4
<1> HIDE DEF contract
<1>6. contract.answer = NoText => d \in DOMAIN contract.approved /\ contract.approved[d] = item.value
  BY <1>3
<1>7. contract.answer # NoText =>
         IF d \in DOMAIN contract.values THEN item.value = contract.values[d] ELSE item.value \subseteq contract.answer
  <2>1. contract.answer # NoText /\ exact => item.value = contract.values[d]
    BY <1>3
  <2>2. contract.answer # NoText /\ ~exact /\ maturity => item.value \subseteq contract.answer
    <3>1. contract.answer # NoText /\ ~exact /\ maturity => LevelsIn(contract.answer) = {item.value}
      BY <1>3
    <3>2. \A l \in LevelsIn(contract.answer) : l \subseteq contract.answer
      BY DEF LevelsIn
    <3>3. QED BY <3>1, <3>2
  <2>3. contract.answer # NoText /\ ~exact /\ ~maturity => item.value \subseteq contract.answer
    BY <1>3
  <2>4. QED BY <2>1, <2>2, <2>3
<1>8. QED BY <1>3, <1>4, <1>5, <1>6, <1>7

(* An accepted proposal leaves every answer standing. *)
LEMMA AcceptStands ==
    ASSUME DInv, NEW b, Accept(b), {} \in ProposalVerdicts(b, UserInputs, QuestionContracts)
    PROVE  \A e \in said' : Stands(e)'
<1> DEFINE contracts == QuestionContracts
<1>1. ProductIssues(b, UserInputs, contracts) = {} /\ LinkIssues(b, contracts) = {} /\ ContractIssues(b, contracts) = {}
  BY Heeded
<1>2. /\ current' = b /\ said' = said \cup transcript
      /\ bound' = [q \in DOMAIN bound \cup QuestionIds(transcript) |->
                      IF q \in DOMAIN bound THEN bound[q] ELSE (CHOOSE dec \in Resolving(b, q) : TRUE).id]
  BY DEF Accept
<1>3. SUFFICES ASSUME NEW e \in said' PROVE Stands(e)'
  OBVIOUS
<1> DEFINE q == e.question.id
<1>4. q \in DOMAIN contracts
  BY <1>2, ContractsKnown DEF QuestionIds
<1>5. PICK dec \in b.decisions : /\ Resolving(b, q) = {dec} /\ dec.category = contracts[q].category
                                 /\ contracts[q].required # NoId => dec.id = contracts[q].required
  BY <1>1, <1>4, LinksHold
<1>6. \A d \in Dimensions : b.dims[d].disposition = "resolved_question" /\ b.dims[d].source = {q} =>
         /\ d \in contracts[q].dims
         /\ contracts[q].answer = NoText =>
               d \in DOMAIN contracts[q].approved /\ contracts[q].approved[d] = b.dims[d].value
         /\ contracts[q].answer # NoText =>
               IF d \in DOMAIN contracts[q].values THEN b.dims[d].value = contracts[q].values[d]
               ELSE b.dims[d].value \subseteq contracts[q].answer
  <2>1. SUFFICES ASSUME NEW d \in Dimensions, b.dims[d].disposition = "resolved_question", b.dims[d].source = {q}
                 PROVE  /\ d \in contracts[q].dims
                        /\ contracts[q].answer = NoText =>
                              d \in DOMAIN contracts[q].approved /\ contracts[q].approved[d] = b.dims[d].value
                        /\ contracts[q].answer # NoText =>
                              IF d \in DOMAIN contracts[q].values THEN b.dims[d].value = contracts[q].values[d]
                              ELSE b.dims[d].value \subseteq contracts[q].answer
    OBVIOUS
  <2> HIDE DEF contracts, q
  <2>2. PICK p \in DOMAIN contracts :
              /\ b.dims[d].source = {p} /\ d \in contracts[p].dims
              /\ contracts[p].answer = NoText =>
                    d \in DOMAIN contracts[p].approved /\ contracts[p].approved[d] = b.dims[d].value
              /\ contracts[p].answer # NoText =>
                    IF d \in DOMAIN contracts[p].values THEN b.dims[d].value = contracts[p].values[d]
                    ELSE b.dims[d].value \subseteq contracts[p].answer
    BY <1>1, <2>1, CitationHolds
  <2>3. p = q
    BY <2>1, <2>2
  <2>4. QED BY <2>2, <2>3
<1>7. CASE e \in said
  <2>1. PICK old \in current.decisions :
              /\ Resolving(current, q) = {old} /\ Resolved(old) = {q}
              /\ old.category = e.question.category /\ old.id = bound[q] /\ old.id # NoId
              /\ e.decision # NoId => old.id = e.decision
              /\ contracts[q] = ApprovedContract(current, old)
    BY <1>7, ContractsKnown
  <2> DEFINE cited == {d \in Dimensions : /\ current.dims[d].disposition = "resolved_question"
                                          /\ current.dims[d].source = {q}}
  <2>2. /\ contracts[q].category = old.category /\ contracts[q].required = old.id
        /\ contracts[q].answer = NoText
        /\ contracts[q].dims = cited /\ contracts[q].approved = [d \in cited |-> current.dims[d].value]
    BY <2>1 DEF ApprovedContract
  <2>3. bound'[q] = bound[q]
    BY <1>2, <1>7 DEF DInv, OnlyAnswered, QuestionIds
  <2>4. dec.category = e.question.category /\ dec.id = bound'[q] /\ (e.decision # NoId => dec.id = e.decision)
    BY <1>5, <2>1, <2>2, <2>3
  <2>5. \A d \in cited : /\ d \in e.question.dims
                         /\ IF d \in DOMAIN e.answer.values THEN current.dims[d].value = e.answer.values[d]
                            ELSE current.dims[d].value \subseteq e.answer.text
    BY <1>7 DEF DInv, Stands
  <2> HIDE DEF contracts, cited
  <2>6. \A d \in Dimensions : b.dims[d].disposition = "resolved_question" /\ b.dims[d].source = {q} =>
           d \in cited /\ current.dims[d].value = b.dims[d].value
    BY <1>6, <2>2
  <2>7. \A d \in Dimensions : b.dims[d].disposition = "resolved_question" /\ b.dims[d].source = {q} =>
           /\ d \in e.question.dims
           /\ IF d \in DOMAIN e.answer.values THEN b.dims[d].value = e.answer.values[d]
              ELSE b.dims[d].value \subseteq e.answer.text
    BY <2>5, <2>6
  <2>8. QED BY <1>2, <1>5, <2>4, <2>7 DEF Stands, Resolving
<1>8. CASE e \in transcript
  <2>1. contracts[q] = AnswerContract(e)
    BY <1>8, ContractsKnown
  <2>2. /\ contracts[q].category = e.question.category /\ contracts[q].required = e.decision
        /\ contracts[q].dims = e.question.dims /\ contracts[q].answer = e.answer.text
        /\ contracts[q].values = e.answer.values /\ contracts[q].approved = << >>
    BY <2>1 DEF AnswerContract
  <2>3. q \notin DOMAIN bound /\ q \in QuestionIds(transcript)
    BY <1>8 DEF DInv, OnlyAnswered, AskedOnce, QuestionIds
  <2>4. bound'[q] = dec.id
    <3>1. (CHOOSE x \in Resolving(b, q) : TRUE) = dec
      BY <1>5, NameOf
    <3>2. QED BY <1>2, <2>3, <3>1
  <2>5. DOMAIN << >> = {}
    OBVIOUS
  <2> HIDE DEF contracts
  <2>6. \A d \in Dimensions : b.dims[d].disposition = "resolved_question" /\ b.dims[d].source = {q} =>
           /\ d \in e.question.dims
           /\ IF d \in DOMAIN e.answer.values THEN b.dims[d].value = e.answer.values[d]
              ELSE b.dims[d].value \subseteq e.answer.text
    BY <1>6, <2>2, <2>5
  <2>7. dec.category = e.question.category /\ (e.decision # NoId => dec.id = e.decision)
    BY <1>5, <2>2
  <2>8. QED BY <1>2, <1>5, <2>4, <2>6, <2>7 DEF Stands, Resolving
<1>9. QED BY <1>2, <1>7, <1>8

(* Its citations are of answered questions, under identities of the wire. *)
LEMMA AcceptCites ==
    ASSUME DInv, NEW b, Accept(b), {} \in ProposalVerdicts(b, UserInputs, QuestionContracts)
    PROVE  OnlyAnswered' /\ AskedOnce'
<1> DEFINE contracts == QuestionContracts
<1>1. WireIssues(b) = {} /\ LinkIssues(b, contracts) = {} /\ ContractIssues(b, contracts) = {}
  BY Heeded
<1>2. /\ current' = b /\ said' = said \cup transcript /\ transcript' = {}
      /\ bound' = [q \in DOMAIN bound \cup QuestionIds(transcript) |->
                      IF q \in DOMAIN bound THEN bound[q] ELSE (CHOOSE dec \in Resolving(b, q) : TRUE).id]
  BY DEF Accept
<1>3. DOMAIN contracts = QuestionIds(said')
  BY <1>2, ContractsKnown DEF QuestionIds
<1>4. \A dec \in b.decisions : Resolved(dec) # NoText => \E e \in said' : Resolved(dec) = {e.question.id}
  <2> HIDE DEF contracts
  <2>1. \A dec \in b.decisions : Resolved(dec) # NoText => \E q \in DOMAIN contracts : Resolved(dec) = {q}
    BY <1>1, LinksHold
  <2>2. QED BY <1>3, <2>1 DEF QuestionIds
<1>5. DOMAIN bound' = QuestionIds(said')
  BY <1>2 DEF DInv, OnlyAnswered, QuestionIds
<1>6. ASSUME NEW e \in said' PROVE bound'[e.question.id] # NoId
  <2> DEFINE q == e.question.id
  <2>1. PICK dec \in b.decisions : Resolving(b, q) = {dec}
    <3>1. q \in DOMAIN contracts
      BY <1>3, <1>6 DEF QuestionIds
    <3> HIDE DEF contracts
    <3>2. QED BY <1>1, <3>1, LinksHold
  <2>2. dec.id # NoId
    <3>1. dec.id = Canonical(dec.id)
      BY <1>1, WireAccepts DEF RecordRefused
    <3>2. Canonical(dec.id) # << >>
      BY DEF Canonical
    <3>3. QED BY <3>1, <3>2 DEF NoId
  <2>3. (CHOOSE x \in Resolving(b, q) : TRUE) = dec
    BY <2>1, NameOf
  <2>4. q \in DOMAIN bound => bound[q] # NoId
    BY DEF DInv, OnlyAnswered, QuestionIds
  <2>5. q \in DOMAIN bound \cup QuestionIds(transcript)
    BY <1>2, <1>5, <1>6 DEF QuestionIds
  <2>6. bound'[q] = IF q \in DOMAIN bound THEN bound[q] ELSE (CHOOSE x \in Resolving(b, q) : TRUE).id
    BY <1>2, <2>5
  <2>7. QED BY <2>2, <2>3, <2>4, <2>6
<1>7. OnlyAnswered'
  BY <1>2, <1>4, <1>5, <1>6 DEF OnlyAnswered, Resolved, QuestionIds
<1>8. QED BY <1>2, <1>7 DEF AskedOnce

(* What it decides for the user is the user's. *)
LEMMA AcceptAttributes ==
    ASSUME DInv, NEW b, Accept(b), {} \in ProposalVerdicts(b, UserInputs, QuestionContracts)
    PROVE  Attributed'
<1> DEFINE contracts == QuestionContracts
           texts == UserInputs
           answered(t) == \E e \in said' : t = {e.question.id}
<1>1. /\ WireIssues(b) = {} /\ {} \in ProvenanceVerdicts(b, texts) /\ ProductIssues(b, texts, contracts) = {}
      /\ LinkIssues(b, contracts) = {} /\ ContractIssues(b, contracts) = {}
  BY Heeded
<1>2. current' = b /\ said' = said \cup transcript /\ inputs' = texts
  BY DEF Accept
<1>3. \A q \in DOMAIN contracts : answered({q})
  BY <1>2, ContractsKnown DEF QuestionIds
<1> HIDE DEF contracts, texts, answered
<1>4. ASSUME NEW dec \in b.decisions, Authority(dec.category) = "user"
      PROVE  \/ /\ dec.kind = "explicit_input" /\ Quoted(dec.source, texts)
                /\ dec.summary \subseteq dec.source
             \/ dec.kind = "resolved_question" /\ answered(dec.source)
  <2>1. /\ dec.kind # "none"
        /\ dec.kind = "explicit_input" => Quoted(dec.source, texts) /\ dec.summary \subseteq dec.source
    BY <1>1, SourcesHold
  <2>2. ~RecordRefused(dec)
    BY <1>1, WireAccepts
  <2>3. dec.kind \in {"explicit_input", "resolved_question"}
    BY <1>4, <2>1, <2>2 DEF RecordRefused, ProvenanceAuthority
  <2>4. dec.kind = "resolved_question" => Resolved(dec) = dec.source /\ dec.source # NoText
    BY <2>2 DEF RecordRefused, ProvenanceRefused, Resolved
  <2>5. dec.kind = "resolved_question" => answered(dec.source)
    <3>1. \A x \in b.decisions : Resolved(x) # NoText => \E q \in DOMAIN contracts : Resolved(x) = {q}
      BY <1>1, LinksHold
    <3>2. QED BY <1>3, <2>4, <3>1
  <2>6. QED BY <2>1, <2>3, <2>5
<1>5. ASSUME NEW d \in UserOwned
      PROVE  LET item == b.dims[d] IN
                \/ item.disposition = "explicit_input" /\ Quoted(item.source, texts)
                \/ item.disposition = "resolved_question" /\ answered(item.source)
                \/ /\ d = "target_users" /\ item.disposition = "not_material"
                   /\ b.dims["delivery_maturity"].value = {"prototype"}
  <2>1. d \in Dimensions
    BY <1>5, UserOwnedNames DEF Dimensions
  <2>2. ~TraceRefused(b, d) /\ DimensionIssue(b, d, texts, contracts) = {}
    BY <1>1, <2>1, DimensionAccepted
  <2>3. b.dims[d].disposition \in Dispositions
    BY <1>1, <2>1, WireAccepts DEF ItemRefused
  <2>4. CASE b.dims[d].disposition = "explicit_input"
    <3>1. ExplicitIssue(b, d, texts) = {}
      BY <2>2, <2>4 DEF DimensionIssue
    <3>2. Quoted(b.dims[d].source, texts)
      BY <3>1 DEF ExplicitIssue, If
    <3>3. QED BY <2>4, <3>2
  <2>5. CASE b.dims[d].disposition = "resolved_question"
    <3>1. \E q \in DOMAIN contracts : b.dims[d].source = {q}
      BY <1>1, <2>1, <2>5, CitationHolds
    <3>2. QED BY <1>3, <2>5, <3>1
  <2>6. b.dims[d].disposition # "planner_recommendation"
    <3>1. SUFFICES ASSUME b.dims[d].disposition = "planner_recommendation" PROVE FALSE
      OBVIOUS
    <3>2. RecommendedIssue(b, d) = {}
      BY <2>2, <3>1 DEF DimensionIssue
    <3>3. RecommendedIssue(b, d) = {OfDimension("user", d)}
      BY <1>5 DEF RecommendedIssue
    <3>4. QED BY <3>2, <3>3
  <2>7. CASE b.dims[d].disposition = "not_material"
    <3>1. ImmaterialIssue(b, d) = {}
      BY <2>2, <2>7 DEF DimensionIssue
    <3>2. d # "primary_workflow"
      BY <2>2, <2>7 DEF TraceRefused
    <3>3. d # "delivery_maturity" /\ (d = "target_users" => b.dims["delivery_maturity"].value = {"prototype"})
      BY <3>1 DEF ImmaterialIssue
    <3>4. QED BY <1>5, <2>7, <3>2, <3>3, UserOwnedNames
  <2>8. QED BY <2>3, <2>4, <2>5, <2>6, <2>7 DEF Dispositions
<1>6. QED BY <1>2, <1>4, <1>5 DEF Attributed, answered

(* The steps that accept nothing. *)
LEMMA OtherwiseKept ==
    ASSUME DInv, UNCHANGED <<current, revision, inputs, said, bound>>, AskedOnce',
           phase' = "proposed" => revision > 0
    PROVE  DInv'
<1>1. \A e \in said' : Stands(e)'
  BY DEF DInv, Stands, Resolving, Resolved
<1>2. OnlyAnswered'
  BY DEF DInv, OnlyAnswered, Resolved
<1>3. revision' > 0 => Attributed'
  BY DEF DInv, Attributed
<1>4. QED BY <1>1, <1>2, <1>3 DEF DInv

(* A question that is admitted is new. *)
LEMMA AnswerKeeps ==
    ASSUME DInv, NEW q, NEW a, Answer(q, a)
    PROVE  DInv'
<1>1. q.id \notin QuestionIds(said) /\ q.id \notin QuestionIds(transcript)
  BY ContractsKnown DEF Answer, Admitted
<1> DEFINE entry == [question |-> q, answer |-> a, decision |-> recovery.decision]
<1>2. transcript' = transcript \cup {entry} /\ UNCHANGED <<phase, current, revision, inputs, said, bound>>
  BY DEF Answer
<1>3. entry.question.id = q.id
  OBVIOUS
<1> HIDE DEF entry
<1>4. AskedOnce'
  BY <1>1, <1>2, <1>3 DEF DInv, AskedOnce, QuestionIds
<1>5. phase' = "proposed" => revision > 0
  BY <1>2 DEF DInv
<1>6. QED BY <1>2, <1>4, <1>5, OtherwiseKept

LEMMA ProposeKeeps ==
    ASSUME DInv, NEW raw, Propose(raw)
    PROVE  DInv'
<1> DEFINE b == Normalized(raw, UserInputs, QuestionContracts)
<1> HIDE DEF b
<1>1. PICK issues \in ProposalVerdicts(b, UserInputs, QuestionContracts) :
         IF issues = {} THEN Accept(b) ELSE Refuse(b, issues)
  BY DEF Propose, b
<1>2. CASE issues = {}
  <2>1. Accept(b) /\ {} \in ProposalVerdicts(b, UserInputs, QuestionContracts)
    BY <1>1, <1>2
  <2>2. (\A e \in said' : Stands(e)') /\ OnlyAnswered' /\ AskedOnce' /\ Attributed'
    BY <2>1, AcceptStands, AcceptCites, AcceptAttributes
  <2>3. revision' \in Nat /\ revision' > 0
    BY <2>1 DEF Accept, DInv
  <2>4. QED BY <2>2, <2>3 DEF DInv
<1>3. CASE issues # {}
  <2>1. Refuse(b, issues)
    BY <1>1, <1>3
  <2> DEFINE next == ClarificationRecovery(b, issues)
             lost == next = NoRecovery /\ \E i \in issues : i.owner # "model"
  <2>2. /\ phase' = IF ~lost THEN phase ELSE IF revision = 0 THEN "failed" ELSE "proposed"
        /\ transcript' = IF lost THEN {} ELSE transcript
        /\ UNCHANGED <<current, revision, inputs, said, bound>>
    BY <2>1, Zenon DEF Refuse
  <2> HIDE DEF lost
  <2>3. transcript' \in {{}, transcript} /\ (phase' = "proposed" => phase = "proposed" \/ revision # 0)
    BY <2>2
  <2>4. AskedOnce'
    BY <2>2, <2>3 DEF DInv, AskedOnce
  <2>5. phase' = "proposed" => revision > 0
    BY <2>3 DEF DInv
  <2>6. QED BY <2>2, <2>4, <2>5, OtherwiseKept
<1>4. QED BY <1>2, <1>3

(* The invariant holds of every dialogue, for all questions, answers and drafts. *)
THEOREM DecisionsInvariant == DecisionsSpec => []DInv
<1>1. DecisionsInit => DInv
  BY DEF DecisionsInit, DInv, OnlyAnswered, AskedOnce, QuestionIds, NoDraft
<1>2. DInv /\ [DecisionsNext]_decisionsVars => DInv'
  <2> SUFFICES ASSUME DInv, [DecisionsNext]_decisionsVars PROVE DInv'
    OBVIOUS
  <2>1. CASE \E q \in Questions : \E a \in Replies(q) : Answer(q, a)
    BY <2>1, AnswerKeeps
  <2>2. CASE \E raw \in Drafts(QuestionContracts) : Propose(raw)
    BY <2>2, ProposeKeeps
  <2>3. CASE Decline \/ GiveUp \/ (\E text \in ChangeRequests : Revise(text)) \/ UNCHANGED decisionsVars
    <3>1. /\ UNCHANGED <<current, revision, inputs, said, bound>> /\ transcript' \in {{}, transcript}
          /\ phase' = "proposed" => phase = "proposed" \/ revision # 0
      BY <2>3 DEF Decline, GiveUp, Revise, decisionsVars
    <3>2. AskedOnce'
      BY <3>1 DEF DInv, AskedOnce
    <3>3. phase' = "proposed" => revision > 0
      BY <3>1 DEF DInv
    <3>4. QED BY <3>1, <3>2, <3>3, OtherwiseKept
  <2>4. QED BY <2>1, <2>2, <2>3 DEF DecisionsNext
<1>3. QED BY <1>1, <1>2, PTL DEF DecisionsSpec

(* What the user answered stands in every later revision, whatever the Planner
   submits, the controller normalizes and the user asks to change. *)
THEOREM AnswersAreKept == DecisionsSpec => []AnswersStand
<1>1. DInv => AnswersStand
  BY DEF DInv, Stands, AnswersStand
<1>2. QED BY <1>1, DecisionsInvariant, PTL

(* No proposal decides in the user's name. *)
THEOREM UserDecides == DecisionsSpec => []NothingInvented
<1>1. DInv => NothingInvented
  BY DEF DInv, Attributed, NothingInvented
<1>2. QED BY <1>1, DecisionsInvariant, PTL

=============================================================================
