-------------------------- MODULE DagSchedulerProofs --------------------------
(***************************************************************************)
(* What the scheduler guarantees for every approved TeamPlan, every        *)
(* concurrency cap and every interleaving with the control mailbox.        *)
(***************************************************************************)
EXTENDS DagScheduler, TLAPS, SequenceTheorems, FiniteSetTheorems,
        WellFoundedInduction

(***************************************************************************)
(* The inductive invariant.  The properties speak of the worker threads,   *)
(* while the guards of the scheduler read its own dictionaries: the first  *)
(* four parts tie the two together.                                        *)
(***************************************************************************)

(* A thread at work has its future in active. *)
BusyIsActive == \A a \in Agents : worker[a] \in InFlight => a \in active

(* What _can_launch and max_concurrency keep true of the futures. *)
ActiveWithinLimits ==
    /\ \A a \in active \cap Writers : active = {a}
    /\ Cardinality(active) <= MaxConcurrency

(* wait() returned only futures whose thread has ended, and they are all    *)
(* recorded before the loop goes on.                                        *)
FinishedHaveEnded ==
    /\ \A a \in finished : a \in active /\ worker[a] \in Outcomes
    /\ finished # {} => pc = "collect"
    /\ pc = "collect" => finished # {}

(* An Agent is recorded once in a pass, after it has left active. *)
Unrecorded ==
    /\ active \cap pending = {}
    /\ pc \notin {"done", "ended"} => \A a \in active \cup pending : records[a] = "none"

(* Rejecting evidence is still to be recorded, or the pass has stopped. *)
RejectionIsKept ==
    \A a \in Agents : worker[a] = "rejecting" =>
        a \in active \/ qualityAgent # 0 \/ firstFailure # 0 \/ controlledStop # "none"

(* What the last poll established still holds while its candidates are     *)
(* launched.                                                               *)
LaunchIsCurrent ==
    (pc = "launch" /\ ready # {}) =>
        /\ firstFailure = 0 /\ qualityAgent = 0 /\ controlledStop = "none"
        /\ cancelRequest = 0 /\ correctionRequest = 0
        /\ ~paused /\ pauseRequest = 0
        /\ ready \subseteq pending
        /\ \A a \in ready : Dependencies[a] \subseteq Completed
        /\ ready \subseteq Testers \/ (active \cup ready) \cap Testers = {}

PausedIsDrained == paused => active = {}

IInv ==
    /\ TypeOK
    /\ BusyIsActive /\ ActiveWithinLimits /\ FinishedHaveEnded /\ Unrecorded
    /\ DependenciesFirst /\ RejectionIsKept /\ LaunchIsCurrent /\ PausedIsDrained

-----------------------------------------------------------------------------
(* A non-empty set of numbers has its minimum among its members. *)
LEMMA MinIn ==
    ASSUME NEW S \in SUBSET Nat, S # {}
    PROVE  Min(S) \in S
  <1>1. PICK x \in S : \A y \in S : << y, x >> \notin OpToRel(<, Nat)
    BY WFMin, NatLessThanWellFounded
  <1>2. x \in Nat /\ \A y \in S : y \in Nat /\ ~(y < x)
    BY <1>1 DEF OpToRel
  <1>3. \A y \in S : x <= y
    BY <1>2
  <1>4. QED BY <1>3 DEF Min

(* A function over the places of a sequence is a sequence of its values. *)
LEMMA SameDomainSeq ==
    ASSUME NEW S, NEW m \in Seq(S), NEW f, f \in [DOMAIN m -> S]
    PROVE  f \in Seq(S)
  <1>1. DOMAIN m = 1..Len(m) /\ Len(m) \in Nat
    OBVIOUS
  <1>2. f \in [1..Len(m) -> S]
    BY <1>1
  <1>3. QED BY <1>1, <1>2

(* A command with another status is a command. *)
LEMMA StatusType ==
    ASSUME NEW m \in Seq(Command)
    PROVE  \A d \in DOMAIN m, s \in Terminal :
              m[d] \in Command /\ [m[d] EXCEPT !.status = s] \in Command
  <1>1. \A d \in DOMAIN m : m[d] \in Command
    BY ElementOfSeq
  <1>2. \A d \in DOMAIN m, s \in Terminal : [m[d] EXCEPT !.status = s] \in Command
    BY <1>1 DEF Command
  <1>3. QED BY <1>1, <1>2

(* resolve() changes the status of a command and nothing else. *)
LEMMA ResolvedType ==
    ASSUME NEW m \in Seq(Command), NEW c, NEW s \in Terminal
    PROVE  Resolved(m, c, s) \in Seq(Command)
  <1>1. Resolved(m, c, s) =
           [d \in DOMAIN m |-> IF d = c THEN [m[d] EXCEPT !.status = s] ELSE m[d]]
    BY DEF Resolved
  <1>2. Resolved(m, c, s) \in [DOMAIN m -> Command]
    BY <1>1, StatusType
  <1>3. QED BY <1>2, SameDomainSeq

(* The agents of the plan, and what the scheduler keeps of them, are finite. *)
LEMMA FiniteAgents ==
    ASSUME NEW S \in SUBSET Agents
    PROVE  /\ IsFiniteSet(S) /\ Cardinality(S) \in Nat
           /\ S # {} => Min(S) \in S
  <1>1. IsFiniteSet(S)
    BY PlanAssumption, FS_Subset
  <1>2. S \in SUBSET Nat
    BY PlanAssumption
  <1>3. QED BY <1>1, <1>2, MinIn, FS_CardinalityType

(* The type of the command the poll takes next. *)
LEMMA NextUnobserved ==
    ASSUME TypeOK, Unobserved # {}
    PROVE  Min(Unobserved) \in DOMAIN mailbox /\ Min(Unobserved) \in Nat
  <1>1. DOMAIN mailbox = 1..Len(mailbox) /\ Len(mailbox) \in Nat
    BY DEF TypeOK, ControlsTypeOK
  <1>2. Unobserved \subseteq DOMAIN mailbox /\ Unobserved \in SUBSET Nat
    BY <1>1 DEF Unobserved
  <1>3. QED BY <1>2, MinIn

-----------------------------------------------------------------------------
(* The invariant holds at the start of the run. *)
LEMMA InitInv == Init => IInv
  <1> SUFFICES ASSUME Init PROVE IInv
    OBVIOUS
  <1>1. mailbox \in Seq(Command)
    BY EmptySeq DEF Init, ControlsInit
  <1>2. ControlsTypeOK
    <2>1. guidance \in [Agents -> SUBSET Nat]
      BY DEF Init, ControlsInit
    <2>2. paused \in BOOLEAN /\ observed \subseteq Nat /\ interruptRequests \subseteq Nat
      BY Zenon DEF Init, ControlsInit
    <2>3. {pauseRequest, correctionRequest, cancelRequest} \subseteq Nat /\ horizon \in Nat
      BY DEF Init, ControlsInit
    <2>4. QED BY <1>1, <2>1, <2>2, <2>3 DEF ControlsTypeOK
  <1>3. TypeOK
    <2>1. closing \in BOOLEAN
      BY Zenon DEF Init, StartOfPass
    <2>2. iteration \in 1..MaxIterations /\ attempt \in [Agents -> 1..MaxAttempts]
      BY BoundsAssumption DEF Init, StartOfPass
    <2>3. /\ records \in [Agents -> RecordStates]
          /\ worker \in [Agents -> {"idle"} \cup InFlight \cup Outcomes]
      BY DEF Init, StartOfPass, RecordStates
    <2>4. QED BY <1>2, <2>1, <2>2, <2>3
              DEF Init, StartOfPass, TypeOK, Decisions, Statuses
  <1>4. Cardinality(active) <= MaxConcurrency
    BY FS_EmptySet, BoundsAssumption DEF Init, StartOfPass
  <1>5. QED BY <1>3, <1>4
            DEF Init, StartOfPass, ControlsInit, IInv, BusyIsActive, ActiveWithinLimits,
                FinishedHaveEnded, Unrecorded, DependenciesFirst, RejectionIsKept,
                LaunchIsCurrent, PausedIsDrained, InFlight

(* Threads that go on, or end, while the scheduler thread stays where it    *)
(* is: the steps of the workers, of the console and of an open poll.        *)
LEMMA ThreadsMoveInv ==
    ASSUME IInv, ControlsTypeOK', UNCHANGED schedVars,
           pc = "accept" \/ UNCHANGED << cancelRequest, correctionRequest, paused,
                                         pauseRequest >>,
           paused' => paused,
           worker' \in [Agents -> {"idle"} \cup InFlight \cup Outcomes],
           attempt' \in [Agents -> 1..MaxAttempts],
           \A a \in Agents : \/ worker'[a] = worker[a]
                             \/ /\ worker[a] \in InFlight
                                /\ worker'[a] \in InFlight \cup Outcomes
    PROVE  IInv'
  <1> USE DEF schedVars
  <1>1. TypeOK'
    BY DEF IInv, TypeOK
  <1>2. \A a \in Agents : worker[a] \in Outcomes => worker'[a] = worker[a]
    BY DEF InFlight, Outcomes
  <1>3. BusyIsActive' /\ RejectionIsKept'
    BY DEF IInv, BusyIsActive, RejectionIsKept, InFlight, Outcomes
  <1>4. ActiveWithinLimits' /\ Unrecorded' /\ PausedIsDrained'
    BY DEF IInv, ActiveWithinLimits, Unrecorded, PausedIsDrained, Writers
  <1>5. FinishedHaveEnded'
    BY <1>2 DEF IInv, TypeOK, FinishedHaveEnded
  <1>6. DependenciesFirst'
    BY DEF IInv, DependenciesFirst, Completed, InFlight
  <1>7. LaunchIsCurrent'
    BY DEF IInv, LaunchIsCurrent, Completed, Testers
  <1>8. QED BY <1>1, <1>3, <1>4, <1>5, <1>6, <1>7 DEF IInv

(* The console thread. *)
LEMMA ConsoleSubmitInv == ASSUME IInv, ConsoleSubmit PROVE IInv'
  <1>1. TypeOK
    BY DEF IInv
  <1>2. PICK r \in Requests : Submit(r)
    BY DEF ConsoleSubmit
  <1>3. [kind |-> r.kind, agent |-> r.agent, scope |-> r.scope, status |-> "queued"]
           \in Command
    BY RequestsAssumption DEF Request, Command
  <1>4. mailbox' \in Seq(Command)
    BY <1>1, <1>2, <1>3, AppendProperties DEF Submit, TypeOK, ControlsTypeOK
  <1>5. ControlsTypeOK'
    BY <1>1, <1>4 DEF ConsoleSubmit, channelVars, TypeOK, ControlsTypeOK
  <1>6. QED BY <1>1, <1>5, ThreadsMoveInv
            DEF ConsoleSubmit, channelVars, workerVars, TypeOK

(* The worker threads. *)
LEMMA WorkerInv == ASSUME IInv, NEW a \in Agents, Worker(a) PROVE IInv'
  <1>1. TypeOK
    BY DEF IInv
  <1>2. ControlsTypeOK'
    BY <1>1 DEF Worker, Admit, Reserve, Spawn, ProcessExits, ProcessStopped, Respond, Retry,
                Fail, ConsumeGuidance, TypeOK, ControlsTypeOK, channelVars
  <1>3. /\ UNCHANGED schedVars
        /\ UNCHANGED << cancelRequest, correctionRequest, paused, pauseRequest >>
    BY DEF Worker, Admit, Reserve, Spawn, ProcessExits, ProcessStopped, Respond, Retry,
           Fail, channelVars
  <1>4. /\ worker[a] \in InFlight
        /\ \E to \in InFlight \cup Outcomes : worker' = [worker EXCEPT ![a] = to]
    BY DEF Worker, Admit, Reserve, Spawn, ProcessExits, ProcessStopped, Respond, Retry,
           Fail, MoveWorker, InFlight, Outcomes
  <1>5. /\ worker' \in [Agents -> {"idle"} \cup InFlight \cup Outcomes]
        /\ \A b \in Agents : \/ worker'[b] = worker[b]
                             \/ /\ worker[b] \in InFlight
                                /\ worker'[b] \in InFlight \cup Outcomes
    BY <1>1, <1>4 DEF TypeOK
  <1>6. attempt' \in [Agents -> 1..MaxAttempts]
    <2>1. CASE Retry(a)
      BY <1>1, <2>1, BoundsAssumption DEF Retry, TypeOK
    <2>2. CASE attempt' = attempt
      BY <1>1, <2>2 DEF TypeOK
    <2>3. QED BY <2>1, <2>2 DEF Worker, Admit, Reserve, Spawn, ProcessExits,
                                ProcessStopped, Respond, Fail
  <1>7. QED BY <1>2, <1>3, <1>5, <1>6, ThreadsMoveInv

-----------------------------------------------------------------------------
(* _accept_or_reject keeps the channel in its type, and a poll that is      *)
(* still open never pauses the run.                                         *)
LEMMA AcceptType ==
    ASSUME TypeOK, NEW c \in DOMAIN mailbox, UNCHANGED horizon,
           \/ AcceptGuide(c, active, pending) \/ AcceptCorrect(c) \/ AcceptPause(c)
           \/ AcceptResume(c) \/ AcceptInterrupt(c, active) \/ AcceptCancel(c)
    PROVE  ControlsTypeOK' /\ (paused' => paused)
  <1>1. mailbox \in Seq(Command) /\ c \in Nat
    BY DEF TypeOK, ControlsTypeOK
  <1>2. \A d : \A s \in Terminal : Resolved(mailbox, d, s) \in Seq(Command)
    BY <1>1, ResolvedType
  <1>3. {"applied", "rejected", "superseded"} \subseteq Terminal
    BY DEF Terminal
  <1>4. observed' \subseteq Nat
    BY <1>1 DEF TypeOK, ControlsTypeOK, Observe, AcceptGuide, AcceptCorrect, AcceptPause,
                AcceptResume, AcceptInterrupt, AcceptCancel
  <1>5. CASE AcceptGuide(c, active, pending)
    BY <1>1, <1>2, <1>3, <1>4, <1>5 DEF TypeOK, ControlsTypeOK, AcceptGuide
  <1>6. CASE AcceptCorrect(c)
    BY <1>1, <1>2, <1>3, <1>4, <1>6 DEF TypeOK, ControlsTypeOK, AcceptCorrect
  <1>7. CASE AcceptPause(c)
    BY <1>1, <1>2, <1>3, <1>4, <1>7 DEF TypeOK, ControlsTypeOK, AcceptPause
  <1>8. CASE AcceptResume(c)
    <2>1. Resolved(Resolved(mailbox, pauseRequest, "superseded"), c, "applied")
             \in Seq(Command)
      BY <1>2, <1>3, ResolvedType
    <2>2. mailbox' \in Seq(Command)
      BY <1>2, <1>3, <1>8, <2>1 DEF AcceptResume
    <2>3. pauseRequest' \in Nat
      BY <1>8 DEF AcceptResume, TypeOK, ControlsTypeOK
    <2>4. paused' \in BOOLEAN /\ (paused' => paused)
      <3>1. paused' = paused \/ paused' = FALSE
        BY <1>8 DEF AcceptResume
      <3>2. paused \in BOOLEAN
        BY DEF TypeOK, ControlsTypeOK
      <3>3. CASE paused' = FALSE
        BY <3>3
      <3>4. CASE paused' = paused
        BY <3>2, <3>4
      <3>5. QED BY <3>1, <3>3, <3>4
    <2>5. QED BY <1>4, <1>8, <2>2, <2>3, <2>4 DEF TypeOK, ControlsTypeOK, AcceptResume
  <1>9. CASE AcceptInterrupt(c, active)
    BY <1>1, <1>2, <1>3, <1>4, <1>9 DEF TypeOK, ControlsTypeOK, AcceptInterrupt
  <1>10. CASE AcceptCancel(c)
    <2>1. mailbox' \in Seq(Command)
      <3>1. CASE CancelTooLate
        BY <1>2, <1>3, <1>10, <3>1 DEF AcceptCancel
      <3>2. CASE ~CancelTooLate
        <4>1. \A d \in DOMAIN mailbox, s \in Terminal :
                 /\ mailbox[d] \in Command
                 /\ [mailbox[d] EXCEPT !.status = s] \in Command
          BY <1>1, StatusType
        <4>2. mailbox' \in [DOMAIN mailbox -> Command]
          BY <1>3, <1>10, <3>2, <4>1 DEF AcceptCancel
        <4>3. QED BY <1>1, <4>2, SameDomainSeq
      <3>3. QED BY <3>1, <3>2
    <2>2. {pauseRequest', correctionRequest', cancelRequest'} \subseteq Nat
      BY <1>1, <1>10 DEF AcceptCancel, TypeOK, ControlsTypeOK
    <2>3. QED BY <1>4, <1>10, <2>1, <2>2 DEF TypeOK, ControlsTypeOK, AcceptCancel
  <1>11. QED BY <1>5, <1>6, <1>7, <1>8, <1>9, <1>10

(* A claim stops running invocations only. *)
LEMMA ClaimMoves ==
    ASSUME TypeOK, NEW S, Claim(S), \A a \in S \cap Agents : worker[a] = "running"
    PROVE  /\ worker' \in [Agents -> {"idle"} \cup InFlight \cup Outcomes]
           /\ \A a \in Agents : \/ worker'[a] = worker[a]
                                \/ /\ worker[a] \in InFlight
                                   /\ worker'[a] \in InFlight
  BY DEF Claim, TypeOK, InFlight

(* One command is accepted or rejected; an accepted cancel claims. *)
LEMMA PollAcceptInv == ASSUME IInv, PollAccept PROVE IInv'
  <1> DEFINE c == Min(Unobserved)
  <1>1. TypeOK
    BY DEF IInv
  <1>2. pc = "accept" /\ c \in DOMAIN mailbox /\ UNCHANGED << horizon, schedVars, attempt >>
    BY <1>1, NextUnobserved DEF PollAccept
  <1>3. \/ AcceptGuide(c, active, pending) \/ AcceptCorrect(c) \/ AcceptPause(c)
        \/ AcceptResume(c) \/ AcceptInterrupt(c, active) \/ AcceptCancel(c)
    BY DEF PollAccept
  <1>4. ControlsTypeOK' /\ (paused' => paused)
    BY <1>1, <1>2, <1>3, AcceptType
  <1>5. worker' = worker \/ Claim(Claimable)
    BY DEF PollAccept
  <1>6. /\ worker' \in [Agents -> {"idle"} \cup InFlight \cup Outcomes]
        /\ \A a \in Agents : \/ worker'[a] = worker[a]
                             \/ /\ worker[a] \in InFlight
                                /\ worker'[a] \in InFlight \cup Outcomes
    BY <1>1, <1>5, ClaimMoves DEF Claimable, TypeOK
  <1>7. QED BY <1>1, <1>2, <1>4, <1>6, ThreadsMoveInv DEF TypeOK

(* _advance_deferred keeps the channel in its type, and pauses the run only *)
(* when nothing is active.                                                  *)
LEMMA AdvanceDeferredType ==
    ASSUME IInv, NEW claimable, AdvanceDeferred(active, claimable), UNCHANGED horizon
    PROVE  ControlsTypeOK' /\ (paused' => active = {})
  <1>1. TypeOK /\ mailbox \in Seq(Command)
    BY DEF IInv, TypeOK, ControlsTypeOK
  <1>2. \A d \in DOMAIN mailbox, s \in Terminal :
           /\ mailbox[d] \in Command
           /\ [mailbox[d] EXCEPT !.status = s] \in Command
    BY <1>1, StatusType
  <1>3. mailbox' \in [DOMAIN mailbox -> Command]
    BY <1>2 DEF AdvanceDeferred, Terminal
  <1>4. mailbox' \in Seq(Command)
    BY <1>1, <1>3, SameDomainSeq
  <1>5. interruptRequests' \subseteq Nat /\ pauseRequest' \in Nat
    BY <1>1 DEF AdvanceDeferred, TypeOK, ControlsTypeOK
  <1>6. paused' \in BOOLEAN /\ (paused' => active = {})
    BY <1>1 DEF AdvanceDeferred, SafeCheckpoint, IInv, PausedIsDrained
  <1>7. QED BY <1>1, <1>4, <1>5, <1>6 DEF AdvanceDeferred, TypeOK, ControlsTypeOK

(* poll() ends: what is ready has been cleared by this very poll. *)
LEMMA PollDecideInv == ASSUME IInv, PollDecide PROVE IInv'
  <1>1. TypeOK
    BY DEF IInv
  <1>2. /\ AdvanceDeferred(active, Claimable)
        /\ UNCHANGED << horizon, pending, active, finished, records, firstFailure,
                        qualityAgent, closing, status, iteration, attempt >>
        /\ pc = "accept" /\ pc' \in {"exit", "launch"}
    BY DEF PollDecide
  <1>3. ControlsTypeOK' /\ (paused' => active = {})
    BY <1>2, AdvanceDeferredType
  <1>4. /\ worker' \in [Agents -> {"idle"} \cup InFlight \cup Outcomes]
        /\ \A a \in Agents : \/ worker'[a] = worker[a]
                             \/ /\ worker[a] \in InFlight
                                /\ worker'[a] \in InFlight
    <2>1. Claim(Claimable) \/ Claim({mailbox[c].agent : c \in InterruptsWon(Claimable)})
      BY DEF PollDecide
    <2>2. {mailbox[c].agent : c \in InterruptsWon(Claimable)} \subseteq Claimable
      BY DEF InterruptsWon
    <2>3. \A a \in Claimable : worker[a] = "running"
      BY DEF Claimable
    <2>4. QED BY <1>1, <2>1, <2>2, <2>3, ClaimMoves
  <1>5. Launchable \subseteq pending
    BY DEF Launchable
  <1>6. TypeOK'
    <2>1. decision' \in Decisions /\ controlledStop' \in {"none", "cancel", "correct"}
      BY <1>1 DEF PollDecide, Decision, Decisions, TypeOK
    <2>2. ready' \subseteq Agents
      BY <1>1, <1>5 DEF PollDecide, TypeOK
    <2>3. QED BY <1>1, <1>2, <1>3, <1>4, <2>1, <2>2 DEF TypeOK
  <1>7. BusyIsActive' /\ FinishedHaveEnded' /\ RejectionIsKept'
    <2>1. controlledStop # "none" => controlledStop' # "none"
      BY DEF PollDecide
    <2>2. finished = {}
      BY <1>2 DEF IInv, FinishedHaveEnded
    <2>3. QED BY <1>2, <1>4, <2>1, <2>2
              DEF IInv, BusyIsActive, FinishedHaveEnded, RejectionIsKept, InFlight
  <1>8. ActiveWithinLimits' /\ Unrecorded' /\ PausedIsDrained'
    BY <1>2, <1>3 DEF IInv, ActiveWithinLimits, Unrecorded, PausedIsDrained, Writers
  <1>9. DependenciesFirst'
    BY <1>2, <1>4 DEF IInv, DependenciesFirst, Completed, InFlight
  <1>10. LaunchIsCurrent'
    <2> SUFFICES ASSUME ready' # {} PROVE LaunchIsCurrent'
      BY DEF LaunchIsCurrent
    <2>1. LaunchesAllowed(controlledStop') /\ ready' = Launchable
      BY DEF PollDecide
    <2>2. /\ firstFailure = 0 /\ qualityAgent = 0 /\ controlledStop' = "none"
          /\ cancelRequest = 0 /\ correctionRequest = 0 /\ ~paused /\ pauseRequest = 0
      BY <2>1 DEF LaunchesAllowed, Decision
    <2>3. /\ cancelRequest' = 0 /\ correctionRequest' = 0 /\ ~paused' /\ pauseRequest' = 0
      BY <1>2, <2>2 DEF AdvanceDeferred
    <2>4. /\ \A a \in Launchable : Dependencies[a] \subseteq Completed
          /\ Launchable \subseteq Testers \/ (active \cup Launchable) \cap Testers = {}
      BY DEF Launchable
    <2>5. QED BY <1>2, <1>5, <2>1, <2>2, <2>3, <2>4 DEF LaunchIsCurrent, Completed, Testers
  <1>11. QED BY <1>6, <1>7, <1>8, <1>9, <1>10 DEF IInv

-----------------------------------------------------------------------------
(* The thread moves on without launching or recording. *)
LEMMA LoopStepsInv ==
    ASSUME IInv, PollBegin \/ LoopEnds \/ PassOver \/ Settle \/ Wait \/ EndRun
    PROVE  IInv'
  <1>1. TypeOK
    BY DEF IInv
  <1>2. UNCHANGED << mailbox, channelVars, pending, active, records, firstFailure,
                     qualityAgent, controlledStop, decision, iteration, workerVars >>
    BY DEF PollBegin, LoopEnds, PassOver, Settle, Wait, EndRun
  <1>3. horizon' \in Nat
    BY <1>1 DEF PollBegin, LoopEnds, PassOver, Settle, Wait, EndRun, TypeOK, ControlsTypeOK
  <1>4. ControlsTypeOK'
    BY <1>1, <1>2, <1>3 DEF TypeOK, ControlsTypeOK, channelVars
  <1>5. ready' \subseteq ready /\ (pc' = "launch" => pc = "launch")
    BY <1>1 DEF PollBegin, LoopEnds, PassOver, Settle, Wait, EndRun
  <1>6. FinishedHaveEnded' /\ finished' \subseteq Agents
    <2>1. CASE Wait
      BY <1>1, <2>1 DEF Wait, workerVars, FinishedHaveEnded, TypeOK
    <2>2. CASE PollBegin \/ LoopEnds \/ PassOver \/ Settle \/ EndRun
      BY <1>1, <2>2 DEF PollBegin, LoopEnds, PassOver, Settle, EndRun, workerVars, IInv,
                        FinishedHaveEnded, TypeOK
    <2>3. QED BY <2>1, <2>2
  <1>7. TypeOK'
    <2>1. closing' \in BOOLEAN
      <3>1. closing' = closing \/ closing' = TRUE
        BY DEF PollBegin, LoopEnds, PassOver, Settle, Wait, EndRun
      <3>2. QED BY <1>1, <3>1, Zenon DEF TypeOK
    <2>2. status' \in Statuses
      BY <1>1 DEF PollBegin, LoopEnds, PassOver, Settle, Wait, EndRun, TypeOK, Statuses
    <2>3. pc' \in {"poll", "accept", "launch", "wait", "collect", "exit", "done", "ended"}
      BY <1>1 DEF PollBegin, LoopEnds, PassOver, Settle, Wait, EndRun, TypeOK
    <2>4. QED BY <1>1, <1>2, <1>4, <1>5, <1>6, <2>1, <2>2, <2>3 DEF TypeOK, workerVars
  <1>8. BusyIsActive' /\ RejectionIsKept' /\ ActiveWithinLimits' /\ PausedIsDrained'
    BY <1>2 DEF IInv, BusyIsActive, RejectionIsKept, ActiveWithinLimits, PausedIsDrained,
                Writers, workerVars, channelVars
  <1>9. Unrecorded'
    BY <1>2 DEF IInv, Unrecorded, PollBegin, LoopEnds, PassOver, Settle, Wait, EndRun
  <1>10. DependenciesFirst' /\ LaunchIsCurrent'
    BY <1>2, <1>5 DEF IInv, DependenciesFirst, LaunchIsCurrent, Completed, Testers,
                      workerVars, channelVars
  <1>11. QED BY <1>6, <1>7, <1>8, <1>9, <1>10 DEF IInv

(* A launch: the workspace rule, the cap and the dependencies hold for the  *)
(* enlarged set, and the next candidates are still what the poll found.     *)
LEMMA LaunchAgentInv == ASSUME IInv, LaunchAgent PROVE IInv'
  <1> DEFINE a == Min(ready)
  <1>1. TypeOK /\ pc = "launch" /\ ready # {}
    BY DEF IInv, LaunchAgent
  <1>2. a \in ready /\ a \in Agents /\ a \in pending /\ Cardinality(active) \in Nat
    BY <1>1, FiniteAgents DEF TypeOK, IInv, LaunchIsCurrent
  <1>3. /\ pending' = pending \ {a} /\ active' = active \cup {a} /\ ready' = ready \ {a}
        /\ worker' = [worker EXCEPT ![a] = "admit"]
        /\ Cardinality(active) < MaxConcurrency /\ CanLaunch(a)
        /\ UNCHANGED << mailbox, horizon, channelVars, pc, finished, records, firstFailure,
                        qualityAgent, controlledStop, decision, closing, status, iteration,
                        attempt >>
    BY DEF LaunchAgent
  <1>4. TypeOK'
    <2>1. ControlsTypeOK'
      BY <1>1, <1>3 DEF TypeOK, ControlsTypeOK, channelVars
    <2>2. worker' \in [Agents -> {"idle"} \cup InFlight \cup Outcomes]
      BY <1>1, <1>3 DEF TypeOK, InFlight
    <2>3. QED BY <1>1, <1>2, <1>3, <2>1, <2>2 DEF TypeOK
  <1>5. BusyIsActive' /\ RejectionIsKept'
    BY <1>1, <1>3 DEF IInv, TypeOK, BusyIsActive, RejectionIsKept
  <1>6. ActiveWithinLimits'
    <2>1. Cardinality(active') <= MaxConcurrency
      <3>1. IsFiniteSet(active)
        BY <1>1, FiniteAgents DEF TypeOK
      <3>2. Cardinality(active \cup {a}) \in {Cardinality(active), Cardinality(active) + 1}
        BY <3>1, FS_AddElement, Zenon
      <3>3. QED BY <1>2, <1>3, <3>2, BoundsAssumption
    <2>2. \A b \in active' \cap Writers : active' = {b}
      BY <1>3 DEF CanLaunch
    <2>3. QED BY <2>1, <2>2 DEF ActiveWithinLimits, Writers
  <1>7. FinishedHaveEnded'
    BY <1>1, <1>3 DEF IInv, FinishedHaveEnded
  <1>8. Unrecorded'
    BY <1>2, <1>3 DEF IInv, Unrecorded
  <1>9. DependenciesFirst'
    BY <1>1, <1>2, <1>3 DEF IInv, TypeOK, DependenciesFirst, LaunchIsCurrent, Completed
  <1>10. LaunchIsCurrent' /\ PausedIsDrained'
    BY <1>1, <1>2, <1>3 DEF IInv, LaunchIsCurrent, PausedIsDrained, Completed, Testers,
                            channelVars
  <1>11. QED BY <1>4, <1>5, <1>6, <1>7, <1>8, <1>9, <1>10 DEF IInv

(* A future leaves active when its thread has ended, and only then does     *)
(* the Agent count as completed.                                            *)
LEMMA CollectInv == ASSUME IInv, Collect PROVE IInv'
  <1> DEFINE a == Min(finished)
  <1>1. TypeOK /\ pc = "collect" /\ finished # {}
    BY DEF IInv, Collect, FinishedHaveEnded
  <1>2. a \in finished /\ a \in active /\ a \in Agents /\ worker[a] \in Outcomes
    BY <1>1, FiniteAgents DEF TypeOK, IInv, FinishedHaveEnded
  <1>3. /\ active' = active \ {a} /\ finished' = finished \ {a}
        /\ records' = [records EXCEPT ![a] = RecordState(worker[a])]
        /\ pc' = IF finished' = {} THEN "poll" ELSE "collect"
        /\ UNCHANGED << mailbox, horizon, channelVars, pending, ready, controlledStop,
                        decision, closing, status, iteration, workerVars >>
    BY DEF Collect
  <1>4. RecordState(worker[a]) \in RecordStates \ {"none"}
    BY <1>2 DEF RecordState, RecordStates, Outcomes
  <1>5. /\ firstFailure' \in {firstFailure, a} /\ qualityAgent' \in {qualityAgent, a}
        /\ firstFailure # 0 => firstFailure' # 0
        /\ qualityAgent # 0 => qualityAgent' # 0
        /\ worker[a] = "rejecting" =>
              qualityAgent' # 0 \/ firstFailure' # 0 \/ controlledStop # "none"
    BY <1>2, PlanAssumption DEF Collect
  <1>6. TypeOK'
    <2>1. ControlsTypeOK'
      BY <1>1, <1>3 DEF TypeOK, ControlsTypeOK, channelVars
    <2>2. records' \in [Agents -> RecordStates]
      BY <1>1, <1>3, <1>4 DEF TypeOK
    <2>3. QED BY <1>1, <1>2, <1>3, <1>5, <2>1, <2>2 DEF TypeOK, workerVars
  <1>7. BusyIsActive' /\ RejectionIsKept'
    BY <1>2, <1>3, <1>5 DEF IInv, BusyIsActive, RejectionIsKept, InFlight, Outcomes,
                            workerVars
  <1>8. ActiveWithinLimits'
    <2>1. Cardinality(active') <= Cardinality(active) /\ Cardinality(active') \in Nat
      BY <1>1, <1>3, FiniteAgents, FS_Subset DEF TypeOK
    <2>2. Cardinality(active) \in Nat /\ Cardinality(active) <= MaxConcurrency
      BY <1>1, FiniteAgents DEF TypeOK, IInv, ActiveWithinLimits
    <2>3. \A b \in active' \cap Writers : active' = {b}
      BY <1>3 DEF IInv, ActiveWithinLimits
    <2>4. QED BY <2>1, <2>2, <2>3, BoundsAssumption DEF ActiveWithinLimits, Writers
  <1>9. FinishedHaveEnded'
    BY <1>3 DEF IInv, FinishedHaveEnded, workerVars
  <1>10. Unrecorded'
    BY <1>1, <1>2, <1>3 DEF IInv, TypeOK, Unrecorded
  <1>11. DependenciesFirst'
    <2>1. records[a] # "completed"
      BY <1>1, <1>2 DEF IInv, Unrecorded
    <2>2. Completed \subseteq Completed'
      BY <1>1, <1>3, <2>1 DEF TypeOK, Completed
    <2>3. QED BY <1>3, <2>2 DEF IInv, DependenciesFirst, workerVars
  <1>12. LaunchIsCurrent' /\ PausedIsDrained'
    BY <1>3 DEF IInv, LaunchIsCurrent, PausedIsDrained, channelVars
  <1>13. QED BY <1>6, <1>7, <1>8, <1>9, <1>10, <1>11, <1>12 DEF IInv

(* The end of a pass records what was never launched. *)
LEMMA FinishPassInv == ASSUME IInv, FinishPass PROVE IInv'
  <1>1. TypeOK /\ pc = "exit" /\ pc' = "done"
    BY DEF IInv, FinishPass
  <1>2. UNCHANGED << mailbox, horizon, channelVars, pending, active, ready, finished,
                     firstFailure, qualityAgent, controlledStop, decision, closing,
                     iteration, workerVars >>
    BY DEF FinishPass
  <1>3. /\ records' \in [Agents -> RecordStates]
        /\ \A a \in Agents \ pending : records'[a] = records[a]
    BY <1>1 DEF FinishPass, TypeOK, RecordStates
  <1>4. TypeOK'
    <2>1. ControlsTypeOK'
      BY <1>1, <1>2 DEF TypeOK, ControlsTypeOK, channelVars
    <2>2. status' \in Statuses
      <3>1. PassStatus \in Statuses
        BY DEF PassStatus, Statuses
      <3>2. QED BY <3>1 DEF FinishPass, Statuses
    <2>3. QED BY <1>1, <1>2, <1>3, <2>1, <2>2 DEF TypeOK, workerVars
  <1>5. DependenciesFirst'
    <2>1. \A a \in pending : records[a] # "completed"
      BY <1>1 DEF IInv, Unrecorded
    <2>2. Completed \subseteq Completed'
      BY <1>3, <2>1 DEF Completed
    <2>3. QED BY <1>2, <2>2 DEF IInv, DependenciesFirst, workerVars
  <1>6. QED BY <1>1, <1>2, <1>4, <1>5
            DEF IInv, BusyIsActive, ActiveWithinLimits, FinishedHaveEnded, Unrecorded,
                RejectionIsKept, LaunchIsCurrent, PausedIsDrained, Writers, workerVars,
                channelVars

(* The next iteration starts from idle threads. *)
LEMMA ReviseInv == ASSUME IInv, Revise PROVE IInv'
  <1>1. TypeOK
    BY DEF IInv
  <1>2. ControlsTypeOK'
    BY <1>1 DEF Revise, TypeOK, ControlsTypeOK, channelVars
  <1>3. closing' \in BOOLEAN
    BY Zenon DEF Revise
  <1>4. iteration' \in 1..MaxIterations /\ attempt' \in [Agents -> 1..MaxAttempts]
    BY <1>1, BoundsAssumption DEF Revise, TypeOK
  <1>5. /\ records' \in [Agents -> RecordStates]
        /\ worker' \in [Agents -> {"idle"} \cup InFlight \cup Outcomes]
    BY DEF Revise, RecordStates
  <1>6. TypeOK'
    BY <1>2, <1>3, <1>4, <1>5 DEF Revise, TypeOK, Decisions, Statuses
  <1>7. Cardinality(active') <= MaxConcurrency
    BY FS_EmptySet, BoundsAssumption DEF Revise
  <1>8. QED BY <1>6, <1>7
            DEF Revise, IInv, BusyIsActive, ActiveWithinLimits, FinishedHaveEnded,
                Unrecorded, DependenciesFirst, RejectionIsKept, LaunchIsCurrent,
                PausedIsDrained, InFlight

(* Every step keeps the invariant. *)
LEMMA NextInv == IInv /\ [Next]_vars => IInv'
  <1> SUFFICES ASSUME IInv, [Next]_vars PROVE IInv'
    OBVIOUS
  <1>1. CASE UNCHANGED vars \/ Ended
    <2>1. TypeOK /\ UNCHANGED vars
      BY <1>1 DEF IInv, Ended
    <2>2. ControlsTypeOK'
      BY <2>1 DEF TypeOK, ControlsTypeOK, vars, channelVars
    <2>3. QED BY <2>1, <2>2, ThreadsMoveInv DEF vars, channelVars, workerVars, TypeOK
  <1>2. CASE ConsoleSubmit
    BY <1>2, ConsoleSubmitInv
  <1>3. CASE Scheduler \/ EndRun
    BY <1>3, LoopStepsInv, PollAcceptInv, PollDecideInv, LaunchAgentInv, CollectInv,
       FinishPassInv DEF Scheduler
  <1>4. CASE Revise
    BY <1>4, ReviseInv
  <1>5. CASE \E a \in Agents : Worker(a)
    BY <1>5, WorkerInv
  <1>6. QED BY <1>1, <1>2, <1>3, <1>4, <1>5 DEF Next

-----------------------------------------------------------------------------
(* IInv is an invariant of the scheduler. *)
THEOREM SchedulerInvariant == Spec => []IInv
  BY InitInv, NextInv, PTL DEF Spec

(* The state of the scheduler, its channel and its workers keeps its type.  *)
THEOREM TypeCorrect == Spec => []TypeOK
  <1>1. IInv => TypeOK
    BY DEF IInv
  <1>2. QED BY <1>1, SchedulerInvariant, PTL

(* For every plan and cap, a writing Agent has the workspace to itself, and *)
(* the threads at work never exceed max_concurrency.                        *)
THEOREM WorkspaceIsExclusive == Spec => []WorkspaceExclusive
  <1>1. IInv => WorkspaceExclusive
    <2> SUFFICES ASSUME IInv PROVE WorkspaceExclusive
      OBVIOUS
    <2> DEFINE busy == {a \in Agents : worker[a] \in InFlight}
    <2>1. busy \subseteq active /\ active \in SUBSET Agents
      BY DEF IInv, BusyIsActive, TypeOK
    <2>2. \A a \in busy \cap Writers : busy = {a}
      BY <2>1 DEF IInv, ActiveWithinLimits
    <2>3. IsFiniteSet(active) /\ Cardinality(active) \in Nat
      BY <2>1, FiniteAgents
    <2>4. Cardinality(busy) <= Cardinality(active) /\ Cardinality(busy) \in Nat
      BY <2>1, <2>3, FS_Subset, FiniteAgents
    <2>5. Cardinality(busy) <= MaxConcurrency
      BY <2>3, <2>4, BoundsAssumption DEF IInv, ActiveWithinLimits
    <2>6. QED BY <2>2, <2>5 DEF WorkspaceExclusive
  <1>2. QED BY <1>1, SchedulerInvariant, PTL

(* No thread exists before all the dependencies of its Agent have been      *)
(* recorded completed in the same pass.                                     *)
THEOREM DependenciesRespected == Spec => []DependenciesFirst
  <1>1. IInv => DependenciesFirst
    BY DEF IInv
  <1>2. QED BY <1>1, SchedulerInvariant, PTL

(* A pause is applied only when no Agent thread is left at work, and none   *)
(* is started before the resume.                                            *)
THEOREM PauseIsQuiescent == Spec => []PausedIsQuiescent
  <1>1. IInv => PausedIsQuiescent
    BY DEF IInv, PausedIsDrained, BusyIsActive, PausedIsQuiescent
  <1>2. QED BY <1>1, SchedulerInvariant, PTL

(* Only a launch makes a future active or starts a thread. *)
LEMMA LaunchSteps ==
    ASSUME IInv, [Next]_vars
    PROVE  \/ LaunchAgent
           \/ /\ active' \subseteq active
              /\ \A a \in Agents : worker[a] = "idle" => worker'[a] = "idle"
  <1>1. TypeOK
    BY DEF IInv
  <1>2. CASE PollAccept \/ PollDecide
    <2>1. active' = active
      BY <1>2 DEF PollAccept, PollDecide, schedVars
    <2>2. \/ worker' = worker \/ Claim(Claimable)
          \/ Claim({mailbox[c].agent : c \in InterruptsWon(Claimable)})
      BY <1>2 DEF PollAccept, PollDecide
    <2>3. {mailbox[c].agent : c \in InterruptsWon(Claimable)} \subseteq Claimable
      BY DEF InterruptsWon
    <2>4. \A a \in Claimable : worker[a] = "running"
      BY DEF Claimable
    <2>5. \A a \in Agents : worker[a] = "idle" => worker'[a] = "idle"
      BY <2>2, <2>3, <2>4 DEF Claim
    <2>6. QED BY <2>1, <2>5
  <1>3. CASE \E a \in Agents : Worker(a)
    <2>1. PICK a \in Agents : Worker(a)
      BY <1>3
    <2>2. UNCHANGED active
      BY <2>1 DEF Worker, Admit, Reserve, Spawn, ProcessExits, ProcessStopped, Respond,
                  Retry, Fail, schedVars
    <2>3. worker[a] # "idle" /\ \E to : worker' = [worker EXCEPT ![a] = to]
      BY <2>1 DEF Worker, Admit, Reserve, Spawn, ProcessExits, ProcessStopped, Respond,
                  Retry, Fail, MoveWorker
    <2>4. QED BY <1>1, <2>2, <2>3 DEF TypeOK
  <1>4. CASE Collect
    BY <1>4 DEF Collect, workerVars
  <1>5. CASE Revise
    BY <1>5 DEF Revise
  <1>6. CASE \/ UNCHANGED vars \/ Ended \/ ConsoleSubmit \/ EndRun \/ PollBegin \/ LoopEnds
             \/ PassOver \/ Settle \/ Wait \/ FinishPass
    BY <1>6 DEF vars, Ended, ConsoleSubmit, EndRun, PollBegin, LoopEnds, PassOver, Settle,
                Wait, FinishPass, schedVars, workerVars
  <1>7. QED BY <1>2, <1>3, <1>4, <1>5, <1>6 DEF Next, Scheduler

(* After a failure, a rejecting test report or an accepted stop or pause    *)
(* no step launches an Agent.                                               *)
THEOREM StopsHoldBackLaunches == Spec => NoLaunchAfterStop
  <1>1. IInv /\ [Next]_vars =>
           ((\/ cancelRequest # 0 \/ correctionRequest # 0
             \/ paused \/ pauseRequest # 0
             \/ firstFailure # 0 \/ qualityAgent # 0) => active' \subseteq active)
    BY LaunchSteps DEF IInv, LaunchIsCurrent, LaunchAgent
  <1>2. QED BY <1>1, SchedulerInvariant, PTL DEF Spec, NoLaunchAfterStop

(* No other Agent is started while a Testing Agent is at work or has        *)
(* reported evidence that does not pass.                                    *)
THEOREM TestsComeFirst == Spec => ReviewAfterTests
  <1>1. IInv /\ [Next]_vars =>
           \A a \in Agents \ Testers :
              worker[a] = "idle" /\ worker'[a] = "admit" =>
                 \A t \in Testers : worker[t] \notin InFlight \cup {"rejecting"}
    <2> SUFFICES ASSUME IInv, [Next]_vars, NEW a \in Agents \ Testers,
                        worker[a] = "idle", worker'[a] = "admit", NEW t \in Testers
                 PROVE  worker[t] \notin InFlight \cup {"rejecting"}
      OBVIOUS
    <2>1. LaunchAgent /\ t \in Agents /\ TypeOK
      BY LaunchSteps DEF Testers, IInv
    <2>2. pc = "launch" /\ ready # {} /\ Min(ready) \in ready
      BY <2>1, FiniteAgents DEF LaunchAgent, TypeOK
    <2>3. a = Min(ready)
      BY <2>1, <2>2 DEF LaunchAgent, TypeOK
    <2>4. t \notin active /\ firstFailure = 0 /\ qualityAgent = 0 /\ controlledStop = "none"
      BY <2>2, <2>3 DEF IInv, LaunchIsCurrent
    <2>5. QED BY <2>1, <2>4 DEF IInv, BusyIsActive, RejectionIsKept
  <1>2. QED BY <1>1, SchedulerInvariant, PTL DEF Spec, ReviewAfterTests
-----------------------------------------------------------------------------
(***************************************************************************)
(* The result of a pass.  ResultTellsTheWork compares the records with the *)
(* threads at the end of a pass; RInv says during the pass what will make  *)
(* them agree, and that a pass with work left always finds a candidate:    *)
(* the plan has no cycle, so the RuntimeError of execute is unreachable.   *)
(***************************************************************************)

(* What has not been launched has no thread. *)
IdleIsPending == \A a \in Agents : a \in pending <=> worker[a] = "idle"

(* What is neither pending nor active is recorded as its thread ended. *)
EndedIsRecorded ==
    \A a \in Agents \ (active \cup pending) :
        worker[a] \in Outcomes /\ records[a] = RecordState(worker[a])

(* The pass is left with nothing active, and a closing poll launches        *)
(* nothing.                                                                 *)
LeftDrained ==
    /\ pc \in {"exit", "done", "ended"} => active = {}
    /\ closing => active = {} /\ pc \in {"accept", "exit", "done", "ended"}

(* A failure that is recorded has been noted, unless the pass was stopping. *)
FailureIsNoted ==
    \A a \in Agents : records[a] \in {"failed", "interrupted"} =>
        firstFailure # 0 \/ controlledStop # "none"

(* While nothing stops the pass and nothing is active, a pass with work     *)
(* left has a candidate.                                                    *)
SomethingReady ==
    /\ pc = "launch" /\ active = {} /\ pending # {}
    /\ controlledStop = "none" /\ decision # "hold"
    /\ firstFailure = 0 /\ qualityAgent = 0
    => ready # {}

RInv ==
    /\ IdleIsPending /\ EndedIsRecorded /\ LeftDrained /\ FailureIsNoted
    /\ SomethingReady /\ ResultTellsTheWork

(* At the start every Agent is pending and idle. *)
LEMMA InitR == Init => RInv
  BY DEF Init, StartOfPass, RInv, IdleIsPending, EndedIsRecorded, LeftDrained,
         FailureIsNoted, SomethingReady, ResultTellsTheWork

(* Threads that go on or end while the scheduler thread stays where it is. *)
LEMMA ThreadsMoveR ==
    ASSUME IInv, RInv, UNCHANGED schedVars,
           \A a \in Agents : \/ worker'[a] = worker[a]
                             \/ /\ worker[a] \in InFlight
                                /\ worker'[a] \in InFlight \cup Outcomes
    PROVE  RInv'
  <1> USE DEF schedVars
  <1>1. \A a \in Agents : /\ worker[a] = "idle" <=> worker'[a] = "idle"
                          /\ worker[a] \in Outcomes => worker'[a] = worker[a]
    BY DEF InFlight, Outcomes
  <1>2. IdleIsPending' /\ EndedIsRecorded'
    BY <1>1 DEF RInv, IdleIsPending, EndedIsRecorded
  <1>3. LeftDrained' /\ FailureIsNoted' /\ SomethingReady'
    BY DEF RInv, LeftDrained, FailureIsNoted, SomethingReady
  <1>4. ResultTellsTheWork'
    <2> SUFFICES ASSUME pc \in {"done", "ended"} PROVE ResultTellsTheWork'
      BY DEF ResultTellsTheWork
    <2>1. active = {}
      BY DEF RInv, LeftDrained
    <2>2. \A a \in Agents : worker'[a] = worker[a]
      BY <2>1 DEF IInv, BusyIsActive
    <2>3. QED BY <2>2 DEF RInv, ResultTellsTheWork
  <1>5. QED BY <1>2, <1>3, <1>4 DEF RInv

(* With nothing active, nothing failed and work left, the acyclic plan has  *)
(* a candidate.                                                             *)
LEMMA CandidateExists ==
    ASSUME IInv, RInv, active = {}, pending # {}, firstFailure = 0, controlledStop = "none"
    PROVE  Launchable # {}
  <1> DEFINE candidates == {a \in pending : Dependencies[a] \subseteq Completed}
  <1>1. pending \in SUBSET Agents
    BY DEF IInv, TypeOK
  <1>2. PICK a \in pending : Dependencies[a] \cap pending = {}
    BY <1>1, PlanAssumption
  <1>3. Dependencies[a] \subseteq Agents
    BY <1>1, <1>2, PlanAssumption
  <1>4. \A b \in Agents \ pending : b \in Completed
    <2> SUFFICES ASSUME NEW b \in Agents \ pending PROVE records[b] = "completed"
      BY DEF Completed
    <2>1. worker[b] \in Outcomes /\ records[b] = RecordState(worker[b])
      BY DEF RInv, EndedIsRecorded
    <2>2. records[b] \notin {"failed", "interrupted"}
      BY DEF RInv, FailureIsNoted
    <2>3. QED BY <2>1, <2>2 DEF RecordState, Outcomes
  <1>5. a \in candidates
    BY <1>2, <1>3, <1>4
  <1>6. QED BY <1>5 DEF Launchable

(* poll() ends. *)
LEMMA PollDecideR == ASSUME IInv, RInv, PollDecide PROVE RInv'
  <1>1. /\ UNCHANGED << pending, active, finished, records, firstFailure, qualityAgent,
                        closing, status >>
        /\ pc = "accept" /\ pc' = IF closing THEN "exit" ELSE "launch"
        /\ controlledStop' = IF Decision \in {"cancel", "correct"} THEN Decision
                             ELSE controlledStop
        /\ decision' = Decision
        /\ ready' = IF LaunchesAllowed(controlledStop') THEN Launchable ELSE {}
    BY DEF PollDecide
  <1>2. \A a \in Agents : \/ worker'[a] = worker[a]
                          \/ worker[a] \in InFlight /\ worker'[a] \in InFlight
    <2>1. Claim(Claimable) \/ Claim({mailbox[c].agent : c \in InterruptsWon(Claimable)})
      BY DEF PollDecide
    <2>2. {mailbox[c].agent : c \in InterruptsWon(Claimable)} \subseteq Claimable
      BY DEF InterruptsWon
    <2>3. \A a \in Claimable : worker[a] = "running"
      BY DEF Claimable
    <2>4. QED BY <2>1, <2>2, <2>3, ClaimMoves DEF IInv
  <1>3. \A a \in Agents : /\ worker[a] = "idle" <=> worker'[a] = "idle"
                          /\ worker[a] \in Outcomes => worker'[a] = worker[a]
    BY <1>2 DEF InFlight, Outcomes
  <1>4. IdleIsPending' /\ EndedIsRecorded'
    BY <1>1, <1>3 DEF RInv, IdleIsPending, EndedIsRecorded
  <1>5. LeftDrained' /\ FailureIsNoted'
    BY <1>1 DEF RInv, LeftDrained, FailureIsNoted
  <1>6. SomethingReady'
    <2> SUFFICES ASSUME active = {}, pending # {}, controlledStop' = "none",
                        Decision # "hold", firstFailure = 0, qualityAgent = 0
                 PROVE  ready' # {}
      BY <1>1 DEF SomethingReady
    <2>1. Decision = "continue" /\ controlledStop = "none"
      BY <1>1 DEF Decision
    <2>2. LaunchesAllowed(controlledStop')
      BY <2>1 DEF LaunchesAllowed
    <2>3. QED BY <1>1, <2>1, <2>2, CandidateExists
  <1>7. ResultTellsTheWork'
    BY <1>1 DEF ResultTellsTheWork
  <1>8. QED BY <1>4, <1>5, <1>6, <1>7 DEF RInv

(* The thread moves on without launching or recording; with nothing active  *)
(* the cap and the workspace rule pass no candidate over.                   *)
LEMMA LoopStepsR ==
    ASSUME IInv, RInv, PollBegin \/ LoopEnds \/ PassOver \/ Settle \/ Wait \/ EndRun
    PROVE  RInv'
  <1>1. UNCHANGED << pending, active, records, firstFailure, qualityAgent,
                     controlledStop, decision, worker >>
    BY DEF PollBegin, LoopEnds, PassOver, Settle, Wait, EndRun, workerVars
  <1>2. IdleIsPending' /\ EndedIsRecorded' /\ FailureIsNoted'
    BY <1>1 DEF RInv, IdleIsPending, EndedIsRecorded, FailureIsNoted
  <1>3. LeftDrained'
    BY <1>1 DEF RInv, LeftDrained, PollBegin, LoopEnds, PassOver, Settle, Wait, EndRun, InLoop
  <1>4. SomethingReady'
    <2>1. CASE PassOver
      <3>1. active # {}
        <4> SUFFICES ASSUME active = {} PROVE FALSE
          OBVIOUS
        <4>1. Cardinality(active) = 0
          BY FS_EmptySet
        <4>2. QED BY <2>1, <4>1, BoundsAssumption DEF PassOver, CanLaunch
      <3>2. QED BY <1>1, <3>1 DEF SomethingReady
    <2>2. CASE PollBegin \/ LoopEnds \/ Settle \/ Wait \/ EndRun
      BY <2>2 DEF PollBegin, LoopEnds, Settle, Wait, EndRun, SomethingReady
    <2>3. QED BY <2>1, <2>2
  <1>5. ResultTellsTheWork'
    <2>1. CASE EndRun
      BY <1>1, <2>1 DEF EndRun, RInv, ResultTellsTheWork
    <2>2. CASE Settle
      BY <2>2 DEF Settle, RInv, SomethingReady, ResultTellsTheWork
    <2>3. CASE PollBegin \/ LoopEnds \/ PassOver \/ Wait
      BY <2>3 DEF PollBegin, LoopEnds, PassOver, Wait, ResultTellsTheWork
    <2>4. QED BY <2>1, <2>2, <2>3
  <1>6. QED BY <1>2, <1>3, <1>4, <1>5 DEF RInv

(* A launched Agent leaves the pending ones and gets its thread. *)
LEMMA LaunchAgentR == ASSUME IInv, RInv, LaunchAgent PROVE RInv'
  <1> DEFINE a == Min(ready)
  <1>1. TypeOK /\ pc = "launch" /\ ready # {} /\ a \in Agents
    BY FiniteAgents DEF IInv, LaunchAgent, TypeOK
  <1>2. /\ pending' = pending \ {a} /\ active' = active \cup {a}
        /\ worker' = [worker EXCEPT ![a] = "admit"]
        /\ UNCHANGED << pc, records, firstFailure, controlledStop, closing >>
    BY DEF LaunchAgent
  <1>3. IdleIsPending'
    BY <1>1, <1>2 DEF RInv, TypeOK, IdleIsPending
  <1>4. EndedIsRecorded'
    BY <1>1, <1>2 DEF RInv, TypeOK, EndedIsRecorded
  <1>5. LeftDrained' /\ FailureIsNoted'
    BY <1>1, <1>2 DEF RInv, LeftDrained, FailureIsNoted
  <1>6. SomethingReady' /\ ResultTellsTheWork'
    BY <1>1, <1>2 DEF SomethingReady, ResultTellsTheWork
  <1>7. QED BY <1>3, <1>4, <1>5, <1>6 DEF RInv

(* A collected future is recorded as its thread ended, and a failure noted. *)
LEMMA CollectR == ASSUME IInv, RInv, Collect PROVE RInv'
  <1> DEFINE a == Min(finished)
  <1>1. TypeOK /\ pc = "collect" /\ finished # {}
    BY DEF IInv, Collect, FinishedHaveEnded
  <1>2. a \in Agents /\ a # 0 /\ a \in active /\ worker[a] \in Outcomes
    BY <1>1, FiniteAgents, PlanAssumption DEF TypeOK, IInv, FinishedHaveEnded
  <1>3. /\ active' = active \ {a} /\ pc' \in {"poll", "collect"}
        /\ records' = [records EXCEPT ![a] = RecordState(worker[a])]
        /\ firstFailure' = IF /\ worker[a] \in {"failed", "interrupted"}
                              /\ firstFailure = 0 /\ controlledStop = "none"
                           THEN a ELSE firstFailure
        /\ UNCHANGED << pending, controlledStop, closing, worker >>
    BY DEF Collect, workerVars
  <1>4. IdleIsPending'
    BY <1>3 DEF RInv, IdleIsPending
  <1>5. EndedIsRecorded'
    BY <1>1, <1>2, <1>3 DEF RInv, TypeOK, EndedIsRecorded
  <1>6. LeftDrained'
    BY <1>1, <1>3 DEF RInv, LeftDrained
  <1>7. FailureIsNoted'
    <2> SUFFICES ASSUME NEW b \in Agents, records'[b] \in {"failed", "interrupted"}
                 PROVE  firstFailure' # 0 \/ controlledStop' # "none"
      BY DEF FailureIsNoted
    <2>1. CASE b = a
      <3>1. worker[a] \in {"failed", "interrupted"}
        BY <1>1, <1>2, <1>3, <2>1 DEF TypeOK, RecordState
      <3>2. QED BY <1>2, <1>3, <3>1
    <2>2. CASE b # a
      BY <1>1, <1>2, <1>3, <2>2 DEF TypeOK, RInv, FailureIsNoted
    <2>3. QED BY <2>1, <2>2
  <1>8. SomethingReady' /\ ResultTellsTheWork'
    BY <1>3 DEF SomethingReady, ResultTellsTheWork
  <1>9. QED BY <1>4, <1>5, <1>6, <1>7, <1>8 DEF RInv

(* The end of the pass: only what is pending is recorded as not started.    *)
LEMMA FinishPassR == ASSUME IInv, RInv, FinishPass PROVE RInv'
  <1>1. /\ pc = "exit" /\ pc' = "done" /\ active = {}
        /\ status' = IF ValidResult(PassStatus, records') THEN PassStatus ELSE "invalid"
        /\ UNCHANGED << pending, active, firstFailure, qualityAgent, controlledStop,
                        closing, worker >>
    BY DEF FinishPass, workerVars, RInv, LeftDrained
  <1>2. /\ \A a \in Agents \ pending : records'[a] = records[a]
        /\ \A a \in pending : records'[a] \in {"skipped", "cancelled"}
    BY DEF FinishPass, IInv, TypeOK
  <1>3. IdleIsPending' /\ EndedIsRecorded' /\ LeftDrained'
    BY <1>1, <1>2 DEF RInv, IdleIsPending, EndedIsRecorded, LeftDrained
  <1>4. FailureIsNoted' /\ SomethingReady'
    BY <1>1, <1>2 DEF RInv, FailureIsNoted, SomethingReady
  <1>5. \A a \in Agents \ pending :
           worker[a] \in Outcomes /\ records'[a] = RecordState(worker[a])
    BY <1>1, <1>2 DEF RInv, EndedIsRecorded
  <1>6. \A a \in Agents : worker'[a] \notin InFlight
    BY <1>1 DEF IInv, BusyIsActive
  <1>7. \A a \in Agents : (records'[a] \in {"skipped", "cancelled"}) <=> worker'[a] = "idle"
    <2>1. \A a \in Agents \ pending : records'[a] \notin {"skipped", "cancelled"}
      BY <1>5 DEF RecordState, Outcomes
    <2>2. QED BY <1>1, <1>2, <2>1 DEF RInv, IdleIsPending
  <1>8. ASSUME status' = "completed", NEW a \in Agents PROVE worker'[a] = "completed"
    <2>1. PassStatus = "completed" /\ ValidResult("completed", records')
      BY <1>1, <1>8
    <2>2. records'[a] = "completed"
      BY <2>1 DEF ValidResult
    <2>3. firstFailure = 0 /\ qualityAgent = 0 /\ controlledStop = "none"
      BY <2>1 DEF PassStatus, IInv, TypeOK
    <2>4. worker[a] # "rejecting"
      BY <1>1, <2>3 DEF IInv, RejectionIsKept
    <2>5. a \notin pending
      BY <1>2, <2>2
    <2>6. QED BY <1>1, <1>5, <2>2, <2>4, <2>5 DEF RecordState
  <1>9. status' # "unschedulable"
    BY <1>1 DEF PassStatus
  <1>10. ResultTellsTheWork'
    BY <1>6, <1>7, <1>8, <1>9 DEF ResultTellsTheWork
  <1>11. QED BY <1>3, <1>4, <1>10 DEF RInv

(* Every step keeps RInv. *)
LEMMA NextR == IInv /\ RInv /\ [Next]_vars => RInv'
  <1> SUFFICES ASSUME IInv, RInv, [Next]_vars PROVE RInv'
    OBVIOUS
  <1>1. CASE UNCHANGED vars \/ Ended \/ ConsoleSubmit
    <2>1. UNCHANGED << schedVars, worker >>
      BY <1>1 DEF vars, Ended, ConsoleSubmit, workerVars
    <2>2. QED BY <2>1, ThreadsMoveR
  <1>2. CASE PollAccept
    <2>1. worker' = worker \/ Claim(Claimable)
      BY <1>2 DEF PollAccept
    <2>2. \A a \in Agents : \/ worker'[a] = worker[a]
                            \/ worker[a] \in InFlight /\ worker'[a] \in InFlight
      BY <2>1, ClaimMoves DEF IInv, Claimable
    <2>3. UNCHANGED schedVars
      BY <1>2 DEF PollAccept
    <2>4. QED BY <2>2, <2>3, ThreadsMoveR
  <1>3. CASE \E a \in Agents : Worker(a)
    <2>1. PICK a \in Agents : Worker(a)
      BY <1>3
    <2>2. UNCHANGED schedVars
      BY <2>1 DEF Worker, Admit, Reserve, Spawn, ProcessExits, ProcessStopped, Respond,
                  Retry, Fail
    <2>3. /\ worker[a] \in InFlight
          /\ \E to \in InFlight \cup Outcomes : worker' = [worker EXCEPT ![a] = to]
      BY <2>1 DEF Worker, Admit, Reserve, Spawn, ProcessExits, ProcessStopped, Respond,
                  Retry, Fail, MoveWorker, InFlight, Outcomes
    <2>4. \A b \in Agents : \/ worker'[b] = worker[b]
                            \/ /\ worker[b] \in InFlight
                               /\ worker'[b] \in InFlight \cup Outcomes
      BY <2>3 DEF IInv, TypeOK
    <2>5. QED BY <2>2, <2>4, ThreadsMoveR
  <1>4. CASE Revise
    BY <1>4 DEF Revise, RInv, IdleIsPending, EndedIsRecorded, LeftDrained,
                FailureIsNoted, SomethingReady, ResultTellsTheWork
  <1>5. QED BY <1>1, <1>2, <1>3, <1>4, PollDecideR, LoopStepsR, LaunchAgentR, CollectR,
               FinishPassR DEF Next, Scheduler

(* The result of a pass tells what its threads did, for every plan without  *)
(* a cycle, and execute never raises its RuntimeError.                      *)
THEOREM ResultsTell == Spec => []ResultTellsTheWork
  <1>1. RInv => ResultTellsTheWork
    BY DEF RInv
  <1>2. QED BY <1>1, InitR, NextR, SchedulerInvariant, PTL DEF Spec

-----------------------------------------------------------------------------
(***************************************************************************)
(* The commands.  What the channel remembers of a command has to agree     *)
(* with the revision the mailbox holds: a poll that took a command twice,  *)
(* or resolved one it had already resolved, would be refused by the store. *)
(***************************************************************************)

(* A request of that kind, seen by a poll. *)
Seen(c, kind) == c \in DOMAIN mailbox /\ c \in observed /\ mailbox[c].kind = kind

(* The commands that the channel remembers, and in which revision. *)
Remembered ==
    /\ pauseRequest # 0 =>
          Seen(pauseRequest, "pause") /\ mailbox[pauseRequest].status = "queued"
    /\ correctionRequest # 0 =>
          /\ Seen(correctionRequest, "correct")
          /\ mailbox[correctionRequest].status \in {"queued", "applied"}
    /\ cancelRequest # 0 =>
          Seen(cancelRequest, "cancel") /\ mailbox[cancelRequest].status = "applied"
    /\ \A c \in interruptRequests : Seen(c, "interrupt") /\ mailbox[c].status = "queued"

(* An applied cancel is the one the channel remembers. *)
CancelIsOwned ==
    \A c \in DOMAIN mailbox :
        mailbox[c].kind = "cancel" /\ mailbox[c].status = "applied" => cancelRequest = c

(* Outside of a poll the pass knows of the cancel, and its result tells it. *)
CancelIsKnown ==
    /\ controlledStop = "cancel" => cancelRequest # 0
    /\ pc # "accept" /\ cancelRequest # 0 => controlledStop = "cancel"
    /\ pc \in {"done", "ended"} => (status = "cancelled" <=> controlledStop = "cancel")

CInv == Remembered /\ CancelIsOwned /\ CancelIsKnown

(* Two mailboxes hold the same commands, in whatever revision. *)
SameCommands(m, n) ==
    /\ DOMAIN n = DOMAIN m
    /\ \A d \in DOMAIN m : n[d].kind = m[d].kind /\ n[d].agent = m[d].agent

(* A terminal revision stays as it is. *)
TerminalStays(m, n) == \A d \in DOMAIN m : m[d].status \in Terminal => n[d] = m[d]

(* resolve() gives one command its status. *)
LEMMA ResolvedIs ==
    ASSUME NEW m \in Seq(Command), NEW c \in DOMAIN m, NEW s \in Terminal
    PROVE  /\ SameCommands(m, Resolved(m, c, s))
           /\ Resolved(m, c, s)[c].status = s
           /\ \A d \in DOMAIN m : d # c => Resolved(m, c, s)[d] = m[d]
  <1>1. \A d \in DOMAIN m : m[d] \in Command
    BY ElementOfSeq
  <1>2. Resolved(m, c, s) =
           [d \in DOMAIN m |-> IF d = c THEN [m[d] EXCEPT !.status = s] ELSE m[d]]
    BY DEF Resolved
  <1>3. /\ [m[c] EXCEPT !.status = s].status = s
        /\ [m[c] EXCEPT !.status = s].kind = m[c].kind
        /\ [m[c] EXCEPT !.status = s].agent = m[c].agent
    BY <1>1 DEF Command
  <1>4. QED BY <1>2, <1>3 DEF SameCommands

(* The channel state is what the CInv conjuncts on it read. *)
LEMMA MailboxFacts ==
    ASSUME TypeOK
    PROVE  /\ mailbox \in Seq(Command) /\ DOMAIN mailbox \subseteq Nat \ {0}
           /\ \A d \in DOMAIN mailbox : mailbox[d] \in Command
  <1>1. mailbox \in Seq(Command)
    BY DEF TypeOK, ControlsTypeOK
  <1>2. QED BY <1>1, ElementOfSeq

(* At the start there is no command. *)
LEMMA InitC == Init => CInv
  BY DEF Init, StartOfPass, ControlsInit, CInv, Remembered, CancelIsOwned, CancelIsKnown

(* A new request is not yet seen by any poll. *)
LEMMA ConsoleSubmitC == ASSUME IInv, CInv, ConsoleSubmit PROVE CInv'
  <1>1. TypeOK
    BY DEF IInv
  <1>2. PICK r \in Requests : Submit(r)
    BY DEF ConsoleSubmit
  <1> DEFINE e == [kind |-> r.kind, agent |-> r.agent, scope |-> r.scope, status |-> "queued"]
  <1>3. /\ DOMAIN mailbox' = DOMAIN mailbox \cup {Len(mailbox) + 1}
        /\ \A d \in DOMAIN mailbox : mailbox'[d] = mailbox[d]
        /\ mailbox'[Len(mailbox) + 1] = e
    BY <1>1, <1>2, MailboxFacts DEF Submit
  <1>4. e.status # "applied"
    OBVIOUS
  <1>5. UNCHANGED << channelVars, schedVars >>
    BY DEF ConsoleSubmit
  <1>6. Remembered'
    BY <1>3, <1>5 DEF CInv, Remembered, Seen, channelVars
  <1>7. CancelIsOwned'
    BY <1>3, <1>4, <1>5 DEF CInv, CancelIsOwned, channelVars
  <1>8. CancelIsKnown'
    BY <1>5 DEF CInv, CancelIsKnown, channelVars, schedVars
  <1>9. QED BY <1>6, <1>7, <1>8 DEF CInv

(* The command that the poll takes is queued, and remembered nowhere. *)
LEMMA TakenIsNew ==
    ASSUME IInv, CInv, Unobserved # {}
    PROVE  LET c == Min(Unobserved)
           IN  /\ c \in DOMAIN mailbox /\ c \in Nat \ {0}
               /\ c \notin observed /\ mailbox[c].status = "queued"
               /\ c \notin interruptRequests
               /\ c \notin {pauseRequest, correctionRequest, cancelRequest}
  <1>1. TypeOK
    BY DEF IInv
  <1>2. Unobserved \in SUBSET Nat
    BY <1>1, MailboxFacts DEF Unobserved
  <1>3. Min(Unobserved) \in Unobserved
    BY <1>2, MinIn
  <1>4. Min(Unobserved) \in DOMAIN mailbox /\ Min(Unobserved) # 0
    BY <1>1, <1>3, MailboxFacts DEF Unobserved
  <1>5. QED BY <1>2, <1>3, <1>4 DEF Unobserved, CInv, Remembered, Seen

(* One command is accepted or rejected: it alone changes its revision, but  *)
(* for the requests that a resume or a cancel withdraws.                    *)
LEMMA AcceptC ==
    ASSUME IInv, CInv, PollAccept
    PROVE  /\ Remembered' /\ CancelIsOwned'
           /\ SameCommands(mailbox, mailbox') /\ TerminalStays(mailbox, mailbox')
           /\ \A d \in DOMAIN mailbox :
                 mailbox[d].kind = "interrupt" => mailbox'[d].status # "applied"
                                                  \/ mailbox'[d] = mailbox[d]
           /\ cancelRequest # 0 => cancelRequest' # 0
  <1> DEFINE c == Min(Unobserved)
  <1>1. TypeOK /\ Remembered /\ CancelIsOwned
    BY DEF IInv, CInv
  <1>2. /\ c \in DOMAIN mailbox /\ c \in Nat \ {0}
        /\ c \notin observed /\ mailbox[c].status = "queued"
        /\ c \notin interruptRequests
        /\ c \notin {pauseRequest, correctionRequest, cancelRequest}
    BY TakenIsNew DEF PollAccept
  <1>3. mailbox \in Seq(Command) /\ 0 \notin DOMAIN mailbox
    BY <1>1, MailboxFacts
  <1>4. \A s \in Terminal : /\ SameCommands(mailbox, Resolved(mailbox, c, s))
                            /\ Resolved(mailbox, c, s)[c].status = s
                            /\ \A d \in DOMAIN mailbox :
                                  d # c => Resolved(mailbox, c, s)[d] = mailbox[d]
    BY <1>2, <1>3, ResolvedIs
  <1>5. {"applied", "rejected", "superseded"} \subseteq Terminal /\ "queued" \notin Terminal
    BY DEF Terminal
  <1> HIDE DEF c
  <1>6. CASE AcceptGuide(c, active, pending)
    BY <1>1, <1>2, <1>3, <1>4, <1>5, <1>6
       DEF AcceptGuide, Observe, Remembered, CancelIsOwned, Seen, SameCommands, TerminalStays
  <1>7. CASE AcceptCorrect(c)
    BY <1>1, <1>2, <1>3, <1>4, <1>5, <1>7
       DEF AcceptCorrect, Observe, Remembered, CancelIsOwned, Seen, SameCommands, TerminalStays
  <1>8. CASE AcceptPause(c)
    BY <1>1, <1>2, <1>3, <1>4, <1>5, <1>8
       DEF AcceptPause, Observe, Remembered, CancelIsOwned, Seen, SameCommands, TerminalStays
  <1>9. CASE AcceptResume(c)
    <2>1. CASE pauseRequest = 0
      BY <1>1, <1>2, <1>3, <1>4, <1>5, <1>9, <2>1
         DEF AcceptResume, Observe, Remembered, CancelIsOwned, Seen, SameCommands,
             TerminalStays
    <2>2. CASE pauseRequest # 0
      <3> DEFINE p == pauseRequest
      <3> DEFINE m == Resolved(mailbox, p, "superseded")
      <3>1. p \in DOMAIN mailbox /\ p # c /\ mailbox[p].kind = "pause" /\ mailbox[p].status = "queued"
        BY <1>1, <1>2, <2>2 DEF Remembered, Seen
      <3>2. /\ SameCommands(mailbox, m) /\ m[p].status = "superseded"
            /\ \A d \in DOMAIN mailbox : d # p => m[d] = mailbox[d]
        BY <1>3, <1>5, <3>1, ResolvedIs
      <3>3. m \in Seq(Command)
        BY <1>3, <1>5, ResolvedType
      <3> HIDE DEF m
      <3>4. /\ SameCommands(m, Resolved(m, c, "applied"))
            /\ Resolved(m, c, "applied")[c].status = "applied"
            /\ \A d \in DOMAIN m : d # c => Resolved(m, c, "applied")[d] = m[d]
        BY <1>2, <1>5, <3>2, <3>3, ResolvedIs DEF SameCommands
      <3>5. /\ mailbox' = Resolved(m, c, "applied") /\ pauseRequest' = 0
            /\ observed' = observed \cup {c} /\ mailbox[c].kind = "resume"
            /\ UNCHANGED << correctionRequest, cancelRequest, interruptRequests >>
        BY <1>9, <2>2 DEF AcceptResume, Observe, m
      <3>6. /\ SameCommands(mailbox, mailbox')
            /\ \A d \in DOMAIN mailbox : d \notin {p, c} => mailbox'[d] = mailbox[d]
            /\ mailbox'[p].status = "superseded" /\ mailbox'[c].status = "applied"
        BY <1>2, <3>1, <3>2, <3>4, <3>5 DEF SameCommands
      <3>7. QED BY <1>1, <1>2, <1>3, <1>5, <3>1, <3>5, <3>6
                DEF Remembered, CancelIsOwned, Seen, SameCommands, TerminalStays
    <2>3. QED BY <2>1, <2>2
  <1>10. CASE AcceptInterrupt(c, active)
    BY <1>1, <1>2, <1>3, <1>4, <1>5, <1>10
       DEF AcceptInterrupt, Observe, Remembered, CancelIsOwned, Seen, SameCommands,
           TerminalStays
  <1>11. CASE AcceptCancel(c) /\ CancelTooLate
    BY <1>1, <1>2, <1>3, <1>4, <1>5, <1>11
       DEF AcceptCancel, Observe, Remembered, CancelIsOwned, Seen, SameCommands, TerminalStays
  <1>12. CASE AcceptCancel(c) /\ ~CancelTooLate
    <2>1. /\ mailbox' = [d \in DOMAIN mailbox |->
                            CASE d = c -> [mailbox[d] EXCEPT !.status = "applied"]
                              [] d # c /\ d \in {pauseRequest, correctionRequest} ->
                                    [mailbox[d] EXCEPT !.status = "superseded"]
                              [] OTHER -> mailbox[d]]
          /\ pauseRequest' = 0 /\ correctionRequest' = 0 /\ cancelRequest' = c
          /\ observed' = observed \cup {c} /\ mailbox[c].kind = "cancel"
          /\ UNCHANGED interruptRequests
          /\ cancelRequest = 0
          /\ correctionRequest = 0 \/ mailbox[correctionRequest].status \notin Terminal
      BY <1>12 DEF AcceptCancel, CancelTooLate, Observe
    <2>2. \A d \in DOMAIN mailbox, s \in Terminal :
             /\ [mailbox[d] EXCEPT !.status = s].status = s
             /\ [mailbox[d] EXCEPT !.status = s].kind = mailbox[d].kind
             /\ [mailbox[d] EXCEPT !.status = s].agent = mailbox[d].agent
      BY <1>1, MailboxFacts DEF Command
    <2>3. /\ SameCommands(mailbox, mailbox') /\ mailbox'[c].status = "applied"
          /\ \A d \in DOMAIN mailbox :
                d \in {pauseRequest, correctionRequest} => mailbox'[d].status = "superseded"
          /\ \A d \in DOMAIN mailbox :
                d \notin {c, pauseRequest, correctionRequest} => mailbox'[d] = mailbox[d]
      BY <1>2, <1>5, <2>1, <2>2 DEF SameCommands
    <2>4. \A d \in DOMAIN mailbox : d \in {pauseRequest, correctionRequest} =>
             mailbox[d].status = "queued" /\ mailbox[d].kind \in {"pause", "correct"}
      BY <1>1, <1>3, <1>5, <2>1 DEF Remembered, Seen
    <2>5. Remembered'
      <3>1. \A d \in interruptRequests :
               d \in DOMAIN mailbox /\ d \in observed /\ mailbox[d].kind = "interrupt"
               /\ mailbox[d].status = "queued"
        BY <1>1 DEF Remembered, Seen
      <3>2. \A d \in interruptRequests : mailbox'[d] = mailbox[d]
        BY <1>2, <2>3, <2>4, <3>1
      <3>3. \A d \in interruptRequests' :
               Seen(d, "interrupt")' /\ mailbox'[d].status = "queued"
        BY <2>1, <2>3, <3>1, <3>2 DEF Seen, SameCommands
      <3>4. Seen(cancelRequest, "cancel")' /\ mailbox'[cancelRequest'].status = "applied"
        BY <1>2, <2>1, <2>3 DEF Seen, SameCommands
      <3>5. QED BY <2>1, <3>3, <3>4 DEF Remembered
    <2>6. CancelIsOwned'
      <3>1. \A d \in DOMAIN mailbox :
               mailbox[d].kind = "cancel" /\ mailbox[d].status = "applied" => FALSE
        BY <1>1, <1>3, <2>1 DEF CancelIsOwned
      <3>2. QED BY <2>1, <2>3, <2>4, <3>1 DEF CancelIsOwned, SameCommands
    <2>7. TerminalStays(mailbox, mailbox')
      BY <1>2, <1>5, <2>3, <2>4 DEF TerminalStays
    <2>8. \A d \in DOMAIN mailbox :
             mailbox[d].kind = "interrupt" => mailbox'[d] = mailbox[d]
      BY <2>1, <2>3, <2>4
    <2>9. QED BY <1>2, <2>1, <2>3, <2>5, <2>6, <2>7, <2>8
  <1>13. QED BY <1>6, <1>7, <1>8, <1>9, <1>10, <1>11, <1>12 DEF PollAccept, c

(* _advance_deferred resolves only what the channel remembers, a pause and  *)
(* a correction at a safe checkpoint, an interrupt when its Agent is gone   *)
(* or when it wins the stop authority.                                      *)
LEMMA AdvanceC ==
    ASSUME IInv, CInv, AdvanceDeferred(active, Claimable)
    PROVE  /\ Remembered' /\ CancelIsOwned'
           /\ SameCommands(mailbox, mailbox') /\ TerminalStays(mailbox, mailbox')
           /\ \A d \in DOMAIN mailbox :
                 mailbox[d].kind = "interrupt" /\ mailbox'[d].status = "applied" =>
                    mailbox'[d] = mailbox[d] \/ d \in InterruptsWon(Claimable)
  <1> DEFINE gone == InterruptsGone(active)
  <1> DEFINE won == InterruptsWon(Claimable) \ gone
  <1> DEFINE checkpoint == IF active = {} THEN {pauseRequest, correctionRequest} ELSE {}
  <1>1. TypeOK /\ Remembered /\ CancelIsOwned
    BY DEF IInv, CInv
  <1>2. /\ mailbox' =
              [d \in DOMAIN mailbox |->
                  CASE d \in gone -> [mailbox[d] EXCEPT !.status = "best_effort_failed"]
                    [] d \notin gone /\ (d \in won \cup checkpoint) ->
                          [mailbox[d] EXCEPT !.status = "applied"]
                    [] OTHER -> mailbox[d]]
        /\ interruptRequests' = interruptRequests \ (gone \cup won)
        /\ pauseRequest' = IF active = {} THEN 0 ELSE pauseRequest
        /\ UNCHANGED << observed, correctionRequest, cancelRequest >>
    BY DEF AdvanceDeferred, SafeCheckpoint
  <1>3. gone \subseteq interruptRequests /\ won \subseteq InterruptsWon(Claimable)
        /\ won \subseteq interruptRequests
    BY DEF InterruptsGone, InterruptsWon
  <1>4. checkpoint \subseteq {pauseRequest, correctionRequest}
        /\ (active # {} => checkpoint = {})
    OBVIOUS
  <1> HIDE DEF gone, won, checkpoint
  <1>5. \A d \in DOMAIN mailbox, s \in Terminal :
           /\ [mailbox[d] EXCEPT !.status = s].status = s
           /\ [mailbox[d] EXCEPT !.status = s].kind = mailbox[d].kind
           /\ [mailbox[d] EXCEPT !.status = s].agent = mailbox[d].agent
           /\ mailbox[d].status = s => [mailbox[d] EXCEPT !.status = s] = mailbox[d]
    BY <1>1, MailboxFacts DEF Command
  <1>6. {"applied", "best_effort_failed"} \subseteq Terminal /\ "queued" \notin Terminal
    BY DEF Terminal
  <1>7. 0 \notin DOMAIN mailbox
    BY <1>1, MailboxFacts
  <1>8. \A d \in interruptRequests :
           /\ d \in DOMAIN mailbox /\ d \in observed
           /\ mailbox[d].kind = "interrupt" /\ mailbox[d].status = "queued"
    BY <1>1 DEF Remembered, Seen
  <1>9. \A d \in checkpoint \cap DOMAIN mailbox :
           /\ mailbox[d].kind \in {"pause", "correct"}
           /\ mailbox[d].status \in {"queued", "applied"}
    BY <1>1, <1>4, <1>7 DEF Remembered, Seen
  <1>10. /\ SameCommands(mailbox, mailbox')
         /\ \A d \in DOMAIN mailbox : \/ d \notin gone \cup won \cup checkpoint
                                         /\ mailbox'[d] = mailbox[d]
                                      \/ d \in gone /\ mailbox'[d].status = "best_effort_failed"
                                      \/ d \in won /\ mailbox'[d].status = "applied"
                                      \/ d \in checkpoint /\ mailbox'[d].status = "applied"
         /\ \A d \in checkpoint \cap DOMAIN mailbox : d \notin gone
         /\ \A d \in checkpoint \cap DOMAIN mailbox :
               mailbox[d].status = "applied" => mailbox'[d] = mailbox[d]
    BY <1>2, <1>3, <1>5, <1>6, <1>8, <1>9 DEF SameCommands
  <1>11. TerminalStays(mailbox, mailbox')
    BY <1>3, <1>6, <1>8, <1>9, <1>10 DEF TerminalStays
  <1>12. CancelIsOwned'
    BY <1>1, <1>2, <1>3, <1>8, <1>9, <1>10 DEF CancelIsOwned, SameCommands
  <1>13. Remembered'
    <2>1. pauseRequest' # 0 => Seen(pauseRequest, "pause")' /\ mailbox'[pauseRequest'].status = "queued"
      <3> SUFFICES ASSUME pauseRequest # 0, active # {}
                   PROVE  Seen(pauseRequest, "pause")' /\ mailbox'[pauseRequest'].status = "queued"
        BY <1>2
      <3>1. pauseRequest' = pauseRequest /\ checkpoint = {}
        BY <1>2, <1>4
      <3>2. Seen(pauseRequest, "pause") /\ mailbox[pauseRequest].status = "queued"
        BY <1>1 DEF Remembered
      <3>3. pauseRequest \notin gone \cup won \cup checkpoint
        BY <1>3, <1>8, <3>1, <3>2 DEF Seen
      <3>4. mailbox'[pauseRequest] = mailbox[pauseRequest]
        BY <1>10, <3>2, <3>3 DEF Seen
      <3>5. QED BY <1>2, <1>10, <3>1, <3>2, <3>4 DEF Seen, SameCommands
    <2>2. correctionRequest' # 0 =>
             /\ Seen(correctionRequest, "correct")'
             /\ mailbox'[correctionRequest'].status \in {"queued", "applied"}
      <3> SUFFICES ASSUME correctionRequest # 0
                   PROVE  /\ Seen(correctionRequest, "correct")'
                          /\ mailbox'[correctionRequest'].status \in {"queued", "applied"}
        BY <1>2
      <3>1. /\ Seen(correctionRequest, "correct")
            /\ mailbox[correctionRequest].status \in {"queued", "applied"}
        BY <1>1 DEF Remembered
      <3>2. correctionRequest \notin gone \cup won
        BY <1>3, <1>8, <3>1 DEF Seen
      <3>3. mailbox'[correctionRequest].status \in {"queued", "applied"}
        BY <1>10, <3>1, <3>2 DEF Seen
      <3>4. QED BY <1>2, <1>10, <3>1, <3>3 DEF Seen, SameCommands
    <2>3. cancelRequest' # 0 =>
             Seen(cancelRequest, "cancel")' /\ mailbox'[cancelRequest'].status = "applied"
      <3> SUFFICES ASSUME cancelRequest # 0
                   PROVE  /\ Seen(cancelRequest, "cancel")'
                          /\ mailbox'[cancelRequest'].status = "applied"
        BY <1>2
      <3>1. Seen(cancelRequest, "cancel") /\ mailbox[cancelRequest].status = "applied"
        BY <1>1 DEF Remembered
      <3>2. mailbox'[cancelRequest] = mailbox[cancelRequest]
        BY <1>6, <1>11, <3>1 DEF TerminalStays, Seen
      <3>3. QED BY <1>2, <1>10, <3>1, <3>2 DEF Seen, SameCommands
    <2>4. \A d \in interruptRequests' :
             Seen(d, "interrupt")' /\ mailbox'[d].status = "queued"
      <3> SUFFICES ASSUME NEW d \in interruptRequests, d \notin gone \cup won
                   PROVE  Seen(d, "interrupt")' /\ mailbox'[d].status = "queued"
        BY <1>2
      <3>1. d \in DOMAIN mailbox /\ d \notin checkpoint
        BY <1>8, <1>9
      <3>2. mailbox'[d] = mailbox[d]
        BY <1>10, <3>1
      <3>3. QED BY <1>2, <1>8, <1>10, <3>1, <3>2 DEF Seen, SameCommands
    <2>5. QED BY <2>1, <2>2, <2>3, <2>4 DEF Remembered
  <1>14. \A d \in DOMAIN mailbox :
            mailbox[d].kind = "interrupt" /\ mailbox'[d].status = "applied" =>
               mailbox'[d] = mailbox[d] \/ d \in InterruptsWon(Claimable)
    BY <1>3, <1>9, <1>10
  <1>15. QED BY <1>10, <1>11, <1>12, <1>13, <1>14

(* Every step keeps CInv. *)
LEMMA NextC == IInv /\ CInv /\ [Next]_vars => CInv'
  <1> SUFFICES ASSUME IInv, CInv, [Next]_vars PROVE CInv'
    OBVIOUS
  <1>1. ASSUME UNCHANGED << mailbox, observed, pauseRequest, correctionRequest,
                            cancelRequest, interruptRequests >>
        PROVE  Remembered' /\ CancelIsOwned'
    BY <1>1 DEF CInv, Remembered, CancelIsOwned, Seen
  <1>2. CASE ConsoleSubmit
    BY <1>2, ConsoleSubmitC
  <1>3. CASE PollAccept
    <2>1. UNCHANGED schedVars /\ pc = "accept"
      BY <1>3 DEF PollAccept
    <2>2. CancelIsKnown'
      BY <1>3, <2>1, AcceptC DEF CInv, CancelIsKnown, schedVars
    <2>3. QED BY <1>3, <2>2, AcceptC DEF CInv
  <1>4. CASE PollDecide
    <2>1. /\ AdvanceDeferred(active, Claimable) /\ pc' \in {"exit", "launch"}
          /\ controlledStop' = IF Decision \in {"cancel", "correct"} THEN Decision
                               ELSE controlledStop
      BY <1>4 DEF PollDecide
    <2>2. cancelRequest' = cancelRequest
      BY <2>1 DEF AdvanceDeferred
    <2>3. CancelIsKnown'
      BY <2>1, <2>2 DEF CInv, CancelIsKnown, Decision
    <2>4. QED BY <2>1, <2>3, AdvanceC DEF CInv
  <1>5. CASE \/ UNCHANGED vars \/ Ended \/ EndRun \/ PollBegin \/ LoopEnds \/ LaunchAgent
             \/ PassOver \/ Settle \/ Wait \/ Collect
    <2>1. UNCHANGED << mailbox, channelVars, controlledStop >>
      BY <1>5 DEF vars, schedVars, Ended, EndRun, PollBegin, LoopEnds, LaunchAgent, PassOver,
                  Settle, Wait, Collect
    <2>2. \/ UNCHANGED << pc, status >>
          \/ pc # "accept" /\ pc' \notin {"done", "ended"}
          \/ pc = "done" /\ pc' = "ended" /\ status' = status
          \/ pc = "launch" /\ status' = "unschedulable" /\ controlledStop = "none"
      BY <1>5 DEF vars, schedVars, Ended, EndRun, PollBegin, LoopEnds, LaunchAgent, PassOver,
                  Settle, Wait, Collect
    <2>3. CancelIsKnown'
      BY <2>1, <2>2 DEF CInv, CancelIsKnown, channelVars
    <2>4. QED BY <1>1, <2>1, <2>3 DEF CInv, channelVars
  <1>6. CASE FinishPass
    <2>1. /\ UNCHANGED << mailbox, channelVars, controlledStop >> /\ pc = "exit"
          /\ status' = IF ValidResult(PassStatus, records') THEN PassStatus ELSE "invalid"
      BY <1>6 DEF FinishPass
    <2>2. status' = "cancelled" <=> controlledStop = "cancel"
      BY <2>1 DEF PassStatus, ValidResult
    <2>3. CancelIsKnown'
      BY <2>1, <2>2 DEF CInv, CancelIsKnown, channelVars
    <2>4. QED BY <1>1, <2>1, <2>3 DEF CInv, channelVars
  <1>7. CASE Revise
    <2>1. /\ UNCHANGED << mailbox, channelVars >> /\ pc = "done" /\ pc' = "poll"
          /\ status # "cancelled" /\ controlledStop' = "none"
      BY <1>7 DEF Revise
    <2>2. CancelIsKnown'
      BY <2>1 DEF CInv, CancelIsKnown, channelVars
    <2>3. QED BY <1>1, <2>1, <2>2 DEF CInv, channelVars
  <1>8. CASE \E a \in Agents : Worker(a)
    <2>1. UNCHANGED << mailbox, observed, pauseRequest, correctionRequest, cancelRequest,
                       interruptRequests, schedVars >>
      BY <1>8 DEF Worker, Admit, Reserve, Spawn, ProcessExits, ProcessStopped, Respond,
                  Retry, Fail, channelVars
    <2>2. CancelIsKnown'
      BY <2>1 DEF CInv, CancelIsKnown, schedVars
    <2>3. QED BY <1>1, <2>1, <2>2 DEF CInv
  <1>9. QED BY <1>2, <1>3, <1>4, <1>5, <1>6, <1>7, <1>8 DEF Next, Scheduler

(* CInv is an invariant of the scheduler and its channel. *)
THEOREM CommandsInvariant == Spec => []CInv
  BY InitC, NextC, SchedulerInvariant, PTL DEF Spec

(* A pass ends cancelled exactly when a cancel is reported applied. *)
THEOREM CancelIsDecisive == Spec => []CancelDecides
  <1>1. IInv /\ CInv => CancelDecides
    <2> SUFFICES ASSUME IInv, CInv, pc \in {"done", "ended"}
                 PROVE  status = "cancelled" <=>
                           \E c \in DOMAIN mailbox :
                              mailbox[c].kind = "cancel" /\ mailbox[c].status = "applied"
      BY DEF CancelDecides
    <2>1. status = "cancelled" <=> cancelRequest # 0
      BY DEF CInv, CancelIsKnown
    <2>2. 0 \notin DOMAIN mailbox
      BY MailboxFacts DEF IInv
    <2>3. QED BY <2>1, <2>2 DEF CInv, Remembered, CancelIsOwned, Seen
  <1>2. QED BY <1>1, SchedulerInvariant, CommandsInvariant, PTL

(* A resolved command has no further effect in this step. *)
Spent(c) ==
    /\ mailbox'[c] = mailbox[c]
    /\ \A a \in Agents :
          /\ c \notin guidance[a] => c \notin guidance'[a]
          /\ worker[a] = "admit" /\ worker'[a] \in {"reserving", "interrupted"} =>
                c \notin guidance'[a]

(* Guidance is taken by the invocation that it reaches, and only a queued   *)
(* command becomes guidance.                                                *)
LEMMA SpentStep ==
    ASSUME IInv, CInv, [Next]_vars, NEW c \in DOMAIN mailbox, mailbox[c].status \in Terminal
    PROVE  Spent(c)
  <1>1. TypeOK
    BY DEF IInv
  <1>2. CASE ConsoleSubmit
    <2>1. mailbox'[c] = mailbox[c]
      BY <1>1, <1>2, MailboxFacts DEF ConsoleSubmit, Submit
    <2>2. QED BY <1>2, <2>1 DEF ConsoleSubmit, Spent, channelVars, workerVars
  <1>3. CASE PollAccept
    <2>1. mailbox'[c] = mailbox[c]
      BY <1>3, AcceptC DEF TerminalStays
    <2>2. \A a \in Agents : worker[a] = "admit" => worker'[a] = "admit"
      BY <1>3 DEF PollAccept, Claim, Claimable
    <2>3. c # Min(Unobserved)
      BY <1>3, TakenIsNew DEF PollAccept, Terminal
    <2>4. \A a \in Agents : guidance'[a] \subseteq guidance[a] \cup {Min(Unobserved)}
      BY <1>1, <1>3 DEF PollAccept, AcceptGuide, AcceptCorrect, AcceptPause, AcceptResume,
                        AcceptInterrupt, AcceptCancel
    <2>5. QED BY <2>1, <2>2, <2>3, <2>4 DEF Spent
  <1>4. CASE PollDecide
    <2>1. AdvanceDeferred(active, Claimable) /\ guidance' = guidance
      BY <1>4 DEF PollDecide, AdvanceDeferred
    <2>2. mailbox'[c] = mailbox[c]
      BY <2>1, AdvanceC DEF TerminalStays
    <2>3. \A a \in Agents : worker[a] = "admit" => worker'[a] = "admit"
      BY <1>4 DEF PollDecide, Claim, Claimable, InterruptsWon
    <2>4. QED BY <2>1, <2>2, <2>3 DEF Spent
  <1>5. CASE \E a \in Agents : Worker(a)
    <2>1. PICK a \in Agents : Worker(a)
      BY <1>5
    <2>2. CASE Admit(a)
      BY <1>1, <2>2 DEF Admit, MoveWorker, ConsumeGuidance, Spent, TypeOK, ControlsTypeOK
    <2>3. CASE ~Admit(a)
      <3>1. UNCHANGED << mailbox, guidance >>
        BY <2>1, <2>3 DEF Worker, Reserve, Spawn, ProcessExits, ProcessStopped, Respond,
                          Retry, Fail, channelVars
      <3>2. \A b \in Agents :
               worker[b] = "admit" => worker'[b] \notin {"reserving", "interrupted"}
        BY <1>1, <2>1, <2>3 DEF Worker, Reserve, Spawn, ProcessExits, ProcessStopped,
                                Respond, Retry, Fail, MoveWorker, TypeOK
      <3>3. QED BY <3>1, <3>2 DEF Spent
    <2>4. QED BY <2>2, <2>3
  <1>6. CASE LaunchAgent \/ Revise
    <2>1. UNCHANGED << mailbox, guidance >>
      BY <1>6 DEF LaunchAgent, Revise, channelVars
    <2>2. \A a \in Agents : worker'[a] \in {worker[a], "admit", "idle"}
      BY <1>1, <1>6 DEF LaunchAgent, Revise, TypeOK
    <2>3. QED BY <2>1, <2>2 DEF Spent
  <1>7. CASE \/ UNCHANGED vars \/ Ended \/ EndRun \/ PollBegin \/ LoopEnds \/ PassOver
             \/ Settle \/ Wait \/ Collect \/ FinishPass
    <2>1. UNCHANGED << mailbox, guidance, worker >>
      BY <1>7 DEF vars, channelVars, workerVars, Ended, EndRun, PollBegin, LoopEnds,
                  PassOver, Settle, Wait, Collect, FinishPass
    <2>2. QED BY <2>1 DEF Spent
  <1>8. QED BY <1>2, <1>3, <1>4, <1>5, <1>6, <1>7 DEF Next, Scheduler

(* An interrupt is applied by poll() only, to the invocation it stops, and  *)
(* of two interrupts of one Agent only the earlier one.                     *)
LEMMA AppliedStep ==
    ASSUME IInv, CInv, [Next]_vars, NEW c \in DOMAIN mailbox, InterruptApplied(c)
    PROVE  /\ worker[mailbox[c].agent] = "running"
           /\ worker'[mailbox[c].agent] = "stopping"
           /\ \A d \in DOMAIN mailbox :
                 InterruptApplied(d) /\ mailbox[d].agent = mailbox[c].agent => d = c
  <1>1. TypeOK
    BY DEF IInv
  <1>2. mailbox'[c] # mailbox[c]
    BY DEF InterruptApplied
  <1>3. PollDecide
    <2>1. CASE ConsoleSubmit
      BY <1>1, <1>2, <2>1, MailboxFacts DEF ConsoleSubmit, Submit
    <2>2. CASE PollAccept
      BY <1>2, <2>2, AcceptC DEF InterruptApplied
    <2>3. CASE \E a \in Agents : Worker(a)
      BY <1>2, <2>3 DEF Worker, Admit, Reserve, Spawn, ProcessExits, ProcessStopped,
                        Respond, Retry, Fail
    <2>4. CASE \/ UNCHANGED vars \/ Ended \/ EndRun \/ PollBegin \/ LoopEnds \/ LaunchAgent
               \/ PassOver \/ Settle \/ Wait \/ Collect \/ FinishPass \/ Revise
      BY <1>2, <2>4 DEF vars, Ended, EndRun, PollBegin, LoopEnds, LaunchAgent, PassOver,
                        Settle, Wait, Collect, FinishPass, Revise
    <2>5. QED BY <2>1, <2>2, <2>3, <2>4 DEF Next, Scheduler
  <1>4. \A d \in DOMAIN mailbox : InterruptApplied(d) => d \in InterruptsWon(Claimable)
    BY <1>3, AdvanceC DEF PollDecide, InterruptApplied
  <1>5. mailbox[c].agent \in Claimable /\ c \in InterruptsWon(Claimable)
    BY <1>4 DEF InterruptsWon
  <1>6. mailbox[c].agent \in Agents /\ worker[mailbox[c].agent] = "running"
    BY <1>1, <1>5 DEF Claimable, TypeOK
  <1>7. worker'[mailbox[c].agent] = "stopping"
    BY <1>3, <1>5, <1>6 DEF PollDecide, Claim
  <1>8. ASSUME NEW d \in DOMAIN mailbox, InterruptApplied(d),
               mailbox[d].agent = mailbox[c].agent
        PROVE  d = c
    <2>1. d \in InterruptsWon(Claimable)
      BY <1>4, <1>8
    <2>2. c <= d /\ d <= c
      BY <1>5, <1>8, <2>1 DEF InterruptsWon
    <2>3. QED BY <1>1, <2>2, MailboxFacts
  <1>9. QED BY <1>6, <1>7, <1>8

(* A command takes effect once, however the console, the polls and the      *)
(* workers interleave.                                                      *)
THEOREM CommandsOnce == Spec => CommandsTakeEffectOnce
  <1>1. IInv /\ CInv /\ [Next]_vars =>
           \A c \in DOMAIN mailbox :
              /\ mailbox[c].status \in Terminal =>
                    /\ mailbox'[c] = mailbox[c]
                    /\ \A a \in Agents :
                          /\ c \notin guidance[a] => c \notin guidance'[a]
                          /\ worker[a] = "admit" /\ worker'[a] \in {"reserving", "interrupted"} =>
                                c \notin guidance'[a]
              /\ InterruptApplied(c) =>
                    /\ worker[mailbox[c].agent] = "running"
                    /\ worker'[mailbox[c].agent] = "stopping"
                    /\ \A d \in DOMAIN mailbox :
                          InterruptApplied(d) /\ mailbox[d].agent = mailbox[c].agent => d = c
    BY SpentStep, AppliedStep DEF Spent
  <1>2. QED BY <1>1, SchedulerInvariant, CommandsInvariant, PTL
            DEF Spec, CommandsTakeEffectOnce
=============================================================================
