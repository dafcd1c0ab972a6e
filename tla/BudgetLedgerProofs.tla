-------------------------- MODULE BudgetLedgerProofs --------------------------
(***************************************************************************)
(* What the model-spend ledger guarantees for every number of threads,     *)
(* every price list, every ceiling and every usage the providers report.   *)
(***************************************************************************)
EXTENDS BudgetLedger, TLAPS, SequenceTheorems, FiniteSetTheorems

(***************************************************************************)
(* The inductive invariant.  The funds are either free, or all of them are *)
(* held by the one priced call that is active; TypeOK alone would not keep *)
(* occupied, which is decreased by what the settled call held, in Nat.     *)
(***************************************************************************)
OccupiedByOne ==
    /\ \A c \in Active : ~UserTask \/ Free(held[c].route) => held[c].amount = 0
    /\ (\A c \in Active : ~UserTask \/ Free(held[c].route)) => occupied = 0
    /\ \A c \in Active : UserTask /\ ~Free(held[c].route) =>
          /\ held[c].amount > 0
          /\ occupied = held[c].amount
          /\ known + held[c].amount = MaxCost
          /\ \A d \in Active : ~Free(held[d].route) => d = c

IInv == TypeOK /\ OccupiedByOne

-----------------------------------------------------------------------------
(* The placeholder of an idle thread is a reservation. *)
LEMMA NoReservationType == NoReservation \in Reservation
  <1>1. (CHOOSE r \in Routes : TRUE) \in Routes
    BY LedgerAssumption
  <1>2. QED BY <1>1 DEF NoReservation, Reservation

(* A cost is a natural number or unknown, and a free call costs nothing. *)
LEMMA CostType ==
    ASSUME NEW r \in Routes, NEW u \in Reports
    PROVE  /\ EstimatedCost(r, u) \in Count
           /\ Free(r) => EstimatedCost(r, u) = 0
           /\ Reported(EstimatedCost(r, u)) \in Nat
           /\ Reported(u.input) \in Nat /\ Reported(u.output) \in Nat
           /\ u.duration \in Nat
  <1>1. u \in Report /\ Pricing[r] \in Price
    BY LedgerAssumption
  <1>2. u.input \in Count /\ u.output \in Count /\ u.cache \in Count /\ u.duration \in Nat
    BY <1>1 DEF Report
  <1>3. Pricing[r].rate \in Nat
    BY <1>1 DEF Price
  <1>4. \A m, n \in Nat : m * n \in Nat
    OBVIOUS
  <1>5. EstimatedCost(r, u) \in Count
    <2>1. CASE NoCount \in {u.input, u.output, u.cache}
      BY <2>1 DEF EstimatedCost, Count
    <2>2. CASE NoCount \notin {u.input, u.output, u.cache}
      <3>1. u.input + u.output + u.cache \in Nat
        BY <1>2, <2>2 DEF Count
      <3>2. Pricing[r].rate * (u.input + u.output + u.cache) \in Nat
        BY <1>3, <1>4, <3>1
      <3>3. QED BY <3>2 DEF EstimatedCost, Count
    <2>3. QED BY <2>1, <2>2
  <1>6. Free(r) => EstimatedCost(r, u) = 0
    BY DEF EstimatedCost
  <1>7. \A n \in Count : Reported(n) \in Nat
    BY LedgerAssumption DEF Reported, Count
  <1>8. QED BY <1>2, <1>5, <1>6, <1>7

-----------------------------------------------------------------------------
(* Funds are a natural number. *)
LEMMA FundsType == ASSUME TypeOK PROVE Funds \in Nat
  BY LedgerAssumption DEF TypeOK, Funds

(* The invariant holds at the start: nothing is reserved. *)
LEMMA InitInv == Init => IInv
  <1> SUFFICES ASSUME Init PROVE IInv
    OBVIOUS
  <1>1. held \in [Callers -> Reservation]
    BY NoReservationType DEF Init
  <1>2. calls \in Seq(CallRecord)
    BY EmptySeq DEF Init
  <1>3. TypeOK
    BY <1>1, <1>2 DEF Init, TypeOK, Phases
  <1>4. Active = {}
    BY DEF Init, Active
  <1>5. OccupiedByOne
    BY <1>4 DEF Init, OccupiedByOne
  <1>6. QED BY <1>3, <1>5 DEF IInv

(* An admission takes all the funds for a priced call of a user task, and   *)
(* is only possible when no other priced call holds them.                   *)
LEMMA AdmittedInv ==
    ASSUME IInv, NEW c \in Callers, phase[c] = "reserving", Admitted(c),
           UNCHANGED << authority, stopped, meters, known, unpriced, calls, terminal >>
    PROVE  IInv'
  <1> DEFINE r == held[c].route
  <1> DEFINE amount == IF UserTask /\ ~Free(r) THEN Funds ELSE 0
  <1>1. TypeOK /\ OccupiedByOne
    BY DEF IInv
  <1>2. held[c] \in Reservation /\ r \in Routes
    BY <1>1 DEF TypeOK, Reservation
  <1>3. Funds \in Nat /\ amount \in Nat
    BY <1>1, FundsType
  <1>4. /\ started' = started + 1
        /\ held' = [held EXCEPT ![c] = [sequence |-> NextSequence, route |-> r,
                                        amount |-> amount]]
        /\ occupied' = occupied + amount
        /\ phase' = [phase EXCEPT ![c] = "calling"]
        /\ ~Exhausted(r) /\ ~Busy(r)
    BY DEF Admitted
  <1>5. NextSequence \in Nat
    BY <1>1 DEF TypeOK, NextSequence
  <1>6. [sequence |-> NextSequence, route |-> r, amount |-> amount] \in Reservation
    BY <1>2, <1>3, <1>5 DEF Reservation
  <1>7. TypeOK'
    <2>1. held' \in [Callers -> Reservation]
      BY <1>1, <1>4, <1>6 DEF TypeOK
    <2>2. phase' \in [Callers -> Phases]
      BY <1>1, <1>4 DEF TypeOK, Phases
    <2>3. started' \in Nat /\ occupied' \in Nat
      BY <1>1, <1>3, <1>4 DEF TypeOK
    <2>4. QED BY <1>1, <2>1, <2>2, <2>3 DEF TypeOK
  <1>8. c \notin Active /\ Active' = Active \cup {c}
    BY <1>1, <1>4 DEF Active, TypeOK
  <1>9. /\ held'[c].amount = amount /\ held'[c].route = r
        /\ \A d \in Active : held'[d] = held[d]
    BY <1>1, <1>2, <1>4, <1>8 DEF TypeOK, Active
  <1>10. CASE UserTask /\ ~Free(r)
    <2>1. Funds > 0
      BY <1>3, <1>4, <1>10 DEF Exhausted
    <2>2. known + occupied + amount = MaxCost
      BY <1>1, <1>10, <2>1, LedgerAssumption DEF Funds, TypeOK
    <2>3. \A d \in Active : Free(held[d].route)
      <3> SUFFICES ASSUME NEW d \in Active, ~Free(held[d].route) PROVE FALSE
        OBVIOUS
      <3>1. known + occupied = MaxCost
        BY <1>1, <1>10 DEF OccupiedByOne
      <3>2. QED BY <1>1, <1>3, <1>10, <2>1, <2>2, <3>1, LedgerAssumption DEF TypeOK
    <2>4. occupied = 0
      BY <1>1, <2>3 DEF OccupiedByOne
    <2>5. OccupiedByOne'
      BY <1>1, <1>3, <1>4, <1>8, <1>9, <1>10, <2>1, <2>2, <2>3, <2>4, LedgerAssumption
         DEF OccupiedByOne, TypeOK, Free, UserTask
    <2>6. QED BY <1>7, <2>5 DEF IInv
  <1>11. CASE ~UserTask \/ Free(r)
    <2>1. amount = 0 /\ occupied' = occupied
      BY <1>1, <1>4, <1>11 DEF TypeOK
    <2>2. OccupiedByOne'
      BY <1>1, <1>8, <1>9, <1>11, <2>1 DEF OccupiedByOne, Free, UserTask
    <2>3. QED BY <1>7, <2>2 DEF IInv
  <1>12. QED BY <1>10, <1>11

(* A settlement returns what the call held, and leaves the funds free when  *)
(* it was the priced one.                                                   *)
LEMMA CompleteCallInv ==
    ASSUME IInv, NEW c \in Callers, NEW u \in Reports, CompleteCall(c, u)
    PROVE  IInv'
  <1> DEFINE r == held[c].route
  <1> DEFINE cost == EstimatedCost(r, u)
  <1>1. TypeOK /\ OccupiedByOne
    BY DEF IInv
  <1>2. c \in Active /\ held[c] \in Reservation /\ r \in Routes
    BY <1>1 DEF TypeOK, Reservation, CompleteCall, Active
  <1>3. cost \in Count /\ Reported(cost) \in Nat /\ (Free(r) => cost = 0)
    BY <1>2, CostType
  <1>4. /\ known' = known + Reported(cost)
        /\ occupied' = occupied - held[c].amount
        /\ held' = [held EXCEPT ![c] = NoReservation]
        /\ \E p \in {"rejected", "idle"} : phase' = [phase EXCEPT ![c] = p]
        /\ UNCHANGED << authority, stopped, started, terminal >>
    BY DEF CompleteCall, Released
  <1>5. occupied' \in Nat
    <2>1. CASE UserTask /\ ~Free(r)
      BY <1>1, <1>2, <1>4, <2>1 DEF OccupiedByOne, TypeOK, Reservation
    <2>2. CASE ~UserTask \/ Free(r)
      BY <1>1, <1>2, <1>4, <2>2 DEF OccupiedByOne, TypeOK, Reservation
    <2>3. QED BY <2>1, <2>2
  <1>6. TypeOK'
    <2>1. held' \in [Callers -> Reservation]
      BY <1>1, <1>4, NoReservationType DEF TypeOK
    <2>2. phase' \in [Callers -> Phases]
      BY <1>1, <1>4 DEF TypeOK, Phases
    <2>3. known' \in Nat /\ unpriced' \in Nat
      BY <1>1, <1>3, <1>4 DEF TypeOK, CompleteCall
    <2>4. meters' \in [Meters -> Nat]
      <3>1. meters["input"] \in Nat /\ meters["output"] \in Nat /\ meters["duration"] \in Nat
        BY <1>1 DEF TypeOK, Meters
      <3>2. /\ meters["input"] + Reported(u.input) \in Nat
            /\ meters["output"] + Reported(u.output) \in Nat
            /\ meters["duration"] + u.duration \in Nat
        BY <1>2, <3>1, CostType
      <3>3. QED BY <3>2 DEF CompleteCall, Meters
    <2>5. calls' \in Seq(CallRecord)
      <3>1. \E b \in BOOLEAN :
               calls' = Append(calls, [sequence |-> held[c].sequence, agent |-> c,
                                       cost |-> cost, raised |-> b])
        BY DEF CompleteCall, Raises
      <3>2. \A b \in BOOLEAN :
               [sequence |-> held[c].sequence, agent |-> c, cost |-> cost, raised |-> b]
                  \in CallRecord
        BY <1>2, <1>3 DEF CallRecord, Reservation
      <3>3. QED BY <1>1, <3>1, <3>2, AppendProperties DEF TypeOK
    <2>6. QED BY <1>1, <1>4, <1>5, <2>1, <2>2, <2>3, <2>4, <2>5 DEF TypeOK
  <1>7. /\ Active' = Active \ {c}
        /\ \A d \in Active' : held'[d] = held[d]
    BY <1>1, <1>4 DEF TypeOK, Active
  <1>8. CASE UserTask /\ ~Free(r)
    <2>1. occupied' = 0
      BY <1>1, <1>2, <1>4, <1>8 DEF OccupiedByOne, TypeOK, Reservation
    <2>2. \A d \in Active' : Free(held[d].route)
      BY <1>1, <1>2, <1>7, <1>8 DEF OccupiedByOne
    <2>3. OccupiedByOne'
      BY <1>1, <1>7, <1>8, <2>1, <2>2 DEF OccupiedByOne, Free, UserTask
    <2>4. QED BY <1>6, <2>3 DEF IInv
  <1>9. CASE ~UserTask \/ Free(r)
    <2>1. occupied' = occupied
      BY <1>1, <1>2, <1>4, <1>9 DEF OccupiedByOne, TypeOK
    <2>2. UserTask => known' = known
      BY <1>1, <1>3, <1>4, <1>9, LedgerAssumption DEF Reported, TypeOK
    <2>3. OccupiedByOne'
      <3>1. UserTask' = UserTask
        BY DEF CompleteCall, UserTask
      <3>2. QED BY <1>1, <1>2, <1>7, <1>9, <2>1, <2>2, <3>1 DEF OccupiedByOne, Free
    <2>4. QED BY <1>6, <2>3 DEF IInv
  <1>10. QED BY <1>8, <1>9

(* The steps that neither reserve nor settle leave the funds alone. *)
LEMMA OtherStepsInv ==
    ASSUME IInv, NEW c \in Callers, NEW r \in Routes,
           \/ UserStop(c) \/ EmitFails(c) \/ WaitCheck(c) \/ Ask(c, r)
           \/ ReserveCall(c) /\ Refused(c)
    PROVE  IInv'
  <1>1. TypeOK /\ OccupiedByOne
    BY DEF IInv
  <1>2. CASE UserStop(c)
    BY <1>1, <1>2 DEF UserStop, IInv, TypeOK, OccupiedByOne, Active, Free, UserTask
  <1>3. CASE EmitFails(c)
    <2>1. TypeOK'
      BY <1>1, <1>3 DEF EmitFails, TypeOK, Phases
    <2>2. Active' = Active
      BY <1>1, <1>3 DEF EmitFails, Active, TypeOK
    <2>3. QED BY <1>1, <1>3, <2>1, <2>2 DEF EmitFails, IInv, OccupiedByOne, Free, UserTask
  <1>4. CASE WaitCheck(c)
    <2>1. TypeOK'
      BY <1>1, <1>4 DEF WaitCheck, TypeOK, Phases
    <2>2. Active' = Active
      BY <1>1, <1>4 DEF WaitCheck, Active, TypeOK
    <2>3. QED BY <1>1, <1>4, <2>1, <2>2 DEF WaitCheck, IInv, OccupiedByOne, Free, UserTask
  <1>5. CASE Ask(c, r)
    <2>1. TypeOK'
      BY <1>1, <1>5 DEF Ask, TypeOK, Phases, Reservation
    <2>2. Active' = Active /\ \A d \in Active : held'[d] = held[d]
      BY <1>1, <1>5 DEF Ask, Active, TypeOK
    <2>3. occupied' = occupied /\ known' = known /\ UserTask' = UserTask
      BY <1>5 DEF Ask, UserTask
    <2>4. OccupiedByOne'
      BY <1>1, <2>2, <2>3 DEF OccupiedByOne, Free
    <2>5. QED BY <2>1, <2>4 DEF IInv
  <1>6. CASE ReserveCall(c) /\ Refused(c)
    <2>1. TypeOK'
      BY <1>1, <1>6 DEF ReserveCall, Refused, TypeOK, Phases
    <2>2. Active' = Active
      BY <1>1, <1>6 DEF ReserveCall, Refused, Active, TypeOK
    <2>3. QED BY <1>1, <1>6, <2>1, <2>2
              DEF ReserveCall, Refused, IInv, OccupiedByOne, Free, UserTask
  <1>7. QED BY <1>2, <1>3, <1>4, <1>5, <1>6

(* Every step keeps the invariant. *)
LEMMA NextInv == IInv /\ [Next]_vars => IInv'
  <1> SUFFICES ASSUME IInv, [Next]_vars PROVE IInv'
    OBVIOUS
  <1>1. CASE UNCHANGED vars \/ Over
    BY <1>1 DEF vars, Over, IInv, TypeOK, OccupiedByOne, Active, Free, UserTask
  <1>2. CASE TerminalRecord
    BY <1>2 DEF TerminalRecord, IInv, TypeOK, OccupiedByOne, Active, Free, UserTask
  <1>3. ASSUME NEW c \in Callers, UserStop(c) \/ EmitFails(c) \/ WaitCheck(c) PROVE IInv'
    BY <1>3, OtherStepsInv, LedgerAssumption
  <1>4. ASSUME NEW c \in Callers, NEW r \in Routes, Ask(c, r) PROVE IInv'
    BY <1>4, OtherStepsInv
  <1>5. ASSUME NEW c \in Callers, ReserveCall(c) PROVE IInv'
    <2>1. CASE Admitted(c)
      BY <1>5, <2>1, AdmittedInv DEF ReserveCall
    <2>2. CASE Refused(c)
      BY <1>5, <2>2, OtherStepsInv, LedgerAssumption
    <2>3. QED BY <1>5, <2>1, <2>2 DEF ReserveCall
  <1>6. ASSUME NEW c \in Callers, NEW u \in Reports, CompleteCall(c, u) PROVE IInv'
    BY <1>6, CompleteCallInv
  <1>7. QED BY <1>1, <1>2, <1>3, <1>4, <1>5, <1>6 DEF Next, Step

(* IInv is an invariant of the ledger. *)
THEOREM LedgerInvariant == Spec => []IInv
  BY InitInv, NextInv, PTL DEF Spec

(* All ledger state stays in its type; in particular the occupied funds     *)
(* never become negative (AgentBudgetUsage requires them to be >= 0).       *)
THEOREM TypeCorrect == Spec => []TypeOK
  <1>1. IInv => TypeOK
    BY DEF IInv
  <1>2. QED BY <1>1, LedgerInvariant, PTL

(* The unsettled priced call of a user task is alone and holds all funds.   *)
THEOREM PaidCallAlone == Spec => []PaidCallHoldsAllFunds
  <1>1. IInv => PaidCallHoldsAllFunds
    BY DEF IInv, OccupiedByOne, PaidCallHoldsAllFunds
  <1>2. QED BY <1>1, LedgerInvariant, PTL

(* A ledger keeps the authority it was opened with. *)
LEMMA SameAuthority == ASSUME [Next]_vars PROVE UserTask' = UserTask
  BY DEF Next, Step, vars, UserStop, EmitFails, WaitCheck, ReserveCall, Ask,
         CompleteCall, TerminalRecord, Over, UserTask

(* The settled calls and the spend change in complete_call only. *)
LEMMA SpendSteps ==
    ASSUME [Next]_vars
    PROVE  \/ calls' = calls /\ known' = known
           \/ \E c \in Callers, u \in Reports : CompleteCall(c, u)
  BY DEF Next, Step, vars, UserStop, EmitFails, WaitCheck, ReserveCall, Ask,
         TerminalRecord, Over

(* A settlement beyond the ceiling was admitted below it, and the calls     *)
(* that settle after it are free.                                           *)
LEMMA OvershootStep == IInv /\ OvershootIsOneCall /\ [Next]_vars => OvershootIsOneCall'
  <1> SUFFICES ASSUME IInv, OvershootIsOneCall, [Next]_vars, UserTask, known' > MaxCost
               PROVE  \E i \in DOMAIN calls' :
                         /\ calls'[i].cost \in Nat
                         /\ known' < MaxCost + calls'[i].cost
                         /\ \A j \in DOMAIN calls' : j > i => calls'[j].cost = 0
    BY SameAuthority DEF OvershootIsOneCall
  <1>1. CASE calls' = calls /\ known' = known
    BY <1>1 DEF OvershootIsOneCall
  <1>2. ASSUME NEW c \in Callers, NEW u \in Reports, CompleteCall(c, u)
        PROVE  \E i \in DOMAIN calls' :
                  /\ calls'[i].cost \in Nat
                  /\ known' < MaxCost + calls'[i].cost
                  /\ \A j \in DOMAIN calls' : j > i => calls'[j].cost = 0
    <2> DEFINE r == held[c].route
    <2> DEFINE cost == EstimatedCost(r, u)
    <2> DEFINE n == Len(calls) + 1
    <2>1. TypeOK /\ OccupiedByOne
      BY DEF IInv
    <2>2. c \in Active /\ held[c] \in Reservation /\ r \in Routes
      BY <1>2, <2>1 DEF TypeOK, Reservation, CompleteCall, Active
    <2>3. cost \in Count /\ Reported(cost) \in Nat /\ (Free(r) => cost = 0)
      BY <2>2, CostType
    <2>4. known' = known + Reported(cost) /\ known \in Nat
      BY <1>2, <2>1 DEF CompleteCall, TypeOK
    <2>5. PICK e : calls' = Append(calls, e) /\ e.cost = cost
      BY <1>2 DEF CompleteCall
    <2>6. /\ DOMAIN calls = 1..Len(calls) /\ DOMAIN calls' = 1..n
          /\ \A i \in DOMAIN calls : calls'[i] = calls[i]
          /\ calls'[n].cost = cost /\ Len(calls) \in Nat
      BY <2>1, <2>5 DEF TypeOK
    <2>7. CASE Free(r)
      <3>1. cost = 0 /\ known' = known
        BY <2>3, <2>4, <2>7, LedgerAssumption DEF Reported
      <3>2. PICK i \in DOMAIN calls : /\ calls[i].cost \in Nat
                                      /\ known < MaxCost + calls[i].cost
                                      /\ \A j \in DOMAIN calls : j > i => calls[j].cost = 0
        BY <3>1 DEF OvershootIsOneCall
      <3>3. i \in DOMAIN calls' /\ calls'[i] = calls[i]
        BY <2>6
      <3>4. \A j \in DOMAIN calls' : j > i => calls'[j].cost = 0
        BY <2>6, <3>1, <3>2
      <3>5. QED BY <3>1, <3>2, <3>3, <3>4
    <2>8. CASE ~Free(r)
      <3>1. held[c].amount > 0 /\ known + held[c].amount = MaxCost
        BY <2>1, <2>2, <2>8 DEF OccupiedByOne
      <3>2. known < MaxCost
        BY <2>2, <2>4, <3>1, LedgerAssumption DEF Reservation
      <3>3. cost \in Nat /\ known' = known + cost
        BY <2>3, <2>4, <3>2, LedgerAssumption DEF Reported, Count
      <3>4. n \in DOMAIN calls' /\ \A j \in DOMAIN calls' : ~(j > n)
        BY <2>6
      <3>5. known' < MaxCost + calls'[n].cost
        BY <2>4, <2>6, <3>2, <3>3, LedgerAssumption
      <3>6. QED BY <2>6, <3>3, <3>4, <3>5
    <2>9. QED BY <2>7, <2>8
  <1>3. QED BY <1>1, <1>2, SpendSteps

(* A user task overshoots its ceiling by at most one call, for any number   *)
(* of threads and whatever the calls turn out to cost.                      *)
THEOREM OvershootBounded == Spec => []OvershootIsOneCall
  <1>1. Init => OvershootIsOneCall
    BY LedgerAssumption DEF Init, OvershootIsOneCall
  <1>2. QED BY <1>1, OvershootStep, LedgerInvariant, PTL DEF Spec

-----------------------------------------------------------------------------
(***************************************************************************)
(* The ledger tells the calls.  The numbers of the settled and the active  *)
(* calls are the numbers given out, and no call is both.                   *)
(***************************************************************************)
ActiveSequences == {held[c].sequence : c \in Active}

Numbered ==
    /\ RecordedSequences \cup ActiveSequences = 1..started
    /\ started = Len(calls) + Cardinality(Active)

(* The callers with an active call are finitely many. *)
LEMMA ActiveFinite == IsFiniteSet(Active)
  BY FS_Subset, LedgerAssumption DEF Active

(* At the start no number is given out. *)
LEMMA NumberedInit == Init => Numbered
  <1> SUFFICES ASSUME Init PROVE Numbered
    OBVIOUS
  <1>1. Active = {} /\ Cardinality(Active) = 0
    BY FS_EmptySet DEF Init, Active
  <1>2. Len(calls) = 0 /\ DOMAIN calls = {}
    BY DEF Init
  <1>3. QED BY <1>1, <1>2 DEF Init, Numbered, ActiveSequences, RecordedSequences

(* An admission gives the next number to a caller that has none. *)
LEMMA AdmittedNumbered ==
    ASSUME TypeOK, Numbered, NEW c \in Callers, phase[c] = "reserving", Admitted(c),
           UNCHANGED calls
    PROVE  Numbered'
  <1>1. c \notin Active /\ Active' = Active \cup {c}
    BY DEF Admitted, Active, TypeOK
  <1>2. Cardinality(Active') = Cardinality(Active) + 1 /\ Cardinality(Active) \in Nat
    BY <1>1, ActiveFinite, FS_AddElement, FS_CardinalityType
  <1>3. started' = started + 1 /\ started \in Nat /\ Len(calls) \in Nat
    BY DEF Admitted, TypeOK
  <1>4. held'[c].sequence = started + 1
    BY DEF Admitted, TypeOK, NextSequence
  <1>5. \A d \in Active : held'[d] = held[d]
    BY <1>1 DEF Admitted, TypeOK, Active
  <1>6. ActiveSequences' = ActiveSequences \cup {started + 1}
    BY <1>1, <1>4, <1>5 DEF ActiveSequences
  <1>7. RecordedSequences' = RecordedSequences
    BY DEF RecordedSequences
  <1>8. 1..started' = (1..started) \cup {started + 1}
    BY <1>3
  <1>9. QED BY <1>2, <1>3, <1>6, <1>7, <1>8 DEF Numbered

(* A settlement moves the number from the reservation to the record. *)
LEMMA CompleteNumbered ==
    ASSUME TypeOK, Numbered, NEW c \in Callers, NEW u \in Reports, CompleteCall(c, u)
    PROVE  Numbered'
  <1> DEFINE n == Len(calls) + 1
  <1>1. c \in Active /\ Active' = Active \ {c}
    BY DEF CompleteCall, Active, TypeOK
  <1>2. /\ Cardinality(Active') = Cardinality(Active) - 1
        /\ Cardinality(Active) \in Nat
    BY <1>1, ActiveFinite, FS_RemoveElement, FS_CardinalityType
  <1>3. \A d \in Active' : held'[d] = held[d]
    BY <1>1 DEF CompleteCall, TypeOK, Active
  <1>4. ActiveSequences = ActiveSequences' \cup {held[c].sequence}
    BY <1>1, <1>3 DEF ActiveSequences
  <1>5. PICK e : calls' = Append(calls, e) /\ e.sequence = held[c].sequence
    BY DEF CompleteCall
  <1>6. /\ DOMAIN calls' = DOMAIN calls \cup {n} /\ Len(calls') = n /\ Len(calls) \in Nat
        /\ \A i \in DOMAIN calls : calls'[i] = calls[i]
        /\ calls'[n] = e
    BY <1>5 DEF TypeOK
  <1>7. RecordedSequences' = RecordedSequences \cup {held[c].sequence}
    BY <1>5, <1>6 DEF RecordedSequences
  <1>8. started' = started /\ started \in Nat
    BY DEF CompleteCall, TypeOK
  <1>9. QED BY <1>2, <1>4, <1>6, <1>7, <1>8 DEF Numbered

(* The other steps leave the numbers and their holders alone. *)
LEMMA NumberedStep == IInv /\ Numbered /\ [Next]_vars => Numbered'
  <1> SUFFICES ASSUME TypeOK, Numbered, [Next]_vars PROVE Numbered'
    BY DEF IInv
  <1>1. ASSUME Active' = Active, \A d \in Active : held'[d] = held[d],
               calls' = calls, started' = started
        PROVE  Numbered'
    BY <1>1 DEF Numbered, ActiveSequences, RecordedSequences
  <1>2. CASE UNCHANGED vars \/ Over \/ TerminalRecord
    BY <1>1, <1>2 DEF vars, Over, TerminalRecord, Active
  <1>3. ASSUME NEW c \in Callers, UserStop(c) \/ EmitFails(c) \/ WaitCheck(c) PROVE Numbered'
    <2>1. Active' = Active
      BY <1>3 DEF UserStop, EmitFails, WaitCheck, Active, TypeOK
    <2>2. QED BY <1>1, <1>3, <2>1 DEF UserStop, EmitFails, WaitCheck
  <1>4. ASSUME NEW c \in Callers, NEW r \in Routes, Ask(c, r) PROVE Numbered'
    <2>1. Active' = Active /\ \A d \in Active : held'[d] = held[d]
      BY <1>4 DEF Ask, Active, TypeOK
    <2>2. QED BY <1>1, <1>4, <2>1 DEF Ask
  <1>5. ASSUME NEW c \in Callers, ReserveCall(c) PROVE Numbered'
    <2>1. CASE Admitted(c)
      BY <1>5, <2>1, AdmittedNumbered DEF ReserveCall
    <2>2. CASE Refused(c)
      <3>1. Active' = Active
        BY <1>5, <2>2 DEF ReserveCall, Refused, Active, TypeOK
      <3>2. QED BY <1>1, <1>5, <2>2, <3>1 DEF ReserveCall, Refused
    <2>3. QED BY <1>5, <2>1, <2>2 DEF ReserveCall
  <1>6. ASSUME NEW c \in Callers, NEW u \in Reports, CompleteCall(c, u) PROVE Numbered'
    BY <1>6, CompleteNumbered
  <1>7. QED BY <1>2, <1>3, <1>4, <1>5, <1>6 DEF Next, Step

(* A lost reservation stays lost. *)
LEMMA LostStays ==
    ASSUME TypeOK, [Next]_vars, NEW c \in Callers, phase[c] = "lost"
    PROVE  phase'[c] = "lost"
  <1>1. CASE UNCHANGED vars \/ Over \/ TerminalRecord
    BY <1>1 DEF vars, Over, TerminalRecord
  <1>2. ASSUME NEW d \in Callers, UserStop(d) \/ EmitFails(d) \/ WaitCheck(d)
        PROVE  phase'[c] = "lost"
    BY <1>2 DEF UserStop, EmitFails, WaitCheck, TypeOK
  <1>3. ASSUME NEW d \in Callers, NEW r \in Routes, Ask(d, r) PROVE phase'[c] = "lost"
    BY <1>3 DEF Ask, TypeOK
  <1>4. ASSUME NEW d \in Callers, ReserveCall(d) PROVE phase'[c] = "lost"
    BY <1>4 DEF ReserveCall, Admitted, Refused, TypeOK
  <1>5. ASSUME NEW d \in Callers, NEW u \in Reports, CompleteCall(d, u)
        PROVE  phase'[c] = "lost"
    BY <1>5 DEF CompleteCall, TypeOK
  <1>6. QED BY <1>1, <1>2, <1>3, <1>4, <1>5 DEF Next, Step

(* The terminal record is refused for a lost reservation only: with nobody  *)
(* active the numbers given out are the numbers recorded.                   *)
LEMMA TerminalTells ==
    ASSUME TypeOK, Numbered, TerminalRecord, terminal' = "invalid"
    PROVE  \E c \in Callers : phase'[c] = "lost"
  <1>1. CASE Active = {}
    <2>1. ActiveSequences = {} /\ Cardinality(Active) = 0
      BY <1>1, FS_EmptySet DEF ActiveSequences
    <2>2. started = Len(calls) /\ RecordedSequences = 1..Len(calls)
      BY <2>1 DEF Numbered, TypeOK
    <2>3. QED BY <1>1, <2>2 DEF TerminalRecord
  <1>2. CASE Active # {}
    BY <1>2 DEF TerminalRecord, Active
  <1>3. QED BY <1>1, <1>2

(* A settlement that leaves the totals beyond a limit raises, unless they   *)
(* were beyond the same limit before; one of unknown cost always raises in  *)
(* a user task.                                                             *)
LEMMA SettlementTells ==
    ASSUME IInv, LedgerTellsTheCalls, NEW c \in Callers, NEW u \in Reports, CompleteCall(c, u)
    PROVE  /\ ExceededDetail(meters, known, unpriced)' # "none" =>
                 \E i \in DOMAIN calls' : calls'[i].raised
           /\ UserTask' => \A i \in DOMAIN calls' : calls'[i].cost = NoCount => calls'[i].raised
  <1> DEFINE n == Len(calls) + 1
  <1> DEFINE cost == EstimatedCost(held[c].route, u)
  <1> DEFINE raised == Raises(meters', known', unpriced', cost = NoCount)
  <1>1. TypeOK
    BY DEF IInv
  <1>2. PICK e : calls' = Append(calls, e) /\ e.cost = cost /\ e.raised = raised
    BY DEF CompleteCall
  <1>3. /\ DOMAIN calls' = DOMAIN calls \cup {n} /\ Len(calls) \in Nat
        /\ \A i \in DOMAIN calls : calls'[i] = calls[i]
        /\ calls'[n] = e
    BY <1>1, <1>2 DEF TypeOK
  <1>4. UserTask' = UserTask
    BY DEF CompleteCall, UserTask
  <1>5. ExceededDetail(meters, known, unpriced)' = ExceededDetail(meters', known', unpriced')
    BY <1>4 DEF ExceededDetail
  <1>6. raised => calls'[n].raised
    BY <1>2, <1>3, Zenon
  <1>7. \A i \in DOMAIN calls : calls[i].raised => calls'[i].raised
    BY <1>3, Zenon
  <1>8. ASSUME ExceededDetail(meters, known, unpriced)' # "none"
        PROVE  \E i \in DOMAIN calls' : calls'[i].raised
    <2>1. CASE ExceededDetail(meters, known, unpriced)' = ExceededDetail(meters, known, unpriced)
      <3>1. PICK i \in DOMAIN calls : calls[i].raised
        BY <1>8, <2>1 DEF LedgerTellsTheCalls
      <3>2. i \in DOMAIN calls' /\ calls'[i].raised
        BY <1>3, <1>7, <3>1, Zenon
      <3>3. QED BY <3>2, Zenon
    <2>2. CASE ExceededDetail(meters, known, unpriced)' # ExceededDetail(meters, known, unpriced)
      <3>1. raised
        BY <1>5, <1>8, <2>2 DEF Raises
      <3>2. n \in DOMAIN calls'
        BY <1>3
      <3>3. QED BY <1>6, <3>1, <3>2, Zenon
    <2>3. QED BY <2>1, <2>2
  <1>9. ASSUME UserTask', NEW i \in DOMAIN calls', calls'[i].cost = NoCount
        PROVE  calls'[i].raised
    <2>1. CASE i \in DOMAIN calls
      <3>1. calls[i].cost = NoCount
        BY <1>3, <1>9, <2>1
      <3>2. calls[i].raised
        BY <1>4, <1>9, <2>1, <3>1 DEF LedgerTellsTheCalls
      <3>3. QED BY <1>7, <2>1, <3>2, Zenon
    <2>2. CASE i = n
      <3>1. cost = NoCount
        BY <1>2, <1>3, <1>9, <2>2
      <3>2. unpriced' = unpriced + 1 /\ unpriced \in Nat
        BY <1>1, <3>1 DEF CompleteCall, TypeOK
      <3>3. UserTask /\ unpriced' > 0
        BY <1>4, <1>9, <3>2
      <3>4. ExceededDetail(meters', known', unpriced') = "spend unknown"
        BY <3>3 DEF ExceededDetail
      <3>5. raised
        BY <3>1, <3>3, <3>4 DEF Raises
      <3>6. QED BY <1>6, <2>2, <3>5, Zenon
    <2>3. QED BY <1>3, <1>9, <2>1, <2>2
  <1>10. QED BY <1>8, <1>9

(* Every step keeps the ledger telling the calls. *)
LEMMA TellsStep ==
    IInv /\ Numbered /\ LedgerTellsTheCalls /\ [Next]_vars => LedgerTellsTheCalls'
  <1> SUFFICES ASSUME IInv, Numbered, LedgerTellsTheCalls, [Next]_vars
               PROVE  LedgerTellsTheCalls'
    OBVIOUS
  <1> DEFINE Frozen == terminal = "invalid" => \E c \in Callers : phase[c] = "lost"
  <1> DEFINE Heard == /\ ExceededDetail(meters, known, unpriced) # "none" =>
                            \E i \in DOMAIN calls : calls[i].raised
                      /\ UserTask => \A i \in DOMAIN calls :
                                        calls[i].cost = NoCount => calls[i].raised
  <1>1. TypeOK
    BY DEF IInv
  <1>2. Frozen'
    <2>1. CASE TerminalRecord
      BY <1>1, <2>1, TerminalTells
    <2>2. CASE ~TerminalRecord
      <3>1. terminal' = terminal
        BY <2>2 DEF Next, Step, vars, UserStop, EmitFails, WaitCheck, ReserveCall, Ask,
                    CompleteCall, Over
      <3>2. QED BY <1>1, <3>1, LostStays DEF LedgerTellsTheCalls
    <2>3. QED BY <2>1, <2>2
  <1>3. Heard'
    <2>1. CASE \E c \in Callers, u \in Reports : CompleteCall(c, u)
      BY <2>1, SettlementTells, Zenon
    <2>2. CASE ~ \E c \in Callers, u \in Reports : CompleteCall(c, u)
      <3>1. calls' = calls /\ meters' = meters /\ known' = known /\ unpriced' = unpriced
        BY <2>2 DEF Next, Step, vars, UserStop, EmitFails, WaitCheck, ReserveCall, Ask,
                    TerminalRecord, Over
      <3>2. UserTask' = UserTask
        BY SameAuthority
      <3>3. QED BY <3>1, <3>2 DEF LedgerTellsTheCalls, ExceededDetail
    <2>3. QED BY <2>1, <2>2
  <1>4. QED BY <1>2, <1>3 DEF LedgerTellsTheCalls

(* The ledger tells the calls, for any number of threads and any usage: a   *)
(* finished run freezes its ledger unless a thread died with a reservation, *)
(* and no exceeded limit and no call of unknown cost goes unheard.          *)
THEOREM LedgerTells == Spec => []LedgerTellsTheCalls
  <1>1. Init => LedgerTellsTheCalls
    <2> SUFFICES ASSUME Init PROVE LedgerTellsTheCalls
      OBVIOUS
    <2>1. DOMAIN calls = {} /\ terminal = "none"
      BY DEF Init
    <2>2. ExceededDetail(meters, known, unpriced) = "none"
      <3>1. /\ unpriced = 0 /\ known = 0
            /\ meters["input"] = 0 /\ meters["output"] = 0 /\ meters["duration"] = 0
        BY DEF Init, Meters
      <3>2. /\ Limits["input"] \in Nat /\ Limits["output"] \in Nat /\ Limits["duration"] \in Nat
            /\ MaxCost \in Nat
        BY LedgerAssumption DEF Meters
      <3>3. QED BY <3>1, <3>2 DEF ExceededDetail
    <2>3. QED BY <2>1, <2>2 DEF LedgerTellsTheCalls
  <1>2. QED BY <1>1, NumberedInit, NumberedStep, TellsStep, LedgerInvariant, PTL DEF Spec

=============================================================================
