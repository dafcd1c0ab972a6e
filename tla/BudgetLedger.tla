----------------------------- MODULE BudgetLedger -----------------------------
(***************************************************************************)
(* AgentBudgetLedger (budgets.py): the model-spend ledger that the worker  *)
(* threads of a run share, and what a thread does around it: reserve_call, *)
(* the provider call, and complete_call from persist_agent_invocation      *)
(* (invocation.py).                                                        *)
(*                                                                         *)
(* Every method holds the ledger's lock, so it is one action; wait_check   *)
(* runs outside the lock, and a thread that meets AgentBudgetBusy goes     *)
(* back to it after a timed wait.  Amounts of money are naturals in the    *)
(* smallest unit of the prices.  NoCount stands for a None of the provider *)
(* telemetry, and for the cost that cannot be computed from it.            *)
(***************************************************************************)
EXTENDS Naturals, Sequences, FiniteSets

CONSTANTS
    Callers,      \* threads that call models
    Waits,        \* those that reserve with wait_for_active (dynamic_runner.py)
    Routes,       \* model routes
    Pricing,      \* [Routes -> Price], frozen for the run
    Authorities,  \* the BudgetAuthority values a ledger may be opened with
    MaxCost,      \* max_estimated_cost_usd
    MaxCalls,     \* max_calls, controlled evaluation only
    Limits,       \* [Meters -> Nat], controlled evaluation only
    Reports,      \* the usage a provider may report for a call
    NoCount,
    JournalFails, \* whether an event append can fail between reserve and call
    CallBound     \* bound on calls_started

Meters == {"input", "output", "duration"}

(* "none": no price; "no_cache": token prices without cache prices;         *)
(* "confirmed_zero": every bucket confirmed free; "known": all priced.      *)
Price == [kind : {"none", "no_cache", "known", "confirmed_zero"},
          rate : Nat,      \* price of one token, the same for every bucket
          bound : Nat]     \* max_call_estimated_cost_usd, 0 for None

Count == Nat \cup {NoCount}

Report == [input : Count, output : Count, cache : Count, duration : Nat]

ASSUME LedgerAssumption ==
    /\ IsFiniteSet(Callers)
    /\ Waits \subseteq Callers
    /\ Routes # {}
    /\ Pricing \in [Routes -> Price]
    /\ Authorities \subseteq {"user_task", "controlled_evaluation"}
    /\ MaxCost \in Nat /\ MaxCalls \in Nat /\ CallBound \in Nat
    /\ Limits \in [Meters -> Nat]
    /\ Reports \subseteq Report
    /\ NoCount \notin Nat
    /\ JournalFails \in BOOLEAN

VARIABLES
    authority,   \* budget.authority, fixed when the ledger is opened
    phase,       \* [Callers -> Phases]
    stopped,     \* callers with a pending user stop
    held,        \* the reservation of a caller, while its call is active
    started,     \* _calls_started
    meters,      \* _input_tokens, _output_tokens, _agent_duration_ms
    known,       \* _known_estimated_cost_usd
    unpriced,    \* _unpriced_calls
    occupied,    \* active_reserved_cost_usd, the sum over _active
    calls,       \* _call_records
    terminal     \* the terminal ledger: not asked for, frozen, or invalid

vars == << authority, phase, stopped, held, started, meters, known, unpriced, occupied,
           calls, terminal >>

(* "lost" is a reservation whose thread has failed without settling it. *)
Phases == {"idle", "checking", "reserving", "calling", "lost", "rejected", "stopped"}

Reservation == [sequence : Nat, route : Routes, amount : Nat]

CallRecord == [sequence : Nat, agent : Callers, cost : Count, raised : BOOLEAN]

NoReservation == [sequence |-> 0, route |-> CHOOSE r \in Routes : TRUE, amount |-> 0]

(* The dictionary _active. *)
Active == {c \in Callers : phase[c] \in {"calling", "lost"}}

TypeOK ==
    /\ authority \in Authorities
    /\ phase \in [Callers -> Phases]
    /\ stopped \subseteq Callers
    /\ held \in [Callers -> Reservation]
    /\ started \in Nat
    /\ meters \in [Meters -> Nat]
    /\ known \in Nat /\ unpriced \in Nat /\ occupied \in Nat
    /\ calls \in Seq(CallRecord)
    /\ terminal \in {"none", "frozen", "invalid"}

Init ==
    /\ authority \in Authorities
    /\ phase = [c \in Callers |-> "idle"]
    /\ stopped = {}
    /\ held = [c \in Callers |-> NoReservation]
    /\ started = 0
    /\ meters = [m \in Meters |-> 0]
    /\ known = 0 /\ unpriced = 0 /\ occupied = 0
    /\ calls = << >>
    /\ terminal = "none"
-----------------------------------------------------------------------------
(***************************************************************************)
(* reserve_call                                                            *)
(***************************************************************************)
Free(r) == Pricing[r].kind = "confirmed_zero"

UserTask == authority = "user_task"

(* A user stop can reach a thread at any time; only the threads that may    *)
(* wait pass a wait_check that looks for it.                                *)
UserStop(c) ==
    /\ c \in Waits
    /\ phase[c] \in {"idle", "checking", "reserving", "calling"}
    /\ terminal = "none"
    /\ stopped' = stopped \cup {c}
    /\ UNCHANGED << authority, phase, held, started, meters, known, unpriced, occupied, calls, terminal >>

(* A thread starts the next invocation; held[c].route is the route it asks *)
(* for.                                                                    *)
Ask(c, r) ==
    /\ terminal = "none"
    /\ phase[c] = "idle"
    /\ started < CallBound
    /\ phase' = [phase EXCEPT ![c] = "checking"]
    /\ held' = [held EXCEPT ![c].route = r]
    /\ UNCHANGED << authority, stopped, started, meters, known, unpriced, occupied, calls, terminal >>

(* wait_check *)
WaitCheck(c) ==
    /\ phase[c] = "checking"
    /\ phase' = [phase EXCEPT ![c] = IF c \in stopped THEN "stopped" ELSE "reserving"]
    /\ UNCHANGED << authority, stopped, held, started, meters, known, unpriced, occupied, calls,
                    terminal >>

(* Mutant: the funds that active calls occupy still count as available. *)
Funds_IgnoresActive == IF known <= MaxCost THEN MaxCost - known ELSE 0

(* max_estimated_cost - known - occupied, cut off at 0: all that is asked   *)
(* of the difference is whether it is positive and, if so, its value.       *)
Funds == IF known + occupied <= MaxCost THEN MaxCost - (known + occupied) ELSE 0

(* AgentBudgetBusy: another call holds the funds and may return some. *)
Busy(r) ==
    /\ UserTask /\ ~Free(r)
    /\ Pricing[r].kind = "known" /\ unpriced = 0
    /\ Funds = 0
    /\ occupied > 0 /\ known < MaxCost

(* Mutant: the ceiling is tested with > where >= is meant. *)
Exhausted_BeyondOnly(r) ==
    \/ ~UserTask /\ started >= MaxCalls
    \/ /\ UserTask
       /\ \/ Pricing[r].kind \in {"none", "no_cache"}
          \/ unpriced > 0
          \/ /\ ~Free(r)
             /\ known > MaxCost \/ (Funds > 0 /\ Pricing[r].bound > Funds)

(* The other rejections of _reserve_call_locked, AgentBudgetExceeded. *)
Exhausted(r) ==
    \/ ~UserTask /\ started >= MaxCalls
    \/ /\ UserTask
       /\ \/ Pricing[r].kind \in {"none", "no_cache"}
          \/ unpriced > 0
          \/ /\ ~Free(r)
             /\ (Funds = 0 /\ ~Busy(r)) \/ (Funds > 0 /\ Pricing[r].bound > Funds)

(* Mutant: the sequence number is taken from the settled calls. *)
NextSequence_Settled == Len(calls) + 1

NextSequence == started + 1

Admitted(c) ==
    LET r == held[c].route
        amount == IF UserTask /\ ~Free(r) THEN Funds ELSE 0
    IN  /\ ~Exhausted(r) /\ ~Busy(r)
        /\ started' = started + 1
        /\ held' = [held EXCEPT ![c] = [sequence |-> NextSequence, route |-> r,
                                        amount |-> amount]]
        /\ occupied' = occupied + amount
        /\ phase' = [phase EXCEPT ![c] = "calling"]

Refused(c) ==
    LET r == held[c].route
    IN  /\ Exhausted(r) \/ Busy(r)
        /\ phase' = [phase EXCEPT ![c] = IF ~Exhausted(r) /\ c \in Waits THEN "checking"
                                         ELSE "rejected"]
        /\ UNCHANGED << held, started, occupied >>

(* _reserve_call_locked, and the timed wait of reserve_call. *)
ReserveCall(c) ==
    /\ phase[c] = "reserving"
    /\ Admitted(c) \/ Refused(c)
    /\ UNCHANGED << authority, stopped, meters, known, unpriced, calls, terminal >>

(* When an invocation continues an earlier one, _invoke_agent emits an      *)
(* event after the reservation and before the call; if the journal cannot   *)
(* be written the thread fails and nothing settles the call.                *)
EmitFails(c) ==
    /\ JournalFails
    /\ phase[c] = "calling"
    /\ \E i \in DOMAIN calls : calls[i].agent = c
    /\ phase' = [phase EXCEPT ![c] = "lost"]
    /\ UNCHANGED << authority, stopped, held, started, meters, known, unpriced, occupied, calls,
                    terminal >>
-----------------------------------------------------------------------------
(***************************************************************************)
(* complete_call                                                           *)
(***************************************************************************)
Reported(count) == IF count = NoCount THEN 0 ELSE count

(* AgentCallReservation.estimate_cost and estimate_model_cost *)
EstimatedCost(r, u) ==
    IF Free(r) THEN 0
    ELSE IF \/ NoCount \in {u.input, u.output, u.cache}
            \/ Pricing[r].kind = "none"
            \/ Pricing[r].kind = "no_cache" /\ u.cache # 0
         THEN NoCount
         ELSE Pricing[r].rate * (u.input + u.output + u.cache)

(* _exceeded_detail: which limit the totals exceed first. *)
ExceededDetail(totals, cost, missing) ==
    CASE UserTask /\ missing > 0 -> "spend unknown"
      [] ~UserTask /\ totals["input"] > Limits["input"] -> "input"
      [] ~UserTask /\ totals["input"] <= Limits["input"]
                   /\ totals["output"] > Limits["output"] -> "output"
      [] ~UserTask /\ totals["input"] <= Limits["input"]
                   /\ totals["output"] <= Limits["output"]
                   /\ totals["duration"] > Limits["duration"] -> "duration"
      [] OTHER -> IF cost > MaxCost THEN "cost" ELSE "none"

(* A detail that an earlier call has already caused is not raised again. *)
Raises(totals, cost, missing, unknown) ==
    LET detail == ExceededDetail(totals, cost, missing)
    IN  /\ detail # "none"
        /\ \/ detail # ExceededDetail(meters, known, unpriced)
           \/ UserTask /\ unknown

(* Mutant: the settled call keeps its funds. *)
Released_Kept(c) == occupied

Released(c) == occupied - held[c].amount

CompleteCall(c, u) ==
    LET r == held[c].route
        cost == EstimatedCost(r, u)
        totals == [input |-> meters["input"] + Reported(u.input),
                   output |-> meters["output"] + Reported(u.output),
                   duration |-> meters["duration"] + u.duration]
        spent == known + Reported(cost)
        missing == IF cost = NoCount THEN unpriced + 1 ELSE unpriced
        raised == Raises(totals, spent, missing, cost = NoCount)
    IN  /\ phase[c] = "calling"
        /\ meters' = totals
        /\ known' = spent
        /\ unpriced' = missing
        /\ occupied' = Released(c)
        /\ calls' = Append(calls, [sequence |-> held[c].sequence, agent |-> c,
                                   cost |-> cost, raised |-> raised])
        /\ phase' = [phase EXCEPT ![c] = IF raised THEN "rejected" ELSE "idle"]
        /\ held' = [held EXCEPT ![c] = NoReservation]
        /\ UNCHANGED << authority, stopped, started, terminal >>
-----------------------------------------------------------------------------
(***************************************************************************)
(* terminal_record, once no thread is at work any more: BudgetLedgerRecord *)
(* refuses a ledger with active calls or without contiguous records.       *)
(***************************************************************************)
RecordedSequences == {calls[i].sequence : i \in DOMAIN calls}

TerminalRecord ==
    /\ terminal = "none"
    /\ \A c \in Callers : phase[c] \notin {"checking", "reserving", "calling"}
    /\ terminal' = IF /\ Active = {}
                      /\ started = Len(calls)
                      /\ RecordedSequences = 1..Len(calls)
                   THEN "frozen" ELSE "invalid"
    /\ UNCHANGED << authority, phase, stopped, held, started, meters, known, unpriced, occupied, calls >>

Over == terminal # "none" /\ UNCHANGED vars

Step(c) == WaitCheck(c) \/ ReserveCall(c) \/ \E u \in Reports : CompleteCall(c, u)

Next ==
    \/ \E c \in Callers :
          \/ UserStop(c) \/ EmitFails(c) \/ Step(c)
          \/ \E r \in Routes : Ask(c, r)
    \/ TerminalRecord
    \/ Over

Spec == Init /\ [][Next]_vars

(* The wait is timed and every provider call is bounded by a timeout. *)
FairSpec == Spec /\ \A c \in Callers : WF_vars(Step(c))
-----------------------------------------------------------------------------
(***************************************************************************)
(* Properties.                                                             *)
(***************************************************************************)

(* In a user task an unsettled priced call holds all that is left of the    *)
(* authorization, so there is never a second one, however the threads       *)
(* interleave (_reserve_call_locked: "reserved_cost = available").          *)
PaidCallHoldsAllFunds ==
    UserTask =>
        \A c \in Active : ~Free(held[c].route) =>
            /\ known + held[c].amount = MaxCost
            /\ \A d \in Active : ~Free(held[d].route) => d = c

(* A user task overspends its ceiling by what one call cost more than was   *)
(* left for it, never by the sum of concurrent calls: before the last call  *)
(* that cost anything the spend was below the ceiling.                      *)
OvershootIsOneCall ==
    UserTask /\ known > MaxCost =>
        \E i \in DOMAIN calls :
            /\ calls[i].cost \in Nat
            /\ known < MaxCost + calls[i].cost
            /\ \A j \in DOMAIN calls : j > i => calls[j].cost = 0

(* The ledger tells the calls.  When the threads are done it can be frozen: *)
(* the records are numbered 1..n without a gap                              *)
(* (BudgetLedgerRecord.validate_aggregate), unless a thread died with its   *)
(* reservation unsettled.  A ledger beyond a limit has told a caller so:    *)
(* suppressing a detail that was there before (complete_call) loses no      *)
(* violation, and in a user task a call of unknown cost always hears of it. *)
LedgerTellsTheCalls ==
    /\ terminal = "invalid" => \E c \in Callers : phase[c] = "lost"
    /\ ExceededDetail(meters, known, unpriced) # "none" =>
          \E i \in DOMAIN calls : calls[i].raised
    /\ UserTask => \A i \in DOMAIN calls : calls[i].cost = NoCount => calls[i].raised

(* AgentBudgetBusy: "Authorization is temporarily occupied by an active     *)
(* paid invocation".  A thread that waits for funds is admitted, refused or *)
(* stopped in the end, unless the reservation it waits for was lost.        *)
WaitersServed ==
    \A c \in Callers :
        (phase[c] \in {"checking", "reserving"}) ~>
            \/ phase[c] \in {"calling", "rejected", "stopped"}
            \/ \E d \in Callers : phase[d] = "lost"
=============================================================================
