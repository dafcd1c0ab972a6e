--------------------------- MODULE SessionMonitors ---------------------------
(***************************************************************************)
(* The three monitors with which the worker thread of execution.py watches *)
(* one OpenClaw process, over the session files that process is writing,   *)
(* and the result execute builds afterwards.  One Tick is one timed-out    *)
(* communicate; the initialization, provider and finalization monitors     *)
(* then read one after the other while OpenClaw goes on writing.  Ages are *)
(* ticks since the last progress a monitor saw, capped at Limit; the       *)
(* policies' ceilings are Limit and their suspicions Suspect, each monitor *)
(* having its own in the code.  A user stop is claimed by another thread   *)
(* at any time.                                                            *)
(***************************************************************************)
EXTENDS SessionTranscript

CONSTANTS
    Cases,     \* what may happen at most: the session inherited, the records of the turn,
               \* compactions, activity reports that fail, and user stops
    Suspect,   \* suspect_after_seconds, in ticks
    Limit,     \* silence_seconds and no_progress_seconds
    Recheck    \* COMPACTION_LINEAGE_RECHECK_SECONDS

ASSUME LimitsAssumption ==
    /\ Suspect \in Nat /\ Limit \in Nat /\ Recheck \in Nat
    /\ 0 < Suspect /\ Suspect < Limit /\ 0 < Recheck

VARIABLES
    store,    \* the session files
    base,     \* the baseline captured before launch
    file,     \* the plugin wrote the submission file
    stream,   \* unread bytes on the raw stream
    output,   \* unread process output
    proc,     \* "running", "hung", "zero" or "failed"
    step,     \* the worker's step
    init,     \* _InitializationLivenessMonitor
    prov,     \* _ProviderLivenessMonitor
    fin,      \* _ResponseFinalizationMonitor
    stop,     \* lifecycle.stop_reason
    found,    \* the stop reason execute reads
    result,   \* the AgentExecutionResult
    quiet,    \* ticks since OpenClaw last did something attributable
    left      \* what of the case has not happened

session == <<store, base, file, stream, output, proc>>
monitors == <<init, prov, fin>>
monitorsVars == <<session, step, monitors, stop, found, result, quiet, left>>

NoResult == [status |-> "none", why |-> "none"]

NewInitialization(degraded) ==
    [points |-> << Launched >>, age |-> 0, suspected |-> FALSE, ready |-> FALSE, stalled |-> FALSE,
     degraded |-> degraded]

NewProvider ==
    [lease |-> "none", age |-> 0, long |-> FALSE, observed |-> FALSE, progress |-> 0, started |-> 0,
     completed |-> 0, active |-> 0, repeating |-> FALSE, suspected |-> FALSE, suspicions |-> FALSE,
     stalled |-> FALSE, terminal |-> FALSE, degraded |-> FALSE, torn |-> FALSE, since |-> 0,
     report |-> TRUE]

NewFinalization == [terminal |-> FALSE, age |-> 0, suspected |-> FALSE, stalled |-> FALSE]

(* The baseline that cannot be read degrades the initialization monitor. *)
MonitorsInit ==
    /\ \E c \in Cases :
          /\ store \in (IF c.inherited THEN {Inherited(FALSE), Inherited(TRUE)} ELSE {EmptyStore})
          /\ left = [records |-> c.records, compactions |-> c.compactions, reports |-> c.reports,
                     stops |-> c.stops]
    /\ base = Baseline(store)
    /\ file = FALSE /\ stream = FALSE /\ output = FALSE /\ proc = "running" /\ step = "wait"
    /\ \E failed \in BOOLEAN : init = NewInitialization(failed)
    /\ prov = NewProvider /\ fin = NewFinalization
    /\ stop = "none" /\ found = "none" /\ result = NoResult /\ quiet = 0

Cap(n) == IF n < Limit THEN n ELSE Limit

-----------------------------------------------------------------------------
(* OpenClaw.  It may be slow, hang, or end at any point. *)

Writes == proc = "running" /\ UNCHANGED <<base, step, monitors, stop, found, result>>

SetUp ==
    /\ Writes /\ store.at < Header /\ ~store.turn
    /\ store' = [store EXCEPT !.at = @ + 1, !.sid = IF store.at = Index THEN "new" ELSE @]
    /\ quiet' = 0 /\ UNCHANGED <<file, stream, output, proc, left>>

(* The session key is bound to a new session. *)
NewSession ==
    /\ Writes /\ store.sid = "old" /\ ~store.turn /\ store.torn = "no"
    /\ store' = [EmptyStore EXCEPT !.at = Bound, !.sid = "new"]
    /\ quiet' = 0 /\ UNCHANGED <<file, stream, output, proc, left>>

BeginTurn ==
    /\ Writes /\ store.at = Header /\ ~store.turn /\ store.torn = "no"
    /\ store' = [store EXCEPT !.turn = TRUE]
    /\ quiet' = 0 /\ UNCHANGED <<file, stream, output, proc, left>>

Outstanding == IF store.records = << >> \/ Last(store.records) \notin CallKinds THEN "none" ELSE Last(store.records)

(* A record that may follow: a tool is answered before anything else. *)
Follows(k) ==
    /\ k \in ResultKinds <=> Outstanding # "none"
    /\ k \in {"receipt", "refused"} <=> Outstanding = "submit"
    /\ k = "same" =>
          Outstanding = "poll" /\ \E i \in 1..(Len(store.records) - 2) : store.records[i] = "poll"
    /\ store.records # << >> => Last(store.records) \notin {"text", "aborted"}

WriteRecord(k) ==
    /\ Writes /\ store.turn /\ store.torn = "no" /\ left.records > 0 /\ Follows(k)
    /\ left' = [left EXCEPT !.records = @ - 1]
    /\ store' = [store EXCEPT !.records = Append(@, k)]
    /\ file' = (file \/ k = "receipt")
    /\ quiet' = IF k \in {"poll", "same", "reject", "orphan"} THEN quiet ELSE 0
    /\ UNCHANGED <<stream, output, proc>>

(* A compaction within the turn: the index, the checkpoint and the successor
   segment are written one after the other. *)
Compact ==
    /\ Writes /\ store.turn
    /\ \/ /\ store.torn = "no" /\ left.compactions > 0
          /\ left' = [left EXCEPT !.compactions = @ - 1] /\ store' = [store EXCEPT !.torn = "index", !.sid = "new"]
       \/ /\ store.torn # "no" /\ UNCHANGED left
          /\ store' = [store EXCEPT !.torn = IF @ = "index" THEN "successor" ELSE "no"]
    /\ UNCHANGED <<file, stream, output, proc, quiet>>

Streams ==
    /\ Writes /\ store.turn /\ ~stream /\ stream' = TRUE
    /\ quiet' = IF Activity(store).repeating THEN quiet ELSE 0
    /\ UNCHANGED <<store, file, output, proc, left>>

(* communicate collects the output; what came before the answer is not counted. *)
Prints ==
    /\ Writes /\ step = "wait" /\ fin.terminal /\ ~output /\ output' = TRUE
    /\ UNCHANGED <<store, file, stream, proc, quiet, left>>

(* It stops doing anything without ending. *)
Hangs ==
    /\ Writes /\ proc' = "hung"
    /\ UNCHANGED <<store, file, stream, output, quiet, left>>

(* A process that is killed may leave an incomplete last line, which only the
   strict readings after it refuse. *)
Exits ==
    /\ proc \in {"running", "hung"} /\ proc' \in (IF proc = "hung" THEN {"failed"} ELSE {"zero", "failed"})
    /\ proc = "hung" => step = "stopping"
    /\ \E half \in {FALSE, proc' = "failed" /\ store.turn} : store' = [store EXCEPT !.half = half]
    /\ UNCHANGED <<base, file, stream, output, step, monitors, stop, found, result, quiet, left>>

-----------------------------------------------------------------------------
(* The monitors *)

Position(points, p) == \E i \in DOMAIN points : points[i] = p
Range1(a, b) == [i \in 1..(b - a) |-> a + i]

(* _InitializationLivenessMonitor._advance *)
Advance(m, p) ==
    LET last == Last(m.points)
        implied == IF p = ProviderStream \/ p <= base.at THEN << p >>
                   ELSE Range1(IF last < base.at THEN base.at ELSE last, p)
    IN  IF Position(m.points, p) THEN m
        ELSE IF p < last THEN [m EXCEPT !.degraded = TRUE]
        ELSE [m EXCEPT !.points = @ \o implied, !.age = 0, !.suspected = FALSE,
                       !.ready = p \in {CurrentTurn, ProviderStream}]

(* The part of poll after the reading: busy says the process counters moved. *)
Judge(m, busy) ==
    LET a == IF busy /\ ~m.ready THEN [m EXCEPT !.age = 0, !.suspected = FALSE] ELSE m
        s == IF a.age >= Suspect THEN [a EXCEPT !.suspected = TRUE] ELSE a
    IN  IF a.ready \/ a.degraded THEN a
        ELSE IF s.suspected /\ s.age >= Limit THEN [s EXCEPT !.stalled = TRUE] ELSE s

(* _InitializationLivenessMonitor.poll *)
InitPoll(m, busy) ==
    IF m.ready \/ m.stalled \/ m.degraded THEN m
    ELSE IF LineageError(store) THEN [m EXCEPT !.degraded = TRUE]
    ELSE LET p == Initialization(store, base)
         IN  Judge(IF p = 0 THEN m ELSE Advance(m, p), busy)

(* _start_lease and mark_ready *)
Ready(m, p) == IF m.ready THEN m ELSE Advance(m, p)

Aged(m, ticks) ==
    [m EXCEPT !.age = IF m.lease = "none" \/ m.terminal THEN 0 ELSE Cap(@ + ticks),
              !.since = IF m.torn THEN Cap(@ + ticks) ELSE 0]

(* What one reading of the session tells the provider monitor. *)
Observe(m, a) ==
    [m EXCEPT !.observed = TRUE, !.progress = a.progress, !.started = a.started,
              !.completed = a.completed, !.active = a.active, !.repeating = a.repeating,
              !.terminal = @ \/ a.terminal, !.torn = FALSE, !.since = 0,
              !.lease = IF @ = "none" THEN "current_turn" ELSE @,
              !.degraded = @ \/ a.progress < m.progress \/ a.started < m.started \/ a.completed < m.completed]

SessionProgress(m, a) ==
    \/ ~m.observed
    \/ a.progress > m.progress /\ ~a.repeating
    \/ a.terminal /\ ~m.terminal

(* The reading of a torn chain is waited out for a while; any other one that
   fails ends the enforcement. *)
Unread(m) ==
    CASE LineageError(store) ->
            [m EXCEPT !.torn = TRUE, !.degraded = @ \/ (m.torn /\ m.since >= Recheck)]
      [] ActivityError(store, base) -> [m EXCEPT !.degraded = TRUE]
      [] OTHER -> [m EXCEPT !.degraded = @ \/ (m.torn /\ m.since >= Recheck)]

(* _ProviderLivenessMonitor.poll up to its decision. *)
ProviderRead(before) ==
    LET a == Activity(store)
        readable == ActivityReady(store, base)
        old == [before EXCEPT !.long = @ \/ (before.lease # "none" /\ ~before.terminal /\ before.age >= Limit)]
        m == IF readable THEN Observe(old, a) ELSE Unread(old)
        streamed == stream /\ ~m.repeating
        active == (readable /\ SessionProgress(old, a)) \/ streamed
    IN  [m EXCEPT !.lease = IF @ = "none" /\ streamed THEN "provider_stream" ELSE @,
                  !.age = IF active THEN 0 ELSE @,
                  !.suspected = @ /\ ~active]

Source(m) == IF m.lease = "provider_stream" THEN ProviderStream ELSE CurrentTurn

Decide_WhileToolRuns(m) ==
    IF m.degraded \/ m.torn \/ m.terminal \/ m.lease = "none" THEN m
    ELSE LET s == IF m.age >= Suspect THEN [m EXCEPT !.suspected = TRUE, !.suspicions = TRUE] ELSE m
         IN  IF s.suspected /\ s.age >= Limit THEN [s EXCEPT !.stalled = TRUE] ELSE s

(* Its decision: a tool that runs, unless it only repeats, is not silence. *)
Decide(m) ==
    IF m.degraded \/ m.torn \/ m.terminal \/ m.lease = "none" \/ (m.active > 0 /\ ~m.repeating) THEN m
    ELSE LET s == IF m.age >= Suspect THEN [m EXCEPT !.suspected = TRUE, !.suspicions = TRUE] ELSE m
         IN  IF s.suspected /\ s.age >= Limit THEN [s EXCEPT !.stalled = TRUE] ELSE s

FinalizeProvider_Enforcing(m) ==
    [Decide(m) EXCEPT !.degraded = @ \/ m.torn \/ m.lease = "none"]

(* _ProviderLivenessMonitor.finalize: a response that returned is no stall. *)
FinalizeProvider(m) == [m EXCEPT !.degraded = @ \/ m.torn \/ m.lease = "none"]

(* _ResponseFinalizationMonitor.observe_terminal and poll *)
FinalRead(m) ==
    IF ~fin.terminal THEN [fin EXCEPT !.terminal = m.terminal, !.age = 0]
    ELSE IF output THEN [fin EXCEPT !.age = 0, !.suspected = FALSE] ELSE fin

FinalDecide(m) ==
    IF ~m.terminal THEN m
    ELSE LET s == IF m.age >= Suspect THEN [m EXCEPT !.suspected = TRUE] ELSE m
         IN  IF s.suspected /\ s.age >= Limit THEN [s EXCEPT !.stalled = TRUE] ELSE s

-----------------------------------------------------------------------------
(* The worker: _run_interruptible_process *)

Claim(r) == stop' = IF stop = "none" THEN r ELSE stop
SessionStands == UNCHANGED <<store, base, file, proc>>

(* communicate timed out; a request that is already there comes first.  The
   initialization monitor reads before OpenClaw can write again, and the provider
   monitor after. *)
Tick ==
    /\ step = "wait" /\ proc \in {"running", "hung"} /\ SessionStands
    /\ prov' = Aged(prov, 1)
    /\ fin' = [fin EXCEPT !.age = IF fin.terminal THEN Cap(@ + 1) ELSE 0]
    /\ quiet' = IF store.turn THEN Cap(quiet + 1) ELSE 0
    /\ LET aged == [init EXCEPT !.age = IF init.ready THEN 0 ELSE Cap(@ + 1)]
       IN  \/ stop # "none" /\ init' = aged /\ step' = "stopping" /\ UNCHANGED stop
           \/ /\ stop = "none"
              /\ \E busy \in {FALSE, proc = "running"} : init' = InitPoll(aged, busy)
              /\ \/ init'.stalled /\ Claim("initialization_stall") /\ step' = "stopping"
                 \/ init'.degraded /\ ~init'.stalled /\ Claim("process_failure") /\ step' = "stopping"
                 \/ ~init'.stalled /\ ~init'.degraded /\ UNCHANGED stop /\ step' = "poll"
    /\ UNCHANGED <<stream, output, found, result, left>>

(* The finalization monitor reads the provider monitor and the output of the
   last communicate; the deadline of the run may have passed as well.  A report
   of the decision that fails comes after it. *)
Poll ==
    /\ step = "poll" /\ SessionStands /\ stream' = FALSE /\ output' = FALSE
    /\ LET m == ProviderRead(prov)
           d == Decide(m)
       IN  \/ prov' = d /\ UNCHANGED left
           \/ /\ left.reports > 0 /\ left' = [left EXCEPT !.reports = @ - 1]
              /\ \/ d # prov /\ prov' = [d EXCEPT !.degraded = TRUE, !.report = FALSE]
                 \/ m # prov /\ prov' = [m EXCEPT !.degraded = TRUE, !.report = FALSE]
    /\ init' = IF prov.lease = "none" /\ prov'.lease # "none" THEN Ready(init, Source(prov')) ELSE init
    /\ fin' = FinalDecide(FinalRead(prov'))
    /\ \/ fin'.stalled /\ Claim("finalization_stall") /\ step' = "stopping"
       \/ ~fin'.stalled /\ prov'.stalled /\ Claim("provider_stall") /\ step' = "stopping"
       \/ /\ ~fin'.stalled /\ ~prov'.stalled
          /\ \/ Claim("run_deadline") /\ step' = "stopping"
             \/ UNCHANGED stop /\ step' = "wait"
    /\ UNCHANGED <<found, result, quiet>>

(* interrupt, on the scheduler's thread. *)
UserStops ==
    /\ step \in {"wait", "poll"} /\ proc \in {"running", "hung"}
    /\ stop = "none" /\ stop' = "user_interrupt" /\ left.stops > 0 /\ left' = [left EXCEPT !.stops = @ - 1]
    /\ UNCHANGED <<session, step, monitors, found, result, quiet>>

(* _await_process_stop: the grace passes or the process ends before. *)
Stopped ==
    /\ step = "stopping" /\ SessionStands
    /\ \/ proc \in {"zero", "failed"} /\ UNCHANGED <<init, fin, quiet>>
       \/ /\ proc \in {"running", "hung"}
          /\ init' = [init EXCEPT !.age = IF init.ready THEN 0 ELSE Limit]
          /\ fin' = [fin EXCEPT !.age = IF fin.terminal THEN Limit ELSE 0]
          /\ quiet' = Limit
    /\ step' = "evidence"
    /\ UNCHANGED <<stream, output, prov, stop, found, result, left>>

(* communicate returned, less than a tick later: the monitors are read a last
   time without enforcing. *)
Returned ==
    /\ step = "wait" /\ proc \in {"zero", "failed"} /\ SessionStands /\ step' = "evidence"
    /\ \E late \in {0, 1} :
          LET i == InitPoll(init, FALSE)
              m == ProviderRead(Aged(prov, late))
          IN  /\ init' = IF prov.lease = "none" /\ m.lease # "none" THEN Ready(i, Source(m)) ELSE i
              /\ prov' = FinalizeProvider(m)
              /\ fin' = FinalRead(m)
    /\ stream' = FALSE /\ output' = FALSE
    /\ UNCHANGED <<stop, found, result, quiet, left>>

(* The finally block reads the initialization once more. *)
Collect ==
    /\ step = "evidence" /\ SessionStands /\ step' = "result" /\ found' = stop
    /\ init' = InitPoll(init, FALSE)
    /\ UNCHANGED <<stream, output, prov, fin, stop, result, quiet, left>>

-----------------------------------------------------------------------------
(* execute, after the process has ended *)

Is(status, why) == [status |-> status, why |-> why]

(* A user stop, a stall or the deadline decides alone. *)
StopResult(r) ==
    CASE r = "user_interrupt" -> Is("interrupted", r)
      [] r = "initialization_stall" -> Is("initialization_stalled", r)
      [] r = "provider_stall" -> Is("provider_stalled", r)
      [] r = "run_deadline" -> Is("timed_out", r)

(* _terminal_response_recovery_result: a finished answer with its submission
   outlives the failure of the process that should have reported it. *)
Recoverable ==
    prov.terminal /\ TerminalMessage(store, base) /\ Submission(store, file) = "accepted"

(* stderr may hold a provider failure. *)
Recover(status, why) ==
    IF Recoverable THEN {Is("completed", why)}
    ELSE {Is(status, why), Is("provider_failed", "provider_failure")}

(* After a compaction timeout nothing is recovered. *)
CompactionFailure == Is("process_failed", "process_failure")

DeclaredStall == prov.suspicions /\ ~prov.degraded /\ prov.long

(* The payload of a process that ended well, and its typed submission. *)
Submitted ==
    LET outcome == IF ToolEvidence(store) THEN Submission(store, file) ELSE "unauthorized"
    IN  IF outcome = "accepted" THEN Is("completed", "completed")
        ELSE IF outcome = "missing" /\ Indices(store, CallKinds) # {} /\ Tail1(store) # "reject"
             THEN Is("upstream_incomplete", "upstream_incomplete")
             ELSE Is("invalid_response", "invalid_response")

PayloadResults ==
    {Submitted, Is("invalid_response", "invalid_response"), Is("provider_failed", "provider_failure"),
     IF DeclaredStall THEN Is("provider_stalled", "provider_stall") ELSE Is("timed_out", "run_deadline")}

SessionResults ==
    CASE found \in {"user_interrupt", "initialization_stall", "provider_stall", "run_deadline"} -> {StopResult(found)}
      [] found = "finalization_stall" -> Recover("finalization_stalled", found)
      [] OTHER -> IF proc = "zero" THEN PayloadResults
                  ELSE Recover("process_failed", "process_failure") \cup {CompactionFailure}

(* A process that is still there was killed by now. *)
Build ==
    /\ step = "result" /\ step' = "done"
    /\ proc' = IF proc \in {"running", "hung"} THEN "failed" ELSE proc
    /\ result' \in SessionResults
    /\ prov' = [prov EXCEPT !.stalled = @ \/ (result'.status = "provider_stalled")]
    /\ UNCHANGED <<store, base, file, stream, output, init, fin, stop, found, quiet, left>>

-----------------------------------------------------------------------------
(* The validators of the evidence and the result *)

(* ProviderLivenessEvidence.bind_mode_and_reason; a stall that OpenClaw itself
   declared is copied in without it. *)
ProviderEvidence ==
    prov.stalled => ~prov.degraded /\ prov.lease # "none" /\ (found = "provider_stall" => ~prov.terminal)

(* InitializationLivenessEvidence *)
InitializationEvidence ==
    /\ \A i \in 1..(Len(init.points) - 1) : init.points[i] < init.points[i + 1]
    /\ init.stalled => ~init.degraded /\ ~Position(init.points, CurrentTurn)

(* AgentExecutionTelemetry.validate_process_outcome *)
TelemetryAccepted == ~(prov.stalled /\ result.status \in {"timed_out", "interrupted"})

(* AgentExecutionResult.validate_result *)
ResultAccepted ==
    /\ prov.stalled <=> result.status = "provider_stalled"
    /\ result.status = "initialization_stalled" => init.stalled

-----------------------------------------------------------------------------
Ended == step = "done" /\ UNCHANGED monitorsVars

OpenClaw ==
    \/ SetUp \/ NewSession \/ BeginTurn \/ Compact \/ Streams \/ Prints \/ Hangs
    \/ \E k \in RecordKinds : WriteRecord(k)

Controller ==
    Tick \/ Poll \/ Stopped \/ Returned \/ Collect \/ Build

MonitorsNext == Controller \/ UserStops \/ Ended \/ (step \notin {"evidence", "result", "done"} /\ (OpenClaw \/ Exits))

MonitorsSpec == MonitorsInit /\ [][MonitorsNext]_monitorsVars

-----------------------------------------------------------------------------
(* _ProviderLivenessMonitor.poll ends an invocation for silence only when
   OpenClaw did nothing attributable for the whole ceiling and no tool was
   running, or when it only repeats a poll without progress.  (Two readings are
   left out: progress is not counted when a repeat follows it before the next
   poll, and while the successor segment of a compaction is missing the monitor
   judges by what it read before.) *)
StallIsSilence ==
    [][~prov.stalled /\ prov'.stalled /\ step = "poll" /\ store.torn = "no" =>
          Activity(store).repeating \/ (quiet >= Limit /\ Activity(store).active = 0)]_monitorsVars

(* The result that execute builds passes the validators of its own evidence,
   whatever OpenClaw wrote between two polls: a stall is never also degraded,
   terminal or before the lease, it is the status, and the checkpoints are passed
   in order.  (A user stop that races the stall, and an activity report that
   fails, are the exceptions.) *)
WatchdogResultAccepted ==
    step = "done" /\ prov.report /\ found # "user_interrupt" =>
        ProviderEvidence /\ InitializationEvidence /\ TelemetryAccepted /\ ResultAccepted

(* Only this invocation's turn counts.  The baseline keeps a turn the session
   already had, prompt and all, from being taken for it: nothing is observed,
   ready or terminal because of it.  And an invocation is completed only by the
   submission of its own turn: one call that got its receipt, after which no
   other tool was called, and the file the plugin wrote for it. *)
OnlyThisTurn ==
    /\ prov.observed \/ prov.terminal \/ fin.terminal => store.turn
    /\ Position(init.points, CurrentTurn) => store.turn
    /\ result.status = "completed" =>
        /\ store.turn /\ file
        /\ \E i \in Succeeded(store) : \A j \in Indices(store, CallKinds) : j <= i
=============================================================================
