-------------------------- MODULE SessionTranscript --------------------------
(***************************************************************************)
(* What openclaw_session_evidence.py and submissions.py read from the      *)
(* files of one OpenClaw session while OpenClaw writes them.  A session    *)
(* store says how far OpenClaw has set the session up, under which session *)
(* id, whether it inherited a turn with the same prompt, whether this      *)
(* invocation's turn is there, the records after it, whether the last line *)
(* is incomplete, and how far a compaction has moved the session to a new  *)
(* segment.  A record is one message; at most one tool is outstanding.     *)
(***************************************************************************)
EXTENDS Naturals, Sequences, SequencesExt

CallKinds == {"call", "poll", "submit"}
ResultKinds == {"result", "same", "receipt", "refused"}
AssistantKinds == CallKinds \cup {"text", "aborted"}

(* "reject" is the runtime's answer to a tool it does not have; "orphan" any
   other result without a call. *)
RecordKinds == AssistantKinds \cup ResultKinds \cup {"reject", "orphan"}

(* InitializationCheckpoint *)
Launched == 1
Directory == 2
Index == 3
Bound == 4
Header == 5
CurrentTurn == 6
ProviderStream == 7

EmptyStore == [at |-> Launched, sid |-> "none", old |-> FALSE, turn |-> FALSE, records |-> << >>,
               half |-> FALSE, torn |-> "no"]
Inherited(same) == [EmptyStore EXCEPT !.at = Header, !.sid = "old", !.old = same]

(* _rotation_chain: the index names a session the checkpoints do not yet. *)
LineageError(s) == s.torn = "index"

Matches(s) == (IF s.old THEN 1 ELSE 0) + (IF s.turn THEN 1 ELSE 0)

(* _inspect_openclaw_session_snapshot: a segment that is not there yet reads as
   a bound session. *)
Checkpoint(s) ==
    CASE s.torn = "successor" -> Bound
      [] Matches(s) > 0 -> CurrentTurn
      [] OTHER -> s.at

(* capture_openclaw_initialization_baseline *)
Baseline(s) ==
    [at |-> IF s.at = Launched THEN 0 ELSE Checkpoint(s), sid |-> s.sid, matches |-> Matches(s)]

(* Mutant: every turn in the session counts as this invocation's. *)
IsNew_AnyTurn(s, base) == TRUE

(* _snapshot_is_new_for_invocation *)
IsNew(s, base) ==
    \/ base.at = 0
    \/ IF Checkpoint(s) = CurrentTurn
       THEN s.sid # base.sid \/ Matches(s) > base.matches
       ELSE \/ s.sid # "none" /\ base.sid # "none" /\ s.sid # base.sid
            \/ Checkpoint(s) > base.at

(* The checkpoint inspect_openclaw_initialization returns, 0 for none. *)
Initialization(s, base) ==
    IF s.at # Launched /\ IsNew(s, base) THEN Checkpoint(s) ELSE 0

(* The records of the last turn with the prompt; an inherited turn ended with
   an answer. *)
Invocation(s) == IF s.turn THEN s.records ELSE << "text" >>

-----------------------------------------------------------------------------
(* inspect_openclaw_session_activity *)

Quiet == [progress |-> 0, started |-> 0, completed |-> 0, repeating |-> FALSE, toolUse |-> FALSE]

(* A poll of a background process, and an answer that repeats the last one, are
   no progress. *)
Read(a, k) ==
    LET progress == [a EXCEPT !.progress = @ + 1, !.repeating = FALSE]
    IN  CASE k \in {"call", "submit"} ->
               [progress EXCEPT !.started = @ + 1, !.toolUse = TRUE]
          [] k = "poll" -> [a EXCEPT !.started = @ + 1, !.toolUse = TRUE]
          [] k = "same" -> [a EXCEPT !.completed = @ + 1, !.repeating = TRUE]
          [] k \in {"result", "receipt", "refused"} -> [progress EXCEPT !.completed = @ + 1]
          [] k \in {"text", "aborted"} -> [progress EXCEPT !.toolUse = FALSE]
          [] OTHER -> a

Malformed(s) == \E i \in DOMAIN Invocation(s) : Invocation(s)[i] = "orphan"

Tail1(s) == IF Invocation(s) = << >> THEN "user" ELSE Last(Invocation(s))

Activity(s) ==
    LET a == FoldLeft(Read, Quiet, Invocation(s))
    IN  [progress |-> a.progress, started |-> a.started, completed |-> a.completed,
         active |-> a.started - a.completed, repeating |-> a.repeating,
         terminal |-> Tail1(s) \in AssistantKinds /\ ~a.toolUse /\ a.started = a.completed]

ActivityError(s, base) ==
    LineageError(s) \/ (Checkpoint(s) = CurrentTurn /\ IsNew(s, base) /\ Malformed(s))
ActivityReady(s, base) ==
    Initialization(s, base) = CurrentTurn /\ ~ActivityError(s, base)

-----------------------------------------------------------------------------
(* What execute reads once the process has ended. *)

Indices(s, kinds) == {i \in DOMAIN Invocation(s) : Invocation(s)[i] \in kinds}

(* _classify_runtime_rejections *)
RejectionAfterSubmission(s) ==
    \E i \in Indices(s, {"submit"}), j \in Indices(s, {"reject"}) : i < j

(* _extract_tool_calls: calls and results pair exactly. *)
Paired(s) ==
    \A i \in DOMAIN Invocation(s) :
        /\ Invocation(s)[i] \in CallKinds =>
              \E j \in Indices(s, ResultKinds) : j > i /\ \A k \in Indices(s, CallKinds) : k <= i \/ k > j
        /\ Invocation(s)[i] # "orphan"

(* capture_openclaw_tool_evidence reads strictly: whole lines and a whole chain. *)
ToolEvidence(s) ==
    /\ ~s.half /\ s.torn = "no" /\ Matches(s) > 0
    /\ Invocation(s) # << >> /\ Tail1(s) \notin CallKinds
    /\ ~RejectionAfterSubmission(s) /\ Paired(s)

(* capture_openclaw_terminal_response and _capture_openclaw_terminal_context *)
TerminalMessage(s, base) ==
    /\ ActivityReady(s, base) /\ ~s.half
    /\ Tail1(s) = "text" /\ ~RejectionAfterSubmission(s) /\ Paired(s)

(* The result of the submission tool call i. *)
Answer(s, i) == Invocation(s)[i + 1]
Succeeded(s) == {i \in Indices(s, {"submit"}) : i < Len(Invocation(s)) /\ Answer(s, i) = "receipt"}

(* validate_submission_capture, from evidence that could be read; the file is
   the one the plugin wrote for this invocation. *)
Submission(s, file) ==
    CASE Indices(s, {"submit"}) = {} -> IF file THEN "unauthorized" ELSE "missing"
      [] \E i, j \in Succeeded(s) : i # j -> "duplicate"
      [] Succeeded(s) = {} -> "invalid"
      [] \E i \in Succeeded(s), j \in Indices(s, CallKinds) : j > i -> "unauthorized"
      [] ~file -> "invalid"
      [] OTHER -> "accepted"
=============================================================================
