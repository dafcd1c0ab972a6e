--------------------------- MODULE RuntimeControls ---------------------------
(***************************************************************************)
(* The control mailbox of one run (controls.py, ControlCommandStore) and   *)
(* the channel that resolves it at scheduler checkpoints                   *)
(* (runtime_controls.py, RuntimeControlChannel).                           *)
(*                                                                         *)
(* A command is identified by its request sequence number, its place in    *)
(* the mailbox; 0 stands for Python's None.  The two revisions a command   *)
(* can have, the queued request and its one terminal resolution, are its   *)
(* status.  The channel is called by the scheduler, which passes the       *)
(* Agents that are active and pending at the checkpoint; the operators     *)
(* below take them as arguments, so that this module fixes nothing of the  *)
(* scheduling.  poll() holds the channel's lock from its first to its last *)
(* statement, but the mailbox has its own lock: a request can land in the  *)
(* middle of a poll, and is then beyond the horizon of that poll.          *)
(***************************************************************************)
EXTENDS Naturals, Sequences, FiniteSetsExt

CONSTANTS
    Agents,        \* the Agents of the approved TeamPlan, in plan order
    Capability,    \* [Agents -> Capabilities]
    Requests,      \* the commands the console may submit
    MaxCommands    \* bound on the length of the mailbox

Capabilities == {"implementation", "integration", "testing", "review"}

Kinds == {"guide", "correct", "pause", "resume", "interrupt", "cancel"}

Scopes == {"run", "agent", "future", "implementing", "verifying", "reviewing"}

Terminal == {"applied", "rejected", "superseded", "best_effort_failed"}

Request == [kind : Kinds, agent : Agents \cup {0}, scope : Scopes]

Command == [kind : Kinds, agent : Agents \cup {0}, scope : Scopes,
            status : {"queued"} \cup Terminal]

ASSUME RequestsAssumption ==
    /\ Requests \subseteq Request
    /\ \A r \in Requests : r.scope = "agent" <=> r.agent \in Agents
    /\ \A r \in Requests : r.kind = "interrupt" => r.scope = "agent"
    /\ \A r \in Requests : r.kind = "guide" => r.scope # "run"

VARIABLES
    mailbox,            \* the commands in request order
    observed,           \* commands poll() has already accepted or rejected
    horizon,            \* what list_latest() returned to the current poll
    guidance,           \* guidance waiting for the Agent's next invocation
    pauseRequest,       \* pause accepted, safe checkpoint not reached
    paused,
    correctionRequest,
    cancelRequest,
    interruptRequests   \* interrupts accepted, stop authority not yet won

channelVars == << observed, guidance, pauseRequest, paused,
                  correctionRequest, cancelRequest, interruptRequests >>

ControlsInit ==
    /\ mailbox = << >>
    /\ observed = {}
    /\ horizon = 0
    /\ guidance = [a \in Agents |-> {}]
    /\ pauseRequest = 0
    /\ paused = FALSE
    /\ correctionRequest = 0
    /\ cancelRequest = 0
    /\ interruptRequests = {}

ControlsTypeOK ==
    /\ mailbox \in Seq(Command)
    /\ observed \subseteq Nat
    /\ horizon \in Nat
    /\ guidance \in [Agents -> SUBSET Nat]
    /\ {pauseRequest, correctionRequest, cancelRequest} \subseteq Nat
    /\ paused \in BOOLEAN
    /\ interruptRequests \subseteq Nat
-----------------------------------------------------------------------------
(***************************************************************************)
(* The mailbox.                                                            *)
(***************************************************************************)

(* ControlCommandStore.request: the console thread appends revision 1. *)
Submit(r) ==
    /\ Len(mailbox) < MaxCommands
    /\ mailbox' = Append(mailbox, [kind |-> r.kind, agent |-> r.agent,
                                   scope |-> r.scope, status |-> "queued"])

(* ControlCommandStore.resolve: the second, terminal revision. *)
Resolved(m, c, status) == [m EXCEPT ![c].status = status]

(* The queued commands of list_latest() that no poll has observed. *)
Unobserved == {c \in DOMAIN mailbox :
                  c <= horizon /\ c \notin observed /\ mailbox[c].status = "queued"}

(***************************************************************************)
(* invocation_stop_reason: a user stop that must prevent a new invocation  *)
(* of the Agent.  The mailbox is read again, so a stop that no poll has    *)
(* observed yet already counts.                                            *)
(***************************************************************************)
StopReason(a) ==
    \/ cancelRequest # 0
    \/ \E c \in interruptRequests : mailbox[c].agent = a
    \/ \E c \in DOMAIN mailbox :
          /\ mailbox[c].status \notin {"rejected", "superseded"}
          /\ \/ mailbox[c].kind = "cancel"
             \/ mailbox[c].kind = "interrupt" /\ mailbox[c].agent = a

(* consume_guidance *)
ConsumeGuidance(a) == guidance' = [guidance EXCEPT ![a] = {}]
-----------------------------------------------------------------------------
(***************************************************************************)
(* _accept_or_reject, one action per kind of command.  Each of them marks  *)
(* the command observed.                                                   *)
(***************************************************************************)
Observe(c, kind) ==
    /\ mailbox[c].kind = kind
    /\ observed' = observed \cup {c}

AgentPhase(a) ==
    CASE Capability[a] \in {"implementation", "integration"} -> "implementing"
      [] Capability[a] = "testing" -> "verifying"
      [] OTHER -> "reviewing"

(* The incomplete Agents a guide command reaches. *)
GuidanceTargets(c, active, pending) ==
    CASE mailbox[c].scope = "agent" -> {mailbox[c].agent} \cap (active \cup pending)
      [] mailbox[c].scope = "future" -> pending
      [] OTHER -> {a \in active \cup pending : AgentPhase(a) = mailbox[c].scope}

AcceptGuide(c, active, pending) ==
    LET targets == GuidanceTargets(c, active, pending)
    IN  /\ Observe(c, "guide")
        /\ guidance' = [a \in Agents |->
                           IF a \in targets THEN guidance[a] \cup {c} ELSE guidance[a]]
        /\ mailbox' = Resolved(mailbox, c, IF targets = {} THEN "rejected" ELSE "applied")
        /\ UNCHANGED << pauseRequest, paused, correctionRequest, cancelRequest,
                        interruptRequests >>

AcceptCorrect(c) ==
    /\ Observe(c, "correct")
    /\ \/ /\ cancelRequest = 0 /\ correctionRequest = 0
          /\ correctionRequest' = c
          /\ UNCHANGED mailbox
       \/ /\ cancelRequest # 0 \/ correctionRequest # 0
          /\ mailbox' = Resolved(mailbox, c,
                            IF cancelRequest # 0 THEN "rejected" ELSE "superseded")
          /\ UNCHANGED correctionRequest
    /\ UNCHANGED << guidance, pauseRequest, paused, cancelRequest, interruptRequests >>

AcceptPause(c) ==
    /\ Observe(c, "pause")
    /\ LET stopping == cancelRequest # 0 \/ correctionRequest # 0
           holding  == paused \/ pauseRequest # 0
       IN  \/ /\ ~stopping /\ ~holding
              /\ pauseRequest' = c
              /\ UNCHANGED mailbox
           \/ /\ stopping \/ holding
              /\ mailbox' = Resolved(mailbox, c,
                                IF stopping THEN "rejected" ELSE "superseded")
              /\ UNCHANGED pauseRequest
    /\ UNCHANGED << guidance, paused, correctionRequest, cancelRequest,
                    interruptRequests >>

(* Resume withdraws a pause that has not reached its checkpoint yet. *)
AcceptResume(c) ==
    /\ Observe(c, "resume")
    /\ \/ /\ pauseRequest # 0
          /\ mailbox' = Resolved(Resolved(mailbox, pauseRequest, "superseded"), c, "applied")
          /\ pauseRequest' = 0
          /\ UNCHANGED paused
       \/ /\ pauseRequest = 0 /\ paused
          /\ mailbox' = Resolved(mailbox, c, "applied")
          /\ paused' = FALSE
          /\ UNCHANGED pauseRequest
       \/ /\ pauseRequest = 0 /\ ~paused
          /\ mailbox' = Resolved(mailbox, c, "rejected")
          /\ UNCHANGED << pauseRequest, paused >>
    /\ UNCHANGED << guidance, correctionRequest, cancelRequest, interruptRequests >>

AcceptInterrupt(c, active) ==
    /\ Observe(c, "interrupt")
    /\ \/ /\ mailbox[c].agent \in active
          /\ interruptRequests' = interruptRequests \cup {c}
          /\ UNCHANGED mailbox
       \/ /\ mailbox[c].agent \notin active
          /\ mailbox' = Resolved(mailbox, c, "rejected")
          /\ UNCHANGED interruptRequests
    /\ UNCHANGED << guidance, pauseRequest, paused, correctionRequest, cancelRequest >>

(* A cancel is too late once another cancel, or an applied correction, owns *)
(* the run.                                                                 *)
CancelTooLate ==
    \/ cancelRequest # 0
    \/ correctionRequest # 0 /\ mailbox[correctionRequest].status \in Terminal

AcceptCancel(c) ==
    /\ Observe(c, "cancel")
    /\ \/ /\ CancelTooLate
          /\ mailbox' = Resolved(mailbox, c, "superseded")
          /\ UNCHANGED << pauseRequest, correctionRequest, cancelRequest >>
       \/ /\ ~CancelTooLate
          /\ mailbox' = [d \in DOMAIN mailbox |->
                            CASE d = c -> [mailbox[d] EXCEPT !.status = "applied"]
                              [] d # c /\ d \in {pauseRequest, correctionRequest} ->
                                    [mailbox[d] EXCEPT !.status = "superseded"]
                              [] OTHER -> mailbox[d]]
          /\ pauseRequest' = 0
          /\ correctionRequest' = 0
          /\ cancelRequest' = c
    /\ UNCHANGED << guidance, paused, interruptRequests >>
-----------------------------------------------------------------------------
(***************************************************************************)
(* _advance_deferred: what earlier polls left waiting for a checkpoint.    *)
(* claimable is the set of active Agents whose running invocation still    *)
(* accepts a stop reason: interrupt_agent returns a positive number        *)
(* exactly for those.                                                      *)
(***************************************************************************)
InterruptsGone(active) == {c \in interruptRequests : mailbox[c].agent \notin active}

(* Mutant: every interrupt of a running invocation is reported applied. *)
InterruptsWon_All(claimable) == {c \in interruptRequests : mailbox[c].agent \in claimable}

(* Of two interrupts of one Agent the earlier one wins the stop authority. *)
InterruptsWon(claimable) ==
    {c \in interruptRequests :
        /\ mailbox[c].agent \in claimable
        /\ \A d \in interruptRequests : mailbox[d].agent = mailbox[c].agent => c <= d}

(* Mutant: a pause or correction is applied without draining active work. *)
SafeCheckpoint_Always(active) == TRUE

(* Pause and correction wait until no invocation is active. *)
SafeCheckpoint(active) == active = {}

AdvanceDeferred(active, claimable) ==
    LET gone == InterruptsGone(active)
        won  == InterruptsWon(claimable) \ gone
        safe == SafeCheckpoint(active)
        checkpoint == IF safe THEN {pauseRequest, correctionRequest} ELSE {}
    IN  /\ mailbox' =
              [c \in DOMAIN mailbox |->
                  CASE c \in gone -> [mailbox[c] EXCEPT !.status = "best_effort_failed"]
                    [] c \notin gone /\ (c \in won \cup checkpoint) ->
                          [mailbox[c] EXCEPT !.status = "applied"]
                    [] OTHER -> mailbox[c]]
        /\ interruptRequests' = interruptRequests \ (gone \cup won)
        /\ paused' = (paused \/ (safe /\ pauseRequest # 0))
        /\ pauseRequest' = IF safe THEN 0 ELSE pauseRequest
        /\ UNCHANGED << observed, guidance, correctionRequest, cancelRequest >>

(* Mutant: a pause hides a cancel. *)
Decision_HoldFirst ==
    IF paused \/ pauseRequest # 0 THEN "hold"
    ELSE IF cancelRequest # 0 THEN "cancel"
    ELSE IF correctionRequest # 0 THEN "correct"
    ELSE "continue"

(* The value poll() returns; _advance_deferred does not change it. *)
Decision ==
    IF cancelRequest # 0 THEN "cancel"
    ELSE IF correctionRequest # 0 THEN "correct"
    ELSE IF paused \/ pauseRequest # 0 THEN "hold"
    ELSE "continue"
=============================================================================
