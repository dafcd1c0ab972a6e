--------------------------- MODULE StateRecovery ---------------------------
(***************************************************************************)
(* What a killed sat leaves behind, and the two commands that remove it.   *)
(* Tasks create the state root (product.py, state_layout.py), take a lease *)
(* for every provider process (process_lifecycle.py) and remove their      *)
(* sandboxes at the end (cli.py, sandbox_lifecycle.py).  sat cleanup       *)
(* --orphans reclaims the processes, sandboxes and leases of a killed      *)
(* controller; uninstall (scripts/uninstall.sh, uninstall_state.py,        *)
(* workspace_mounts.py) exports and purges state nobody uses.  Controllers *)
(* are bare sat processes: they share the lifecycle lock uninstall takes   *)
(* exclusively; sat cleanup takes none.  The kernel may hand the pid of a  *)
(* provider process that ended to another program.                         *)
(***************************************************************************)
EXTENDS Naturals, FiniteSets

CONSTANTS
    Controllers,  \* sat processes; each has at most one provider process at a time
    MaxKills,     \* bound on killed processes
    MaxFaults     \* bound on failing commands

Data == {"runs", "self-checks"}
Leases == "process-leases"
Provider == "openclaw"
Categories == Data \cup {Leases, Provider}

VARIABLES
    root,      \* state root: "absent", "unmarked" or "owned"
    cats,      \* category directories below it
    legacy,    \* root-owned directories older releases left: "workspace", "cache"
    task,      \* [controller -> its step]
    run,       \* [controller -> phase of its run.json]
    pid,       \* [controller -> who has its provider process' pid]
    lease,     \* controllers with a lease file
    box,       \* controllers whose sandbox container exists
    cleaner,   \* sat cleanup --orphans
    uninst,    \* uninstall
    exported,  \* categories an export holds
    kills, faults

layout == <<root, cats, legacy>>
owned == <<task, run, pid, lease, box>>
counts == <<kills, faults>>
vars == <<layout, owned, cleaner, uninst, exported, counts>>

NoCleaner == [pc |-> "idle", todo |-> {}, orphans |-> {}, reclaimed |-> {}]
NoUninstall == [pc |-> "idle", data |-> FALSE, provider |-> FALSE, export |-> FALSE,
                had |-> {}, refused |-> FALSE]

Init ==
    /\ \E old \in {{}, {"workspace", "cache"}} :
          /\ legacy = old
          /\ root = IF old = {} THEN "absent" ELSE "owned"
          /\ cats = IF old = {} THEN {} ELSE Categories
    /\ task = [c \in Controllers |-> "off"] /\ run = [c \in Controllers |-> "none"]
    /\ pid = [c \in Controllers |-> "free"] /\ lease = {} /\ box = {}
    /\ cleaner = NoCleaner /\ uninst = NoUninstall /\ exported = {}
    /\ kills = 0 /\ faults = 0

Fault == faults < MaxFaults /\ faults' = faults + 1 /\ UNCHANGED kills

(* inspect_state_layout: a root that exists must carry its marker. *)
LayoutReady == root # "unmarked"

Alive(c) == task[c] \notin {"off", "done", "dead"}

-----------------------------------------------------------------------------
(* A task *)

To(c, pc) == task' = [task EXCEPT ![c] = pc]

(* managed_foreground_task_lease and the layout check of ensure_product_state;
   a refused start changes nothing. *)
StartTask(c) ==
    /\ task[c] = "off" /\ uninst.pc = "idle" /\ LayoutReady
    /\ To(c, IF root = "absent" THEN "marker" ELSE "categories")
    /\ root' = IF root = "absent" THEN "unmarked" ELSE root
    /\ UNCHANGED <<cats, legacy, run, pid, lease, box, cleaner, uninst, exported, counts>>

(* Another process may have written the marker since. *)
WriteMarker(c) ==
    /\ task[c] = "marker" /\ To(c, "categories") /\ root' = "owned"
    /\ UNCHANGED <<cats, legacy, run, pid, lease, box, cleaner, uninst, exported, counts>>

MakeCategories(c) ==
    /\ task[c] = "categories" /\ To(c, "ready") /\ cats' = Categories
    /\ UNCHANGED <<root, legacy, run, pid, lease, box, cleaner, uninst, exported, counts>>

(* Planning is over and approved: run.json says the run goes on. *)
BeginRun(c) ==
    /\ task[c] = "ready" /\ run[c] = "none" /\ run' = [run EXCEPT ![c] = "active"]
    /\ UNCHANGED <<layout, task, pid, lease, box, cleaner, uninst, exported, counts>>

(* Planning and the run both invoke a provider. *)
Spawn(c) ==
    /\ task[c] = "ready" /\ run[c] # "terminal" /\ pid[c] = "free"
    /\ pid' = [pid EXCEPT ![c] = "child"] /\ To(c, "spawned")
    /\ UNCHANGED <<layout, run, lease, box, cleaner, uninst, exported, counts>>

(* ProcessLeaseStore.acquire; a child that is gone has no identity. *)
Acquire(c) ==
    /\ task[c] = "spawned"
    /\ IF pid[c] = "child" THEN To(c, "leased") /\ lease' = lease \cup {c}
       ELSE To(c, "ready") /\ UNCHANGED lease
    /\ UNCHANGED <<layout, run, pid, box, cleaner, uninst, exported, counts>>

(* ProcessLeaseStore.release, after the child was waited for. *)
Release(c) ==
    /\ task[c] = "leased" /\ pid[c] # "child"
    /\ To(c, "ready") /\ lease' = lease \ {c}
    /\ UNCHANGED <<layout, run, pid, box, cleaner, uninst, exported, counts>>

EndRun(c) ==
    /\ task[c] = "ready" /\ To(c, "cleanup")
    /\ run' = [run EXCEPT ![c] = IF @ = "none" THEN @ ELSE "terminal"]
    /\ UNCHANGED <<layout, pid, lease, box, cleaner, uninst, exported, counts>>

(* The session keys of the run, each with its correction generations. *)
RunSandboxes(c) == box \cap {c}

(* cleanup_run_sandbox_containers; a failure is reported and the task ends. *)
CleanupRun(c) ==
    /\ task[c] = "cleanup" /\ To(c, "done")
    /\ \/ box' = box \ RunSandboxes(c) /\ UNCHANGED counts
       \/ Fault /\ UNCHANGED box
    /\ UNCHANGED <<layout, run, pid, lease, cleaner, uninst, exported>>

(* The provider process starts its sandbox, which outlives it. *)
MakeSandbox(c) ==
    /\ pid[c] = "child" /\ c \notin box /\ box' = box \cup {c}
    /\ UNCHANGED <<layout, task, run, pid, lease, cleaner, uninst, exported, counts>>

ChildExits(c) ==
    /\ pid[c] = "child" /\ pid' = [pid EXCEPT ![c] = "free"]
    /\ UNCHANGED <<layout, task, run, lease, box, cleaner, uninst, exported, counts>>

PidReused(c) ==
    /\ pid[c] = "free" /\ task[c] = "dead" /\ pid' = [pid EXCEPT ![c] = "foreign"]
    /\ UNCHANGED <<layout, task, run, lease, box, cleaner, uninst, exported, counts>>

(* The controller is killed; its child runs in a group of its own. *)
Kill(c) ==
    /\ Alive(c) /\ kills < MaxKills /\ kills' = kills + 1 /\ To(c, "dead")
    /\ UNCHANGED <<layout, run, pid, lease, box, cleaner, uninst, exported, faults>>

-----------------------------------------------------------------------------
(* sat cleanup --orphans *)

(* ProcessLeaseStore.inspect *)
Active == {c \in lease : Alive(c)}
Orphaned == {c \in lease : ~Alive(c) /\ pid[c] = "child"}
Stale == lease \ (Active \cup Orphaned)

CleanerAt(pc) == cleaner.pc = pc
CleanerTo(pc) == cleaner' = [cleaner EXCEPT !.pc = pc]

(* The candidates the user is shown and asked about. *)
Inspect ==
    /\ CleanerAt("idle") /\ LayoutReady /\ Orphaned \cup Stale # {}
    /\ root' = "owned" /\ cats' = Categories
    /\ cleaner' = [NoCleaner EXCEPT !.pc = "confirm", !.todo = Orphaned \cup Stale]
    /\ UNCHANGED <<legacy, owned, uninst, exported, counts>>

(* reclaim_orphans inspects again; a lease that is gone is an error. *)
Confirm ==
    /\ CleanerAt("confirm")
    /\ cleaner' = IF cleaner.todo \subseteq lease
                  THEN [cleaner EXCEPT !.pc = "reclaim", !.orphans = Orphaned] ELSE NoCleaner
    /\ UNCHANGED <<layout, owned, uninst, exported, counts>>

Decline ==
    /\ CleanerAt("confirm") /\ cleaner' = NoCleaner
    /\ UNCHANGED <<layout, owned, uninst, exported, counts>>

Reclaimed(c) == cleaner' = [cleaner EXCEPT !.todo = @ \ {c}, !.reclaimed = @ \cup {c}]

ReclaimUnchecked(c) ==
    /\ CleanerAt("reclaim") /\ c \in cleaner.todo /\ Reclaimed(c)
    /\ pid' = [pid EXCEPT ![c] = IF c \in cleaner.orphans THEN "free" ELSE @]
    /\ UNCHANGED <<layout, task, run, lease, box, uninst, exported, counts>>

(* A stale lease needs no signal; an orphan gets one only while its identity is
   still the leased one.  The last check and the signal are one step: the pidfd
   keeps the kernel from reusing the pid in between. *)
Reclaim(c) ==
    /\ CleanerAt("reclaim") /\ c \in cleaner.todo /\ Reclaimed(c)
    /\ pid' = [pid EXCEPT ![c] = IF c \in cleaner.orphans /\ @ = "child" THEN "free" ELSE @]
    /\ UNCHANGED <<layout, task, run, lease, box, uninst, exported, counts>>

(* The process stays alive or cannot be signalled, or it changed between the
   first look at its identity and the last, which is an error. *)
ReclaimFails ==
    /\ CleanerAt("reclaim") /\ cleaner.todo # {} /\ cleaner' = NoCleaner
    /\ \/ Fault
       \/ UNCHANGED counts /\ \E c \in cleaner.todo \cap cleaner.orphans : pid[c] # "child"
    /\ UNCHANGED <<layout, owned, uninst, exported>>

ReclaimDone ==
    /\ CleanerAt("reclaim") /\ cleaner.todo = {} /\ CleanerTo("sandboxes")
    /\ UNCHANGED <<layout, owned, uninst, exported, counts>>

SandboxesSkipped ==
    /\ CleanerAt("sandboxes") /\ CleanerTo("release")
    /\ UNCHANGED <<layout, owned, uninst, exported, counts>>

(* cleanup_sat_sandbox_sessions for the reclaimed session keys.  Docker may fail
   after some containers; the leases stay. *)
RemoveSandboxes ==
    /\ CleanerAt("sandboxes")
    /\ \/ box' = box \ cleaner.reclaimed /\ CleanerTo("release") /\ UNCHANGED counts
       \/ /\ Fault /\ cleaner' = NoCleaner
          /\ \E some \in SUBSET (box \cap cleaner.reclaimed) : box' = box \ some
    /\ UNCHANGED <<layout, task, run, pid, lease, uninst, exported>>

(* A lease file that is gone, or the whole directory, is an error. *)
ReleaseLease(c) ==
    /\ CleanerAt("release") /\ c \in cleaner.reclaimed
    /\ IF c \in lease
       THEN /\ lease' = lease \ {c}
            /\ cleaner' = IF cleaner.reclaimed = {c} THEN NoCleaner
                          ELSE [cleaner EXCEPT !.reclaimed = @ \ {c}]
       ELSE UNCHANGED lease /\ cleaner' = NoCleaner
    /\ UNCHANGED <<layout, task, run, pid, box, uninst, exported, counts>>

KillCleaner ==
    /\ ~CleanerAt("idle") /\ kills < MaxKills /\ kills' = kills + 1 /\ cleaner' = NoCleaner
    /\ UNCHANGED <<layout, owned, uninst, exported, faults>>

-----------------------------------------------------------------------------
(* Uninstall *)

At(pc) == uninst.pc = pc
Next1(pc) == uninst' = [uninst EXCEPT !.pc = pc]
Refuse == uninst' = [NoUninstall EXCEPT !.refused = TRUE]

(* The lifecycle lock; every task has ended or is dead. *)
StartUninstall ==
    /\ At("idle") /\ \A c \in Controllers : ~Alive(c)
    /\ \E d, p, x \in BOOLEAN :
          uninst' = [NoUninstall EXCEPT !.pc = "preflight", !.data = d, !.provider = p, !.export = x]
    /\ UNCHANGED <<layout, owned, cleaner, exported, counts>>

(* _validate_run_liveness and _validate_process_liveness *)
RunsLive == "runs" \in cats /\ \E c \in Controllers : run[c] = "active"
ProcessesLive == Leases \in cats /\ Active \cup Orphaned # {}

(* preflight_uninstall_state *)
Idle == root = "absent" \/ (LayoutReady /\ ~RunsLive /\ ~ProcessesLive)

Preflight ==
    /\ At("preflight")
    /\ IF Idle /\ ~(uninst.export /\ exported # {}) THEN Next1("repair") ELSE Refuse
    /\ UNCHANGED <<layout, owned, cleaner, exported, counts>>

(* repair_legacy_sandbox_skill_mountpoints, in a container of the local image. *)
RepairWorkspaces ==
    /\ At("repair")
    /\ IF uninst.export \/ uninst.data \/ uninst.provider
       THEN \/ legacy' = legacy \ {"workspace"} /\ Next1("cache") /\ UNCHANGED counts
            \/ "workspace" \in legacy /\ Fault /\ Refuse /\ UNCHANGED legacy
       ELSE Next1("apply") /\ UNCHANGED <<legacy, counts>>
    /\ UNCHANGED <<root, cats, owned, cleaner, exported>>

(* repair_legacy_openclaw_skill_workspaces as python -m runs it: the module's
   last function, require_idle_openclaw_state, is not defined yet when main runs. *)
RepairCache ==
    /\ At("cache")
    /\ IF uninst.provider /\ "cache" \in legacy THEN Refuse ELSE Next1("apply")
    /\ UNCHANGED <<layout, owned, cleaner, exported, counts>>

(* apply_uninstall_state begins with a preflight of its own. *)
Apply ==
    /\ At("apply")
    /\ IF Idle THEN uninst' = [uninst EXCEPT !.pc = "export", !.had = Data \cap cats] ELSE Refuse
    /\ UNCHANGED <<layout, owned, cleaner, exported, counts>>

ExportRuns ==
    /\ At("export") /\ Next1("config")
    /\ exported' = IF uninst.export THEN {"runs"} ELSE exported
    /\ UNCHANGED <<layout, owned, cleaner, counts>>

(* _copy_export: a staging copy that takes the destination's name when it is
   complete, or is removed. *)
Export ==
    /\ At("export")
    /\ \/ /\ exported' = IF uninst.export THEN Data \cap cats ELSE exported
          /\ Next1("config") /\ UNCHANGED counts
       \/ uninst.export /\ Fault /\ Refuse /\ UNCHANGED exported
    /\ UNCHANGED <<layout, owned, cleaner>>

(* Removing the configuration file can fail; nothing else here reads the file. *)
PurgeConfig ==
    /\ At("config")
    /\ \/ Next1("data") /\ UNCHANGED counts
       \/ Fault /\ Refuse
    /\ UNCHANGED <<layout, owned, cleaner, exported>>

(* One category of generated data. *)
PurgeData ==
    /\ At("data")
    /\ LET left == IF uninst.data THEN Data \cap cats ELSE {}
       IN  \/ left = {} /\ Next1("leases") /\ UNCHANGED <<cats, run, counts>>
           \/ \E k \in left :
                /\ cats' = cats \ {k} /\ UNCHANGED <<uninst, counts>>
                /\ run' = IF k = "runs" THEN [c \in Controllers |-> "none"] ELSE run
           \/ left # {} /\ Fault /\ Refuse /\ UNCHANGED <<cats, run>>
    /\ UNCHANGED <<root, legacy, task, pid, lease, box, cleaner, exported>>

PurgeLeases ==
    /\ At("leases")
    /\ \/ cats' = cats \ {Leases} /\ lease' = {} /\ Next1("provider") /\ UNCHANGED counts
       \/ Leases \in cats /\ Fault /\ Refuse /\ UNCHANGED <<cats, lease>>
    /\ UNCHANGED <<root, legacy, task, run, pid, box, cleaner, exported>>

PurgeProvider ==
    /\ At("provider")
    /\ \/ cats' = (IF uninst.provider THEN cats \ {Provider} ELSE cats) /\ Next1("root") /\ UNCHANGED counts
       \/ uninst.provider /\ Fault /\ Refuse /\ UNCHANGED cats
    /\ UNCHANGED <<root, legacy, owned, cleaner, exported>>

(* A root with nothing but its marker loses the marker, then goes. *)
DropMarker ==
    /\ At("root")
    /\ IF cats = {} /\ root = "owned" THEN root' = "unmarked" /\ Next1("rmdir")
       ELSE UNCHANGED root /\ uninst' = NoUninstall
    /\ UNCHANGED <<cats, legacy, owned, cleaner, exported, counts>>

RemoveRoot ==
    /\ At("rmdir") /\ uninst' = NoUninstall
    /\ root' = IF cats = {} THEN "absent" ELSE root
    /\ UNCHANGED <<cats, legacy, owned, cleaner, exported, counts>>

KillUninstall ==
    /\ ~At("idle") /\ kills < MaxKills /\ kills' = kills + 1 /\ uninst' = NoUninstall
    /\ UNCHANGED <<layout, owned, cleaner, exported, faults>>

Next ==
    \/ \E c \in Controllers :
          \/ StartTask(c) \/ WriteMarker(c) \/ MakeCategories(c) \/ BeginRun(c) \/ Spawn(c) \/ Acquire(c)
          \/ Release(c) \/ EndRun(c) \/ CleanupRun(c) \/ MakeSandbox(c) \/ ChildExits(c) \/ PidReused(c)
          \/ Kill(c) \/ Reclaim(c) \/ ReleaseLease(c)
    \/ Inspect \/ Confirm \/ Decline \/ ReclaimFails \/ ReclaimDone \/ RemoveSandboxes \/ KillCleaner
    \/ StartUninstall \/ Preflight \/ RepairWorkspaces \/ RepairCache \/ Apply \/ Export \/ PurgeConfig
    \/ PurgeData \/ PurgeLeases \/ PurgeProvider \/ DropMarker \/ RemoveRoot \/ KillUninstall

Spec == Init /\ [][Next]_vars

-----------------------------------------------------------------------------
(* Properties *)

(* sat cleanup gives up a lease only when the process and the sandbox it is the
   evidence for are gone, whatever failed or was killed in between
   (_cleanup_owned_resources, ProcessLeaseStore.reclaim_orphans). *)
RecoveryKeepsEvidence ==
    [][cleaner' # cleaner =>
        \A c \in lease \ lease' : c \notin box /\ pid[c] # "child"]_vars

(* A program that got the pid of a provider process is never signalled: only a
   signal ends it here (ProcessLeaseStore.inspect, reclaim_orphans). *)
ForeignUnharmed == [][\A c \in Controllers : pid[c] = "foreign" => pid'[c] = "foreign"]_vars

(* When an export was asked for, no data is deleted that it does not hold
   (_copy_export, apply_uninstall_state). *)
ExportedBeforePurge == uninst.export => uninst.had \ cats \subseteq exported

=============================================================================
