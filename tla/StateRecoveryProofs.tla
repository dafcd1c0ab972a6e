------------------------- MODULE StateRecoveryProofs -------------------------
(***************************************************************************)
(* What recovery and uninstall never do, for any number of controllers,    *)
(* kills and failing commands: sat cleanup keeps its evidence and spares   *)
(* foreign programs, and an uninstall deletes nothing it was asked to      *)
(* export first.                                                           *)
(***************************************************************************)
EXTENDS StateRecovery, TLAPS

Steps == {"off", "marker", "categories", "ready", "spawned", "leased", "cleanup", "done", "dead"}
CleanerSteps == {"idle", "confirm", "reclaim", "sandboxes", "release"}
UninstallSteps == {"idle", "preflight", "repair", "cache", "apply", "export", "config", "data",
                   "leases", "provider", "root", "rmdir"}

CleanerState == [pc : CleanerSteps, todo : SUBSET Controllers, orphans : SUBSET Controllers,
                 reclaimed : SUBSET Controllers]
UninstallState == [pc : UninstallSteps, data : BOOLEAN, provider : BOOLEAN, export : BOOLEAN,
                   had : SUBSET Data, refused : BOOLEAN]

(* The type invariant: the values the files, processes and commands can have. *)
TypeOK ==
    /\ root \in {"absent", "unmarked", "owned"} /\ cats \subseteq Categories
    /\ legacy \subseteq {"workspace", "cache"}
    /\ task \in [Controllers -> Steps]
    /\ run \in [Controllers -> {"none", "active", "terminal"}]
    /\ pid \in [Controllers -> {"free", "child", "foreign"}]
    /\ lease \subseteq Controllers /\ box \subseteq Controllers
    /\ cleaner \in CleanerState /\ uninst \in UninstallState
    /\ exported \subseteq Data
    /\ kills \in Nat /\ faults \in Nat

(* A lease file is that of a controller that waits for its provider process,
   or that was killed. *)
LeaseHolders == \A c \in lease : task[c] \in {"leased", "dead"}

(* The controllers sat cleanup works on were killed, so nothing starts for
   them again. *)
CleansTheDead == \A c \in cleaner.todo \cup cleaner.reclaimed : task[c] = "dead"

(* What sat cleanup has done of each of them: no process is left of one that
   is not to be signalled any more, and no sandbox once leases are released. *)
NothingLeftBehind ==
    /\ cleaner.pc = "confirm" => cleaner.reclaimed = {}
    /\ cleaner.pc = "reclaim" => \A c \in cleaner.todo \ cleaner.orphans : pid[c] # "child"
    /\ \A c \in cleaner.reclaimed : pid[c] # "child"
    /\ cleaner.pc = "release" => cleaner.reclaimed \cap box = {}

(* What an uninstall found is still there until it is exported. *)
HadIsKept ==
    /\ uninst.pc \in {"idle", "preflight", "repair", "cache", "apply"} => uninst.had = {}
    /\ uninst.pc = "export" => uninst.had \subseteq cats
    /\ uninst.pc \in {"config", "data", "leases", "provider", "root", "rmdir"} /\ uninst.export
            => uninst.had \subseteq exported

CleanupInv == LeaseHolders /\ CleansTheDead /\ NothingLeftBehind
IInv == TypeOK /\ CleanupInv /\ HadIsKept

-----------------------------------------------------------------------------
(* The actions, by who takes them. *)
TaskStep(c) ==
    \/ StartTask(c) \/ WriteMarker(c) \/ MakeCategories(c) \/ BeginRun(c) \/ Spawn(c) \/ Acquire(c)
    \/ Release(c) \/ EndRun(c) \/ CleanupRun(c) \/ MakeSandbox(c) \/ ChildExits(c) \/ PidReused(c)
    \/ Kill(c)
CleanerStep ==
    \/ Inspect \/ Confirm \/ Decline \/ ReclaimFails \/ ReclaimDone \/ RemoveSandboxes \/ KillCleaner
UninstallStep ==
    \/ StartUninstall \/ Preflight \/ RepairWorkspaces \/ RepairCache \/ Apply \/ Export \/ PurgeConfig
    \/ PurgeData \/ PurgeLeases \/ PurgeProvider \/ DropMarker \/ RemoveRoot \/ KillUninstall

(* Every step is one of a task, of sat cleanup or of an uninstall. *)
LEMMA StepsByActor ==
    Next => \/ \E c \in Controllers : TaskStep(c) \/ Reclaim(c) \/ ReleaseLease(c)
            \/ CleanerStep \/ UninstallStep
  BY Zenon DEF Next, TaskStep, CleanerStep, UninstallStep

(* A new or an old state root, no process, and both commands idle. *)
LEMMA InitInv == Init => IInv
  <1> SUFFICES ASSUME Init PROVE IInv
    OBVIOUS
  <1> USE DEF Init, NoCleaner, NoUninstall
  <1>1. TypeOK
    <2>1. cleaner \in CleanerState
      BY DEF CleanerState, CleanerSteps
    <2>2. uninst \in UninstallState
      BY DEF UninstallState, UninstallSteps
    <2>3. QED BY <2>1, <2>2 DEF TypeOK, Steps, Categories, Data
  <1>2. QED
    BY <1>1 DEF IInv, CleanupInv, LeaseHolders, CleansTheDead, NothingLeftBehind, HadIsKept

(* A task keeps the types. *)
LEMMA TaskType ==
    ASSUME TypeOK, NEW c \in Controllers, TaskStep(c)
    PROVE  TypeOK'
  <1> USE DEF TypeOK, layout, owned, counts, To
  <1>1. CASE StartTask(c) \/ WriteMarker(c) \/ MakeCategories(c)
    BY <1>1 DEF StartTask, WriteMarker, MakeCategories, Steps
  <1>2. CASE BeginRun(c) \/ Spawn(c)
    BY <1>2 DEF BeginRun, Spawn, Steps
  <1>3. CASE Acquire(c) \/ Release(c)
    BY <1>3 DEF Acquire, Release, Steps
  <1>4. CASE EndRun(c)
    BY <1>4 DEF EndRun, Steps
  <1>5. CASE CleanupRun(c)
    BY <1>5 DEF CleanupRun, Steps, Fault
  <1>6. CASE MakeSandbox(c) \/ ChildExits(c) \/ PidReused(c)
    BY <1>6 DEF MakeSandbox, ChildExits, PidReused
  <1>7. CASE Kill(c)
    BY <1>7 DEF Kill, Steps
  <1>8. QED BY <1>1, <1>2, <1>3, <1>4, <1>5, <1>6, <1>7 DEF TaskStep

(* What an update of the cleaner's state leaves alone. *)
LEMMA CleanerUpdate ==
    ASSUME NEW k \in CleanerState, NEW p \in CleanerSteps, NEW o \in SUBSET Controllers
    PROVE  /\ [k EXCEPT !.pc = p] \in CleanerState
           /\ [k EXCEPT !.pc = p, !.orphans = o] \in CleanerState
           /\ [k EXCEPT !.pc = p, !.todo = o] \in CleanerState
           /\ NoCleaner \in CleanerState
           /\ \A c \in Controllers :
                 /\ [k EXCEPT !.todo = @ \ {c}, !.reclaimed = @ \cup {c}] \in CleanerState
                 /\ [k EXCEPT !.reclaimed = @ \ {c}] \in CleanerState
  BY DEF CleanerState, CleanerSteps, NoCleaner

(* sat cleanup keeps the types. *)
LEMMA CleanerType ==
    ASSUME TypeOK, CleanerStep \/ \E c \in Controllers : Reclaim(c) \/ ReleaseLease(c)
    PROVE  TypeOK'
  <1> DEFINE Others == /\ cleaner' \in CleanerState /\ kills' \in Nat /\ faults' \in Nat
                       /\ root' \in {root, "owned"} /\ cats' \in {cats, Categories}
                       /\ pid' \in [Controllers -> {"free", "child", "foreign"}]
                       /\ lease' \subseteq lease /\ box' \subseteq box
                       /\ UNCHANGED <<legacy, task, run, uninst, exported>>
  <1> USE DEF TypeOK, layout, owned, counts, CleanerSteps, CleanerTo, Fault
  <1>1. CASE Inspect
    <2>1. Orphaned \cup Stale \in SUBSET Controllers /\ NoCleaner \in CleanerState
      BY CleanerUpdate DEF Orphaned, Stale
    <2>2. cleaner' \in CleanerState
      BY <1>1, <2>1, CleanerUpdate DEF Inspect
    <2>3. Others
      BY <1>1, <2>2 DEF Inspect
    <2>4. QED BY <2>3
  <1>2. CASE Confirm
    <2>1. Orphaned \in SUBSET Controllers
      BY DEF Orphaned
    <2>2. cleaner' \in CleanerState
      BY <1>2, <2>1, CleanerUpdate DEF Confirm
    <2>3. Others
      BY <1>2, <2>2 DEF Confirm
    <2>4. QED BY <2>3
  <1>3. CASE Decline \/ ReclaimDone \/ ReclaimFails \/ KillCleaner
    <2>1. cleaner' \in CleanerState
      BY <1>3, CleanerUpdate DEF Decline, ReclaimDone, ReclaimFails, KillCleaner
    <2>2. Others
      BY <1>3, <2>1 DEF Decline, ReclaimDone, ReclaimFails, KillCleaner
    <2>3. QED BY <2>2
  <1>4. CASE RemoveSandboxes
    <2>1. cleaner' \in CleanerState
      BY <1>4, CleanerUpdate DEF RemoveSandboxes
    <2>2. Others
      BY <1>4, <2>1 DEF RemoveSandboxes
    <2>3. QED BY <2>2
  <1>5. ASSUME NEW c \in Controllers, Reclaim(c) PROVE TypeOK'
    <2>1. cleaner' \in CleanerState
      BY <1>5, CleanerUpdate DEF Reclaim, Reclaimed
    <2>2. Others
      BY <1>5, <2>1 DEF Reclaim
    <2>3. QED BY <2>2
  <1>6. ASSUME NEW c \in Controllers, ReleaseLease(c) PROVE TypeOK'
    <2>1. /\ NoCleaner \in CleanerState
          /\ [cleaner EXCEPT !.reclaimed = @ \ {c}] \in CleanerState
      BY DEF CleanerState, NoCleaner
    <2>2. cleaner' \in CleanerState
      BY <1>6, <2>1 DEF ReleaseLease
    <2>3. Others
      BY <1>6, <2>2 DEF ReleaseLease
    <2>4. QED BY <2>3
  <1>7. QED BY <1>1, <1>2, <1>3, <1>4, <1>5, <1>6 DEF CleanerStep

(* The next place of an uninstall: the rest of its state stays. *)
LEMMA Next1Facts ==
    ASSUME TypeOK, NEW p \in UninstallSteps, Next1(p)
    PROVE  /\ uninst' \in UninstallState /\ uninst'.pc = p
           /\ uninst'.had = uninst.had /\ uninst'.export = uninst.export
  <1>1. uninst \in UninstallState
    BY DEF TypeOK
  <1>2. QED BY <1>1 DEF Next1, UninstallState

(* An uninstall that ends or is refused has found nothing. *)
LEMMA EndFacts ==
    ASSUME Refuse \/ uninst' = NoUninstall
    PROVE  uninst' \in UninstallState /\ uninst'.pc = "idle" /\ uninst'.had = {}
  <1>1. NoUninstall \in UninstallState /\ NoUninstall.pc = "idle" /\ NoUninstall.had = {}
    BY DEF NoUninstall, UninstallState, UninstallSteps
  <1>2. Refuse => uninst' \in UninstallState /\ uninst'.pc = "idle" /\ uninst'.had = {}
    BY DEF Refuse, NoUninstall, UninstallState, UninstallSteps
  <1>3. QED BY <1>1, <1>2

(* Where an uninstall goes from where it is. *)
LEMMA UninstallGoesOn ==
    ASSUME TypeOK, UninstallStep
    PROVE  /\ uninst' \in UninstallState
           /\ \/ uninst'.pc \in {"idle", "preflight"} /\ uninst'.had = {}
              \/ /\ uninst.pc = "apply" /\ uninst'.pc = "export" /\ uninst'.had = Data \cap cats
                 /\ UNCHANGED <<cats, exported>>
              \/ /\ uninst'.had = uninst.had /\ uninst'.export = uninst.export
                 /\ \/ uninst.pc \in {"preflight", "repair", "cache"} /\ uninst'.pc \in {"repair", "cache", "apply"}
                    \/ /\ uninst.pc = "export" /\ uninst'.pc = "config"
                       /\ exported' = IF uninst.export THEN Data \cap cats ELSE exported
                    \/ /\ uninst.pc \in {"config", "data", "leases", "provider", "root"}
                       /\ uninst'.pc \in {"data", "leases", "provider", "root", "rmdir"}
                       /\ exported' = exported
  <1> USE DEF layout, At
  <1>0. uninst \in UninstallState /\ Data \cap cats \in SUBSET Data
    BY DEF TypeOK
  <1>1. CASE StartUninstall
    BY <1>1 DEF StartUninstall, NoUninstall, UninstallState, UninstallSteps
  <1>2. CASE Preflight \/ RepairWorkspaces \/ RepairCache
    BY <1>2, Next1Facts, EndFacts DEF Preflight, RepairWorkspaces, RepairCache, UninstallSteps
  <1>3. CASE Apply
    <2>1. CASE Idle
      BY <1>0, <1>3, <2>1 DEF Apply, UninstallState, UninstallSteps
    <2>2. QED BY <1>3, <2>1, EndFacts DEF Apply
  <1>4. CASE Export
    BY <1>4, Next1Facts, EndFacts DEF Export, UninstallSteps
  <1>5. CASE PurgeConfig \/ PurgeLeases \/ PurgeProvider
    BY <1>5, Next1Facts, EndFacts DEF PurgeConfig, PurgeLeases, PurgeProvider, UninstallSteps
  <1>6. CASE PurgeData
    BY <1>0, <1>6, Next1Facts, EndFacts DEF PurgeData, UninstallSteps
  <1>7. CASE DropMarker \/ RemoveRoot \/ KillUninstall
    BY <1>7, Next1Facts, EndFacts DEF DropMarker, RemoveRoot, KillUninstall, UninstallSteps
  <1>8. QED BY <1>1, <1>2, <1>3, <1>4, <1>5, <1>6, <1>7 DEF UninstallStep

(* An uninstall keeps the types. *)
LEMMA UninstallType ==
    ASSUME TypeOK, UninstallStep
    PROVE  TypeOK'
  <1>1. /\ root' \in {root, "unmarked", "absent"} /\ cats' \subseteq cats /\ legacy' \subseteq legacy
        /\ run' \in {run, [c \in Controllers |-> "none"]} /\ lease' \subseteq lease
        /\ exported' \in {exported, Data \cap cats}
        /\ UNCHANGED <<task, pid, box, cleaner>>
    BY DEF UninstallStep, StartUninstall, Preflight, RepairWorkspaces, RepairCache, Apply, Export,
           PurgeConfig, PurgeData, PurgeLeases, PurgeProvider, DropMarker, RemoveRoot,
           KillUninstall, layout, owned
  <1>2. kills' \in {kills, kills + 1} /\ faults' \in {faults, faults + 1}
    BY DEF UninstallStep, StartUninstall, Preflight, RepairWorkspaces, RepairCache, Apply, Export,
           PurgeConfig, PurgeData, PurgeLeases, PurgeProvider, DropMarker, RemoveRoot,
           KillUninstall, counts, Fault
  <1>3. uninst' \in UninstallState
    BY UninstallGoesOn
  <1>4. QED BY <1>1, <1>2, <1>3 DEF TypeOK

-----------------------------------------------------------------------------
(* No task starts anything for a controller that was killed. *)
LEMMA TaskCleanup ==
    ASSUME TypeOK, CleanupInv, NEW c \in Controllers, TaskStep(c)
    PROVE  CleanupInv'
  <1> USE DEF TypeOK, CleanerState, CleanupInv, LeaseHolders, CleansTheDead, NothingLeftBehind,
              layout, owned, To
  <1>1. CASE StartTask(c) \/ WriteMarker(c) \/ MakeCategories(c)
    BY <1>1 DEF StartTask, WriteMarker, MakeCategories
  <1>2. CASE BeginRun(c) \/ EndRun(c)
    BY <1>2 DEF BeginRun, EndRun
  <1>3. CASE Spawn(c)
    BY <1>3 DEF Spawn
  <1>4. CASE Acquire(c) \/ Release(c)
    BY <1>4 DEF Acquire, Release
  <1>5. CASE CleanupRun(c)
    BY <1>5 DEF CleanupRun
  <1>6. CASE MakeSandbox(c)
    BY <1>6 DEF MakeSandbox
  <1>7. CASE ChildExits(c) \/ PidReused(c)
    BY <1>7 DEF ChildExits, PidReused
  <1>8. CASE Kill(c)
    BY <1>8 DEF Kill
  <1>9. QED BY <1>1, <1>2, <1>3, <1>4, <1>5, <1>6, <1>7, <1>8 DEF TaskStep

(* A candidate of sat cleanup was killed; one that is not an orphan when it is
   inspected again has no process. *)
LEMMA CandidatesDead ==
    ASSUME TypeOK, LeaseHolders
    PROVE  /\ \A c \in Orphaned \cup Stale : task[c] = "dead"
           /\ \A c \in lease \ Orphaned : task[c] = "dead" => pid[c] # "child"
  BY DEF TypeOK, LeaseHolders, Orphaned, Stale, Active, Alive

(* sat cleanup goes from signals to sandboxes to leases. *)
LEMMA CleanerCleanup ==
    ASSUME TypeOK, CleanupInv, CleanerStep \/ \E c \in Controllers : Reclaim(c) \/ ReleaseLease(c)
    PROVE  CleanupInv'
  <1> USE DEF TypeOK, CleanupInv, LeaseHolders, CleansTheDead, NothingLeftBehind, layout, owned,
              CleanerAt, NoCleaner, CleanerState
  <1>1. CASE Inspect
    BY <1>1, CandidatesDead DEF Inspect
  <1>2. CASE Confirm
    BY <1>2, CandidatesDead DEF Confirm
  <1>3. CASE Decline \/ ReclaimFails \/ ReclaimDone \/ KillCleaner
    BY <1>3 DEF Decline, ReclaimFails, ReclaimDone, KillCleaner, CleanerTo
  <1>4. CASE RemoveSandboxes
    BY <1>4 DEF RemoveSandboxes, CleanerTo
  <1>5. ASSUME NEW c \in Controllers, Reclaim(c) PROVE CleanupInv'
    <2>1. /\ cleaner.pc = "reclaim" /\ cleaner'.pc = "reclaim" /\ cleaner'.orphans = cleaner.orphans
          /\ cleaner'.todo = cleaner.todo \ {c} /\ cleaner'.reclaimed = cleaner.reclaimed \cup {c}
          /\ c \in cleaner.todo
      BY <1>5 DEF Reclaim, Reclaimed, CleanerState
    <2>2. UNCHANGED <<task, lease, box>>
      BY <1>5 DEF Reclaim
    <2>3. pid'[c] # "child" /\ \A d \in Controllers \ {c} : pid'[d] = pid[d]
      BY <1>5, <2>1 DEF Reclaim
    <2>4. cleaner.todo \subseteq Controllers /\ cleaner.reclaimed \subseteq Controllers
      BY DEF CleanerState
    <2>5. QED BY <2>1, <2>2, <2>3, <2>4
  <1>6. ASSUME NEW c \in Controllers, ReleaseLease(c) PROVE CleanupInv'
    BY <1>6 DEF ReleaseLease
  <1>7. QED BY <1>1, <1>2, <1>3, <1>4, <1>5, <1>6 DEF CleanerStep

(* An uninstall at most takes leases away. *)
LEMMA UninstallCleanup ==
    ASSUME TypeOK, CleanupInv, UninstallStep
    PROVE  CleanupInv'
  <1>1. /\ task' = task /\ pid' = pid /\ box' = box /\ cleaner' = cleaner
        /\ lease' \subseteq lease
    BY DEF UninstallStep, StartUninstall, Preflight, RepairWorkspaces, RepairCache, Apply, Export,
           PurgeConfig, PurgeData, PurgeLeases, PurgeProvider, DropMarker, RemoveRoot,
           KillUninstall, layout, owned
  <1>2. QED BY <1>1 DEF CleanupInv, LeaseHolders, CleansTheDead, NothingLeftBehind

-----------------------------------------------------------------------------
(* Tasks and sat cleanup never take a category away. *)
LEMMA OthersKeepCategories ==
    ASSUME TypeOK,
           CleanerStep \/ \E c \in Controllers : TaskStep(c) \/ Reclaim(c) \/ ReleaseLease(c)
    PROVE  cats \subseteq cats' /\ uninst' = uninst /\ exported' = exported
  <1>1. cats' \in {cats, Categories} /\ uninst' = uninst /\ exported' = exported
    <2>1. CASE CleanerStep
      BY <2>1 DEF CleanerStep, Inspect, Confirm, Decline, ReclaimFails, ReclaimDone,
                  RemoveSandboxes, KillCleaner, layout
    <2>2. ASSUME NEW c \in Controllers, TaskStep(c)
          PROVE  cats' \in {cats, Categories} /\ uninst' = uninst /\ exported' = exported
      BY <2>2 DEF TaskStep, StartTask, WriteMarker, MakeCategories, BeginRun, Spawn, Acquire,
                  Release, EndRun, CleanupRun, MakeSandbox, ChildExits, PidReused, Kill, layout
    <2>3. ASSUME NEW c \in Controllers, Reclaim(c) \/ ReleaseLease(c)
          PROVE  cats' \in {cats, Categories} /\ uninst' = uninst /\ exported' = exported
      BY <2>3 DEF Reclaim, ReleaseLease, layout
    <2>4. QED BY <2>1, <2>2, <2>3
  <1>2. QED BY <1>1 DEF TypeOK

(* An uninstall looks, exports, and only then deletes. *)
LEMMA UninstallHad ==
    ASSUME TypeOK, HadIsKept, UninstallStep
    PROVE  HadIsKept'
  <1>1. uninst' \in UninstallState /\ uninst \in UninstallState
    BY UninstallGoesOn DEF TypeOK
  <1>2. QED BY <1>1, UninstallGoesOn DEF HadIsKept, UninstallState

(* Every step keeps the inductive invariant. *)
LEMMA StepInv == IInv /\ [Next]_vars => IInv'
  <1> SUFFICES ASSUME IInv, [Next]_vars PROVE IInv'
    OBVIOUS
  <1> USE DEF IInv
  <1>1. ASSUME NEW c \in Controllers, TaskStep(c) PROVE IInv'
    <2>1. HadIsKept'
      BY <1>1, OthersKeepCategories DEF HadIsKept
    <2>2. QED BY <1>1, <2>1, TaskType, TaskCleanup
  <1>2. CASE CleanerStep \/ \E c \in Controllers : Reclaim(c) \/ ReleaseLease(c)
    <2>1. HadIsKept'
      BY <1>2, OthersKeepCategories DEF HadIsKept
    <2>2. QED BY <1>2, <2>1, CleanerType, CleanerCleanup
  <1>3. CASE UninstallStep
    BY <1>3, UninstallType, UninstallCleanup, UninstallHad
  <1>4. CASE UNCHANGED vars
    BY <1>4 DEF vars, layout, owned, counts, TypeOK, CleanupInv, LeaseHolders, CleansTheDead,
                NothingLeftBehind, HadIsKept
  <1>5. QED BY <1>1, <1>2, <1>3, <1>4, StepsByActor

(* The invariant of recovery and uninstall: where each command is tells what
   it has seen to be gone, and what it has saved. *)
THEOREM RecoveryInvariant == Spec => []IInv
  BY InitInv, StepInv, PTL DEF Spec

(* Type correctness of the state root, the tasks and both commands. *)
THEOREM TypeCorrect == Spec => []TypeOK
  <1>1. IInv => TypeOK
    BY DEF IInv
  <1>2. QED BY <1>1, RecoveryInvariant, PTL

(* When an export was asked for, uninstall_state deletes no data the export
   does not hold, whichever tasks were killed and whatever sat cleanup does
   at the same time. *)
THEOREM ExportsBeforeItPurges == Spec => []ExportedBeforePurge
  <1>1. IInv => ExportedBeforePurge
    BY DEF IInv, TypeOK, HadIsKept, ExportedBeforePurge, UninstallState, UninstallSteps
  <1>2. QED BY <1>1, RecoveryInvariant, PTL

(* No step ends a program that was given the pid of a provider process. *)
THEOREM ForeignNeverHarmed == Spec => ForeignUnharmed
  <1> DEFINE Spared == \A c \in Controllers : pid[c] = "foreign" => pid'[c] = "foreign"
  <1>1. ASSUME IInv, [Next]_vars PROVE Spared
    <2> SUFFICES ASSUME NEW d \in Controllers, pid[d] = "foreign" PROVE pid'[d] = "foreign"
      OBVIOUS
    <2>1. pid \in [Controllers -> {"free", "child", "foreign"}]
      BY <1>1 DEF IInv, TypeOK
    <2>2. ASSUME NEW c \in Controllers, TaskStep(c) \/ Reclaim(c) \/ ReleaseLease(c)
          PROVE  pid'[d] = "foreign"
      BY <2>1, <2>2
         DEF TaskStep, StartTask, WriteMarker, MakeCategories, BeginRun, Spawn, Acquire, Release,
             EndRun, CleanupRun, MakeSandbox, ChildExits, PidReused, Kill, Reclaim, ReleaseLease
    <2>3. CASE CleanerStep
      BY <2>3 DEF CleanerStep, Inspect, Confirm, Decline, ReclaimFails, ReclaimDone,
                  RemoveSandboxes, KillCleaner, owned
    <2>4. CASE UninstallStep
      BY <2>4 DEF UninstallStep, StartUninstall, Preflight, RepairWorkspaces, RepairCache, Apply,
                  Export, PurgeConfig, PurgeData, PurgeLeases, PurgeProvider, DropMarker,
                  RemoveRoot, KillUninstall, owned
    <2>5. CASE UNCHANGED vars
      BY <2>5 DEF vars, owned
    <2>6. QED BY <1>1, <2>2, <2>3, <2>4, <2>5, StepsByActor
  <1>2. QED BY <1>1, RecoveryInvariant, PTL DEF Spec, ForeignUnharmed

(* sat cleanup gives up a lease only when neither the process nor the sandbox
   it stands for exists any more, wherever it, the tasks or an uninstall
   failed or were killed before. *)
THEOREM EvidenceIsKept == Spec => RecoveryKeepsEvidence
  <1> DEFINE Kept == cleaner' # cleaner => \A c \in lease \ lease' : c \notin box /\ pid[c] # "child"
  <1>1. ASSUME IInv, [Next]_vars PROVE Kept
    <2>1. ASSUME NEW c \in Controllers, TaskStep(c) PROVE cleaner' = cleaner
      BY <2>1 DEF TaskStep, StartTask, WriteMarker, MakeCategories, BeginRun, Spawn, Acquire,
                  Release, EndRun, CleanupRun, MakeSandbox, ChildExits, PidReused, Kill
    <2>2. ASSUME NEW c \in Controllers, Reclaim(c) PROVE lease' = lease
      BY <2>2 DEF Reclaim
    <2>3. ASSUME NEW c \in Controllers, ReleaseLease(c) PROVE Kept
      BY <1>1, <2>3 DEF ReleaseLease, IInv, CleanupInv, NothingLeftBehind, CleanerAt
    <2>4. CleanerStep => lease' = lease
      BY DEF CleanerStep, Inspect, Confirm, Decline, ReclaimFails, ReclaimDone, RemoveSandboxes,
             KillCleaner, owned
    <2>5. UninstallStep => cleaner' = cleaner
      BY DEF UninstallStep, StartUninstall, Preflight, RepairWorkspaces, RepairCache, Apply, Export,
             PurgeConfig, PurgeData, PurgeLeases, PurgeProvider, DropMarker, RemoveRoot,
             KillUninstall
    <2>6. CASE UNCHANGED vars
      BY <2>6 DEF vars
    <2>7. QED BY <1>1, <2>1, <2>2, <2>3, <2>4, <2>5, <2>6, StepsByActor
  <1>2. QED BY <1>1, RecoveryInvariant, PTL DEF Spec, RecoveryKeepsEvidence
=============================================================================
