--------------------------- MODULE ManagedInstall ---------------------------
(***************************************************************************)
(* Managed installation (managed_install.py, scripts/install.sh,           *)
(* scripts/uninstall.sh): releases staged beside each other, one link and  *)
(* one record that select the active one, the sandbox image each release   *)
(* builds under a mutable Docker tag, the handoff files that let a later   *)
(* process reclaim the image a release replaced, and the lifecycle lock    *)
(* that installers, uninstallers and reconcilers take exclusively and      *)
(* foreground tasks share.  A process may be killed between any two steps; *)
(* the kernel then frees its lock.                                         *)
(***************************************************************************)
EXTENDS Integers, Sequences, FiniteSets, SequencesExt

CONSTANTS
    Releases,     \* release identities
    Reference,    \* [Releases -> image reference of the release's policy]
    Build,        \* [Releases -> image its installer builds]
    Parent,       \* [image -> parent image or None]
    Legacy,       \* [images an earlier SAT left without a tag -> their reference label]
    Current,      \* [Releases -> schema version it writes, the newest it reads]
    Oldest,       \* [Releases -> oldest schema version it reads]
    Advertised,   \* releases whose manifest states their schema support
    None,
    MaxInstalls,  \* bound on installation attempts
    MaxFaults,    \* bound on failing commands
    MaxCrashes    \* bound on killed processes

Images == DOMAIN Parent
References == {Reference[r] : r \in Releases}

ASSUME InstallAssumption ==
    /\ None \notin Releases /\ None \notin Images
    /\ Build \in [Releases -> Images]
    /\ IsFiniteSet(Images) /\ Parent \in [Images -> Images \cup {None}]
    /\ DOMAIN Legacy \subseteq Images /\ \A i \in DOMAIN Legacy : Legacy[i] \in References
    /\ Current \in [Releases -> Nat] /\ Oldest \in [Releases -> Nat]
    /\ \A r \in Releases : Oldest[r] <= Current[r]
    /\ MaxInstalls \in Nat

(* The reference label an image carries; a base image has none. *)
Label(i) == IF i \in DOMAIN Legacy THEN Legacy[i]
            ELSE IF \E r \in Releases : Build[r] = i
            THEN Reference[CHOOSE r \in Releases : Build[r] = i] ELSE None

VARIABLES
    lock,        \* update.lock: "free", or who holds it
    link,        \* the release application_link resolves to
    record,      \* the release the installation record names
    launchers,   \* launchers in the bin directory
    dirs,        \* version storage: how far each release's directory got
    stages,      \* .stage- directories killed installers left
    tag,         \* [reference -> image or None]
    anchors,     \* [attempt -> image its rollback reference names, or None]
    images,      \* images Docker has
    container,   \* image of a cached sandbox container, or None
    pending,     \* [release -> handoff file or None]
    retired,     \* retired handoff files
    inst,        \* the installer process
    sat,         \* a foreground sat process
    persisted,   \* schema versions in the state root
    abandoned,   \* a killed task's run.json says the run goes on
    uninst,      \* the uninstaller's next step and the release it has checked; one
                 \* uninstallation is completed
    installs, faults, crashes

docker == <<tag, anchors, images, container>>
handoffs == <<pending, retired>>
app == <<link, record, launchers, dirs, stages>>
state == <<persisted, abandoned>>
counts == <<installs, faults, crashes>>
vars == <<lock, app, docker, handoffs, inst, sat, state, uninst, counts>>

-----------------------------------------------------------------------------
(* Docker *)

(* _inspect_sandbox_image_lineage: ends at a parent that is not there. *)
Lineage(i, present) ==
    LET up[n \in 0..Cardinality(Images)] ==
            IF n = 0 THEN <<i>>
            ELSE LET p == Parent[Last(up[n - 1])]
                 IN  IF p = None \/ p \notin present THEN up[n - 1] ELSE Append(up[n - 1], p)
    IN  up[Cardinality(Images)]

Tagged(i, t, a) == i \in Range(t) \cup Range(a)
InUse(i) == container # None /\ i \in ToSet(Lineage(container, images))
Children(i, present) == {c \in present : Parent[c] = i}
Owned(i, ref) == Label(i) = ref

(* docker image rm of a reference: the last one takes the image with it. *)
AfterUntag(i, t, a, present) ==
    IF Tagged(i, t, a) \/ Children(i, present) # {} THEN present ELSE present \ {i}

(* _remove_attributable_unreferenced_lineage, the images it removes: the
   unshared prefix of the lineage, up to one that is retained, tagged, used or
   has another child. *)
Removable(line, retained, t, a, present) ==
    LET above(n) == {line[m] : m \in 1..(n - 1)}
        stops(n) ==
            \/ line[n] \in present /\ (line[n] \in retained \/ Tagged(line[n], t, a) \/ InUse(line[n]))
            \/ line[n] \in present /\ ~Children(line[n], present) \subseteq above(n)
    IN  {line[n] : n \in {k \in 1..Len(line) : \A m \in 1..k : ~stops(m)}}

(* Its result: complete unless a container still uses the lineage. *)
Reclaimed(line, retained, t, a, present) ==
    LET gone == Removable(line, retained, t, a, present)
        rest == SelectSeq(line, LAMBDA i : i \in present \ gone)
    IN  rest = <<>> \/ Head(rest) \in retained \/ Tagged(Head(rest), t, a) \/ ~InUse(Head(rest))

(* _inspect_legacy_sandbox_image_lineages: labelled roots nothing refers to. *)
Orphans(ref, excluded) ==
    {i \in images : /\ i \notin excluded /\ Label(i) = ref
                    /\ ~Tagged(i, tag, anchors) /\ Children(i, images) = {} /\ ~InUse(i)}

-----------------------------------------------------------------------------
(* Processes *)

Idle == [pc |-> "idle", target |-> None, n |-> 0, prev |-> None, line |-> <<>>, anchored |-> FALSE,
         cand |-> None, created |-> FALSE, armed |-> FALSE, link |-> None, record |-> None,
         made |-> FALSE, tagged |-> None, outcome |-> "none"]

NoUninstall == [pc |-> "idle", release |-> None]

Init ==
    /\ lock = "free" /\ link = None /\ record = None /\ launchers = FALSE
    /\ dirs = [r \in Releases |-> "absent"] /\ stages = {}
    /\ tag = [f \in References |-> None] /\ anchors = [n \in 1..MaxInstalls |-> None]
    /\ \E left \in SUBSET DOMAIN Legacy : images = UNION {ToSet(Lineage(i, Images)) : i \in left}
    /\ container = None
    /\ pending = [r \in Releases |-> None] /\ retired = {}
    /\ inst = Idle /\ sat = [pc |-> "idle", release |-> None, image |-> None] /\ uninst = NoUninstall
    /\ persisted = {} /\ abandoned = FALSE
    /\ installs = 0 /\ faults = 0 /\ crashes = 0

At(pc) == inst.pc = pc
Ref == Reference[inst.target]
Step(pc) == inst' = [inst EXCEPT !.pc = pc]

(* The process ends and leaves nothing but what it reports. *)
End(outcome) == inst' = [Idle EXCEPT !.outcome = outcome]

(* install_managed_target: _ensure_managed_root and the exclusive lock. *)
Begin(r) ==
    /\ At("idle") /\ lock = "free" /\ installs < MaxInstalls
    /\ lock' = "installer" /\ installs' = installs + 1
    /\ inst' = [Idle EXCEPT !.pc = "locked", !.target = r, !.n = installs + 1, !.link = link,
                            !.record = record, !.tagged = tag[Reference[r]]]
    /\ UNCHANGED <<app, docker, handoffs, sat, state, uninst, faults, crashes>>

RetirePending ==
    /\ retired' = retired \cup {pending[r] : r \in {q \in Releases : pending[q] # None}}

Supports(r, v) == Oldest[r] <= v /\ v <= Current[r]
Unreadable(r) == \E v \in persisted : ~Supports(r, v)
Refuse(why) == inst' = [inst EXCEPT !.pc = "failing", !.outcome = why]

(* _preflight_advertised_persisted_state *)
AdvertisedUnreadable == inst.target \in Advertised /\ Unreadable(inst.target)

(* The pending handoffs are retired and a .stage- directory is made. *)
Stage ==
    /\ At("locked")
    /\ IF AdvertisedUnreadable
       THEN Refuse("incompatible") /\ UNCHANGED handoffs
       ELSE Step("fetch") /\ RetirePending /\ pending' = [r \in Releases |-> None]
    /\ UNCHANGED <<lock, app, docker, sat, state, uninst, counts>>

(* Fetch and check the source, then write its marker. *)
Fetch ==
    /\ At("fetch") /\ Step("fetched")
    /\ UNCHANGED <<lock, app, docker, handoffs, sat, state, uninst, counts>>

(* _validate_staged_application: marker and executables are there and run. *)
Runnable(r) == dirs[r] \in {"runnable", "complete"}

(* The final path is claimed, or the release found there is used again. *)
Claim ==
    /\ At("fetched")
    /\ \/ /\ dirs[inst.target] = "absent"
          /\ dirs' = [dirs EXCEPT ![inst.target] = "claimed"]
          /\ inst' = [inst EXCEPT !.pc = "preserve", !.created = TRUE]
       \/ /\ Runnable(inst.target)
          /\ Step("compatible") /\ UNCHANGED dirs
       \/ /\ dirs[inst.target] = "claimed"
          /\ Refuse("half_installed") /\ UNCHANGED dirs
    /\ UNCHANGED <<lock, link, record, launchers, stages, docker, handoffs, sat, state, uninst, counts>>

(* The image under the configured tag gets a rollback reference. *)
Preserve ==
    /\ At("preserve")
    /\ LET prev == tag[Ref]
       IN  /\ anchors' = IF prev = None THEN anchors ELSE [anchors EXCEPT ![inst.n] = prev]
           /\ inst' = [inst EXCEPT !.pc = "setup", !.armed = TRUE, !.prev = prev, !.anchored = prev # None,
                                   !.line = IF prev = None THEN <<>> ELSE Lineage(prev, images)]
    /\ UNCHANGED <<lock, app, tag, images, container, handoffs, sat, state, uninst, counts>>

(* install.sh: setup.sh makes the application runnable. *)
Setup ==
    /\ At("setup") /\ Step("prepare")
    /\ dirs' = [dirs EXCEPT ![inst.target] = "runnable"]
    /\ UNCHANGED <<lock, link, record, launchers, stages, docker, handoffs, sat, state, uninst, counts>>

(* The reference the active release's image is under. *)
PredecessorReference == IF link = None THEN Ref ELSE Reference[link]

(* prepare_staged_sandbox_image_transition: the lineage that is replaced and those
   of the orphans, in the order of their identities. *)
Prepare ==
    /\ At("prepare") /\ Step("build")
    /\ LET prevRef == PredecessorReference
           prev == tag[prevRef]
           line == IF prev = None THEN <<>> ELSE Lineage(prev, images)
           roots == SetToSeq(Orphans(prevRef, ToSet(line)))
       IN  /\ RetirePending
           /\ pending' = [r \in Releases |->
                IF r # inst.target THEN None
                ELSE [target |-> r, prevRef |-> prevRef, ref |-> Ref, prev |-> prev, line |-> line,
                      cand |-> None, candLine |-> <<>>, anchor |-> 0,
                      orphans |-> [n \in DOMAIN roots |-> Lineage(roots[n], images)]]]
    /\ UNCHANGED <<lock, app, docker, sat, state, uninst, counts>>

(* docker build moves the tag. *)
BuildImage ==
    /\ At("build")
    /\ LET built == Build[inst.target]
       IN  /\ images' = images \cup ToSet(Lineage(built, Images))
           /\ tag' = [tag EXCEPT ![Ref] = built]
           /\ inst' = [inst EXCEPT !.pc = "finalize", !.cand = built]
    /\ UNCHANGED <<lock, app, anchors, container, handoffs, sat, state, uninst, counts>>

FinalizeDropped ==
    /\ At("finalize") /\ Step("verify") /\ pending' = [pending EXCEPT ![inst.target] = None]
    /\ UNCHANGED <<lock, app, docker, retired, sat, state, uninst, counts>>

(* finalize_staged_sandbox_image_transition, of the handoff that was prepared *)
Finalize ==
    /\ At("finalize") /\ Step("verify")
    /\ LET h == pending[inst.target]
           nothing == (h.prev = None \/ ~Owned(h.prev, h.prevRef) \/ h.prev = inst.cand) /\ h.orphans = <<>>
       IN  /\ h # None
           /\ pending' = [pending EXCEPT ![inst.target] =
                IF nothing THEN None
                ELSE [h EXCEPT !.cand = inst.cand, !.candLine = Lineage(inst.cand, images)]]
    /\ UNCHANGED <<lock, app, docker, retired, sat, state, uninst, counts>>

(* The handoff must be about the image that was preserved; it then names the
   rollback reference. *)
HandoffChanged == LET h == pending[inst.target] IN h # None /\ inst.anchored /\ h.prev # inst.prev

Verify ==
    /\ At("verify")
    /\ IF HandoffChanged
       THEN Refuse("handoff_changed") /\ UNCHANGED <<dirs, pending>>
       ELSE /\ Step("compatible")
            /\ dirs' = [dirs EXCEPT ![inst.target] = "complete"]
            /\ pending' = IF pending[inst.target] = None THEN pending
                          ELSE [pending EXCEPT ![inst.target].anchor = IF inst.anchored THEN inst.n ELSE 0]
    /\ UNCHANGED <<lock, link, record, launchers, stages, docker, retired, sat, state, uninst, counts>>

-----------------------------------------------------------------------------
(* Activation *)

(* A run whose run.json is not terminal; no task holds the lock, so its process
   is gone. *)
ActiveRuns == abandoned

(* The candidate itself inspects the persisted state. *)
CheckCompatible ==
    /\ At("compatible")
    /\ CASE Unreadable(inst.target) -> Refuse("incompatible")
         [] ~Unreadable(inst.target) /\ ActiveRuns -> Refuse("active_run")
         [] OTHER -> Step("retire")
    /\ UNCHANGED <<lock, app, docker, handoffs, sat, state, uninst, counts>>

(* _retire_superseded_applications keeps the candidate and the active release. *)
Retire ==
    /\ At("retire")
    /\ IF link # inst.target /\ "unmarked" \in stages
       THEN Refuse("stage_left") /\ UNCHANGED <<dirs, stages>>
       ELSE /\ Step("swap")
            /\ dirs' = IF link = inst.target THEN dirs
                       ELSE [r \in Releases |-> IF r \in {inst.target, link} THEN dirs[r] ELSE "absent"]
            /\ stages' = IF link = inst.target THEN stages ELSE {}
    /\ UNCHANGED <<lock, link, record, launchers, docker, handoffs, sat, state, uninst, counts>>

SwapLink ==
    /\ At("swap") /\ Step("record") /\ link' = inst.target
    /\ UNCHANGED <<lock, record, launchers, dirs, stages, docker, handoffs, sat, state, uninst, counts>>

SaveRecord ==
    /\ At("record") /\ Step("launch") /\ record' = inst.target
    /\ UNCHANGED <<lock, link, launchers, dirs, stages, docker, handoffs, sat, state, uninst, counts>>

ActivateLaunchers ==
    /\ At("launch")
    /\ inst' = [inst EXCEPT !.pc = "release", !.made = ~launchers] /\ launchers' = TRUE
    /\ UNCHANGED <<lock, link, record, dirs, stages, docker, handoffs, sat, state, uninst, counts>>

(* _release_sandbox_image_rollback_reference; a container keeps the reference. *)
AnchorKept(n) == anchors[n] # None /\ InUse(anchors[n]) /\ anchors[n] \notin Range(tag)
Released(n) == [anchors EXCEPT ![n] = None]
AfterRelease(n) ==
    IF anchors[n] = None THEN images ELSE AfterUntag(anchors[n], tag, Released(n), images)

ReleaseAnchor ==
    /\ At("release")
    /\ IF inst.cand = None \/ (inst.anchored /\ AnchorKept(inst.n))
       THEN Step("done") /\ UNCHANGED docker
       ELSE /\ Step("cleanup") /\ UNCHANGED <<tag, container>>
            /\ anchors' = IF inst.anchored THEN Released(inst.n) ELSE anchors
            /\ images' = IF inst.anchored THEN AfterRelease(inst.n) ELSE images
    /\ UNCHANGED <<lock, app, handoffs, sat, state, uninst, counts>>

(* _cleanup_superseded_sandbox_image *)
Cleanup ==
    /\ At("cleanup") /\ Step("done")
    /\ images' = IF inst.prev \in {None, inst.cand} \/ ~Owned(inst.prev, Ref) THEN images
                 ELSE images \ Removable(inst.line, ToSet(Lineage(inst.cand, images)), tag, anchors, images)
    /\ UNCHANGED <<lock, app, tag, anchors, container, handoffs, sat, state, uninst, counts>>

Succeed ==
    /\ At("done") /\ End("activated") /\ lock' = "free"
    /\ UNCHANGED <<app, docker, handoffs, sat, state, uninst, counts>>

(* A command of the step fails. *)
Fails ==
    /\ inst.pc \notin {"idle", "failing", "done"} /\ faults < MaxFaults
    /\ faults' = faults + 1
    /\ inst' = [inst EXCEPT !.pc = "failing", !.outcome = "failed"]
    /\ UNCHANGED <<lock, app, docker, handoffs, sat, state, uninst, installs, crashes>>

(* The exception handlers: link, record and launchers first, then
   _restore_sandbox_image_transition, which needs the previous image under the
   tag or under the rollback reference. *)
Restorable ==
    \/ inst.prev = None \/ tag[Ref] = inst.prev \/ anchors[inst.n] = inst.prev

RestoreImage ==
    LET back == [tag EXCEPT ![Ref] = inst.prev]
        dropped == IF inst.prev = None /\ tag[Ref] # None THEN AfterUntag(tag[Ref], back, anchors, images) ELSE images
        gone == IF tag[Ref] \in {None, inst.prev} \/ ~Owned(tag[Ref], Ref) THEN {}
                ELSE Removable(Lineage(tag[Ref], images), ToSet(inst.line), back, anchors, dropped)
    IN  /\ tag' = back /\ UNCHANGED container
        /\ anchors' = Released(inst.n)
        /\ images' = (dropped \ gone) \ (IF anchors[inst.n] = None THEN {}
                                         ELSE {anchors[inst.n]} \ (Range(back) \cup Range(Released(inst.n))))

(* Only a transaction that preserved an image or moved the tag is undone. *)
NeedsRestore == inst.armed /\ (inst.anchored \/ tag[Ref] # inst.prev)

(* The link, the record and the launchers of before the activation. *)
RestoreRelease ==
    link' = inst.link /\ record' = inst.record /\ launchers' = (launchers /\ ~inst.made)

RollbackLinkOnly ==
    /\ At("failing") /\ link' = inst.link /\ launchers' = (launchers /\ ~inst.made)
    /\ dirs' = IF inst.created THEN [dirs EXCEPT ![inst.target] = "absent"] ELSE dirs
    /\ End(inst.outcome) /\ lock' = "free"
    /\ UNCHANGED <<record, stages, docker, handoffs, sat, state, uninst, counts>>

Rollback ==
    /\ At("failing") /\ RestoreRelease
    /\ dirs' = IF inst.created THEN [dirs EXCEPT ![inst.target] = "absent"] ELSE dirs
    /\ IF NeedsRestore /\ ~Restorable
       THEN End("rollback_failed") /\ UNCHANGED docker
       ELSE End(inst.outcome) /\ IF NeedsRestore THEN RestoreImage ELSE UNCHANGED docker
    /\ lock' = "free"
    /\ UNCHANGED <<stages, handoffs, sat, state, uninst, counts>>

(* The installer is killed; its stage directory stays. *)
CrashInstaller ==
    /\ ~At("idle") /\ crashes < MaxCrashes
    /\ crashes' = crashes + 1 /\ lock' = "free" /\ inst' = Idle
    /\ stages' = stages \cup (CASE At("fetch") -> {"unmarked"} [] At("fetched") -> {"marked"} [] OTHER -> {})
    /\ UNCHANGED <<link, record, launchers, dirs, docker, handoffs, sat, state, uninst, installs, faults>>

-----------------------------------------------------------------------------
(* sat *)

(* A process of the active release starts. *)
StartSat ==
    /\ sat.pc = "idle" /\ link # None /\ launchers
    /\ sat' = [pc |-> "started", release |-> link, image |-> None]
    /\ UNCHANGED <<lock, app, docker, handoffs, inst, state, uninst, counts>>

(* reconcile_pending_sandbox_image_transition takes the lock and checks again
   that its release is active; when the lock is taken it gives up. *)
LockForReconcile ==
    /\ sat.pc = "started"
    /\ IF lock = "free" /\ link = sat.release
       THEN lock' = "reconciler" /\ sat' = [sat EXCEPT !.pc = "retired"]
       ELSE UNCHANGED lock /\ sat' = [sat EXCEPT !.pc = "reconciled"]
    /\ UNCHANGED <<app, docker, handoffs, inst, state, uninst, counts>>

(* One handoff: its anchor goes, then the lineages it names, one after the other,
   each against what the ones before it left. *)
AnchorHeld(h) == h.anchor # 0 /\ AnchorKept(h.anchor)
Unanchored(h) == IF h.anchor = 0 THEN anchors ELSE Released(h.anchor)
Roots(h) == (IF h.prev # None /\ Owned(h.prev, h.prevRef) THEN <<h.line>> ELSE <<>>) \o h.orphans

Remaining(h, lines, retained) ==
    LET after[n \in 0..Len(lines)] ==
            IF n = 0 THEN IF h.anchor = 0 THEN images ELSE AfterRelease(h.anchor)
            ELSE after[n - 1] \ Removable(lines[n], retained, tag, Unanchored(h), after[n - 1])
    IN  after

ReclaimLines(h, lines, retained) ==
    /\ anchors' = Unanchored(h)
    /\ images' = Remaining(h, lines, retained)[Len(lines)]
    /\ UNCHANGED <<tag, container>>

(* The handoff is done with when nothing of it is in use. *)
AllReclaimed(h, lines, retained) ==
    \A n \in DOMAIN lines :
        Reclaimed(lines[n], retained, tag, Unanchored(h), Remaining(h, lines, retained)[n - 1])

ReclaimRetired(h) ==
    /\ sat.pc = "retired" /\ h \in retired
    /\ LET current == tag[Reference[sat.release]]
           retained == ToSet(Lineage(current, images))
       IN  /\ current # None /\ Owned(current, Reference[sat.release]) /\ ~AnchorHeld(h)
           /\ ReclaimLines(h, Roots(h), retained)
           /\ retired' = IF AllReclaimed(h, Roots(h), retained) THEN retired \ {h} ELSE retired
    /\ UNCHANGED <<lock, app, pending, inst, sat, state, uninst, counts>>

(* The active release's own handoff.  An image under another reference stays,
   for a rollback to that release. *)
ReclaimPending ==
    /\ sat.pc = "retired"
    /\ LET h == pending[sat.release]
           same == h.prevRef = h.ref
           retained == ToSet(h.candLine) \cup (IF same THEN {} ELSE ToSet(h.line))
           lines == IF same THEN Roots(h) ELSE h.orphans
           lost == ~same /\ h.prev # None /\ Owned(h.prev, h.prevRef) /\ tag[h.prevRef] # h.prev
       IN  /\ h # None /\ h.cand # None /\ tag[h.ref] = h.cand /\ ~AnchorHeld(h) /\ ~lost
           /\ ReclaimLines(h, lines, retained)
           /\ pending' = IF AllReclaimed(h, lines, retained)
                         THEN [pending EXCEPT ![sat.release] = None] ELSE pending
    /\ UNCHANGED <<lock, app, retired, inst, sat, state, uninst, counts>>

EndReconcile ==
    /\ sat.pc = "retired" /\ sat' = [sat EXCEPT !.pc = "reconciled"] /\ lock' = "free"
    /\ UNCHANGED <<app, docker, handoffs, inst, state, uninst, counts>>

AdmitTaskUnchecked ==
    /\ sat.pc = "reconciled" /\ lock = "free" /\ tag[Reference[sat.release]] # None
    /\ lock' = "task" /\ sat' = [sat EXCEPT !.pc = "task", !.image = tag[Reference[sat.release]]]
    /\ container' = tag[Reference[sat.release]] /\ persisted' = persisted \cup {Current[sat.release]}
    /\ UNCHANGED <<app, tag, anchors, images, handoffs, inst, abandoned, uninst, counts>>

(* managed_foreground_task_lease: the shared lock, then the link once more.
   The task's sandbox runs the image under the release's tag; its container is
   cached and may outlive the task. *)
AdmitTask ==
    /\ sat.pc = "reconciled" /\ lock = "free" /\ link = sat.release
    /\ tag[Reference[sat.release]] # None
    /\ lock' = "task" /\ sat' = [sat EXCEPT !.pc = "task", !.image = tag[Reference[sat.release]]]
    /\ container' = tag[Reference[sat.release]] /\ persisted' = persisted \cup {Current[sat.release]}
    /\ UNCHANGED <<app, tag, anchors, images, handoffs, inst, abandoned, uninst, counts>>

EndSat ==
    /\ sat.pc \in {"reconciled", "task"} /\ sat' = [pc |-> "idle", release |-> None, image |-> None]
    /\ lock' = IF sat.pc = "task" THEN "free" ELSE lock
    /\ UNCHANGED <<app, docker, handoffs, inst, state, uninst, counts>>

(* sat is killed; a task leaves its run unfinished. *)
CrashSat ==
    /\ sat.pc # "idle" /\ crashes < MaxCrashes /\ crashes' = crashes + 1
    /\ sat' = [pc |-> "idle", release |-> None, image |-> None]
    /\ lock' = IF sat.pc \in {"retired", "task"} THEN "free" ELSE lock
    /\ abandoned' = (abandoned \/ sat.pc = "task")
    /\ UNCHANGED <<app, docker, handoffs, inst, persisted, uninst, installs, faults>>

(* The cached container is removed. *)
DropContainer ==
    /\ sat.pc # "task" /\ container # None /\ container' = None
    /\ UNCHANGED <<lock, app, tag, anchors, images, handoffs, inst, sat, state, uninst, counts>>

-----------------------------------------------------------------------------
(* scripts/uninstall.sh, which keeps the state here and refuses an active run *)

(* load_managed_v2_paths: link and record are checked before the lock is taken. *)
CheckForUninstall ==
    /\ uninst.pc = "idle" /\ link # None /\ record \in {None, link}
    /\ uninst' = [pc |-> "checked", release |-> link]
    /\ UNCHANGED <<lock, app, docker, handoffs, inst, sat, state, counts>>

(* acquire_managed_lifecycle_lock, and the preflight the checked release runs. *)
Uninstallable == lock = "free" /\ Runnable(uninst.release) /\ ~ActiveRuns

LockForUninstall ==
    /\ uninst.pc = "checked"
    /\ IF Uninstallable
       THEN lock' = "uninstaller" /\ uninst' = [uninst EXCEPT !.pc = "launchers"]
       ELSE UNCHANGED lock /\ uninst' = NoUninstall
    /\ UNCHANGED <<app, docker, handoffs, inst, sat, state, counts>>

RemoveLaunchers ==
    /\ uninst.pc = "launchers" /\ uninst' = [uninst EXCEPT !.pc = "link"] /\ launchers' = FALSE
    /\ UNCHANGED <<lock, link, record, dirs, stages, docker, handoffs, inst, sat, state, counts>>

(* The link is checked again; one that an installation moved before the lock was
   taken stays, and the uninstallation ends here. *)
RemoveLink ==
    /\ uninst.pc = "link"
    /\ IF link = uninst.release
       THEN uninst' = [uninst EXCEPT !.pc = "record"] /\ link' = None /\ UNCHANGED lock
       ELSE uninst' = NoUninstall /\ lock' = "free" /\ UNCHANGED link
    /\ UNCHANGED <<record, launchers, dirs, stages, docker, handoffs, inst, sat, state, counts>>

RemoveRecord ==
    /\ uninst.pc = "record" /\ uninst' = [uninst EXCEPT !.pc = "root"] /\ record' = None
    /\ UNCHANGED <<lock, link, launchers, dirs, stages, docker, handoffs, inst, sat, state, counts>>

RemoveRoot ==
    /\ uninst.pc = "root" /\ uninst' = [uninst EXCEPT !.pc = "done"] /\ lock' = "free"
    /\ dirs' = [r \in Releases |-> "absent"] /\ stages' = {}
    /\ pending' = [r \in Releases |-> None] /\ retired' = {}
    /\ UNCHANGED <<link, record, launchers, docker, inst, sat, state, counts>>

(* Killed before it removes the root. *)
CrashUninstaller ==
    /\ uninst.pc \notin {"idle", "done"} /\ crashes < MaxCrashes
    /\ crashes' = crashes + 1 /\ uninst' = NoUninstall
    /\ lock' = IF uninst.pc = "checked" THEN lock ELSE "free"
    /\ UNCHANGED <<app, docker, handoffs, inst, sat, state, installs, faults>>

Next ==
    \/ \E r \in Releases : Begin(r)
    \/ Stage \/ Fetch \/ Claim \/ Preserve \/ Setup \/ Prepare \/ BuildImage \/ Finalize \/ Verify
    \/ CheckCompatible \/ Retire \/ SwapLink \/ SaveRecord \/ ActivateLaunchers
    \/ ReleaseAnchor \/ Cleanup \/ Succeed \/ Fails \/ Rollback \/ CrashInstaller
    \/ StartSat \/ LockForReconcile \/ ReclaimPending \/ EndReconcile \/ AdmitTask \/ EndSat \/ CrashSat \/ DropContainer
    \/ \E h \in retired : ReclaimRetired(h)
    \/ CheckForUninstall \/ LockForUninstall \/ RemoveLaunchers \/ RemoveLink \/ RemoveRecord \/ RemoveRoot \/ CrashUninstaller

Spec == Init /\ [][Next]_vars

-----------------------------------------------------------------------------
(* Properties *)

(* Whatever is killed or fails, the link selects a release whose directory is
   there and passed _validate_staged_application, and an admitted task keeps the
   link, the directory and the image it started with until it ends
   (managed_foreground_task_lease), on a release that reads everything the tasks
   before it left, through updates, downgrades and rollbacks
   (_preflight_advertised_persisted_state, _inspect_state_with_candidate). *)
ReleaseUsable ==
    /\ link # None => Runnable(link)
    /\ sat.pc = "task" =>
          /\ link = sat.release /\ Runnable(sat.release)
          /\ sat.image \in images /\ ~Unreadable(sat.release)

(* An installation that ends with an error leaves link and record as it found
   them, and the image under its tag too unless it says that the rollback failed
   (_activate_staged_application_locked, _restore_sandbox_image_transition). *)
FailureRestores ==
    [][At("failing") /\ inst'.pc = "idle" /\ inst' # Idle =>
        /\ link' = inst.link /\ record' = inst.record
        /\ inst'.outcome # "rollback_failed" => tag'[Ref] = inst.tagged]_vars

(* What an earlier SAT left is found when a release is built under the reference
   of the active one; both are then kept.  *)
Found == {i \in DOMAIN Legacy : \E r \in Releases \ {link} :
            dirs[r] = "complete" /\ link # None /\ {Reference[r], Reference[link]} = {Legacy[i]}}
LeftBehind == UNION {ToSet(Lineage(i, Images)) : i \in DOMAIN Legacy \ Found}

(* Nothing is leaked: without faults and kills, when nothing is under way,
   nothing was uninstalled (the images are left then) and no handoff is left,
   every image and layer, those an earlier SAT left behind without a tag
   included, is under a tag or below an image that is, and no rollback reference
   is left (_cleanup_superseded_sandbox_image,
   reconcile_pending_sandbox_image_transition). *)
NoImageLeak ==
    (faults = 0 /\ crashes = 0 /\ lock = "free" /\ inst.pc = "idle" /\ uninst.pc # "done" /\ retired = {}
        /\ \A r \in Releases : pending[r] = None) =>
        /\ \A n \in DOMAIN anchors : anchors[n] = None
        /\ images \subseteq LeftBehind \cup
                UNION {ToSet(Lineage(tag[f], images)) : f \in {g \in References : tag[g] # None}}

=============================================================================
