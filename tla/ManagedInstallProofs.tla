------------------------ MODULE ManagedInstallProofs ------------------------
(***************************************************************************)
(* Proofs about ManagedInstall, for every set of releases, images and      *)
(* parents and any number of installations, faults and kills.              *)
(***************************************************************************)
EXTENDS ManagedInstall, SequenceTheorems, FiniteSetTheorems, NaturalsInduction, WellFoundedInduction, TLAPS

MaybeRelease == Releases \cup {None}
MaybeImage == Images \cup {None}

(* The places of an installer: before the candidate is claimed, while it is
   built, while it is activated, and afterwards. *)
Unclaimed == {"locked", "fetch", "fetched", "preserve"}
Building == {"setup", "prepare", "build", "finalize", "verify"}
Activating == {"compatible", "retire", "swap"}
Activated == {"record", "launch", "release", "cleanup", "done"}
Places == {"idle", "failing"} \cup Unclaimed \cup Building \cup Activating \cup Activated

Outcomes == {"none", "activated", "failed", "incompatible", "half_installed", "handoff_changed",
             "active_run", "stage_left", "rollback_failed"}

Installers ==
    [pc : Places, target : MaybeRelease, n : Nat, prev : MaybeImage, line : Seq(Images),
     anchored : BOOLEAN, cand : MaybeImage, created : BOOLEAN, armed : BOOLEAN, link : MaybeRelease,
     record : MaybeRelease, made : BOOLEAN, tagged : MaybeImage, outcome : Outcomes]

TypeOK ==
    /\ link \in MaybeRelease /\ record \in MaybeRelease /\ launchers \in BOOLEAN
    /\ dirs \in [Releases -> {"absent", "claimed", "runnable", "complete"}]
    /\ tag \in [References -> MaybeImage] /\ anchors \in [1..MaxInstalls -> MaybeImage]
    /\ images \subseteq Images
    /\ inst \in Installers /\ installs \in Nat
    /\ sat \in [pc : {"idle", "started", "retired", "reconciled", "task"}, release : MaybeRelease, image : MaybeImage]
    /\ uninst \in [pc : {"idle", "checked", "launchers", "link", "record", "root", "done"}, release : MaybeRelease]

(* The lock tells who is at work. *)
LockHeld ==
    /\ inst.pc # "idle" <=> lock = "installer"
    /\ sat.pc = "retired" <=> lock = "reconciler"
    /\ sat.pc = "task" <=> lock = "task"
    /\ uninst.pc \in {"launchers", "link", "record", "root"} <=> lock = "uninstaller"

(* A release that may be selected. *)
Usable(r) == r # None => Runnable(r) /\ ~Unreadable(r)

(* What is selected can be used, and so can what a rollback selects again; the
   uninstaller has removed the link before it removes the releases. *)
SelectionUsable ==
    /\ Usable(link)
    /\ uninst.pc \in {"record", "root"} => link = None
    /\ inst.pc # "idle" => Usable(inst.link)

(* What the installer's place tells of the candidate. *)
CandidateFits ==
    inst.pc # "idle" =>
        /\ inst.target \in Releases
        /\ inst.created => inst.link # inst.target
        /\ inst.pc \in Unclaimed \cup Building \cup Activating => link = inst.link
        /\ inst.pc \in Activating => Runnable(inst.target)
        /\ inst.pc \in {"retire", "swap"} => ~Unreadable(inst.target)

(* What it tells of the image under the candidate's tag. *)
ImageFits ==
    inst.pc # "idle" =>
        /\ inst.n \in 1..MaxInstalls
        /\ inst.armed => inst.prev = inst.tagged
        /\ ~inst.armed => tag[Ref] = inst.tagged
        /\ inst.pc \in Unclaimed => ~inst.armed
        /\ inst.pc \in Building => inst.armed

(* Nothing Docker still refers to was removed. *)
TaggedPresent == \A i \in Range(tag) \cup Range(anchors) : i # None => i \in images

(* An admitted task is one of the active release, on an image that is there. *)
TaskFits ==
    /\ sat.pc # "idle" => sat.release \in Releases
    /\ sat.pc = "task" => link = sat.release /\ sat.image \in images

(* A handoff names lineages. *)
Names(h) ==
    {"line", "orphans"} \subseteq DOMAIN h /\ h.line \in Seq(Images) /\ h.orphans \in Seq(Seq(Images))

HandoffsFit ==
    /\ DOMAIN pending = Releases /\ \A r \in Releases : pending[r] # None => Names(pending[r])
    /\ \A h \in retired : Names(h)

IInv == HandoffsFit /\ TypeOK /\ LockHeld /\ SelectionUsable /\ CandidateFits /\ ImageFits /\ TaggedPresent /\ TaskFits

-----------------------------------------------------------------------------
(* Lineages *)

(* A nonempty set of numbers has a least element. *)
LEMMA Least == ASSUME NEW T, T \subseteq Nat, T # {} PROVE \E n \in T : \A m \in T : ~(m < n)
<1>1. PICK n \in T : \A m \in T : ~(<<m, n>> \in OpToRel(<, Nat))
  BY NatLessThanWellFounded, WFMin
<1>2. \A m \in T : m < n => <<m, n>> \in OpToRel(<, Nat)
  BY DEF OpToRel
<1>3. QED BY <1>1, <1>2

(* The lineage _inspect_sandbox_image_lineage follows starts with its image and
   consists of images, however parents are related. *)
LEMMA LineageStarts ==
    ASSUME NEW i \in Images, NEW present
    PROVE  /\ Lineage(i, present) \in Seq(Images)
           /\ i \in ToSet(Lineage(i, present)) /\ ToSet(Lineage(i, present)) \subseteq Images
<1> DEFINE More(s) == LET p == Parent[Last(s)]
                      IN  IF p = None \/ p \notin present THEN s ELSE Append(s, p)
           Walk(g, k) == g = [n \in 0..k |-> IF n = 0 THEN <<i>> ELSE More(g[n - 1])]
           Open == {k \in Nat : ~ \E g : Walk(g, k)}
           N == Cardinality(Images)
<1>1. N \in Nat
  BY InstallAssumption, FS_CardinalityType
<1>2. Open = {}
  <2>1. SUFFICES ASSUME Open # {} PROVE FALSE
    OBVIOUS
  <2>2. PICK k \in Open : \A m \in Open : ~(m < k)
    BY <2>1, Least
  <2> HIDE DEF More
  <2>3. CASE k = 0
    <3> DEFINE h == [n \in 0..0 |-> <<i>>]
    <3>1. Walk(h, 0)
      <4>1. \A n \in 0..0 : n = 0
        OBVIOUS
      <4>2. [n \in 0..0 |-> IF n = 0 THEN <<i>> ELSE More(h[n - 1])] = h
        BY <4>1
      <4>3. QED BY <4>2
    <3>2. QED BY <2>2, <2>3, <3>1
  <2>4. CASE k # 0
    <3>1. k - 1 \in Nat /\ k - 1 \notin Open
      <4>1. Open \subseteq Nat
        OBVIOUS
      <4> HIDE DEF Open
      <4>2. QED BY <2>2, <2>4, <4>1
    <3>2. PICK g : Walk(g, k - 1)
      BY <3>1
    <3> DEFINE h == [n \in 0..k |-> IF n = k THEN More(g[k - 1]) ELSE g[n]]
    <3>3. Walk(h, k)
      BY <2>2, <2>4, <3>1, <3>2
    <3>4. QED BY <2>2, <3>3
  <2>5. QED BY <2>3, <2>4
<1> DEFINE up == CHOOSE g : Walk(g, N)
<1>3. Lineage(i, present) = up[N]
  BY DEF Lineage
<1>4. Walk(up, N)
  BY <1>1, <1>2
<1> HIDE DEF up
<1>5. up[0] = <<i>> /\ \A n \in 1..N : up[n] = More(up[n - 1])
  <2> HIDE DEF More
  <2>1. \A n \in 0..N : up[n] = IF n = 0 THEN <<i>> ELSE More(up[n - 1])
    BY <1>4
  <2>2. QED BY <1>1, <2>1
<1>6. \A n \in 0..N : up[n] \in Seq(Images) /\ Len(up[n]) > 0 /\ up[n][1] = i
  <2> DEFINE Wrong == {n \in 0..N : ~(up[n] \in Seq(Images) /\ Len(up[n]) > 0 /\ up[n][1] = i)}
  <2>1. SUFFICES ASSUME Wrong # {} PROVE FALSE
    OBVIOUS
  <2>2. PICK n \in Wrong : \A m \in Wrong : ~(m < n)
    <3>1. Wrong \subseteq Nat
      BY <1>1
    <3> HIDE DEF Wrong
    <3>2. QED BY <2>1, <3>1, Least
  <2>3. CASE n = 0
    <3>1. up[0] = <<i>>
      BY <1>5
    <3>2. up[0] \in Seq(Images) /\ Len(up[0]) > 0 /\ up[0][1] = i
      BY <3>1
    <3>3. QED BY <2>2, <2>3, <3>2
  <2>4. CASE n # 0
    <3>1. n \in 1..N /\ n - 1 \in 0..N /\ n - 1 \notin Wrong
      BY <1>1, <2>2, <2>4
    <3> DEFINE s == up[n - 1]
    <3>2. s \in Seq(Images) /\ Len(s) > 0 /\ s[1] = i
      BY <3>1
    <3>3. up[n] = More(s)
      BY <1>5, <3>1
    <3> HIDE DEF s
    <3>4. Last(s) \in Images
      BY <3>2 DEF Last
    <3>5. Parent[Last(s)] \in Images \cup {None}
      BY <3>4, InstallAssumption
    <3>6. CASE More(s) = s
      BY <2>2, <3>2, <3>3, <3>6
    <3>7. CASE More(s) # s
      <4>1. Parent[Last(s)] \in Images /\ up[n] = Append(s, Parent[Last(s)])
        BY <3>3, <3>5, <3>7
      <4>2. QED BY <2>2, <3>2, <4>1, AppendProperties
    <3>8. QED BY <3>6, <3>7
  <2>5. QED BY <2>3, <2>4
<1>7. up[N] \in Seq(Images) /\ Len(up[N]) > 0 /\ up[N][1] = i
  BY <1>1, <1>6
<1>8. QED
  BY <1>3, <1>7 DEF ToSet

(* The prefix of a lineage that is removed holds nothing that is there and
   under a tag or a rollback reference. *)
LEMMA RemovedUntagged ==
    ASSUME NEW line, NEW retained, NEW t, NEW a, NEW present,
           NEW i \in Removable(line, retained, t, a, present), i \in present
    PROVE  ~Tagged(i, t, a)
<1>1. PICK n \in 1..Len(line) : line[n] = i
                                /\ \A m \in 1..n : ~(line[m] \in present /\ Tagged(line[m], t, a))
  BY DEF Removable
<1>2. QED BY <1>1

(* What a handoff's lineages are removed from. *)
Offered(h) == IF h.anchor = 0 THEN images ELSE AfterRelease(h.anchor)

(* The lineages of a handoff are removed one after the other. *)
LEMMA RemainingSteps ==
    ASSUME NEW h, NEW lines, Len(lines) \in Nat, NEW retained
    PROVE  LET left == Remaining(h, lines, retained)
           IN  /\ left[0] = Offered(h)
               /\ \A n \in 1..Len(lines) :
                    left[n] = left[n - 1] \ Removable(lines[n], retained, tag, Unanchored(h), left[n - 1])
<1> DEFINE Next1(n, x) == x \ Removable(lines[n], retained, tag, Unanchored(h), x)
           Walk(g, k) == g = [n \in 0..k |-> IF n = 0 THEN Offered(h) ELSE Next1(n, g[n - 1])]
           Open == {k \in Nat : ~ \E g : Walk(g, k)}
           N == Len(lines)
           left == CHOOSE g : Walk(g, N)
<1>1. Remaining(h, lines, retained) = left
  BY DEF Remaining, Offered
<1>2. Open = {}
  <2>1. SUFFICES ASSUME Open # {} PROVE FALSE
    OBVIOUS
  <2>2. PICK k \in Open : \A m \in Open : ~(m < k)
    BY <2>1, Least
  <2> HIDE DEF Next1
  <2>3. CASE k = 0
    <3> DEFINE g0 == [n \in 0..0 |-> Offered(h)]
    <3>1. Walk(g0, 0)
      <4>1. \A n \in 0..0 : n = 0
        OBVIOUS
      <4>2. [n \in 0..0 |-> IF n = 0 THEN Offered(h) ELSE Next1(n, g0[n - 1])] = g0
        BY <4>1
      <4>3. QED BY <4>2
    <3>2. QED BY <2>2, <2>3, <3>1
  <2>4. CASE k # 0
    <3>1. k - 1 \in Nat /\ k - 1 \notin Open
      <4>1. Open \subseteq Nat
        OBVIOUS
      <4> HIDE DEF Open
      <4>2. QED BY <2>2, <2>4, <4>1
    <3>2. PICK g : Walk(g, k - 1)
      BY <3>1
    <3> DEFINE g1 == [n \in 0..k |-> IF n = k THEN Next1(k, g[k - 1]) ELSE g[n]]
    <3>3. Walk(g1, k)
      BY <2>2, <2>4, <3>1, <3>2
    <3>4. QED BY <2>2, <3>3
  <2>5. QED BY <2>3, <2>4
<1>3. Walk(left, N)
  BY <1>2
<1> HIDE DEF left
<1>4. left[0] = Offered(h) /\ \A n \in 1..N : left[n] = Next1(n, left[n - 1])
  <2> HIDE DEF Next1
  <2>1. \A n \in 0..N : left[n] = IF n = 0 THEN Offered(h) ELSE Next1(n, left[n - 1])
    BY <1>3
  <2>2. QED BY <2>1
<1>5. QED BY <1>1, <1>4

(* So only images that were there remain, and those a reference names do. *)
LEMMA RemainingFits ==
    ASSUME NEW h, NEW lines, Len(lines) \in Nat, NEW retained
    PROVE  /\ Remaining(h, lines, retained)[Len(lines)] \subseteq images
           /\ \A i \in Offered(h) : Tagged(i, tag, Unanchored(h)) => i \in Remaining(h, lines, retained)[Len(lines)]
<1> DEFINE left == Remaining(h, lines, retained)
           Good(x) == x \subseteq images /\ \A i \in Offered(h) : Tagged(i, tag, Unanchored(h)) => i \in x
           Wrong == {n \in 0..Len(lines) : ~Good(left[n])}
<1>1. /\ left[0] = Offered(h)
      /\ \A n \in 1..Len(lines) :
            left[n] = left[n - 1] \ Removable(lines[n], retained, tag, Unanchored(h), left[n - 1])
  BY RemainingSteps
<1> HIDE DEF left
<1>2. Good(left[0])
  BY <1>1 DEF Offered, AfterRelease, AfterUntag
<1>3. ASSUME NEW n \in 1..Len(lines), Good(left[n - 1]) PROVE Good(left[n])
  <2>1. left[n] = left[n - 1] \ Removable(lines[n], retained, tag, Unanchored(h), left[n - 1])
    BY <1>1
  <2>2. ASSUME NEW i \in left[n - 1], Tagged(i, tag, Unanchored(h)) PROVE i \in left[n]
    BY <2>1, <2>2, RemovedUntagged
  <2>3. QED BY <1>3, <2>1, <2>2
<1>4. Wrong = {}
  <2>1. SUFFICES ASSUME Wrong # {} PROVE FALSE
    OBVIOUS
  <2>2. PICK n \in Wrong : \A m \in Wrong : ~(m < n)
    <3>1. Wrong \subseteq Nat
      OBVIOUS
    <3> HIDE DEF Wrong
    <3>2. QED BY <2>1, <3>1, Least
  <2>3. n # 0
    BY <1>2, <2>2
  <2>4. n \in 1..Len(lines) /\ n - 1 \in 0..Len(lines) /\ n - 1 \notin Wrong
    BY <2>2, <2>3
  <2> HIDE DEF Good
  <2>5. QED BY <1>3, <2>2, <2>4
<1>5. QED
  <2>1. Good(left[Len(lines)])
    <3> HIDE DEF Good
    <3>1. QED BY <1>4
  <2>2. QED BY <2>1 DEF left

(* A handoff names a number of lineages. *)
LEMMA RootsCounted == ASSUME NEW h, Names(h) PROVE Len(Roots(h)) \in Nat /\ Len(h.orphans) \in Nat
<1>1. Roots(h) \in Seq(Seq(Images)) /\ h.orphans \in Seq(Seq(Images))
  <2>1. <<h.line>> \in Seq(Seq(Images)) /\ <<>> \in Seq(Seq(Images)) /\ h.orphans \in Seq(Seq(Images))
    BY DEF Names
  <2>2. QED BY <2>1, ConcatProperties DEF Roots
<1>2. QED BY <1>1, LenProperties

(* What is reclaimed are the lineages of a handoff. *)
LEMMA HandoffLines ==
    ASSUME HandoffsFit, sat.pc # "idle" => sat.release \in Releases, ReclaimPending \/ \E h \in retired : ReclaimRetired(h)
    PROVE  \E h, lines, retained : ReclaimLines(h, lines, retained) /\ Len(lines) \in Nat
<1>1. CASE ReclaimPending
  <2> DEFINE h == pending[sat.release]
             lines == IF h.prevRef = h.ref THEN Roots(h) ELSE h.orphans
  <2>1. Names(h)
    BY <1>1 DEF ReclaimPending, HandoffsFit
  <2>2. \E retained : ReclaimLines(h, lines, retained)
    BY <1>1 DEF ReclaimPending
  <2>3. QED BY <2>1, <2>2, RootsCounted
<1>2. ASSUME NEW h \in retired, ReclaimRetired(h) PROVE \E retained : ReclaimLines(h, Roots(h), retained)
  BY <1>2 DEF ReclaimRetired
<1>3. \A h \in retired : Len(Roots(h)) \in Nat
  BY RootsCounted DEF HandoffsFit
<1>4. QED BY <1>1, <1>2, <1>3

-----------------------------------------------------------------------------
(* The inductive invariant *)


(* Before it begins an installer has its type. *)
LEMMA IdleInstaller == Idle \in Installers
<1>1. <<>> \in Seq(Images) /\ None \in MaybeRelease /\ None \in MaybeImage /\ "idle" \in Places
  BY DEF Places, MaybeRelease, MaybeImage
<1>2. 0 \in Nat /\ "none" \in Outcomes
  BY DEF Outcomes
<1>3. QED BY <1>1, <1>2, Zenon DEF Installers, Idle

(* What is left of an installer that ended. *)
LEMMA InstallerReports ==
    /\ Idle \in Installers
    /\ \A o \in Outcomes : End(o) => inst' \in Installers /\ inst'.pc = "idle" /\ inst'.outcome = o
<1>1. \A o \in Outcomes : [Idle EXCEPT !.outcome = o] \in Installers
  BY IdleInstaller DEF Installers
<1>2. \A o \in Outcomes : [Idle EXCEPT !.outcome = o].pc = "idle" /\ [Idle EXCEPT !.outcome = o].outcome = o
  BY DEF Idle
<1>3. QED BY <1>1, <1>2, IdleInstaller DEF End

(* A step of an installer to another place, or to the end it reports. *)
LEMMA InstallerMoves ==
    ASSUME NEW i \in Installers, NEW p \in Places, NEW o \in Outcomes
    PROVE  [i EXCEPT !.pc = p] \in Installers /\ [i EXCEPT !.pc = p, !.outcome = o] \in Installers
  BY DEF Installers

(* Every step of an installer keeps its type. *)
LEMMA InstallerTyped == IInv /\ [Next]_vars => inst' \in Installers
<1> SUFFICES ASSUME IInv, [Next]_vars PROVE inst' \in Installers
  OBVIOUS
<1>0. inst \in Installers
  BY DEF IInv, TypeOK
<1> USE DEF At, Step, Refuse
<1>1. CASE UNCHANGED inst
  BY <1>0, <1>1
<1>2. ASSUME NEW r \in Releases, Begin(r) PROVE inst' \in Installers
  <2>1. /\ link \in MaybeRelease /\ record \in MaybeRelease /\ r \in MaybeRelease
        /\ installs + 1 \in Nat /\ tag[Reference[r]] \in MaybeImage /\ "locked" \in Places
    BY DEF IInv, TypeOK, References, MaybeRelease, Places, Unclaimed
  <2>2. inst' = [Idle EXCEPT !.pc = "locked", !.target = r, !.n = installs + 1, !.link = link,
                             !.record = record, !.tagged = tag[Reference[r]]]
    BY <1>2 DEF Begin
  <2>3. QED BY <2>1, <2>2, IdleInstaller DEF Installers
<1>3. CASE Stage \/ Fetch \/ Setup \/ Prepare \/ Finalize \/ Verify \/ CheckCompatible \/ Retire \/ SwapLink \/ SaveRecord \/ ReleaseAnchor
           \/ Cleanup \/ Fails
  <2>1. \E p \in Places, o \in Outcomes : \/ inst' = [inst EXCEPT !.pc = p]
                                          \/ inst' = [inst EXCEPT !.pc = p, !.outcome = o]
    <3>1. CASE Stage \/ Fetch \/ Setup \/ Prepare
      BY <3>1 DEF Places, Unclaimed, Building, Outcomes, Stage, Fetch, Setup, Prepare
    <3>2. CASE Finalize \/ Verify \/ CheckCompatible
      BY <3>2 DEF Places, Building, Activating, Outcomes, Finalize, Verify, CheckCompatible
    <3>3. CASE Retire \/ SwapLink \/ SaveRecord \/ ReleaseAnchor \/ Cleanup
      BY <3>3 DEF Places, Activating, Activated, Outcomes, Retire, SwapLink, SaveRecord, ReleaseAnchor, Cleanup
    <3>4. CASE Fails
      BY <3>4 DEF Places, Outcomes, Fails
    <3>5. QED BY <1>3, <3>1, <3>2, <3>3, <3>4
  <2>2. QED BY <1>0, <2>1, InstallerMoves
<1>4. CASE Claim
  <2>1. inst.created \in BOOLEAN /\ {"preserve", "compatible", "failing"} \subseteq Places /\ "half_installed" \in Outcomes
    BY <1>0 DEF Installers, Places, Unclaimed, Activating, Outcomes
  <2>2. [inst EXCEPT !.pc = "preserve", !.created = TRUE] \in Installers
    BY <1>0, <2>1 DEF Installers
  <2>3. \/ inst' = [inst EXCEPT !.pc = "preserve", !.created = TRUE]
        \/ inst' = [inst EXCEPT !.pc = "compatible"]
        \/ inst' = [inst EXCEPT !.pc = "failing", !.outcome = "half_installed"]
    BY <1>4 DEF Claim
  <2>4. /\ [inst EXCEPT !.pc = "compatible"] \in Installers
        /\ [inst EXCEPT !.pc = "failing", !.outcome = "half_installed"] \in Installers
    BY <1>0, <2>1, InstallerMoves
  <2>5. QED BY <2>2, <2>3, <2>4
<1>5. CASE Preserve
  <2>1. /\ tag[Ref] \in MaybeImage /\ "setup" \in Places
        /\ (IF tag[Ref] = None THEN <<>> ELSE Lineage(tag[Ref], images)) \in Seq(Images)
    <3>1. inst.target \in Releases
      BY <1>5 DEF IInv, CandidateFits, Preserve
    <3>2. tag[Ref] \in MaybeImage
      BY <3>1 DEF IInv, TypeOK, References, Ref
    <3>3. CASE tag[Ref] = None
      BY <3>2, <3>3 DEF Places, Building
    <3>4. CASE tag[Ref] # None
      BY <3>2, <3>4, LineageStarts DEF Places, Building, MaybeImage
    <3>5. QED BY <3>3, <3>4
  <2> DEFINE line == IF tag[Ref] = None THEN <<>> ELSE Lineage(tag[Ref], images)
             anchored == tag[Ref] # None
  <2>2. inst' = [inst EXCEPT !.pc = "setup", !.armed = TRUE, !.prev = tag[Ref], !.anchored = anchored, !.line = line]
    BY <1>5 DEF Preserve
  <2>3. anchored \in BOOLEAN
    OBVIOUS
  <2> HIDE DEF line, anchored
  <2>4. line \in Seq(Images)
    BY <2>1 DEF line
  <2>5. QED BY <1>0, <2>1, <2>2, <2>3, <2>4 DEF Installers
<1>6. CASE BuildImage
  <2>1. inst.target \in Releases
    BY <1>6 DEF IInv, CandidateFits, BuildImage
  <2>2. Build[inst.target] \in MaybeImage /\ "finalize" \in Places
    BY <2>1, InstallAssumption DEF MaybeImage, Places, Building
  <2>3. inst' = [inst EXCEPT !.pc = "finalize", !.cand = Build[inst.target]]
    BY <1>6 DEF BuildImage
  <2>4. QED BY <1>0, <2>2, <2>3 DEF Installers
<1>7. CASE ActivateLaunchers
  <2>1. inst' = [inst EXCEPT !.pc = "release", !.made = ~launchers] /\ (~launchers) \in BOOLEAN /\ "release" \in Places
    BY <1>7 DEF ActivateLaunchers, IInv, TypeOK, Places, Activated
  <2>2. QED BY <1>0, <2>1 DEF Installers
<1>8. CASE CrashInstaller \/ Succeed \/ Rollback
  BY <1>0, <1>8, InstallerReports DEF CrashInstaller, Succeed, Rollback, Installers, Outcomes
<1>9. CASE \/ StartSat \/ LockForReconcile \/ ReclaimPending \/ EndReconcile \/ AdmitTask \/ EndSat \/ CrashSat
           \/ DropContainer \/ CheckForUninstall \/ LockForUninstall \/ RemoveLaunchers \/ RemoveLink \/ RemoveRecord \/ RemoveRoot
           \/ CrashUninstaller \/ \E h \in retired : ReclaimRetired(h)
  <2>1. UNCHANGED inst
    BY <1>9 DEF StartSat, LockForReconcile, ReclaimPending, EndReconcile, AdmitTask, EndSat, CrashSat, DropContainer,
                CheckForUninstall, LockForUninstall, RemoveLaunchers, RemoveLink, RemoveRecord, RemoveRoot, CrashUninstaller, ReclaimRetired
  <2>2. QED BY <1>0, <2>1
<1>10. QED BY <1>1, <1>2, <1>3, <1>4, <1>5, <1>6, <1>7, <1>8, <1>9 DEF Next, vars

(* Releases, images and processes keep their types. *)
LEMMA TypeStep == IInv /\ [Next]_vars => TypeOK'
<1> SUFFICES ASSUME IInv, [Next]_vars PROVE TypeOK'
  OBVIOUS
<1>0. inst' \in Installers /\ TypeOK /\ (inst.pc # "idle" => inst.target \in Releases)
  BY InstallerTyped DEF IInv, CandidateFits
<1> USE <1>0 DEF TypeOK, app, docker, handoffs, state, counts, At
<1>1. CASE UNCHANGED vars
  BY <1>1 DEF vars
<1>2. ASSUME NEW r \in Releases, Begin(r) PROVE TypeOK'
  BY <1>2 DEF Begin
<1>3. CASE Stage \/ Fetch \/ Prepare \/ Finalize \/ CheckCompatible \/ Succeed \/ Fails \/ CrashInstaller
  BY <1>3 DEF Stage, Fetch, Prepare, Finalize, CheckCompatible, Succeed, Fails, CrashInstaller
<1>4. CASE Claim \/ Setup \/ Verify \/ Retire
  BY <1>4 DEF Claim, Setup, Verify, Retire
<1>5. CASE Preserve
  <2>1. tag[Ref] \in MaybeImage
    BY <1>5 DEF Preserve, Ref, References
  <2>2. QED BY <1>5, <2>1 DEF Preserve
<1>6. CASE BuildImage
  <2>1. Build[inst.target] \in Images
    BY <1>6, InstallAssumption DEF BuildImage
  <2>2. ToSet(Lineage(Build[inst.target], Images)) \subseteq Images
    BY <2>1, LineageStarts
  <2>3. QED BY <1>6, <2>1, <2>2 DEF BuildImage, MaybeImage
<1>7. CASE SwapLink \/ SaveRecord \/ ActivateLaunchers
  BY <1>7 DEF SwapLink, SaveRecord, ActivateLaunchers, MaybeRelease
<1>8. CASE ReleaseAnchor \/ Cleanup
  <2>1. images' \subseteq images
    BY <1>8 DEF ReleaseAnchor, Cleanup, AfterRelease, AfterUntag
  <2>2. anchors' \in [1..MaxInstalls -> MaybeImage]
    BY <1>8 DEF ReleaseAnchor, Cleanup, Released, MaybeImage
  <2>3. QED BY <1>8, <2>1, <2>2 DEF ReleaseAnchor, Cleanup
<1>9. CASE Rollback
  <2>1. images' \subseteq images
    BY <1>9 DEF Rollback, RestoreImage, AfterUntag
  <2>2. anchors' \in [1..MaxInstalls -> MaybeImage]
    BY <1>9 DEF Rollback, RestoreImage, Released, MaybeImage
  <2>3. tag' \in [References -> MaybeImage]
    BY <1>9 DEF Rollback, RestoreImage, Installers
  <2>4. link' \in MaybeRelease /\ record' \in MaybeRelease /\ launchers' \in BOOLEAN
    BY <1>9 DEF Rollback, RestoreRelease, Installers
  <2>5. QED BY <1>9, <2>1, <2>2, <2>3, <2>4 DEF Rollback
<1>10. CASE StartSat \/ LockForReconcile \/ EndReconcile \/ EndSat \/ CrashSat \/ DropContainer
  BY <1>10 DEF StartSat, LockForReconcile, EndReconcile, EndSat, CrashSat, DropContainer, MaybeRelease, MaybeImage
<1>11. CASE AdmitTask
  <2>1. tag[Reference[sat.release]] \in MaybeImage
    BY <1>11 DEF AdmitTask, IInv, TaskFits, References
  <2>2. QED BY <1>11, <2>1 DEF AdmitTask
<1>12. CASE ReclaimPending \/ \E h \in retired : ReclaimRetired(h)
  <2>1. PICK h, lines, retained : ReclaimLines(h, lines, retained) /\ Len(lines) \in Nat
    BY <1>12, HandoffLines DEF IInv, TaskFits, LockHeld
  <2>2. images' \subseteq images
    BY <2>1, RemainingFits DEF ReclaimLines
  <2>3. anchors' \in [1..MaxInstalls -> MaybeImage] /\ tag' = tag
    BY <2>1 DEF ReclaimLines, Unanchored, Released, MaybeImage
  <2>4. UNCHANGED <<app, sat, uninst, counts>>
    BY <1>12 DEF ReclaimPending, ReclaimRetired
  <2>5. QED BY <2>2, <2>3, <2>4
<1>13. CASE \/ CheckForUninstall \/ LockForUninstall \/ RemoveLaunchers \/ RemoveLink \/ RemoveRecord \/ RemoveRoot \/ CrashUninstaller
  <2>1. uninst' \in [pc : {"idle", "checked", "launchers", "link", "record", "root", "done"}, release : MaybeRelease]
    <3>1. CASE CheckForUninstall \/ LockForUninstall \/ RemoveLaunchers \/ CrashUninstaller
      BY <3>1 DEF CheckForUninstall, LockForUninstall, RemoveLaunchers, CrashUninstaller, MaybeRelease, NoUninstall
    <3>2. CASE RemoveLink \/ RemoveRecord \/ RemoveRoot
      BY <3>2 DEF RemoveLink, RemoveRecord, RemoveRoot, MaybeRelease, NoUninstall
    <3>3. QED BY <1>13, <3>1, <3>2
  <2>2. /\ UNCHANGED <<tag, anchors, images, inst, installs, sat>>
        /\ link' \in {link, None} /\ record' \in {record, None} /\ launchers' \in {launchers, FALSE}
        /\ dirs' \in {dirs, [r \in Releases |-> "absent"]}
    BY <1>13 DEF CheckForUninstall, LockForUninstall, RemoveLaunchers, RemoveLink, RemoveRecord, RemoveRoot, CrashUninstaller
  <2>3. QED BY <2>1, <2>2 DEF MaybeRelease
<1>14. QED
  BY <1>1, <1>2, <1>3, <1>4, <1>5, <1>6, <1>7, <1>8, <1>9, <1>10, <1>11, <1>12, <1>13 DEF Next

(* The first state satisfies the invariant. *)
LEMMA InitInv == Init => IInv
<1> SUFFICES ASSUME Init PROVE IInv
  OBVIOUS
<1>1. TypeOK
  <2>1. images \subseteq Images
    BY InstallAssumption, LineageStarts DEF Init
  <2>2. QED BY <2>1, IdleInstaller, InstallAssumption DEF Init, TypeOK, MaybeRelease, MaybeImage, NoUninstall
<1>2. LockHeld /\ SelectionUsable /\ CandidateFits /\ ImageFits /\ TaskFits
  BY DEF Init, Idle, NoUninstall, LockHeld, SelectionUsable, Usable, CandidateFits, ImageFits, TaskFits
<1>3. TaggedPresent
  BY DEF Init, TaggedPresent, Range
<1>4. HandoffsFit
  BY DEF Init, HandoffsFit
<1>5. QED BY <1>1, <1>2, <1>3, <1>4 DEF IInv

(* An installation ends by freeing the lock. *)
LEMMA InstallerEnds ==
    ASSUME inst \in Installers, Succeed \/ Rollback \/ CrashInstaller
    PROVE  inst.pc # "idle" /\ inst'.pc = "idle" /\ lock' = "free" /\ UNCHANGED <<sat, uninst>>
<1>1. CASE Succeed
  <2>1. inst'.pc = "idle"
    BY <1>1, InstallerReports DEF Succeed, Outcomes
  <2>2. QED BY <1>1, <2>1 DEF Succeed, At
<1>2. CASE Rollback
  <2>1. inst'.pc = "idle"
    BY <1>2, InstallerReports DEF Rollback, Outcomes, Installers
  <2>2. QED BY <1>2, <2>1 DEF Rollback, At
<1>3. CASE CrashInstaller
  BY <1>3 DEF CrashInstaller, At, Idle
<1>4. QED BY <1>1, <1>2, <1>3

(* The steps of an installer under way.  None but Preserve changes what it
   remembers of the state it found, and none leads back. *)
Works ==
    \/ Stage \/ Fetch \/ Claim \/ Setup \/ Prepare \/ BuildImage \/ Finalize \/ Verify \/ CheckCompatible
    \/ Retire \/ SwapLink \/ SaveRecord \/ ActivateLaunchers \/ ReleaseAnchor \/ Cleanup \/ Fails

Kept ==
    /\ inst.pc # "idle" /\ inst'.pc # "idle" /\ UNCHANGED <<lock, sat, uninst, persisted>>
    /\ inst'.target = inst.target /\ inst'.link = inst.link /\ inst'.n = inst.n
    /\ inst'.tagged = inst.tagged /\ inst'.prev = inst.prev /\ inst'.armed = inst.armed
    /\ inst'.pc \in Unclaimed => inst.pc \in Unclaimed
    /\ inst'.pc \in Building => inst.pc \in Building
    /\ inst'.pc # "preserve" => inst'.created = inst.created

(* What an installer under way keeps. *)
LEMMA InstallerKeeps == ASSUME inst \in Installers, Works PROVE Kept
<1> USE DEF Kept, Installers, Unclaimed, Building, At, Step, Refuse, state
<1>1. CASE Stage
  BY <1>1 DEF Stage
<1>2. CASE Fetch
  BY <1>2 DEF Fetch
<1>3. CASE Claim
  BY <1>3 DEF Claim
<1>4. CASE Setup
  BY <1>4 DEF Setup
<1>5. CASE Prepare
  BY <1>5 DEF Prepare
<1>6. CASE BuildImage
  BY <1>6 DEF BuildImage
<1>7. CASE Finalize
  BY <1>7 DEF Finalize
<1>8. CASE Verify
  BY <1>8 DEF Verify
<1>9. CASE CheckCompatible
  BY <1>9 DEF CheckCompatible
<1>10. CASE Retire
  BY <1>10 DEF Retire
<1>11. CASE SwapLink
  BY <1>11 DEF SwapLink
<1>12. CASE SaveRecord
  BY <1>12 DEF SaveRecord
<1>13. CASE ActivateLaunchers
  BY <1>13 DEF ActivateLaunchers
<1>14. CASE ReleaseAnchor
  BY <1>14 DEF ReleaseAnchor
<1>15. CASE Cleanup
  BY <1>15 DEF Cleanup
<1>16. CASE Fails
  BY <1>16 DEF Fails
<1>17. QED
  BY <1>1, <1>2, <1>3, <1>4, <1>5, <1>6, <1>7, <1>8, <1>9, <1>10, <1>11, <1>12, <1>13, <1>14, <1>15, <1>16 DEF Works

(* After the link has moved an installer does not look at the candidate again. *)
LEMMA PastActivation ==
    ASSUME inst \in Installers, SwapLink \/ SaveRecord \/ ActivateLaunchers \/ ReleaseAnchor \/ Cleanup \/ Fails
    PROVE  inst'.pc \in Activated \cup {"failing"}
<1> USE DEF Installers, Activated, Step
<1>1. CASE SwapLink \/ SaveRecord
  BY <1>1 DEF SwapLink, SaveRecord
<1>2. CASE ActivateLaunchers
  BY <1>2 DEF ActivateLaunchers
<1>3. CASE ReleaseAnchor
  BY <1>3 DEF ReleaseAnchor
<1>4. CASE Cleanup \/ Fails
  BY <1>4 DEF Cleanup, Fails
<1>5. QED BY <1>1, <1>2, <1>3, <1>4

(* Only the process that works under the lock frees it, and a kill does. *)
LEMMA LockStep == IInv /\ [Next]_vars => LockHeld'
<1> SUFFICES ASSUME IInv, [Next]_vars PROVE LockHeld'
  OBVIOUS
<1> USE DEF IInv, TypeOK, LockHeld, Installers, At, Step, Refuse, Idle
<1>1. CASE UNCHANGED vars
  BY <1>1 DEF vars
<1>2. ASSUME NEW r \in Releases, Begin(r) PROVE LockHeld'
  BY <1>2 DEF Begin
<1>3. CASE Works
  BY <1>3, InstallerKeeps DEF Kept
<1>4. CASE Preserve
  BY <1>4 DEF Preserve
<1>5. CASE StartSat \/ EndReconcile \/ AdmitTask
  <2>1. CASE StartSat
    BY <2>1 DEF StartSat
  <2>2. CASE EndReconcile
    BY <2>2 DEF EndReconcile
  <2>3. CASE AdmitTask
    BY <2>3 DEF AdmitTask
  <2>4. QED BY <1>5, <2>1, <2>2, <2>3
<1>6. CASE DropContainer \/ ReclaimPending \/ \E h \in retired : ReclaimRetired(h)
  BY <1>6 DEF DropContainer, ReclaimPending, ReclaimRetired
<1>7. CASE CheckForUninstall \/ LockForUninstall \/ RemoveLaunchers \/ RemoveLink \/ RemoveRecord \/ RemoveRoot \/ CrashUninstaller
  <2>1. CASE CheckForUninstall \/ LockForUninstall
    BY <2>1 DEF NoUninstall, CheckForUninstall, LockForUninstall, Uninstallable
  <2>2. CASE RemoveLaunchers \/ RemoveLink
    BY <2>2 DEF NoUninstall, RemoveLaunchers, RemoveLink
  <2>3. CASE RemoveRecord \/ RemoveRoot
    BY <2>3 DEF RemoveRecord, RemoveRoot
  <2>4. CASE CrashUninstaller
    BY <2>4 DEF NoUninstall, CrashUninstaller
  <2>5. QED BY <1>7, <2>1, <2>2, <2>3, <2>4
<1>8. CASE Succeed \/ Rollback \/ CrashInstaller
  <2>1. inst.pc # "idle" /\ inst'.pc = "idle" /\ lock' = "free" /\ UNCHANGED <<sat, uninst>>
    BY <1>8, InstallerEnds
  <2>2. QED BY <2>1
<1>9. CASE EndSat \/ CrashSat
  <2>1. /\ sat'.pc = "idle" /\ UNCHANGED <<inst, uninst>>
        /\ lock' = IF sat.pc \in {"retired", "task"} THEN "free" ELSE lock
    BY <1>9 DEF EndSat, CrashSat
  <2>2. QED BY <2>1
<1>10. CASE LockForReconcile
  <2>1. CASE lock = "free" /\ link = sat.release
    BY <1>10, <2>1 DEF LockForReconcile
  <2>2. CASE ~(lock = "free" /\ link = sat.release)
    BY <1>10, <2>2 DEF LockForReconcile
  <2>3. QED BY <2>1, <2>2
<1>11. QED
  BY <1>1, <1>2, <1>3, <1>4, <1>5, <1>6, <1>7, <1>8, <1>9, <1>10 DEF Next, Works

(* What is selected stays usable: a candidate was validated and has read the
   persisted state when the link moves to it, and the release a rollback returns
   to was never removed. *)
LEMMA SelectionStep == IInv /\ [Next]_vars => SelectionUsable'
<1> SUFFICES ASSUME IInv, [Next]_vars PROVE SelectionUsable'
  OBVIOUS
<1> USE DEF IInv, TypeOK, LockHeld, Installers, SelectionUsable, app, docker, handoffs, state, counts
<1>1. ASSUME UNCHANGED <<link, dirs, persisted, uninst>>, inst'.pc = "idle" \/ (inst.pc # "idle" /\ inst'.link = inst.link)
      PROVE  SelectionUsable'
  BY <1>1 DEF Usable, Unreadable, Runnable
<1>2. ASSUME NEW r \in Releases, Begin(r) PROVE SelectionUsable'
  <2>1. UNCHANGED <<link, dirs, persisted, uninst>> /\ inst'.link = link
    BY <1>2 DEF Begin, Idle
  <2>2. QED BY <2>1 DEF Usable, Unreadable, Runnable
<1>3. CASE Stage \/ Fetch \/ Preserve \/ Prepare \/ BuildImage \/ Finalize \/ CheckCompatible
  BY <1>1, <1>3 DEF Stage, Fetch, Preserve, Prepare, BuildImage, Finalize, CheckCompatible, At, Step, Refuse
<1>4. CASE SaveRecord \/ ActivateLaunchers \/ ReleaseAnchor \/ Cleanup \/ Succeed \/ Fails
  <2>1. CASE Succeed
    BY <1>1, <2>1, InstallerEnds DEF Succeed
  <2>2. CASE SaveRecord \/ ActivateLaunchers \/ ReleaseAnchor \/ Cleanup \/ Fails
    BY <1>1, <2>2 DEF SaveRecord, ActivateLaunchers, ReleaseAnchor, Cleanup, Fails, At, Step
  <2>3. QED BY <1>4, <2>1, <2>2
<1>5. CASE Claim \/ Setup \/ Verify
  <2>1. \A q \in Releases : Runnable(q) => Runnable(q)'
    BY <1>5 DEF Claim, Setup, Verify, Runnable
  <2>2. UNCHANGED <<link, persisted, uninst>> /\ inst'.link = inst.link /\ inst.pc # "idle"
    BY <1>5 DEF Claim, Setup, Verify, At, Step, Refuse
  <2>3. QED BY <2>1, <2>2 DEF Usable, Unreadable, MaybeRelease
<1>6. CASE Retire
  <2>1. link \in Releases /\ Runnable(link) => Runnable(link)'
    BY <1>6 DEF Retire, Runnable
  <2>2. UNCHANGED <<link, persisted, uninst>> /\ inst'.link = inst.link /\ inst.link = link /\ inst.pc # "idle"
    BY <1>6 DEF Retire, At, Step, Refuse, CandidateFits, Activating
  <2>3. QED BY <2>1, <2>2 DEF Usable, Unreadable, MaybeRelease
<1>7. CASE SwapLink
  <2>1. Runnable(inst.target) /\ ~Unreadable(inst.target) /\ inst.pc # "idle" /\ uninst.pc \notin {"record", "root"}
    BY <1>7 DEF SwapLink, At, CandidateFits, Activating
  <2>2. UNCHANGED <<dirs, persisted, uninst>> /\ inst'.link = inst.link /\ link' = inst.target
    BY <1>7 DEF SwapLink, Step
  <2>3. QED BY <2>1, <2>2 DEF Usable, Unreadable, Runnable
<1>8. CASE Rollback
  <2>1. inst.pc # "idle" /\ inst'.pc = "idle" /\ link' = inst.link /\ UNCHANGED <<persisted, uninst>>
    BY <1>8, InstallerEnds DEF Rollback, RestoreRelease
  <2>2. inst.link \in Releases /\ Runnable(inst.link) => dirs'[inst.link] \in {"runnable", "complete"}
    BY <1>8, <2>1 DEF Rollback, Runnable, CandidateFits
  <2>3. QED BY <2>1, <2>2 DEF Usable, Unreadable, MaybeRelease, Runnable
<1>9. CASE CrashInstaller
  BY <1>1, <1>9 DEF CrashInstaller, Idle
<1>10. CASE UNCHANGED vars \/ StartSat \/ LockForReconcile \/ EndReconcile \/ EndSat \/ CrashSat \/ DropContainer
            \/ ReclaimPending \/ \E h \in retired : ReclaimRetired(h)
  <2>1. UNCHANGED <<link, dirs, persisted, uninst, inst>>
    BY <1>10 DEF vars, StartSat, LockForReconcile, EndReconcile, EndSat, CrashSat, DropContainer, ReclaimPending, ReclaimRetired
  <2>2. QED BY <1>1, <2>1
<1>11. CASE AdmitTask
  <2>1. /\ UNCHANGED <<link, dirs, inst, uninst>> /\ inst.pc = "idle" /\ link \in Releases
        /\ persisted' = persisted \cup {Current[link]}
    BY <1>11 DEF AdmitTask, TaskFits
  <2>2. Supports(link, Current[link])
    BY <2>1, InstallAssumption DEF Supports
  <2>3. QED BY <2>1, <2>2 DEF Usable, Unreadable, Runnable, Supports
<1>12. CASE CheckForUninstall \/ LockForUninstall \/ RemoveLaunchers \/ CrashUninstaller
  <2>1. UNCHANGED <<link, dirs, inst, persisted>> /\ uninst'.pc \notin {"record", "root"}
    BY <1>12 DEF CheckForUninstall, LockForUninstall, RemoveLaunchers, CrashUninstaller, NoUninstall
  <2>2. QED BY <2>1 DEF Usable, Unreadable, Runnable
<1>13. CASE RemoveLink \/ RemoveRecord \/ RemoveRoot
  <2>1. UNCHANGED <<inst, persisted>> /\ inst.pc = "idle"
    BY <1>13 DEF RemoveLink, RemoveRecord, RemoveRoot
  <2>2. (link' = link /\ dirs' = dirs) \/ link' = None
    BY <1>13 DEF RemoveLink, RemoveRecord, RemoveRoot
  <2>3. uninst'.pc \in {"record", "root"} => link' = None
    BY <1>13 DEF RemoveLink, RemoveRecord, RemoveRoot, NoUninstall
  <2>4. QED BY <2>1, <2>2, <2>3 DEF Usable, Unreadable, Runnable
<1>14. QED
  BY <1>2, <1>3, <1>4, <1>5, <1>6, <1>7, <1>8, <1>9, <1>10, <1>11, <1>12, <1>13 DEF Next

(* The candidate is what the installer's place says of it. *)
LEMMA CandidateStep == IInv /\ [Next]_vars => CandidateFits'
<1> SUFFICES ASSUME IInv, [Next]_vars PROVE CandidateFits'
  OBVIOUS
<1> USE DEF IInv, TypeOK, LockHeld, Installers, CandidateFits, app, docker, handoffs, state, counts,
            Unclaimed, Building, Activating
<1>1. CASE UNCHANGED inst /\ (inst.pc = "idle" \/ UNCHANGED <<link, dirs, persisted>>)
  BY <1>1 DEF Unreadable, Runnable
<1>2. ASSUME NEW r \in Releases, Begin(r) PROVE CandidateFits'
  BY <1>2 DEF Begin, Idle
<1>3. CASE Stage \/ Fetch \/ Prepare \/ BuildImage \/ Finalize
  <2>1. inst'.link = inst.link /\ inst'.target = inst.target /\ inst.pc # "idle"
    BY <1>3, InstallerKeeps DEF Works, Kept
  <2>2. inst'.created = inst.created /\ UNCHANGED <<link, dirs, persisted>>
    BY <1>3 DEF Stage, Fetch, Prepare, BuildImage, Finalize, Step, Refuse
  <2>3. inst.pc \in Unclaimed \cup Building /\ inst'.pc \notin Activating
    <3>1. CASE Stage \/ Fetch
      BY <3>1 DEF Stage, Fetch, At, Step, Refuse
    <3>2. CASE Prepare \/ BuildImage \/ Finalize
      BY <3>2 DEF Prepare, BuildImage, Finalize, At, Step
    <3>3. QED BY <1>3, <3>1, <3>2
  <2>4. QED BY <2>1, <2>2, <2>3
<1>4. CASE Preserve
  BY <1>4 DEF Preserve, At
<1>5. CASE CheckCompatible
  <2>1. /\ inst'.link = inst.link /\ inst'.target = inst.target /\ inst'.created = inst.created
        /\ UNCHANGED <<link, dirs, persisted>> /\ inst.pc = "compatible" /\ inst'.pc \in {"failing", "retire"}
    <3>1. CASE Step("retire")
      BY <1>5, <3>1 DEF CheckCompatible, At, Step
    <3>2. CASE Refuse("incompatible") \/ Refuse("active_run")
      BY <1>5, <3>2 DEF CheckCompatible, At, Refuse
    <3>3. QED BY <1>5, <3>1, <3>2 DEF CheckCompatible
  <2>2. inst'.pc = "retire" => ~Unreadable(inst.target)
    BY <1>5 DEF CheckCompatible, At, Step, Refuse
  <2>3. QED BY <2>1, <2>2 DEF Unreadable, Runnable
<1>6. CASE Claim
  <2>1. UNCHANGED <<link, persisted>> /\ inst'.link = inst.link /\ inst'.target = inst.target /\ inst.pc = "fetched"
    BY <1>6 DEF Claim, At, Step, Refuse
  <2>2. CASE dirs[inst.target] = "absent"
    <3>1. inst'.pc = "preserve" /\ ~Runnable(inst.target)
      BY <1>6, <2>2 DEF Claim, Runnable
    <3>2. inst.link # inst.target
      BY <2>1, <3>1, InstallAssumption DEF SelectionUsable, Usable
    <3>3. QED BY <2>1, <3>1, <3>2
  <2>3. CASE Runnable(inst.target)
    <3>1. inst'.pc = "compatible" /\ inst'.created = inst.created /\ dirs' = dirs
      BY <1>6, <2>3 DEF Claim, Runnable, Step
    <3>2. QED BY <2>1, <2>3, <3>1 DEF Runnable
  <2>4. CASE dirs[inst.target] = "claimed"
    <3>1. inst'.pc = "failing" /\ inst'.created = inst.created
      BY <1>6, <2>4 DEF Claim, Runnable, Refuse
    <3>2. QED BY <2>1, <3>1
  <2>5. QED BY <1>6, <2>2, <2>3, <2>4 DEF Claim
<1>7. CASE Setup \/ Verify
  <2>1. /\ UNCHANGED <<link, persisted>> /\ inst'.link = inst.link /\ inst'.target = inst.target
        /\ inst'.created = inst.created /\ inst.pc \in Building /\ inst'.pc \in {"prepare", "compatible", "failing"}
    <3>1. CASE Setup
      BY <3>1 DEF Setup, At, Step
    <3>2. CASE Verify
      BY <3>2 DEF Verify, At, Step, Refuse
    <3>3. QED BY <1>7, <3>1, <3>2
  <2>2. inst'.pc = "compatible" => Runnable(inst.target)'
    <3>1. CASE Setup
      BY <3>1 DEF Setup, Step
    <3>2. CASE Verify
      <4>1. inst'.pc = "compatible" => dirs' = [dirs EXCEPT ![inst.target] = "complete"]
        BY <3>2 DEF Verify, Refuse
      <4>2. inst.target \in Releases
        BY <3>2 DEF Verify, At
      <4>3. QED BY <2>1, <4>1, <4>2 DEF Runnable
    <3>3. QED BY <1>7, <3>1, <3>2
  <2>3. QED BY <2>1, <2>2 DEF Runnable
<1>8. CASE Retire
  <2>1. /\ UNCHANGED <<link, persisted>> /\ inst'.link = inst.link /\ inst'.target = inst.target
        /\ inst'.created = inst.created /\ inst.pc = "retire" /\ inst'.pc \in {"swap", "failing"}
    BY <1>8 DEF Retire, At, Step, Refuse
  <2>2. Runnable(inst.target) => Runnable(inst.target)'
    BY <1>8, <2>1 DEF Retire, Runnable
  <2>3. QED BY <2>1, <2>2 DEF Unreadable
<1>9. CASE SwapLink \/ SaveRecord \/ ActivateLaunchers \/ ReleaseAnchor \/ Cleanup \/ Fails
  <2>1. inst'.link = inst.link /\ inst'.target = inst.target /\ inst.pc # "idle"
    BY <1>9, InstallerKeeps DEF Works, Kept
  <2>2. inst'.pc \notin Unclaimed \cup Building \cup Activating
    BY <1>9, PastActivation DEF Activated
  <2>3. inst'.created = inst.created
    BY <1>9, <2>2, InstallerKeeps DEF Works, Kept
  <2>4. QED BY <2>1, <2>2, <2>3
<1>10. CASE Succeed \/ Rollback \/ CrashInstaller
  <2>1. inst'.pc = "idle"
    BY <1>10, InstallerEnds
  <2>2. QED BY <2>1
<1>11. CASE StartSat \/ LockForReconcile \/ EndReconcile \/ AdmitTask \/ EndSat \/ CrashSat \/ DropContainer
           \/ ReclaimPending \/ \E h \in retired : ReclaimRetired(h)
  BY <1>1, <1>11 DEF StartSat, LockForReconcile, EndReconcile, AdmitTask, EndSat, CrashSat, DropContainer,
                    ReclaimPending, ReclaimRetired
<1>12. CASE CheckForUninstall \/ LockForUninstall \/ RemoveLaunchers \/ RemoveLink \/ RemoveRecord \/ RemoveRoot \/ CrashUninstaller
  BY <1>1, <1>12 DEF CheckForUninstall, LockForUninstall, RemoveLaunchers, RemoveLink, RemoveRecord, RemoveRoot, CrashUninstaller
<1>13. CASE UNCHANGED vars
  BY <1>1, <1>13 DEF vars
<1>14. QED
  BY <1>2, <1>3, <1>6, <1>7, <1>8, <1>9, <1>10, <1>11, <1>12, <1>13, <1>4, <1>5 DEF Next

(* Only BuildImage moves the tag, and it comes after the image under it was
   preserved. *)
LEMMA ImageStep == IInv /\ [Next]_vars => ImageFits'
<1> SUFFICES ASSUME IInv, [Next]_vars PROVE ImageFits'
  OBVIOUS
<1> USE DEF IInv, TypeOK, Installers, ImageFits, Unclaimed, Building
<1>1. CASE UNCHANGED inst /\ (inst.pc = "idle" \/ UNCHANGED tag)
  BY <1>1 DEF Ref
<1>2. ASSUME NEW r \in Releases, Begin(r) PROVE ImageFits'
  <2>1. installs + 1 \in 1..MaxInstalls
    BY <1>2, InstallAssumption DEF Begin
  <2>2. QED BY <1>2, <2>1 DEF Begin, Idle, Ref, docker
<1>3. CASE Works /\ ~BuildImage
  <2>1. Kept
    BY <1>3, InstallerKeeps
  <2>2. tag' = tag
    BY <1>3 DEF Works, Stage, Fetch, Claim, Setup, Prepare, Finalize, Verify, CheckCompatible, Retire, SwapLink, SaveRecord,
                ActivateLaunchers, ReleaseAnchor, Cleanup, Fails, docker
  <2>3. QED BY <2>1, <2>2 DEF Kept, Ref
<1>4. CASE Preserve
  <2>1. /\ inst'.prev = tag[Ref] /\ inst'.armed = TRUE /\ inst'.pc = "setup" /\ inst'.tagged = inst.tagged
        /\ inst'.n = inst.n
    BY <1>4 DEF Preserve
  <2>2. tag[Ref] = inst.tagged /\ inst.n \in 1..MaxInstalls
    BY <1>4 DEF Preserve, At
  <2>3. QED BY <2>1, <2>2
<1>5. CASE BuildImage
  <2>1. Kept
    BY <1>5, InstallerKeeps DEF Works
  <2>2. inst.pc \in Building /\ inst'.pc \notin Unclaimed
    BY <1>5 DEF BuildImage, At
  <2>3. QED BY <2>1, <2>2 DEF Kept
<1>6. CASE Succeed \/ Rollback \/ CrashInstaller
  <2>1. inst'.pc = "idle"
    BY <1>6, InstallerEnds
  <2>2. QED BY <2>1
<1>7. CASE StartSat \/ LockForReconcile \/ EndReconcile \/ AdmitTask \/ EndSat \/ CrashSat \/ DropContainer
           \/ ReclaimPending \/ \E h \in retired : ReclaimRetired(h)
  BY <1>1, <1>7 DEF StartSat, LockForReconcile, EndReconcile, AdmitTask, EndSat, CrashSat, DropContainer,
                    ReclaimPending, ReclaimRetired, ReclaimLines, docker
<1>8. CASE CheckForUninstall \/ LockForUninstall \/ RemoveLaunchers \/ RemoveLink \/ RemoveRecord \/ RemoveRoot \/ CrashUninstaller
  BY <1>1, <1>8 DEF CheckForUninstall, LockForUninstall, RemoveLaunchers, RemoveLink, RemoveRecord, RemoveRoot, CrashUninstaller, docker
<1>9. CASE UNCHANGED vars
  BY <1>1, <1>9 DEF vars, docker
<1>10. QED
  BY <1>2, <1>3, <1>4, <1>5, <1>6, <1>7, <1>8, <1>9 DEF Next, Works

(* The order of a finite set of images is a sequence of them. *)
LEMMA Ordered == ASSUME NEW S, S \subseteq Images PROVE SetToSeq(S) \in Seq(S)
<1>1. IsFiniteSet(S)
  BY InstallAssumption, FS_Subset
<1>2. Cardinality(S) \in Nat /\ \E f \in [1..Cardinality(S) -> S] : IsInjective(f)
  BY <1>1, FS_CardinalityType DEF ExistsBijection, Bijection, Injection, IsInjective
<1>3. SetToSeq(S) \in [1..Cardinality(S) -> S]
  BY <1>2 DEF SetToSeq
<1>4. QED BY <1>2, <1>3

(* A handoff is made of lineages, and stays so. *)
LEMMA HandoffStep == IInv /\ [Next]_vars => HandoffsFit'
<1> SUFFICES ASSUME IInv, [Next]_vars PROVE HandoffsFit'
  OBVIOUS
<1> USE DEF IInv, HandoffsFit, handoffs
<1>1. CASE UNCHANGED <<pending, retired>>
  BY <1>1 DEF Names
<1>2. RetirePending => \A h \in retired' : Names(h)
  BY DEF RetirePending
<1>3. CASE Stage
  <2>1. UNCHANGED <<pending, retired>> \/ (RetirePending /\ pending' = [r \in Releases |-> None])
    BY <1>3 DEF Stage
  <2>2. QED BY <1>1, <1>2, <2>1
<1>4. CASE Prepare
  <2> DEFINE prevRef == PredecessorReference
             prev == tag[prevRef]
             line == IF prev = None THEN <<>> ELSE Lineage(prev, images)
             roots == SetToSeq(Orphans(prevRef, ToSet(line)))
             orphans == [n \in DOMAIN roots |-> Lineage(roots[n], images)]
             h == [target |-> inst.target, prevRef |-> prevRef, ref |-> Ref, prev |-> prev, line |-> line,
                   cand |-> None, candLine |-> <<>>, anchor |-> 0, orphans |-> orphans]
  <2>1. prev \in Images \cup {None}
    <3>1. inst.target \in Releases
      BY <1>4 DEF Prepare, At, CandidateFits
    <3>2. prevRef \in References
      BY <3>1 DEF PredecessorReference, Ref, References, TypeOK, MaybeRelease
    <3>3. QED BY <3>2 DEF TypeOK, MaybeImage
  <2>2. line \in Seq(Images)
    <3>1. CASE prev = None
      BY <3>1
    <3>2. CASE prev # None
      BY <2>1, <3>2, LineageStarts
    <3>3. QED BY <3>1, <3>2
  <2>3. Orphans(prevRef, ToSet(line)) \subseteq Images
    BY DEF Orphans, TypeOK
  <2> HIDE DEF line, prevRef
  <2>4. roots \in Seq(Images)
    BY <2>3, Ordered
  <2> HIDE DEF roots
  <2>5. DOMAIN roots = 1..Len(roots) /\ Len(roots) \in Nat /\ \A n \in DOMAIN roots : roots[n] \in Images
    BY <2>4
  <2>6. \A n \in DOMAIN roots : Lineage(roots[n], images) \in Seq(Images)
    BY <2>5, LineageStarts
  <2>7. orphans \in Seq(Seq(Images))
    BY <2>5, <2>6
  <2> HIDE DEF orphans
  <2>8. Names(h)
    BY <2>2, <2>7 DEF Names
  <2>9. pending' = [r \in Releases |-> IF r # inst.target THEN None ELSE h] /\ RetirePending
    BY <1>4 DEF Prepare, prevRef, line, roots, orphans
  <2> HIDE DEF h
  <2>10. QED BY <1>2, <2>8, <2>9
<1>5. CASE Finalize
  <2> DEFINE h == pending[inst.target]
             done == [h EXCEPT !.cand = inst.cand, !.candLine = Lineage(inst.cand, images)]
  <2>1. retired' = retired /\ h # None /\ (pending' = [pending EXCEPT ![inst.target] = None]
                                            \/ pending' = [pending EXCEPT ![inst.target] = done])
    BY <1>5 DEF Finalize
  <2>2. inst.target \in Releases /\ (h # None => Names(h))
    BY <1>5 DEF Finalize, At, CandidateFits
  <2>3. h # None => Names(done)
    BY <2>2 DEF Names
  <2>4. CASE pending' = [pending EXCEPT ![inst.target] = None]
    BY <2>1, <2>4
  <2>5. CASE pending' = [pending EXCEPT ![inst.target] = done]
    BY <2>1, <2>3, <2>5
  <2>6. QED BY <2>1, <2>4, <2>5
<1>6. CASE Verify
  <2> DEFINE h == pending[inst.target]
  <2>1. retired' = retired /\ (pending' = pending
                               \/ (h # None /\ pending' = [pending EXCEPT ![inst.target].anchor = IF inst.anchored THEN inst.n ELSE 0]))
    BY <1>6 DEF Verify
  <2>2. QED BY <1>6, <2>1 DEF Names
<1>7. CASE ReclaimPending \/ RemoveRoot \/ \E h \in retired : ReclaimRetired(h)
  BY <1>7 DEF ReclaimPending, ReclaimRetired, RemoveRoot
<1>8. CASE Fetch \/ Claim \/ Preserve \/ Setup \/ BuildImage \/ CheckCompatible \/ Retire \/ SwapLink \/ SaveRecord
           \/ ActivateLaunchers \/ ReleaseAnchor \/ Cleanup
  BY <1>1, <1>8 DEF Fetch, Claim, Preserve, Setup, BuildImage, CheckCompatible, Retire, SwapLink, SaveRecord,
                    ActivateLaunchers, ReleaseAnchor, Cleanup
<1>9. CASE Succeed \/ Fails \/ Rollback \/ CrashInstaller \/ \E r \in Releases : Begin(r)
  BY <1>1, <1>9 DEF Succeed, Fails, Rollback, CrashInstaller, Begin
<1>10. CASE StartSat \/ LockForReconcile \/ EndReconcile \/ AdmitTask \/ EndSat \/ CrashSat \/ DropContainer
  BY <1>1, <1>10 DEF StartSat, LockForReconcile, EndReconcile, AdmitTask, EndSat, CrashSat, DropContainer
<1>11. CASE CheckForUninstall \/ LockForUninstall \/ RemoveLaunchers \/ RemoveLink \/ RemoveRecord \/ CrashUninstaller
            \/ UNCHANGED vars
  BY <1>1, <1>11 DEF CheckForUninstall, LockForUninstall, RemoveLaunchers, RemoveLink, RemoveRecord, CrashUninstaller, vars
<1>12. QED
  BY <1>3, <1>4, <1>5, <1>6, <1>7, <1>8, <1>9, <1>10, <1>11 DEF Next

(* Removing a reference takes no image another reference names. *)
LEMMA UntagKeeps ==
    ASSUME NEW i, NEW t, NEW a, NEW present, NEW j \in present, Tagged(j, t, a)
    PROVE  j \in AfterUntag(i, t, a, present)
  BY DEF AfterUntag

(* Nor does releasing a rollback reference. *)
LEMMA ReleaseKeeps ==
    ASSUME TaggedPresent, NEW n
    PROVE  \A i \in Range(tag) \cup Range(Released(n)) : i # None => i \in AfterRelease(n)
<1>1. Range(Released(n)) \subseteq Range(anchors) \cup {None}
  BY DEF Range, Released
<1>2. SUFFICES ASSUME NEW i \in Range(tag) \cup Range(Released(n)), i # None PROVE i \in AfterRelease(n)
  OBVIOUS
<1>3. i \in images
  BY <1>1, <1>2 DEF TaggedPresent
<1>4. QED BY <1>2, <1>3, UntagKeeps DEF AfterRelease, Tagged

(* Nor does reclaiming what a handoff names. *)
LEMMA ReclaimKeeps ==
    ASSUME TaggedPresent, NEW h, NEW lines, Len(lines) \in Nat, NEW retained, ReclaimLines(h, lines, retained)
    PROVE  TaggedPresent'
<1>1. /\ anchors' = Unanchored(h) /\ tag' = tag
      /\ images' = Remaining(h, lines, retained)[Len(lines)]
  BY DEF ReclaimLines
<1>2. \A i \in Range(tag) \cup Range(Unanchored(h)) : i # None => i \in Offered(h)
  BY ReleaseKeeps DEF Unanchored, TaggedPresent, Offered
<1>3. SUFFICES ASSUME NEW i \in Range(tag) \cup Range(Unanchored(h)), i # None PROVE i \in images'
  BY <1>1 DEF TaggedPresent
<1>4. QED BY <1>1, <1>2, <1>3, RemainingFits DEF Tagged

(* Nor does _restore_sandbox_image_transition, which finds the previous image
   under the tag or under its rollback reference. *)
LEMMA RestoreKeeps ==
    ASSUME TypeOK, TaggedPresent, inst.target \in Releases, inst.n \in 1..MaxInstalls, Restorable, RestoreImage
    PROVE  TaggedPresent'
<1> DEFINE back == [tag EXCEPT ![Ref] = inst.prev]
           dropped == IF inst.prev = None /\ tag[Ref] # None THEN AfterUntag(tag[Ref], back, anchors, images) ELSE images
           gone == IF tag[Ref] \in {None, inst.prev} \/ ~Owned(tag[Ref], Ref) THEN {}
                   ELSE Removable(Lineage(tag[Ref], images), ToSet(inst.line), back, anchors, dropped)
<1>1. /\ tag' = back /\ anchors' = Released(inst.n)
      /\ images' = (dropped \ gone) \ (IF anchors[inst.n] = None THEN {}
                                       ELSE {anchors[inst.n]} \ (Range(back) \cup Range(Released(inst.n))))
  BY DEF RestoreImage
<1>2. Ref \in References
  BY DEF Ref, References
<1>3. inst.prev = None \/ inst.prev \in Range(tag) \cup Range(anchors) 
  <2>1. CASE tag[Ref] = inst.prev
    BY <1>2, <2>1 DEF TypeOK, Range
  <2>2. CASE anchors[inst.n] = inst.prev
    BY <2>2 DEF TypeOK, Range, Restorable
  <2>3. QED BY <2>1, <2>2 DEF Restorable
<1>4. Range(back) \subseteq Range(tag) \cup {inst.prev} /\ Range(Released(inst.n)) \subseteq Range(anchors) \cup {None}
  BY DEF Range, Released, TypeOK
<1> HIDE DEF back, dropped, gone
<1>5. SUFFICES ASSUME NEW i \in Range(back) \cup Range(Released(inst.n)), i # None PROVE i \in images'
  BY <1>1 DEF TaggedPresent
<1>6. i \in images /\ Tagged(i, back, anchors)
  BY <1>3, <1>4, <1>5 DEF TaggedPresent, Tagged
<1>7. i \in dropped
  BY <1>6, UntagKeeps DEF dropped
<1>8. i \notin gone
  BY <1>6, <1>7, RemovedUntagged DEF gone
<1>9. QED BY <1>1, <1>5, <1>7, <1>8

(* So what a reference names is there after every step. *)
LEMMA TaggedStep == IInv /\ [Next]_vars => TaggedPresent'
<1> SUFFICES ASSUME IInv, [Next]_vars PROVE TaggedPresent'
  OBVIOUS
<1> USE DEF IInv
<1>1. CASE Preserve
  <2>1. tag' = tag /\ images' = images /\ Range(anchors') \subseteq Range(anchors) \cup {tag[Ref]}
    BY <1>1 DEF Preserve, Range, TypeOK
  <2>2. Ref \in References
    BY <1>1 DEF Preserve, At, CandidateFits, Ref, References
  <2>3. tag[Ref] \in Range(tag)
    BY <2>2 DEF TypeOK, Range
  <2>4. QED BY <2>1, <2>3 DEF TaggedPresent
<1>2. CASE BuildImage
  <2>1. /\ anchors' = anchors /\ images' = images \cup ToSet(Lineage(Build[inst.target], Images))
        /\ Range(tag') \subseteq Range(tag) \cup {Build[inst.target]}
    BY <1>2 DEF BuildImage, Range, TypeOK
  <2>2. Build[inst.target] \in Images
    BY <1>2, InstallAssumption DEF BuildImage, At, CandidateFits
  <2>3. Build[inst.target] \in ToSet(Lineage(Build[inst.target], Images))
    BY <2>2, LineageStarts
  <2>4. QED BY <2>1, <2>3 DEF TaggedPresent
<1>3. CASE ReleaseAnchor
  <2>1. tag' = tag
    BY <1>3 DEF ReleaseAnchor, docker
  <2>2. \/ anchors' = anchors /\ images' = images
        \/ anchors' = Released(inst.n) /\ images' = AfterRelease(inst.n)
    BY <1>3 DEF ReleaseAnchor, docker
  <2>3. QED BY <2>1, <2>2, ReleaseKeeps DEF TaggedPresent
<1>4. CASE Cleanup
  <2>1. tag' = tag /\ anchors' = anchors
        /\ \/ images' = images
           \/ images' = images \ Removable(inst.line, ToSet(Lineage(inst.cand, images)), tag, anchors, images)
    BY <1>4 DEF Cleanup
  <2>2. \A i \in Range(tag) \cup Range(anchors) : i # None =>
            i \notin Removable(inst.line, ToSet(Lineage(inst.cand, images)), tag, anchors, images)
    BY RemovedUntagged DEF TaggedPresent, Tagged
  <2>3. QED BY <2>1, <2>2 DEF TaggedPresent
<1>5. CASE Rollback
  <2>1. UNCHANGED docker \/ (Restorable /\ RestoreImage)
    BY <1>5 DEF Rollback, docker
  <2>2. inst.target \in Releases /\ inst.n \in 1..MaxInstalls
    BY <1>5 DEF Rollback, At, CandidateFits, ImageFits
  <2>3. CASE UNCHANGED docker
    BY <2>3 DEF docker, TaggedPresent
  <2>4. QED BY <2>1, <2>2, <2>3, RestoreKeeps
<1>6. CASE ReclaimPending \/ \E h \in retired : ReclaimRetired(h)
  BY <1>6, HandoffLines, ReclaimKeeps DEF TaskFits
<1>8. CASE UNCHANGED <<tag, anchors, images>>
  BY <1>8 DEF TaggedPresent
<1>9. CASE Stage \/ Fetch \/ Claim \/ Setup \/ Prepare \/ Finalize \/ Verify \/ \E r \in Releases : Begin(r)
  BY <1>8, <1>9 DEF Stage, Fetch, Claim, Setup, Prepare, Finalize, Verify, Begin, docker
<1>10. CASE CheckCompatible \/ Retire \/ SwapLink \/ SaveRecord \/ ActivateLaunchers \/ Succeed \/ Fails \/ CrashInstaller
  BY <1>8, <1>10 DEF CheckCompatible, Retire, SwapLink, SaveRecord, ActivateLaunchers, Succeed, Fails, CrashInstaller, docker
<1>11. CASE StartSat \/ LockForReconcile \/ EndReconcile \/ AdmitTask \/ EndSat \/ CrashSat \/ DropContainer
  BY <1>8, <1>11 DEF StartSat, LockForReconcile, EndReconcile, AdmitTask, EndSat, CrashSat, DropContainer, docker
<1>12. CASE CheckForUninstall \/ LockForUninstall \/ RemoveLaunchers \/ RemoveLink \/ RemoveRecord \/ RemoveRoot \/ CrashUninstaller \/ UNCHANGED vars
  BY <1>8, <1>12 DEF CheckForUninstall, LockForUninstall, RemoveLaunchers, RemoveLink, RemoveRecord, RemoveRoot, CrashUninstaller, docker, vars
<1>13. QED
  BY <1>1, <1>2, <1>3, <1>4, <1>5, <1>6, <1>9, <1>10, <1>11, <1>12 DEF Next

(* While a task holds the lock nobody moves the link or removes an image. *)
LEMMA TaskStep == IInv /\ [Next]_vars => TaskFits'
<1> SUFFICES ASSUME IInv, [Next]_vars PROVE TaskFits'
  OBVIOUS
<1> USE DEF IInv, TypeOK, LockHeld, TaskFits, app, docker, handoffs, state, counts
<1>1. CASE UNCHANGED sat /\ (sat.pc # "task" \/ UNCHANGED <<link, images>>)
  BY <1>1
<1>2. CASE inst.pc # "idle" /\ UNCHANGED sat
  BY <1>1, <1>2
<1>3. CASE Stage \/ Fetch \/ Claim \/ Preserve \/ Setup \/ Prepare \/ BuildImage \/ Finalize \/ Verify
  BY <1>2, <1>3 DEF Stage, Fetch, Claim, Preserve, Setup, Prepare, BuildImage, Finalize, Verify, At
<1>4. CASE CheckCompatible \/ Retire \/ SwapLink \/ SaveRecord \/ ActivateLaunchers \/ ReleaseAnchor \/ Cleanup
  BY <1>2, <1>4 DEF CheckCompatible, Retire, SwapLink, SaveRecord, ActivateLaunchers, ReleaseAnchor, Cleanup, At
<1>5. CASE Succeed \/ Fails \/ Rollback \/ CrashInstaller
  BY <1>2, <1>5 DEF Succeed, Fails, Rollback, CrashInstaller, At
<1>6. CASE StartSat \/ LockForReconcile \/ EndReconcile \/ EndSat \/ CrashSat
  BY <1>6 DEF StartSat, LockForReconcile, EndReconcile, EndSat, CrashSat, MaybeRelease
<1>7. CASE AdmitTask
  <2>1. sat.release \in Releases /\ tag[Reference[sat.release]] # None
    BY <1>7 DEF AdmitTask
  <2>2. tag[Reference[sat.release]] \in images
    BY <2>1 DEF TaggedPresent, References, Range
  <2>3. QED BY <1>7, <2>1, <2>2 DEF AdmitTask
<1>8. CASE DropContainer \/ ReclaimPending \/ \E h \in retired : ReclaimRetired(h)
  BY <1>1, <1>8 DEF DropContainer, ReclaimPending, ReclaimRetired
<1>9. CASE CheckForUninstall \/ LockForUninstall \/ RemoveLaunchers \/ RemoveLink \/ RemoveRecord \/ RemoveRoot \/ CrashUninstaller
  BY <1>1, <1>9 DEF CheckForUninstall, LockForUninstall, RemoveLaunchers, RemoveLink, RemoveRecord, RemoveRoot, CrashUninstaller
<1>10. CASE UNCHANGED vars \/ \E r \in Releases : Begin(r)
  BY <1>1, <1>10 DEF vars, Begin
<1>11. QED BY <1>3, <1>4, <1>5, <1>6, <1>7, <1>8, <1>9, <1>10 DEF Next

(* Every step keeps the invariant. *)
LEMMA StepInv == IInv /\ [Next]_vars => IInv'
  BY HandoffStep, TypeStep, LockStep, SelectionStep, CandidateStep, ImageStep, TaggedStep, TaskStep DEF IInv

-----------------------------------------------------------------------------
(* Theorems *)

(* However many installations, faults and kills there are, the lock tells who is
   at work, the selected release and the one a rollback selects can be used, and
   what a reference of Docker names is there. *)
THEOREM InstallInvariant == Spec => []IInv
<1>1. QED BY InitInv, StepInv, PTL DEF Spec

(* The link selects a release that runs, and an admitted task keeps link,
   directory and image and reads everything the tasks before it left
   (managed_foreground_task_lease, _inspect_state_with_candidate). *)
THEOREM ReleaseStaysUsable == Spec => []ReleaseUsable
<1>1. IInv => ReleaseUsable
  BY InstallAssumption DEF IInv, SelectionUsable, Usable, TaskFits, ReleaseUsable
<1>2. QED BY <1>1, InstallInvariant, PTL

(* An installation that ends with an error leaves link and record as it found
   them, and the image under its tag unless it reports that the rollback failed
   (_activate_staged_application_locked, _restore_sandbox_image_transition). *)
THEOREM FailureIsUndone == Spec => FailureRestores
<1> DEFINE Undone == At("failing") /\ inst'.pc = "idle" /\ inst' # Idle =>
                        /\ link' = inst.link /\ record' = inst.record
                        /\ inst'.outcome # "rollback_failed" => tag'[Ref] = inst.tagged
<1>1. IInv /\ [Next]_vars => [Undone]_vars
  <2> SUFFICES ASSUME IInv, Next, At("failing"), inst'.pc = "idle", inst' # Idle PROVE Undone
    BY DEF vars
  <2>1. Rollback
    <3> USE DEF At, IInv, TypeOK, LockHeld, Installers, Step
    <3>1. ~(\E r \in Releases : Begin(r)) /\ ~CrashInstaller
      BY DEF Begin, CrashInstaller
    <3>2. ~(Stage \/ Fetch \/ Claim \/ Preserve \/ Setup \/ Prepare \/ BuildImage \/ Finalize \/ Verify)
      BY DEF Stage, Fetch, Claim, Preserve, Setup, Prepare, BuildImage, Finalize, Verify
    <3>3. ~(CheckCompatible \/ Retire \/ SwapLink \/ SaveRecord \/ ActivateLaunchers \/ ReleaseAnchor \/ Cleanup)
      BY DEF CheckCompatible, Retire, SwapLink, SaveRecord, ActivateLaunchers, ReleaseAnchor, Cleanup
    <3>4. ~(Succeed \/ Fails)
      BY DEF Succeed, Fails
    <3>5. inst' # inst
      OBVIOUS
    <3>6. ~(StartSat \/ LockForReconcile \/ EndReconcile \/ AdmitTask \/ EndSat \/ CrashSat \/ DropContainer
            \/ ReclaimPending \/ \E h \in retired : ReclaimRetired(h))
      BY <3>5 DEF StartSat, LockForReconcile, EndReconcile, AdmitTask, EndSat, CrashSat, DropContainer,
                  ReclaimPending, ReclaimRetired
    <3>7. ~(CheckForUninstall \/ LockForUninstall \/ RemoveLaunchers \/ RemoveLink \/ RemoveRecord \/ RemoveRoot \/ CrashUninstaller)
      BY <3>5 DEF CheckForUninstall, LockForUninstall, RemoveLaunchers, RemoveLink, RemoveRecord, RemoveRoot, CrashUninstaller
    <3>8. QED BY <3>1, <3>2, <3>3, <3>4, <3>6, <3>7 DEF Next
  <2>2. link' = inst.link /\ record' = inst.record
    BY <2>1 DEF Rollback, RestoreRelease
  <2>3. Ref \in References /\ (inst.armed => inst.prev = inst.tagged) /\ (~inst.armed => tag[Ref] = inst.tagged)
    BY <2>1 DEF Rollback, At, IInv, CandidateFits, ImageFits, Ref, References
  <2>4. ASSUME inst'.outcome # "rollback_failed" PROVE tag'[Ref] = inst.tagged
    <3>1. ~(NeedsRestore /\ ~Restorable)
      BY <2>1, <2>4, InstallerReports DEF Rollback, Outcomes
    <3>2. CASE NeedsRestore
      <4>1. tag' = [tag EXCEPT ![Ref] = inst.prev]
        BY <2>1, <3>1, <3>2 DEF Rollback, RestoreImage
      <4>2. QED BY <2>3, <3>2, <4>1 DEF NeedsRestore, IInv, TypeOK
    <3>3. CASE ~NeedsRestore
      <4>1. tag' = tag
        BY <2>1, <3>3 DEF Rollback, docker
      <4>2. QED BY <2>3, <3>3, <4>1 DEF NeedsRestore
    <3>4. QED BY <3>2, <3>3
  <2>5. QED BY <2>2, <2>4
<1>2. QED BY <1>1, InstallInvariant, PTL DEF Spec, FailureRestores
=============================================================================
