-------------------------- MODULE MCManagedInstall --------------------------
(***************************************************************************)
(* Three releases; the third builds its image under another reference.     *)
(* The first two images share a parent layer.  The third release writes a  *)
(* newer schema; the second is a development build without a manifest.     *)
(* An earlier SAT may have left two images without a tag, on one layer;    *)
(* with these there is no failing command and no kill.                     *)
(***************************************************************************)
EXTENDS ManagedInstall, TLC

ThreeReleases == {"v1", "v2", "v3"}
MCReference == ("v1" :> "r1" @@ "v2" :> "r1" @@ "v3" :> "r2")
MCBuild == ("v1" :> "i1" @@ "v2" :> "i2" @@ "v3" :> "i3")
MCParent == ("i1" :> "layer" @@ "i2" :> "layer" @@ "i3" :> None @@ "layer" :> None
             @@ "o1" :> "old" @@ "o2" :> "old" @@ "old" :> None)
MCLegacy == ("o1" :> "r1" @@ "o2" :> "r1")
MCCurrent == ("v1" :> 1 @@ "v2" :> 1 @@ "v3" :> 2)
MCOldest == [r \in ThreeReleases |-> 1]
LegacyUndisturbed == "old" \in images => faults = 0 /\ crashes = 0
StableReleases == {"v1", "v3"}
=============================================================================
