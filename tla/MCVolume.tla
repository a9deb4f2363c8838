------------------------------ MODULE MCVolume ------------------------------
(* One volume that pods use on one node while it is wanted on another. *)
EXTENDS MCCluster, Volume, TLC

CONSTANTS p1, p2, g1

BothUse == p1 :> d1 @@ p2 :> d1

\* The pods are alike
PodSymmetry == Permutations({p1, p2})

(***************************************************************************)
(* What NodeExpandVolume is told makes a difference to block volumes only  *)
(* (NodeExpandVolume in Node): without one, one of the two values will do. *)
(***************************************************************************)
OmittedForBlockOnly == capability = "omitted" => \E d \in DiskIds : N!IsBlock(d)

MCVolumeInit == VolumeInit /\ OmittedForBlockOnly

MCVolumeSpec == MCVolumeInit /\ [][VolumeNext]_volumeVars

=============================================================================
