------------------------ MODULE ClusterProperties ------------------------
(***************************************************************************)
(* What is to hold of the controller service in a cluster.  Which of it    *)
(* holds against which cloud, sidecars and disruptions is the subject of   *)
(* the runs and of the theorems, see ClusterInvariants.                    *)
(***************************************************************************)
EXTENDS Cluster

(* Provisioning *)

(***************************************************************************)
(* A bound PersistentVolume tells the truth: its disk exists, carries its  *)
(* name, is in its zone and is not smaller than recorded.  CreateVolume    *)
(* answers from the disk it found or from the arguments of the call        *)
(* (controller.go:191-204, 229-242), ControllerExpandVolume from either.   *)
(***************************************************************************)
PVTruthful ==
    \A name \in Names : pv[name].phase = "bound" =>
       LET disk == disks[pv[name].disk] IN
       /\ Exists(pv[name].disk)
       /\ disk.name = name
       /\ disk.zone = pv[name].zone
       /\ pv[name].size <= disk.size

(***************************************************************************)
(* An OK of CreateVolume is for what this call asked for, whoever created  *)
(* the disk: the block size is the requested one and the size is within    *)
(* the requested range (controller.go:174-188).                            *)
(***************************************************************************)
CreateAnswersRequest ==
    \A r \in Requests :
       r.kind = "create" /\ pc[r] = "answered" /\ res[r].code = "ok" =>
          LET disk == disks[res[r].disk] IN
          /\ EffectiveBlockSize(disk) = BlockSizeOf(r.blockSize)
          /\ RequiredSet(r.range) => r.range.required <= disk.size
          /\ LimitSet(r.range) => disk.size <= r.range.limit

(***************************************************************************)
(* CreateVolume is idempotent (controller.go:89): however often it is      *)
(* repeated for a name, after whatever failures, there is one disk of that *)
(* name.                                                                   *)
(***************************************************************************)
OneDiskPerName == \A name \in Names : Cardinality(Named(name)) <= 1

(***************************************************************************)
(* Once DeleteVolume was answered OK nothing of the volume is left in the  *)
(* cloud: no attempt to create it that was given up comes to an end later  *)
(* and leaves a disk that nobody knows.                                    *)
(***************************************************************************)
NoLeakedDisk == \A name \in Names : pv[name].phase = "deleted" => Named(name) = {}

(***************************************************************************)
(* A volume that is asked for is there in the end: a repeated CreateVolume *)
(* finds the disk of an attempt that was given up and accepts it.          *)
(***************************************************************************)
CreateConverges == \A name \in Names : pv[name].phase = "none" ~> pv[name].phase = "bound"

(* Attaching *)

(***************************************************************************)
(* A disk is attached to one instance at most.  PublishGetInstance decides *)
(* on attachments read one call earlier (controller.go:313-346).           *)
(***************************************************************************)
SingleAttachment == \A d \in DiskIds : Cardinality(disks[d].at) <= 1

(***************************************************************************)
(* Where ControllerPublishVolume was answered OK the disk stays attached   *)
(* until ControllerUnpublishVolume is called: no detachment that was given *)
(* up earlier takes the disk from under a running pod.                     *)
(***************************************************************************)
PublishedStaysAttached ==
    \A d \in DiskIds, n \in Nodes :
       va[<<d, n>>] = "attached" => n \in disks[d].at \/ inst[n] = "gone"

(***************************************************************************)
(* Where the attacher holds nothing, the disk is not attached: an OK of    *)
(* ControllerUnpublishVolume (controller.go:395-398: "assuming Disk is     *)
(* detached it's not attached to any Instance") is true for good.          *)
(***************************************************************************)
UnpublishedMeansDetached ==
    \A d \in DiskIds, n \in Nodes : va[<<d, n>>] = "none" => n \notin disks[d].at

(* Resizing *)

(***************************************************************************)
(* A volume is kept from being published ("Resize required, not            *)
(* publishing", controller.go:309) only while its resize is outstanding.   *)
(***************************************************************************)
MarkerMeansOwed == resizeLocks \subseteq owed

(***************************************************************************)
(* A resize that is asked for is done in the end, although the volume is   *)
(* in use: when the pod goes, the marker keeps the volume from the next    *)
(* one until the resizer has had its turn (controller.go:308, 601, 606).   *)
(* A restart forgets the marker (driver.go:185), which delays the resize   *)
(* only; a disk that an abandoned attachment left behind is excepted.      *)
(***************************************************************************)
ResizeGetsItsTurn ==
    []UnpublishedMeansDetached => \A d \in DiskIds : d \in owed ~> d \notin owed

-----------------------------------------------------------------------------
(* Why PublishedStaysAttached holds: an inductive invariant *)

\* The cloud works on one thing at a time
OneOpPerDisk ==
    \A o \in ops :
       /\ \A p \in ops : o[2] = p[2] => o = p
       /\ Exists(o[2])
       /\ o[1].kind # "create" => o[2] = o[1].disk

\* A detachment goes on, awaited or given up, only where it is still wanted
DetachIsWanted ==
    \A o \in ops : o[1].kind = "unpublish" =>
       \/ inst[o[1].node] = "gone"
       \/ o[1].node \in disks[o[1].disk].at /\ va[Attachment(o[1])] = "detaching"

AboutAttachment(r) == r.kind \in {"publish", "unpublish"}

\* The attacher has one call at a time for an attachment, and it is the wanted one
CallIsWanted ==
    \A r \in Requests : AboutAttachment(r) /\ pc[r] # "idle" =>
       /\ va[Attachment(r)] = IF r.kind = "publish" THEN "attaching" ELSE "detaching"
       /\ \A q \in Requests :
             AboutAttachment(q) /\ Attachment(q) = Attachment(r) /\ pc[q] # "idle" => q = r

Succeeds(r) ==
    \/ pc[r] = "wait" /\ local[r].outcome = "done"
    \/ pc[r] = "answered" /\ res[r].code = "ok"

\* The call is answered OK, or is about to be
Claims(r) ==
    \/ Succeeds(r)
    \/ r.kind = "publish" /\ pc[r] = "getInstance" /\ r.node \in local[r].at

\* The disk is attached there; no detachment from there goes on
ClaimHolds(r) ==
    \/ inst[r.node] = "gone"
    \/ r.kind = "publish" /\ r.node \in disks[r.disk].at
    \/ /\ r.kind = "unpublish"
       /\ \A o \in ops : ~(o[1].kind = "unpublish" /\ Attachment(o[1]) = Attachment(r))

ClaimsAreTrue == \A r \in Requests : AboutAttachment(r) /\ Claims(r) => ClaimHolds(r)

UnusedIsDetached == \A d \in DiskIds : disks[d].state = "none" => disks[d].at = {}

(***************************************************************************)
(* What makes PublishedStaysAttached inductive against the strict cloud.   *)
(* A detachment can outlive its call (operation_wrapper.go:36 gives up     *)
(* waiting), so it is not enough to look at the calls: as long as it runs, *)
(* no ControllerUnpublishVolume is answered OK, because the disk is still  *)
(* attached, the cloud accepts no second operation on it, and every error  *)
(* is passed on (controller.go:395-419).                                   *)
(***************************************************************************)
AttachInv ==
    /\ OneOpPerDisk
    /\ DetachIsWanted
    /\ CallIsWanted
    /\ ClaimsAreTrue
    /\ UnusedIsDetached
    /\ PublishedStaysAttached

-----------------------------------------------------------------------------
(* The contract *)

(***************************************************************************)
(* The volumes, the sizes and the holders that the cluster sees.  A node   *)
(* holds a volume from the OK of ControllerPublishVolume until             *)
(* ControllerUnpublishVolume is called or the instance is deleted.         *)
(***************************************************************************)
Service == INSTANCE VolumeService WITH
    volume <- [d \in DiskIds |-> CASE disks[d].state = "none" -> "unused"
                                   [] disks[d].state = "gone" -> "removed"
                                   [] OTHER -> "present"],
    size   <- [d \in DiskIds |-> disks[d].size],
    holder <- [d \in DiskIds |-> {n \in Nodes : va[<<d, n>>] = "attached" /\ inst[n] # "gone"}]

(***************************************************************************)
(* Handlers, operations and failures together keep that contract: nobody   *)
(* is granted a volume another node holds, a held volume is not removed,   *)
(* no volume shrinks and no id comes back.                                 *)
(***************************************************************************)
KeepsContract == Service!Spec

=============================================================================
