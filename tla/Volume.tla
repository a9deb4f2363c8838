------------------------------- MODULE Volume -------------------------------
(***************************************************************************)
(* Both halves of the driver on the same volumes: the controller service   *)
(* with its sidecars (Cluster), and the node service with its kubelet      *)
(* (Kubelet) on one of the nodes, Here.  The other nodes are only places a *)
(* disk may be attached to.                                                *)
(*                                                                         *)
(* What joins them is not code of the repository but what the driver is    *)
(* built on (deploy/1.17):                                                 *)
(*   - the device of a disk is on a node while the cloud has it attached,  *)
(*     and has the size of the disk;                                       *)
(*   - a volume is published on Here for a pod that runs there, and staged *)
(*     when ControllerPublishVolume has been answered OK;                  *)
(*   - it is unpublished from Here when no pod wants it there and the      *)
(*     kubelet has NodeUnpublishVolume and NodeUnstageVolume answered OK;  *)
(*   - an OK of ControllerExpandVolume makes the kubelet expand.           *)
(***************************************************************************)
EXTENDS Cluster

CONSTANTS
    Here,
    Pods, Uses, Goroutines, NoCall,  \* as in Node
    VolumeModes,                     \* the modes of Node considered
    NodeDisruptions                  \* as Disruptions, on the node

ASSUME VolumeAssumption ==
    /\ Here \in Nodes
    /\ Uses \in [Pods -> DiskIds]

VARIABLES
    mode, capability, content, fsSize, mounts, call, nodePc, nodeRes,  \* as in Node
    pod, staged, published, awaited, expanding, written                \* as in Kubelet

Device == [d \in DiskIds |-> IF Here \in disks[d].at THEN "present" ELSE "absent"]
Capacity == [d \in DiskIds |-> disks[d].size]

N == INSTANCE Kubelet WITH
        Volumes <- DiskIds, Disruptions <- NodeDisruptions,
        device <- Device, capacity <- Capacity, pc <- nodePc, res <- nodeRes

controllerSide == <<computeVars, controllerVars, sidecarVars>>
ownNodeVars == <<mode, capability, content, fsSize, mounts, call, nodePc, nodeRes,
                 pod, staged, published, awaited, written>>
volumeVars == <<controllerSide, ownNodeVars, expanding, disruptions>>

VolumeInit ==
    /\ Init /\ N!NodeInit /\ N!KubeletInit
    /\ mode \in [DiskIds -> VolumeModes]

-----------------------------------------------------------------------------
(* The attach/detach controller asks the kubelet's node what is in use *)

PublishWhereWanted(r) == IssuePublish(r) /\ (r.node = Here => N!Wanted(r.disk))
UnpublishUnused(r)    == IssueUnpublish(r) /\ (r.node = Here => N!Unused(r.disk))

\* The claim has the new size, and its file system is to follow
TakeAnswer(r) ==
    /\ Receive(r)
    /\ expanding' = IF r.kind = "expand" /\ res[r].code = "ok"
                    THEN expanding \cup {r.disk} ELSE expanding

ControllerStep ==
    /\ \/ /\ \/ \E r \in Requests : \/ PublishWhereWanted(r) \/ UnpublishUnused(r)
                                    \/ IssueExpand(r) \/ Handle(r) \/ FailCall(r)
             \/ \E o \in Requests \X DiskIds : Work(o) \/ FailOp(o)
             \/ Restart
          /\ UNCHANGED expanding
       \/ \E r \in Requests : TakeAnswer(r)
    /\ UNCHANGED ownNodeVars

StageWhenAttached(g, d) == va[<<d, Here>>] = "attached" /\ N!Stage(g, d)

NodeSideStep ==
    /\ UNCHANGED controllerSide
    /\ \/ \E g \in Goroutines : N!Step(g) \/ N!Receive(g) \/ N!FailCommand(g)
       \/ \E d \in DiskIds, g \in Goroutines :
             StageWhenAttached(g, d) \/ N!Expand(g, d) \/ N!Unstage(g, d)
       \/ \E p \in Pods, g \in Goroutines : N!Publish(g, p) \/ N!Unpublish(g, p)
       \/ \E p \in Pods : N!StartPod(p) \/ N!DeletePod(p) \/ N!Write(p)
       \/ N!Restart \/ N!Reboot

VolumeNext == ControllerStep \/ NodeSideStep

VolumeSpec == VolumeInit /\ [][VolumeNext]_volumeVars

-----------------------------------------------------------------------------
(***************************************************************************)
(* While anything on the node mounts a volume, its disk is attached there  *)
(* and nowhere else: neither a detachment that was given up nor a          *)
(* publication elsewhere takes the disk from under a mount                 *)
(* (controller.go:410, 330-346 against node.go:197, 608-612).              *)
(***************************************************************************)
MountedMeansHeld == \A d \in DiskIds : N!MountedSomewhere(d) => disks[d].at = {Here}

(***************************************************************************)
(* A file system that the kubelet has nothing left to do about is as large *)
(* as ControllerExpandVolume said the volume is: an OK of either half      *)
(* (controller.go:614-620, node.go:574-581) is true of the other, in       *)
(* whatever order resizes, answers, attachments and pods come.             *)
(***************************************************************************)
SpaceAsRecorded ==
    \A p \in Pods, name \in Names :
       /\ published[p] = "yes" /\ pv[name].disk = Uses[p]
       /\ mode[Uses[p]] # "block" /\ Uses[p] \notin expanding
       => fsSize[Uses[p]] >= pv[name].size

\* As in Kubelet, with the cloud and the controller service behind the devices
PodSeesVolume     == N!PodSeesVolume
UnusedIsUnmounted == N!UnusedIsUnmounted
DataSurvives      == N!DataSurvives

=============================================================================
