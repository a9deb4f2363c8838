------------------------- MODULE ClusterInvariants -------------------------
(***************************************************************************)
(* Why the properties of ClusterProperties hold: what is true of the calls *)
(* of the sidecars, of the operations of the cloud and of the volumes, in  *)
(* conjunctions that every step keeps.  ClusterProofs, ProvisionProofs,    *)
(* AttachProofs and ContractProofs prove them.                             *)
(***************************************************************************)
EXTENDS ClusterProperties

-----------------------------------------------------------------------------
(* In every cluster *)

\* Two calls the sidecars have under way are never ones that exclude each other
CallsAreQueued ==
    \A r, q \in Requests :
       /\ pc[r] # "idle" /\ pc[q] # "idle"
       /\ SameSubject(r, q)
       /\ OneCallPerVolume \/ SameQueue(r, q)
       => r = q

\* An operation that is accepted, awaited or given up, is about the disk of its request
OpsKnowTheirDisk ==
    \A o \in ops :
       IF o[1].kind = "create"
       THEN /\ disks[o[2]].state = "creating"
            /\ disks[o[2]].name = o[1].name
            /\ \A p \in ops : p[1].kind = "create" /\ p[2] = o[2] => p = o
       ELSE OnDisk(o[1]) /\ o[2] = o[1].disk

\* Only a disk that is ready is attached, and only to an instance that is there
AttachedIsThere ==
    \A d \in DiskIds :
       /\ disks[d].state # "ready" => disks[d].at = {}
       /\ \A n \in disks[d].at : inst[n] # "gone"

CloudInv == OpsKnowTheirDisk /\ AttachedIsThere

-----------------------------------------------------------------------------
(* Provisioning *)

\* d is the disk of that name, or was: there is no other
DiskOf(name, d) ==
    /\ d \in DiskIds
    /\ disks[d].state # "none" /\ disks[d].name = name
    /\ Named(name) \subseteq {d}

VolumesKnowTheirDisk ==
    \A name \in Names :
       IF pv[name].phase = "none" THEN pv[name].disk = NoDisk
                                  ELSE DiskOf(name, pv[name].disk)

\* The disk a CreateVolume goes by, if any
Created(r) ==
    CASE pc[r] = "wait" -> {local[r].disk}
      [] pc[r] = "answered" /\ res[r].code = "ok" -> {res[r].disk}
      [] OTHER -> {}

\* What ListDisks found is still so when CreateDisk creates (controller.go:144-222)
CreationsKnowTheirDisk ==
    \A r \in Requests : r.kind = "create" /\ pc[r] # "idle" =>
       /\ pv[r.name].phase = "none"
       /\ pc[r] = "send" => Named(r.name) = {}
       /\ \A d \in Created(r) : DiskOf(r.name, d)

OneDiskOfAName ==
    \A d, e \in DiskIds : Exists(d) /\ Exists(e) /\ disks[d].name = disks[e].name => d = e

UnderWay(r) == pc[r] # "idle" \/ \E o \in ops : o[1] = r

\* Only a volume's disk is deleted or made larger; where it is deleted the claim is gone
OnVolumesOnly ==
    \A r \in Requests : r.kind \in {"delete", "expand"} /\ UnderWay(r) =>
       \E name \in Names :
          /\ pv[name].disk = r.disk
          /\ r.kind = "delete" => pv[name].phase \in {"released", "deleted"}

\* DeleteVolume is answered OK, or is about to be
Deleted(r) ==
    \/ pc[r] = "wait" /\ local[r].outcome \in {"done", "notFound"}
    \/ pc[r] = "answered" /\ res[r].code = "ok"

DeletedIsGone ==
    /\ \A r \in Requests : r.kind = "delete" /\ Deleted(r) => ~Exists(r.disk)
    /\ \A name \in Names : pv[name].phase = "deleted" => ~Exists(pv[name].disk)

ProvisionInv ==
    /\ VolumesKnowTheirDisk
    /\ CreationsKnowTheirDisk
    /\ OneDiskOfAName
    /\ OnVolumesOnly
    /\ DeletedIsGone

(***************************************************************************)
(* No call is given up: none fails on its way, and the process goes on.    *)
(* (A call of CreateSnapshot ends the process.)                            *)
(***************************************************************************)
Patient ==
    /\ Disruptions \cap {"callFails", "restart"} = {}
    /\ \A r \in Requests : r.kind # "snapshot"

\* Then every operation is awaited by its call, also the creation of a disk
OpsAreAwaited ==
    /\ \A o \in ops : Awaited(o)
    /\ \A d \in DiskIds : disks[d].state = "creating" =>
          \E r \in Requests : r.kind = "create" /\ <<r, d>> \in ops

\* The disk is there for good, whatever operations may fail
Lasts(d) == IF "opFails" \in Disruptions THEN disks[d].state = "ready" ELSE Exists(d)

(***************************************************************************)
(* What makes PVTruthful inductive: an answer tells the truth from the     *)
(* moment it is decided until it is recorded.                              *)
(***************************************************************************)
TruthInv ==
    /\ \A name \in Names : pv[name].phase = "bound" =>
          LET d == pv[name].disk IN
          Lasts(d) /\ pv[name].zone = disks[d].zone /\ pv[name].size <= disks[d].size
    /\ \A r \in Requests : r.kind = "create" =>
          /\ pc[r] = "wait" =>
                LET d == local[r].disk IN
                /\ r.zone = disks[d].zone /\ ExtractedSize(r.range) <= disks[d].size
                /\ local[r].outcome = "done" => Lasts(d)
          /\ pc[r] = "answered" /\ res[r].code = "ok" =>
                LET d == res[r].disk IN
                Lasts(d) /\ res[r].zone = disks[d].zone /\ res[r].size <= disks[d].size
    /\ \A r \in Requests : r.kind = "expand" =>
          /\ pc[r] = "wait" /\ local[r].outcome = "done" =>
                ExtractedSize(r.range) <= disks[r.disk].size
          /\ pc[r] = "answered" /\ res[r].code = "ok" => res[r].size <= disks[r.disk].size

\* A CreateVolume that has not failed goes on with arguments that were accepted
RequestInv ==
    \A r \in Requests : r.kind = "create" =>
       /\ pc[r] \notin {"idle", "answered"} \/ Succeeds(r) => CreateAccepted(r)
       /\ \A d \in Created(r) : SameVolume(r, disks[d])

-----------------------------------------------------------------------------
(* Resizing *)

Resized(d) == \E r \in Requests : r.kind = "expand" /\ r.disk = d /\ Succeeds(r)

\* The recorded size is the one of the disk, but for an answer still on its way
SizesAreRecorded ==
    \A name \in Names : pv[name].phase # "none" =>
       pv[name].size = disks[pv[name].disk].size \/ Resized(pv[name].disk)

CreationsAreExact ==
    \A r \in Requests : r.kind = "create" /\ pc[r] = "answered" /\ res[r].code = "ok" =>
       res[r].size = disks[res[r].disk].size

ExpansionsAreOwed ==
    \A r \in Requests : r.kind = "expand" /\ pc[r] # "idle" =>
       /\ r.disk \in owed
       /\ pc[r] = "getDisk" => \E name \in Names : /\ pv[name].disk = r.disk
                                                   /\ pv[name].size < ExtractedSize(r.range)
       /\ pc[r] = "wait" /\ local[r].outcome = "done" =>
             disks[r.disk].size = ExtractedSize(r.range)
       /\ pc[r] = "answered" /\ res[r].code = "ok" =>
             res[r].size = disks[r.disk].size /\ r.disk \notin resizeLocks

(***************************************************************************)
(* What makes MarkerMeansOwed inductive: a resize that is repeated does    *)
(* not get the early OK (controller.go:590), which leaves the marker,      *)
(* because the resizer knows the size of the disk.                         *)
(***************************************************************************)
MarkerInv ==
    /\ MarkerMeansOwed
    /\ SizesAreRecorded
    /\ CreationsAreExact
    /\ ExpansionsAreOwed

-----------------------------------------------------------------------------
(* Attaching *)

(***************************************************************************)
(* What makes UnpublishedMeansDetached inductive.                          *)
(***************************************************************************)
DetachInv ==
    /\ CallIsWanted
    /\ \A r \in Requests : r.kind = "unpublish" /\ Succeeds(r) => r.node \notin disks[r.disk].at
    /\ UnpublishedMeansDetached

\* The cloud is asked for one thing at a time
OneAtATime ==
    \A r \in Requests :
       pc[r] = "send" /\ OnDisk(r) /\ Answer(r, r.disk) = "done" => ~Busy(r.disk)

\* The strict cloud keeps calls about a volume apart, or the sidecars do
Exclusive == StrictCloud \/ (OneCallPerVolume /\ Patient)

OneNode == \A d \in DiskIds : \A m, n \in disks[d].at : m = n

(***************************************************************************)
(* What makes OneNode inductive without the help of the cloud: from the    *)
(* decision on until the disk is attached nothing else happens to it.      *)
(***************************************************************************)
ExclusionInv ==
    /\ OneNode
    /\ \A r \in Requests : r.kind = "publish" =>
          /\ pc[r] = "getInstance" => disks[r.disk].at \subseteq local[r].at
          /\ pc[r] = "send" => disks[r.disk].at = {}
          /\ pc[r] = "wait" /\ local[r].outcome = "running" => disks[r.disk].at = {}

=============================================================================
