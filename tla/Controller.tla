---------------------------- MODULE Controller ----------------------------
(***************************************************************************)
(* The controller service, driver/controller.go: one goroutine per gRPC    *)
(* call, each a sequence of calls to the Compute service.                  *)
(*                                                                         *)
(* A handler is cut where it waits for the cloud: between two calls to the *)
(* cloud it touches nothing but its own variables and the resize markers   *)
(* (driver/lock.go), whose methods are atomic.  An action is therefore one *)
(* call to the cloud with all the code up to the next one, and the entry   *)
(* action holds the code up to the first.  pc[r] is the call the goroutine *)
(* of request r makes next.                                                *)
(*                                                                         *)
(* A definition whose name ends in _With... or _Without... is a faulty     *)
(* variant of the one that follows it, see Sizing.                         *)
(***************************************************************************)
EXTENDS Compute

VARIABLES
    resizeLocks,  \* Driver.resizeLocks: the disks marked "resize required"
    pc,           \* where the goroutine of each request is
    local,        \* what it remembers across its calls to the cloud
    res           \* what it answered, until the sidecar has taken it

controllerVars == <<resizeLocks, pc, local, res>>

Steps == {"idle", "list", "getDisk", "getInstance", "send", "wait", "panic", "answered"}

(***************************************************************************)
(* disk: the disk being created.  at: Disk.InstanceIds as Disk.Get gave it.*)
(* outcome: of the operation waited for.                                   *)
(***************************************************************************)
Local == [disk : DiskIds \cup {NoDisk}, at : SUBSET Nodes,
          outcome : {"none", "running", "done", "notFound", "attached", "failed"}]
NoLocal == [disk |-> NoDisk, at |-> {}, outcome |-> "none"]

(***************************************************************************)
(* "ok", or "failed" for any error code: the sidecars repeat the call on   *)
(* every error.  disk, size and zone are those of the answered volume.     *)
(***************************************************************************)
Answers == [code : {"none", "ok", "failed"}, disk : DiskIds \cup {NoDisk},
            size : Int, zone : Zones \cup {NoZone}]
Volume(d, size, zone) == [code |-> "ok", disk |-> d, size |-> size, zone |-> zone]
Empty(code) == [code |-> code, disk |-> NoDisk, size |-> 0, zone |-> NoZone]
Ok       == Empty("ok")
Failed   == Empty("failed")
NoAnswer == Empty("none")

ControllerTypeOK ==
    /\ resizeLocks \subseteq DiskIds
    /\ pc \in [Requests -> Steps]
    /\ local \in [Requests -> Local]
    /\ res \in [Requests -> Answers]

\* NewDriver makes an empty set of markers: nothing of it is persisted
ControllerInit ==
    /\ resizeLocks = {}
    /\ pc = [r \in Requests |-> "idle"]
    /\ local = [r \in Requests |-> NoLocal]
    /\ res = [r \in Requests |-> NoAnswer]

-----------------------------------------------------------------------------
(* The markers.  Each method holds the mutex of the map. *)

PutVolId(d)    == resizeLocks' = resizeLocks \cup {d}
RemoveVolId(d) == resizeLocks' = resizeLocks \ {d}
VolIdExists(d) == d \in resizeLocks

-----------------------------------------------------------------------------
(* The moves of a goroutine *)

Goto(r, step) ==
    /\ pc' = [pc EXCEPT ![r] = step]
    /\ UNCHANGED <<local, res>>

Reply(r, answer) ==
    /\ pc' = [pc EXCEPT ![r] = "answered"]
    /\ local' = [local EXCEPT ![r] = NoLocal]
    /\ res' = [res EXCEPT ![r] = answer]

At(r, kind, step) == pc[r] = step /\ r.kind = kind

\* The disk that the operation of request r is about
Target(r) == IF r.kind = "create" THEN local[r].disk ELSE r.disk

\* The operation is accepted, or refused with the outcome
Wait(r, d, outcome) ==
    /\ pc' = [pc EXCEPT ![r] = "wait"]
    /\ local' = [local EXCEPT ![r] =
                   [disk |-> IF r.kind = "create" THEN d ELSE NoDisk, at |-> {},
                    outcome |-> IF outcome = "done" THEN "running" ELSE outcome]]
    /\ ops' = IF outcome = "done" THEN ops \cup {<<r, d>>} ELSE ops

EffectiveBlockSize(disk) ==
    IF disk.blockSize = 0 THEN DefaultBlockSize ELSE disk.blockSize

-----------------------------------------------------------------------------
(* CreateVolume *)

CreateAccepted(r) ==
    /\ BlockSizeValid(r.blockSize)
    /\ RangeAccepted(r.range, MaximumVolumeSize(BlockSizeOf(r.blockSize)))

\* the disk is created without looking for one of that name
CreateVolume_WithoutLookup(r) ==
    /\ At(r, "create", "idle")
    /\ IF CreateAccepted(r) THEN Goto(r, "send") ELSE Reply(r, Failed)
    /\ UNCHANGED <<resizeLocks, computeVars>>

CreateVolume(r) ==
    /\ At(r, "create", "idle")
    /\ IF CreateAccepted(r) THEN Goto(r, "list") ELSE Reply(r, Failed)
    /\ UNCHANGED <<resizeLocks, computeVars>>

\* the block size of the existing disk is not looked at
SameVolume_WithoutBlockSize(r, disk) == disk.size = ExtractedSize(r.range)

\* the block size of the existing disk is compared with the default one
SameVolume_WithDefaultBlockSize(r, disk) ==
    /\ disk.size = ExtractedSize(r.range)
    /\ EffectiveBlockSize(disk) = DefaultBlockSize

\* An existing disk is taken for the requested one
SameVolume(r, disk) ==
    /\ disk.size = ExtractedSize(r.range)
    /\ EffectiveBlockSize(disk) = BlockSizeOf(r.blockSize)

\* the answer has the zone of the call, not of the existing disk
ListDisks_WithRequestedZone(r) ==
    /\ At(r, "create", "list")
    /\ LET found == Named(r.name) IN
       \/ found = {} /\ Goto(r, "send")
       \/ \E d \in found :
             Reply(r, IF found = {d} /\ SameVolume(r, disks[d])
                      THEN Volume(d, disks[d].size, r.zone) ELSE Failed)
    /\ UNCHANGED <<resizeLocks, computeVars>>

ListDisks(r) ==
    /\ At(r, "create", "list")
    /\ LET found == Named(r.name) IN
       \/ found = {} /\ Goto(r, "send")
       \/ /\ found # {}
          /\ Reply(r, IF \E d \in found : found = {d} /\ SameVolume(r, disks[d])
                      THEN LET d == CHOOSE d \in found : TRUE
                           IN  Volume(d, disks[d].size, disks[d].zone)
                      ELSE Failed)
    /\ UNCHANGED <<resizeLocks, computeVars>>

CreateDisk(r) ==
    /\ At(r, "create", "send")
    /\ \/ /\ CanAllocate(r)
          /\ \E d \in DiskIds : Allocate(r, d) /\ Wait(r, d, "done")
          /\ UNCHANGED res
       \/ /\ ~CanAllocate(r)
          /\ Reply(r, Failed)
          /\ UNCHANGED <<disks, ops>>
    /\ UNCHANGED <<resizeLocks, inst>>

\* The zone of the answer is the one that was asked for, not the one of the disk
CreateDone(r) ==
    /\ At(r, "create", "wait") /\ local[r].outcome # "running"
    /\ Reply(r, IF local[r].outcome = "done"
                THEN Volume(local[r].disk, ExtractedSize(r.range), r.zone)
                ELSE Failed)
    /\ UNCHANGED <<resizeLocks, computeVars>>

-----------------------------------------------------------------------------
(* DeleteVolume *)

DeleteVolume(r) ==
    /\ At(r, "delete", "idle")
    /\ Goto(r, "send")
    /\ UNCHANGED <<resizeLocks, computeVars>>

\* every error is taken for "does not exist"
DeleteDone_WithAnyError(r) ==
    /\ At(r, "delete", "wait") /\ local[r].outcome # "running"
    /\ Reply(r, Ok)
    /\ UNCHANGED <<resizeLocks, computeVars>>

DeleteDone(r) ==
    /\ At(r, "delete", "wait") /\ local[r].outcome # "running"
    /\ Reply(r, IF local[r].outcome \in {"done", "notFound"} THEN Ok ELSE Failed)
    /\ UNCHANGED <<resizeLocks, computeVars>>

-----------------------------------------------------------------------------
(* ControllerPublishVolume *)

\* the marker is not looked at
ControllerPublishVolume_WithoutMarker(r) ==
    /\ At(r, "publish", "idle")
    /\ IF r.readonly THEN Reply(r, Failed) ELSE Goto(r, "getDisk")
    /\ UNCHANGED <<resizeLocks, computeVars>>

ControllerPublishVolume(r) ==
    /\ At(r, "publish", "idle")
    /\ IF r.readonly \/ VolIdExists(r.disk) THEN Reply(r, Failed) ELSE Goto(r, "getDisk")
    /\ UNCHANGED <<resizeLocks, computeVars>>

PublishGetDisk(r) ==
    /\ At(r, "publish", "getDisk")
    /\ \/ ~Exists(r.disk) /\ Reply(r, Failed)
       \/ /\ Exists(r.disk)
          /\ pc' = [pc EXCEPT ![r] = "getInstance"]
          /\ local' = [local EXCEPT ![r].at = disks[r.disk].at]
          /\ UNCHANGED res
    /\ UNCHANGED <<resizeLocks, computeVars>>

\* an attachment to whatever instance is taken for "already attached"
PublishGetInstance_WithAnyInstance(r) ==
    /\ At(r, "publish", "getInstance")
    /\ IF inst[r.node] = "gone" THEN Reply(r, Failed)
       ELSE IF local[r].at # {} THEN Reply(r, Ok)
       ELSE Goto(r, "send")
    /\ UNCHANGED <<resizeLocks, computeVars>>

\* an attachment to another instance is no reason to refuse
PublishGetInstance_WithoutExclusion(r) ==
    /\ At(r, "publish", "getInstance")
    /\ IF inst[r.node] = "gone" THEN Reply(r, Failed)
       ELSE IF r.node \in local[r].at THEN Reply(r, Ok)
       ELSE Goto(r, "send")
    /\ UNCHANGED <<resizeLocks, computeVars>>

\* Decides on the attachments read before this call
PublishGetInstance(r) ==
    /\ At(r, "publish", "getInstance")
    /\ IF inst[r.node] = "gone" THEN Reply(r, Failed)
       ELSE IF r.node \in local[r].at THEN Reply(r, Ok)
       ELSE IF local[r].at # {} THEN Reply(r, Failed)
       ELSE Goto(r, "send")
    /\ UNCHANGED <<resizeLocks, computeVars>>

PublishDone(r) ==
    /\ At(r, "publish", "wait") /\ local[r].outcome # "running"
    /\ Reply(r, IF local[r].outcome = "done" THEN Ok ELSE Failed)
    /\ UNCHANGED <<resizeLocks, computeVars>>

-----------------------------------------------------------------------------
(* ControllerUnpublishVolume *)

ControllerUnpublishVolume(r) ==
    /\ At(r, "unpublish", "idle")
    /\ Goto(r, "getDisk")
    /\ UNCHANGED <<resizeLocks, computeVars>>

UnpublishGetDisk(r) ==
    /\ At(r, "unpublish", "getDisk")
    /\ IF ~Exists(r.disk) \/ disks[r.disk].at = {} THEN Reply(r, Ok) ELSE Goto(r, "getInstance")
    /\ UNCHANGED <<resizeLocks, computeVars>>

UnpublishGetInstance(r) ==
    /\ At(r, "unpublish", "getInstance")
    /\ IF inst[r.node] = "gone" THEN Reply(r, Ok) ELSE Goto(r, "send")
    /\ UNCHANGED <<resizeLocks, computeVars>>

\* every error is taken for "not attached"
UnpublishDone_WithAnyError(r) ==
    /\ At(r, "unpublish", "wait") /\ local[r].outcome # "running"
    /\ Reply(r, Ok)
    /\ UNCHANGED <<resizeLocks, computeVars>>

UnpublishDone(r) ==
    /\ At(r, "unpublish", "wait") /\ local[r].outcome # "running"
    /\ Reply(r, IF local[r].outcome = "done" THEN Ok ELSE Failed)
    /\ UNCHANGED <<resizeLocks, computeVars>>

-----------------------------------------------------------------------------
(* ControllerExpandVolume *)

ControllerExpandVolume(r) ==
    /\ At(r, "expand", "idle")
    /\ Goto(r, "getDisk")
    /\ UNCHANGED <<resizeLocks, computeVars>>

\* The early OK leaves the marker alone
ExpandGetDisk(r) ==
    /\ At(r, "expand", "getDisk")
    /\ LET disk == disks[r.disk] IN
       IF ~Exists(r.disk) \/ ~RangeAccepted(r.range, MaximumVolumeSize(EffectiveBlockSize(disk)))
       THEN Reply(r, Failed)
       ELSE IF ExtractedSize(r.range) <= disk.size THEN Reply(r, Volume(r.disk, disk.size, NoZone))
       ELSE Goto(r, "send")
    /\ UNCHANGED <<resizeLocks, computeVars>>

\* the marker stays after the resize
ExpandDone_WithoutRemove(r) ==
    /\ At(r, "expand", "wait") /\ local[r].outcome # "running"
    /\ resizeLocks' = IF local[r].outcome = "attached" THEN resizeLocks \cup {r.disk} ELSE resizeLocks
    /\ Reply(r, IF local[r].outcome = "done"
                THEN Volume(r.disk, ExtractedSize(r.range), NoZone) ELSE Failed)
    /\ UNCHANGED computeVars

\* the volume is marked under its name, not under its id
ExpandDone_WithName(r) ==
    /\ At(r, "expand", "wait") /\ local[r].outcome # "running"
    /\ resizeLocks' = CASE local[r].outcome = "done"     -> resizeLocks \ {disks[r.disk].name}
                         [] local[r].outcome = "attached" -> resizeLocks \cup {disks[r.disk].name}
                         [] OTHER                         -> resizeLocks
    /\ Reply(r, IF local[r].outcome = "done"
                THEN Volume(r.disk, ExtractedSize(r.range), NoZone) ELSE Failed)
    /\ UNCHANGED computeVars

\* only the refusal of an attached disk is an error
ExpandDone_WithoutOtherErrors(r) ==
    /\ At(r, "expand", "wait") /\ local[r].outcome # "running"
    /\ resizeLocks' = IF local[r].outcome = "attached" THEN resizeLocks \cup {r.disk}
                      ELSE resizeLocks \ {r.disk}
    /\ Reply(r, IF local[r].outcome = "attached" THEN Failed
                ELSE Volume(r.disk, ExtractedSize(r.range), NoZone))
    /\ UNCHANGED computeVars

\* Refused because it is attached: marked.  Resized: the marker goes.
ExpandDone(r) ==
    /\ At(r, "expand", "wait") /\ local[r].outcome # "running"
    /\ \/ /\ local[r].outcome = "done"
          /\ RemoveVolId(r.disk)
          /\ Reply(r, Volume(r.disk, ExtractedSize(r.range), NoZone))
       \/ /\ local[r].outcome = "attached"
          /\ PutVolId(r.disk)
          /\ Reply(r, Failed)
       \/ /\ local[r].outcome \notin {"done", "attached"}
          /\ Reply(r, Failed)
          /\ UNCHANGED resizeLocks
    /\ UNCHANGED computeVars

-----------------------------------------------------------------------------
(* WaitForResult, and what may befall any call *)

\* The original request of WaitForResult, for a disk that exists already
Submit(r) ==
    /\ pc[r] = "send" /\ r.kind \in {"delete", "publish", "unpublish", "expand"}
    /\ Wait(r, r.disk, Answer(r, r.disk))
    /\ UNCHANGED <<resizeLocks, res, disks, inst>>

\* The goroutine of o's request is still waiting for it
Awaited(o) ==
    /\ pc[o[1]] = "wait"
    /\ local[o[1]].outcome = "running"
    /\ Target(o[1]) = o[2]

Settle(o, outcome) ==
    /\ local' = IF Awaited(o) THEN [local EXCEPT ![o[1]].outcome = outcome] ELSE local
    /\ UNCHANGED <<resizeLocks, pc, res, inst>>

FinishOp(o) == Finish(o, Verdict(o[1], o[2])) /\ Settle(o, Verdict(o[1], o[2]))

BreakOp(o) == Break(o) /\ Settle(o, "failed")

(***************************************************************************)
(* The context expires, or a call to the cloud fails, or the answer is     *)
(* lost on its way: the sidecar has an error.  op.Wait gives up waiting,   *)
(* the operation goes on.                                                  *)
(***************************************************************************)
CallFails(r) ==
    /\ pc[r] # "idle" /\ res[r].code # "failed"
    /\ Reply(r, Failed)
    /\ UNCHANGED <<resizeLocks, computeVars>>

\* The process dies: goroutines and markers are gone, operations go on
Crash ==
    /\ resizeLocks' = {}
    /\ pc' = [r \in Requests |-> IF pc[r] = "answered" THEN "answered" ELSE "idle"]
    /\ local' = [r \in Requests |-> NoLocal]
    /\ UNCHANGED <<res, computeVars>>

CreateSnapshot(r) ==
    /\ At(r, "snapshot", "idle")
    /\ Goto(r, "panic")
    /\ UNCHANGED <<resizeLocks, computeVars>>

\* panic("implement me"): the server recovers from nothing
Panic(r) == At(r, "snapshot", "panic") /\ Crash

HandlerStep(r) ==
    \/ ListDisks(r) \/ CreateDisk(r) \/ CreateDone(r)
    \/ Submit(r) \/ DeleteDone(r)
    \/ PublishGetDisk(r) \/ PublishGetInstance(r) \/ PublishDone(r)
    \/ UnpublishGetDisk(r) \/ UnpublishGetInstance(r) \/ UnpublishDone(r)
    \/ ExpandGetDisk(r) \/ ExpandDone(r)
    \/ Panic(r)

=============================================================================
