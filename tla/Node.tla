-------------------------------- MODULE Node --------------------------------
(***************************************************************************)
(* The node service, driver/node.go with driver/mounter.go, on one node:   *)
(* goroutines that run commands against the devices and the mount table of *)
(* the node.                                                               *)
(*                                                                         *)
(* The process keeps no state of its own: every handler asks the node what *)
(* is there (blkid, findmnt) and acts on the answer (mkfs, mount, umount). *)
(* An action is one command with the code up to the next one, so another   *)
(* goroutine may run between a question and what is done about it.  mkfs   *)
(* is long and takes two actions.  The handlers ignore the context of the  *)
(* call: a goroutine goes on when nobody waits for it any longer.          *)
(*                                                                         *)
(* A definition whose name ends in _With... or _Without... is a faulty     *)
(* variant of the one that follows it, see Sizing.                         *)
(***************************************************************************)
EXTENDS Naturals, Sequences

CONSTANTS
    Volumes,
    Pods,
    Uses,        \* the volume of each pod
    Goroutines,  \* at most so many calls at a time
    NoCall

\* What is seen on a path with nothing mounted
HostDirectory == "host directory"

ASSUME NodeAssumption ==
    /\ Uses \in [Pods -> Volumes]
    /\ HostDirectory \notin Volumes

VARIABLES
    mode,        \* what each volume is asked for as; Init chooses it, no step changes it
    capability,  \* the optional VolumeCapability of NodeExpandVolume: chosen by Init as well
    device,      \* the link /dev/disk/by-id/virtio-...: "absent", "coming" or "present"
    capacity,    \* the size of the disk behind it
    content,     \* what is on each volume, from "blank" to the data of a pod
    fsSize,      \* the size its file system was last made for, 0 without one
    mounts,      \* what is mounted on each path, the visible one first
    call,        \* the call of each goroutine
    pc,          \* the command it runs next
    res          \* its answer

diskVars == <<mode, capability, device, capacity>>
storeVars == <<content, fsSize>>
machineVars == <<diskVars, storeVars, mounts>>
goroutineVars == <<call, pc, res>>
nodeVars == <<machineVars, goroutineVars>>

\* volumeMode Filesystem, perhaps annotated com.flant.csi.yandex/noformat, or Block
Modes == {"filesystem", "annotated", "block"}
IsBlock(v) == mode[v] = "block"

Staging(v) == <<"staging", v>>
Target(p)  == <<"target", p>>
Paths == {Staging(v) : v \in Volumes} \cup {Target(p) : p \in Pods}

\* What a mount shows: a volume, or a plain directory of the node
Sources == Volumes \cup {HostDirectory}

Call == [kind : {"stage", "unstage", "expand"}, volume : Volumes]
        \cup [kind : {"publish", "unpublish"}, volume : Volumes, pod : Pods]

Commands == {"idle", "called", "blkid", "mkfs", "formatting", "fsck", "findmnt",
             "mount", "umount", "resize2fs", "answered"}

NodeTypeOK ==
    /\ mode \in [Volumes -> Modes]
    /\ capability \in {"sent", "omitted"}
    /\ device \in [Volumes -> {"absent", "coming", "present"}]
    /\ capacity \in [Volumes -> Nat]
    /\ content \in [Volumes -> {"blank", "formatted", "data"}]
    /\ fsSize \in [Volumes -> Nat]
    /\ mounts \in [Paths -> Seq(Sources)]
    /\ call \in [Goroutines -> Call \cup {NoCall}]
    /\ pc \in [Goroutines -> Commands]
    /\ res \in [Goroutines -> {"none", "ok", "failed"}]

\* A volume that is not to be formatted came with a file system
NodeInit ==
    /\ mode \in [Volumes -> Modes]
    /\ capability \in {"sent", "omitted"}
    /\ device = [v \in Volumes |-> "absent"]
    /\ content = [v \in Volumes |-> IF mode[v] = "annotated" THEN "formatted" ELSE "blank"]
    /\ fsSize = [v \in Volumes |-> IF mode[v] = "annotated" THEN capacity[v] ELSE 0]
    /\ mounts = [path \in Paths |-> <<>>]
    /\ call = [g \in Goroutines |-> NoCall]
    /\ pc = [g \in Goroutines |-> "idle"]
    /\ res = [g \in Goroutines |-> "none"]

-----------------------------------------------------------------------------
(* The moves of a goroutine *)

Run(g, command) ==
    /\ pc' = [pc EXCEPT ![g] = command]
    /\ UNCHANGED <<call, res>>

Reply(g, code) ==
    /\ pc' = [pc EXCEPT ![g] = "answered"]
    /\ res' = [res EXCEPT ![g] = code]
    /\ UNCHANGED call

At(g, kind, command) == pc[g] = command /\ call[g].kind = kind

PathOf(c) == IF c.kind \in {"stage", "unstage", "expand"} THEN Staging(c.volume) ELSE Target(c.pod)

IsMounted(path) == mounts[path] # <<>>
Shown(path) == IF IsMounted(path) THEN Head(mounts[path]) ELSE HostDirectory
MountedSomewhere(v) ==
    \E path \in Paths : \E i \in 1 .. Len(mounts[path]) : mounts[path][i] = v

\* mkfs has the device for itself
BeingFormatted(v) == \E g \in Goroutines : pc[g] = "formatting" /\ call[g].volume = v

-----------------------------------------------------------------------------
(* NodeStageVolume *)

\* the annotation is not looked at
NodeStageVolume_WithoutAnnotation(g) ==
    /\ At(g, "stage", "called")
    /\ IF IsBlock(call[g].volume) THEN Reply(g, "ok") ELSE Run(g, "blkid")
    /\ UNCHANGED machineVars

NodeStageVolume(g) ==
    /\ At(g, "stage", "called")
    /\ LET v == call[g].volume IN
       IF IsBlock(v) THEN Reply(g, "ok")
       ELSE Run(g, IF mode[v] = "annotated" THEN "fsck" ELSE "blkid")
    /\ UNCHANGED machineVars

(***************************************************************************)
(* blkid exits with 2 when it finds nothing on the device, and as well     *)
(* when there is no such device: IsFormatted says no to both.              *)
(***************************************************************************)
IsFormatted(g) ==
    /\ At(g, "stage", "blkid")
    /\ LET v == call[g].volume IN
       Run(g, IF device[v] = "present" /\ content[v] # "blank" THEN "fsck" ELSE "mkfs")
    /\ UNCHANGED machineVars

\* any other exit status is taken for "not formatted"
IsFormattedFails_WithNo(g) ==
    /\ At(g, "stage", "blkid")
    /\ Run(g, "mkfs")
    /\ UNCHANGED machineVars

IsFormattedFails(g) ==
    /\ At(g, "stage", "blkid")
    /\ Reply(g, "failed")
    /\ UNCHANGED machineVars

\* mkfs starts: what was on the device is lost; a device in use is refused
Format(g) ==
    /\ At(g, "stage", "mkfs")
    /\ LET v == call[g].volume IN
       \/ /\ device[v] = "present" /\ ~MountedSomewhere(v) /\ ~BeingFormatted(v)
          /\ content' = [content EXCEPT ![v] = "blank"]
          /\ fsSize' = [fsSize EXCEPT ![v] = 0]
          /\ Run(g, "formatting")
       \/ /\ device[v] # "present" \/ MountedSomewhere(v) \/ BeingFormatted(v)
          /\ Reply(g, "failed")
          /\ UNCHANGED storeVars
    /\ UNCHANGED <<diskVars, mounts>>

\* mkfs ends: it wrote a file system over all of the device, unless that went away
FormatDone(g) ==
    /\ At(g, "stage", "formatting")
    /\ LET v == call[g].volume IN
       IF device[v] = "present"
       THEN /\ content' = [content EXCEPT ![v] = "formatted"]
            /\ fsSize' = [fsSize EXCEPT ![v] = capacity[v]]
            /\ Run(g, "fsck")
       ELSE UNCHANGED storeVars /\ Reply(g, "failed")
    /\ UNCHANGED <<diskVars, mounts>>

\* Every exit status but "errors left uncorrected" lets the call go on
CheckAndRepairFilesystem(g) ==
    /\ At(g, "stage", "fsck")
    /\ Run(g, "findmnt")
    /\ UNCHANGED machineVars

\* a path that is mounted already is an error
StageIsMounted_WithError(g) ==
    /\ At(g, "stage", "findmnt")
    /\ IF IsMounted(PathOf(call[g])) THEN Reply(g, "failed") ELSE Run(g, "mount")
    /\ UNCHANGED machineVars

\* What is mounted is not looked at
StageIsMounted(g) ==
    /\ At(g, "stage", "findmnt")
    /\ IF IsMounted(PathOf(call[g])) THEN Reply(g, "ok") ELSE Run(g, "mount")
    /\ UNCHANGED machineVars

(***************************************************************************)
(* mount of the device.  The kernel refuses a device without file system,  *)
(* one that mkfs holds, and the same device twice on one path.             *)
(***************************************************************************)
StageMount(g) ==
    /\ At(g, "stage", "mount")
    /\ LET v    == call[g].volume
           path == Staging(v)
       IN  IF /\ device[v] = "present" /\ content[v] # "blank" /\ ~BeingFormatted(v)
              /\ Shown(path) # v
           THEN mounts' = [mounts EXCEPT ![path] = <<v>> \o @] /\ Reply(g, "ok")
           ELSE UNCHANGED mounts /\ Reply(g, "failed")
    /\ UNCHANGED <<diskVars, storeVars>>

-----------------------------------------------------------------------------
(* NodePublishVolume *)

\* For a block volume the link is resolved first
NodePublishVolume(g) ==
    /\ At(g, "publish", "called")
    /\ IF IsBlock(call[g].volume) /\ device[call[g].volume] # "present"
       THEN Reply(g, "failed")
       ELSE Run(g, "findmnt")
    /\ UNCHANGED machineVars

PublishIsMounted(g) ==
    /\ At(g, "publish", "findmnt")
    /\ IF IsMounted(PathOf(call[g])) THEN Reply(g, "ok") ELSE Run(g, "mount")
    /\ UNCHANGED machineVars

(***************************************************************************)
(* A bind mount shows what its source shows at this moment: the device of  *)
(* a block volume, else whatever the staging path is.                      *)
(***************************************************************************)
PublishMount(g) ==
    /\ At(g, "publish", "mount")
    /\ LET v == call[g].volume
           source == IF IsBlock(v) THEN v ELSE Shown(Staging(v))
       IN  IF IsBlock(v) /\ device[v] # "present"
           THEN UNCHANGED mounts /\ Reply(g, "failed")
           ELSE mounts' = [mounts EXCEPT ![PathOf(call[g])] = <<source>> \o @] /\ Reply(g, "ok")
    /\ UNCHANGED <<diskVars, storeVars>>

-----------------------------------------------------------------------------
(* NodeUnpublishVolume and NodeUnstageVolume *)

Unmounts == {"unpublish", "unstage"}

NodeUnmountVolume(g) ==
    /\ pc[g] = "called" /\ call[g].kind \in Unmounts
    /\ Run(g, "findmnt")
    /\ UNCHANGED machineVars

UnmountIsMounted(g) ==
    /\ pc[g] = "findmnt" /\ call[g].kind \in Unmounts
    /\ IF IsMounted(PathOf(call[g])) THEN Run(g, "umount") ELSE Reply(g, "ok")
    /\ UNCHANGED machineVars

\* umount takes the visible mount from the path; on a bare path it fails
Unmount(g) ==
    /\ pc[g] = "umount"
    /\ LET path == PathOf(call[g]) IN
       IF IsMounted(path)
       THEN mounts' = [mounts EXCEPT ![path] = Tail(@)] /\ Reply(g, "ok")
       ELSE UNCHANGED mounts /\ Reply(g, "failed")
    /\ UNCHANGED <<diskVars, storeVars>>

-----------------------------------------------------------------------------
(* NodeExpandVolume *)

(***************************************************************************)
(* A request without a VolumeCapability does not say that the volume is    *)
(* block, and a block volume then goes the way of the others.              *)
(* GetDeviceNameFromMount takes the device from the mount table.  A path   *)
(* with nothing on it, such as the staging path of a block volume, is no   *)
(* error: it gives no device, and what ResizeFs says of no device, whether *)
(* an error or that nothing is to be done, is left open.                   *)
(***************************************************************************)
\* a block volume is treated like any other, whatever the request says
NodeExpandVolume_WithoutBlockCase(g) ==
    /\ At(g, "expand", "called")
    /\ \/ IsMounted(PathOf(call[g])) /\ Run(g, "resize2fs")
       \/ ~IsMounted(PathOf(call[g])) /\ \E code \in {"ok", "failed"} : Reply(g, code)
    /\ UNCHANGED machineVars

SaidToBeBlock(v) == IsBlock(v) /\ capability = "sent"

NodeExpandVolume(g) ==
    /\ At(g, "expand", "called")
    /\ \/ SaidToBeBlock(call[g].volume) /\ Reply(g, "ok")
       \/ /\ ~SaidToBeBlock(call[g].volume)
          /\ \/ IsMounted(PathOf(call[g])) /\ Run(g, "resize2fs")
             \/ ~IsMounted(PathOf(call[g])) /\ \E code \in {"ok", "failed"} : Reply(g, code)
    /\ UNCHANGED machineVars

\* The tools grow a mounted file system to the size of its device
Resize(g) ==
    /\ At(g, "expand", "resize2fs")
    /\ LET v == call[g].volume IN
       IF device[v] = "present" /\ content[v] # "blank" /\ MountedSomewhere(v)
       THEN fsSize' = [fsSize EXCEPT ![v] = capacity[v]] /\ Reply(g, "ok")
       ELSE UNCHANGED fsSize /\ Reply(g, "failed")
    /\ UNCHANGED <<diskVars, content, mounts>>

-----------------------------------------------------------------------------
(* A command fails, and its error is the answer *)

MayFail == {"mkfs", "formatting", "fsck", "findmnt", "mount", "umount", "resize2fs"}

\* umount's error is not passed on
CommandFails_WithoutUnmountError(g) ==
    /\ pc[g] \in MayFail
    /\ Reply(g, IF pc[g] = "umount" THEN "ok" ELSE "failed")
    /\ UNCHANGED machineVars

\* mount's error is not passed on
CommandFails_WithoutMountError(g) ==
    /\ pc[g] \in MayFail
    /\ Reply(g, IF pc[g] = "mount" THEN "ok" ELSE "failed")
    /\ UNCHANGED machineVars

\* the error of resize2fs is not passed on
CommandFails_WithoutResizeError(g) ==
    /\ pc[g] \in MayFail
    /\ Reply(g, IF pc[g] = "resize2fs" THEN "ok" ELSE "failed")
    /\ UNCHANGED machineVars

CommandFails(g) ==
    /\ pc[g] \in MayFail
    /\ Reply(g, "failed")
    /\ UNCHANGED machineVars

\* The process dies, and the commands it runs; mounts are the node's
ProcessDies ==
    /\ call' = [g \in Goroutines |-> NoCall]
    /\ pc' = [g \in Goroutines |-> "idle"]
    /\ res' = [g \in Goroutines |-> "none"]

NodeStep(g) ==
    \/ NodeStageVolume(g) \/ IsFormatted(g) \/ Format(g) \/ FormatDone(g)
    \/ CheckAndRepairFilesystem(g) \/ StageIsMounted(g) \/ StageMount(g)
    \/ NodePublishVolume(g) \/ PublishIsMounted(g) \/ PublishMount(g)
    \/ NodeUnmountVolume(g) \/ UnmountIsMounted(g) \/ Unmount(g)
    \/ NodeExpandVolume(g) \/ Resize(g)

=============================================================================
