-------------------------- MODULE VolumeInvariants --------------------------
(***************************************************************************)
(* Why the properties of Volume hold where the cloud or the sidecars keep  *)
(* operations on a disk apart (Exclusive): what the node's goroutines, the *)
(* kubelet and the mount table know of each other, and what keeps the disk *)
(* there.  VolumeProofs proves it.                                         *)
(***************************************************************************)
EXTENDS Volume, ClusterInvariants

-----------------------------------------------------------------------------
(* The controller side *)

\* The volumes are there from the start, and stay; the instances run
VolumesStay ==
    /\ \A r \in Requests : UnderWay(r) => r.kind \in {"publish", "unpublish", "expand"}
    /\ \A name \in Names : pv[name].phase \in {"none", "bound"}
    /\ inst = [n \in Nodes |-> "running"]

\* What Exclusive amounts to, step by step
KeptApart == StrictCloud \/ (OneCallPerVolume /\ Patient /\ OpsAreAwaited /\ ExclusionInv)

ControllerSideInv ==
    /\ TypeOK /\ CallsAreQueued /\ CloudInv /\ AttachInv /\ OneNode
    /\ ProvisionInv /\ TruthInv
    /\ VolumesStay /\ KeptApart

-----------------------------------------------------------------------------
(* The node side *)

NodeSideTypes ==
    /\ mode \in [DiskIds -> N!Modes]
    /\ content \in [DiskIds -> {"blank", "formatted", "data"}]
    /\ fsSize \in [DiskIds -> Int]
    /\ mounts \in [N!Paths -> {<<>>} \cup {<<d>> : d \in DiskIds}]
    /\ call \in [Goroutines -> N!Call \cup {NoCall}]
    /\ nodePc \in [Goroutines -> N!Commands]
    /\ nodeRes \in [Goroutines -> {"none", "ok", "failed"}]
    /\ staged \in [DiskIds -> N!Known \cup {"mounted"}]
    /\ published \in [Pods -> N!Known]
    /\ awaited \subseteq Goroutines
    /\ expanding \subseteq DiskIds /\ written \subseteq DiskIds

\* No handler is given up: the kubelet waits for every goroutine, and for one per volume
CallsAreAwaited ==
    /\ \A g \in Goroutines : nodePc[g] # "idle" <=> g \in awaited
    /\ \A g \in awaited :
          /\ call[g] \in N!Call
          /\ call[g].kind \in {"publish", "unpublish"} => Uses[call[g].pod] = call[g].volume
    /\ \A g, h \in awaited : call[g].volume = call[h].volume => g = h

\* What the kubelet takes for settled is what no call is changing
KubeletKnows ==
    /\ \A p \in Pods : published[p] # "no" => staged[Uses[p]] = "yes"
    /\ \A g \in awaited :
          LET c == call[g] IN
          /\ c.kind \in {"stage", "unstage"} => staged[c.volume] = "uncertain"
          /\ c.kind = "expand" => staged[c.volume] \in {"uncertain", "yes"}
          /\ c.kind \in {"publish", "unpublish"} => published[c.pod] = "uncertain"

StagedMount(d) == mounts[N!Staging(d)] = <<d>>

\* A path has its volume or nothing on it, and what the kubelet knows of it is true
MountsAreKnown ==
    /\ \A d \in DiskIds :
          /\ StagedMount(d) \/ mounts[N!Staging(d)] = <<>>
          /\ staged[d] = "no" \/ N!IsBlock(d) => mounts[N!Staging(d)] = <<>>
          /\ staged[d] \in {"mounted", "yes"} => StagedMount(d) \/ N!IsBlock(d)
          /\ StagedMount(d) => content[d] # "blank"
    /\ \A p \in Pods :
          /\ mounts[N!Target(p)] \in {<<>>, <<Uses[p]>>}
          /\ published[p] = "no"  => mounts[N!Target(p)] = <<>>
          /\ published[p] = "yes" => mounts[N!Target(p)] = <<Uses[p]>>

\* What a goroutine has found out holds until it acts on it, and its OK is true
GoroutineKnows(g) ==
    LET c    == call[g]
        v    == c.volume
        path == mounts[N!PathOf(c)]
        done == nodePc[g] = "answered" /\ nodeRes[g] = "ok"
    IN  /\ nodePc[g] \in {"blkid", "mkfs", "formatting", "fsck"} => c.kind = "stage"
        /\ nodePc[g] = "umount" => c.kind \in N!Unmounts
        /\ c.kind = "stage" /\ nodePc[g] \notin {"called", "answered"} => ~N!IsBlock(v)
        /\ nodePc[g] \in {"mkfs", "formatting"} => content[v] = "blank"
        /\ nodePc[g] = "mount" => path = <<>>
        /\ c.kind = "expand" => StagedMount(v) \/ N!IsBlock(v)
        /\ done /\ c.kind = "stage" => StagedMount(v) \/ N!IsBlock(v)
        /\ done /\ c.kind = "publish" => path = <<v>>
        /\ done /\ c.kind \in N!Unmounts => path = <<>>
        /\ done /\ c.kind = "expand" => N!IsBlock(v) \/ fsSize[v] = disks[v].size

GoroutinesKnow == \A g \in awaited : GoroutineKnows(g)

\* Where the kubelet may have the volume staged, the attacher has it attached
StagedIsAttached == \A d \in DiskIds : staged[d] # "no" => va[<<d, Here>>] = "attached"

\* A file system is as large as the volume is said to be, or it is to be enlarged
SizesFollow ==
    \A name \in Names, d \in DiskIds :
       /\ pv[name].disk = d /\ mode[d] # "block"
       /\ content[d] # "blank" /\ d \notin expanding
       => pv[name].size <= fsSize[d]

(***************************************************************************)
(* What makes the properties of Volume inductive.  The kubelet has one     *)
(* call about a volume at a time and no handler runs without it, so what   *)
(* it knows of a volume (KubeletKnows) is true of the mounts               *)
(* (MountsAreKnown); what it may have staged it does not let the attacher  *)
(* take away (StagedIsAttached), so the device is there whenever blkid     *)
(* asks and has one size as long as it is mounted.                         *)
(***************************************************************************)
NodeSideInv ==
    /\ NodeSideTypes
    /\ CallsAreAwaited
    /\ KubeletKnows
    /\ MountsAreKnown
    /\ GoroutinesKnow
    /\ StagedIsAttached
    /\ SizesFollow
    /\ DataSurvives

=============================================================================
