------------------------------ MODULE Kubelet ------------------------------
(***************************************************************************)
(* The node service on its node: the kubelet calls it, the attacher brings *)
(* and takes the devices, pods write, commands fail, calls time out, the   *)
(* process and the node restart.                                           *)
(*                                                                         *)
(* The kubelet is not code of the repository.  Of it this module keeps     *)
(* what it remembers of a volume and of a pod, which calls it may make,    *)
(* and what it learns from an answer: NodeStageVolume, then                *)
(* NodePublishVolume for each pod; NodeUnpublishVolume for a deleted pod;  *)
(* NodeUnstageVolume when no pod is left; NodeExpandVolume, once staged,   *)
(* when the volume was enlarged; every call is repeated until OK, and a    *)
(* volume has one call at a time - as far as the kubelet knows.            *)
(***************************************************************************)
EXTENDS Node

CONSTANTS
    Disruptions,    \* what may go wrong
    MaxDisruptions  \* how many times in a behaviour

DisruptionKinds == {"commandFails", "timeout", "dies", "reboot", "lateDevice"}

ASSUME KubeletAssumption ==
    /\ Disruptions \subseteq DisruptionKinds
    /\ MaxDisruptions \in Nat

VARIABLES
    pod,         \* "new", "running" or "deleted"
    staged,      \* what the kubelet knows of each volume
    published,   \* what it knows of each pod's target path
    awaited,     \* the goroutines whose answer it waits for
    expanding,   \* the volumes that were enlarged, and NodeExpandVolume not yet answered OK
    written,     \* the volumes that hold data of a pod
    disruptions  \* how many so far

kubeletVars == <<pod, staged, published, awaited, expanding, written>>
vars == <<nodeVars, kubeletVars, disruptions>>

\* A staged volume that is to be expanded first is "mounted"
Known == {"no", "uncertain", "yes"}

TypeOK ==
    /\ NodeTypeOK
    /\ pod \in [Pods -> {"new", "running", "deleted"}]
    /\ staged \in [Volumes -> Known \cup {"mounted"}]
    /\ published \in [Pods -> Known]
    /\ awaited \subseteq Goroutines
    /\ expanding \subseteq Volumes
    /\ written \subseteq Volumes
    /\ disruptions \in 0 .. MaxDisruptions

KubeletInit ==
    /\ pod = [p \in Pods |-> "new"]
    /\ staged = [v \in Volumes |-> "no"]
    /\ published = [p \in Pods |-> "no"]
    /\ awaited = {}
    /\ expanding = {}
    /\ written = {}

Init == capacity = [v \in Volumes |-> 1] /\ NodeInit /\ KubeletInit /\ disruptions = 0

-----------------------------------------------------------------------------
(* Pods and devices *)

Users(v) == {p \in Pods : Uses[p] = v}
Wanted(v) == \E p \in Users(v) : pod[p] = "running"

StartPod(p) ==
    /\ pod[p] = "new"
    /\ pod' = [pod EXCEPT ![p] = "running"]
    /\ UNCHANGED <<nodeVars, staged, published, awaited, expanding, written, disruptions>>

DeletePod(p) ==
    /\ pod[p] = "running"
    /\ pod' = [pod EXCEPT ![p] = "deleted"]
    /\ UNCHANGED <<nodeVars, staged, published, awaited, expanding, written, disruptions>>

\* A pod writes to what its path shows; on the volume it is data
Write(p) ==
    /\ pod[p] = "running" /\ published[p] = "yes"
    /\ LET v == Uses[p] IN
       /\ v \notin written /\ Shown(Target(p)) = v /\ device[v] = "present"
       /\ content' = [content EXCEPT ![v] = "data"]
       /\ written' = written \cup {v}
    /\ UNCHANGED <<diskVars, fsSize, mounts, goroutineVars,
                   pod, staged, published, awaited, expanding, disruptions>>

Disrupted(kind) ==
    /\ kind \in Disruptions
    /\ disruptions < MaxDisruptions
    /\ disruptions' = disruptions + 1

Unused(v) == ~Wanted(v) /\ staged[v] = "no" /\ \A p \in Users(v) : published[p] = "no"

LinkBecomes(v, state) ==
    /\ device' = [device EXCEPT ![v] = state]
    /\ UNCHANGED <<mode, capability, capacity, storeVars, mounts, goroutineVars, kubeletVars>>

\* The link of an attached disk is there at once, or udev is late
Attach(v) ==
    /\ Wanted(v) /\ device[v] = "absent"
    /\ \/ LinkBecomes(v, "present") /\ UNCHANGED disruptions
       \/ LinkBecomes(v, "coming") /\ Disrupted("lateDevice")

LinkAppears(v) == device[v] = "coming" /\ LinkBecomes(v, "present") /\ UNCHANGED disruptions

Detach(v) ==
    /\ Unused(v) /\ device[v] # "absent"
    /\ LinkBecomes(v, "absent") /\ UNCHANGED disruptions

\* The disk of a detached volume was enlarged, once
Enlarge(v) ==
    /\ device[v] = "absent" /\ capacity[v] = 1
    /\ capacity' = [capacity EXCEPT ![v] = 2]
    /\ expanding' = expanding \cup {v}
    /\ UNCHANGED <<mode, capability, device, storeVars, mounts, goroutineVars,
                   pod, staged, published, awaited, written, disruptions>>

-----------------------------------------------------------------------------
(* Calls and answers *)

\* Goroutines are alike: one that is idle serves the next call, no matter which
Send(g, c) ==
    /\ pc[g] = "idle" /\ g = CHOOSE h \in Goroutines : pc[h] = "idle"
    /\ \A h \in awaited : call[h].volume # c.volume
    /\ call' = [call EXCEPT ![g] = c]
    /\ pc' = [pc EXCEPT ![g] = "called"]
    /\ awaited' = awaited \cup {g}
    /\ UNCHANGED <<machineVars, res, pod, expanding, written, disruptions>>

Stage(g, v) ==
    /\ Wanted(v) /\ staged[v] \in {"no", "uncertain"}
    /\ Send(g, [kind |-> "stage", volume |-> v])
    /\ staged' = [staged EXCEPT ![v] = "uncertain"]
    /\ UNCHANGED published

\* Once the volume is staged, or while it is in use
Expand(g, v) ==
    /\ v \in expanding /\ Wanted(v) /\ staged[v] \in {"mounted", "yes"}
    /\ Send(g, [kind |-> "expand", volume |-> v])
    /\ staged' = [staged EXCEPT ![v] = IF @ = "mounted" THEN "uncertain" ELSE @]
    /\ UNCHANGED published

Publish(g, p) ==
    /\ pod[p] = "running" /\ staged[Uses[p]] = "yes" /\ published[p] # "yes"
    /\ Send(g, [kind |-> "publish", volume |-> Uses[p], pod |-> p])
    /\ published' = [published EXCEPT ![p] = "uncertain"]
    /\ UNCHANGED staged

Unpublish(g, p) ==
    /\ pod[p] = "deleted" /\ published[p] # "no"
    /\ Send(g, [kind |-> "unpublish", volume |-> Uses[p], pod |-> p])
    /\ published' = [published EXCEPT ![p] = "uncertain"]
    /\ UNCHANGED staged

Unstage(g, v) ==
    /\ ~Wanted(v) /\ staged[v] # "no"
    /\ \A p \in Users(v) : published[p] = "no"
    /\ Send(g, [kind |-> "unstage", volume |-> v])
    /\ staged' = [staged EXCEPT ![v] = "uncertain"]
    /\ UNCHANGED published

Learn(c) ==
    /\ staged' = CASE c.kind = "stage" ->
                        [staged EXCEPT ![c.volume] = IF c.volume \in expanding
                                                     THEN "mounted" ELSE "yes"]
                   [] c.kind = "expand"  -> [staged EXCEPT ![c.volume] = "yes"]
                   [] c.kind = "unstage" -> [staged EXCEPT ![c.volume] = "no"]
                   [] OTHER -> staged
    /\ published' = CASE c.kind = "publish"   -> [published EXCEPT ![c.pod] = "yes"]
                      [] c.kind = "unpublish" -> [published EXCEPT ![c.pod] = "no"]
                      [] OTHER -> published
    /\ expanding' = IF c.kind = "expand" THEN expanding \ {c.volume} ELSE expanding

\* An answer reaches the kubelet only if it still waits
Receive(g) ==
    /\ pc[g] = "answered"
    /\ pc' = [pc EXCEPT ![g] = "idle"]
    /\ call' = [call EXCEPT ![g] = NoCall]
    /\ res' = [res EXCEPT ![g] = "none"]
    /\ awaited' = awaited \ {g}
    /\ IF g \in awaited /\ res[g] = "ok" THEN Learn(call[g])
       ELSE UNCHANGED <<staged, published, expanding>>
    /\ UNCHANGED <<machineVars, pod, written, disruptions>>

-----------------------------------------------------------------------------
(* What goes wrong *)

FailCommand(g) ==
    /\ Disrupted("commandFails")
    /\ CommandFails(g) \/ IsFormattedFails(g)
    /\ UNCHANGED kubeletVars

\* The kubelet gives up waiting; the goroutine knows nothing of it
GiveUp(g) ==
    /\ Disrupted("timeout")
    /\ g \in awaited
    /\ awaited' = awaited \ {g}
    /\ UNCHANGED <<nodeVars, pod, staged, published, expanding, written>>

Restart ==
    /\ Disrupted("dies")
    /\ ProcessDies
    /\ awaited' = {}
    /\ UNCHANGED <<machineVars, pod, staged, published, expanding, written>>

\* Devices stay attached, mounts are gone, and the kubelet starts over
Reboot ==
    /\ Disrupted("reboot")
    /\ ProcessDies
    /\ device' = [v \in Volumes |-> IF device[v] = "absent" THEN "absent" ELSE "present"]
    /\ mounts' = [path \in Paths |-> <<>>]
    /\ awaited' = {}
    /\ staged' = [v \in Volumes |-> "no"]
    /\ published' = [p \in Pods |-> "no"]
    /\ UNCHANGED <<mode, capability, capacity, storeVars, pod, expanding, written>>

Step(g) == NodeStep(g) /\ UNCHANGED <<kubeletVars, disruptions>>

StageAttached(g, v) == device[v] # "absent" /\ Stage(g, v)

Next ==
    \/ \E g \in Goroutines : Step(g) \/ Receive(g) \/ FailCommand(g) \/ GiveUp(g)
    \/ \E v \in Volumes, g \in Goroutines :
          StageAttached(g, v) \/ Expand(g, v) \/ Unstage(g, v)
    \/ \E p \in Pods, g \in Goroutines : Publish(g, p) \/ Unpublish(g, p)
    \/ \E p \in Pods : StartPod(p) \/ DeletePod(p) \/ Write(p)
    \/ \E v \in Volumes : Attach(v) \/ LinkAppears(v) \/ Detach(v) \/ Enlarge(v)
    \/ Restart \/ Reboot

Spec == Init /\ [][Next]_vars

(***************************************************************************)
(* Goroutines run, the kubelet takes answers and repeats its calls, and an *)
(* attached disk shows up.  A call has its turn although calls for other   *)
(* pods of the volume come in between, hence strong fairness.              *)
(***************************************************************************)
Progress ==
    /\ \A g \in Goroutines : WF_vars(Step(g)) /\ WF_vars(Receive(g))
    /\ \A v \in Volumes : WF_vars(Attach(v)) /\ WF_vars(LinkAppears(v))

Retry ==
    /\ \A v \in Volumes : /\ SF_vars(\E g \in Goroutines : StageAttached(g, v))
                          /\ SF_vars(\E g \in Goroutines : Expand(g, v))
    /\ \A p \in Pods : /\ SF_vars(\E g \in Goroutines : Publish(g, p))
                       /\ SF_vars(\E g \in Goroutines : Unpublish(g, p))

LiveSpec == Spec /\ Progress /\ Retry

-----------------------------------------------------------------------------
(***************************************************************************)
(* What a pod wrote is never formatted away: "IsFormatted returns true if  *)
(* the source device is already formatted" (mounter.go:67-68), so          *)
(* NodeStageVolume formats a device once only, however often it is called. *)
(***************************************************************************)
DataSurvives == \A v \in written : content[v] = "data"

(***************************************************************************)
(* A volume annotated noformat (node.go:73-80, 159-166) keeps the file     *)
(* system it came with, and so do it and a block volume what a pod wrote,  *)
(* late links and abandoned handlers included: no path leads to mkfs.      *)
(***************************************************************************)
KeptAsIs ==
    /\ \A v \in Volumes : mode[v] = "annotated" => content[v] # "blank"
    /\ \A v \in written : mode[v] # "filesystem" => content[v] = "data"

(***************************************************************************)
(* Where NodePublishVolume was answered OK, the pod finds its volume, not  *)
(* a directory of the node: "Once mounted, NodePublishVolume will make     *)
(* sure to mount it to the appropriate path" (node.go:109-110).            *)
(***************************************************************************)
PodSeesVolume == \A p \in Pods : published[p] = "yes" => Shown(Target(p)) = Uses[p]

(***************************************************************************)
(* When NodeUnpublishVolume ("unmounts the volume from the target path",   *)
(* node.go:293) and NodeUnstageVolume have been answered OK, nothing on    *)
(* the node mounts the volume: it may be detached.                         *)
(***************************************************************************)
UnusedIsUnmounted ==
    \A v \in Volumes :
       staged[v] = "no" /\ (\A p \in Users(v) : published[p] = "no") => ~MountedSomewhere(v)

(***************************************************************************)
(* NodeExpandVolume skips a block volume only if the request carries a     *)
(* VolumeCapability (node.go:556-562), which is optional and which older   *)
(* kubelets do not send.  Without it the answer is the library's (564-577) *)
(* and the two properties below do not say that it is ever OK.             *)
(***************************************************************************)
LeftToTheLibrary(v) == v \in expanding /\ IsBlock(v) /\ ~SaidToBeBlock(v)

(***************************************************************************)
(* A pod gets its volume, or is deleted: a repeated NodeStageVolume or     *)
(* NodePublishVolume accepts what an earlier one left behind               *)
(* (node.go:196-202, 608-615), and an expansion in between succeeds, save  *)
(* for a block volume that the request does not say to be one.             *)
(***************************************************************************)
PodGetsVolume ==
    \A p \in Pods : pod[p] = "running"
                        ~> \/ published[p] = "yes" \/ pod[p] = "deleted"
                           \/ LeftToTheLibrary(Uses[p])

(***************************************************************************)
(* An enlarged volume in use gets its file system enlarged, whatever the   *)
(* calls before left behind: NodeExpandVolume needs nothing but a mounted  *)
(* path (node.go:565), and nothing at all for a volume that the request    *)
(* says to be block (556-562).                                             *)
(***************************************************************************)
ExpansionArrives ==
    \A p \in Pods :
       pod[p] = "running" /\ Uses[p] \in expanding /\ ~LeftToTheLibrary(Uses[p])
           ~> Uses[p] \notin expanding \/ pod[p] = "deleted"

=============================================================================
