------------------------------ MODULE Cluster ------------------------------
(***************************************************************************)
(* The controller service in a cluster: the sidecars of                    *)
(* deploy/1.17/csi-controller.yaml call it, the Compute service works for  *)
(* it, and calls fail, operations break and the process restarts.          *)
(*                                                                         *)
(* The sidecars are not code of the repository.  Of each this module keeps *)
(* what it remembers of a volume, which calls it may make, and what it     *)
(* learns from an answer:                                                  *)
(*   csi-provisioner  one CreateVolume at a time for a name, repeated      *)
(*                    until OK; then, once, DeleteVolume until OK;         *)
(*   csi-attacher     one call at a time for a VolumeAttachment, which is  *)
(*                    a volume and a node; ControllerPublishVolume until   *)
(*                    OK, or until it is to be detached;                   *)
(*                    ControllerUnpublishVolume until OK;                  *)
(*   csi-resizer      one ControllerExpandVolume at a time for a volume,   *)
(*                    to more than its recorded size, repeated until OK.   *)
(***************************************************************************)
EXTENDS Controller

CONSTANTS
    OneCallPerVolume,  \* at most one call about a volume at a time, of all sidecars
    Disruptions,       \* what may go wrong
    MaxDisruptions     \* how many times in a behaviour

DisruptionKinds == {"callFails", "opFails", "restart", "panel", "instance"}

ASSUME ClusterAssumption ==
    /\ OneCallPerVolume \in BOOLEAN
    /\ Disruptions \subseteq DisruptionKinds
    /\ MaxDisruptions \in Nat

VARIABLES
    pv,          \* the PersistentVolume of each name
    va,          \* the VolumeAttachment of each disk and node
    owed,        \* the disks whose resize was asked for and not yet answered OK
    disruptions  \* how many so far

sidecarVars == <<pv, va, owed>>
vars == <<computeVars, controllerVars, sidecarVars, disruptions>>

Phases == {"none", "bound", "released", "deleted"}
PV == [phase : Phases, disk : DiskIds \cup {NoDisk}, size : Int, zone : Zones \cup {NoZone}]

TypeOK ==
    /\ ComputeTypeOK
    /\ ControllerTypeOK
    /\ pv \in [Names -> PV]
    /\ va \in [DiskIds \X Nodes -> {"none", "attaching", "attached", "detaching"}]
    /\ owed \subseteq DiskIds
    /\ disruptions \in 0 .. MaxDisruptions

Init ==
    /\ ComputeInit
    /\ ControllerInit
    /\ pv = [name \in Names |->
               IF \E v \in InitialVolumes : v.name = name
               THEN LET v == CHOOSE v \in InitialVolumes : v.name = name
                    IN  [phase |-> "bound", disk |-> v.disk, size |-> v.size, zone |-> v.zone]
               ELSE [phase |-> "none", disk |-> NoDisk, size |-> 0, zone |-> NoZone]]
    /\ va = [a \in DiskIds \X Nodes |-> "none"]
    /\ owed = {}
    /\ disruptions = 0

-----------------------------------------------------------------------------
(* Calls *)

OnDisk(r) == r.kind \in {"delete", "publish", "unpublish", "expand"}

SameSubject(r, q) ==
    \/ r.kind = "create" /\ q.kind = "create" /\ r.name = q.name
    \/ OnDisk(r) /\ OnDisk(q) /\ r.disk = q.disk

\* The queues of one sidecar never work on the same thing twice at a time
SameQueue(r, q) ==
    \/ r.kind = q.kind /\ r.kind \in {"create", "delete", "expand"}
    \/ /\ {r.kind, q.kind} \subseteq {"publish", "unpublish"}
       /\ r.node = q.node

MayCall(r) ==
    \A q \in Requests :
       pc[q] # "idle" /\ SameSubject(r, q) => ~OneCallPerVolume /\ ~SameQueue(r, q)

IssueCreate(r) ==
    /\ CreateVolume(r) /\ MayCall(r)
    /\ pv[r.name].phase = "none"
    /\ UNCHANGED <<sidecarVars, disruptions>>

\* The claim is gone, the volume is released
IssueDelete(r) ==
    /\ DeleteVolume(r) /\ MayCall(r)
    /\ \E name \in Names :
          /\ pv[name].disk = r.disk
          /\ pv[name].phase \in {"bound", "released"}
          /\ pv' = [pv EXCEPT ![name].phase = "released"]
    /\ UNCHANGED <<va, owed, disruptions>>

Attachment(r) == <<r.disk, r.node>>

Bound(d) == \E name \in Names : pv[name].phase = "bound" /\ pv[name].disk = d

IssuePublish(r) ==
    /\ ControllerPublishVolume(r) /\ MayCall(r)
    /\ Bound(r.disk)
    /\ va[Attachment(r)] \in {"none", "attaching"}
    /\ va' = [va EXCEPT ![Attachment(r)] = "attaching"]
    /\ UNCHANGED <<pv, owed, disruptions>>

\* No pod needs the volume on the node any longer
IssueUnpublish(r) ==
    /\ ControllerUnpublishVolume(r) /\ MayCall(r)
    /\ va[Attachment(r)] # "none"
    /\ va' = [va EXCEPT ![Attachment(r)] = "detaching"]
    /\ UNCHANGED <<pv, owed, disruptions>>

IssueExpand(r) ==
    /\ ControllerExpandVolume(r) /\ MayCall(r)
    /\ \E name \in Names :
          /\ pv[name].phase = "bound" /\ pv[name].disk = r.disk
          /\ pv[name].size < ExtractedSize(r.range)
    /\ owed' = owed \cup {r.disk}
    /\ UNCHANGED <<pv, va, disruptions>>

\* Nothing is remembered of a snapshot
IssueSnapshot(r) == CreateSnapshot(r) /\ UNCHANGED <<sidecarVars, disruptions>>

Issue(r) ==
    \/ IssueCreate(r) \/ IssueDelete(r) \/ IssuePublish(r)
    \/ IssueUnpublish(r) \/ IssueExpand(r) \/ IssueSnapshot(r)

-----------------------------------------------------------------------------
(* Answers *)

Recorded(r, answer) ==
    CASE r.kind = "create" ->
           [pv EXCEPT ![r.name] = [phase |-> "bound", disk |-> answer.disk,
                                   size |-> answer.size, zone |-> answer.zone]]
      [] r.kind = "delete" ->
           [name \in Names |-> IF pv[name].disk = r.disk
                               THEN [pv[name] EXCEPT !.phase = "deleted"] ELSE pv[name]]
      [] r.kind = "expand" ->
           [name \in Names |-> IF pv[name].disk = r.disk
                               THEN [pv[name] EXCEPT !.size = answer.size] ELSE pv[name]]
      [] OTHER -> pv

Receive(r) ==
    /\ pc[r] = "answered"
    /\ pc' = [pc EXCEPT ![r] = "idle"]
    /\ res' = [res EXCEPT ![r] = NoAnswer]
    /\ IF res[r].code = "ok"
       THEN /\ pv' = Recorded(r, res[r])
            /\ va' = CASE r.kind = "publish"   -> [va EXCEPT ![Attachment(r)] = "attached"]
                       [] r.kind = "unpublish" -> [va EXCEPT ![Attachment(r)] = "none"]
                       [] OTHER -> va
            /\ owed' = IF r.kind = "expand" THEN owed \ {r.disk} ELSE owed
       ELSE UNCHANGED sidecarVars
    /\ UNCHANGED <<computeVars, resizeLocks, local, disruptions>>

-----------------------------------------------------------------------------
(* Steps *)

Handle(r) == HandlerStep(r) /\ UNCHANGED <<sidecarVars, disruptions>>

Work(o) == FinishOp(o) /\ UNCHANGED <<sidecarVars, disruptions>>

\* One more disruption of this kind
Disrupt(kind) ==
    /\ kind \in Disruptions
    /\ disruptions < MaxDisruptions
    /\ disruptions' = disruptions + 1
    /\ UNCHANGED sidecarVars

FailCall(r)  == Disrupt("callFails") /\ CallFails(r)
FailOp(o)    == Disrupt("opFails") /\ BreakOp(o)
Restart      == Disrupt("restart") /\ Crash
ResizeByHand(d) ==
    Disrupt("panel") /\ PanelResize(d, disks[d].size + 1) /\ UNCHANGED controllerVars
DisruptInstance(n) ==
    /\ Disrupt("instance")
    /\ StopInstance(n) \/ StartInstance(n) \/ DeleteInstance(n)
    /\ UNCHANGED controllerVars

Next ==
    \/ \E r \in Requests : Issue(r) \/ Handle(r) \/ Receive(r) \/ FailCall(r)
    \/ \E o \in Requests \X DiskIds : Work(o) \/ FailOp(o)
    \/ Restart
    \/ \E d \in DiskIds : ResizeByHand(d)
    \/ \E n \in Nodes : DisruptInstance(n)

Spec == Init /\ [][Next]_vars

(***************************************************************************)
(* A goroutine that can run runs, an answer is taken, and the Compute      *)
(* service finishes what it accepts.                                       *)
(***************************************************************************)
Progress ==
    /\ \A r \in Requests : WF_vars(Handle(r)) /\ WF_vars(Receive(r))
    /\ \A o \in Requests \X DiskIds : WF_vars(Work(o))

(***************************************************************************)
(* A call that failed is repeated: its turn comes however often calls of   *)
(* other queues about the volume are made in between, hence strong         *)
(* fairness.  A volume is detached in the end, because the pod is deleted  *)
(* (README.md:41).  Nothing forces a publication.                          *)
(***************************************************************************)
Repeated == {r \in Requests : r.kind \in {"create", "unpublish", "expand"}}

Retry == \A r \in Repeated : SF_vars(IssueCreate(r) \/ IssueUnpublish(r) \/ IssueExpand(r))

LiveSpec == Spec /\ Progress /\ Retry

=============================================================================
