---------------------------- MODULE VolumeProofs ----------------------------
(***************************************************************************)
(* Theorems about both halves of the driver on the same volumes, where the *)
(* cloud or the sidecars keep operations on a disk apart (Exclusive): for  *)
(* every set of volumes, nodes, pods and goroutines, with failing calls,   *)
(* operations and commands, restarts of either process and reboots of the  *)
(* node.                                                                   *)
(*                                                                         *)
(* The controller side is Cluster with fewer steps; what ProvisionProofs,  *)
(* AttachProofs and ContractProofs say of a step is used as it is.  The    *)
(* node side is proved goroutine by goroutine: two that are busy are about *)
(* different volumes (CallsAreAwaited), so a command disturbs nothing but  *)
(* what its own goroutine knows.                                           *)
(***************************************************************************)
EXTENDS Sequences, ContractProofs, ProvisionProofs, VolumeInvariants

-----------------------------------------------------------------------------
(* The controller side *)

(***************************************************************************)
(* What the controller does here it may do in Cluster.                     *)
(***************************************************************************)
LEMMA ControllerStepIsNext == ControllerStep => Next
BY DEF ControllerStep, PublishWhereWanted, UnpublishUnused, TakeAnswer, Next, Issue

(***************************************************************************)
(* Neither the cloud nor the sidecars see a step of the node.              *)
(***************************************************************************)
LEMMA ControllerSideKept ==
    ASSUME ControllerSideInv, UNCHANGED controllerSide, disruptions' \in 0 .. MaxDisruptions
    PROVE  ControllerSideInv'
<1>1. UNCHANGED <<disks, inst, ops, pc, local, res, resizeLocks, pv, va, owed>>
  BY DEF controllerSide, computeVars, controllerVars, sidecarVars
<1>2. TypeOK'
  BY <1>1 DEF ControllerSideInv, TypeOK, ComputeTypeOK, ControllerTypeOK
<1>3. CallsAreQueued'
  BY <1>1 DEF ControllerSideInv, CallsAreQueued
<1>4. CloudInv'
  BY <1>1 DEF ControllerSideInv, CloudInv, OpsKnowTheirDisk, AttachedIsThere
<1>5. AttachInv'
  BY <1>1 DEF ControllerSideInv, AttachInv, OneOpPerDisk, DetachIsWanted, CallIsWanted,
              ClaimsAreTrue, UnusedIsDetached, PublishedStaysAttached, Claims, ClaimHolds,
              Succeeds, Exists
<1>6. OneNode'
  BY <1>1 DEF ControllerSideInv, OneNode
<1>7. ProvisionInv'
  <2>1. /\ VolumesKnowTheirDisk /\ CreationsKnowTheirDisk /\ OneDiskOfAName
        /\ OnVolumesOnly /\ DeletedIsGone
    BY DEF ControllerSideInv, ProvisionInv
  <2>2. /\ \A name : UNCHANGED Named(name)
        /\ \A r : UNCHANGED <<Created(r), UnderWay(r), Deleted(r)>>
    BY <1>1 DEF Named, Exists, Created, UnderWay, Deleted
  <2>3. \A name, d : UNCHANGED DiskOf(name, d)
    BY <1>1, <2>2 DEF DiskOf
  <2>4. VolumesKnowTheirDisk' /\ CreationsKnowTheirDisk'
    BY <1>1, <2>1, <2>2, <2>3 DEF VolumesKnowTheirDisk, CreationsKnowTheirDisk
  <2>5. OneDiskOfAName'
    BY <1>1, <2>1 DEF OneDiskOfAName, Exists
  <2>6. OnVolumesOnly' /\ DeletedIsGone'
    BY <1>1, <2>1, <2>2 DEF OnVolumesOnly, DeletedIsGone, Exists
  <2>7. QED
    BY <2>4, <2>5, <2>6 DEF ProvisionInv
<1>8. TruthInv'
  BY <1>1 DEF ControllerSideInv, TruthInv, Lasts, Exists
<1>9. VolumesStay'
  BY <1>1 DEF ControllerSideInv, VolumesStay, UnderWay
<1>10. KeptApart'
  <2>1. OpsAreAwaited => OpsAreAwaited'
    BY <1>1 DEF OpsAreAwaited, Awaited, Target
  <2>2. ExclusionInv => ExclusionInv'
    BY <1>1, <1>6 DEF ExclusionInv
  <2>3. QED
    BY <2>1, <2>2 DEF ControllerSideInv, KeptApart
<1>11. QED
  BY <1>2, <1>3, <1>4, <1>5, <1>6, <1>7, <1>8, <1>9, <1>10 DEF ControllerSideInv

(***************************************************************************)
(* No volume is created or deleted here, and no instance stops.            *)
(***************************************************************************)
LEMMA VolumesStayStep ==
    ASSUME ControllerSideInv, ControllerStep
    PROVE  VolumesStay'
<1>1. TypeOK /\ CloudInv /\ VolumesStay /\ Next
  BY ControllerStepIsNext DEF ControllerSideInv
<1>2. /\ pc \in [Requests -> Steps] /\ pv \in [Names -> PV]
      /\ \A r \in Requests : pc[r] # "idle" => r.kind \in {"publish", "unpublish", "expand"}
  BY <1>1 DEF TypeOK, ControllerTypeOK, VolumesStay, UnderWay
<1>3. ASSUME NEW q \in Requests, pc'[q] # "idle"
      PROVE  q.kind \in {"publish", "unpublish", "expand"}
  <2>1. CASE \E r \in Requests : \/ PublishWhereWanted(r) \/ UnpublishUnused(r)
                                 \/ IssueExpand(r)
    <3>1. PICK r \in Requests : \/ IssuePublish(r) \/ IssueUnpublish(r) \/ IssueExpand(r)
      BY <2>1 DEF PublishWhereWanted, UnpublishUnused
    <3>2. OnlyCall(r) /\ r.kind \in {"publish", "unpublish", "expand"}
      BY <1>1, <3>1, OneCall
         DEF Issue, IssuePublish, IssueUnpublish, IssueExpand, ControllerPublishVolume,
             ControllerUnpublishVolume, ControllerExpandVolume, At
    <3>3. QED
      BY <1>2, <1>3, <3>2 DEF OnlyCall
  <2>2. CASE \E r \in Requests : Handle(r) \/ FailCall(r) \/ TakeAnswer(r)
    <3>1. PICK r \in Requests : Handle(r) \/ FailCall(r) \/ TakeAnswer(r)
      BY <2>2
    <3>2. pc[r] # "idle"
      BY <3>1 DEF Handle, FailCall, TakeAnswer, Receive, CallFails, HandlerStep, ListDisks,
                  CreateDisk, CreateDone, Submit, DeleteDone, PublishGetDisk,
                  PublishGetInstance, PublishDone, UnpublishGetDisk, UnpublishGetInstance,
                  UnpublishDone, ExpandGetDisk, ExpandDone, Panic, At
    <3>3. ~Panic(r)
      BY <1>2, <3>2 DEF Panic, At
    <3>4. OnlyCall(r)
      BY <1>1, <3>1, <3>3, OneCall DEF Handle, TakeAnswer
    <3>5. QED
      BY <1>2, <1>3, <3>2, <3>4 DEF OnlyCall
  <2>3. CASE \E o \in Requests \X DiskIds : Work(o) \/ FailOp(o)
    BY <1>2, <1>3, <2>3 DEF Work, FailOp, FinishOp, BreakOp, Settle
  <2>4. CASE Restart
    BY <1>2, <1>3, <2>4 DEF Restart, Crash
  <2>5. QED
    BY <2>1, <2>2, <2>3, <2>4 DEF ControllerStep
<1>4. ASSUME NEW q \in Requests, NEW o \in ops', o[1] = q
      PROVE  q.kind \in {"publish", "unpublish", "expand"}
  <2>1. CASE o \in ops
    BY <1>1, <1>4, <2>1 DEF VolumesStay, UnderWay
  <2>2. CASE o \notin ops
    <3>1. \E r \in Requests, d \in DiskIds : o = <<r, d>> /\ pc[r] = "send"
      BY <1>1, <2>2, OpStarts, RequestFields DEF OnDisk
    <3>2. QED
      BY <1>2, <1>4, <3>1
  <2>3. QED
    BY <2>1, <2>2
<1>5. ASSUME NEW name \in Names
      PROVE  pv'[name].phase \in {"none", "bound"}
  <2>1. pv[name].phase \in {"none", "bound"} /\ pv[name] \in PV
    BY <1>1, <1>2 DEF VolumesStay
  <2>2. ~\E r \in Requests : IssueDelete(r)
    BY <1>2, <1>3 DEF IssueDelete, DeleteVolume, At, Goto
  <2>3. \A r \in Requests : Receive(r) => r.kind \in {"publish", "unpublish", "expand"}
    BY <1>2 DEF Receive
  <2>4. VolumeTurn(name)
    BY <1>1, VolumeTurns
  <2>5. QED
    BY <2>1, <2>2, <2>3, <2>4 DEF VolumeTurn, PV
<1>6. UNCHANGED inst
  <2>1. CASE \E r \in Requests : Handle(r)
    BY <2>1 DEF Handle, HandlerStep, ListDisks,
                  CreateDisk, CreateDone, Submit, DeleteDone, PublishGetDisk,
                  PublishGetInstance, PublishDone, UnpublishGetDisk, UnpublishGetInstance,
                  UnpublishDone, ExpandGetDisk, ExpandDone, Panic, Crash, computeVars
  <2>2. CASE ~\E r \in Requests : Handle(r)
    BY <2>2 DEF ControllerStep, PublishWhereWanted, UnpublishUnused, IssuePublish,
                IssueUnpublish, IssueExpand, ControllerPublishVolume,
                ControllerUnpublishVolume, ControllerExpandVolume, FailCall, CallFails,
                Work, FinishOp, FailOp, BreakOp, Settle, Restart, Crash, TakeAnswer, Receive,
                computeVars
  <2>3. QED
    BY <2>1, <2>2
<1>7. QED
  BY <1>1, <1>3, <1>4, <1>5, <1>6 DEF VolumesStay, UnderWay

(***************************************************************************)
(* The controller side keeps what it keeps in Cluster; what is recorded is *)
(* true of the disks, because none is being created.                       *)
(***************************************************************************)
LEMMA ControllerSideStep ==
    ASSUME ControllerSideInv, ControllerStep
    PROVE  ControllerSideInv'
<1>1. [Next]_vars /\ TypeOK /\ CallsAreQueued /\ CloudInv /\ ProvisionInv /\ TruthInv
  BY ControllerStepIsNext DEF ControllerSideInv
<1>2. TypeOK' /\ CallsAreQueued' /\ CloudInv' /\ ProvisionInv' /\ VolumesStay'
  BY <1>1, TypeStep, QueuesStep, CloudStep, ProvisionStep, VolumesStayStep
<1>3. AttachInv' /\ OneNode' /\ KeptApart'
  <2>1. AttachInv /\ OneNode
    BY DEF ControllerSideInv
  <2>2. CASE StrictCloud
    BY <1>1, <2>1, <2>2, AttachStep, StrictIsOneAtATime, OneNodeStep DEF KeptApart
  <2>3. CASE OneCallPerVolume /\ Patient /\ OpsAreAwaited /\ ExclusionInv
    <3>1. AttachInv'
      BY <1>1, <2>1, <2>3, OneByOne, AttachStep
    <3>2. OpsAreAwaited' /\ ExclusionInv'
      BY <1>1, <2>3, AwaitedStep, ExclusionStep
    <3>3. OneNode'
      BY <3>2 DEF ExclusionInv
    <3>4. QED
      BY <2>3, <3>1, <3>2, <3>3 DEF KeptApart
  <2>4. QED
    BY <2>2, <2>3 DEF ControllerSideInv, KeptApart
<1>4. TruthInv'
  <2>1. \A r \in Requests : r.kind = "create" => pc'[r] = "idle"
    BY <1>2 DEF VolumesStay, UnderWay
  <2>2. \A name \in Names : pv'[name].phase = "bound" =>
           LET d == pv[name].disk IN
           (Lasts(d) /\ pv[name].zone = disks[d].zone /\ pv[name].size <= disks[d].size)'
    BY <1>1, VolumeTruth
  <2>3. \A r \in Requests : r.kind = "expand" =>
           (/\ pc[r] = "wait" /\ local[r].outcome = "done" =>
                  ExtractedSize(r.range) <= disks[r.disk].size
            /\ pc[r] = "answered" /\ res[r].code = "ok" => res[r].size <= disks[r.disk].size)'
    BY <1>1, ExpansionTruth
  <2>4. QED
    BY <2>1, <2>2, <2>3 DEF TruthInv
<1>5. QED
  BY <1>2, <1>3, <1>4 DEF ControllerSideInv

(***************************************************************************)
(* Nothing is under way at the start.                                      *)
(***************************************************************************)
LEMMA InitControllerSide ==
    ASSUME Exclusive
    PROVE  Init => ControllerSideInv
<1>1. Init => VolumesStay
  BY DEF Init, ControllerInit, ComputeInit, VolumesStay, UnderWay
<1>2. Init => KeptApart
  BY InitAwaited, InitExclusion DEF Exclusive, KeptApart
<1>3. QED
  BY <1>1, <1>2, InitType, InitCloud, InitAttach, InitOneNode, InitProvision, InitTruth
     DEF ControllerSideInv

-----------------------------------------------------------------------------
(* What the controller side does for the node *)

(***************************************************************************)
(* What the kubelet may have staged is attached here and nowhere else, so  *)
(* its device is there (controller.go:330-346).                            *)
(***************************************************************************)
LEMMA StagedIsHeld ==
    ASSUME ControllerSideInv, StagedIsAttached, NEW d \in DiskIds, staged[d] # "no"
    PROVE  disks[d].at = {Here} /\ Device[d] = "present"
<1>1. Here \in Nodes
  BY VolumeAssumption
<1>2. Here \in disks[d].at
  BY <1>1 DEF StagedIsAttached, ControllerSideInv, AttachInv, PublishedStaysAttached,
              VolumesStay
<1>3. disks[d].at = {Here}
  BY <1>2 DEF ControllerSideInv, OneNode
<1>4. QED
  BY <1>2, <1>3 DEF Device

(***************************************************************************)
(* The cloud resizes no disk of a running instance ("attached to           *)
(* non-stopped instance", controller.go:606), so the device keeps its      *)
(* size.                                                                   *)
(***************************************************************************)
LEMMA StagedKeepsItsSize ==
    ASSUME ControllerSideInv, StagedIsAttached, ControllerStep,
           NEW d \in DiskIds, staged[d] # "no"
    PROVE  disks'[d].size = disks[d].size
<1>1. TypeOK /\ [Next]_vars /\ CloudInv /\ VolumesStay
  BY ControllerStepIsNext DEF ControllerSideInv
<1>2. disks[d].at = {Here} /\ inst[Here] = "running"
  BY <1>1, StagedIsHeld, VolumeAssumption DEF VolumesStay
<1>3. disks \in [DiskIds -> Disk] /\ disks[d] \in Disk
  BY <1>1 DEF TypeOK, ComputeTypeOK
<1>4. \A r \in Requests : r.kind = "expand" => Verdict(r, d) # "done"
  BY <1>2 DEF Verdict
<1>5. CASE UNCHANGED disks
  BY <1>5
<1>6. ASSUME NEW r \in Requests, NEW e \in DiskIds, Allocate(r, e)
      PROVE  disks'[d].size = disks[d].size
  <2>1. disks[e].state = "none" /\ disks[d].state # "none"
    BY <1>1, <1>2, <1>6 DEF Allocate, CloudInv, AttachedIsThere
  <2>2. QED
    BY <1>3, <1>6, <2>1 DEF Allocate
<1>7. ASSUME NEW r \in Requests, NEW e \in DiskIds, <<r, e>> \in ops,
             \/ disks' = IF Verdict(r, e) = "done" THEN [disks EXCEPT ![e] = Changed(r, @)]
                         ELSE disks
             \/ disks' = IF r.kind = "create" THEN [disks EXCEPT ![e].state = "gone"] ELSE disks
      PROVE  disks'[d].size = disks[d].size
  <2>1. r.kind \in {"publish", "unpublish", "expand"}
    BY <1>1, <1>7 DEF VolumesStay, UnderWay
  <2>2. CASE disks' = [disks EXCEPT ![e] = Changed(r, @)] /\ Verdict(r, e) = "done"
    <3>1. CASE e # d
      BY <1>3, <2>2, <3>1
    <3>2. CASE e = d
      BY <1>3, <1>4, <2>1, <2>2, <3>2 DEF Changed, Disk
    <3>3. QED
      BY <3>1, <3>2
  <2>3. CASE disks' = disks
    BY <2>3
  <2>4. QED
    BY <1>7, <2>1, <2>2, <2>3
<1>8. ~\E n \in Nodes : StopInstance(n) \/ StartInstance(n) \/ DeleteInstance(n)
  <2>1. UNCHANGED inst
    BY VolumesStayStep, <1>1 DEF VolumesStay
  <2>2. QED
    BY <1>1, <2>1 DEF StopInstance, StartInstance, DeleteInstance, VolumesStay
<1>9. ASSUME NEW e \in DiskIds, PanelResize(e, disks[e].size + 1)
      PROVE  disks'[d].size = disks[d].size
  BY <1>2, <1>3, <1>9 DEF PanelResize
<1>10. QED
  BY <1>1, <1>5, <1>6, <1>7, <1>8, <1>9, CloudMoves DEF computeVars

(***************************************************************************)
(* The attacher takes away only what the kubelet has unstaged, and an      *)
(* answer that lets it go is one it has asked for.                         *)
(***************************************************************************)
LEMMA StagedStaysAttached ==
    ASSUME ControllerSideInv, StagedIsAttached, ControllerStep
    PROVE  StagedIsAttached'
<1> SUFFICES ASSUME NEW d \in DiskIds, staged'[d] # "no"
             PROVE  va'[<<d, Here>>] = "attached"
  BY DEF StagedIsAttached
<1>1. /\ staged[d] # "no" /\ va[<<d, Here>>] = "attached" /\ <<d, Here>> \in DiskIds \X Nodes
      /\ va \in [DiskIds \X Nodes -> {"none", "attaching", "attached", "detaching"}]
  BY VolumeAssumption
     DEF ControllerStep, ownNodeVars, StagedIsAttached, ControllerSideInv, TypeOK
<1>2. CASE UNCHANGED va
  BY <1>1, <1>2
<1>3. ASSUME NEW r \in Requests, PublishWhereWanted(r)
      PROVE  va'[<<d, Here>>] = "attached"
  <2>1. /\ va[Attachment(r)] \in {"none", "attaching"}
        /\ va' = [va EXCEPT ![Attachment(r)] = "attaching"]
    BY <1>3 DEF PublishWhereWanted, IssuePublish
  <2>2. QED
    BY <1>1, <2>1
<1>4. ASSUME NEW r \in Requests, UnpublishUnused(r)
      PROVE  va'[<<d, Here>>] = "attached"
  <2>1. /\ r.node = Here => staged[r.disk] = "no"
        /\ va' = [va EXCEPT ![Attachment(r)] = "detaching"]
    BY <1>4 DEF UnpublishUnused, IssueUnpublish, N!Unused
  <2>2. Attachment(r) # <<d, Here>>
    BY <1>1, <2>1 DEF Attachment
  <2>3. QED
    BY <1>1, <2>1, <2>2
<1>5. ASSUME NEW r \in Requests, TakeAnswer(r), ~UNCHANGED va
      PROVE  va'[<<d, Here>>] = "attached"
  <2>1. /\ pc[r] = "answered"
        /\ \/ r.kind = "publish" /\ va' = [va EXCEPT ![Attachment(r)] = "attached"]
           \/ r.kind = "unpublish" /\ va' = [va EXCEPT ![Attachment(r)] = "none"]
    BY <1>5 DEF TakeAnswer, Receive, sidecarVars
  <2>2. CASE r.kind = "publish" /\ va' = [va EXCEPT ![Attachment(r)] = "attached"]
    BY <1>1, <2>2
  <2>3. CASE r.kind = "unpublish" /\ va' = [va EXCEPT ![Attachment(r)] = "none"]
    <3>1. va[Attachment(r)] = "detaching"
      BY <2>1, <2>3 DEF ControllerSideInv, AttachInv, CallIsWanted, AboutAttachment
    <3>2. QED
      BY <1>1, <2>3, <3>1
  <2>4. QED
    BY <2>1, <2>2, <2>3
<1>6. QED
  BY <1>2, <1>3, <1>4, <1>5
     DEF ControllerStep, IssueExpand, Handle, FailCall, Work, FailOp, Restart, Disrupt,
         sidecarVars

(***************************************************************************)
(* The kubelet is told of a resize when it is recorded, before it could    *)
(* take its file system for large enough.                                  *)
(***************************************************************************)
LEMMA RecordedSizesFollow ==
    ASSUME ControllerSideInv, NodeSideInv, ControllerStep
    PROVE  SizesFollow'
<1> SUFFICES ASSUME NEW name \in Names, NEW d \in DiskIds, pv'[name].disk = d,
                    mode'[d] # "block", content'[d] # "blank", d \notin expanding'
             PROVE  pv'[name].size <= fsSize'[d]
  BY DEF SizesFollow
<1>1. pv \in [Names -> PV] /\ res \in [Requests -> Answers]
  BY DEF ControllerSideInv, TypeOK, ControllerTypeOK
<1>2. UNCHANGED <<mode, content, fsSize>> /\ expanding \subseteq expanding'
  BY DEF ControllerStep, ownNodeVars, TakeAnswer
<1>3. pv[name].disk = d => pv[name].size <= fsSize[d]
  BY <1>2 DEF NodeSideInv, SizesFollow
<1>4. CASE UNCHANGED pv
  BY <1>2, <1>3, <1>4
<1>5. ASSUME NEW r \in Requests, TakeAnswer(r), ~UNCHANGED pv
      PROVE  pv'[name].size <= fsSize'[d]
  <2>1. pc[r] = "answered" /\ res[r].code = "ok" /\ pv' = Recorded(r, res[r])
    BY <1>5 DEF TakeAnswer, Receive, sidecarVars
  <2>2. r.kind = "expand"
    BY <1>5, <2>1 DEF ControllerSideInv, VolumesStay, UnderWay, Recorded
  <2>3. r.disk \in expanding'
    BY <1>5, <2>1, <2>2 DEF TakeAnswer
  <2>4. pv'[name] = IF pv[name].disk = r.disk
                    THEN [pv[name] EXCEPT !.size = res[r].size] ELSE pv[name]
    BY <2>1, <2>2 DEF Recorded
  <2>5. pv'[name].disk = pv[name].disk
    BY <1>1, <2>4 DEF PV
  <2>6. QED
    BY <1>2, <1>3, <2>3, <2>4, <2>5
<1>6. QED
  BY <1>4, <1>5
     DEF ControllerStep, PublishWhereWanted, UnpublishUnused, IssuePublish, IssueUnpublish,
         IssueExpand, Handle, FailCall, Work, FailOp, Restart, Disrupt, sidecarVars

(***************************************************************************)
(* A step of the controller side leaves the node side as it is.            *)
(***************************************************************************)
LEMMA ControllerKeepsNodeSide ==
    ASSUME ControllerSideInv, NodeSideInv, ControllerStep
    PROVE  NodeSideInv'
<1>1. UNCHANGED <<mode, content, fsSize, mounts, call, nodePc, nodeRes,
                  pod, staged, published, awaited, written>>
  BY DEF ControllerStep, ownNodeVars
<1>2. expanding' \subseteq DiskIds
  BY RequestFields DEF ControllerStep, TakeAnswer, NodeSideInv, NodeSideTypes
<1>3. NodeSideTypes'
  BY <1>1, <1>2 DEF NodeSideInv, NodeSideTypes
<1>4. CallsAreAwaited' /\ KubeletKnows'
  BY <1>1 DEF NodeSideInv, CallsAreAwaited, KubeletKnows
<1>5. MountsAreKnown'
  BY <1>1 DEF NodeSideInv, MountsAreKnown, StagedMount, N!IsBlock
<1>6. GoroutinesKnow'
  <2> SUFFICES ASSUME NEW g \in awaited
               PROVE  GoroutineKnows(g)'
    BY <1>1 DEF GoroutinesKnow
  <2>1. GoroutineKnows(g)
    BY DEF NodeSideInv, GoroutinesKnow
  <2>2. call[g].kind = "expand" =>
           /\ call[g].volume \in DiskIds /\ staged[call[g].volume] # "no"
           /\ disks'[call[g].volume].size = disks[call[g].volume].size
    <3>1. call[g].volume \in DiskIds
      BY DEF NodeSideInv, CallsAreAwaited, N!Call
    <3>2. call[g].kind = "expand" => staged[call[g].volume] # "no"
      BY DEF NodeSideInv, KubeletKnows
    <3>3. QED
      BY <3>1, <3>2, StagedKeepsItsSize DEF NodeSideInv
  <2>3. QED
    BY <1>1, <2>1, <2>2 DEF GoroutineKnows, StagedMount, N!IsBlock, N!PathOf
<1>7. StagedIsAttached'
  BY StagedStaysAttached DEF NodeSideInv
<1>8. SizesFollow'
  BY RecordedSizesFollow
<1>9. DataSurvives'
  BY <1>1 DEF NodeSideInv, DataSurvives, N!DataSurvives
<1>10. QED
  BY <1>3, <1>4, <1>5, <1>6, <1>7, <1>8, <1>9 DEF NodeSideInv

-----------------------------------------------------------------------------
(* What a goroutine of the node does *)

(***************************************************************************)
(* Every volume has a staging path and every pod a target path of its own. *)
(***************************************************************************)
LEMMA PathsAreDistinct ==
    /\ \A d \in DiskIds : N!Staging(d) \in N!Paths
    /\ \A p \in Pods : N!Target(p) \in N!Paths
    /\ \A d, p : N!Staging(d) # N!Target(p)
    /\ \A d, e : N!Staging(d) = N!Staging(e) => d = e
    /\ \A p, q : N!Target(p) = N!Target(q) => p = q
BY DEF N!Paths, N!Staging, N!Target

(***************************************************************************)
(* A call is about a volume, and about the path that goes with it.         *)
(***************************************************************************)
LEMMA CallFacts ==
    ASSUME CallsAreAwaited, NEW g \in awaited
    PROVE  /\ call[g].volume \in DiskIds
           /\ call[g].kind \in {"stage", "unstage", "expand", "publish", "unpublish"}
           /\ call[g].kind \in {"stage", "unstage", "expand"} =>
                 N!PathOf(call[g]) = N!Staging(call[g].volume)
           /\ call[g].kind \in {"publish", "unpublish"} =>
                 /\ N!PathOf(call[g]) = N!Target(call[g].pod)
                 /\ call[g].pod \in Pods /\ Uses[call[g].pod] = call[g].volume
           /\ N!PathOf(call[g]) \in N!Paths
<1>1. /\ call[g] \in N!Call
      /\ call[g].kind \in {"publish", "unpublish"} => Uses[call[g].pod] = call[g].volume
  BY DEF CallsAreAwaited
<1>2. QED
  BY <1>1, PathsAreDistinct DEF N!Call, N!PathOf

(***************************************************************************)
(* A goroutine goes on to a command, or to its answer.                     *)
(***************************************************************************)
GoesOn(g) ==
    /\ g \in awaited /\ UNCHANGED <<mode, call>>
    /\ nodePc' = [nodePc EXCEPT ![g] = nodePc'[g]] /\ nodePc'[g] \in N!Commands \ {"idle"}
    /\ nodeRes' = [nodeRes EXCEPT ![g] = nodeRes'[g]] /\ nodeRes'[g] \in {"none", "ok", "failed"}

(***************************************************************************)
(* A goroutine that runs a command goes on to it.                          *)
(***************************************************************************)
LEMMA RunGoesOn ==
    ASSUME NodeSideTypes, CallsAreAwaited, NEW g \in Goroutines, nodePc[g] # "idle",
           UNCHANGED mode, NEW next \in N!Commands \ {"idle"}, N!Run(g, next)
    PROVE  GoesOn(g) /\ nodePc'[g] = next
<1>1. nodePc' = [nodePc EXCEPT ![g] = next] /\ UNCHANGED <<call, nodeRes>>
  BY DEF N!Run
<1>2. nodePc'[g] = next /\ nodeRes'[g] = nodeRes[g]
  BY <1>1 DEF NodeSideTypes
<1>3. g \in awaited
  BY DEF CallsAreAwaited
<1>4. QED
  BY <1>1, <1>2, <1>3 DEF GoesOn, NodeSideTypes

(***************************************************************************)
(* A goroutine that replies goes on to its answer.                         *)
(***************************************************************************)
LEMMA ReplyGoesOn ==
    ASSUME NodeSideTypes, CallsAreAwaited, NEW g \in Goroutines, nodePc[g] # "idle",
           UNCHANGED mode, NEW code \in {"ok", "failed"}, N!Reply(g, code)
    PROVE  GoesOn(g) /\ nodePc'[g] = "answered" /\ nodeRes'[g] = code
<1>1. /\ nodePc' = [nodePc EXCEPT ![g] = "answered"]
      /\ nodeRes' = [nodeRes EXCEPT ![g] = code] /\ UNCHANGED call
  BY DEF N!Reply
<1>2. nodePc'[g] = "answered" /\ nodeRes'[g] = code
  BY <1>1 DEF NodeSideTypes
<1>3. g \in awaited
  BY DEF CallsAreAwaited
<1>4. QED
  BY <1>1, <1>2, <1>3 DEF GoesOn, N!Commands

(***************************************************************************)
(* What it does to the node: nothing; mkfs on a blank volume; growing a    *)
(* file system to the size of its disk; a mount, or the end of one.        *)
(***************************************************************************)
Looks == UNCHANGED <<content, fsSize, mounts>>

Formats(v) ==
    /\ content[v] = "blank" /\ UNCHANGED mounts
    /\ \E x \in {"blank", "formatted"}, size \in Int :
          /\ content' = [content EXCEPT ![v] = x]
          /\ fsSize' = [fsSize EXCEPT ![v] = size]
          /\ x = "formatted" => size = disks[v].size

Grows(v) ==
    /\ UNCHANGED <<content, mounts>>
    /\ fsSize' = [fsSize EXCEPT ![v] = disks[v].size]

Mounts(c) ==
    /\ UNCHANGED <<content, fsSize>>
    /\ mounts' = [mounts EXCEPT ![N!PathOf(c)] = IF c.kind \in N!Unmounts
                                                 THEN <<>> ELSE <<c.volume>>]
    /\ c.kind = "stage" => ~N!IsBlock(c.volume) /\ content[c.volume] # "blank"
    /\ c.kind # "expand"

Effect(g) ==
    /\ GoesOn(g)
    /\ Looks \/ Formats(call[g].volume) \/ Grows(call[g].volume) \/ Mounts(call[g])
    /\ GoroutineKnows(g)'

(***************************************************************************)
(* A command that only looks: what the goroutine knows next.               *)
(***************************************************************************)
LEMMA LookingIsEffect ==
    ASSUME NEW g \in awaited, GoesOn(g), Looks, UNCHANGED disks, GoroutineKnows(g),
           nodePc'[g] \in {"blkid", "mkfs", "formatting", "fsck"} => call[g].kind = "stage",
           nodePc'[g] = "umount" => call[g].kind \in N!Unmounts,
           call[g].kind = "stage" /\ nodePc'[g] # "answered" => ~N!IsBlock(call[g].volume),
           nodePc'[g] \in {"mkfs", "formatting"} => content[call[g].volume] = "blank",
           nodePc'[g] = "mount" => mounts[N!PathOf(call[g])] = <<>>,
           nodePc'[g] = "answered" /\ nodeRes'[g] = "ok" =>
              /\ call[g].kind = "stage" =>
                    StagedMount(call[g].volume) \/ N!IsBlock(call[g].volume)
              /\ call[g].kind = "publish" => mounts[N!PathOf(call[g])] = <<call[g].volume>>
              /\ call[g].kind \in N!Unmounts => mounts[N!PathOf(call[g])] = <<>>
              /\ call[g].kind = "expand" => N!IsBlock(call[g].volume)
    PROVE  Effect(g)
<1>1. UNCHANGED <<mode, call, content, fsSize, mounts, disks>>
  BY DEF GoesOn, Looks
<1>2. GoroutineKnows(g)'
  BY <1>1 DEF GoroutineKnows, StagedMount, N!IsBlock, N!PathOf
<1>3. QED
  BY <1>2 DEF Effect

(***************************************************************************)
(* NodeStageVolume up to its mount, mkfs apart: with the device there,     *)
(* blkid tells whether the volume is blank (node.go:136-190).              *)
(***************************************************************************)
LEMMA StageCommands ==
    ASSUME ControllerSideInv, NodeSideInv, UNCHANGED disks, NEW g \in Goroutines,
           \/ N!NodeStageVolume(g) \/ N!IsFormatted(g)
           \/ N!CheckAndRepairFilesystem(g) \/ N!StageIsMounted(g)
    PROVE  Effect(g)
<1> DEFINE v == call[g].volume
<1>1. NodeSideTypes /\ CallsAreAwaited /\ MountsAreKnown
  BY DEF NodeSideInv
<1>2. /\ nodePc[g] # "idle" /\ g \in awaited /\ call[g].kind = "stage"
      /\ UNCHANGED mode /\ Looks
  BY <1>1 DEF N!NodeStageVolume, N!IsFormatted, N!CheckAndRepairFilesystem,
              N!StageIsMounted, N!At, N!machineVars, N!diskVars, N!storeVars, Looks,
              CallsAreAwaited
<1>3. /\ GoroutineKnows(g) /\ v \in DiskIds
      /\ N!PathOf(call[g]) = N!Staging(v) /\ staged[v] = "uncertain"
  BY <1>1, <1>2, CallFacts DEF NodeSideInv, GoroutinesKnow, KubeletKnows
<1>4. ASSUME NEW next \in N!Commands \ {"idle", "answered"}, N!Run(g, next),
             ~N!IsBlock(v), next \notin {"umount", "formatting"},
             next = "mkfs" => content[v] = "blank",
             next = "mount" => mounts[N!Staging(v)] = <<>>
      PROVE  Effect(g)
  <2>1. GoesOn(g) /\ nodePc'[g] = next
    BY <1>1, <1>2, <1>4, RunGoesOn
  <2>2. QED
    BY <1>2, <1>3, <1>4, <2>1, LookingIsEffect
<1>5. ASSUME N!Reply(g, "ok"), N!IsBlock(v) \/ StagedMount(v)
      PROVE  Effect(g)
  <2>1. GoesOn(g) /\ nodePc'[g] = "answered"
    BY <1>1, <1>2, <1>5, ReplyGoesOn
  <2>2. QED
    BY <1>2, <1>3, <1>5, <2>1, LookingIsEffect DEF N!Unmounts
<1>6. CASE N!NodeStageVolume(g)
  <2>1. CASE N!IsBlock(v)
    BY <1>5, <1>6, <2>1 DEF N!NodeStageVolume
  <2>2. CASE ~N!IsBlock(v)
    BY <1>4, <1>6, <2>2 DEF N!NodeStageVolume, N!Commands
  <2>3. QED
    BY <2>1, <2>2
<1>7. CASE N!IsFormatted(g)
  <2>1. nodePc[g] = "blkid" /\ ~N!IsBlock(v)
    BY <1>2, <1>3, <1>7 DEF N!IsFormatted, N!At, GoroutineKnows
  <2>2. Device[v] = "present"
    BY <1>3, StagedIsHeld DEF NodeSideInv
  <2>3. N!Run(g, IF content[v] # "blank" THEN "fsck" ELSE "mkfs")
    BY <1>7, <2>2 DEF N!IsFormatted
  <2>4. QED
    BY <1>4, <2>1, <2>3 DEF N!Commands
<1>8. CASE N!CheckAndRepairFilesystem(g)
  <2>1. ~N!IsBlock(v) /\ N!Run(g, "findmnt")
    BY <1>2, <1>3, <1>8 DEF N!CheckAndRepairFilesystem, N!At, GoroutineKnows
  <2>2. QED
    BY <1>4, <2>1 DEF N!Commands
<1>9. CASE N!StageIsMounted(g)
  <2>1. ~N!IsBlock(v)
    BY <1>2, <1>3, <1>9 DEF N!StageIsMounted, N!At, GoroutineKnows
  <2>2. CASE mounts[N!Staging(v)] = <<>>
    BY <1>3, <1>4, <1>9, <2>1, <2>2 DEF N!StageIsMounted, N!IsMounted, N!Commands
  <2>3. CASE mounts[N!Staging(v)] # <<>>
    <3>1. StagedMount(v)
      BY <1>1, <1>3, <2>3 DEF MountsAreKnown
    <3>2. QED
      BY <1>3, <1>5, <1>9, <2>3, <3>1 DEF N!StageIsMounted, N!IsMounted
  <2>4. QED
    BY <2>2, <2>3
<1>10. QED
  BY <1>6, <1>7, <1>8, <1>9

(***************************************************************************)
(* mkfs is run for a blank volume only (node.go:159-176), and makes a file *)
(* system as large as the device.                                          *)
(***************************************************************************)
LEMMA FormatCommands ==
    ASSUME ControllerSideInv, NodeSideInv, UNCHANGED disks, NEW g \in Goroutines,
           N!Format(g) \/ N!FormatDone(g)
    PROVE  Effect(g)
<1> DEFINE v == call[g].volume
<1>1. NodeSideTypes /\ CallsAreAwaited /\ MountsAreKnown
  BY DEF NodeSideInv
<1>2. /\ nodePc[g] \in {"mkfs", "formatting"} /\ g \in awaited /\ call[g].kind = "stage"
      /\ UNCHANGED <<mode, mounts>>
  BY <1>1 DEF N!Format, N!FormatDone, N!At, N!diskVars, CallsAreAwaited
<1>3. GoroutineKnows(g) /\ v \in DiskIds
  BY <1>1, <1>2, CallFacts DEF NodeSideInv, GoroutinesKnow
<1>4. content[v] = "blank" /\ ~N!IsBlock(v)
  BY <1>2, <1>3 DEF GoroutineKnows
<1>5. CASE N!Reply(g, "failed") /\ UNCHANGED N!storeVars
  <2>1. GoesOn(g) /\ nodePc'[g] = "answered" /\ nodeRes'[g] = "failed"
    BY <1>1, <1>2, <1>5, ReplyGoesOn
  <2>2. Looks
    BY <1>2, <1>5 DEF Looks, N!storeVars
  <2>3. QED
    BY <1>2, <1>3, <2>1, <2>2, LookingIsEffect
<1>6. ASSUME NEW x \in {"blank", "formatted"}, NEW size \in Int,
             x = "formatted" => size = disks[v].size,
             content' = [content EXCEPT ![v] = x], fsSize' = [fsSize EXCEPT ![v] = size],
             NEW next \in {"formatting", "fsck"}, N!Run(g, next),
             next = "formatting" => x = "blank"
      PROVE  Effect(g)
  <2>1. GoesOn(g) /\ nodePc'[g] = next
    BY <1>1, <1>2, <1>6, RunGoesOn DEF N!Commands
  <2>2. Formats(v)
    BY <1>2, <1>4, <1>6 DEF Formats
  <2>3. content'[v] = x /\ UNCHANGED <<call, mode>>
    BY <1>1, <1>3, <1>6, <2>1 DEF NodeSideTypes, GoesOn
  <2>4. GoroutineKnows(g)'
    BY <1>2, <1>4, <1>6, <2>1, <2>3 DEF GoroutineKnows, N!IsBlock, N!Unmounts
  <2>5. QED
    BY <2>1, <2>2, <2>4 DEF Effect
<1>7. CASE N!Format(g)
  <2>1. \/ N!Reply(g, "failed") /\ UNCHANGED N!storeVars
        \/ /\ content' = [content EXCEPT ![v] = "blank"]
           /\ fsSize' = [fsSize EXCEPT ![v] = 0] /\ N!Run(g, "formatting")
    BY <1>7 DEF N!Format
  <2>2. QED
    BY <1>5, <1>6, <2>1
<1>8. CASE N!FormatDone(g)
  <2>1. \/ N!Reply(g, "failed") /\ UNCHANGED N!storeVars
        \/ /\ content' = [content EXCEPT ![v] = "formatted"]
           /\ fsSize' = [fsSize EXCEPT ![v] = Capacity[v]] /\ N!Run(g, "fsck")
    BY <1>8 DEF N!FormatDone
  <2>2. Capacity[v] = disks[v].size /\ disks[v].size \in Int
    BY <1>3 DEF Capacity, ControllerSideInv, TypeOK, ComputeTypeOK, Disk
  <2>3. QED
    BY <1>5, <1>6, <2>1, <2>2
<1>9. QED
  BY <1>7, <1>8

(***************************************************************************)
(* A mount covers nothing: its path was found empty, and nobody else       *)
(* mounts there meanwhile.                                                 *)
(***************************************************************************)
LEMMA MountCommands ==
    ASSUME ControllerSideInv, NodeSideInv, UNCHANGED disks, NEW g \in Goroutines,
           N!StageMount(g) \/ N!PublishMount(g)
    PROVE  Effect(g)
<1> DEFINE v == call[g].volume
           path == N!PathOf(call[g])
<1>1. NodeSideTypes /\ CallsAreAwaited /\ MountsAreKnown
  BY DEF NodeSideInv
<1>2. /\ nodePc[g] = "mount" /\ g \in awaited /\ call[g].kind \in {"stage", "publish"}
      /\ UNCHANGED <<mode, content, fsSize>>
  BY <1>1 DEF N!StageMount, N!PublishMount, N!At, N!diskVars, N!storeVars, CallsAreAwaited
<1>3. GoroutineKnows(g) /\ v \in DiskIds /\ path \in N!Paths
  BY <1>1, <1>2, CallFacts DEF NodeSideInv, GoroutinesKnow
<1>4. mounts[path] = <<>> /\ (call[g].kind = "stage" => ~N!IsBlock(v))
  BY <1>2, <1>3 DEF GoroutineKnows
<1>5. CASE N!Reply(g, "failed") /\ UNCHANGED mounts
  <2>1. GoesOn(g) /\ nodePc'[g] = "answered" /\ nodeRes'[g] = "failed"
    BY <1>1, <1>2, <1>5, ReplyGoesOn
  <2>2. Looks
    BY <1>2, <1>5 DEF Looks
  <2>3. QED
    BY <1>2, <1>3, <2>1, <2>2, LookingIsEffect
<1>6. ASSUME N!Reply(g, "ok"), mounts' = [mounts EXCEPT ![path] = <<v>> \o mounts[path]],
             call[g].kind = "stage" => content[v] # "blank"
      PROVE  Effect(g)
  <2>1. GoesOn(g) /\ nodePc'[g] = "answered"
    BY <1>1, <1>2, <1>6, ReplyGoesOn
  <2>2. <<v>> \o mounts[path] = <<v>>
    BY <1>4
  <2>3. mounts' = [mounts EXCEPT ![path] = <<v>>]
    BY <1>6, <2>2
  <2>4. mounts'[path] = <<v>> /\ UNCHANGED <<call, mode>>
    BY <1>1, <1>3, <2>1, <2>3 DEF NodeSideTypes, GoesOn
  <2>5. Mounts(call[g])
    BY <1>2, <1>4, <1>6, <2>3 DEF Mounts, N!Unmounts
  <2>6. call[g].kind = "stage" => path = N!Staging(v)
    BY <1>1, <1>2, CallFacts
  <2>7. GoroutineKnows(g)'
    BY <1>2, <2>1, <2>4, <2>6 DEF GoroutineKnows, StagedMount, N!IsBlock, N!Unmounts, N!PathOf
  <2>8. QED
    BY <2>1, <2>5, <2>7 DEF Effect
<1>7. CASE N!StageMount(g)
  <2>1. path = N!Staging(v)
    BY <1>1, <1>2, <1>7, CallFacts DEF N!StageMount, N!At
  <2>2. \/ N!Reply(g, "failed") /\ UNCHANGED mounts
        \/ /\ N!Reply(g, "ok") /\ content[v] # "blank"
           /\ mounts' = [mounts EXCEPT ![path] = <<v>> \o mounts[path]]
    BY <1>7, <2>1 DEF N!StageMount
  <2>3. QED
    BY <1>5, <1>6, <2>2
<1>8. CASE N!PublishMount(g)
  <2> DEFINE source == IF N!IsBlock(v) THEN v ELSE N!Shown(N!Staging(v))
  <2>1. call[g].kind = "publish"
    BY <1>8 DEF N!PublishMount, N!At
  <2>2. source = v
    <3>1. staged[v] = "yes"
      BY <1>1, <1>2, <2>1, CallFacts DEF NodeSideInv, KubeletKnows
    <3>2. N!IsBlock(v) \/ mounts[N!Staging(v)] = <<v>>
      BY <1>1, <1>3, <3>1 DEF MountsAreKnown, StagedMount
    <3>3. Head(<<v>>) = v /\ <<v>> # <<>>
      OBVIOUS
    <3>4. QED
      BY <3>2, <3>3 DEF N!Shown, N!IsMounted
  <2>3. \/ N!Reply(g, "failed") /\ UNCHANGED mounts
        \/ /\ N!Reply(g, "ok")
           /\ mounts' = [mounts EXCEPT ![path] = <<source>> \o mounts[path]]
    BY <1>8 DEF N!PublishMount
  <2>4. QED
    BY <1>5, <1>6, <2>1, <2>2, <2>3
<1>9. QED
  BY <1>7, <1>8

(***************************************************************************)
(* NodePublishVolume up to its mount, NodeUnpublishVolume,                 *)
(* NodeUnstageVolume and NodeExpandVolume.                                 *)
(***************************************************************************)
LEMMA OtherCommands ==
    ASSUME ControllerSideInv, NodeSideInv, UNCHANGED disks, NEW g \in Goroutines,
           \/ N!NodePublishVolume(g) \/ N!PublishIsMounted(g)
           \/ N!NodeUnmountVolume(g) \/ N!UnmountIsMounted(g) \/ N!NodeExpandVolume(g)
    PROVE  Effect(g)
<1> DEFINE v == call[g].volume
           path == N!PathOf(call[g])
<1>1. NodeSideTypes /\ CallsAreAwaited /\ MountsAreKnown
  BY DEF NodeSideInv
<1>2. /\ nodePc[g] # "idle" /\ g \in awaited /\ call[g].kind # "stage"
      /\ UNCHANGED mode /\ Looks
  BY <1>1 DEF N!NodePublishVolume, N!PublishIsMounted, N!NodeUnmountVolume,
              N!UnmountIsMounted, N!NodeExpandVolume, N!Unmounts, N!At, N!machineVars,
              N!diskVars, N!storeVars, Looks, CallsAreAwaited
<1>3. GoroutineKnows(g) /\ v \in DiskIds
  BY <1>1, <1>2, CallFacts DEF NodeSideInv, GoroutinesKnow
<1>4. ASSUME NEW next \in {"findmnt", "mount", "umount", "resize2fs"}, N!Run(g, next),
             next = "umount" => call[g].kind \in N!Unmounts,
             next = "mount" => mounts[path] = <<>>
      PROVE  Effect(g)
  <2>1. GoesOn(g) /\ nodePc'[g] = next
    BY <1>1, <1>2, <1>4, RunGoesOn DEF N!Commands
  <2>2. QED
    BY <1>2, <1>3, <1>4, <2>1, LookingIsEffect
<1>5. ASSUME NEW code \in {"ok", "failed"}, N!Reply(g, code),
             code = "ok" => /\ call[g].kind = "publish" => mounts[path] = <<v>>
                            /\ call[g].kind \in N!Unmounts => mounts[path] = <<>>
                            /\ call[g].kind = "expand" => N!IsBlock(v)
      PROVE  Effect(g)
  <2>1. GoesOn(g) /\ nodePc'[g] = "answered" /\ nodeRes'[g] = code
    BY <1>1, <1>2, <1>5, ReplyGoesOn
  <2>2. QED
    BY <1>2, <1>3, <1>5, <2>1, LookingIsEffect
<1>6. CASE N!NodePublishVolume(g)
  BY <1>4, <1>5, <1>6 DEF N!NodePublishVolume
<1>7. CASE N!PublishIsMounted(g)
  <2>1. call[g].kind = "publish" /\ (N!IsMounted(path) => mounts[path] = <<v>>)
    BY <1>1, <1>2, <1>7, CallFacts DEF N!PublishIsMounted, N!At, N!IsMounted, MountsAreKnown
  <2>2. QED
    BY <1>4, <1>5, <1>7, <2>1 DEF N!PublishIsMounted, N!IsMounted, N!Unmounts
<1>8. CASE N!NodeUnmountVolume(g)
  BY <1>4, <1>8 DEF N!NodeUnmountVolume
<1>9. CASE N!UnmountIsMounted(g)
  BY <1>4, <1>5, <1>9 DEF N!UnmountIsMounted, N!IsMounted, N!Unmounts
<1>10. CASE N!NodeExpandVolume(g)
  <2>1. call[g].kind = "expand" /\ path = N!Staging(v)
    BY <1>1, <1>2, <1>10, CallFacts DEF N!NodeExpandVolume, N!At
  <2>2. N!IsBlock(v) \/ N!IsMounted(path)
    BY <1>3, <2>1 DEF GoroutineKnows, StagedMount, N!IsMounted
  <2>3. \/ N!IsBlock(v) /\ \E code \in {"ok", "failed"} : N!Reply(g, code)
        \/ N!Run(g, "resize2fs")
    BY <1>10, <2>2 DEF N!NodeExpandVolume, N!SaidToBeBlock
  <2>4. CASE N!IsBlock(v) /\ \E code \in {"ok", "failed"} : N!Reply(g, code)
    BY <1>5, <2>1, <2>4 DEF N!Unmounts
  <2>5. CASE N!Run(g, "resize2fs")
    BY <1>4, <2>5
  <2>6. QED
    BY <2>3, <2>4, <2>5
<1>11. QED
  BY <1>6, <1>7, <1>8, <1>9, <1>10

(***************************************************************************)
(* umount bares its path, resize2fs makes a file system as large as the    *)
(* disk.                                                                   *)
(***************************************************************************)
LEMMA EndCommands ==
    ASSUME ControllerSideInv, NodeSideInv, UNCHANGED disks, NEW g \in Goroutines,
           N!Unmount(g) \/ N!Resize(g)
    PROVE  Effect(g)
<1> DEFINE v == call[g].volume
           path == N!PathOf(call[g])
<1>1. NodeSideTypes /\ CallsAreAwaited /\ MountsAreKnown
  BY DEF NodeSideInv
<1>2. nodePc[g] # "idle" /\ g \in awaited /\ UNCHANGED <<mode, content>>
  BY <1>1 DEF N!Unmount, N!Resize, N!At, N!diskVars, N!storeVars, CallsAreAwaited
<1>3. GoroutineKnows(g) /\ v \in DiskIds /\ path \in N!Paths
  BY <1>1, <1>2, CallFacts DEF NodeSideInv, GoroutinesKnow
<1>4. CASE N!Reply(g, "failed") /\ UNCHANGED <<fsSize, mounts>>
  <2>1. GoesOn(g) /\ nodePc'[g] = "answered" /\ nodeRes'[g] = "failed"
    BY <1>1, <1>2, <1>4, ReplyGoesOn
  <2>2. Looks
    BY <1>2, <1>4 DEF Looks
  <2>3. QED
    BY <1>2, <1>3, <2>1, <2>2, LookingIsEffect
<1>5. ASSUME N!Unmount(g), N!IsMounted(path)
      PROVE  Effect(g)
  <2>1. call[g].kind \in N!Unmounts
    BY <1>3, <1>5 DEF N!Unmount, GoroutineKnows
  <2>2. mounts[path] = <<v>>
    BY <1>1, <1>2, <1>5, <2>1, CallFacts
       DEF N!IsMounted, N!Unmounts, MountsAreKnown, StagedMount
  <2>3. Tail(<<v>>) = <<>>
    OBVIOUS
  <2>4. /\ mounts' = [mounts EXCEPT ![path] = <<>>] /\ N!Reply(g, "ok")
        /\ UNCHANGED fsSize
    BY <1>5, <2>2, <2>3 DEF N!Unmount, N!storeVars
  <2>5. GoesOn(g) /\ nodePc'[g] = "answered"
    BY <1>1, <1>2, <2>4, ReplyGoesOn
  <2>6. mounts'[path] = <<>> /\ UNCHANGED <<call, mode>>
    BY <1>1, <1>3, <2>4, <2>5 DEF NodeSideTypes, GoesOn
  <2>7. Mounts(call[g])
    BY <1>2, <2>1, <2>4 DEF Mounts, N!Unmounts
  <2>8. GoroutineKnows(g)'
    BY <2>1, <2>5, <2>6 DEF GoroutineKnows, N!Unmounts, N!PathOf
  <2>9. QED
    BY <2>5, <2>7, <2>8 DEF Effect
<1>6. CASE N!Unmount(g)
  BY <1>4, <1>5, <1>6 DEF N!Unmount, N!storeVars
<1>7. ASSUME N!Resize(g), N!Reply(g, "ok"), fsSize' = [fsSize EXCEPT ![v] = Capacity[v]]
      PROVE  Effect(g)
  <2>1. GoesOn(g) /\ nodePc'[g] = "answered"
    BY <1>1, <1>2, <1>7, ReplyGoesOn
  <2>2. UNCHANGED <<mode, call, content, mounts, disks>> /\ call[g].kind = "expand"
    BY <1>2, <1>7, <2>1 DEF N!Resize, N!At, GoesOn
  <2>3. Capacity[v] = disks[v].size
    BY <1>3 DEF Capacity
  <2>4. Grows(v) /\ fsSize'[v] = disks'[v].size
    BY <1>1, <1>3, <1>7, <2>2, <2>3 DEF Grows, NodeSideTypes
  <2>5. GoroutineKnows(g)'
    BY <1>3, <2>1, <2>2, <2>4 DEF GoroutineKnows, StagedMount, N!IsBlock, N!Unmounts
  <2>6. QED
    BY <2>1, <2>4, <2>5 DEF Effect
<1>8. CASE N!Resize(g)
  BY <1>4, <1>7, <1>8 DEF N!Resize
<1>9. QED
  BY <1>6, <1>8

(***************************************************************************)
(* A command that fails makes the call fail, and nothing else.             *)
(***************************************************************************)
LEMMA FailingCommands ==
    ASSUME NodeSideInv, UNCHANGED disks, NEW g \in Goroutines,
           N!CommandFails(g) \/ N!IsFormattedFails(g)
    PROVE  Effect(g)
<1>1. NodeSideTypes /\ CallsAreAwaited
  BY DEF NodeSideInv
<1>2. nodePc[g] # "idle" /\ g \in awaited /\ UNCHANGED mode /\ Looks /\ N!Reply(g, "failed")
  BY <1>1 DEF N!CommandFails, N!MayFail, N!IsFormattedFails, N!At, N!machineVars,
              N!diskVars, N!storeVars, Looks, CallsAreAwaited
<1>3. GoroutineKnows(g)
  BY <1>2 DEF NodeSideInv, GoroutinesKnow
<1>4. GoesOn(g) /\ nodePc'[g] = "answered" /\ nodeRes'[g] = "failed"
  BY <1>1, <1>2, ReplyGoesOn
<1>5. QED
  BY <1>2, <1>3, <1>4, LookingIsEffect

(***************************************************************************)
(* Every command of the node, failed or not, is one of these.              *)
(***************************************************************************)
LEMMA CommandIsEffect ==
    ASSUME ControllerSideInv, NodeSideInv, UNCHANGED disks, NEW g \in Goroutines,
           N!NodeStep(g) \/ N!CommandFails(g) \/ N!IsFormattedFails(g)
    PROVE  Effect(g)
BY StageCommands, FormatCommands, MountCommands, OtherCommands, EndCommands, FailingCommands
   DEF N!NodeStep

-----------------------------------------------------------------------------
(* What a command leaves as it is *)

(***************************************************************************)
(* Only the volume, and only the path, of the call may change.             *)
(***************************************************************************)
LEMMA EffectIsLocal ==
    ASSUME ControllerSideInv, NodeSideInv, NEW g \in Goroutines, Effect(g)
    PROVE  /\ g \in awaited /\ UNCHANGED <<mode, call>>
           /\ \A d \in DiskIds : d # call[g].volume => UNCHANGED <<content[d], fsSize[d]>>
           /\ \A path \in N!Paths : path # N!PathOf(call[g]) => UNCHANGED mounts[path]
           /\ \A h \in Goroutines : h # g => UNCHANGED <<nodePc[h], nodeRes[h]>>
           /\ nodePc[g] # "idle" /\ nodePc'[g] # "idle"
<1>1. NodeSideTypes /\ CallsAreAwaited /\ g \in awaited
  BY DEF NodeSideInv, Effect, GoesOn
<1>2. call[g].volume \in DiskIds /\ N!PathOf(call[g]) \in N!Paths /\ nodePc[g] # "idle"
  BY <1>1, CallFacts DEF CallsAreAwaited
<1>3. /\ UNCHANGED <<mode, call>> /\ nodePc'[g] # "idle"
      /\ \A h \in Goroutines : h # g => UNCHANGED <<nodePc[h], nodeRes[h]>>
  BY <1>1 DEF Effect, GoesOn, NodeSideTypes
<1>4. \A d \in DiskIds : d # call[g].volume => UNCHANGED <<content[d], fsSize[d]>>
  BY <1>1, <1>2 DEF Effect, Looks, Formats, Grows, Mounts, NodeSideTypes
<1>5. \A path \in N!Paths : path # N!PathOf(call[g]) => UNCHANGED mounts[path]
  BY <1>1, <1>2 DEF Effect, Looks, Formats, Grows, Mounts, NodeSideTypes
<1>6. QED
  BY <1>1, <1>2, <1>3, <1>4, <1>5

(***************************************************************************)
(* The volume, the path and the knowledge of another call are not those.   *)
(***************************************************************************)
LEMMA OthersStillKnow ==
    ASSUME ControllerSideInv, NodeSideInv, UNCHANGED disks, NEW g \in Goroutines, Effect(g),
           NEW h \in awaited, h # g
    PROVE  GoroutineKnows(h)'
<1>1. NodeSideTypes /\ CallsAreAwaited /\ GoroutineKnows(h) /\ h \in Goroutines /\ g \in awaited
  BY EffectIsLocal DEF NodeSideInv, GoroutinesKnow, NodeSideTypes
<1>2. call[h].volume \in DiskIds /\ call[h].volume # call[g].volume
  BY <1>1, CallFacts DEF CallsAreAwaited
<1>3. N!PathOf(call[h]) # N!PathOf(call[g]) /\ N!PathOf(call[h]) \in N!Paths
  BY <1>1, <1>2, CallFacts, PathsAreDistinct
<1>4. /\ N!Staging(call[h].volume) # N!PathOf(call[g])
      /\ N!Staging(call[h].volume) \in N!Paths
  BY <1>1, <1>2, CallFacts, PathsAreDistinct
<1>5. UNCHANGED <<mode, call, nodePc[h], nodeRes[h], disks,
                  content[call[h].volume], fsSize[call[h].volume],
                  mounts[N!PathOf(call[h])], mounts[N!Staging(call[h].volume)]>>
  BY <1>1, <1>2, <1>3, <1>4, EffectIsLocal
<1>6. QED
  BY <1>1, <1>5 DEF GoroutineKnows, StagedMount, N!IsBlock, N!PathOf
(***************************************************************************)
(* A volume that is recorded is no larger than its disk.                   *)
(***************************************************************************)
LEMMA RecordedFits ==
    ASSUME ControllerSideInv, NEW name \in Names, NEW d \in DiskIds, pv[name].disk = d
    PROVE  /\ pv[name].size <= disks[d].size
           /\ pv[name].size \in Int /\ disks[d].size \in Int
<1>1. pv[name].phase \in {"none", "bound"} /\ NoDisk \notin DiskIds
  BY ComputeAssumption DEF ControllerSideInv, VolumesStay
<1>2. pv[name].phase = "bound"
  BY <1>1 DEF ControllerSideInv, ProvisionInv, VolumesKnowTheirDisk
<1>3. pv[name].size <= disks[d].size
  BY <1>2 DEF ControllerSideInv, TruthInv
<1>4. QED
  BY <1>3 DEF ControllerSideInv, TypeOK, ComputeTypeOK, PV, Disk

(***************************************************************************)
(* A command changes only a path that its own call has made uncertain, so  *)
(* what the kubelet knows of mounts stays true.                            *)
(***************************************************************************)
LEMMA EffectKeepsMounts ==
    ASSUME ControllerSideInv, NodeSideInv, UNCHANGED <<staged, published>>,
           NEW g \in Goroutines, Effect(g)
    PROVE  MountsAreKnown'
<1> DEFINE c == call[g]
           v == c.volume
<1>1. NodeSideTypes /\ CallsAreAwaited /\ KubeletKnows /\ MountsAreKnown
  BY DEF NodeSideInv
<1>2. g \in awaited /\ UNCHANGED mode /\ v \in DiskIds /\ N!PathOf(c) \in N!Paths
  BY <1>1, EffectIsLocal, CallFacts
<1>3. Mounts(c) => /\ c.kind \in {"stage", "publish"} => mounts'[N!PathOf(c)] = <<v>>
                   /\ c.kind \in {"unstage", "unpublish"} => mounts'[N!PathOf(c)] = <<>>
                   /\ c.kind \in {"stage", "unstage", "publish", "unpublish"}
                   /\ UNCHANGED content
                   /\ c.kind = "stage" => ~N!IsBlock(v) /\ content[v] # "blank"
  BY <1>1, <1>2, CallFacts DEF Mounts, NodeSideTypes, N!Unmounts
<1>4. ~Mounts(c) => UNCHANGED mounts
  BY DEF Effect, Looks, Formats, Grows
<1>5. ASSUME NEW d \in DiskIds
      PROVE  /\ StagedMount(d)' \/ mounts'[N!Staging(d)] = <<>>
             /\ staged[d] = "no" \/ N!IsBlock(d) => mounts'[N!Staging(d)] = <<>>
             /\ staged[d] \in {"mounted", "yes"} => StagedMount(d)' \/ N!IsBlock(d)
             /\ StagedMount(d)' => content'[d] # "blank"
  <2>1. /\ StagedMount(d) \/ mounts[N!Staging(d)] = <<>>
        /\ staged[d] = "no" \/ N!IsBlock(d) => mounts[N!Staging(d)] = <<>>
        /\ staged[d] \in {"mounted", "yes"} => StagedMount(d) \/ N!IsBlock(d)
        /\ StagedMount(d) => content[d] # "blank"
    BY <1>1 DEF MountsAreKnown
  <2>2. CASE Mounts(c) /\ N!Staging(d) = N!PathOf(c)
    <3>1. c.kind \in {"stage", "unstage"} /\ d = v
      BY <1>1, <1>2, <1>3, <2>2, CallFacts, PathsAreDistinct
    <3>2. staged[d] = "uncertain" /\ <<v>> # <<>>
      BY <1>1, <1>2, <3>1 DEF KubeletKnows
    <3>3. QED
      BY <1>3, <2>2, <3>1, <3>2 DEF StagedMount
  <2>3. CASE UNCHANGED mounts[N!Staging(d)]
    <3>1. content[d] # "blank" => content'[d] # "blank"
      BY <1>1, <1>2, EffectIsLocal DEF Effect, Looks, Formats, Grows, Mounts
    <3>2. QED
      BY <2>1, <2>3, <3>1 DEF StagedMount
  <2>4. QED
    BY <1>4, <2>2, <2>3, EffectIsLocal, PathsAreDistinct
<1>6. ASSUME NEW p \in Pods
      PROVE  /\ mounts'[N!Target(p)] \in {<<>>, <<Uses[p]>>}
             /\ published[p] = "no"  => mounts'[N!Target(p)] = <<>>
             /\ published[p] = "yes" => mounts'[N!Target(p)] = <<Uses[p]>>
  <2>1. CASE Mounts(c) /\ N!Target(p) = N!PathOf(c)
    <3>1. c.kind \in {"publish", "unpublish"} /\ p = c.pod /\ Uses[p] = v
      BY <1>1, <1>2, <1>3, <2>1, CallFacts, PathsAreDistinct
    <3>2. published[p] = "uncertain"
      BY <1>1, <1>2, <3>1 DEF KubeletKnows
    <3>3. QED
      BY <1>3, <2>1, <3>1, <3>2
  <2>2. CASE UNCHANGED mounts[N!Target(p)]
    BY <1>1, <2>2 DEF MountsAreKnown
  <2>3. QED
    BY <1>4, <2>1, <2>2, EffectIsLocal, PathsAreDistinct
<1>7. QED
  BY <1>2, <1>5, <1>6 DEF MountsAreKnown, N!IsBlock

(***************************************************************************)
(* A command keeps the types.                                              *)
(***************************************************************************)
LEMMA EffectKeepsTypes ==
    ASSUME ControllerSideInv, NodeSideInv, NEW g \in Goroutines, Effect(g),
           UNCHANGED <<staged, published, awaited, expanding, written>>
    PROVE  NodeSideTypes'
<1>1. NodeSideTypes /\ CallsAreAwaited
  BY DEF NodeSideInv
<1>2. g \in awaited /\ call[g].volume \in DiskIds /\ N!PathOf(call[g]) \in N!Paths
  BY <1>1, EffectIsLocal, CallFacts
<1>3. disks[call[g].volume].size \in Int
  BY <1>2 DEF ControllerSideInv, TypeOK, ComputeTypeOK, Disk
<1>4. content' \in [DiskIds -> {"blank", "formatted", "data"}]
  <2>1. \/ UNCHANGED content
        \/ \E x \in {"blank", "formatted"} : content' = [content EXCEPT ![call[g].volume] = x]
    BY DEF Effect, Looks, Formats, Grows, Mounts
  <2>2. content \in [DiskIds -> {"blank", "formatted", "data"}]
    BY <1>1 DEF NodeSideTypes
  <2>3. QED
    BY <2>1, <2>2
<1>5. fsSize' \in [DiskIds -> Int]
  BY <1>1, <1>2, <1>3 DEF Effect, Looks, Formats, Grows, Mounts, NodeSideTypes
<1>6. mounts' \in [N!Paths -> {<<>>} \cup {<<d>> : d \in DiskIds}]
  <2>1. CASE UNCHANGED mounts
    BY <1>1, <2>1 DEF NodeSideTypes
  <2>2. CASE Mounts(call[g])
    <3>1. (IF call[g].kind \in N!Unmounts THEN <<>> ELSE <<call[g].volume>>)
             \in {<<>>} \cup {<<d>> : d \in DiskIds}
      BY <1>2
    <3>2. QED
      BY <1>1, <2>2, <3>1 DEF NodeSideTypes, Mounts
  <2>3. QED
    BY <2>1, <2>2 DEF Effect, Looks, Formats, Grows
<1>7. /\ nodePc' \in [Goroutines -> N!Commands]
      /\ nodeRes' \in [Goroutines -> {"none", "ok", "failed"}]
  BY <1>1 DEF NodeSideTypes, Effect, GoesOn
<1>8. QED
  BY <1>1, <1>4, <1>5, <1>6, <1>7 DEF NodeSideTypes, Effect, GoesOn
(***************************************************************************)
(* A file system is made, or grown, as large as the disk, and the volume   *)
(* is recorded as no larger; one that holds data is not made again.        *)
(***************************************************************************)
LEMMA EffectKeepsSizesAndData ==
    ASSUME ControllerSideInv, NodeSideInv, NEW g \in Goroutines, Effect(g),
           UNCHANGED <<pv, expanding, written>>
    PROVE  SizesFollow' /\ DataSurvives'
<1> DEFINE v == call[g].volume
<1>1. NodeSideTypes /\ CallsAreAwaited /\ SizesFollow /\ DataSurvives
  BY DEF NodeSideInv
<1>2. g \in awaited /\ UNCHANGED mode /\ v \in DiskIds
  BY <1>1, EffectIsLocal, CallFacts
<1>3. \/ content'[v] = content[v] /\ fsSize'[v] \in {fsSize[v], disks[v].size}
      \/ /\ content[v] = "blank" /\ content'[v] \in {"blank", "formatted"}
         /\ content'[v] = "formatted" => fsSize'[v] = disks[v].size
  <2>1. CASE Looks \/ Mounts(call[g])
    BY <2>1 DEF Looks, Mounts
  <2>2. CASE Grows(v)
    BY <1>1, <1>2, <2>2 DEF Grows, NodeSideTypes
  <2>3. CASE Formats(v)
    <3>1. PICK x \in {"blank", "formatted"}, size \in Int :
             /\ content' = [content EXCEPT ![v] = x] /\ fsSize' = [fsSize EXCEPT ![v] = size]
             /\ x = "formatted" => size = disks[v].size
      BY <2>3 DEF Formats
    <3>2. content'[v] = x /\ fsSize'[v] = size
      BY <1>1, <1>2, <3>1 DEF NodeSideTypes
    <3>3. QED
      BY <2>3, <3>1, <3>2 DEF Formats
  <2>4. QED
    BY <2>1, <2>2, <2>3 DEF Effect
<1>4. SizesFollow'
  <2> SUFFICES ASSUME NEW name \in Names, NEW d \in DiskIds, pv[name].disk = d,
                      mode[d] # "block", content'[d] # "blank", d \notin expanding
               PROVE  pv[name].size <= fsSize'[d]
    BY <1>2 DEF SizesFollow
  <2>1. content[d] # "blank" => pv[name].size <= fsSize[d]
    BY <1>1 DEF SizesFollow
  <2>2. CASE d # v
    BY <2>1, <2>2, EffectIsLocal
  <2>3. CASE d = v
    <3>1. pv[name].size <= disks[d].size
      BY RecordedFits
    <3>2. content'[v] \in {"blank", "formatted"} => content'[v] = "formatted"
      BY <2>3
    <3>3. \/ content'[d] = content[d] /\ fsSize'[d] = fsSize[d]
          \/ fsSize'[d] = disks[d].size
      BY <1>3, <2>3, <3>2
    <3>4. QED
      BY <2>1, <3>1, <3>3
  <2>4. QED
    BY <2>2, <2>3
<1>5. DataSurvives'
  <2> SUFFICES ASSUME NEW d \in written
               PROVE  content'[d] = "data"
    BY DEF DataSurvives, N!DataSurvives
  <2>1. d \in DiskIds /\ content[d] = "data"
    BY <1>1 DEF NodeSideTypes, DataSurvives, N!DataSurvives
  <2>2. QED
    BY <1>3, <2>1, EffectIsLocal
<1>6. QED
  BY <1>4, <1>5

(***************************************************************************)
(* A command keeps what the node side keeps.                               *)
(***************************************************************************)
LEMMA EffectKeepsNodeSide ==
    ASSUME ControllerSideInv, NodeSideInv, NEW g \in Goroutines, Effect(g),
           UNCHANGED <<controllerSide, staged, published, awaited, expanding, written>>
    PROVE  NodeSideInv'
<1>1. UNCHANGED <<disks, pv, va>>
  BY DEF controllerSide, computeVars, sidecarVars
<1>2. NodeSideTypes /\ CallsAreAwaited /\ UNCHANGED call /\ g \in awaited
  BY EffectIsLocal DEF NodeSideInv
<1>3. NodeSideTypes' /\ MountsAreKnown'
  BY EffectKeepsTypes, EffectKeepsMounts
<1>4. CallsAreAwaited'
  <2>1. \A h \in Goroutines : nodePc[h] # "idle" <=> nodePc'[h] # "idle"
    BY EffectIsLocal
  <2>2. QED
    BY <1>2, <2>1 DEF CallsAreAwaited
<1>5. KubeletKnows'
  BY <1>2 DEF NodeSideInv, KubeletKnows
<1>6. GoroutinesKnow'
  <2> SUFFICES ASSUME NEW h \in awaited
               PROVE  GoroutineKnows(h)'
    BY DEF GoroutinesKnow
  <2>1. QED
    BY <1>1, OthersStillKnow DEF Effect
<1>7. StagedIsAttached'
  BY <1>1 DEF NodeSideInv, StagedIsAttached
<1>8. SizesFollow' /\ DataSurvives'
  BY <1>1, EffectKeepsSizesAndData
<1>9. QED
  BY <1>3, <1>4, <1>5, <1>6, <1>7, <1>8 DEF NodeSideInv
-----------------------------------------------------------------------------
(* What the kubelet does *)

(***************************************************************************)
(* A goroutine that is not touched, on a node that is not, knows the same. *)
(***************************************************************************)
LEMMA KnowsTheSame ==
    ASSUME NEW h, GoroutineKnows(h), UNCHANGED <<mode, content, fsSize, mounts, disks>>,
           call'[h] = call[h], nodePc'[h] = nodePc[h], nodeRes'[h] = nodeRes[h]
    PROVE  GoroutineKnows(h)'
BY DEF GoroutineKnows, StagedMount, N!IsBlock, N!PathOf

(***************************************************************************)
(* A call goes to an idle goroutine, and about a volume of no other call.  *)
(***************************************************************************)
LEMMA SendKeepsCalls ==
    ASSUME NodeSideTypes, CallsAreAwaited, GoroutinesKnow, UNCHANGED disks,
           NEW g \in Goroutines, NEW c \in N!Call, N!Send(g, c),
           c.kind \in {"publish", "unpublish"} => Uses[c.pod] = c.volume,
           c.kind = "expand" => StagedMount(c.volume) \/ N!IsBlock(c.volume)
    PROVE  /\ CallsAreAwaited' /\ GoroutinesKnow'
           /\ call'[g] = c /\ g \notin awaited /\ awaited' = awaited \cup {g}
           /\ \A h \in awaited : call'[h] = call[h] /\ call[h].volume # c.volume
           /\ call' \in [Goroutines -> N!Call \cup {NoCall}]
           /\ nodePc' \in [Goroutines -> N!Commands]
           /\ awaited' \subseteq Goroutines
           /\ UNCHANGED <<mode, content, fsSize, mounts, nodeRes, expanding, written>>
<1>1. /\ nodePc[g] = "idle" /\ \A h \in awaited : call[h].volume # c.volume
      /\ call' = [call EXCEPT ![g] = c] /\ nodePc' = [nodePc EXCEPT ![g] = "called"]
      /\ awaited' = awaited \cup {g}
      /\ UNCHANGED <<mode, content, fsSize, mounts, nodeRes, expanding, written>>
  BY DEF N!Send, N!machineVars, N!diskVars, N!storeVars
<1>2. g \notin awaited /\ "called" \in N!Commands \ {"idle"} /\ awaited \subseteq Goroutines
  BY <1>1 DEF CallsAreAwaited, N!Commands, NodeSideTypes
<1>3. /\ call'[g] = c /\ nodePc'[g] = "called"
      /\ \A h \in awaited : call'[h] = call[h] /\ nodePc'[h] = nodePc[h]
      /\ call' \in [Goroutines -> N!Call \cup {NoCall}]
      /\ nodePc' \in [Goroutines -> N!Commands]
  BY <1>1, <1>2 DEF NodeSideTypes
<1>4. CallsAreAwaited'
  <2>1. \A h \in Goroutines : nodePc'[h] # "idle" <=> h \in awaited'
    BY <1>1, <1>2 DEF NodeSideTypes, CallsAreAwaited
  <2>2. QED
    BY <1>1, <1>3, <2>1 DEF CallsAreAwaited
<1>5. GoroutinesKnow'
  <2> SUFFICES ASSUME NEW h \in awaited'
               PROVE  GoroutineKnows(h)'
    BY DEF GoroutinesKnow
  <2>1. CASE h = g
    BY <1>1, <1>3, <2>1 DEF GoroutineKnows, StagedMount, N!IsBlock, N!Unmounts
  <2>2. CASE h \in awaited
    <3>1. GoroutineKnows(h)
      BY <2>2 DEF GoroutinesKnow
    <3>2. QED
      BY <1>1, <1>3, <2>2, <3>1, KnowsTheSame
  <2>3. QED
    BY <1>1, <2>1, <2>2
<1>6. QED
  BY <1>1, <1>2, <1>3, <1>4, <1>5

(***************************************************************************)
(* NodeStageVolume, NodeExpandVolume and NodeUnstageVolume are asked for:  *)
(* the volume is uncertain, and no pod of it is published, unless it is    *)
(* expanded in use.                                                        *)
(***************************************************************************)
LEMMA VolumeCallKeepsNodeSide ==
    ASSUME ControllerSideInv, NodeSideInv, UNCHANGED controllerSide,
           NEW g \in Goroutines, NEW d \in DiskIds,
           StageWhenAttached(g, d) \/ N!Expand(g, d) \/ N!Unstage(g, d)
    PROVE  NodeSideInv'
<1>1. /\ NodeSideTypes /\ CallsAreAwaited /\ GoroutinesKnow /\ KubeletKnows /\ MountsAreKnown
      /\ UNCHANGED <<disks, pv, va>>
  BY DEF NodeSideInv, controllerSide, computeVars, sidecarVars
<1>2. PICK kind \in {"stage", "expand", "unstage"}, level \in {"uncertain", "yes"} :
         /\ N!Send(g, [kind |-> kind, volume |-> d])
         /\ staged' = [staged EXCEPT ![d] = level] /\ UNCHANGED published
         /\ va[<<d, Here>>] = "attached"
         /\ \A p \in Pods : Uses[p] = d /\ published[p] # "no" => level = "yes"
         /\ kind # "expand" => level = "uncertain"
         /\ kind = "expand" \/ level = "yes" => staged[d] \in {"mounted", "yes"}
  <2>1. staged[d] # "no" => va[<<d, Here>>] = "attached"
    BY DEF NodeSideInv, StagedIsAttached
  <2>2. \A p \in Pods : Uses[p] = d /\ published[p] # "no" => staged[d] = "yes"
    BY <1>1 DEF KubeletKnows
  <2>3. CASE StageWhenAttached(g, d)
    BY <2>2, <2>3 DEF StageWhenAttached, N!Stage
  <2>4. CASE N!Expand(g, d)
    <3>1. staged' = [staged EXCEPT ![d] = IF staged[d] = "mounted" THEN "uncertain" ELSE "yes"]
      BY <1>1, <2>4 DEF N!Expand, NodeSideTypes
    <3>2. QED
      BY <2>1, <2>2, <2>4, <3>1 DEF N!Expand
  <2>5. CASE N!Unstage(g, d)
    BY <2>1, <2>5 DEF N!Unstage, N!Users
  <2>6. QED
    BY <2>3, <2>4, <2>5
<1> DEFINE c == [kind |-> kind, volume |-> d]
<1>3. c \in N!Call /\ c.kind = kind /\ c.volume = d
  BY DEF N!Call
<1>4. kind = "expand" => StagedMount(d) \/ N!IsBlock(d)
  BY <1>1, <1>2 DEF MountsAreKnown
<1> HIDE DEF c
<1>5. /\ CallsAreAwaited' /\ GoroutinesKnow'
      /\ call'[g] = c /\ g \notin awaited /\ awaited' = awaited \cup {g}
      /\ \A h \in awaited : call'[h] = call[h] /\ call[h].volume # d
      /\ call' \in [Goroutines -> N!Call \cup {NoCall}]
      /\ nodePc' \in [Goroutines -> N!Commands]
      /\ awaited' \subseteq Goroutines
      /\ UNCHANGED <<mode, content, fsSize, mounts, nodeRes, expanding, written>>
  <2>1. N!Send(g, c) /\ c.kind \notin {"publish", "unpublish"}
    BY <1>2, <1>3 DEF c
  <2>2. QED
    BY <1>1, <1>3, <1>4, <2>1, SendKeepsCalls
<1>6. staged'[d] = level /\ \A e \in DiskIds : e # d => staged'[e] = staged[e]
  BY <1>1, <1>2 DEF NodeSideTypes
<1>7. NodeSideTypes'
  BY <1>1, <1>2, <1>5 DEF NodeSideTypes, N!Known
<1>8. KubeletKnows'
  <2>1. \A p \in Pods : published[p] # "no" => staged'[Uses[p]] = "yes"
    BY <1>1, <1>2, <1>6, VolumeAssumption DEF KubeletKnows
  <2>2. ASSUME NEW h \in awaited
        PROVE  /\ call[h].kind \in {"stage", "unstage"} => staged'[call[h].volume] = "uncertain"
               /\ call[h].kind = "expand" => staged'[call[h].volume] \in {"uncertain", "yes"}
               /\ call[h].kind \in {"publish", "unpublish"} =>
                     published[call[h].pod] = "uncertain"
    BY <1>1, <1>5, <1>6, CallFacts DEF KubeletKnows
  <2>3. QED
    BY <1>2, <1>3, <1>5, <1>6, <2>1, <2>2 DEF KubeletKnows
<1>9. MountsAreKnown'
  <2>1. \A p \in Pods : /\ mounts[N!Target(p)] \in {<<>>, <<Uses[p]>>}
                        /\ published[p] = "no"  => mounts[N!Target(p)] = <<>>
                        /\ published[p] = "yes" => mounts[N!Target(p)] = <<Uses[p]>>
    BY <1>1 DEF MountsAreKnown
  <2>2. ASSUME NEW e \in DiskIds
        PROVE  /\ StagedMount(e) \/ mounts[N!Staging(e)] = <<>>
               /\ staged'[e] = "no" \/ N!IsBlock(e) => mounts[N!Staging(e)] = <<>>
               /\ staged'[e] \in {"mounted", "yes"} => StagedMount(e) \/ N!IsBlock(e)
               /\ StagedMount(e) => content[e] # "blank"
    BY <1>1, <1>2, <1>6 DEF MountsAreKnown
  <2>3. QED
    BY <1>2, <1>5, <2>1, <2>2 DEF MountsAreKnown, StagedMount, N!IsBlock
<1>10. StagedIsAttached'
  BY <1>1, <1>2, <1>6 DEF NodeSideInv, StagedIsAttached
<1>11. SizesFollow' /\ DataSurvives'
  BY <1>1, <1>5 DEF NodeSideInv, SizesFollow, DataSurvives, N!DataSurvives
<1>12. QED
  BY <1>5, <1>7, <1>8, <1>9, <1>10, <1>11 DEF NodeSideInv
(***************************************************************************)
(* NodePublishVolume of a staged volume, and NodeUnpublishVolume, are      *)
(* asked for: what is on the path of the pod is uncertain.                 *)
(***************************************************************************)
LEMMA PodCallKeepsNodeSide ==
    ASSUME ControllerSideInv, NodeSideInv, UNCHANGED controllerSide,
           NEW g \in Goroutines, NEW p \in Pods, N!Publish(g, p) \/ N!Unpublish(g, p)
    PROVE  NodeSideInv'
<1>1. /\ NodeSideTypes /\ CallsAreAwaited /\ GoroutinesKnow /\ KubeletKnows /\ MountsAreKnown
      /\ UNCHANGED <<disks, pv, va>>
  BY DEF NodeSideInv, controllerSide, computeVars, sidecarVars
<1>2. PICK kind \in {"publish", "unpublish"} :
         /\ N!Send(g, [kind |-> kind, volume |-> Uses[p], pod |-> p])
         /\ published' = [published EXCEPT ![p] = "uncertain"] /\ UNCHANGED staged
         /\ staged[Uses[p]] = "yes"
  BY <1>1 DEF N!Publish, N!Unpublish, KubeletKnows
<1> DEFINE c == [kind |-> kind, volume |-> Uses[p], pod |-> p]
<1>3. /\ c \in N!Call /\ c.kind = kind /\ c.volume = Uses[p] /\ c.pod = p
      /\ Uses[p] \in DiskIds
  BY VolumeAssumption DEF N!Call
<1>4. N!Send(g, c)
  BY <1>2
<1> HIDE DEF c
<1>5. /\ CallsAreAwaited' /\ GoroutinesKnow'
      /\ call'[g] = c /\ g \notin awaited /\ awaited' = awaited \cup {g}
      /\ \A h \in awaited : call'[h] = call[h] /\ call[h].volume # Uses[p]
      /\ call' \in [Goroutines -> N!Call \cup {NoCall}]
      /\ nodePc' \in [Goroutines -> N!Commands]
      /\ awaited' \subseteq Goroutines
      /\ UNCHANGED <<mode, content, fsSize, mounts, nodeRes, expanding, written>>
  BY <1>1, <1>3, <1>4, SendKeepsCalls
<1>6. published'[p] = "uncertain" /\ \A q \in Pods : q # p => published'[q] = published[q]
  BY <1>1, <1>2 DEF NodeSideTypes
<1>7. NodeSideTypes'
  BY <1>1, <1>2, <1>5 DEF NodeSideTypes, N!Known
<1>8. KubeletKnows'
  <2>1. \A q \in Pods : published'[q] # "no" => staged[Uses[q]] = "yes"
    BY <1>1, <1>2, <1>6 DEF KubeletKnows
  <2>2. ASSUME NEW h \in awaited
        PROVE  /\ call[h].kind \in {"stage", "unstage"} => staged[call[h].volume] = "uncertain"
               /\ call[h].kind = "expand" => staged[call[h].volume] \in {"uncertain", "yes"}
               /\ call[h].kind \in {"publish", "unpublish"} =>
                     published'[call[h].pod] = "uncertain"
    BY <1>1, <1>6, CallFacts DEF KubeletKnows
  <2>3. QED
    BY <1>2, <1>3, <1>5, <1>6, <2>1, <2>2 DEF KubeletKnows
<1>9. MountsAreKnown'
  <2>1. \A d \in DiskIds :
           /\ StagedMount(d) \/ mounts[N!Staging(d)] = <<>>
           /\ staged[d] = "no" \/ N!IsBlock(d) => mounts[N!Staging(d)] = <<>>
           /\ staged[d] \in {"mounted", "yes"} => StagedMount(d) \/ N!IsBlock(d)
           /\ StagedMount(d) => content[d] # "blank"
    BY <1>1 DEF MountsAreKnown
  <2>2. \A q \in Pods : /\ mounts[N!Target(q)] \in {<<>>, <<Uses[q]>>}
                        /\ published'[q] = "no"  => mounts[N!Target(q)] = <<>>
                        /\ published'[q] = "yes" => mounts[N!Target(q)] = <<Uses[q]>>
    BY <1>1, <1>6 DEF MountsAreKnown
  <2>3. QED
    BY <1>2, <1>5, <2>1, <2>2 DEF MountsAreKnown, StagedMount, N!IsBlock
<1>10. StagedIsAttached'
  BY <1>1, <1>2 DEF NodeSideInv, StagedIsAttached
<1>11. SizesFollow' /\ DataSurvives'
  BY <1>1, <1>5 DEF NodeSideInv, SizesFollow, DataSurvives, N!DataSurvives
<1>12. QED
  BY <1>5, <1>7, <1>8, <1>9, <1>10, <1>11 DEF NodeSideInv

(***************************************************************************)
(* Pods come and go, and write to their volume.                            *)
(***************************************************************************)
LEMMA PodKeepsNodeSide ==
    ASSUME ControllerSideInv, NodeSideInv, UNCHANGED controllerSide, NEW p \in Pods,
           N!StartPod(p) \/ N!DeletePod(p) \/ N!Write(p)
    PROVE  NodeSideInv'
<1> DEFINE v == Uses[p]
<1>1. /\ NodeSideTypes /\ CallsAreAwaited /\ GoroutinesKnow /\ KubeletKnows /\ MountsAreKnown
      /\ UNCHANGED <<disks, pv, va>>
      /\ v \in DiskIds
  BY VolumeAssumption DEF NodeSideInv, controllerSide, computeVars, sidecarVars
<1>2. UNCHANGED <<mode, fsSize, mounts, call, nodePc, nodeRes, staged, published,
                  awaited, expanding>>
  BY DEF N!StartPod, N!DeletePod, N!Write, N!nodeVars, N!machineVars, N!diskVars,
         N!storeVars, N!goroutineVars
<1>3. \/ UNCHANGED <<content, written>>
      \/ /\ published[p] = "yes" /\ content' = [content EXCEPT ![v] = "data"]
         /\ written' = written \cup {v}
  BY DEF N!StartPod, N!DeletePod, N!Write, N!nodeVars, N!machineVars, N!storeVars
<1>4. /\ \A d \in DiskIds : content'[d] \in {content[d], "data"}
      /\ content' \in [DiskIds -> {"blank", "formatted", "data"}]
      /\ written' \subseteq DiskIds
  BY <1>1, <1>3 DEF NodeSideTypes
<1>5. \A d \in DiskIds :
         \/ content'[d] = content[d]
         \/ staged[d] = "yes" /\ (N!IsBlock(d) \/ content[d] # "blank")
  BY <1>1, <1>3 DEF KubeletKnows, MountsAreKnown, NodeSideTypes
<1>6. NodeSideTypes'
  BY <1>1, <1>2, <1>4 DEF NodeSideTypes
<1>7. CallsAreAwaited' /\ KubeletKnows'
  BY <1>1, <1>2 DEF CallsAreAwaited, KubeletKnows
<1>8. MountsAreKnown'
  <2>1. \A d \in DiskIds : content[d] # "blank" => content'[d] # "blank"
    BY <1>4
  <2>2. QED
    BY <1>1, <1>2, <2>1 DEF MountsAreKnown, StagedMount, N!IsBlock
<1>9. GoroutinesKnow'
  <2> SUFFICES ASSUME NEW h \in awaited
               PROVE  GoroutineKnows(h)'
    BY <1>2 DEF GoroutinesKnow
  <2>1. GoroutineKnows(h) /\ call[h].volume \in DiskIds
    BY <1>1, CallFacts DEF GoroutinesKnow
  <2>2. nodePc[h] \in {"mkfs", "formatting"} => staged[call[h].volume] = "uncertain"
    BY <1>1, <2>1 DEF GoroutineKnows, KubeletKnows
  <2>3. nodePc[h] \in {"mkfs", "formatting"} => content'[call[h].volume] = content[call[h].volume]
    BY <1>5, <2>1, <2>2
  <2>4. QED
    BY <1>1, <1>2, <2>1, <2>3 DEF GoroutineKnows, StagedMount, N!IsBlock, N!PathOf
<1>10. StagedIsAttached'
  BY <1>1, <1>2 DEF NodeSideInv, StagedIsAttached
<1>11. SizesFollow'
  <2> SUFFICES ASSUME NEW name \in Names, NEW d \in DiskIds, pv[name].disk = d,
                      mode[d] # "block", content'[d] # "blank", d \notin expanding
               PROVE  pv[name].size <= fsSize[d]
    BY <1>1, <1>2 DEF SizesFollow
  <2>1. content[d] # "blank"
    BY <1>5 DEF N!IsBlock
  <2>2. QED
    BY <2>1 DEF NodeSideInv, SizesFollow
<1>12. DataSurvives'
  BY <1>1, <1>3 DEF NodeSideInv, NodeSideTypes, DataSurvives, N!DataSurvives
<1>13. QED
  BY <1>6, <1>7, <1>8, <1>9, <1>10, <1>11, <1>12 DEF NodeSideInv
(***************************************************************************)
(* What the kubelet learns from an OK is so.                               *)
(***************************************************************************)
LEMMA LearnedIsTrue ==
    ASSUME ControllerSideInv, NodeSideInv, UNCHANGED <<mode, content, fsSize, mounts, pv>>,
           NEW g \in awaited, nodePc[g] = "answered", nodeRes[g] = "ok", N!Learn(call[g])
    PROVE  /\ staged' \in [DiskIds -> N!Known \cup {"mounted"}]
           /\ published' \in [Pods -> N!Known]
           /\ expanding' \subseteq expanding
           /\ \A d \in DiskIds : d # call[g].volume => staged'[d] = staged[d]
           /\ \A p \in Pods : Uses[p] # call[g].volume => published'[p] = published[p]
           /\ \A d \in DiskIds : staged'[d] # "no" => staged[d] # "no"
           /\ \A p \in Pods : published'[p] # "no" => staged'[Uses[p]] = "yes"
           /\ MountsAreKnown' /\ SizesFollow'
<1> DEFINE c == call[g]
           v == c.volume
<1>1. /\ NodeSideTypes /\ CallsAreAwaited /\ KubeletKnows /\ MountsAreKnown
      /\ GoroutineKnows(g)
  BY DEF NodeSideInv, GoroutinesKnow
<1>2. /\ v \in DiskIds /\ c.kind \in {"stage", "unstage", "expand", "publish", "unpublish"}
      /\ c.kind \in {"publish", "unpublish"} => c.pod \in Pods /\ Uses[c.pod] = v
      /\ c.kind \in {"stage", "unstage", "expand"} => N!PathOf(c) = N!Staging(v)
      /\ c.kind \in {"publish", "unpublish"} => N!PathOf(c) = N!Target(c.pod)
  BY <1>1, CallFacts
<1>3. /\ c.kind = "stage" =>
            /\ \E level \in {"mounted", "yes"} : staged' = [staged EXCEPT ![v] = level]
            /\ UNCHANGED <<published, expanding>>
      /\ c.kind = "expand" =>
            /\ staged' = [staged EXCEPT ![v] = "yes"] /\ expanding' = expanding \ {v}
            /\ UNCHANGED published
      /\ c.kind = "unstage" =>
            staged' = [staged EXCEPT ![v] = "no"] /\ UNCHANGED <<published, expanding>>
      /\ c.kind = "publish" =>
            published' = [published EXCEPT ![c.pod] = "yes"] /\ UNCHANGED <<staged, expanding>>
      /\ c.kind = "unpublish" =>
            published' = [published EXCEPT ![c.pod] = "no"] /\ UNCHANGED <<staged, expanding>>
  BY DEF N!Learn
<1>4. /\ c.kind = "stage" => staged[v] = "uncertain" /\ (StagedMount(v) \/ N!IsBlock(v))
      /\ c.kind = "expand" => /\ staged[v] \in {"uncertain", "yes"}
                              /\ StagedMount(v) \/ N!IsBlock(v)
                              /\ N!IsBlock(v) \/ fsSize[v] = disks[v].size
      /\ c.kind = "unstage" => staged[v] = "uncertain" /\ mounts[N!Staging(v)] = <<>>
      /\ c.kind = "publish" =>
            published[c.pod] = "uncertain" /\ mounts[N!Target(c.pod)] = <<v>>
      /\ c.kind = "unpublish" =>
            published[c.pod] = "uncertain" /\ mounts[N!Target(c.pod)] = <<>>
  BY <1>1, <1>2 DEF KubeletKnows, GoroutineKnows, N!Unmounts
<1>5. \A p \in Pods : published[p] # "no" => staged[Uses[p]] = "yes"
  BY <1>1 DEF KubeletKnows
<1>6. /\ staged' \in [DiskIds -> N!Known \cup {"mounted"}]
      /\ published' \in [Pods -> N!Known]
      /\ expanding' \subseteq expanding
  <2>1. /\ staged \in [DiskIds -> N!Known \cup {"mounted"}]
        /\ published \in [Pods -> N!Known]
    BY <1>1 DEF NodeSideTypes
  <2>2. staged' = staged \/ \E x \in {"no", "mounted", "yes"} : staged' = [staged EXCEPT ![v] = x]
    BY <1>2, <1>3
  <2>3. \/ published' = published
        \/ \E x \in {"no", "yes"} : published' = [published EXCEPT ![c.pod] = x]
    BY <1>2, <1>3
  <2>4. staged' \in [DiskIds -> N!Known \cup {"mounted"}]
    BY <2>1, <2>2 DEF N!Known
  <2>5. published' \in [Pods -> N!Known]
    BY <2>1, <2>3 DEF N!Known
  <2>6. expanding' \subseteq expanding
    BY <1>2, <1>3
  <2>7. QED
    BY <2>4, <2>5, <2>6
<1>7. \A d \in DiskIds : \/ staged'[d] = staged[d]
                         \/ d = v /\ c.kind = "stage" /\ staged'[d] \in {"mounted", "yes"}
                         \/ d = v /\ c.kind = "expand" /\ staged'[d] = "yes"
                         \/ d = v /\ c.kind = "unstage" /\ staged'[d] = "no"
  BY <1>1, <1>2, <1>3 DEF NodeSideTypes
<1>8. \A p \in Pods : \/ published'[p] = published[p]
                      \/ c.kind = "publish" /\ p = c.pod /\ published'[p] = "yes"
                      \/ c.kind = "unpublish" /\ p = c.pod /\ published'[p] = "no"
  BY <1>1, <1>2, <1>3 DEF NodeSideTypes
<1>9. \A d \in DiskIds : staged'[d] # "no" => staged[d] # "no"
  BY <1>4, <1>7
<1>10. ASSUME NEW p \in Pods, published'[p] # "no"
       PROVE  staged'[Uses[p]] = "yes"
  <2>1. Uses[p] \in DiskIds
    BY VolumeAssumption
  <2>2. staged[Uses[p]] = "yes"
    BY <1>4, <1>5, <1>8, <1>10
  <2>3. QED
    BY <1>4, <1>7, <2>1, <2>2
<1>11. MountsAreKnown'
  <2>1. ASSUME NEW d \in DiskIds
        PROVE  /\ StagedMount(d) \/ mounts[N!Staging(d)] = <<>>
               /\ staged'[d] = "no" \/ N!IsBlock(d) => mounts[N!Staging(d)] = <<>>
               /\ staged'[d] \in {"mounted", "yes"} => StagedMount(d) \/ N!IsBlock(d)
               /\ StagedMount(d) => content[d] # "blank"
    BY <1>1, <1>4, <1>7 DEF MountsAreKnown
  <2>2. ASSUME NEW p \in Pods
        PROVE  /\ mounts[N!Target(p)] \in {<<>>, <<Uses[p]>>}
               /\ published'[p] = "no"  => mounts[N!Target(p)] = <<>>
               /\ published'[p] = "yes" => mounts[N!Target(p)] = <<Uses[p]>>
    BY <1>1, <1>2, <1>4, <1>8 DEF MountsAreKnown
  <2>3. QED
    BY <2>1, <2>2 DEF MountsAreKnown, StagedMount, N!IsBlock
<1>12. SizesFollow'
  <2> SUFFICES ASSUME NEW name \in Names, NEW d \in DiskIds, pv[name].disk = d,
                      mode[d] # "block", content[d] # "blank", d \notin expanding'
               PROVE  pv[name].size <= fsSize[d]
    BY DEF SizesFollow
  <2>1. CASE d \notin expanding
    BY <2>1 DEF NodeSideInv, SizesFollow
  <2>2. CASE d \in expanding
    <3>1. d = v /\ fsSize[d] = disks[d].size
      BY <1>2, <1>3, <1>4, <2>2 DEF N!IsBlock
    <3>2. QED
      BY <3>1, RecordedFits
  <2>3. QED
    BY <2>1, <2>2
<1>13. QED
  BY <1>2, <1>6, <1>7, <1>8, <1>9, <1>10, <1>11, <1>12
(***************************************************************************)
(* An answer is taken, and its goroutine is idle again.                    *)
(***************************************************************************)
LEMMA ReceiveKeepsNodeSide ==
    ASSUME ControllerSideInv, NodeSideInv, UNCHANGED controllerSide,
           NEW g \in Goroutines, N!Receive(g)
    PROVE  NodeSideInv'
<1>1. /\ NodeSideTypes /\ CallsAreAwaited /\ GoroutinesKnow /\ KubeletKnows /\ MountsAreKnown
      /\ SizesFollow
      /\ UNCHANGED <<disks, pv, va>>
  BY DEF NodeSideInv, controllerSide, computeVars, sidecarVars
<1>2. /\ nodePc[g] = "answered" /\ nodePc' = [nodePc EXCEPT ![g] = "idle"]
      /\ call' = [call EXCEPT ![g] = NoCall] /\ nodeRes' = [nodeRes EXCEPT ![g] = "none"]
      /\ awaited' = awaited \ {g}
      /\ UNCHANGED <<mode, content, fsSize, mounts, written>>
  BY DEF N!Receive, N!machineVars, N!diskVars, N!storeVars
<1>3. /\ g \in awaited /\ "idle" \in N!Commands /\ awaited \subseteq Goroutines
      /\ \A h \in awaited : h # g => call[h].volume # call[g].volume
  BY <1>1, <1>2 DEF CallsAreAwaited, N!Commands, NodeSideTypes
<1>4. /\ staged' \in [DiskIds -> N!Known \cup {"mounted"}]
      /\ published' \in [Pods -> N!Known]
      /\ expanding' \subseteq expanding
      /\ \A d \in DiskIds : d # call[g].volume => staged'[d] = staged[d]
      /\ \A p \in Pods : Uses[p] # call[g].volume => published'[p] = published[p]
      /\ \A d \in DiskIds : staged'[d] # "no" => staged[d] # "no"
      /\ \A p \in Pods : published'[p] # "no" => staged'[Uses[p]] = "yes"
      /\ MountsAreKnown' /\ SizesFollow'
  <2>1. CASE nodeRes[g] = "ok" /\ N!Learn(call[g])
    BY <1>1, <1>2, <1>3, <2>1, LearnedIsTrue
  <2>2. CASE UNCHANGED <<staged, published, expanding>>
    <3>1. MountsAreKnown' /\ SizesFollow'
      BY <1>1, <1>2, <2>2 DEF MountsAreKnown, SizesFollow, StagedMount, N!IsBlock
    <3>2. QED
      BY <1>1, <2>2, <3>1 DEF NodeSideTypes, KubeletKnows
  <2>3. QED
    BY <1>3, <2>1, <2>2 DEF N!Receive
<1>5. \A h \in awaited' : /\ h \in awaited /\ call'[h] = call[h]
                          /\ nodePc'[h] = nodePc[h] /\ nodeRes'[h] = nodeRes[h]
  BY <1>1, <1>2, <1>3 DEF NodeSideTypes
<1>6. NodeSideTypes'
  BY <1>1, <1>2, <1>3, <1>4 DEF NodeSideTypes
<1>7. CallsAreAwaited'
  <2>1. \A h \in Goroutines : nodePc'[h] # "idle" <=> h \in awaited'
    BY <1>1, <1>2 DEF NodeSideTypes, CallsAreAwaited
  <2>2. QED
    BY <1>1, <1>5, <2>1 DEF CallsAreAwaited
<1>8. KubeletKnows'
  <2>1. ASSUME NEW h \in awaited'
        PROVE  /\ call[h].kind \in {"stage", "unstage"} => staged'[call[h].volume] = "uncertain"
               /\ call[h].kind = "expand" => staged'[call[h].volume] \in {"uncertain", "yes"}
               /\ call[h].kind \in {"publish", "unpublish"} =>
                     published'[call[h].pod] = "uncertain"
    <3>1. h \in awaited /\ call[h].volume # call[g].volume
      BY <1>2, <1>3
    <3>2. QED
      BY <1>1, <1>4, <3>1, CallFacts DEF KubeletKnows
  <2>2. QED
    BY <1>4, <1>5, <2>1 DEF KubeletKnows
<1>9. GoroutinesKnow'
  <2> SUFFICES ASSUME NEW h \in awaited'
               PROVE  GoroutineKnows(h)'
    BY DEF GoroutinesKnow
  <2>1. GoroutineKnows(h)
    BY <1>1, <1>5 DEF GoroutinesKnow
  <2>2. QED
    BY <1>1, <1>2, <1>5, <2>1, KnowsTheSame
<1>10. StagedIsAttached'
  BY <1>1, <1>4 DEF NodeSideInv, StagedIsAttached
<1>11. DataSurvives'
  BY <1>2 DEF NodeSideInv, DataSurvives, N!DataSurvives
<1>12. QED
  BY <1>4, <1>6, <1>7, <1>8, <1>9, <1>10, <1>11 DEF NodeSideInv

(***************************************************************************)
(* With the process go all calls and with the node all mounts; what is on  *)
(* the volumes stays.                                                      *)
(***************************************************************************)
LEMMA DyingKeepsNodeSide ==
    ASSUME ControllerSideInv, NodeSideInv, UNCHANGED controllerSide, N!Restart \/ N!Reboot
    PROVE  NodeSideInv'
<1>1. /\ NodeSideTypes /\ KubeletKnows /\ MountsAreKnown
      /\ UNCHANGED <<disks, pv, va>>
  BY DEF NodeSideInv, controllerSide, computeVars, sidecarVars
<1>2. /\ call' = [g \in Goroutines |-> NoCall] /\ nodePc' = [g \in Goroutines |-> "idle"]
      /\ nodeRes' = [g \in Goroutines |-> "none"] /\ awaited' = {}
      /\ UNCHANGED <<mode, content, fsSize, expanding, written>>
  BY DEF N!Restart, N!Reboot, N!ProcessDies, N!machineVars, N!diskVars, N!storeVars
<1>3. \/ UNCHANGED <<mounts, staged, published>>
      \/ /\ mounts' = [path \in N!Paths |-> <<>>]
         /\ staged' = [d \in DiskIds |-> "no"] /\ published' = [p \in Pods |-> "no"]
  BY DEF N!Restart, N!Reboot, N!machineVars
<1>4. NodeSideTypes'
  BY <1>1, <1>2, <1>3 DEF NodeSideTypes, N!Commands, N!Known
<1>5. CallsAreAwaited' /\ GoroutinesKnow'
  BY <1>2 DEF CallsAreAwaited, GoroutinesKnow
<1>6. KubeletKnows'
  BY <1>1, <1>2, <1>3 DEF KubeletKnows
<1>7. MountsAreKnown'
  <2>1. CASE UNCHANGED <<mounts, staged, published>>
    BY <1>1, <1>2, <2>1 DEF MountsAreKnown, StagedMount, N!IsBlock
  <2>2. CASE /\ mounts' = [path \in N!Paths |-> <<>>]
             /\ staged' = [d \in DiskIds |-> "no"] /\ published' = [p \in Pods |-> "no"]
    <3>1. \A d : <<d>> # <<>>
      OBVIOUS
    <3>2. QED
      BY <2>2, <3>1, PathsAreDistinct DEF MountsAreKnown, StagedMount
  <2>3. QED
    BY <1>3, <2>1, <2>2
<1>8. StagedIsAttached'
  BY <1>1, <1>3 DEF NodeSideInv, StagedIsAttached
<1>9. SizesFollow' /\ DataSurvives'
  BY <1>1, <1>2 DEF NodeSideInv, SizesFollow, DataSurvives, N!DataSurvives
<1>10. QED
  BY <1>4, <1>5, <1>6, <1>7, <1>8, <1>9 DEF NodeSideInv
-----------------------------------------------------------------------------
(* The invariant *)

(***************************************************************************)
(* A step of the node side keeps what both sides keep.                     *)
(***************************************************************************)
LEMMA NodeSideKept ==
    ASSUME ControllerSideInv, NodeSideInv, NodeSideStep
    PROVE  ControllerSideInv' /\ NodeSideInv'
<1>1. UNCHANGED controllerSide /\ UNCHANGED disks
  BY DEF NodeSideStep, controllerSide, computeVars
<1>2. disruptions' \in 0 .. MaxDisruptions
  <2>1. disruptions \in 0 .. MaxDisruptions /\ MaxDisruptions \in Nat
    BY ClusterAssumption DEF ControllerSideInv, TypeOK
  <2>2. \/ disruptions' = disruptions
        \/ disruptions < MaxDisruptions /\ disruptions' = disruptions + 1
    BY DEF NodeSideStep, StageWhenAttached, N!Step, N!Receive, N!FailCommand, N!Disrupted,
           N!Stage, N!Expand, N!Unstage, N!Publish, N!Unpublish, N!Send, N!StartPod,
           N!DeletePod, N!Write, N!Restart, N!Reboot
  <2>3. QED
    BY <2>1, <2>2
<1>3. ControllerSideInv'
  BY <1>1, <1>2, ControllerSideKept
<1>4. NodeSideInv'
  <2>1. ASSUME NEW g \in Goroutines, N!Step(g) \/ N!FailCommand(g)
        PROVE  NodeSideInv'
    <3>1. /\ N!NodeStep(g) \/ N!CommandFails(g) \/ N!IsFormattedFails(g)
          /\ UNCHANGED <<staged, published, awaited, expanding, written>>
      BY <2>1 DEF N!Step, N!FailCommand, N!kubeletVars
    <3>2. Effect(g)
      BY <1>1, <3>1, CommandIsEffect
    <3>3. QED
      BY <1>1, <3>1, <3>2, EffectKeepsNodeSide
  <2>2. ASSUME NEW g \in Goroutines, N!Receive(g)
        PROVE  NodeSideInv'
    BY <1>1, <2>2, ReceiveKeepsNodeSide
  <2>3. ASSUME NEW d \in DiskIds, NEW g \in Goroutines,
               StageWhenAttached(g, d) \/ N!Expand(g, d) \/ N!Unstage(g, d)
        PROVE  NodeSideInv'
    BY <1>1, <2>3, VolumeCallKeepsNodeSide
  <2>4. ASSUME NEW p \in Pods, NEW g \in Goroutines, N!Publish(g, p) \/ N!Unpublish(g, p)
        PROVE  NodeSideInv'
    BY <1>1, <2>4, PodCallKeepsNodeSide
  <2>5. ASSUME NEW p \in Pods, N!StartPod(p) \/ N!DeletePod(p) \/ N!Write(p)
        PROVE  NodeSideInv'
    BY <1>1, <2>5, PodKeepsNodeSide
  <2>6. CASE N!Restart \/ N!Reboot
    BY <1>1, <2>6, DyingKeepsNodeSide
  <2>7. QED
    BY <2>1, <2>2, <2>3, <2>4, <2>5, <2>6 DEF NodeSideStep
<1>5. QED
  BY <1>3, <1>4

(***************************************************************************)
(* At the start nothing is staged or mounted, and a volume that came with  *)
(* a file system has it as large as its disk.                              *)
(***************************************************************************)
LEMMA InitVolume ==
    ASSUME Exclusive
    PROVE  VolumeInit => ControllerSideInv /\ NodeSideInv
<1> SUFFICES ASSUME VolumeInit
             PROVE  ControllerSideInv /\ NodeSideInv
  OBVIOUS
<1>1. ControllerSideInv
  BY InitControllerSide DEF VolumeInit
<1>2. /\ mode \in [DiskIds -> N!Modes]
      /\ content = [d \in DiskIds |-> IF mode[d] = "annotated" THEN "formatted" ELSE "blank"]
      /\ fsSize = [d \in DiskIds |-> IF mode[d] = "annotated" THEN Capacity[d] ELSE 0]
      /\ mounts = [path \in N!Paths |-> <<>>]
      /\ call = [g \in Goroutines |-> NoCall]
      /\ nodePc = [g \in Goroutines |-> "idle"]
      /\ nodeRes = [g \in Goroutines |-> "none"]
  BY DEF VolumeInit, N!NodeInit
<1>3. /\ staged = [d \in DiskIds |-> "no"] /\ published = [p \in Pods |-> "no"]
      /\ awaited = {} /\ expanding = {} /\ written = {}
  BY DEF VolumeInit, N!KubeletInit
<1>4. \A d \in DiskIds : Capacity[d] = disks[d].size /\ disks[d].size \in Int
  BY <1>1 DEF Capacity, ControllerSideInv, TypeOK, ComputeTypeOK, Disk
<1>5. NodeSideTypes
  <2>1. fsSize \in [DiskIds -> Int]
    BY <1>2, <1>4
  <2>2. mounts \in [N!Paths -> {<<>>} \cup {<<d>> : d \in DiskIds}]
    BY <1>2
  <2>3. QED
    BY <1>2, <1>3, <2>1, <2>2 DEF NodeSideTypes, N!Commands, N!Known
<1>6. CallsAreAwaited /\ KubeletKnows /\ GoroutinesKnow
  BY <1>2, <1>3 DEF CallsAreAwaited, KubeletKnows, GoroutinesKnow
<1>7. MountsAreKnown
  <2>1. \A d : <<d>> # <<>>
    OBVIOUS
  <2>2. QED
    BY <1>2, <1>3, <2>1, PathsAreDistinct DEF MountsAreKnown, StagedMount
<1>8. StagedIsAttached /\ DataSurvives
  BY <1>3 DEF StagedIsAttached, DataSurvives, N!DataSurvives
<1>9. SizesFollow
  <2> SUFFICES ASSUME NEW name \in Names, NEW d \in DiskIds, pv[name].disk = d,
                      content[d] # "blank"
               PROVE  pv[name].size <= fsSize[d]
    BY DEF SizesFollow
  <2>1. fsSize[d] = disks[d].size
    BY <1>2, <1>4
  <2>2. QED
    BY <1>1, <2>1, RecordedFits
<1>10. QED
  BY <1>1, <1>5, <1>6, <1>7, <1>8, <1>9 DEF NodeSideInv

(***************************************************************************)
(* Both sides keep what they keep of each other.                           *)
(***************************************************************************)
LEMMA BothSidesHold ==
    ASSUME Exclusive
    PROVE  VolumeSpec => [](ControllerSideInv /\ NodeSideInv)
<1>1. VolumeInit => ControllerSideInv /\ NodeSideInv
  BY InitVolume
<1>2. ControllerSideInv /\ NodeSideInv /\ ControllerStep => ControllerSideInv' /\ NodeSideInv'
  BY ControllerSideStep, ControllerKeepsNodeSide
<1>3. ControllerSideInv /\ NodeSideInv /\ NodeSideStep => ControllerSideInv' /\ NodeSideInv'
  BY NodeSideKept
<1>4. ControllerSideInv /\ NodeSideInv /\ UNCHANGED volumeVars
        => ControllerSideInv' /\ NodeSideInv'
  <2> SUFFICES ASSUME ControllerSideInv, NodeSideInv, UNCHANGED volumeVars
               PROVE  ControllerSideInv' /\ NodeSideInv'
    OBVIOUS
  <2>1. UNCHANGED <<controllerSide, disruptions, mode, content, fsSize, mounts, call, nodePc,
                    nodeRes, staged, published, awaited, expanding, written>>
    BY DEF volumeVars, ownNodeVars
  <2>2. ControllerSideInv'
    BY <2>1, ControllerSideKept DEF ControllerSideInv, TypeOK
  <2>3. UNCHANGED <<disks, pv, va>>
    BY <2>1 DEF controllerSide, computeVars, sidecarVars
  <2>4. NodeSideTypes' /\ CallsAreAwaited' /\ KubeletKnows' /\ DataSurvives'
    BY <2>1 DEF NodeSideInv, NodeSideTypes, CallsAreAwaited, KubeletKnows, DataSurvives,
                N!DataSurvives
  <2>5. MountsAreKnown' /\ StagedIsAttached' /\ SizesFollow'
    BY <2>1, <2>3 DEF NodeSideInv, MountsAreKnown, StagedIsAttached, SizesFollow,
                      StagedMount, N!IsBlock
  <2>6. GoroutinesKnow'
    <3> SUFFICES ASSUME NEW h \in awaited
                 PROVE  GoroutineKnows(h)'
      BY <2>1 DEF GoroutinesKnow
    <3>1. QED
      BY <2>1, <2>3, KnowsTheSame DEF NodeSideInv, GoroutinesKnow
  <2>7. QED
    BY <2>2, <2>4, <2>5, <2>6 DEF NodeSideInv
<1>5. QED
  BY <1>1, <1>2, <1>3, <1>4, PTL DEF VolumeSpec, VolumeNext
-----------------------------------------------------------------------------
(* What follows *)

(***************************************************************************)
(* What is mounted the kubelet has not unstaged, or not unpublished.       *)
(***************************************************************************)
LEMMA MountedIsStaged ==
    ASSUME NodeSideInv, NEW d \in DiskIds, N!MountedSomewhere(d)
    PROVE  staged[d] # "no"
<1>1. PICK path \in N!Paths : \E i \in 1 .. Len(mounts[path]) : mounts[path][i] = d
  BY DEF N!MountedSomewhere
<1>2. \A e : (\E i \in 1 .. Len(<<e>>) : <<e>>[i] = d) => e = d
  OBVIOUS
<1>3. ~\E i \in 1 .. Len(<<>>) : <<>>[i] = d
  OBVIOUS
<1>4. CASE \E e \in DiskIds : path = N!Staging(e)
  <2>1. PICK e \in DiskIds : path = N!Staging(e)
    BY <1>4
  <2>2. mounts[path] = <<e>> /\ staged[e] # "no"
    BY <1>1, <1>3, <2>1 DEF NodeSideInv, MountsAreKnown, StagedMount
  <2>3. QED
    BY <1>1, <1>2, <2>2
<1>5. CASE \E p \in Pods : path = N!Target(p)
  <2>1. PICK p \in Pods : path = N!Target(p)
    BY <1>5
  <2>2. mounts[path] = <<Uses[p]>> /\ published[p] # "no"
    BY <1>1, <1>3, <2>1 DEF NodeSideInv, MountsAreKnown
  <2>3. Uses[p] = d
    BY <1>1, <1>2, <2>2
  <2>4. QED
    BY <2>2, <2>3 DEF NodeSideInv, KubeletKnows
<1>6. QED
  BY <1>1, <1>4, <1>5 DEF N!Paths

(***************************************************************************)
(* While anything on the node mounts a volume, its disk is attached there  *)
(* and nowhere else (controller.go:330-346 against node.go:608-612).       *)
(***************************************************************************)
THEOREM MountsAreHeld ==
    ASSUME Exclusive
    PROVE  VolumeSpec => []MountedMeansHeld
<1>1. ControllerSideInv /\ NodeSideInv => MountedMeansHeld
  BY MountedIsStaged, StagedIsHeld DEF NodeSideInv, MountedMeansHeld
<1>2. QED
  BY <1>1, BothSidesHold, PTL

(***************************************************************************)
(* A file system in use is as large as ControllerExpandVolume said the     *)
(* volume is, as soon as NodeExpandVolume has been answered OK             *)
(* (controller.go:614-620, node.go:574-581).                               *)
(***************************************************************************)
THEOREM SpaceIsAsRecorded ==
    ASSUME Exclusive
    PROVE  VolumeSpec => []SpaceAsRecorded
<1>1. ControllerSideInv /\ NodeSideInv => SpaceAsRecorded
  <2> SUFFICES ASSUME ControllerSideInv, NodeSideInv, NEW p \in Pods, NEW name \in Names,
                      published[p] = "yes", pv[name].disk = Uses[p],
                      mode[Uses[p]] # "block", Uses[p] \notin expanding
               PROVE  fsSize[Uses[p]] >= pv[name].size
    BY DEF SpaceAsRecorded
  <2>1. Uses[p] \in DiskIds /\ staged[Uses[p]] = "yes"
    BY VolumeAssumption DEF NodeSideInv, KubeletKnows
  <2>2. content[Uses[p]] # "blank"
    BY <2>1 DEF NodeSideInv, MountsAreKnown, N!IsBlock
  <2>3. pv[name].size <= fsSize[Uses[p]]
    BY <2>1, <2>2 DEF NodeSideInv, SizesFollow
  <2>4. pv[name].size \in Int /\ fsSize[Uses[p]] \in Int
    BY <2>1, RecordedFits DEF NodeSideInv, NodeSideTypes
  <2>5. QED
    BY <2>3, <2>4
<1>2. QED
  BY <1>1, BothSidesHold, PTL

(***************************************************************************)
(* Where NodePublishVolume was answered OK the pod finds its volume        *)
(* (node.go:109-110).                                                      *)
(***************************************************************************)
THEOREM PodsSeeTheirVolume ==
    ASSUME Exclusive
    PROVE  VolumeSpec => []PodSeesVolume
<1>1. NodeSideInv => PodSeesVolume
  <2>1. \A d : Head(<<d>>) = d /\ <<d>> # <<>>
    OBVIOUS
  <2>2. QED
    BY <2>1 DEF NodeSideInv, MountsAreKnown, PodSeesVolume, N!PodSeesVolume, N!Shown,
                N!IsMounted
<1>2. QED
  BY <1>1, BothSidesHold, PTL

(***************************************************************************)
(* When NodeUnpublishVolume and NodeUnstageVolume have been answered OK,   *)
(* nothing on the node mounts the volume (node.go:293, 197).               *)
(***************************************************************************)
THEOREM UnusedStaysUnmounted ==
    ASSUME Exclusive
    PROVE  VolumeSpec => []UnusedIsUnmounted
<1>1. NodeSideInv => UnusedIsUnmounted
  BY MountedIsStaged DEF UnusedIsUnmounted, N!UnusedIsUnmounted
<1>2. QED
  BY <1>1, BothSidesHold, PTL

(***************************************************************************)
(* What a pod wrote is never formatted away, as long as no handler is      *)
(* given up: the device is there whenever IsFormatted asks, so its answer  *)
(* is about the device (mounter.go:67-68, node.go:159-176).                *)
(***************************************************************************)
THEOREM DataIsKept ==
    ASSUME Exclusive
    PROVE  VolumeSpec => []DataSurvives
<1>1. NodeSideInv => DataSurvives
  BY DEF NodeSideInv
<1>2. QED
  BY <1>1, BothSidesHold, PTL
=============================================================================
