--------------------------- MODULE ClusterProofs ---------------------------
(***************************************************************************)
(* Theorems about the controller service in a cluster, for every set of    *)
(* disks, nodes, names and requests, either cloud and any disruptions.     *)
(***************************************************************************)
EXTENDS ClusterInvariants, TLAPS

-----------------------------------------------------------------------------
(* Type correctness *)

(***************************************************************************)
(* extractStorage and parseBlockSize return integers.                      *)
(***************************************************************************)
LEMMA SizesAreIntegers ==
    /\ \A range \in CapacityRange : ExtractedSize(range) \in Int
    /\ \A raw \in RawBlockSize : BlockSizeOf(raw) \in Int
<1>1. \A range \in CapacityRange : ExtractedSize(range) \in Int
  BY SizingAssumption DEF SizingAssumption, CapacityRange, ExtractedSize
<1>2. Kibi \in Nat /\ DefaultBlockSize \in Int /\ IntLimit \in Nat \ {0}
  <2>1. /\ Kibi \in Nat /\ MaximumBlockSize \in Nat /\ IntLimit \in Nat
        /\ MaximumBlockSize * Kibi < IntLimit
        /\ DefaultBlockSize \in MinimumBlockSize .. MaximumBlockSize /\ MinimumBlockSize \in Nat
    BY SizingAssumption DEF SizingAssumption
  <2>2. MaximumBlockSize * Kibi \in Nat
    BY <2>1
  <2>3. QED
    BY <2>1, <2>2
<1>3. \A x \in Int : Wrap(x) \in Int
  <2>1. ASSUME NEW a \in Int, NEW b \in Nat \ {0} PROVE a % b \in Int
    BY <2>1
  <2>2. QED
    BY <1>2, <2>1 DEF Wrap
<1>4. ASSUME NEW raw \in RawBlockSize PROVE BlockSizeOf(raw) \in Int
  <2>1. raw.value * (IF raw.kibi THEN Kibi ELSE 1) \in Int
    <3>1. raw.value \in Int /\ raw.kibi \in BOOLEAN
      BY DEF RawBlockSize
    <3>2. CASE raw.kibi
      <4>1. ASSUME NEW a \in Int, NEW b \in Int PROVE a * b \in Int
        BY <4>1
      <4>2. QED
        BY <3>1, <3>2, <4>1, <1>2
    <3>3. CASE ~raw.kibi
      BY <3>1, <3>3
    <3>4. QED
      BY <3>2, <3>3
  <2>2. QED
    BY <2>1, <1>2, <1>3 DEF BlockSizeOf, ScaledBlockSize
<1>5. QED
  BY <1>1, <1>4

(***************************************************************************)
(* A goroutine that moves on stays in its steps.                           *)
(***************************************************************************)
LEMMA GotoType ==
    ASSUME ControllerTypeOK, NEW r \in Requests, NEW step \in Steps, Goto(r, step)
    PROVE  /\ pc' \in [Requests -> Steps]
           /\ local' \in [Requests -> Local]
           /\ res' \in [Requests -> Answers]
BY DEF ControllerTypeOK, Goto

(***************************************************************************)
(* A goroutine that answers leaves an answer and nothing else.             *)
(***************************************************************************)
LEMMA ReplyType ==
    ASSUME ControllerTypeOK, NEW r \in Requests, NEW answer \in Answers, Reply(r, answer)
    PROVE  /\ pc' \in [Requests -> Steps]
           /\ local' \in [Requests -> Local]
           /\ res' \in [Requests -> Answers]
BY DEF ControllerTypeOK, Reply, Steps, Local, NoLocal

(***************************************************************************)
(* The answers of the handlers are answers.                                *)
(***************************************************************************)
LEMMA AnswerTypes ==
    /\ Ok \in Answers /\ Failed \in Answers /\ NoAnswer \in Answers
    /\ \A d \in DiskIds \cup {NoDisk}, s \in Int, z \in Zones \cup {NoZone} :
          Volume(d, s, z) \in Answers
BY DEF Ok, Failed, NoAnswer, Empty, Volume, Answers

(***************************************************************************)
(* What a request is made of, RequestsAssumption by kind.                  *)
(***************************************************************************)
LEMMA RequestFields ==
    ASSUME NEW r \in Requests
    PROVE  /\ r.kind \in Kinds
           /\ r.kind = "create" => /\ r.name \in Names
                                   /\ r.zone \in Zones
                                   /\ BlockSizeOf(r.blockSize) \in Int
           /\ r.kind \in {"create", "expand"} => ExtractedSize(r.range) \in Int
           /\ r.kind \in {"delete", "publish", "unpublish", "expand"} => r.disk \in DiskIds
           /\ r.kind \in {"publish", "unpublish"} => r.node \in Nodes
BY RequestsAssumption, SizesAreIntegers DEF RequestsAssumption

(***************************************************************************)
(* The initial cluster is well typed.                                      *)
(***************************************************************************)
LEMMA InitType == Init => TypeOK
<1> SUFFICES ASSUME Init PROVE TypeOK
  OBVIOUS
<1>1. InitialVolumes \subseteq
         [disk : DiskIds, name : Names, size : Nat, blockSize : Nat, zone : Zones]
  BY ComputeAssumption DEF ComputeAssumption
<1>2. ComputeTypeOK
  <2>1. NewDisk("none", NoName, 0, 0, NoZone) \in Disk
    BY DEF NewDisk, Disk
  <2>2. ASSUME NEW v \in InitialVolumes
        PROVE  NewDisk("ready", v.name, v.size, v.blockSize, v.zone) \in Disk
    BY <1>1, <2>2 DEF NewDisk, Disk
  <2>3. disks \in [DiskIds -> Disk]
    BY <2>1, <2>2 DEF Init, ComputeInit
  <2>4. QED
    BY <2>3 DEF Init, ComputeInit, ComputeTypeOK
<1>3. ControllerTypeOK
  BY AnswerTypes DEF Init, ControllerInit, ControllerTypeOK, Steps, Local, NoLocal
<1>4. pv \in [Names -> PV]
  <2>1. ASSUME NEW v \in InitialVolumes
        PROVE  [phase |-> "bound", disk |-> v.disk, size |-> v.size, zone |-> v.zone] \in PV
    BY <1>1, <2>1 DEF PV, Phases
  <2>2. [phase |-> "none", disk |-> NoDisk, size |-> 0, zone |-> NoZone] \in PV
    BY DEF PV, Phases
  <2>3. QED
    BY <2>1, <2>2 DEF Init
<1>5. /\ va \in [DiskIds \X Nodes -> {"none", "attaching", "attached", "detaching"}]
      /\ owed \subseteq DiskIds
      /\ disruptions \in 0 .. MaxDisruptions
  BY ClusterAssumption DEF Init, ClusterAssumption
<1>6. QED
  BY <1>2, <1>3, <1>4, <1>5 DEF TypeOK

(***************************************************************************)
(* A step that leaves the cloud and the markers alone, and moves a         *)
(* goroutine or answers, keeps the types.                                  *)
(***************************************************************************)
LEMMA LocalStepType ==
    ASSUME ComputeTypeOK, ControllerTypeOK, UNCHANGED <<resizeLocks, computeVars>>,
           NEW r \in Requests,
           (\E step \in Steps : Goto(r, step)) \/ (\E answer \in Answers : Reply(r, answer))
    PROVE  ComputeTypeOK' /\ ControllerTypeOK'
<1>1. /\ pc' \in [Requests -> Steps]
      /\ local' \in [Requests -> Local]
      /\ res' \in [Requests -> Answers]
  BY GotoType, ReplyType
<1>2. QED
  BY <1>1 DEF ComputeTypeOK, ControllerTypeOK, computeVars

(***************************************************************************)
(* Every step a handler takes keeps the types of the cloud and of the      *)
(* controller service (controller.go:88-621).                              *)
(***************************************************************************)
LEMMA HandlerType ==
    ASSUME ComputeTypeOK, ControllerTypeOK, NEW r \in Requests, HandlerStep(r)
    PROVE  ComputeTypeOK' /\ ControllerTypeOK'
<1> USE AnswerTypes, RequestFields
<1>1. CASE ListDisks(r)
  <2>1. \A d \in Named(r.name) : Volume(d, disks[d].size, disks[d].zone) \in Answers
    BY AnswerTypes DEF Named, ComputeTypeOK, Disk
  <2>2. (\E step \in Steps : Goto(r, step)) \/ (\E answer \in Answers : Reply(r, answer))
    BY <1>1, <2>1 DEF ListDisks, Steps
  <2>3. QED
    BY <1>1, <2>2, LocalStepType DEF ListDisks
<1>2. CASE CreateDisk(r)
  <2>1. CASE CanAllocate(r)
    <3>1. PICK d \in DiskIds : Allocate(r, d) /\ Wait(r, d, "done")
      BY <1>2, <2>1 DEF CreateDisk
    <3>2. r.kind = "create" /\ UNCHANGED <<resizeLocks, inst, res>>
      BY <1>2, <2>1 DEF CreateDisk, At
    <3>3. NewDisk("creating", r.name, ExtractedSize(r.range),
                  BlockSizeOf(r.blockSize), r.zone) \in Disk
      BY <3>2, RequestFields DEF NewDisk, Disk
    <3>4. ComputeTypeOK'
      BY <3>1, <3>2, <3>3 DEF ComputeTypeOK, Allocate, Wait
    <3>5. ControllerTypeOK'
      BY <3>1, <3>2 DEF ControllerTypeOK, Wait, Steps, Local
    <3>6. QED
      BY <3>4, <3>5
  <2>2. CASE ~CanAllocate(r)
    BY <1>2, <2>2, LocalStepType DEF CreateDisk, computeVars
  <2>3. QED
    BY <2>1, <2>2
<1>3. CASE CreateDone(r)
  <2>1. Volume(local[r].disk, ExtractedSize(r.range), r.zone) \in Answers
    BY <1>3 DEF CreateDone, At, ControllerTypeOK, Local
  <2>2. QED
    BY <1>3, <2>1, LocalStepType DEF CreateDone
<1>4. CASE Submit(r)
  <2>1. /\ r.disk \in DiskIds
        /\ Answer(r, r.disk) \in {"done", "notFound", "attached", "failed"}
    BY <1>4 DEF Submit, Answer, Verdict
  <2>2. Wait(r, r.disk, Answer(r, r.disk)) /\ UNCHANGED <<resizeLocks, res, disks, inst>>
    BY <1>4 DEF Submit
  <2> HIDE DEF Answer
  <2>3. ComputeTypeOK'
    BY <2>1, <2>2 DEF ComputeTypeOK, Wait
  <2>4. ControllerTypeOK'
    BY <2>1, <2>2 DEF ControllerTypeOK, Wait, Steps, Local
  <2>5. QED
    BY <2>3, <2>4
<1>5. CASE DeleteDone(r)
  BY <1>5, LocalStepType DEF DeleteDone
<1>6. CASE PublishGetDisk(r)
  <2>1. CASE ~Exists(r.disk)
    BY <1>6, <2>1, LocalStepType DEF PublishGetDisk
  <2>2. CASE Exists(r.disk)
    <3>1. r.disk \in DiskIds /\ disks[r.disk].at \in SUBSET Nodes
      BY <1>6 DEF PublishGetDisk, At, ComputeTypeOK, Disk
    <3>2. ControllerTypeOK'
      BY <1>6, <2>2, <3>1 DEF PublishGetDisk, ControllerTypeOK, Steps, Local
    <3>3. QED
      BY <1>6, <3>2 DEF PublishGetDisk, ComputeTypeOK, computeVars
  <2>3. QED
    BY <2>1, <2>2
<1>7. CASE PublishGetInstance(r)
  BY <1>7, LocalStepType DEF PublishGetInstance, Steps
<1>8. CASE PublishDone(r)
  BY <1>8, LocalStepType DEF PublishDone
<1>9. CASE UnpublishGetDisk(r)
  BY <1>9, LocalStepType DEF UnpublishGetDisk, Steps
<1>10. CASE UnpublishGetInstance(r)
  BY <1>10, LocalStepType DEF UnpublishGetInstance, Steps
<1>11. CASE UnpublishDone(r)
  BY <1>11, LocalStepType DEF UnpublishDone
<1>12. CASE ExpandGetDisk(r)
  <2>1. Volume(r.disk, disks[r.disk].size, NoZone) \in Answers
    BY <1>12 DEF ExpandGetDisk, At, ComputeTypeOK, Disk
  <2>2. QED
    BY <1>12, <2>1, LocalStepType DEF ExpandGetDisk, Steps
<1>13. CASE ExpandDone(r)
  <2>1. r.disk \in DiskIds /\ Volume(r.disk, ExtractedSize(r.range), NoZone) \in Answers
    BY <1>13 DEF ExpandDone, At
  <2>2. resizeLocks' \subseteq DiskIds /\ \E answer \in Answers : Reply(r, answer)
    BY <1>13, <2>1 DEF ExpandDone, PutVolId, RemoveVolId, ControllerTypeOK
  <2>3. ControllerTypeOK'
    BY <2>2, ReplyType DEF ControllerTypeOK
  <2>4. QED
    BY <1>13, <2>3 DEF ExpandDone, ComputeTypeOK, computeVars
<1>14. CASE Panic(r)
  BY <1>14 DEF Panic, Crash, ComputeTypeOK, ControllerTypeOK, computeVars, Steps, Local, NoLocal
<1>15. QED
  BY <1>1, <1>2, <1>3, <1>4, <1>5, <1>6, <1>7, <1>8, <1>9, <1>10, <1>11, <1>12, <1>13, <1>14
     DEF HandlerStep

(***************************************************************************)
(* The end of an operation keeps the types, awaited or given up            *)
(* (operation_wrapper.go:29-46).                                           *)
(***************************************************************************)
LEMMA OperationType ==
    ASSUME ComputeTypeOK, ControllerTypeOK, NEW o \in Requests \X DiskIds,
           FinishOp(o) \/ BreakOp(o)
    PROVE  ComputeTypeOK' /\ ControllerTypeOK'
<1>1. PICK r \in Requests, d \in DiskIds : o = <<r, d>>
  OBVIOUS
<1>2. disks[d] \in Disk
  BY DEF ComputeTypeOK
<1>3. Verdict(r, d) \in {"done", "notFound", "attached", "failed"}
  BY DEF Verdict
<1>4. \E outcome \in {"done", "notFound", "attached", "failed"} : Settle(o, outcome)
  BY <1>1, <1>3 DEF FinishOp, BreakOp
<1>5. ControllerTypeOK'
  BY <1>1, <1>4 DEF Settle, ControllerTypeOK, Local
<1>6. CASE FinishOp(o)
  <2>1. o \in ops /\ r.kind \in Kinds
    BY <1>6, <1>1, RequestFields DEF FinishOp, Finish
  <2>2. Verdict(r, d) = "done" => Changed(r, disks[d]) \in Disk
    <3>1. SUFFICES ASSUME Verdict(r, d) = "done" PROVE Changed(r, disks[d]) \in Disk
      OBVIOUS
    <3>2. CASE r.kind = "create"
      BY <1>2, <3>2 DEF Changed, Disk
    <3>3. CASE r.kind = "delete"
      BY <1>2, <3>3 DEF Changed, Disk
    <3>4. CASE r.kind = "publish"
      BY <1>2, <3>4, RequestFields DEF Changed, Disk
    <3>5. CASE r.kind = "unpublish"
      BY <1>2, <3>5 DEF Changed, Disk
    <3>6. CASE r.kind = "expand"
      BY <1>2, <3>6, RequestFields DEF Changed, Disk
    <3>7. CASE r.kind = "snapshot"
      BY <1>2, <3>7 DEF Changed
    <3>8. QED
      BY <2>1, <3>2, <3>3, <3>4, <3>5, <3>6, <3>7 DEF Kinds
  <2>3. QED
    BY <1>1, <1>5, <1>6, <2>2 DEF FinishOp, Finish, Settle, ComputeTypeOK
<1>7. CASE BreakOp(o)
  <2>1. [disks[d] EXCEPT !.state = "gone"] \in Disk
    BY <1>2 DEF Disk
  <2>2. QED
    BY <1>1, <1>5, <1>7, <2>1 DEF BreakOp, Break, Settle, ComputeTypeOK
<1>8. QED
  BY <1>5, <1>6, <1>7

(***************************************************************************)
(* What the sidecars make of an OK is well typed: the answers are typed,   *)
(* and a created volume has a disk.                                        *)
(***************************************************************************)
LEMMA ReceiveType ==
    ASSUME TypeOK, NEW r \in Requests, Receive(r)
    PROVE  TypeOK'
<1>1. res[r] \in Answers /\ r.kind \in Kinds
  BY RequestFields DEF TypeOK, ControllerTypeOK
<1>2. ComputeTypeOK'
  BY DEF TypeOK, Receive, ComputeTypeOK, computeVars
<1>3. ControllerTypeOK'
  BY AnswerTypes DEF TypeOK, Receive, ControllerTypeOK, Steps
<1>4. Recorded(r, res[r]) \in [Names -> PV]
  <2>1. pv \in [Names -> PV]
    BY DEF TypeOK
  <2>2. CASE r.kind = "create"
    <3>1. [phase |-> "bound", disk |-> res[r].disk, size |-> res[r].size,
           zone |-> res[r].zone] \in PV
      BY <1>1 DEF Answers, PV, Phases
    <3>2. QED
      BY <2>1, <2>2, <3>1 DEF Recorded
  <2>3. CASE r.kind = "delete"
    <3>1. \A name \in Names : [pv[name] EXCEPT !.phase = "deleted"] \in PV
      BY <2>1 DEF PV, Phases
    <3>2. QED
      BY <2>1, <2>3, <3>1 DEF Recorded
  <2>4. CASE r.kind = "expand"
    <3>1. \A name \in Names : [pv[name] EXCEPT !.size = res[r].size] \in PV
      BY <1>1, <2>1 DEF PV, Answers
    <3>2. QED
      BY <2>1, <2>4, <3>1 DEF Recorded
  <2>5. CASE r.kind \in {"publish", "unpublish", "snapshot"}
    BY <2>1, <2>5 DEF Recorded
  <2>6. QED
    BY <1>1, <2>2, <2>3, <2>4, <2>5 DEF Kinds
<1>5. pv' \in [Names -> PV]
  BY <1>4 DEF TypeOK, Receive, sidecarVars
<1>6. va' \in [DiskIds \X Nodes -> {"none", "attaching", "attached", "detaching"}]
  BY RequestFields DEF TypeOK, Receive, sidecarVars, Attachment
<1>7. owed' \subseteq DiskIds /\ disruptions' \in 0 .. MaxDisruptions
  BY DEF TypeOK, Receive, sidecarVars
<1>8. QED
  BY <1>2, <1>3, <1>5, <1>6, <1>7 DEF TypeOK

(***************************************************************************)
(* A call the sidecars make keeps the types.                               *)
(***************************************************************************)
LEMMA IssueType ==
    ASSUME TypeOK, NEW r \in Requests, Issue(r)
    PROVE  TypeOK'
<1> USE AnswerTypes DEF TypeOK
<1>1. CASE IssueCreate(r)
  <2>1. ComputeTypeOK' /\ ControllerTypeOK'
    BY <1>1, LocalStepType DEF IssueCreate, CreateVolume, Steps
  <2>2. QED
    BY <1>1, <2>1 DEF IssueCreate, sidecarVars
<1>2. CASE IssueDelete(r)
  <2>1. ComputeTypeOK' /\ ControllerTypeOK'
    BY <1>2, LocalStepType DEF IssueDelete, DeleteVolume, Steps
  <2>2. pv' \in [Names -> PV]
    BY <1>2 DEF IssueDelete, PV, Phases
  <2>3. QED
    BY <1>2, <2>1, <2>2 DEF IssueDelete
<1>3. CASE IssuePublish(r)
  <2>1. ComputeTypeOK' /\ ControllerTypeOK'
    BY <1>3, LocalStepType DEF IssuePublish, ControllerPublishVolume, Steps
  <2>2. QED
    BY <1>3, <2>1 DEF IssuePublish
<1>4. CASE IssueUnpublish(r)
  <2>1. ComputeTypeOK' /\ ControllerTypeOK'
    BY <1>4, LocalStepType DEF IssueUnpublish, ControllerUnpublishVolume, Steps
  <2>2. QED
    BY <1>4, <2>1 DEF IssueUnpublish
<1>5. CASE IssueExpand(r)
  <2>1. ComputeTypeOK' /\ ControllerTypeOK'
    BY <1>5, LocalStepType DEF IssueExpand, ControllerExpandVolume, Steps
  <2>2. r.disk \in DiskIds
    BY <1>5, RequestFields DEF IssueExpand, ControllerExpandVolume, At
  <2>3. QED
    BY <1>5, <2>1, <2>2 DEF IssueExpand
<1>6. CASE IssueSnapshot(r)
  <2>1. ComputeTypeOK' /\ ControllerTypeOK'
    BY <1>6, LocalStepType DEF IssueSnapshot, CreateSnapshot, Steps
  <2>2. QED
    BY <1>6, <2>1 DEF IssueSnapshot, sidecarVars
<1>7. QED
  BY <1>1, <1>2, <1>3, <1>4, <1>5, <1>6 DEF Issue

(***************************************************************************)
(* What goes wrong keeps the types.                                        *)
(***************************************************************************)
LEMMA DisruptionType ==
    ASSUME TypeOK,
           \/ \E r \in Requests : FailCall(r)
           \/ \E o \in Requests \X DiskIds : FailOp(o)
           \/ Restart
           \/ \E d \in DiskIds : ResizeByHand(d)
           \/ \E n \in Nodes : DisruptInstance(n)
    PROVE  TypeOK'
<1>1. \E kind \in DisruptionKinds : Disrupt(kind)
  BY DEF FailCall, FailOp, Restart, ResizeByHand, DisruptInstance, DisruptionKinds
<1>2. disruptions' \in 0 .. MaxDisruptions /\ UNCHANGED sidecarVars
  BY <1>1, ClusterAssumption DEF TypeOK, Disrupt, ClusterAssumption
<1>3. ComputeTypeOK /\ ControllerTypeOK
  BY DEF TypeOK
<1>4. ComputeTypeOK' /\ ControllerTypeOK'
  <2>1. CASE \E r \in Requests : FailCall(r)
    BY <1>3, <2>1, AnswerTypes, LocalStepType DEF FailCall, CallFails
  <2>2. CASE \E o \in Requests \X DiskIds : FailOp(o)
    BY <1>3, <2>2, OperationType DEF FailOp
  <2>3. CASE Restart
    BY <1>3, <2>3
       DEF Restart, Crash, ComputeTypeOK, ControllerTypeOK, computeVars, Steps, Local, NoLocal
  <2>4. CASE \E d \in DiskIds : ResizeByHand(d)
    <3>1. PICK d \in DiskIds : ResizeByHand(d)
      BY <2>4
    <3>2. [disks[d] EXCEPT !.size = disks[d].size + 1] \in Disk
      BY <1>3 DEF ComputeTypeOK, Disk
    <3>3. QED
      BY <1>3, <3>1, <3>2
         DEF ResizeByHand, PanelResize, ComputeTypeOK, ControllerTypeOK, controllerVars
  <2>5. CASE \E n \in Nodes : DisruptInstance(n)
    <3>1. PICK n \in Nodes : StopInstance(n) \/ StartInstance(n) \/ DeleteInstance(n)
      BY <2>5 DEF DisruptInstance
    <3>2. ControllerTypeOK'
      BY <1>3, <2>5 DEF DisruptInstance, ControllerTypeOK, controllerVars
    <3>3. \A d \in DiskIds : [disks[d] EXCEPT !.at = @ \ {n}] \in Disk
      BY <1>3 DEF ComputeTypeOK, Disk
    <3>4. ComputeTypeOK'
      BY <1>3, <3>1, <3>3 DEF ComputeTypeOK, StopInstance, StartInstance, DeleteInstance
    <3>5. QED
      BY <3>2, <3>4
  <2>6. QED
    BY <2>1, <2>2, <2>3, <2>4, <2>5
<1>5. QED
  BY <1>2, <1>4 DEF TypeOK, sidecarVars

(***************************************************************************)
(* Every step keeps the types.                                             *)
(***************************************************************************)
LEMMA TypeStep ==
    ASSUME TypeOK, [Next]_vars
    PROVE  TypeOK'
<1>1. CASE \E r \in Requests : Issue(r)
  BY <1>1, IssueType
<1>2. CASE \E r \in Requests : Handle(r)
  <2>1. ComputeTypeOK' /\ ControllerTypeOK'
    BY <1>2, HandlerType DEF Handle, TypeOK
  <2>2. QED
    BY <1>2, <2>1 DEF Handle, TypeOK, sidecarVars
<1>3. CASE \E r \in Requests : Receive(r)
  BY <1>3, ReceiveType
<1>4. CASE \E o \in Requests \X DiskIds : Work(o)
  <2>1. ComputeTypeOK' /\ ControllerTypeOK'
    BY <1>4, OperationType DEF Work, TypeOK
  <2>2. QED
    BY <1>4, <2>1 DEF Work, TypeOK, sidecarVars
<1>5. CASE \/ \E r \in Requests : FailCall(r)
           \/ \E o \in Requests \X DiskIds : FailOp(o)
           \/ Restart
           \/ \E d \in DiskIds : ResizeByHand(d)
           \/ \E n \in Nodes : DisruptInstance(n)
  BY <1>5, DisruptionType
<1>6. CASE UNCHANGED vars
  BY <1>6 DEF vars, computeVars, controllerVars, sidecarVars, TypeOK,
              ComputeTypeOK, ControllerTypeOK
<1>7. QED
  BY <1>1, <1>2, <1>3, <1>4, <1>5, <1>6 DEF Next

(***************************************************************************)
(* The model of controller.go and of its surroundings is type correct.     *)
(***************************************************************************)
THEOREM TypeCorrect == Spec => []TypeOK
<1>1. TypeOK /\ [Next]_vars => TypeOK'
  BY TypeStep
<1>2. QED
  BY <1>1, InitType, PTL DEF Spec

-----------------------------------------------------------------------------
(* What a step does to one call *)

\* The step is about the goroutine of request r alone
OnlyCall(r) ==
    \A q \in Requests \ {r} : pc'[q] = pc[q] /\ local'[q] = local[q] /\ res'[q] = res[q]

(***************************************************************************)
(* Goto and Reply are about one goroutine.                                 *)
(***************************************************************************)
LEMMA GotoOrReply ==
    ASSUME TypeOK, NEW r \in Requests
    PROVE  /\ \A step \in Steps : Goto(r, step) =>
                 /\ OnlyCall(r) /\ pc'[r] = step
                 /\ local'[r] = local[r] /\ res'[r] = res[r]
           /\ \A answer \in Answers : Reply(r, answer) =>
                 OnlyCall(r) /\ pc'[r] = "answered" /\ res'[r] = answer
<1>1. /\ pc \in [Requests -> Steps] /\ local \in [Requests -> Local]
      /\ res \in [Requests -> Answers]
  BY DEF TypeOK, ControllerTypeOK
<1>2. ASSUME NEW step \in Steps, Goto(r, step)
      PROVE  /\ OnlyCall(r) /\ pc'[r] = step
             /\ local'[r] = local[r] /\ res'[r] = res[r]
  BY <1>1, <1>2 DEF Goto, OnlyCall
<1>3. ASSUME NEW answer \in Answers, Reply(r, answer)
      PROVE  OnlyCall(r) /\ pc'[r] = "answered" /\ res'[r] = answer
  BY <1>1, <1>3 DEF Reply, OnlyCall
<1>4. QED
  BY <1>2, <1>3

(***************************************************************************)
(* A step of a handler, of a sidecar, or a call that fails is about one    *)
(* goroutine; only the panic of CreateSnapshot is about all of them.       *)
(***************************************************************************)
LEMMA OneCall ==
    ASSUME TypeOK, NEW r \in Requests,
           Issue(r) \/ Receive(r) \/ FailCall(r) \/ (HandlerStep(r) /\ ~Panic(r))
    PROVE  OnlyCall(r)
<1>1. /\ pc \in [Requests -> Steps] /\ local \in [Requests -> Local]
      /\ res \in [Requests -> Answers]
  BY DEF TypeOK, ControllerTypeOK
<1>2. \A step : Goto(r, step) => OnlyCall(r)
  BY <1>1 DEF Goto, OnlyCall
<1>3. \A answer : Reply(r, answer) => OnlyCall(r)
  BY <1>1 DEF Reply, OnlyCall
<1>4. CASE Issue(r)
  BY <1>2, <1>3, <1>4
     DEF Issue, IssueCreate, IssueDelete, IssuePublish, IssueUnpublish, IssueExpand,
         IssueSnapshot, CreateVolume, DeleteVolume, ControllerPublishVolume,
         ControllerUnpublishVolume, ControllerExpandVolume, CreateSnapshot
<1>5. CASE Receive(r)
  BY <1>1, <1>5 DEF Receive, OnlyCall
<1>6. CASE FailCall(r)
  BY <1>3, <1>6 DEF FailCall, CallFails
<1>7. CASE CreateDisk(r) \/ Submit(r)
  <2>1. Reply(r, Failed) \/ (\E d \in DiskIds : \E x : Wait(r, d, x) /\ UNCHANGED res)
    <3>1. CASE Submit(r)
      BY <3>1, RequestFields DEF Submit
    <3>2. CASE CreateDisk(r)
      BY <3>2 DEF CreateDisk
    <3>3. QED
      BY <1>7, <3>1, <3>2
  <2>2. \A d \in DiskIds : \A x : Wait(r, d, x) /\ UNCHANGED res => OnlyCall(r)
    BY <1>1 DEF Wait, OnlyCall
  <2>3. QED
    BY <1>3, <2>1, <2>2
<1>8. CASE PublishGetDisk(r)
  BY <1>1, <1>3, <1>8 DEF PublishGetDisk, OnlyCall
<1>9. CASE \/ ListDisks(r) \/ CreateDone(r) \/ DeleteDone(r) \/ PublishGetInstance(r)
           \/ PublishDone(r) \/ UnpublishGetDisk(r) \/ UnpublishGetInstance(r)
           \/ UnpublishDone(r) \/ ExpandGetDisk(r) \/ ExpandDone(r)
  BY <1>2, <1>3, <1>9
     DEF ListDisks, CreateDone, DeleteDone, PublishGetInstance, PublishDone,
         UnpublishGetDisk, UnpublishGetInstance, UnpublishDone, ExpandGetDisk, ExpandDone
<1>10. QED
  BY <1>4, <1>5, <1>6, <1>7, <1>8, <1>9 DEF HandlerStep

\* The operation q waits for ends with this outcome
Settled(q, d, outcome) ==
    /\ <<q, d>> \in ops /\ Awaited(<<q, d>>)
    /\ \/ FinishOp(<<q, d>>) /\ outcome = Verdict(q, d)
       \/ FailOp(<<q, d>>) /\ outcome = "failed"
    /\ pc'[q] = pc[q] /\ res'[q] = res[q]
    /\ local'[q] = [local[q] EXCEPT !.outcome = outcome]

\* The process ends and starts again
Died ==
    /\ Crash /\ UNCHANGED sidecarVars
    /\ "restart" \in Disruptions \/ \E r \in Requests : r.kind = "snapshot"

(***************************************************************************)
(* What may happen to a call in a step, whoever takes it.                  *)
(***************************************************************************)
LEMMA Turns ==
    ASSUME TypeOK, [Next]_vars, NEW q \in Requests
    PROVE  \/ pc'[q] = pc[q] /\ local'[q] = local[q] /\ res'[q] = res[q]
           \/ Issue(q) \/ Receive(q) \/ FailCall(q)
           \/ HandlerStep(q) /\ ~Panic(q) /\ UNCHANGED sidecarVars
           \/ \E d \in DiskIds : \E outcome \in {Verdict(q, d), "failed"} : Settled(q, d, outcome)
           \/ Died
<1>1. ASSUME NEW r \in Requests,
             \/ Issue(r) \/ Receive(r) \/ FailCall(r)
             \/ HandlerStep(r) /\ ~Panic(r) /\ UNCHANGED sidecarVars
      PROVE  \/ pc'[q] = pc[q] /\ local'[q] = local[q] /\ res'[q] = res[q]
             \/ Issue(q) \/ Receive(q) \/ FailCall(q)
             \/ HandlerStep(q) /\ ~Panic(q) /\ UNCHANGED sidecarVars
  <2>1. OnlyCall(r)
    BY <1>1, OneCall
  <2>2. QED
    BY <1>1, <2>1, Zenon DEF OnlyCall
<1>2. ASSUME NEW r \in Requests, Handle(r), Panic(r)
      PROVE  Died
  BY <1>2 DEF Handle, Panic, At, Died
<1>3. CASE Restart
  BY <1>3 DEF Restart, Disrupt, Died
<1>4. ASSUME NEW o \in Requests \X DiskIds, Work(o) \/ FailOp(o)
      PROVE  \/ pc'[q] = pc[q] /\ local'[q] = local[q] /\ res'[q] = res[q]
             \/ \E d \in DiskIds : \E outcome \in {Verdict(q, d), "failed"} : Settled(q, d, outcome)
  <2>1. PICK r \in Requests, d \in DiskIds : o = <<r, d>>
    OBVIOUS
  <2>2. /\ o \in ops /\ UNCHANGED <<pc, res>>
        /\ ~Awaited(o) => UNCHANGED local
    BY <1>4 DEF Work, FailOp, FinishOp, BreakOp, Finish, Break, Settle
  <2>3. CASE Awaited(o) /\ q = r
    <3>1. \/ FinishOp(o) /\ local' = [local EXCEPT ![r].outcome = Verdict(r, d)]
          \/ FailOp(o) /\ local' = [local EXCEPT ![r].outcome = "failed"]
      BY <1>4, <2>1, <2>3 DEF Work, FailOp, FinishOp, BreakOp, Settle
    <3>2. local \in [Requests -> Local]
      BY DEF TypeOK, ControllerTypeOK
    <3>3. \E outcome \in {Verdict(q, d), "failed"} : Settled(q, d, outcome)
      <4>1. CASE FinishOp(o) /\ local' = [local EXCEPT ![r].outcome = Verdict(r, d)]
        <5>1. local'[q] = [local[q] EXCEPT !.outcome = Verdict(q, d)]
          BY <2>3, <3>2, <4>1, Zenon
        <5>2. Settled(q, d, Verdict(q, d))
          BY <2>1, <2>2, <2>3, <4>1, <5>1, Zenon DEF Settled
        <5>3. QED
          BY <5>2
      <4>2. CASE FailOp(o) /\ local' = [local EXCEPT ![r].outcome = "failed"]
        <5>1. local'[q] = [local[q] EXCEPT !.outcome = "failed"]
          BY <2>3, <3>2, <4>2, Zenon
        <5>2. Settled(q, d, "failed")
          BY <2>1, <2>2, <2>3, <4>2, <5>1, Zenon DEF Settled
        <5>3. QED
          BY <5>2
      <4>3. QED
        BY <3>1, <4>1, <4>2
    <3>4. QED
      BY <3>3
  <2>4. CASE ~(Awaited(o) /\ q = r)
    <3>1. local'[q] = local[q]
      <4>1. CASE Awaited(o)
        <5>1. PICK x : local' = [local EXCEPT ![r].outcome = x]
          BY <1>4, <2>1, <4>1 DEF Work, FailOp, FinishOp, BreakOp, Settle
        <5>2. QED
          BY <2>4, <4>1, <5>1 DEF TypeOK, ControllerTypeOK
      <4>2. QED
        BY <2>2, <4>1
    <3>2. QED
      BY <2>2, <3>1
  <2>5. QED
    BY <2>3, <2>4
<1>5. CASE \/ \E d \in DiskIds : ResizeByHand(d)
           \/ \E n \in Nodes : DisruptInstance(n)
           \/ UNCHANGED vars
  BY <1>5 DEF ResizeByHand, DisruptInstance, vars, controllerVars
<1>6. ASSUME NEW r \in Requests, Issue(r) \/ Handle(r) \/ Receive(r) \/ FailCall(r)
      PROVE  \/ pc'[q] = pc[q] /\ local'[q] = local[q] /\ res'[q] = res[q]
             \/ Issue(q) \/ Receive(q) \/ FailCall(q)
             \/ HandlerStep(q) /\ ~Panic(q) /\ UNCHANGED sidecarVars
             \/ Died
  <2>1. CASE Handle(r)
    <3>1. HandlerStep(r) /\ UNCHANGED sidecarVars
      BY <2>1 DEF Handle
    <3>2. QED
      BY <2>1, <3>1, <1>1, <1>2, Zenon
  <2>2. QED
    BY <1>6, <1>1, <2>1, Zenon
<1>7. QED
  BY <1>3, <1>4, <1>5, <1>6 DEF Next

-----------------------------------------------------------------------------
(* The queues of the sidecars *)

(***************************************************************************)
(* A call is under way only since its sidecar made it.                     *)
(***************************************************************************)
LEMMA StartedByIssue ==
    ASSUME TypeOK, [Next]_vars, NEW q \in Requests, pc'[q] # "idle", pc[q] = "idle"
    PROVE  Issue(q) /\ OnlyCall(q)
<1>1. ~Receive(q)
  BY DEF Receive
<1>2. ~FailCall(q) /\ ~HandlerStep(q)
  BY DEF FailCall, CallFails, HandlerStep, ListDisks, CreateDisk, CreateDone, Submit,
         DeleteDone, PublishGetDisk, PublishGetInstance, PublishDone, UnpublishGetDisk,
         UnpublishGetInstance, UnpublishDone, ExpandGetDisk, ExpandDone, Panic, At
<1>3. \A d \in DiskIds : \A outcome \in {Verdict(q, d), "failed"} : ~Settled(q, d, outcome)
  BY DEF Settled, Awaited
<1>4. ~Died
  BY DEF Died, Crash
<1>5. Issue(q)
  BY <1>1, <1>2, <1>3, <1>4, Turns
<1>6. QED
  BY <1>5, OneCall

(***************************************************************************)
(* The sidecars never have two calls under way that exclude each other.    *)
(***************************************************************************)
LEMMA QueuesStep ==
    ASSUME TypeOK, CallsAreQueued, [Next]_vars
    PROVE  CallsAreQueued'
<1> SUFFICES ASSUME NEW r \in Requests, NEW q \in Requests,
                    pc'[r] # "idle", pc'[q] # "idle", SameSubject(r, q),
                    OneCallPerVolume \/ SameQueue(r, q)
             PROVE  r = q
  BY DEF CallsAreQueued, SameSubject, SameQueue, OnDisk
<1>1. SameSubject(q, r) /\ (SameQueue(r, q) => SameQueue(q, r))
  BY DEF SameSubject, SameQueue, OnDisk
<1>2. ASSUME NEW p \in Requests, NEW w \in Requests, Issue(p), p # w, OnlyCall(p),
             pc'[w] # "idle", SameSubject(p, w), OneCallPerVolume \/ SameQueue(p, w)
      PROVE  FALSE
  <2>1. pc[w] # "idle"
    BY <1>2 DEF OnlyCall
  <2>2. MayCall(p)
    BY <1>2 DEF Issue, IssueCreate, IssueDelete, IssuePublish, IssueUnpublish, IssueExpand,
                IssueSnapshot, CreateSnapshot, At, SameSubject, OnDisk
  <2>3. QED
    BY <1>2, <2>1, <2>2 DEF MayCall
<1>3. CASE pc[r] = "idle"
  BY <1>2, <1>3, StartedByIssue
<1>4. CASE pc[q] = "idle"
  BY <1>1, <1>2, <1>4, StartedByIssue
<1>5. CASE pc[r] # "idle" /\ pc[q] # "idle"
  BY <1>5 DEF CallsAreQueued
<1>6. QED
  BY <1>3, <1>4, <1>5

-----------------------------------------------------------------------------
(* The disks *)

(***************************************************************************)
(* What may happen to the cloud in a step.                                 *)
(***************************************************************************)
LEMMA CloudMoves ==
    ASSUME TypeOK, [Next]_vars
    PROVE  \/ UNCHANGED computeVars
           \/ /\ UNCHANGED <<sidecarVars, inst>>
              /\ \E r \in Requests, d \in DiskIds :
                    At(r, "create", "send") /\ Allocate(r, d) /\ Wait(r, d, "done") /\ UNCHANGED res
           \/ /\ UNCHANGED <<sidecarVars, disks, inst>>
              /\ \E r \in Requests : /\ pc[r] = "send" /\ OnDisk(r) /\ Submit(r)
                                     /\ Answer(r, r.disk) = "done"
                                     /\ ops' = ops \cup {<<r, r.disk>>}
           \/ /\ UNCHANGED <<sidecarVars, inst>>
              /\ \E r \in Requests, d \in DiskIds :
                    /\ <<r, d>> \in ops /\ ops' = ops \ {<<r, d>>}
                    /\ \/ /\ FinishOp(<<r, d>>)
                          /\ disks' = IF Verdict(r, d) = "done"
                                      THEN [disks EXCEPT ![d] = Changed(r, @)] ELSE disks
                       \/ /\ FailOp(<<r, d>>) /\ "opFails" \in Disruptions
                          /\ disks' = IF r.kind = "create"
                                      THEN [disks EXCEPT ![d].state = "gone"] ELSE disks
           \/ /\ UNCHANGED <<sidecarVars, controllerVars, ops, inst>> /\ "panel" \in Disruptions
              /\ \E d \in DiskIds : PanelResize(d, disks[d].size + 1)
           \/ /\ UNCHANGED <<sidecarVars, controllerVars, ops>>
              /\ \E n \in Nodes : StopInstance(n) \/ StartInstance(n) \/ DeleteInstance(n)
<1>1. ASSUME NEW r \in Requests, Issue(r) \/ Receive(r) \/ FailCall(r)
      PROVE  UNCHANGED computeVars
  BY <1>1 DEF Issue, IssueCreate, IssueDelete, IssuePublish, IssueUnpublish, IssueExpand,
              IssueSnapshot, CreateVolume, DeleteVolume, ControllerPublishVolume,
              ControllerUnpublishVolume, ControllerExpandVolume, CreateSnapshot,
              Receive, FailCall, CallFails
<1>2. ASSUME NEW r \in Requests, Handle(r), ~CreateDisk(r), ~Submit(r)
      PROVE  UNCHANGED computeVars
  BY <1>2 DEF Handle, HandlerStep, ListDisks, CreateDone, DeleteDone, PublishGetDisk,
              PublishGetInstance, PublishDone, UnpublishGetDisk, UnpublishGetInstance,
              UnpublishDone, ExpandGetDisk, ExpandDone, Panic, Crash
<1>3. ASSUME NEW r \in Requests, Handle(r), CreateDisk(r)
      PROVE  \/ UNCHANGED computeVars
             \/ /\ UNCHANGED <<sidecarVars, inst>>
                /\ \E d \in DiskIds :
                      At(r, "create", "send") /\ Allocate(r, d) /\ Wait(r, d, "done") /\ UNCHANGED res
  BY <1>3 DEF Handle, CreateDisk, computeVars
<1>4. ASSUME NEW r \in Requests, Handle(r), Submit(r)
      PROVE  /\ UNCHANGED <<sidecarVars, disks, inst>> /\ pc[r] = "send" /\ OnDisk(r)
             /\ ops' = IF Answer(r, r.disk) = "done" THEN ops \cup {<<r, r.disk>>} ELSE ops
  BY <1>4 DEF Handle, Submit, Wait, OnDisk
<1>5. ASSUME NEW r \in Requests, NEW d \in DiskIds, Work(<<r, d>>) \/ FailOp(<<r, d>>)
      PROVE  /\ UNCHANGED <<sidecarVars, inst>>
             /\ <<r, d>> \in ops /\ ops' = ops \ {<<r, d>>}
             /\ \/ /\ FinishOp(<<r, d>>)
                   /\ disks' = IF Verdict(r, d) = "done"
                               THEN [disks EXCEPT ![d] = Changed(r, @)] ELSE disks
                \/ /\ FailOp(<<r, d>>) /\ "opFails" \in Disruptions
                   /\ disks' = IF r.kind = "create"
                               THEN [disks EXCEPT ![d].state = "gone"] ELSE disks
  BY <1>5 DEF Work, FailOp, FinishOp, BreakOp, Finish, Break, Settle, Disrupt
<1>6. ASSUME NEW d \in DiskIds, ResizeByHand(d)
      PROVE  /\ UNCHANGED <<sidecarVars, controllerVars, ops, inst>> /\ "panel" \in Disruptions
             /\ PanelResize(d, disks[d].size + 1)
  BY <1>6 DEF ResizeByHand, Disrupt, PanelResize
<1>7. ASSUME NEW n \in Nodes, DisruptInstance(n)
      PROVE  /\ UNCHANGED <<sidecarVars, controllerVars, ops>>
             /\ StopInstance(n) \/ StartInstance(n) \/ DeleteInstance(n)
  BY <1>7 DEF DisruptInstance, Disrupt, StopInstance, StartInstance, DeleteInstance
<1>8. CASE Restart \/ UNCHANGED vars
  BY <1>8 DEF Restart, Crash, vars
<1>9. CASE \E r \in Requests : Issue(r) \/ Handle(r) \/ Receive(r) \/ FailCall(r)
  <2>1. PICK r \in Requests : Issue(r) \/ Handle(r) \/ Receive(r) \/ FailCall(r)
    BY <1>9
  <2>2. CASE Handle(r) /\ Submit(r)
    <3>1. CASE Answer(r, r.disk) = "done"
      BY <1>4, <2>2, <3>1
    <3>2. CASE Answer(r, r.disk) # "done"
      BY <1>4, <2>2, <3>2 DEF computeVars
    <3>3. QED
      BY <3>1, <3>2
  <2>3. CASE Handle(r) /\ CreateDisk(r)
    BY <1>3, <2>3
  <2>4. QED
    BY <1>1, <1>2, <2>1, <2>2, <2>3
<1>10. CASE \E o \in Requests \X DiskIds : Work(o) \/ FailOp(o)
  <2>1. PICK r \in Requests, d \in DiskIds : Work(<<r, d>>) \/ FailOp(<<r, d>>)
    BY <1>10
  <2>2. QED
    BY <1>5, <2>1
<1>11. QED
  BY <1>6, <1>7, <1>8, <1>9, <1>10 DEF Next

(***************************************************************************)
(* How a disk ends up after a step: a new one is created for a request, a  *)
(* creation ends, a disk that is ready is deleted, attached, detached or   *)
(* made larger, and that is all.                                           *)
(***************************************************************************)
DiskStep(d) ==
    \/ disks'[d] = disks[d]
    \/ /\ disks[d].state = "none"
       /\ \E r \in Requests :
             /\ r.kind = "create" /\ pc[r] = "send" /\ pc'[r] = "wait" /\ local'[r].disk = d
             /\ disks'[d] = NewDisk("creating", r.name, ExtractedSize(r.range),
                                    BlockSizeOf(r.blockSize), r.zone)
    \/ /\ disks[d].state = "creating"
       /\ \E r \in Requests : r.kind = "create" /\ <<r, d>> \in ops /\ <<r, d>> \notin ops'
       /\ \/ disks'[d] = [disks[d] EXCEPT !.state = "ready"]
          \/ "opFails" \in Disruptions /\ disks'[d] = [disks[d] EXCEPT !.state = "gone"]
    \/ /\ disks[d].state = "ready" /\ disks[d].at = {}
       /\ \E r \in Requests : r.kind = "delete" /\ r.disk = d /\ <<r, d>> \in ops
       /\ disks'[d] = [disks[d] EXCEPT !.state = "gone"]
    \/ /\ disks[d].state = "ready"
       /\ disks'[d] = [disks[d] EXCEPT !.at = disks'[d].at]
    \/ /\ disks[d].state = "ready" /\ disks[d].size < disks'[d].size
       /\ \/ "panel" \in Disruptions
          \/ \E r \in Requests : r.kind = "expand" /\ r.disk = d /\ <<r, d>> \in ops
       /\ disks'[d] = [disks[d] EXCEPT !.size = disks'[d].size]

(***************************************************************************)
(* Every step ends up so for every disk.                                   *)
(***************************************************************************)
LEMMA DiskSteps ==
    ASSUME TypeOK, CloudInv, [Next]_vars, NEW d \in DiskIds
    PROVE  DiskStep(d)
<1>1. disks \in [DiskIds -> Disk] /\ ops \subseteq Requests \X DiskIds
  BY DEF TypeOK, ComputeTypeOK
<1>2. CASE UNCHANGED computeVars
  BY <1>2 DEF DiskStep, computeVars
<1>3. CASE \E r \in Requests, e \in DiskIds :
              At(r, "create", "send") /\ Allocate(r, e) /\ Wait(r, e, "done") /\ UNCHANGED res
  <2>1. PICK r \in Requests, e \in DiskIds :
               At(r, "create", "send") /\ Allocate(r, e) /\ Wait(r, e, "done")
    BY <1>3
  <2>2. pc'[r] = "wait" /\ local'[r].disk = e
    BY <2>1 DEF Wait, At, TypeOK, ControllerTypeOK
  <2>3. QED
    BY <1>1, <2>1, <2>2 DEF Allocate, At, DiskStep
<1>4. CASE \E r \in Requests : Submit(r)
  BY <1>4 DEF Submit, DiskStep
<1>5. ASSUME NEW r \in Requests, NEW e \in DiskIds, <<r, e>> \in ops, ops' = ops \ {<<r, e>>},
             UNCHANGED inst,
             \/ disks' = IF Verdict(r, e) = "done"
                         THEN [disks EXCEPT ![e] = Changed(r, @)] ELSE disks
             \/ /\ "opFails" \in Disruptions
                /\ disks' = IF r.kind = "create"
                            THEN [disks EXCEPT ![e].state = "gone"] ELSE disks
      PROVE  DiskStep(d)
  <2>1. CASE e # d
    BY <1>1, <1>5, <2>1 DEF DiskStep
  <2>2. CASE e = d /\ r.kind = "create"
    <3>1. disks[d].state = "creating"
      BY <1>5, <2>2 DEF CloudInv, OpsKnowTheirDisk
    <3>2. \/ disks'[d] = disks[d]
          \/ disks'[d] = [disks[d] EXCEPT !.state = "ready"]
          \/ "opFails" \in Disruptions /\ disks'[d] = [disks[d] EXCEPT !.state = "gone"]
      <4>1. disks[d] \in Disk
        BY <1>1
      <4>2. Changed(r, disks[d]) = [disks[d] EXCEPT !.state = "ready"]
        BY <2>2 DEF Changed
      <4>3. QED
        BY <1>1, <1>5, <2>2, <4>2
    <3>3. QED
      BY <1>5, <2>2, <3>1, <3>2 DEF DiskStep
  <2>3. CASE e = d /\ r.kind # "create" /\ disks' # disks
    <3>1. /\ Verdict(r, d) = "done" /\ disks' = [disks EXCEPT ![d] = Changed(r, @)]
          /\ r.disk = d
      BY <1>5, <2>3 DEF CloudInv, OpsKnowTheirDisk
    <3>2. disks[d].state = "ready" /\ (r.kind = "delete" => disks[d].at = {})
          /\ (r.kind = "expand" => disks[d].size <= ExtractedSize(r.range))
      BY <2>3, <3>1 DEF Verdict
    <3>3. disks'[d] = Changed(r, disks[d])
      BY <1>1, <3>1
    <3>4. CASE r.kind = "delete"
      BY <1>5, <2>3, <3>1, <3>2, <3>3, <3>4 DEF DiskStep, Changed
    <3>5. CASE r.kind \in {"publish", "unpublish"}
      <4>1. disks'[d] = [disks[d] EXCEPT !.at = disks'[d].at]
        BY <1>1, <3>3, <3>5 DEF Changed, Disk
      <4>2. QED
        BY <3>2, <4>1 DEF DiskStep
    <3>6. CASE r.kind = "expand"
      <4>1. ExtractedSize(r.range) \in Int /\ disks[d].size \in Int
        BY <1>1, <3>6, RequestFields DEF Disk
      <4>2. /\ disks'[d] = [disks[d] EXCEPT !.size = ExtractedSize(r.range)]
            /\ disks'[d].size = ExtractedSize(r.range)
        BY <1>1, <3>3, <3>6 DEF Changed, Disk
      <4>3. CASE disks[d].size = ExtractedSize(r.range)
        <5>1. disks'[d] = disks[d]
          BY <1>1, <4>2, <4>3 DEF Disk
        <5>2. QED
          BY <5>1 DEF DiskStep
      <4>4. CASE disks[d].size # ExtractedSize(r.range)
        <5>1. disks[d].size < disks'[d].size
          BY <3>2, <3>6, <4>1, <4>2, <4>4
        <5>2. QED
          BY <1>5, <2>3, <3>1, <3>2, <3>6, <4>2, <5>1 DEF DiskStep
      <4>5. QED
        BY <4>3, <4>4
    <3>7. CASE r.kind \notin {"create", "delete", "publish", "unpublish", "expand"}
      BY <3>3, <3>7 DEF Changed, DiskStep
    <3>8. QED
      BY <2>3, <3>4, <3>5, <3>6, <3>7
  <2>4. QED
    BY <2>1, <2>2, <2>3 DEF DiskStep
<1>6. CASE "panel" \in Disruptions /\ \E e \in DiskIds : PanelResize(e, disks[e].size + 1)
  <2>1. PICK e \in DiskIds : PanelResize(e, disks[e].size + 1)
    BY <1>6
  <2>2. CASE e # d
    BY <1>1, <2>1, <2>2 DEF PanelResize, DiskStep
  <2>3. CASE e = d
    <3>1. /\ disks[d].state = "ready" /\ disks[d].size < disks[d].size + 1
          /\ disks'[d] = [disks[d] EXCEPT !.size = disks[d].size + 1]
          /\ disks'[d].size = disks[d].size + 1
      BY <1>1, <2>1, <2>3 DEF PanelResize, Disk
    <3>2. QED
      BY <1>6, <3>1 DEF DiskStep
  <2>4. QED
    BY <2>2, <2>3
<1>7. CASE \E n \in Nodes : StopInstance(n) \/ StartInstance(n) \/ DeleteInstance(n)
  <2>1. CASE UNCHANGED disks
    BY <2>1 DEF DiskStep
  <2>2. CASE \E n \in Nodes : DeleteInstance(n)
    <3>1. PICK n \in Nodes : disks'[d] = [disks[d] EXCEPT !.at = @ \ {n}]
      BY <2>2 DEF DeleteInstance
    <3>2. disks'[d] = [disks[d] EXCEPT !.at = disks'[d].at]
      BY <1>1, <3>1 DEF Disk
    <3>3. CASE disks[d].state = "ready"
      BY <3>2, <3>3 DEF DiskStep
    <3>4. CASE disks[d].state # "ready"
      <4>1. disks[d].at = {}
        BY <3>4 DEF CloudInv, AttachedIsThere
      <4>2. disks'[d] = disks[d]
        BY <1>1, <3>1, <4>1 DEF Disk
      <4>3. QED
        BY <4>2 DEF DiskStep
    <3>5. QED
      BY <3>3, <3>4
  <2>3. QED
    BY <1>7, <2>1, <2>2 DEF StopInstance, StartInstance
<1>8. QED
  BY <1>2, <1>3, <1>4, <1>5, <1>6, <1>7, CloudMoves

(***************************************************************************)
(* A disk keeps its name, zone and block size, and its id for good; it     *)
(* never shrinks, and one that is gone does not come back.                 *)
(***************************************************************************)
LEMMA DiskLasts ==
    ASSUME TypeOK, CloudInv, [Next]_vars, NEW d \in DiskIds, disks[d].state # "none"
    PROVE  /\ disks'[d].state # "none" /\ disks'[d].name = disks[d].name
           /\ disks'[d].zone = disks[d].zone /\ disks'[d].blockSize = disks[d].blockSize
           /\ disks[d].size <= disks'[d].size
           /\ Exists(d)' => Exists(d)
           /\ disks[d].state = "ready" /\ Exists(d)' => disks'[d].state = "ready"
<1>1. disks[d] \in Disk /\ disks'[d] \in Disk /\ DiskStep(d)
  BY DiskSteps, TypeStep DEF TypeOK, ComputeTypeOK
<1>2. CASE disks'[d] = disks[d]
  BY <1>1, <1>2 DEF Disk, Exists
<1>3. CASE /\ disks[d].state = "creating"
           /\ disks'[d] = [disks[d] EXCEPT !.state = "ready"]
  BY <1>1, <1>3 DEF Disk, Exists
<1>4. CASE /\ disks[d].state \in {"creating", "ready"}
           /\ disks'[d] = [disks[d] EXCEPT !.state = "gone"]
  BY <1>1, <1>4 DEF Disk, Exists
<1>5. CASE disks[d].state = "ready" /\ \E at : disks'[d] = [disks[d] EXCEPT !.at = at]
  BY <1>1, <1>5 DEF Disk, Exists
<1>6. CASE /\ disks[d].state = "ready" /\ disks[d].size < disks'[d].size
           /\ \E size : disks'[d] = [disks[d] EXCEPT !.size = size]
  <2>1. PICK size : disks'[d] = [disks[d] EXCEPT !.size = size]
    BY <1>6
  <2>2. /\ disks'[d].state = disks[d].state /\ disks'[d].name = disks[d].name
        /\ disks'[d].zone = disks[d].zone /\ disks'[d].blockSize = disks[d].blockSize
    BY <1>1, <2>1 DEF Disk
  <2>3. disks[d].size \in Int /\ disks'[d].size \in Int
    BY <1>1 DEF Disk
  <2>4. disks[d].size <= disks'[d].size
    BY <1>6, <2>3
  <2>5. QED
    BY <1>6, <2>2, <2>4 DEF Exists
<1>7. QED
  BY <1>1, <1>2, <1>3, <1>4, <1>5, <1>6 DEF DiskStep

(***************************************************************************)
(* A disk that exists goes when it is deleted, or when its creation fails. *)
(***************************************************************************)
LEMMA DiskGoes ==
    ASSUME TypeOK, CloudInv, [Next]_vars, NEW d \in DiskIds, Exists(d), ~Exists(d)'
    PROVE  \/ "opFails" \in Disruptions /\ disks[d].state = "creating"
           \/ \E r \in Requests : r.kind = "delete" /\ r.disk = d /\ <<r, d>> \in ops
<1>1. disks[d] \in Disk /\ DiskStep(d)
  BY DiskSteps DEF TypeOK, ComputeTypeOK
<1>2. disks[d].state \in {"creating", "ready"} /\ disks'[d].state \notin {"creating", "ready"}
  BY DEF Exists
<1>3. /\ \A at : [disks[d] EXCEPT !.at = at].state = disks[d].state
      /\ \A size : [disks[d] EXCEPT !.size = size].state = disks[d].state
      /\ [disks[d] EXCEPT !.state = "ready"].state = "ready"
  BY <1>1 DEF Disk
<1>4. QED
  BY <1>1, <1>2, <1>3 DEF DiskStep

(***************************************************************************)
(* A disk comes to bear a name only where a CreateVolume creates it.       *)
(***************************************************************************)
LEMMA NameIsGiven ==
    ASSUME TypeOK, CloudInv, [Next]_vars, NEW d \in DiskIds, Exists(d)', ~Exists(d)
    PROVE  \E r \in Requests :
              /\ r.kind = "create" /\ pc[r] = "send" /\ pc'[r] = "wait" /\ local'[r].disk = d
              /\ disks'[d].name = r.name
<1>1. disks[d] \in Disk /\ DiskStep(d)
  BY DiskSteps DEF TypeOK, ComputeTypeOK
<1>2. disks[d].state \notin {"creating", "ready"} /\ disks'[d].state \in {"creating", "ready"}
  BY DEF Exists
<1>3. \E r \in Requests :
         /\ r.kind = "create" /\ pc[r] = "send" /\ pc'[r] = "wait" /\ local'[r].disk = d
         /\ disks'[d] = NewDisk("creating", r.name, ExtractedSize(r.range),
                                BlockSizeOf(r.blockSize), r.zone)
  BY <1>1, <1>2 DEF DiskStep
<1>4. QED
  BY <1>3 DEF NewDisk

(***************************************************************************)
(* A disk is attached by a publication that finds its instance there.      *)
(***************************************************************************)
LEMMA DiskAttaches ==
    ASSUME TypeOK, CloudInv, [Next]_vars, NEW d \in DiskIds,
           NEW n \in disks'[d].at, n \notin disks[d].at
    PROVE  /\ UNCHANGED <<inst, va>> /\ inst[n] # "gone" /\ disks[d].state = "ready"
           /\ disks'[d].at = disks[d].at \cup {n}
           /\ StrictCloud => disks[d].at = {}
           /\ \E r \in Requests : /\ r.kind = "publish" /\ r.disk = d /\ r.node = n
                                  /\ <<r, d>> \in ops /\ FinishOp(<<r, d>>)
<1>1. disks \in [DiskIds -> Disk] /\ ops \subseteq Requests \X DiskIds
  BY DEF TypeOK, ComputeTypeOK
<1>2. ~UNCHANGED disks
  OBVIOUS
<1>3. ASSUME NEW r \in Requests, NEW e \in DiskIds, Allocate(r, e)
      PROVE  FALSE
  <2>1. disks'[d] = disks[d] \/ disks'[d].at = {}
    BY <1>1, <1>3 DEF Allocate, NewDisk
  <2>2. QED
    BY <2>1
<1>4. ASSUME NEW e \in DiskIds, PanelResize(e, disks[e].size + 1)
      PROVE  FALSE
  <2>1. disks'[d].at = disks[d].at
    BY <1>1, <1>4 DEF PanelResize, Disk
  <2>2. QED
    BY <2>1
<1>5. ASSUME NEW m \in Nodes, DeleteInstance(m)
      PROVE  FALSE
  <2>1. disks'[d].at = disks[d].at \ {m}
    BY <1>1, <1>5 DEF DeleteInstance, Disk
  <2>2. QED
    BY <2>1
<1>6. PICK r \in Requests, e \in DiskIds :
             /\ UNCHANGED <<sidecarVars, inst>> /\ <<r, e>> \in ops
             /\ \/ /\ FinishOp(<<r, e>>)
                   /\ disks' = IF Verdict(r, e) = "done"
                               THEN [disks EXCEPT ![e] = Changed(r, @)] ELSE disks
                \/ disks' = IF r.kind = "create"
                            THEN [disks EXCEPT ![e].state = "gone"] ELSE disks
  BY <1>2, <1>3, <1>4, <1>5, CloudMoves
     DEF computeVars, Submit, At, StopInstance, StartInstance
<1>7. ~(disks' = IF r.kind = "create" THEN [disks EXCEPT ![e].state = "gone"] ELSE disks)
  <2>1. SUFFICES ASSUME disks' = [disks EXCEPT ![e].state = "gone"] PROVE FALSE
    BY <1>2
  <2>2. disks'[d].at = disks[d].at
    BY <1>1, <2>1 DEF Disk
  <2>3. QED
    BY <2>2
<1>8. /\ FinishOp(<<r, e>>) /\ Verdict(r, e) = "done" /\ e = d
      /\ disks'[d] = Changed(r, disks[d])
  <2>1. FinishOp(<<r, e>>) /\ Verdict(r, e) = "done" /\ disks' = [disks EXCEPT ![e] = Changed(r, @)]
    BY <1>2, <1>6, <1>7
  <2>2. e = d
    BY <1>1, <2>1
  <2>3. QED
    BY <1>1, <2>1, <2>2
<1>9. r.kind = "publish"
  <2>1. r.kind # "publish" => Changed(r, disks[d]).at \subseteq disks[d].at
    <3>1. disks[d] \in Disk
      BY <1>1
    <3>2. QED
      BY <3>1 DEF Changed, Disk
  <2>2. QED
    BY <1>8, <2>1
<1>10. /\ inst[r.node] # "gone" /\ disks[d].state = "ready"
       /\ StrictCloud => disks[d].at = {}
  BY <1>8, <1>9 DEF Verdict
<1>11. Changed(r, disks[d]).at = disks[d].at \cup {r.node}
  BY <1>1, <1>9 DEF Changed, Disk
<1>12. r.node = n /\ r.disk = d
  BY <1>6, <1>8, <1>9, <1>11 DEF CloudInv, OpsKnowTheirDisk
<1>13. QED
  BY <1>6, <1>8, <1>9, <1>10, <1>11, <1>12 DEF sidecarVars

(***************************************************************************)
(* A disk is detached by an operation, or with its instance.               *)
(***************************************************************************)
LEMMA DiskDetaches ==
    ASSUME TypeOK, CloudInv, [Next]_vars, NEW d \in DiskIds,
           NEW n \in disks[d].at, n \notin disks'[d].at
    PROVE  /\ UNCHANGED <<sidecarVars, pc, res>>
           /\ \/ inst'[n] = "gone"
              \/ \E r \in Requests : /\ r.kind = "unpublish" /\ r.disk = d /\ r.node = n
                                     /\ <<r, d>> \in ops /\ FinishOp(<<r, d>>)
<1>1. /\ disks \in [DiskIds -> Disk] /\ ops \subseteq Requests \X DiskIds
      /\ inst \in [Nodes -> {"running", "stopped", "gone"}]
  BY DEF TypeOK, ComputeTypeOK
<1>2. ~UNCHANGED disks
  OBVIOUS
<1>3. disks[d].state = "ready" /\ n \in Nodes
  BY <1>1 DEF CloudInv, AttachedIsThere, Disk
<1>4. ASSUME NEW r \in Requests, NEW e \in DiskIds, Allocate(r, e)
      PROVE  FALSE
  <2>1. disks'[d] = disks[d]
    BY <1>1, <1>3, <1>4 DEF Allocate
  <2>2. QED
    BY <2>1
<1>5. ASSUME NEW e \in DiskIds, PanelResize(e, disks[e].size + 1)
      PROVE  FALSE
  <2>1. disks'[d].at = disks[d].at
    BY <1>1, <1>5 DEF PanelResize, Disk
  <2>2. QED
    BY <2>1
<1>6. CASE \E m \in Nodes : DeleteInstance(m)
  <2>1. PICK m \in Nodes : DeleteInstance(m)
    BY <1>6
  <2>2. disks'[d].at = disks[d].at \ {m} /\ inst'[m] = "gone"
    BY <1>1, <2>1 DEF DeleteInstance, Disk
  <2>3. UNCHANGED <<sidecarVars, pc, res>>
    BY <1>2, <1>4, <1>5, <2>1, CloudMoves
       DEF computeVars, controllerVars, Submit, At, FinishOp, FailOp, BreakOp, Settle
  <2>4. QED
    BY <2>2, <2>3
<1>7. CASE ~\E m \in Nodes : DeleteInstance(m)
  <2>1. PICK r \in Requests, e \in DiskIds :
               /\ UNCHANGED sidecarVars /\ <<r, e>> \in ops
               /\ \/ /\ FinishOp(<<r, e>>)
                     /\ disks' = IF Verdict(r, e) = "done"
                                 THEN [disks EXCEPT ![e] = Changed(r, @)] ELSE disks
                  \/ /\ FailOp(<<r, e>>)
                     /\ disks' = IF r.kind = "create"
                                 THEN [disks EXCEPT ![e].state = "gone"] ELSE disks
    BY <1>2, <1>4, <1>5, <1>7, CloudMoves
       DEF computeVars, Submit, At, StopInstance, StartInstance
  <2>2. ~(disks' = IF r.kind = "create" THEN [disks EXCEPT ![e].state = "gone"] ELSE disks)
    <3>1. SUFFICES ASSUME disks' = [disks EXCEPT ![e].state = "gone"] PROVE FALSE
      BY <1>2
    <3>2. disks'[d].at = disks[d].at
      BY <1>1, <3>1 DEF Disk
    <3>3. QED
      BY <3>2
  <2>3. /\ FinishOp(<<r, e>>) /\ e = d /\ disks'[d] = Changed(r, disks[d])
        /\ UNCHANGED <<pc, res>>
    <3>1. FinishOp(<<r, e>>) /\ disks' = [disks EXCEPT ![e] = Changed(r, @)]
      BY <1>2, <2>1, <2>2
    <3>2. e = d
      BY <1>1, <3>1
    <3>3. QED
      BY <1>1, <3>1, <3>2 DEF FinishOp, Settle
  <2>4. r.kind = "unpublish" /\ r.node = n
    <3>1. disks[d] \in Disk
      BY <1>1
    <3>2. /\ r.kind # "unpublish" => disks[d].at \subseteq Changed(r, disks[d]).at
          /\ r.kind = "unpublish" => Changed(r, disks[d]).at = disks[d].at \ {r.node}
      BY <3>1 DEF Changed, Disk
    <3>3. QED
      BY <2>3, <3>2
  <2>5. r.disk = d
    BY <2>1, <2>3, <2>4 DEF CloudInv, OpsKnowTheirDisk
  <2>6. QED
    BY <2>1, <2>3, <2>4, <2>5
<1>8. QED
  BY <1>6, <1>7

(***************************************************************************)
(* A new operation is one the controller has just asked for.               *)
(***************************************************************************)
LEMMA OpStarts ==
    ASSUME TypeOK, [Next]_vars, NEW o \in ops', o \notin ops
    PROVE  \/ \E r \in Requests, d \in DiskIds :
                 /\ o = <<r, d>> /\ r.kind = "create" /\ pc[r] = "send"
                 /\ Allocate(r, d) /\ Wait(r, d, "done") /\ UNCHANGED <<inst, res, sidecarVars>>
           \/ \E r \in Requests :
                 /\ o = <<r, r.disk>> /\ OnDisk(r) /\ pc[r] = "send" /\ Submit(r)
                 /\ Answer(r, r.disk) = "done" /\ UNCHANGED <<disks, inst, sidecarVars>>
<1>1. UNCHANGED ops \/ ops' \subseteq ops => FALSE
  OBVIOUS
<1>2. ASSUME NEW r \in Requests, NEW d \in DiskIds, Wait(r, d, "done")
      PROVE  o = <<r, d>>
  BY <1>2 DEF Wait
<1>3. QED
  BY <1>1, <1>2, CloudMoves DEF computeVars, At, StopInstance, StartInstance, DeleteInstance

(***************************************************************************)
(* CloudInv is inductive.                                                  *)
(***************************************************************************)
LEMMA CloudStep ==
    ASSUME TypeOK, CloudInv, [Next]_vars
    PROVE  CloudInv'
<1>1. /\ disks \in [DiskIds -> Disk] /\ ops \subseteq Requests \X DiskIds
      /\ disks' \in [DiskIds -> Disk] /\ ops' \subseteq Requests \X DiskIds
  BY TypeStep DEF TypeOK, ComputeTypeOK
<1>2. ASSUME NEW o \in ops', o \in ops, o[1].kind = "create"
      PROVE  disks'[o[2]] = disks[o[2]]
  <2>1. PICK r \in Requests, d \in DiskIds : o = <<r, d>>
    BY <1>1
  <2>2. /\ disks[d].state = "creating"
        /\ \A q \in Requests : q.kind = "create" /\ <<q, d>> \in ops => q = r
    BY <1>2, <2>1 DEF CloudInv, OpsKnowTheirDisk
  <2>3. QED
    BY <1>2, <2>1, <2>2, DiskSteps DEF DiskStep
<1>3. ASSUME NEW o \in ops', o \notin ops, o[1].kind = "create"
      PROVE  /\ disks[o[2]].state = "none"
             /\ disks'[o[2]].state = "creating" /\ disks'[o[2]].name = o[1].name
             /\ ops' = ops \cup {o}
  <2>1. PICK r \in Requests, d \in DiskIds :
               o = <<r, d>> /\ Allocate(r, d) /\ Wait(r, d, "done")
    BY <1>3, OpStarts DEF OnDisk
  <2>2. QED
    BY <1>1, <2>1 DEF Allocate, NewDisk, Wait
<1>4. OpsKnowTheirDisk'
  <2> SUFFICES ASSUME NEW o \in ops'
               PROVE  IF o[1].kind = "create"
                      THEN /\ disks'[o[2]].state = "creating"
                           /\ disks'[o[2]].name = o[1].name
                           /\ \A p \in ops' : p[1].kind = "create" /\ p[2] = o[2] => p = o
                      ELSE OnDisk(o[1]) /\ o[2] = o[1].disk
    BY DEF OpsKnowTheirDisk, OnDisk
  <2>1. CASE o \in ops /\ o[1].kind # "create"
    BY <2>1 DEF CloudInv, OpsKnowTheirDisk
  <2>2. CASE o \notin ops /\ o[1].kind # "create"
    BY <2>2, OpStarts
  <2>3. ASSUME NEW p \in ops', o[1].kind = "create", p[1].kind = "create", p[2] = o[2]
        PROVE  p = o
    <3>1. CASE p \in ops /\ o \in ops
      BY <2>3, <3>1 DEF CloudInv, OpsKnowTheirDisk
    <3>2. CASE p \notin ops
      <4>1. o \in ops => disks[o[2]].state = "creating"
        BY <2>3 DEF CloudInv, OpsKnowTheirDisk
      <4>2. QED
        BY <1>3, <2>3, <3>2, <4>1
    <3>3. CASE o \notin ops
      <4>1. p \in ops => disks[p[2]].state = "creating"
        BY <2>3 DEF CloudInv, OpsKnowTheirDisk
      <4>2. QED
        BY <1>3, <2>3, <3>3, <4>1
    <3>4. QED
      BY <3>1, <3>2, <3>3
  <2>4. CASE o \in ops /\ o[1].kind = "create"
    BY <1>2, <2>3, <2>4 DEF CloudInv, OpsKnowTheirDisk
  <2>5. CASE o \notin ops /\ o[1].kind = "create"
    BY <1>3, <2>3, <2>5
  <2>6. QED
    BY <2>1, <2>2, <2>4, <2>5
<1>5. AttachedIsThere'
  <2> SUFFICES ASSUME NEW d \in DiskIds
               PROVE  /\ disks'[d].state # "ready" => disks'[d].at = {}
                      /\ \A n \in disks'[d].at : inst'[n] # "gone"
    BY DEF AttachedIsThere
  <2>1. disks[d] \in Disk /\ disks'[d] \in Disk
    BY <1>1
  <2>2. /\ disks[d].state # "ready" => disks[d].at = {}
        /\ \A n \in disks[d].at : inst[n] # "gone"
    BY DEF CloudInv, AttachedIsThere
  <2>3. disks'[d].state # "ready" => disks'[d].at = {}
    <3>1. DiskStep(d)
      BY DiskSteps
    <3>2. CASE disks'[d] = disks[d]
      BY <2>2, <3>2
    <3>3. CASE \E s : disks'[d] = [disks[d] EXCEPT !.state = s] /\ disks[d].at = {}
      BY <2>1, <3>3 DEF Disk
    <3>4. CASE disks[d].state = "ready" /\ \E at : disks'[d] = [disks[d] EXCEPT !.at = at]
      BY <2>1, <3>4 DEF Disk
    <3>5. CASE disks[d].state = "ready" /\ \E size : disks'[d] = [disks[d] EXCEPT !.size = size]
      BY <2>1, <3>5 DEF Disk
    <3>6. CASE \E r \in Requests : disks'[d] = NewDisk("creating", r.name, ExtractedSize(r.range),
                                                       BlockSizeOf(r.blockSize), r.zone)
      BY <3>6 DEF NewDisk
    <3>7. QED
      BY <2>2, <3>1, <3>2, <3>3, <3>4, <3>5, <3>6 DEF DiskStep
  <2>4. ASSUME NEW n \in disks'[d].at PROVE inst'[n] # "gone"
    <3>1. CASE n \notin disks[d].at
      BY <3>1, DiskAttaches
    <3>2. CASE n \in disks[d].at
      <4>1. inst[n] # "gone" /\ n \in Nodes
        BY <2>1, <2>2, <3>2 DEF Disk
      <4>2. inst'[n] = inst[n] \/ \E m \in Nodes : StopInstance(m) \/ StartInstance(m) \/ DeleteInstance(m)
        BY CloudMoves DEF computeVars, Submit
      <4>3. ASSUME NEW m \in Nodes, StopInstance(m) \/ StartInstance(m) \/ DeleteInstance(m)
            PROVE  inst'[n] # "gone"
        <5>1. inst \in [Nodes -> {"running", "stopped", "gone"}]
          BY DEF TypeOK, ComputeTypeOK
        <5>2. DeleteInstance(m) => disks'[d].at = disks[d].at \ {m}
          BY <1>1 DEF DeleteInstance, Disk
        <5>3. QED
          BY <2>4, <4>1, <4>3, <5>1, <5>2 DEF StopInstance, StartInstance, DeleteInstance
      <4>4. QED
        BY <4>1, <4>2, <4>3
    <3>3. QED
      BY <3>1, <3>2
  <2>5. QED
    BY <2>3, <2>4
<1>6. QED
  BY <1>4, <1>5 DEF CloudInv

(***************************************************************************)
(* At the start no call and no operation is under way, and no disk is      *)
(* attached.                                                               *)
(***************************************************************************)
LEMMA InitCloud == Init => CallsAreQueued /\ CloudInv
<1> SUFFICES ASSUME Init PROVE CallsAreQueued /\ CloudInv
  OBVIOUS
<1>1. /\ ops = {}
      /\ pc = [r \in Requests |-> "idle"]
      /\ \A d \in DiskIds : disks[d].at = {}
  BY DEF Init, ComputeInit, ControllerInit, NewDisk
<1>2. QED
  BY <1>1 DEF CallsAreQueued, CloudInv, OpsKnowTheirDisk, AttachedIsThere

(***************************************************************************)
(* Whatever goes wrong, the queues exclude what they should, every         *)
(* operation is on its disk, and only a disk that is ready is attached.    *)
(***************************************************************************)
LEMMA CloudHolds == Spec => [](TypeOK /\ CallsAreQueued /\ CloudInv)
<1>1. TypeOK /\ CallsAreQueued /\ CloudInv /\ [Next]_vars
         => TypeOK' /\ CallsAreQueued' /\ CloudInv'
  BY TypeStep, QueuesStep, CloudStep
<1>2. QED
  BY <1>1, InitType, InitCloud, PTL DEF Spec


-----------------------------------------------------------------------------
(* Calls that nobody gives up *)

(***************************************************************************)
(* As long as no call is given up, an operation goes on only while its     *)
(* goroutine waits for it (operation_wrapper.go:36).                       *)
(***************************************************************************)
LEMMA AwaitedStep ==
    ASSUME Patient, TypeOK, CloudInv, OpsAreAwaited, [Next]_vars
    PROVE  OpsAreAwaited'
<1>1. /\ pc \in [Requests -> Steps] /\ local \in [Requests -> Local]
      /\ disks \in [DiskIds -> Disk] /\ ops \subseteq Requests \X DiskIds
  BY DEF TypeOK, ControllerTypeOK, ComputeTypeOK
<1>2. ops' \subseteq Requests \X DiskIds
  BY TypeStep DEF TypeOK, ComputeTypeOK
<1>3. ASSUME NEW o \in ops', o \notin ops
      PROVE  Awaited(o)'
  <2>1. CASE \E r \in Requests, d \in DiskIds :
                 /\ o = <<r, d>> /\ r.kind = "create" /\ Wait(r, d, "done")
    BY <1>1, <2>1 DEF Wait, Awaited, Target, Local
  <2>2. CASE \E r \in Requests :
                 /\ o = <<r, r.disk>> /\ OnDisk(r) /\ Submit(r) /\ Answer(r, r.disk) = "done"
    BY <1>1, <2>2 DEF Submit, Wait, Awaited, Target, Local, OnDisk
  <2>3. QED
    BY <1>3, <2>1, <2>2, OpStarts
<1>4. ASSUME NEW o \in ops', o \in ops
      PROVE  Awaited(o)'
  <2>1. PICK q \in Requests, d \in DiskIds : o = <<q, d>>
    BY <1>1, <1>4
  <2>2. pc[q] = "wait" /\ local[q].outcome = "running" /\ Target(q) = d
    BY <1>4, <2>1 DEF OpsAreAwaited, Awaited
  <2>3. ~(Issue(q) \/ Receive(q))
    BY <2>2 DEF Issue, IssueCreate, IssueDelete, IssuePublish, IssueUnpublish, IssueExpand,
                IssueSnapshot, CreateVolume, DeleteVolume, ControllerPublishVolume,
                ControllerUnpublishVolume, ControllerExpandVolume, CreateSnapshot, At, Receive
  <2>4. ~FailCall(q) /\ ~Died
    BY DEF Patient, FailCall, Disrupt, Died
  <2>5. ~(HandlerStep(q) /\ ~Panic(q))
    BY <2>2 DEF HandlerStep, ListDisks, CreateDisk, CreateDone, Submit, DeleteDone,
                PublishGetDisk, PublishGetInstance, PublishDone, UnpublishGetDisk,
                UnpublishGetInstance, UnpublishDone, ExpandGetDisk, ExpandDone, At
  <2>6. ASSUME NEW e \in DiskIds, NEW outcome, Settled(q, e, outcome)
        PROVE  FALSE
    <3>1. e = d
      BY <2>2, <2>6 DEF Settled, Awaited
    <3>2. o \notin ops'
      BY <2>1, <2>6, <3>1 DEF Settled, FinishOp, Finish, FailOp, BreakOp, Break
    <3>3. QED
      BY <1>4, <3>2
  <2>7. pc'[q] = pc[q] /\ local'[q] = local[q]
    BY <2>3, <2>4, <2>5, <2>6, Turns
  <2>8. QED
    BY <2>1, <2>2, <2>7 DEF Awaited, Target
<1>5. ASSUME NEW d \in DiskIds, disks'[d].state = "creating"
      PROVE  \E r \in Requests : r.kind = "create" /\ <<r, d>> \in ops'
  <2>1. CASE \E r \in Requests, e \in DiskIds :
                 At(r, "create", "send") /\ Allocate(r, e) /\ Wait(r, e, "done")
    <3>1. PICK r \in Requests, e \in DiskIds :
                 At(r, "create", "send") /\ Allocate(r, e) /\ Wait(r, e, "done")
      BY <2>1
    <3>2. ops' = ops \cup {<<r, e>>}
      BY <3>1 DEF Wait
    <3>3. CASE d = e
      BY <3>1, <3>2, <3>3 DEF At
    <3>4. CASE d # e
      <4>1. disks[d].state = "creating"
        BY <1>1, <1>5, <3>1, <3>4 DEF Allocate
      <4>2. QED
        BY <4>1, <3>2 DEF OpsAreAwaited
    <3>5. QED
      BY <3>3, <3>4
  <2>2. CASE UNCHANGED disks /\ ops \subseteq ops'
    BY <1>5, <2>2 DEF OpsAreAwaited
  <2>3. CASE \E r \in Requests, e \in DiskIds :
                /\ <<r, e>> \in ops /\ ops' = ops \ {<<r, e>>}
                /\ \/ disks' = IF Verdict(r, e) = "done"
                               THEN [disks EXCEPT ![e] = Changed(r, @)] ELSE disks
                   \/ disks' = IF r.kind = "create"
                               THEN [disks EXCEPT ![e].state = "gone"] ELSE disks
    <3>1. PICK r \in Requests, e \in DiskIds :
                /\ <<r, e>> \in ops /\ ops' = ops \ {<<r, e>>}
                /\ \/ disks' = IF Verdict(r, e) = "done"
                               THEN [disks EXCEPT ![e] = Changed(r, @)] ELSE disks
                   \/ disks' = IF r.kind = "create"
                               THEN [disks EXCEPT ![e].state = "gone"] ELSE disks
      BY <2>3
    <3>2. r.kind = "create" => disks[e].state = "creating"
      BY <3>1 DEF CloudInv, OpsKnowTheirDisk
    <3>3. r.kind = "create" => Verdict(r, e) = "done"
      BY <3>2 DEF Verdict, Exists
    <3>4. r.kind = "create" => disks'[e].state # "creating"
      BY <1>1, <3>1, <3>3 DEF Changed, Disk
    <3>5. disks[d].state = "creating"
      <4>1. disks[e] \in Disk /\ r.kind \in Kinds
        BY <1>1, RequestFields
      <4>2. Changed(r, disks[e]).state \in {disks[e].state, "ready", "gone"}
        BY <4>1 DEF Changed, Disk, Kinds
      <4>3. d # e => disks'[d] = disks[d]
        BY <1>1, <3>1
      <4>4. disks'[e].state \in {disks[e].state, "ready", "gone"}
        BY <1>1, <3>1, <4>1, <4>2 DEF Disk
      <4>5. QED
        BY <1>5, <4>3, <4>4
    <3>6. PICK q \in Requests : q.kind = "create" /\ <<q, d>> \in ops
      BY <3>5 DEF OpsAreAwaited
    <3>7. <<q, d>> # <<r, e>>
      BY <1>5, <3>4, <3>6
    <3>8. QED
      BY <3>1, <3>6, <3>7
  <2>4. CASE UNCHANGED ops /\ \E e \in DiskIds : PanelResize(e, disks[e].size + 1)
    <3>1. disks[d].state = "creating"
      BY <1>1, <1>5, <2>4 DEF PanelResize, Disk
    <3>2. QED
      BY <2>4, <3>1 DEF OpsAreAwaited
  <2>5. CASE /\ UNCHANGED ops
             /\ \E n \in Nodes : StopInstance(n) \/ StartInstance(n) \/ DeleteInstance(n)
    <3>1. disks[d].state = "creating"
      BY <1>1, <1>5, <2>5 DEF StopInstance, StartInstance, DeleteInstance, Disk
    <3>2. QED
      BY <2>5, <3>1 DEF OpsAreAwaited
  <2>6. UNCHANGED computeVars => UNCHANGED disks /\ ops \subseteq ops'
    BY DEF computeVars
  <2>7. QED
    BY <2>1, <2>2, <2>3, <2>4, <2>5, <2>6, CloudMoves
<1>6. QED
  BY <1>3, <1>4, <1>5 DEF OpsAreAwaited

(***************************************************************************)
(* At the start no operation goes on.                                      *)
(***************************************************************************)
LEMMA InitAwaited == Init => OpsAreAwaited
<1>1. Init => \A d \in DiskIds : disks[d].state # "creating"
  BY DEF Init, ComputeInit, NewDisk
<1>2. QED
  BY <1>1 DEF Init, ComputeInit, OpsAreAwaited

(***************************************************************************)
(* Every operation is awaited, in every cluster that is patient.           *)
(***************************************************************************)
LEMMA AwaitedHolds ==
    ASSUME Patient
    PROVE  Spec => [](TypeOK /\ CallsAreQueued /\ CloudInv /\ OpsAreAwaited)
<1>1. Patient
  OBVIOUS
<1>2. TypeOK /\ CloudInv /\ OpsAreAwaited /\ [Next]_vars => OpsAreAwaited'
  BY <1>1, AwaitedStep
<1>3. QED
  BY <1>2, InitAwaited, CloudHolds, PTL DEF Spec
=============================================================================
