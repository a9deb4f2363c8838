---------------------------- MODULE AttachProofs ----------------------------
(***************************************************************************)
(* Against a cloud that works on one operation of a disk at a time, a      *)
(* volume that was published stays attached, whatever calls fail, whatever *)
(* operations are given up and however often the process restarts.         *)
(*                                                                         *)
(* The argument is AttachInv.  Most steps concern one call and leave the   *)
(* cloud alone; CallStep disposes of them.  The others are a step of the   *)
(* cloud, a request for an operation, and what the attacher decides.       *)
(***************************************************************************)
EXTENDS ClusterProofs

(***************************************************************************)
(* A step of one goroutine that leaves the cloud and the attachments alone *)
(* keeps the invariant when it claims nothing that is not so, and does not *)
(* start a call about an attachment.                                       *)
(***************************************************************************)
LEMMA CallStep ==
    ASSUME TypeOK, AttachInv, NEW r \in Requests, OnlyCall(r),
           UNCHANGED <<computeVars, va>>,
           AboutAttachment(r) => pc[r] # "idle" /\ (Claims(r)' => ClaimHolds(r))
    PROVE  AttachInv'
<1> USE DEF AttachInv, computeVars
<1>1. OneOpPerDisk' /\ DetachIsWanted' /\ UnusedIsDetached' /\ PublishedStaysAttached'
  BY DEF OneOpPerDisk, Exists, DetachIsWanted, Attachment, UnusedIsDetached,
         PublishedStaysAttached
<1>2. \A q \in Requests : AboutAttachment(q) /\ pc'[q] # "idle" => pc[q] # "idle"
  BY DEF OnlyCall
<1>3. CallIsWanted'
  BY <1>2 DEF CallIsWanted, AboutAttachment, Attachment
<1>4. \A q \in Requests : ClaimHolds(q)' = ClaimHolds(q)
  BY DEF ClaimHolds, Attachment
<1>5. \A q \in Requests \ {r} : Claims(q)' = Claims(q)
  BY DEF OnlyCall, Claims, Succeeds
<1>6. ClaimsAreTrue'
  BY <1>4, <1>5 DEF ClaimsAreTrue, AboutAttachment
<1>7. QED
  BY <1>1, <1>3, <1>6

(***************************************************************************)
(* An accepted operation is on a disk that is there, the one of its        *)
(* request, and alone on it.                                               *)
(***************************************************************************)
LEMMA OpFacts ==
    ASSUME TypeOK, AttachInv, NEW o \in ops
    PROVE  /\ o \in Requests \X DiskIds
           /\ Exists(o[2])
           /\ o[1].kind # "create" => o[2] = o[1].disk
           /\ \A p \in ops : o[2] = p[2] => o = p
<1>1. o \in Requests \X DiskIds
  BY DEF TypeOK, ComputeTypeOK
<1>2. OneOpPerDisk
  BY DEF AttachInv
<1>3. \A p \in ops : o[2] = p[2] => o = p
  BY <1>2, Zenon DEF OneOpPerDisk
<1>4. o[1].kind # "create" => o[2] = o[1].disk
  BY <1>2, SMT DEF OneOpPerDisk, Exists
<1>5. Exists(o[2])
  BY <1>2, SMT DEF OneOpPerDisk, Exists
<1>6. QED
  BY <1>1, <1>3, <1>4, <1>5

(***************************************************************************)
(* A call that answers an error, or goes on without claiming anything,     *)
(* keeps the invariant; so does one whose claim is true.                   *)
(***************************************************************************)
LEMMA MoveStep ==
    ASSUME TypeOK, AttachInv, NEW r \in Requests, UNCHANGED <<computeVars, va>>,
           AboutAttachment(r) => pc[r] # "idle",
           \/ Goto(r, "list") \/ Goto(r, "getDisk") \/ Goto(r, "send") \/ Goto(r, "panic")
           \/ r.kind # "publish" /\ Goto(r, "getInstance")
           \/ \E answer \in Answers :
                 /\ Reply(r, answer)
                 /\ AboutAttachment(r) /\ answer.code = "ok" => ClaimHolds(r)
    PROVE  AttachInv'
<1>1. CASE \E answer \in Answers :
              /\ Reply(r, answer)
              /\ AboutAttachment(r) /\ answer.code = "ok" => ClaimHolds(r)
  <2>1. PICK answer \in Answers :
               /\ Reply(r, answer)
               /\ AboutAttachment(r) /\ answer.code = "ok" => ClaimHolds(r)
    BY <1>1
  <2>2. OnlyCall(r) /\ pc'[r] = "answered" /\ res'[r] = answer
    BY <2>1, GotoOrReply
  <2>3. AboutAttachment(r) /\ Claims(r)' => ClaimHolds(r)
    BY <2>1, <2>2 DEF Claims, Succeeds
  <2>4. QED
    BY <2>2, <2>3, CallStep
<1>2. CASE \E step \in {"list", "getDisk", "send", "panic"} : Goto(r, step)
  <2>1. PICK step \in {"list", "getDisk", "send", "panic"} : Goto(r, step)
    BY <1>2
  <2>2. OnlyCall(r) /\ pc'[r] = step
    BY <2>1, GotoOrReply DEF Steps
  <2>3. ~Claims(r)'
    BY <2>1, <2>2 DEF Claims, Succeeds
  <2>4. QED
    BY <2>2, <2>3, CallStep
<1>3. CASE r.kind # "publish" /\ Goto(r, "getInstance")
  <2>1. OnlyCall(r) /\ pc'[r] = "getInstance"
    BY <1>3, GotoOrReply DEF Steps
  <2>2. ~Claims(r)'
    BY <1>3, <2>1 DEF Claims, Succeeds
  <2>3. QED
    BY <2>1, <2>2, CallStep
<1>4. QED
  BY <1>1, <1>2, <1>3

(***************************************************************************)
(* ControllerPublishVolume and ControllerUnpublishVolume claim what is so, *)
(* although they decide on what they read one call earlier                 *)
(* (controller.go:312-346, 385-408).                                       *)
(***************************************************************************)
LEMMA AttachmentHandlers ==
    ASSUME TypeOK, AttachInv, NEW r \in Requests, UNCHANGED va,
           \/ PublishGetDisk(r) \/ PublishGetInstance(r) \/ PublishDone(r)
           \/ UnpublishGetDisk(r) \/ UnpublishGetInstance(r) \/ UnpublishDone(r)
    PROVE  AttachInv'
<1>1. /\ Ok \in Answers /\ Failed \in Answers
      /\ Failed.code = "failed" /\ r.disk \in DiskIds /\ AboutAttachment(r)
  BY AnswerTypes, RequestFields
     DEF PublishGetDisk, PublishGetInstance, PublishDone, UnpublishGetDisk,
         UnpublishGetInstance, UnpublishDone, At, AboutAttachment, Failed, Empty
<1>2. Claims(r) => ClaimHolds(r)
  BY <1>1 DEF AttachInv, ClaimsAreTrue
<1>3. CASE PublishGetDisk(r)
  <2>1. CASE ~Exists(r.disk)
    BY <1>1, <1>3, <2>1, MoveStep DEF PublishGetDisk, At
  <2>2. CASE Exists(r.disk)
    <3>1. /\ OnlyCall(r) /\ pc'[r] = "getInstance"
          /\ local'[r].at = disks[r.disk].at
      BY <1>3, <2>2 DEF PublishGetDisk, OnlyCall, TypeOK, ControllerTypeOK, Local
    <3>2. Claims(r)' => ClaimHolds(r)
      BY <1>3, <3>1 DEF Claims, Succeeds, ClaimHolds, PublishGetDisk, At
    <3>3. QED
      BY <1>3, <3>1, <3>2, CallStep DEF PublishGetDisk, At
  <2>3. QED
    BY <2>1, <2>2
<1>4. CASE PublishGetInstance(r)
  <2>1. r.node \in local[r].at => Claims(r)
    BY <1>4 DEF PublishGetInstance, At, Claims
  <2>2. QED
    BY <1>1, <1>2, <1>4, <2>1, MoveStep DEF PublishGetInstance, At
<1>5. CASE PublishDone(r)
  <2>1. local[r].outcome = "done" => Claims(r)
    BY <1>5 DEF PublishDone, At, Claims, Succeeds
  <2>2. QED
    BY <1>1, <1>2, <1>5, <2>1, MoveStep DEF PublishDone, At
<1>6. CASE UnpublishGetDisk(r)
  <2>1. ~Exists(r.disk) \/ disks[r.disk].at = {} => ClaimHolds(r)
    <3>1. r.kind = "unpublish"
      BY <1>6 DEF UnpublishGetDisk, At
    <3>2. ASSUME NEW o \in ops, o[1].kind = "unpublish", Attachment(o[1]) = Attachment(r)
          PROVE  /\ o[1].disk = r.disk /\ o[1].node = r.node
                 /\ Exists(r.disk)
                 /\ inst[r.node] = "gone" \/ r.node \in disks[r.disk].at
      <4>1. o[1].disk = r.disk /\ o[1].node = r.node
        BY <3>2 DEF Attachment
      <4>2. o[2] = o[1].disk /\ Exists(o[2])
        BY <3>2, OpFacts
      <4>3. QED
        BY <3>2, <4>1, <4>2 DEF AttachInv, DetachIsWanted
    <3>3. QED
      BY <3>1, <3>2 DEF ClaimHolds
  <2>2. QED
    BY <1>1, <1>6, <2>1, MoveStep DEF UnpublishGetDisk, At
<1>7. CASE UnpublishGetInstance(r)
  <2>1. r.kind # "publish" /\ (inst[r.node] = "gone" => ClaimHolds(r))
    BY <1>7 DEF UnpublishGetInstance, At, ClaimHolds
  <2>2. QED
    BY <1>1, <1>7, <2>1, MoveStep DEF UnpublishGetInstance, At
<1>8. CASE UnpublishDone(r)
  <2>1. local[r].outcome = "done" => Claims(r)
    BY <1>8 DEF UnpublishDone, At, Claims, Succeeds
  <2>2. QED
    BY <1>1, <1>2, <1>8, <2>1, MoveStep DEF UnpublishDone, At
<1>9. QED
  BY <1>3, <1>4, <1>5, <1>6, <1>7, <1>8

(***************************************************************************)
(* An operation that is accepted is the only one on its disk, and a        *)
(* detachment is accepted only while its call waits for it.                *)
(***************************************************************************)
LEMMA SubmitStep ==
    ASSUME OneAtATime, TypeOK, AttachInv, NEW r \in Requests, Submit(r), UNCHANGED va
    PROVE  AttachInv'
<1>1. /\ r.disk \in DiskIds /\ r.kind # "create" /\ pc[r] = "send"
      /\ UNCHANGED <<disks, inst, res>>
  BY RequestFields DEF Submit
<1>2. Answer(r, r.disk) = "done" =>
        /\ Exists(r.disk) /\ ~Busy(r.disk)
        /\ r.kind = "unpublish" => r.node \in disks[r.disk].at
  <2>1. Answer(r, r.disk) = "done" => Verdict(r, r.disk) = "done"
    BY DEF Answer
  <2>2. Verdict(r, r.disk) = "done" =>
          Exists(r.disk) /\ (r.kind = "unpublish" => r.node \in disks[r.disk].at)
    BY <1>1 DEF Verdict
  <2>3. OnDisk(r)
    BY <1>1 DEF Submit, OnDisk
  <2>4. QED
    BY <1>1, <2>1, <2>2, <2>3 DEF OneAtATime
<1>3. OnlyCall(r) /\ pc'[r] = "wait" /\ local'[r].outcome # "done"
  BY <1>1 DEF Submit, Wait, OnlyCall, TypeOK, ControllerTypeOK
<1>4. CASE Answer(r, r.disk) # "done"
  <2>1. UNCHANGED computeVars
    BY <1>1, <1>4 DEF Submit, Wait, computeVars
  <2>2. QED
    BY <1>1, <1>3, <2>1, CallStep DEF Claims, Succeeds
<1>5. CASE Answer(r, r.disk) = "done"
  <2>1. ops' = ops \cup {<<r, r.disk>>}
    BY <1>5 DEF Submit, Wait
  <2>2. OneOpPerDisk'
    BY <1>1, <1>2, <1>5, <2>1 DEF AttachInv, OneOpPerDisk, Busy, Exists
  <2>3. DetachIsWanted'
    <3>1. r.kind = "unpublish" =>
            r.node \in disks[r.disk].at /\ va[Attachment(r)] = "detaching"
      BY <1>1, <1>2, <1>5 DEF AttachInv, CallIsWanted, AboutAttachment
    <3>2. QED
      BY <1>1, <2>1, <3>1 DEF AttachInv, DetachIsWanted, Attachment
  <2>4. CallIsWanted'
    BY <1>1, <1>3 DEF AttachInv, CallIsWanted, OnlyCall, AboutAttachment, Attachment
  <2>5. ClaimsAreTrue'
    <3> SUFFICES ASSUME NEW q \in Requests, AboutAttachment(q), Claims(q)'
                 PROVE  ClaimHolds(q)'
      BY DEF ClaimsAreTrue, AboutAttachment
    <3>1. q # r
      BY <1>3 DEF Claims, Succeeds
    <3>2. Claims(q) /\ pc[q] # "idle"
      BY <1>1, <1>3, <3>1 DEF OnlyCall, Claims, Succeeds
    <3>3. ClaimHolds(q)
      BY <3>2 DEF AttachInv, ClaimsAreTrue
    <3>4. ~(r.kind = "unpublish" /\ Attachment(r) = Attachment(q))
      BY <1>1, <3>1, <3>2 DEF AttachInv, CallIsWanted, AboutAttachment
    <3>5. QED
      BY <1>1, <2>1, <3>3, <3>4 DEF ClaimHolds, Attachment
  <2>6. UnusedIsDetached' /\ PublishedStaysAttached'
    BY <1>1 DEF AttachInv, UnusedIsDetached, PublishedStaysAttached
  <2>7. QED
    BY <2>2, <2>3, <2>4, <2>5, <2>6 DEF AttachInv
<1>6. QED
  BY <1>4, <1>5

(***************************************************************************)
(* A disk that is created was not in use.                                  *)
(***************************************************************************)
LEMMA CreateStep ==
    ASSUME TypeOK, AttachInv, NEW r \in Requests, CreateDisk(r), UNCHANGED va
    PROVE  AttachInv'
<1>1. r.kind = "create" /\ UNCHANGED inst
  BY DEF CreateDisk, At
<1>2. CASE ~CanAllocate(r)
  <2>1. Reply(r, Failed) /\ UNCHANGED computeVars
    BY <1>1, <1>2 DEF CreateDisk, computeVars
  <2>2. QED
    BY <1>1, <2>1, AnswerTypes, MoveStep DEF AboutAttachment
<1>3. CASE CanAllocate(r)
  <2>1. PICK d \in DiskIds : Allocate(r, d) /\ Wait(r, d, "done") /\ UNCHANGED res
    BY <1>3 DEF CreateDisk
  <2>2. disks[d].state = "none" /\ disks[d].at = {} /\ ~Busy(d)
    <3>1. disks[d].state = "none" /\ disks[d].at = {}
      BY <2>1 DEF AttachInv, Allocate, UnusedIsDetached
    <3>2. \A o \in ops : o[2] # d
      BY <3>1, OpFacts DEF Exists
    <3>3. QED
      BY <3>1, <3>2 DEF Busy
  <2>3. /\ OnlyCall(r) /\ ops' = ops \cup {<<r, d>>}
        /\ \A e \in DiskIds : disks'[e].at = disks[e].at
        /\ \A e \in DiskIds \ {d} : disks'[e] = disks[e]
        /\ disks'[d].state = "creating"
    BY <2>1, <2>2 DEF Allocate, Wait, NewDisk, OnlyCall, TypeOK, ControllerTypeOK, ComputeTypeOK
  <2>4. \A o \in ops : o \in Requests \X DiskIds /\ o[2] # d
    BY <2>2 DEF Busy, TypeOK, ComputeTypeOK
  <2>5. OneOpPerDisk'
    BY <1>1, <2>3, <2>4 DEF AttachInv, OneOpPerDisk, Exists
  <2>6. DetachIsWanted'
    <3>1. \A o \in ops : o[1].kind = "unpublish" => o[1].disk \in DiskIds
      BY <2>4, RequestFields
    <3>2. QED
      BY <1>1, <2>3, <3>1 DEF AttachInv, DetachIsWanted, Attachment
  <2>7. CallIsWanted'
    BY <1>1, <2>3 DEF AttachInv, CallIsWanted, OnlyCall, AboutAttachment, Attachment
  <2>8. ClaimsAreTrue'
    <3> SUFFICES ASSUME NEW q \in Requests, AboutAttachment(q), Claims(q)'
                 PROVE  ClaimHolds(q)'
      BY DEF ClaimsAreTrue, AboutAttachment
    <3>1. q # r /\ q.disk \in DiskIds
      BY <1>1, RequestFields DEF AboutAttachment
    <3>2. ClaimHolds(q)
      BY <2>3, <3>1 DEF AttachInv, ClaimsAreTrue, Claims, Succeeds, OnlyCall
    <3>3. QED
      BY <1>1, <2>3, <3>1, <3>2 DEF ClaimHolds, Attachment
  <2>9. UnusedIsDetached' /\ PublishedStaysAttached'
    BY <1>1, <2>2, <2>3 DEF AttachInv, UnusedIsDetached, PublishedStaysAttached
  <2>10. QED
    BY <2>5, <2>6, <2>7, <2>8, <2>9 DEF AttachInv
<1>4. QED
  BY <1>2, <1>3

(***************************************************************************)
(* An operation that ends, well or not.  A detachment takes the disk from  *)
(* a node only where the attacher is detaching, so never from under a node *)
(* it was published to, nor behind a publication that is about to succeed. *)
(***************************************************************************)
LEMMA OperationStep ==
    ASSUME TypeOK, AttachInv, NEW o \in Requests \X DiskIds,
           FinishOp(o) \/ BreakOp(o), UNCHANGED va
    PROVE  AttachInv'
<1>1. PICK r \in Requests, d \in DiskIds : o = <<r, d>>
  OBVIOUS
<1>2. /\ o \in ops /\ ops' = ops \ {o} /\ UNCHANGED <<pc, res, inst>>
  BY DEF FinishOp, BreakOp, Finish, Break, Settle
<1>3. /\ r.kind # "create" => r.disk = d
      /\ \A p \in ops' : p \in ops /\ p[2] # d
  BY <1>1, <1>2, OpFacts
<1>4. \A p \in ops' : /\ p \in Requests \X DiskIds
                      /\ p[1].kind = "unpublish" => p[1].disk = p[2]
  <2> SUFFICES ASSUME NEW p \in ops' PROVE /\ p \in Requests \X DiskIds
                                           /\ p[1].kind = "unpublish" => p[1].disk = p[2]
    OBVIOUS
  <2>1. p \in ops
    BY <1>2
  <2>2. QED
    BY <2>1, OpFacts
<1> DEFINE done == FinishOp(o) /\ Verdict(r, d) = "done"
<1>5. /\ \A e \in DiskIds \ {d} : disks'[e] = disks[e]
      /\ r.kind = "publish" /\ done => disks'[d].at = disks[d].at \cup {r.node}
      /\ r.kind = "unpublish" /\ done => disks'[d].at = disks[d].at \ {r.node}
      /\ r.kind \notin {"publish", "unpublish"} \/ ~done => disks'[d].at = disks[d].at
      /\ disks'[d].state # "none"
  <2>1. disks \in [DiskIds -> Disk]
    BY DEF TypeOK, ComputeTypeOK
  <2>2. Exists(d)
    BY <1>1, <1>2, OpFacts
  <2>3. CASE FinishOp(o)
    <3>1. CASE Verdict(r, d) = "done"
      <4>1. disks' = [disks EXCEPT ![d] = Changed(r, disks[d])]
        BY <1>1, <2>3, <3>1 DEF FinishOp, Finish
      <4>2. /\ r.kind = "publish" => Changed(r, disks[d]).at = disks[d].at \cup {r.node}
            /\ r.kind = "unpublish" => Changed(r, disks[d]).at = disks[d].at \ {r.node}
            /\ r.kind \notin {"publish", "unpublish"} => Changed(r, disks[d]).at = disks[d].at
            /\ Changed(r, disks[d]).state # "none"
        BY <2>1, <2>2 DEF Changed, Disk, Exists
      <4>3. QED
        BY <2>1, <3>1, <2>3, <4>1, <4>2
    <3>2. CASE Verdict(r, d) # "done"
      BY <1>1, <2>2, <2>3, <3>2 DEF FinishOp, Finish, Exists
    <3>3. QED
      BY <3>1, <3>2
  <2>4. CASE BreakOp(o) /\ ~FinishOp(o)
    BY <1>1, <2>1, <2>2, <2>4 DEF BreakOp, Break, Exists, Disk
  <2>5. QED
    BY <2>3, <2>4
<1>6. r.kind = "unpublish" => inst[r.node] = "gone" \/ va[Attachment(r)] = "detaching"
  BY <1>1, <1>2 DEF AttachInv, DetachIsWanted
\* a node keeps its disk unless the attacher detaches there
<1>7. ASSUME NEW e \in DiskIds, NEW n \in Nodes, n \in disks[e].at
      PROVE  \/ n \in disks'[e].at \/ inst[n] = "gone"
             \/ e = d /\ r.kind = "unpublish" /\ n = r.node /\ va[<<e, n>>] = "detaching"
  BY <1>3, <1>5, <1>6, <1>7 DEF Attachment
<1>8. OneOpPerDisk'
  <2> SUFFICES ASSUME NEW p \in ops'
               PROVE  /\ \A q \in ops' : p[2] = q[2] => p = q
                      /\ Exists(p[2])'
                      /\ p[1].kind # "create" => p[2] = p[1].disk
    BY DEF OneOpPerDisk
  <2>1. p \in ops /\ p[2] \in DiskIds \ {d} /\ \A q \in ops' : q \in ops
    BY <1>3, <1>4
  <2>2. Exists(p[2])'
    BY <1>5, <2>1, OpFacts DEF Exists
  <2>3. QED
    BY <2>1, <2>2, OpFacts
<1>9. DetachIsWanted'
  BY <1>2, <1>3, <1>4, <1>5 DEF AttachInv, DetachIsWanted, Attachment
<1>10. CallIsWanted'
  BY <1>2 DEF AttachInv, CallIsWanted, AboutAttachment, Attachment
<1>11. UnusedIsDetached' /\ PublishedStaysAttached'
  BY <1>2, <1>5, <1>7 DEF AttachInv, UnusedIsDetached, PublishedStaysAttached
<1>12. ClaimsAreTrue'
  <2> SUFFICES ASSUME NEW q \in Requests, AboutAttachment(q), Claims(q)'
               PROVE  ClaimHolds(q)'
    BY DEF ClaimsAreTrue, AboutAttachment
  <2>1. q.disk \in DiskIds /\ q.node \in Nodes
    BY RequestFields DEF AboutAttachment
  <2>2. CASE Claims(q)
    <3>1. ClaimHolds(q)
      BY <2>2 DEF AttachInv, ClaimsAreTrue
    <3>2. q.kind = "publish" => va[Attachment(q)] = "attaching"
      BY <2>2 DEF AttachInv, CallIsWanted, AboutAttachment, Claims, Succeeds
    <3>3. QED
      BY <1>2, <1>7, <2>1, <3>1, <3>2 DEF ClaimHolds, Attachment
  <2>3. CASE ~Claims(q)
    <3>1. q = r /\ Awaited(o) /\ pc[r] = "wait" /\ done
      <4>1. CASE Awaited(o)
        <5>1. \E outcome \in {Verdict(r, d), "failed"} :
                 /\ local' = [local EXCEPT ![r].outcome = outcome]
                 /\ outcome = "done" => done
          BY <1>1, <4>1 DEF FinishOp, BreakOp, Settle
        <5>2. QED
          BY <1>1, <1>2, <2>3, <4>1, <5>1
             DEF Claims, Succeeds, Awaited, TypeOK, ControllerTypeOK, Local
      <4>2. CASE ~Awaited(o)
        BY <1>2, <2>3, <4>2 DEF FinishOp, BreakOp, Settle, Claims, Succeeds
      <4>3. QED
        BY <4>1, <4>2
    <3>2. CASE r.kind = "publish"
      BY <1>3, <1>5, <3>1, <3>2 DEF ClaimHolds
    <3>3. CASE r.kind = "unpublish"
      BY <1>3, <1>4, <3>1, <3>3 DEF ClaimHolds, Attachment
    <3>4. QED
      BY <3>1, <3>2, <3>3 DEF AboutAttachment
  <2>4. QED
    BY <2>2, <2>3
<1>13. QED
  BY <1>8, <1>9, <1>10, <1>11, <1>12 DEF AttachInv

(***************************************************************************)
(* The handlers that are about no attachment touch neither the cloud nor   *)
(* what is claimed of one.                                                 *)
(***************************************************************************)
LEMMA OtherHandlers ==
    ASSUME TypeOK, AttachInv, NEW r \in Requests, UNCHANGED va,
           ListDisks(r) \/ CreateDone(r) \/ DeleteDone(r) \/ ExpandGetDisk(r) \/ ExpandDone(r)
    PROVE  AttachInv'
<1>1. UNCHANGED computeVars /\ ~AboutAttachment(r)
  BY DEF ListDisks, CreateDone, DeleteDone, ExpandGetDisk, ExpandDone, At, AboutAttachment
<1>2. \/ Goto(r, "send")
      \/ \E answer \in Answers : Reply(r, answer)
  <2>1. /\ disks \in [DiskIds -> Disk] /\ local \in [Requests -> Local]
        /\ Ok \in Answers /\ Failed \in Answers
    BY AnswerTypes DEF TypeOK, ComputeTypeOK, ControllerTypeOK
  <2>2. CASE ListDisks(r)
    <3>1. CASE Named(r.name) = {}
      BY <2>1, <2>2, <3>1 DEF ListDisks
    <3>2. CASE Named(r.name) # {}
      <4>1. PICK d \in Named(r.name) : d = CHOOSE e \in Named(r.name) : TRUE
        BY <3>2
      <4>2. Volume(d, disks[d].size, disks[d].zone) \in Answers
        BY <2>1, AnswerTypes DEF Named, Disk
      <4>3. QED
        BY <2>1, <2>2, <3>2, <4>1, <4>2 DEF ListDisks
    <3>3. QED
      BY <3>1, <3>2
  <2>3. CASE CreateDone(r)
    <3>1. Volume(local[r].disk, ExtractedSize(r.range), r.zone) \in Answers
      BY <2>1, <2>3, AnswerTypes, RequestFields DEF CreateDone, At, Local
    <3>2. QED
      BY <2>1, <2>3, <3>1 DEF CreateDone
  <2>4. CASE DeleteDone(r)
    BY <2>1, <2>4 DEF DeleteDone
  <2>5. CASE ExpandGetDisk(r)
    <3>1. Volume(r.disk, disks[r.disk].size, NoZone) \in Answers
      BY <2>1, <2>5, AnswerTypes, RequestFields DEF ExpandGetDisk, At, Disk
    <3>2. QED
      BY <2>1, <2>5, <3>1 DEF ExpandGetDisk
  <2>6. CASE ExpandDone(r)
    <3>1. Volume(r.disk, ExtractedSize(r.range), NoZone) \in Answers
      BY <2>6, AnswerTypes, RequestFields DEF ExpandDone, At
    <3>2. QED
      BY <2>1, <2>6, <3>1 DEF ExpandDone
  <2>7. QED
    BY <2>2, <2>3, <2>4, <2>5, <2>6
<1>3. QED
  BY <1>1, <1>2, MoveStep

(***************************************************************************)
(* When the process dies its goroutines are gone; an answer already given  *)
(* is not, and remains true.                                               *)
(***************************************************************************)
LEMMA CrashStep ==
    ASSUME TypeOK, AttachInv, Crash, UNCHANGED va
    PROVE  AttachInv'
<1>1. /\ UNCHANGED <<disks, inst, ops, res>>
      /\ \A q \in Requests : pc'[q] = IF pc[q] = "answered" THEN "answered" ELSE "idle"
  BY DEF Crash, computeVars
<1>2. OneOpPerDisk' /\ DetachIsWanted' /\ UnusedIsDetached' /\ PublishedStaysAttached'
  BY <1>1 DEF AttachInv, OneOpPerDisk, Exists, DetachIsWanted, Attachment,
              UnusedIsDetached, PublishedStaysAttached
<1>3. \A q \in Requests : pc'[q] # "idle" => pc'[q] = "answered" /\ pc[q] = "answered"
  BY <1>1
<1>4. CallIsWanted'
  <2>1. \A q \in Requests : pc'[q] # "idle" => pc[q] # "idle"
    BY <1>3
  <2>2. QED
    BY <2>1 DEF AttachInv, CallIsWanted, AboutAttachment, Attachment
<1>5. \A q \in Requests : Claims(q)' => Claims(q)
  BY <1>1, <1>3 DEF Claims, Succeeds
<1>6. \A q \in Requests : ClaimHolds(q)' = ClaimHolds(q)
  BY <1>1 DEF ClaimHolds, Attachment
<1>7. ClaimsAreTrue'
  BY <1>5, <1>6 DEF AttachInv, ClaimsAreTrue, AboutAttachment
<1>8. QED
  BY <1>2, <1>4, <1>7 DEF AttachInv

(***************************************************************************)
(* The attacher decides on an attachment that no other call is about: it   *)
(* starts one, or has the answer.                                          *)
(***************************************************************************)
LEMMA AttacherStep ==
    ASSUME TypeOK, AttachInv, NEW r \in Requests, AboutAttachment(r), OnlyCall(r),
           UNCHANGED computeVars, ~Claims(r)',
           NEW x \in {"none", "attaching", "attached", "detaching"},
           va' = [va EXCEPT ![Attachment(r)] = x],
           \A q \in Requests : AboutAttachment(q) /\ Attachment(q) = Attachment(r)
                                  /\ pc[q] # "idle" => q = r,
           pc'[r] # "idle" => x = IF r.kind = "publish" THEN "attaching" ELSE "detaching",
           x = "attached" => inst[r.node] = "gone" \/ r.node \in disks[r.disk].at,
           \A o \in ops : o[1].kind = "unpublish" /\ Attachment(o[1]) = Attachment(r) =>
              \/ inst[r.node] = "gone"
              \/ r.node \in disks[r.disk].at /\ x = "detaching"
    PROVE  AttachInv'
<1>1. /\ r.disk \in DiskIds /\ r.node \in Nodes
      /\ Attachment(r) \in DiskIds \X Nodes
      /\ va \in [DiskIds \X Nodes -> {"none", "attaching", "attached", "detaching"}]
  BY RequestFields DEF AboutAttachment, Attachment, TypeOK
<1>2. /\ va'[Attachment(r)] = x
      /\ \A a \in DiskIds \X Nodes : a # Attachment(r) => va'[a] = va[a]
      /\ UNCHANGED <<disks, inst, ops>>
  BY <1>1 DEF computeVars
<1>3. OneOpPerDisk' /\ UnusedIsDetached'
  BY <1>2 DEF AttachInv, OneOpPerDisk, Exists, UnusedIsDetached
<1>4. DetachIsWanted'
  <2> SUFFICES ASSUME NEW o \in ops, o[1].kind = "unpublish"
               PROVE  \/ inst[o[1].node] = "gone"
                      \/ /\ o[1].node \in disks[o[1].disk].at
                         /\ va'[<<o[1].disk, o[1].node>>] = "detaching"
    BY <1>2 DEF DetachIsWanted, Attachment
  <2>1. o[1] \in Requests /\ o[1].disk \in DiskIds /\ o[1].node \in Nodes
    BY OpFacts, RequestFields
  <2>2. CASE Attachment(o[1]) = Attachment(r)
    BY <1>2, <2>2 DEF Attachment
  <2>3. CASE Attachment(o[1]) # Attachment(r)
    <3>1. \/ inst[o[1].node] = "gone"
          \/ /\ o[1].node \in disks[o[1].disk].at
             /\ va[<<o[1].disk, o[1].node>>] = "detaching"
      BY DEF AttachInv, DetachIsWanted, Attachment
    <3>2. va'[<<o[1].disk, o[1].node>>] = va[<<o[1].disk, o[1].node>>]
      BY <1>2, <2>1, <2>3 DEF Attachment
    <3>3. QED
      BY <3>1, <3>2
  <2>4. QED
    BY <2>2, <2>3
<1>5. CallIsWanted'
  <2> SUFFICES ASSUME NEW q \in Requests, AboutAttachment(q), pc'[q] # "idle"
               PROVE  /\ va'[Attachment(q)] =
                            IF q.kind = "publish" THEN "attaching" ELSE "detaching"
                      /\ \A p \in Requests :
                            AboutAttachment(p) /\ Attachment(p) = Attachment(q)
                               /\ pc'[p] # "idle" => p = q
    BY DEF CallIsWanted, AboutAttachment, Attachment
  <2>1. Attachment(q) \in DiskIds \X Nodes
    BY RequestFields DEF AboutAttachment, Attachment
  <2>2. \A p \in Requests \ {r} : pc'[p] = pc[p]
    BY DEF OnlyCall
  <2>3. CASE q = r
    BY <1>2, <2>2, <2>3
  <2>4. CASE q # r
    <3>1. pc[q] # "idle" /\ Attachment(q) # Attachment(r)
      BY <2>2, <2>4
    <3>2. /\ va[Attachment(q)] = IF q.kind = "publish" THEN "attaching" ELSE "detaching"
          /\ \A p \in Requests :
                AboutAttachment(p) /\ Attachment(p) = Attachment(q)
                   /\ pc[p] # "idle" => p = q
      BY <3>1 DEF AttachInv, CallIsWanted
    <3>3. QED
      BY <1>2, <2>1, <2>2, <3>1, <3>2
  <2>5. QED
    BY <2>3, <2>4
<1>6. ClaimsAreTrue'
  <2> SUFFICES ASSUME NEW q \in Requests, AboutAttachment(q), Claims(q)'
               PROVE  ClaimHolds(q)'
    BY DEF ClaimsAreTrue, AboutAttachment
  <2>1. Claims(q)
    BY DEF OnlyCall, Claims, Succeeds
  <2>2. ClaimHolds(q)
    BY <2>1 DEF AttachInv, ClaimsAreTrue
  <2>3. QED
    BY <1>2, <2>2 DEF ClaimHolds, Attachment
<1>7. PublishedStaysAttached'
  <2> SUFFICES ASSUME NEW d \in DiskIds, NEW n \in Nodes, va'[<<d, n>>] = "attached"
               PROVE  n \in disks[d].at \/ inst[n] = "gone"
    BY <1>2 DEF PublishedStaysAttached
  <2>1. CASE <<d, n>> = Attachment(r)
    BY <1>2, <2>1 DEF Attachment
  <2>2. CASE <<d, n>> # Attachment(r)
    BY <1>2, <2>2 DEF AttachInv, PublishedStaysAttached
  <2>3. QED
    BY <2>1, <2>2
<1>8. QED
  BY <1>3, <1>4, <1>5, <1>6, <1>7 DEF AttachInv

(***************************************************************************)
(* A sidecar that makes a call or takes an answer.                         *)
(***************************************************************************)
LEMMA SidecarStep ==
    ASSUME TypeOK, AttachInv, NEW r \in Requests, Issue(r) \/ Receive(r)
    PROVE  AttachInv'
<1>1. Failed \in Answers /\ Failed.code = "failed" /\ res[r] \in Answers
  BY AnswerTypes DEF Failed, Empty, TypeOK, ControllerTypeOK
<1>2. CASE IssueCreate(r) \/ IssueDelete(r) \/ IssueExpand(r) \/ IssueSnapshot(r)
  <2>1. ~AboutAttachment(r) /\ UNCHANGED <<computeVars, va>>
    BY <1>2 DEF IssueCreate, IssueDelete, IssueExpand, IssueSnapshot, CreateVolume,
                DeleteVolume, ControllerExpandVolume, CreateSnapshot, At,
                AboutAttachment, sidecarVars
  <2>2. \/ Goto(r, "list") \/ Goto(r, "getDisk") \/ Goto(r, "send") \/ Goto(r, "panic")
        \/ Reply(r, Failed)
    BY <1>2 DEF IssueCreate, IssueDelete, IssueExpand, IssueSnapshot, CreateVolume,
                DeleteVolume, ControllerExpandVolume, CreateSnapshot
  <2>3. QED
    BY <1>1, <2>1, <2>2, MoveStep
<1>3. CASE IssuePublish(r) \/ IssueUnpublish(r)
  <2>1. /\ AboutAttachment(r) /\ pc[r] = "idle" /\ UNCHANGED computeVars
        /\ Goto(r, "getDisk") \/ Reply(r, Failed)
    BY <1>3 DEF IssuePublish, IssueUnpublish, ControllerPublishVolume,
                ControllerUnpublishVolume, At, AboutAttachment
  <2>2. OnlyCall(r) /\ ~Claims(r)' /\ pc'[r] # "idle"
    BY <1>1, <2>1, GotoOrReply DEF Claims, Succeeds, Steps
  <2>3. \A q \in Requests : AboutAttachment(q) /\ Attachment(q) = Attachment(r)
                               /\ pc[q] # "idle" => q = r
    BY <1>3, <2>1 DEF IssuePublish, IssueUnpublish, MayCall, SameSubject, SameQueue,
                      OnDisk, AboutAttachment, Attachment
  <2>4. \A o \in ops : o[1].kind = "unpublish" /\ Attachment(o[1]) = Attachment(r) =>
           \/ inst[r.node] = "gone"
           \/ r.node \in disks[r.disk].at /\ va[Attachment(r)] = "detaching"
    BY DEF AttachInv, DetachIsWanted, Attachment
  <2>5. CASE IssuePublish(r)
    <3>1. /\ r.kind = "publish" /\ va[Attachment(r)] # "detaching"
          /\ va' = [va EXCEPT ![Attachment(r)] = "attaching"]
      BY <2>5 DEF IssuePublish, ControllerPublishVolume, At
    <3>2. QED
      BY <2>1, <2>2, <2>3, <2>4, <3>1, AttacherStep
  <2>6. CASE IssueUnpublish(r)
    <3>1. /\ r.kind = "unpublish"
          /\ va' = [va EXCEPT ![Attachment(r)] = "detaching"]
      BY <2>6 DEF IssueUnpublish, ControllerUnpublishVolume, At
    <3>2. QED
      BY <2>1, <2>2, <2>3, <2>4, <3>1, AttacherStep
  <2>7. QED
    BY <1>3, <2>5, <2>6
<1>4. CASE Receive(r)
  <2>1. /\ pc[r] = "answered" /\ OnlyCall(r) /\ pc'[r] = "idle"
        /\ UNCHANGED computeVars /\ ~Claims(r)'
    BY <1>4 DEF Receive, OnlyCall, Claims, Succeeds, TypeOK, ControllerTypeOK
  <2>2. CASE ~(AboutAttachment(r) /\ res[r].code = "ok")
    <3>1. UNCHANGED va
      BY <1>4, <2>2 DEF Receive, AboutAttachment, sidecarVars
    <3>2. QED
      BY <2>1, <3>1, CallStep
  <2>3. CASE AboutAttachment(r) /\ res[r].code = "ok"
    <3>1. ClaimHolds(r)
      BY <2>1, <2>3 DEF AttachInv, ClaimsAreTrue, Claims, Succeeds
    <3>2. /\ va[Attachment(r)] = IF r.kind = "publish" THEN "attaching" ELSE "detaching"
          /\ \A q \in Requests : AboutAttachment(q) /\ Attachment(q) = Attachment(r)
                                    /\ pc[q] # "idle" => q = r
      BY <2>1, <2>3 DEF AttachInv, CallIsWanted
    <3>3. \A o \in ops : o[1].kind = "unpublish" /\ Attachment(o[1]) = Attachment(r) =>
             inst[r.node] = "gone" \/ va[Attachment(r)] = "detaching"
      BY DEF AttachInv, DetachIsWanted, Attachment
    <3>4. CASE r.kind = "publish"
      <4>1. va' = [va EXCEPT ![Attachment(r)] = "attached"]
        BY <1>4, <2>3, <3>4 DEF Receive
      <4>2. QED
        BY <2>1, <2>3, <3>1, <3>2, <3>3, <3>4, <4>1, AttacherStep DEF ClaimHolds
    <3>5. CASE r.kind = "unpublish"
      <4>1. va' = [va EXCEPT ![Attachment(r)] = "none"]
        BY <1>4, <2>3, <3>5 DEF Receive
      <4>2. QED
        BY <2>1, <2>3, <3>1, <3>2, <3>5, <4>1, AttacherStep DEF ClaimHolds
    <3>6. QED
      BY <2>3, <3>4, <3>5 DEF AboutAttachment
  <2>4. QED
    BY <2>2, <2>3
<1>5. QED
  BY <1>2, <1>3, <1>4 DEF Issue

(***************************************************************************)
(* Instances that stop, start and go, and disks that are made larger from  *)
(* the control panel, leave a disk attached wherever an instance is.       *)
(***************************************************************************)
LEMMA OutsideStep ==
    ASSUME TypeOK, AttachInv, UNCHANGED <<ops, pc, local, res, va>>,
           \/ \E d \in DiskIds, size \in Int : PanelResize(d, size)
           \/ \E n \in Nodes : StopInstance(n) \/ StartInstance(n) \/ DeleteInstance(n)
    PROVE  AttachInv'
<1>1. /\ \A d \in DiskIds : disks'[d].state = disks[d].state
      /\ \A d \in DiskIds : disks'[d].at \subseteq disks[d].at
      /\ \A d \in DiskIds, n \in Nodes : n \in disks[d].at => n \in disks'[d].at \/ inst'[n] = "gone"
      /\ \A n \in Nodes : inst[n] = "gone" => inst'[n] = "gone"
  <2>1. disks \in [DiskIds -> Disk] /\ inst \in [Nodes -> {"running", "stopped", "gone"}]
    BY DEF TypeOK, ComputeTypeOK
  <2>2. CASE \E d \in DiskIds, size \in Int : PanelResize(d, size)
    BY <2>1, <2>2 DEF PanelResize, Disk
  <2>3. CASE \E n \in Nodes : StopInstance(n) \/ StartInstance(n)
    BY <2>1, <2>3 DEF StopInstance, StartInstance
  <2>4. CASE \E n \in Nodes : DeleteInstance(n)
    BY <2>1, <2>4 DEF DeleteInstance, Disk
  <2>5. QED
    BY <2>2, <2>3, <2>4
<1>2. \A o \in ops : /\ o[2] \in DiskIds
                     /\ o[1].kind = "unpublish" => o[1].disk \in DiskIds /\ o[1].node \in Nodes
  BY RequestFields, OpFacts
<1>3. OneOpPerDisk'
  BY <1>1, <1>2 DEF AttachInv, OneOpPerDisk, Exists
<1>4. DetachIsWanted'
  BY <1>1, <1>2 DEF AttachInv, DetachIsWanted, Attachment
<1>5. CallIsWanted'
  BY DEF AttachInv, CallIsWanted, AboutAttachment, Attachment
<1>6. ClaimsAreTrue'
  <2> SUFFICES ASSUME NEW q \in Requests, AboutAttachment(q), Claims(q)'
               PROVE  ClaimHolds(q)'
    BY DEF ClaimsAreTrue, AboutAttachment
  <2>1. q.disk \in DiskIds /\ q.node \in Nodes
    BY RequestFields DEF AboutAttachment
  <2>2. Claims(q)
    BY DEF Claims, Succeeds
  <2>3. ClaimHolds(q)
    BY <2>2 DEF AttachInv, ClaimsAreTrue
  <2>4. QED
    BY <1>1, <2>1, <2>3 DEF ClaimHolds, Attachment
<1>7. UnusedIsDetached' /\ PublishedStaysAttached'
  BY <1>1 DEF AttachInv, UnusedIsDetached, PublishedStaysAttached
<1>8. QED
  BY <1>3, <1>4, <1>5, <1>6, <1>7 DEF AttachInv

(***************************************************************************)
(* At the start nothing is attached and nothing goes on.                   *)
(***************************************************************************)
LEMMA InitAttach == Init => AttachInv
<1> SUFFICES ASSUME Init PROVE AttachInv
  OBVIOUS
<1>1. /\ ops = {}
      /\ pc = [r \in Requests |-> "idle"]
      /\ va = [a \in DiskIds \X Nodes |-> "none"]
      /\ \A d \in DiskIds : disks[d].at = {}
  BY DEF Init, ComputeInit, ControllerInit, NewDisk
<1>2. OneOpPerDisk /\ DetachIsWanted /\ CallIsWanted /\ UnusedIsDetached
  BY <1>1 DEF OneOpPerDisk, DetachIsWanted, CallIsWanted, UnusedIsDetached
<1>3. ClaimsAreTrue
  BY <1>1 DEF ClaimsAreTrue, Claims, Succeeds
<1>4. PublishedStaysAttached
  BY <1>1 DEF PublishedStaysAttached
<1>5. QED
  BY <1>2, <1>3, <1>4 DEF AttachInv

(***************************************************************************)
(* AttachInv is inductive when the cloud is asked for one thing at a time. *)
(***************************************************************************)
LEMMA AttachStep ==
    ASSUME OneAtATime, TypeOK, AttachInv, [Next]_vars
    PROVE  AttachInv'
<1>1. CASE \E r \in Requests : Issue(r) \/ Receive(r)
  BY <1>1, SidecarStep
<1>2. ASSUME NEW r \in Requests, Handle(r) PROVE AttachInv'
  <2>1. HandlerStep(r) /\ UNCHANGED va
    BY <1>2 DEF Handle, sidecarVars
  <2>2. CASE CreateDisk(r)
    BY <2>1, <2>2, CreateStep
  <2>3. CASE Submit(r)
    BY <2>1, <2>3, SubmitStep
  <2>4. CASE \/ PublishGetDisk(r) \/ PublishGetInstance(r) \/ PublishDone(r)
             \/ UnpublishGetDisk(r) \/ UnpublishGetInstance(r) \/ UnpublishDone(r)
    BY <2>1, <2>4, AttachmentHandlers
  <2>5. CASE \/ ListDisks(r) \/ CreateDone(r) \/ DeleteDone(r)
             \/ ExpandGetDisk(r) \/ ExpandDone(r)
    BY <2>1, <2>5, OtherHandlers
  <2>6. CASE Panic(r)
    BY <2>1, <2>6, CrashStep DEF Panic
  <2>7. QED
    BY <2>1, <2>2, <2>3, <2>4, <2>5, <2>6 DEF HandlerStep
<1>3. ASSUME NEW r \in Requests, FailCall(r) PROVE AttachInv'
  <2>1. /\ pc[r] # "idle" /\ Reply(r, Failed) /\ UNCHANGED <<computeVars, va>>
        /\ Failed \in Answers /\ Failed.code = "failed"
    BY <1>3, AnswerTypes DEF FailCall, Disrupt, CallFails, sidecarVars, Failed, Empty
  <2>2. QED
    BY <2>1, MoveStep
<1>4. ASSUME NEW o \in Requests \X DiskIds, Work(o) \/ FailOp(o) PROVE AttachInv'
  <2>1. (FinishOp(o) \/ BreakOp(o)) /\ UNCHANGED va
    BY <1>4 DEF Work, FailOp, Disrupt, sidecarVars
  <2>2. QED
    BY <2>1, OperationStep
<1>5. CASE Restart
  BY <1>5, CrashStep DEF Restart, Disrupt, sidecarVars
<1>6. ASSUME NEW d \in DiskIds, ResizeByHand(d) PROVE AttachInv'
  <2>1. PanelResize(d, disks[d].size + 1) /\ UNCHANGED <<ops, pc, local, res, va>>
    BY <1>6 DEF ResizeByHand, Disrupt, sidecarVars, controllerVars, PanelResize
  <2>2. disks[d].size + 1 \in Int
    BY DEF TypeOK, ComputeTypeOK, Disk
  <2>3. QED
    BY <2>1, <2>2, OutsideStep
<1>7. ASSUME NEW n \in Nodes, DisruptInstance(n) PROVE AttachInv'
  <2>1. /\ StopInstance(n) \/ StartInstance(n) \/ DeleteInstance(n)
        /\ UNCHANGED <<ops, pc, local, res, va>>
    BY <1>7 DEF DisruptInstance, Disrupt, sidecarVars, controllerVars, StopInstance,
                StartInstance, DeleteInstance
  <2>2. QED
    BY <2>1, OutsideStep
<1>8. CASE UNCHANGED vars
  <2>1. UNCHANGED <<disks, inst, ops, pc, local, res, va>>
    BY <1>8 DEF vars, computeVars, controllerVars, sidecarVars
  <2>2. QED
    BY <2>1 DEF AttachInv, OneOpPerDisk, Exists, DetachIsWanted, CallIsWanted,
                ClaimsAreTrue, ClaimHolds, Claims, Succeeds, AboutAttachment, Attachment,
                UnusedIsDetached, PublishedStaysAttached
<1>9. QED
  BY <1>1, <1>2, <1>3, <1>4, <1>5, <1>6, <1>7, <1>8 DEF Next

(***************************************************************************)
(* The strict cloud is asked for one thing at a time: it refuses the rest. *)
(***************************************************************************)
LEMMA StrictIsOneAtATime == StrictCloud => OneAtATime
<1>1. ASSUME StrictCloud, NEW r \in Requests, Answer(r, r.disk) = "done"
      PROVE  ~(Busy(r.disk) /\ Exists(r.disk)) /\ Exists(r.disk)
  BY <1>1 DEF Answer, Verdict
<1>2. QED
  BY <1>1 DEF OneAtATime

(***************************************************************************)
(* Against a cloud that works on one operation of a disk at a time, each   *)
(* detachment that goes on is still wanted, and each OK about an           *)
(* attachment is true from the moment it is decided until it is taken.     *)
(***************************************************************************)
THEOREM AttachmentsAreTrue ==
    ASSUME StrictCloud
    PROVE  Spec => []AttachInv
<1>1. TypeOK /\ AttachInv /\ [Next]_vars => AttachInv'
  BY AttachStep, StrictIsOneAtATime
<1>2. QED
  BY <1>1, InitAttach, TypeCorrect, PTL DEF Spec

(***************************************************************************)
(* Against that cloud, where ControllerPublishVolume was answered OK the   *)
(* disk stays attached until ControllerUnpublishVolume is called: whatever *)
(* calls fail, operations are given up and restarts happen in between.     *)
(***************************************************************************)
THEOREM PublicationHolds ==
    ASSUME StrictCloud
    PROVE  Spec => []PublishedStaysAttached
<1>1. AttachInv => PublishedStaysAttached
  BY DEF AttachInv
<1>2. QED
  BY <1>1, AttachmentsAreTrue, PTL

=============================================================================
