-------------------------- MODULE ProvisionProofs --------------------------
(***************************************************************************)
(* Provisioning, for every set of requests: a volume has one disk, however *)
(* often its creation is given up and repeated, and none when it was       *)
(* deleted; its PersistentVolume tells the truth.                          *)
(*                                                                         *)
(* The argument is ProvisionInv.  CreateVolume looks for a disk of the     *)
(* name and then creates one, in two calls to the cloud; what it found     *)
(* stays true in between because the provisioner makes one call at a time  *)
(* for a name (CallsAreQueued), an attempt that was given up has its disk  *)
(* listed from the start, and a name that has its volume is not asked for  *)
(* again.                                                                  *)
(***************************************************************************)
EXTENDS ClusterProofs, FiniteSetTheorems

-----------------------------------------------------------------------------
(* The calls *)

(***************************************************************************)
(* One CreateVolume at a time for a name.                                  *)
(***************************************************************************)
LEMMA OneCreation ==
    ASSUME CallsAreQueued, NEW r \in Requests, NEW q \in Requests,
           r.kind = "create", q.kind = "create", r.name = q.name,
           pc[r] # "idle", pc[q] # "idle"
    PROVE  r = q
BY DEF CallsAreQueued, SameSubject, SameQueue

(***************************************************************************)
(* How a CreateVolume goes on (controller.go:88-242).                      *)
(***************************************************************************)
CreateTurn(r) ==
    \/ /\ pc'[r] = pc[r] /\ res'[r] = res[r]
       /\ pc[r] = "wait" => local'[r].disk = local[r].disk
    \/ pc'[r] = "idle"
    \/ pc'[r] = "answered" /\ res'[r].code = "failed"
    \/ /\ pc[r] = "idle" /\ pc'[r] = "list"
       /\ pv[r.name].phase = "none" /\ CreateAccepted(r) /\ UNCHANGED <<computeVars, sidecarVars>>
    \/ /\ pc[r] = "list" /\ UNCHANGED <<computeVars, sidecarVars>>
       /\ \/ pc'[r] = "send" /\ Named(r.name) = {}
          \/ /\ pc'[r] = "answered"
             /\ \E d \in DiskIds : /\ Named(r.name) = {d} /\ SameVolume(r, disks[d])
                                   /\ res'[r] = Volume(d, disks[d].size, disks[d].zone)
    \/ /\ pc[r] = "send" /\ pc'[r] = "wait" /\ UNCHANGED sidecarVars
       /\ local'[r].outcome = "running"
       /\ Allocate(r, local'[r].disk) /\ local'[r].disk \in DiskIds
       /\ ops' = ops \cup {<<r, local'[r].disk>>}
    \/ /\ pc[r] = "wait" /\ pc'[r] = "answered" /\ UNCHANGED <<computeVars, sidecarVars>>
       /\ local[r].outcome = "done"
       /\ res'[r] = Volume(local[r].disk, ExtractedSize(r.range), r.zone)

(***************************************************************************)
(* There is no other way.                                                  *)
(***************************************************************************)
LEMMA CreateTurns ==
    ASSUME TypeOK, [Next]_vars, NEW r \in Requests, r.kind = "create"
    PROVE  CreateTurn(r)
<1>1. /\ pc \in [Requests -> Steps] /\ local \in [Requests -> Local]
      /\ res \in [Requests -> Answers] /\ disks \in [DiskIds -> Disk]
  BY DEF TypeOK, ControllerTypeOK, ComputeTypeOK
<1>2. CASE Issue(r)
  <2>1. CreateVolume(r) /\ pv[r.name].phase = "none" /\ UNCHANGED sidecarVars
    BY <1>2 DEF Issue, IssueCreate, IssueDelete, IssuePublish, IssueUnpublish, IssueExpand,
                IssueSnapshot, DeleteVolume, ControllerPublishVolume, CreateSnapshot,
                ControllerUnpublishVolume, ControllerExpandVolume, At
  <2>2. CASE CreateAccepted(r)
    BY <1>1, <2>1, <2>2 DEF CreateVolume, At, Goto, CreateTurn
  <2>3. CASE ~CreateAccepted(r)
    BY <1>1, <2>1, <2>3 DEF CreateVolume, Reply, Failed, Empty, CreateTurn
  <2>4. QED
    BY <2>2, <2>3
<1>3. CASE Receive(r)
  BY <1>1, <1>3 DEF Receive, CreateTurn
<1>4. CASE FailCall(r)
  BY <1>1, <1>4 DEF FailCall, CallFails, Reply, Failed, Empty, CreateTurn
<1>5. CASE HandlerStep(r) /\ ~Panic(r) /\ UNCHANGED sidecarVars
  <2>1. ListDisks(r) \/ CreateDisk(r) \/ CreateDone(r)
    BY <1>5 DEF HandlerStep, Submit, DeleteDone, PublishGetDisk, PublishGetInstance,
                PublishDone, UnpublishGetDisk, UnpublishGetInstance, UnpublishDone,
                ExpandGetDisk, ExpandDone, At
  <2>2. CASE ListDisks(r)
    <3>1. pc[r] = "list" /\ UNCHANGED <<computeVars, sidecarVars>>
      BY <1>5, <2>2 DEF ListDisks, At
    <3>2. CASE Named(r.name) = {}
      <4>1. Goto(r, "send")
        BY <2>2, <3>2 DEF ListDisks
      <4>2. pc'[r] = "send"
        BY <1>1, <4>1 DEF Goto
      <4>3. QED
        BY <3>1, <3>2, <4>2 DEF CreateTurn
    <3>3. CASE Named(r.name) # {}
      <4>1. CASE \E d \in Named(r.name) : Named(r.name) = {d} /\ SameVolume(r, disks[d])
        <5>1. PICK d \in Named(r.name) : Named(r.name) = {d} /\ SameVolume(r, disks[d])
          BY <4>1
        <5>2. (CHOOSE e \in Named(r.name) : TRUE) = d /\ d \in DiskIds
          BY <5>1 DEF Named
        <5>3. Reply(r, Volume(d, disks[d].size, disks[d].zone))
          BY <2>2, <3>3, <4>1, <5>2 DEF ListDisks
        <5>4. pc'[r] = "answered" /\ res'[r] = Volume(d, disks[d].size, disks[d].zone)
          BY <1>1, <5>3 DEF Reply
        <5>5. QED
          BY <3>1, <5>1, <5>2, <5>4 DEF CreateTurn
      <4>2. CASE ~\E d \in Named(r.name) : Named(r.name) = {d} /\ SameVolume(r, disks[d])
        BY <1>1, <2>2, <3>3, <4>2 DEF ListDisks, Reply, Failed, Empty, CreateTurn
      <4>3. QED
        BY <4>1, <4>2
    <3>4. QED
      BY <3>2, <3>3
  <2>3. CASE CreateDisk(r)
    <3>1. CASE CanAllocate(r)
      <4>1. PICK d \in DiskIds : Allocate(r, d) /\ Wait(r, d, "done")
        BY <2>3, <3>1 DEF CreateDisk
      <4>2. /\ pc'[r] = "wait" /\ local'[r].disk = d /\ local'[r].outcome = "running"
            /\ ops' = ops \cup {<<r, d>>} /\ pc[r] = "send"
        BY <1>1, <2>3, <4>1 DEF Wait, CreateDisk, At
      <4>3. QED
        BY <1>5, <4>1, <4>2 DEF CreateTurn
    <3>2. CASE ~CanAllocate(r)
      BY <1>1, <2>3, <3>2 DEF CreateDisk, Reply, Failed, Empty, CreateTurn
    <3>3. QED
      BY <3>1, <3>2
  <2>4. CASE CreateDone(r)
    <3>1. CASE local[r].outcome = "done"
      BY <1>1, <1>5, <2>4, <3>1 DEF CreateDone, At, Reply, CreateTurn
    <3>2. CASE local[r].outcome # "done"
      BY <1>1, <2>4, <3>2 DEF CreateDone, Reply, Failed, Empty, CreateTurn
    <3>3. QED
      BY <3>1, <3>2
  <2>5. QED
    BY <2>1, <2>2, <2>3, <2>4
<1>6. CASE \E d \in DiskIds : \E outcome \in {Verdict(r, d), "failed"} : Settled(r, d, outcome)
  BY <1>1, <1>6 DEF Settled, Local, CreateTurn
<1>7. CASE Died
  <2>1. pc'[r] = IF pc[r] = "answered" THEN "answered" ELSE "idle"
    BY <1>7 DEF Died, Crash
  <2>2. res'[r] = res[r]
    BY <1>7 DEF Died, Crash
  <2>3. QED
    BY <2>1, <2>2 DEF CreateTurn
<1>8. QED
  BY <1>2, <1>3, <1>4, <1>5, <1>6, <1>7, Turns DEF CreateTurn

(***************************************************************************)
(* What a DeleteVolume says is so (controller.go:252-271).                 *)
(***************************************************************************)
LEMMA DeleteTurns ==
    ASSUME TypeOK, CloudInv, [Next]_vars, NEW r \in Requests, r.kind = "delete", Deleted(r)'
    PROVE  Deleted(r) \/ ~Exists(r.disk)'
<1>1. /\ pc \in [Requests -> Steps] /\ local \in [Requests -> Local]
      /\ res \in [Requests -> Answers] /\ disks \in [DiskIds -> Disk] /\ r.disk \in DiskIds
  BY RequestFields DEF TypeOK, ControllerTypeOK, ComputeTypeOK
<1>2. CASE Issue(r)
  <2>1. DeleteVolume(r)
    BY <1>2 DEF Issue, IssueCreate, IssueDelete, IssuePublish, IssueUnpublish, IssueExpand,
                IssueSnapshot, CreateVolume, ControllerPublishVolume, CreateSnapshot,
                ControllerUnpublishVolume, ControllerExpandVolume, At
  <2>2. pc'[r] = "send"
    BY <1>1, <2>1 DEF DeleteVolume, Goto
  <2>3. QED
    BY <2>2 DEF Deleted
<1>3. CASE Receive(r)
  BY <1>1, <1>3 DEF Receive, Deleted
<1>4. CASE FailCall(r)
  BY <1>1, <1>4 DEF FailCall, CallFails, Reply, Failed, Empty, Deleted
<1>5. CASE HandlerStep(r) /\ ~Panic(r)
  <2>1. Submit(r) \/ DeleteDone(r)
    BY <1>5 DEF HandlerStep, ListDisks, CreateDisk, CreateDone, PublishGetDisk,
                PublishGetInstance, PublishDone, UnpublishGetDisk, UnpublishGetInstance,
                UnpublishDone, ExpandGetDisk, ExpandDone, At
  <2>2. CASE Submit(r)
    <3>1. UNCHANGED disks /\ pc'[r] = "wait"
          /\ (local'[r].outcome = Answer(r, r.disk) \/ local'[r].outcome = "running")
      BY <1>1, <2>2 DEF Submit, Wait
    <3>2. Answer(r, r.disk) = "notFound" => ~Exists(r.disk)
      BY DEF Answer, Verdict
    <3>3. Answer(r, r.disk) = "done" => local'[r].outcome = "running"
      BY <1>1, <2>2 DEF Submit, Wait
    <3>4. QED
      BY <3>1, <3>2, <3>3 DEF Deleted, Exists
  <2>3. CASE DeleteDone(r)
    BY <1>1, <2>3 DEF DeleteDone, At, Reply, Failed, Ok, Empty, Deleted
  <2>4. QED
    BY <2>1, <2>2, <2>3
<1>6. ASSUME NEW d \in DiskIds, NEW outcome \in {Verdict(r, d), "failed"}, Settled(r, d, outcome)
      PROVE  Deleted(r) \/ ~Exists(r.disk)'
  <2>1. d = r.disk /\ pc'[r] = "wait" /\ pc[r] = "wait"
    BY <1>6 DEF Settled, Awaited, Target
  <2>2. local'[r].outcome = outcome
    BY <1>1, <1>6 DEF Settled, Local
  <2>3. outcome \in {"done", "notFound"}
    BY <2>1, <2>2 DEF Deleted
  <2>4. FinishOp(<<r, d>>) /\ outcome = Verdict(r, d)
    BY <1>6, <2>3 DEF Settled
  <2>5. CASE outcome = "notFound"
    <3>1. ~Exists(d) /\ UNCHANGED disks
      BY <2>4, <2>5 DEF FinishOp, Finish, Verdict
    <3>2. QED
      BY <2>1, <3>1 DEF Exists
  <2>6. CASE outcome = "done"
    <3>1. disks' = [disks EXCEPT ![d] = [disks[d] EXCEPT !.state = "gone"]]
      BY <2>4, <2>6 DEF FinishOp, Finish, Changed
    <3>2. disks'[d].state = "gone"
      BY <1>1, <3>1 DEF Disk
    <3>3. QED
      BY <2>1, <3>2 DEF Exists
  <2>7. QED
    BY <2>3, <2>5, <2>6
<1>7. CASE Died
  <2>1. /\ pc'[r] = IF pc[r] = "answered" THEN "answered" ELSE "idle"
        /\ res'[r] = res[r]
    BY <1>7 DEF Died, Crash
  <2>2. QED
    BY <2>1 DEF Deleted
<1>8. QED
  BY <1>2, <1>3, <1>4, <1>5, <1>6, <1>7, Turns DEF Deleted

-----------------------------------------------------------------------------
(* The volumes *)

(***************************************************************************)
(* What the provisioner and the resizer record of a volume.                *)
(***************************************************************************)
VolumeTurn(name) ==
    \/ pv'[name] = pv[name]
    \/ \E r \in Requests :
          /\ r.kind = "create" /\ r.name = name /\ Receive(r)
          /\ pc[r] = "answered" /\ pc'[r] = "idle" /\ res[r].code = "ok"
          /\ pv'[name] = [phase |-> "bound", disk |-> res[r].disk,
                          size |-> res[r].size, zone |-> res[r].zone]
    \/ /\ pv[name].phase \in {"bound", "released"}
       /\ \E r \in Requests : IssueDelete(r)
       /\ pv'[name] = [pv[name] EXCEPT !.phase = "released"]
    \/ \E r \in Requests :
          /\ r.kind = "delete" /\ r.disk = pv[name].disk /\ Receive(r) /\ Deleted(r)
          /\ pv'[name] = [pv[name] EXCEPT !.phase = "deleted"]
    \/ \E r \in Requests :
          /\ r.kind = "expand" /\ r.disk = pv[name].disk /\ Receive(r)
          /\ pc[r] = "answered" /\ res[r].code = "ok"
          /\ pv'[name] = [pv[name] EXCEPT !.size = res[r].size]

(***************************************************************************)
(* They record nothing else.                                               *)
(***************************************************************************)
LEMMA VolumeTurns ==
    ASSUME TypeOK, [Next]_vars, NEW name \in Names
    PROVE  VolumeTurn(name)
<1>1. pv \in [Names -> PV]
  BY DEF TypeOK
<1>2. CASE UNCHANGED pv
  BY <1>2 DEF VolumeTurn
<1>3. ASSUME NEW r \in Requests, Issue(r), ~UNCHANGED pv
      PROVE  VolumeTurn(name)
  <2>1. IssueDelete(r)
    BY <1>3 DEF Issue, IssueCreate, IssuePublish, IssueUnpublish, IssueExpand,
                IssueSnapshot, sidecarVars
  <2>2. PICK other \in Names : /\ pv[other].phase \in {"bound", "released"}
                               /\ pv' = [pv EXCEPT ![other].phase = "released"]
    BY <2>1 DEF IssueDelete
  <2>3. CASE other = name
    BY <1>1, <2>1, <2>2, <2>3 DEF VolumeTurn
  <2>4. CASE other # name
    BY <1>1, <2>2, <2>4 DEF VolumeTurn
  <2>5. QED
    BY <2>3, <2>4
<1>4. ASSUME NEW r \in Requests, Receive(r), ~UNCHANGED pv
      PROVE  VolumeTurn(name)
  <2>1. /\ pc[r] = "answered" /\ pc'[r] = "idle" /\ res[r].code = "ok"
        /\ pv' = Recorded(r, res[r])
    BY <1>4 DEF Receive, sidecarVars, TypeOK, ControllerTypeOK
  <2>2. CASE r.kind = "create"
    <3>1. pv' = [pv EXCEPT ![r.name] = [phase |-> "bound", disk |-> res[r].disk,
                                        size |-> res[r].size, zone |-> res[r].zone]]
      BY <2>1, <2>2 DEF Recorded
    <3>2. CASE r.name = name
      BY <1>1, <1>4, <2>1, <2>2, <3>1, <3>2 DEF VolumeTurn
    <3>3. CASE r.name # name
      BY <1>1, <3>1, <3>3 DEF VolumeTurn
    <3>4. QED
      BY <3>2, <3>3
  <2>3. CASE r.kind = "delete"
    <3>1. pv'[name] = IF pv[name].disk = r.disk
                      THEN [pv[name] EXCEPT !.phase = "deleted"] ELSE pv[name]
      BY <2>1, <2>3 DEF Recorded
    <3>2. QED
      BY <1>4, <2>1, <2>3, <3>1 DEF VolumeTurn, Deleted
  <2>4. CASE r.kind = "expand"
    <3>1. pv'[name] = IF pv[name].disk = r.disk
                      THEN [pv[name] EXCEPT !.size = res[r].size] ELSE pv[name]
      BY <2>1, <2>4 DEF Recorded
    <3>2. QED
      BY <1>4, <2>1, <2>4, <3>1 DEF VolumeTurn
  <2>5. CASE r.kind \notin {"create", "delete", "expand"}
    BY <1>4, <2>1, <2>5 DEF Recorded
  <2>6. QED
    BY <2>2, <2>3, <2>4, <2>5
<1>5. CASE ~\E r \in Requests : Issue(r) \/ Receive(r)
  <2>1. UNCHANGED sidecarVars
    BY <1>5 DEF Next, Handle, FailCall, Work, FailOp, Restart, ResizeByHand,
                DisruptInstance, Disrupt, vars
  <2>2. QED
    BY <1>2, <2>1 DEF sidecarVars
<1>6. QED
  BY <1>2, <1>3, <1>4, <1>5

(***************************************************************************)
(* The disk of a name stays the only one, unless a CreateVolume is about   *)
(* to create another.                                                      *)
(***************************************************************************)
LEMMA DiskOfLasts ==
    ASSUME TypeOK, CloudInv, [Next]_vars, NEW name, NEW d, DiskOf(name, d),
           \A q \in Requests : q.kind = "create" /\ q.name = name => pc[q] # "send"
    PROVE  DiskOf(name, d)'
<1>1. d \in DiskIds /\ disks[d].state # "none" /\ disks[d].name = name
  BY DEF DiskOf
<1>2. disks'[d].state # "none" /\ disks'[d].name = name
  BY <1>1, DiskLasts
<1>3. ASSUME NEW e \in DiskIds, Exists(e)', disks'[e].name = name
      PROVE  e = d
  <2>1. Exists(e)
    BY <1>3, NameIsGiven
  <2>2. disks[e].name = name
    BY <1>3, <2>1, DiskLasts DEF Exists
  <2>3. QED
    BY <2>1, <2>2 DEF DiskOf, Named
<1>4. QED
  BY <1>1, <1>2, <1>3 DEF DiskOf, Named

-----------------------------------------------------------------------------
(* ProvisionInv *)

(***************************************************************************)
(* While a name is being asked for it has no volume yet.                   *)
(***************************************************************************)
LEMMA NoVolumeYet ==
    ASSUME TypeOK, CallsAreQueued, ProvisionInv, [Next]_vars,
           NEW r \in Requests, r.kind = "create", pc'[r] # "idle"
    PROVE  pv'[r.name].phase = "none"
<1>1. r.name \in Names /\ pv \in [Names -> PV]
  BY RequestFields DEF TypeOK
<1>2. CASE pc[r] = "idle"
  <2>1. Issue(r)
    BY <1>2, StartedByIssue
  <2>2. IssueCreate(r)
    BY <2>1 DEF Issue, IssueDelete, IssuePublish, IssueUnpublish, IssueExpand, IssueSnapshot,
                DeleteVolume, ControllerPublishVolume, ControllerUnpublishVolume,
                ControllerExpandVolume, CreateSnapshot, At
  <2>3. QED
    BY <2>2 DEF IssueCreate, sidecarVars
<1>3. CASE pc[r] # "idle"
  <2>1. pv[r.name].phase = "none" /\ pv[r.name].disk = NoDisk
    BY <1>1, <1>3 DEF ProvisionInv, CreationsKnowTheirDisk, VolumesKnowTheirDisk
  <2>2. \A q \in Requests : q.kind = "create" /\ q.name = r.name /\ pc[q] = "answered"
                               /\ pc'[q] = "idle" => FALSE
    BY <1>3, OneCreation
  <2>3. \A q \in Requests : q.kind \in {"delete", "expand"} => q.disk # NoDisk
    BY RequestFields, ComputeAssumption DEF ComputeAssumption
  <2>4. VolumeTurn(r.name)
    BY <1>1, VolumeTurns
  <2>5. QED
    BY <2>1, <2>2, <2>3, <2>4 DEF VolumeTurn
<1>4. QED
  BY <1>2, <1>3

(***************************************************************************)
(* A volume keeps its disk, and a disk its volume.                         *)
(***************************************************************************)
LEMMA VolumesStep ==
    ASSUME TypeOK, CallsAreQueued, CloudInv, ProvisionInv, [Next]_vars
    PROVE  VolumesKnowTheirDisk'
<1> SUFFICES ASSUME NEW name \in Names
             PROVE  IF pv'[name].phase = "none" THEN pv'[name].disk = NoDisk
                                                ELSE DiskOf(name, pv[name].disk)'
  BY DEF VolumesKnowTheirDisk
<1>1. pv \in [Names -> PV] /\ VolumeTurn(name)
  BY VolumeTurns DEF TypeOK
<1>2. \A q \in Requests : q.kind \in {"delete", "expand"} => q.disk # NoDisk
  BY RequestFields, ComputeAssumption DEF ComputeAssumption
<1>3. CASE \E r \in Requests :
              /\ r.kind = "create" /\ r.name = name /\ Receive(r)
              /\ pc[r] = "answered" /\ pc'[r] = "idle" /\ res[r].code = "ok"
              /\ pv'[name] = [phase |-> "bound", disk |-> res[r].disk,
                              size |-> res[r].size, zone |-> res[r].zone]
  <2>1. PICK r \in Requests :
              /\ r.kind = "create" /\ r.name = name
              /\ pc[r] = "answered" /\ res[r].code = "ok"
              /\ pv'[name].phase = "bound" /\ pv'[name].disk = res[r].disk
    BY <1>3
  <2>2. PICK d : d = res[r].disk
    OBVIOUS
  <2>3. DiskOf(name, d)
    BY <2>1, <2>2 DEF ProvisionInv, CreationsKnowTheirDisk, Created
  <2>4. \A q \in Requests : q.kind = "create" /\ q.name = name => pc[q] # "send"
    BY <2>1, OneCreation
  <2>5. DiskOf(name, d)'
    BY <2>3, <2>4, DiskOfLasts
  <2>6. pv'[name].disk = d
    BY <2>1, <2>2
  <2>7. QED
    BY <2>1, <2>5, <2>6 DEF DiskOf
<1>4. CASE /\ pv'[name].disk = pv[name].disk
           /\ pv'[name].phase = "none" <=> pv[name].phase = "none"
  <2>1. CASE pv[name].phase = "none"
    BY <1>4, <2>1 DEF ProvisionInv, VolumesKnowTheirDisk
  <2>2. CASE pv[name].phase # "none"
    <3>1. PICK d : d = pv[name].disk
      OBVIOUS
    <3>2. DiskOf(name, d)
      BY <2>2, <3>1 DEF ProvisionInv, VolumesKnowTheirDisk
    <3>3. \A q \in Requests : q.kind = "create" /\ q.name = name => pc[q] # "send"
      BY <2>2 DEF ProvisionInv, CreationsKnowTheirDisk
    <3>4. DiskOf(name, d)'
      BY <3>2, <3>3, DiskOfLasts
    <3>5. pv'[name].disk = d
      BY <1>4, <3>1
    <3>6. QED
      BY <1>4, <2>2, <3>4, <3>5 DEF DiskOf
  <2>3. QED
    BY <2>1, <2>2
<1>5. CASE pv'[name] = pv[name]
  BY <1>4, <1>5
<1>6. CASE pv[name].phase \in {"bound", "released"} /\ pv'[name] = [pv[name] EXCEPT !.phase = "released"]
  BY <1>1, <1>4, <1>6 DEF PV
<1>7. CASE \E r \in Requests :
              /\ r.kind = "delete" /\ r.disk = pv[name].disk
              /\ pv'[name] = [pv[name] EXCEPT !.phase = "deleted"]
  <2>1. pv[name].phase # "none"
    BY <1>2, <1>7 DEF ProvisionInv, VolumesKnowTheirDisk
  <2>2. QED
    BY <1>1, <1>4, <1>7, <2>1 DEF PV
<1>8. CASE \E r \in Requests : pv'[name] = [pv[name] EXCEPT !.size = res[r].size]
  BY <1>1, <1>4, <1>8 DEF PV
<1>9. QED
  BY <1>1, <1>3, <1>5, <1>6, <1>7, <1>8 DEF VolumeTurn

(***************************************************************************)
(* What CreateVolume found, made or was told stays so until it is taken.   *)
(***************************************************************************)
LEMMA CreationsStep ==
    ASSUME TypeOK, CallsAreQueued, CloudInv, ProvisionInv, [Next]_vars
    PROVE  CreationsKnowTheirDisk'
<1> SUFFICES ASSUME NEW r \in Requests, r.kind = "create", pc'[r] # "idle"
             PROVE  /\ pv'[r.name].phase = "none"
                    /\ pc'[r] = "send" => Named(r.name)' = {}
                    /\ \A d \in Created(r)' : DiskOf(r.name, d)'
  BY DEF CreationsKnowTheirDisk
<1>1. pv'[r.name].phase = "none"
  BY NoVolumeYet
<1>2. CreateTurn(r)
  BY CreateTurns
<1>3. CASE /\ pc'[r] = pc[r] /\ res'[r] = res[r]
           /\ pc[r] = "wait" => local'[r].disk = local[r].disk
  <2>1. /\ pc[r] = "send" => Named(r.name) = {}
        /\ \A d \in Created(r) : DiskOf(r.name, d)
    BY <1>3 DEF ProvisionInv, CreationsKnowTheirDisk
  <2>2. ASSUME pc[r] = "send", NEW e \in Named(r.name)' PROVE FALSE
    <3>1. e \in DiskIds /\ Exists(e)' /\ disks'[e].name = r.name
      BY <2>2 DEF Named
    <3>2. CASE Exists(e)
      BY <2>1, <2>2, <3>1, <3>2, DiskLasts DEF Named, Exists
    <3>3. CASE ~Exists(e)
      <4>1. PICK q \in Requests : /\ q.kind = "create" /\ pc[q] = "send" /\ pc'[q] = "wait"
                                  /\ disks'[e].name = q.name
        BY <3>1, <3>3, NameIsGiven
      <4>2. q = r
        BY <2>2, <3>1, <4>1, OneCreation
      <4>3. QED
        BY <1>3, <2>2, <4>1, <4>2
    <3>4. QED
      BY <3>2, <3>3
  <2>3. ASSUME NEW d \in Created(r)' PROVE DiskOf(r.name, d)'
    <3>1. d \in Created(r) /\ pc[r] \in {"wait", "answered"}
      BY <1>3, <2>3 DEF Created
    <3>2. \A q \in Requests : q.kind = "create" /\ q.name = r.name => pc[q] # "send"
      BY <3>1, OneCreation
    <3>3. QED
      BY <2>1, <3>1, <3>2, DiskOfLasts
  <2>4. QED
    BY <1>1, <1>3, <2>2, <2>3
<1>4. CASE pc'[r] = "answered" /\ res'[r].code = "failed"
  BY <1>1, <1>4 DEF Created
<1>5. CASE pc'[r] = "list"
  BY <1>1, <1>5 DEF Created
<1>6. CASE UNCHANGED computeVars /\ pc'[r] = "send" /\ Named(r.name) = {}
  <2>1. Named(r.name)' = {}
    BY <1>6 DEF Named, Exists, computeVars
  <2>2. QED
    BY <1>1, <1>6, <2>1 DEF Created
<1>7. CASE /\ UNCHANGED computeVars /\ pc'[r] = "answered"
           /\ \E d \in DiskIds : /\ Named(r.name) = {d} /\ SameVolume(r, disks[d])
                                 /\ res'[r] = Volume(d, disks[d].size, disks[d].zone)
  <2>1. PICK d \in DiskIds : /\ Named(r.name) = {d}
                             /\ res'[r] = Volume(d, disks[d].size, disks[d].zone)
    BY <1>7
  <2>2. Created(r)' = {d}
    BY <1>7, <2>1 DEF Created, Volume
  <2>3. Named(r.name)' = {d} /\ disks' = disks
    BY <1>7, <2>1 DEF Named, Exists, computeVars
  <2>4. d \in Named(r.name)
    BY <2>1
  <2>5. DiskOf(r.name, d)'
    BY <2>3, <2>4 DEF DiskOf, Named, Exists
  <2>6. QED
    BY <1>1, <1>7, <2>2, <2>5
<1>8. CASE /\ pc[r] = "send" /\ pc'[r] = "wait"
           /\ Allocate(r, local'[r].disk) /\ local'[r].disk \in DiskIds
  <2>1. PICK d \in DiskIds : d = local'[r].disk
    BY <1>8
  <2>2. Created(r)' = {d}
    BY <1>8, <2>1 DEF Created
  <2>3. Named(r.name) = {}
    BY <1>8 DEF ProvisionInv, CreationsKnowTheirDisk
  <2>4. disks \in [DiskIds -> Disk]
    BY DEF TypeOK, ComputeTypeOK
  <2>5. /\ disks'[d].state = "creating" /\ disks'[d].name = r.name
        /\ \A e \in DiskIds \ {d} : disks'[e] = disks[e]
    BY <1>8, <2>1, <2>4 DEF Allocate, NewDisk
  <2>6. DiskOf(r.name, d)'
    BY <2>3, <2>5 DEF DiskOf, Named, Exists
  <2>7. QED
    BY <1>1, <1>8, <2>2, <2>6
<1>9. CASE /\ pc[r] = "wait" /\ pc'[r] = "answered" /\ UNCHANGED computeVars
           /\ res'[r] = Volume(local[r].disk, ExtractedSize(r.range), r.zone)
  <2>1. Created(r)' \subseteq Created(r)
    BY <1>9 DEF Created, Volume
  <2>2. \A d \in Created(r) : DiskOf(r.name, d)
    BY <1>9 DEF ProvisionInv, CreationsKnowTheirDisk
  <2>3. disks' = disks
    BY <1>9 DEF computeVars
  <2>4. \A d : DiskOf(r.name, d)' <=> DiskOf(r.name, d)
    BY <2>3 DEF DiskOf, Named, Exists
  <2>5. QED
    BY <1>1, <1>9, <2>1, <2>2, <2>4
<1>10. QED
  BY <1>2, <1>3, <1>4, <1>5, <1>6, <1>7, <1>8, <1>9 DEF CreateTurn

(***************************************************************************)
(* No two disks have one name.                                             *)
(***************************************************************************)
LEMMA NamesStep ==
    ASSUME TypeOK, CallsAreQueued, CloudInv, ProvisionInv, [Next]_vars
    PROVE  OneDiskOfAName'
<1> SUFFICES ASSUME NEW d \in DiskIds, NEW e \in DiskIds, Exists(d)', Exists(e)',
                    disks'[d].name = disks'[e].name
             PROVE  d = e
  BY DEF OneDiskOfAName
<1>1. ASSUME NEW x \in DiskIds, NEW y \in DiskIds, Exists(x)', ~Exists(x), Exists(y)', Exists(y),
             disks'[x].name = disks'[y].name
      PROVE  FALSE
  <2>1. PICK q \in Requests : q.kind = "create" /\ pc[q] = "send" /\ disks'[x].name = q.name
    BY <1>1, NameIsGiven
  <2>2. Named(q.name) = {}
    BY <2>1 DEF ProvisionInv, CreationsKnowTheirDisk
  <2>3. disks[y].name = q.name
    BY <1>1, <2>1, DiskLasts DEF Exists
  <2>4. QED
    BY <1>1, <2>2, <2>3 DEF Named
<1>2. CASE Exists(d) /\ Exists(e)
  BY <1>2, DiskLasts DEF Exists, ProvisionInv, OneDiskOfAName
<1>3. CASE ~Exists(d) /\ ~Exists(e)
  <2>1. PICK q \in Requests : /\ q.kind = "create" /\ pc[q] = "send" /\ local'[q].disk = d
                              /\ disks'[d].name = q.name
    BY <1>3, NameIsGiven
  <2>2. PICK p \in Requests : /\ p.kind = "create" /\ pc[p] = "send" /\ local'[p].disk = e
                              /\ disks'[e].name = p.name
    BY <1>3, NameIsGiven
  <2>3. p = q
    BY <2>1, <2>2, OneCreation
  <2>4. QED
    BY <2>1, <2>2, <2>3
<1>4. QED
  BY <1>1, <1>2, <1>3

(***************************************************************************)
(* A call about a disk, and the operation it leaves behind, is about the   *)
(* disk of a volume, which keeps that disk.                                *)
(***************************************************************************)
LEMMA OnVolumesStep ==
    ASSUME TypeOK, CallsAreQueued, CloudInv, ProvisionInv, [Next]_vars
    PROVE  OnVolumesOnly'
<1> SUFFICES ASSUME NEW r \in Requests, r.kind \in {"delete", "expand"}, UnderWay(r)'
             PROVE  \E name \in Names :
                       /\ pv'[name].disk = r.disk
                       /\ r.kind = "delete" => pv'[name].phase \in {"released", "deleted"}
  BY DEF OnVolumesOnly
<1>1. pv \in [Names -> PV]
  BY DEF TypeOK
<1>2. CASE UnderWay(r)
  <2>1. PICK name \in Names : /\ pv[name].disk = r.disk
                              /\ r.kind = "delete" => pv[name].phase \in {"released", "deleted"}
    BY <1>2 DEF ProvisionInv, OnVolumesOnly
  <2>2. r.disk # NoDisk
    BY RequestFields, ComputeAssumption DEF ComputeAssumption
  <2>3. pv[name].phase # "none"
    BY <2>1, <2>2 DEF ProvisionInv, VolumesKnowTheirDisk
  <2>4. \A q \in Requests : q.kind = "create" /\ q.name = name => pc[q] # "answered"
    BY <2>3 DEF ProvisionInv, CreationsKnowTheirDisk
  <2>5. VolumeTurn(name)
    BY VolumeTurns
  <2>6. pv[name] \in PV
    BY <1>1
  <2>7. /\ pv'[name].disk = r.disk
        /\ r.kind = "delete" => pv'[name].phase \in {"released", "deleted"}
    BY <2>1, <2>4, <2>5, <2>6 DEF VolumeTurn, PV
  <2>8. QED
    BY <2>7
<1>3. CASE ~UnderWay(r)
  <2>1. ASSUME NEW o \in ops', o \notin ops, o[1] = r PROVE FALSE
    BY <1>3, <2>1, OpStarts DEF UnderWay
  <2>2. pc'[r] # "idle"
    BY <1>3, <2>1 DEF UnderWay
  <2>3. Issue(r)
    BY <1>3, <2>2, StartedByIssue DEF UnderWay
  <2>4. IssueDelete(r) \/ IssueExpand(r)
    BY <2>3 DEF Issue, IssueCreate, IssuePublish, IssueUnpublish, IssueSnapshot,
                CreateVolume, ControllerPublishVolume, ControllerUnpublishVolume,
                CreateSnapshot, At
  <2>5. CASE IssueDelete(r)
    <3>1. PICK name \in Names : pv[name].disk = r.disk /\ pv' = [pv EXCEPT ![name].phase = "released"]
      BY <2>5 DEF IssueDelete
    <3>2. pv[name] \in PV
      BY <1>1
    <3>3. pv'[name].disk = r.disk /\ pv'[name].phase = "released"
      BY <1>1, <3>1, <3>2 DEF PV
    <3>4. QED
      BY <3>3
  <2>6. CASE IssueExpand(r)
    BY <2>6 DEF IssueExpand, ControllerExpandVolume, At
  <2>7. QED
    BY <2>4, <2>5, <2>6
<1>4. QED
  BY <1>2, <1>3

(***************************************************************************)
(* A disk that is gone stays gone, so that an OK of DeleteVolume stays     *)
(* true.                                                                   *)
(***************************************************************************)
LEMMA DeletedStep ==
    ASSUME TypeOK, CallsAreQueued, CloudInv, ProvisionInv, [Next]_vars
    PROVE  DeletedIsGone'
<1>1. pv \in [Names -> PV]
  BY DEF TypeOK
<1>2. ASSUME NEW name \in Names, pv[name].phase # "none", ~Exists(pv[name].disk)
      PROVE  ~Exists(pv[name].disk)' \/ pv'[name].disk # pv[name].disk
  <2>1. PICK d : d = pv[name].disk
    OBVIOUS
  <2>2. d \in DiskIds /\ disks[d].state # "none" /\ ~Exists(d)
    BY <1>2, <2>1 DEF ProvisionInv, VolumesKnowTheirDisk, DiskOf
  <2>3. ~Exists(d)'
    BY <2>2, DiskLasts
  <2>4. QED
    BY <2>1, <2>3
<1>3. ASSUME NEW r \in Requests, r.kind = "delete", Deleted(r)'
      PROVE  ~Exists(r.disk)'
  <2>1. CASE Deleted(r)
    <3>1. pc[r] # "idle"
      BY <2>1 DEF Deleted
    <3>2. PICK name \in Names : pv[name].disk = r.disk
      BY <1>3, <3>1 DEF ProvisionInv, OnVolumesOnly, UnderWay
    <3>3. r.disk \in DiskIds /\ r.disk # NoDisk
      BY <1>3, RequestFields, ComputeAssumption DEF ComputeAssumption
    <3>4. disks[r.disk].state # "none"
      BY <3>2, <3>3 DEF ProvisionInv, VolumesKnowTheirDisk, DiskOf
    <3>5. ~Exists(r.disk)
      BY <1>3, <2>1 DEF ProvisionInv, DeletedIsGone
    <3>6. QED
      BY <3>3, <3>4, <3>5, DiskLasts
  <2>2. QED
    BY <1>3, <2>1, DeleteTurns
<1>4. ASSUME NEW name \in Names, pv'[name].phase = "deleted"
      PROVE  ~Exists(pv[name].disk)'
  <2>1. VolumeTurn(name) /\ pv[name] \in PV
    BY <1>1, VolumeTurns
  <2>2. CASE pv[name].phase = "deleted" /\ pv'[name].disk = pv[name].disk
    <3>1. PICK d : d = pv[name].disk
      OBVIOUS
    <3>2. d \in DiskIds /\ disks[d].state # "none" /\ ~Exists(d)
      BY <2>2, <3>1 DEF ProvisionInv, VolumesKnowTheirDisk, DiskOf, DeletedIsGone
    <3>3. ~Exists(d)' /\ pv'[name].disk = d
      BY <2>2, <3>1, <3>2, DiskLasts
    <3>4. QED
      BY <3>3
  <2>3. CASE \E r \in Requests :
                /\ r.kind = "delete" /\ r.disk = pv[name].disk /\ Receive(r) /\ Deleted(r)
                /\ pv'[name] = [pv[name] EXCEPT !.phase = "deleted"]
    <3>1. PICK r \in Requests :
                /\ r.kind = "delete" /\ r.disk = pv[name].disk /\ Receive(r) /\ Deleted(r)
                /\ pv'[name] = [pv[name] EXCEPT !.phase = "deleted"]
      BY <2>3
    <3>2. ~Exists(r.disk) /\ UNCHANGED computeVars
      BY <3>1 DEF ProvisionInv, DeletedIsGone, Receive
    <3>3. ~Exists(r.disk)'
      BY <3>2 DEF Exists, computeVars
    <3>4. pv'[name].disk = r.disk
      BY <2>1, <3>1 DEF PV
    <3>5. QED
      BY <3>3, <3>4
  <2>4. CASE pv'[name] = pv[name]
    BY <1>4, <2>2, <2>4
  <2>5. CASE \E r \in Requests : pv'[name] = [pv[name] EXCEPT !.size = res[r].size]
    BY <1>4, <2>1, <2>2, <2>5 DEF PV
  <2>6. ASSUME NEW r \in Requests,
               pv'[name] = [phase |-> "bound", disk |-> res[r].disk,
                            size |-> res[r].size, zone |-> res[r].zone]
        PROVE  FALSE
    BY <1>4, <2>6
  <2>7. pv'[name] # [pv[name] EXCEPT !.phase = "released"]
    BY <1>4, <2>1 DEF PV
  <2>8. QED
    BY <2>1, <2>3, <2>4, <2>5, <2>6, <2>7 DEF VolumeTurn
<1>5. QED
  BY <1>3, <1>4 DEF DeletedIsGone

(***************************************************************************)
(* The volumes that are there at the start have their disks.               *)
(***************************************************************************)
LEMMA InitProvision == Init => ProvisionInv
<1> SUFFICES ASSUME Init PROVE ProvisionInv
  OBVIOUS
<1>1. /\ InitialVolumes \subseteq
            [disk : DiskIds, name : Names, size : Nat, blockSize : Nat, zone : Zones]
      /\ \A v, w \in InitialVolumes : v.disk = w.disk \/ v.name = w.name => v = w
      /\ NoDisk \notin DiskIds /\ NoName \notin Names
  BY ComputeAssumption DEF ComputeAssumption
<1>2. ASSUME NEW v \in InitialVolumes
      PROVE  /\ disks[v.disk].state = "ready" /\ disks[v.disk].name = v.name
             /\ pv[v.name].phase = "bound" /\ pv[v.name].disk = v.disk
  <2>1. v.disk \in DiskIds /\ v.name \in Names
    BY <1>1
  <2>2. (CHOOSE w \in InitialVolumes : w.disk = v.disk) = v
    BY <1>1
  <2>3. (CHOOSE w \in InitialVolumes : w.name = v.name) = v
    BY <1>1
  <2>4. disks[v.disk] = NewDisk("ready", v.name, v.size, v.blockSize, v.zone)
    BY <2>1, <2>2 DEF Init, ComputeInit
  <2>5. pv[v.name] = [phase |-> "bound", disk |-> v.disk, size |-> v.size, zone |-> v.zone]
    BY <2>1, <2>3 DEF Init
  <2>6. QED
    BY <2>4, <2>5 DEF NewDisk
<1>3. ASSUME NEW d \in DiskIds, Exists(d)
      PROVE  \E v \in InitialVolumes : v.disk = d /\ disks[d].name = v.name
  <2>1. CASE \E v \in InitialVolumes : v.disk = d
    BY <1>2, <2>1
  <2>2. CASE ~\E v \in InitialVolumes : v.disk = d
    BY <1>3, <2>2 DEF Init, ComputeInit, NewDisk, Exists
  <2>3. QED
    BY <2>1, <2>2
<1>4. ASSUME NEW name \in Names
      PROVE  /\ IF pv[name].phase = "none" THEN pv[name].disk = NoDisk
                                           ELSE DiskOf(name, pv[name].disk)
             /\ pv[name].phase # "deleted"
  <2>1. CASE \E v \in InitialVolumes : v.name = name
    <3>1. PICK v \in InitialVolumes : v.name = name
      BY <2>1
    <3>2. v.disk \in DiskIds /\ pv[name].phase = "bound" /\ pv[name].disk = v.disk
      BY <1>1, <1>2, <3>1
    <3>3. disks[v.disk].state = "ready" /\ disks[v.disk].name = name
      BY <1>2, <3>1
    <3>4. Named(name) \subseteq {v.disk}
      BY <1>1, <1>3, <3>1 DEF Named
    <3>5. QED
      BY <3>2, <3>3, <3>4 DEF DiskOf
  <2>2. CASE ~\E v \in InitialVolumes : v.name = name
    BY <2>2 DEF Init
  <2>3. QED
    BY <2>1, <2>2
<1>5. OneDiskOfAName
  BY <1>1, <1>3 DEF OneDiskOfAName
<1>6. ops = {} /\ pc = [r \in Requests |-> "idle"]
  BY DEF Init, ComputeInit, ControllerInit
<1>7. QED
  BY <1>4, <1>5, <1>6 DEF ProvisionInv, VolumesKnowTheirDisk, CreationsKnowTheirDisk,
                          OnVolumesOnly, DeletedIsGone, UnderWay, Deleted

(***************************************************************************)
(* Every step keeps all of it.                                             *)
(***************************************************************************)
LEMMA ProvisionStep ==
    ASSUME TypeOK, CallsAreQueued, CloudInv, ProvisionInv, [Next]_vars
    PROVE  ProvisionInv'
BY VolumesStep, CreationsStep, NamesStep, OnVolumesStep, DeletedStep DEF ProvisionInv

(***************************************************************************)
(* ProvisionInv holds of every cluster.                                    *)
(***************************************************************************)
LEMMA ProvisionHolds == Spec => [](TypeOK /\ CallsAreQueued /\ CloudInv /\ ProvisionInv)
<1>1. TypeOK /\ CallsAreQueued /\ CloudInv /\ ProvisionInv /\ [Next]_vars => ProvisionInv'
  BY ProvisionStep
<1>2. QED
  BY <1>1, InitProvision, CloudHolds, PTL DEF Spec

(***************************************************************************)
(* CreateVolume is idempotent (controller.go:89): calls may fail and be    *)
(* repeated, operations fail and processes die, the cloud may not even     *)
(* refuse a second disk of a name, and there is never a second one.        *)
(***************************************************************************)
THEOREM CreateIsIdempotent == Spec => []OneDiskPerName
<1>1. ProvisionInv => OneDiskPerName
  <2> SUFFICES ASSUME ProvisionInv, NEW name \in Names
               PROVE  Cardinality(Named(name)) <= 1
    BY DEF OneDiskPerName
  <2>1. CASE Named(name) = {}
    BY <2>1, FS_EmptySet
  <2>2. CASE Named(name) # {}
    <3>1. PICK d \in Named(name) : TRUE
      BY <2>2
    <3>2. Named(name) = {d}
      BY <3>1 DEF ProvisionInv, OneDiskOfAName, Named
    <3>3. Cardinality({d}) = 1
      BY FS_Singleton
    <3>4. QED
      BY <3>2, <3>3
  <2>3. QED
    BY <2>1, <2>2
<1>2. QED
  BY <1>1, ProvisionHolds, PTL

(***************************************************************************)
(* After the OK of DeleteVolume (controller.go:252-271) no disk of the     *)
(* volume is left, nor does one come back from an attempt to create it     *)
(* that was given up.                                                      *)
(***************************************************************************)
THEOREM NothingIsLeaked == Spec => []NoLeakedDisk
<1>1. ProvisionInv => NoLeakedDisk
  <2> SUFFICES ASSUME ProvisionInv, NEW name \in Names, pv[name].phase = "deleted"
               PROVE  Named(name) = {}
    BY DEF NoLeakedDisk
  <2>1. DiskOf(name, pv[name].disk) /\ ~Exists(pv[name].disk)
    BY DEF ProvisionInv, VolumesKnowTheirDisk, DeletedIsGone
  <2>2. QED
    BY <2>1 DEF DiskOf, Named
<1>2. QED
  BY <1>1, ProvisionHolds, PTL


-----------------------------------------------------------------------------
(* The truth about volumes *)

(***************************************************************************)
(* How a ControllerExpandVolume goes on (controller.go:544-621).           *)
(***************************************************************************)
ExpandTurn(r) ==
    \/ /\ pc'[r] = pc[r] /\ res'[r] = res[r]
       /\ pc[r] = "wait" => local'[r] = local[r]
    \/ pc'[r] = "idle"
    \/ pc'[r] = "answered" /\ res'[r].code = "failed" /\ UNCHANGED computeVars
    \/ pc[r] = "idle" /\ pc'[r] = "getDisk" /\ IssueExpand(r)
    \/ /\ pc[r] = "getDisk" /\ UNCHANGED <<computeVars, sidecarVars>> /\ Exists(r.disk)
       /\ \/ pc'[r] = "send" /\ disks[r.disk].size < ExtractedSize(r.range)
          \/ /\ pc'[r] = "answered" /\ ExtractedSize(r.range) <= disks[r.disk].size
             /\ res'[r] = Volume(r.disk, disks[r.disk].size, NoZone)
    \/ pc[r] = "send" /\ pc'[r] = "wait" /\ local'[r].outcome # "done"
    \/ pc[r] = "wait" /\ pc'[r] = "wait" /\ local'[r].outcome # "done"
    \/ pc[r] = "wait" /\ pc'[r] = "wait" /\ disks'[r.disk].size = ExtractedSize(r.range)
    \/ /\ pc[r] = "wait" /\ pc'[r] = "answered" /\ UNCHANGED <<computeVars, sidecarVars>>
       /\ local[r].outcome = "done" /\ RemoveVolId(r.disk)
       /\ res'[r] = Volume(r.disk, ExtractedSize(r.range), NoZone)

(***************************************************************************)
(* There is no other way.                                                  *)
(***************************************************************************)
LEMMA ExpandTurns ==
    ASSUME TypeOK, [Next]_vars, NEW r \in Requests, r.kind = "expand"
    PROVE  ExpandTurn(r)
<1>1. /\ pc \in [Requests -> Steps] /\ local \in [Requests -> Local]
      /\ res \in [Requests -> Answers] /\ disks \in [DiskIds -> Disk]
      /\ r.disk \in DiskIds /\ ExtractedSize(r.range) \in Int
  BY RequestFields DEF TypeOK, ControllerTypeOK, ComputeTypeOK
<1>2. CASE Issue(r)
  <2>1. IssueExpand(r)
    BY <1>2 DEF Issue, IssueCreate, IssueDelete, IssuePublish, IssueUnpublish,
                IssueSnapshot, CreateVolume, DeleteVolume, ControllerPublishVolume,
                ControllerUnpublishVolume, CreateSnapshot, At
  <2>2. pc[r] = "idle" /\ pc'[r] = "getDisk"
    BY <1>1, <2>1 DEF IssueExpand, ControllerExpandVolume, At, Goto
  <2>3. QED
    BY <2>1, <2>2 DEF ExpandTurn
<1>3. CASE Receive(r)
  BY <1>1, <1>3 DEF Receive, ExpandTurn
<1>4. CASE FailCall(r)
  BY <1>1, <1>4 DEF FailCall, CallFails, Reply, Failed, Empty, ExpandTurn
<1>5. CASE HandlerStep(r) /\ ~Panic(r) /\ UNCHANGED sidecarVars
  <2>1. ExpandGetDisk(r) \/ Submit(r) \/ ExpandDone(r)
    BY <1>5 DEF HandlerStep, ListDisks, CreateDisk, CreateDone, DeleteDone, PublishGetDisk,
                PublishGetInstance, PublishDone, UnpublishGetDisk, UnpublishGetInstance,
                UnpublishDone, At
  <2>2. CASE ExpandGetDisk(r)
    <3>1. pc[r] = "getDisk" /\ UNCHANGED computeVars
      BY <2>2 DEF ExpandGetDisk, At
    <3>2. CASE Reply(r, Failed)
      BY <1>1, <3>1, <3>2 DEF Reply, Failed, Empty, ExpandTurn
    <3>3. CASE /\ Exists(r.disk) /\ ExtractedSize(r.range) <= disks[r.disk].size
               /\ Reply(r, Volume(r.disk, disks[r.disk].size, NoZone))
      <4>1. pc'[r] = "answered" /\ res'[r] = Volume(r.disk, disks[r.disk].size, NoZone)
        BY <1>1, <3>3 DEF Reply
      <4>2. QED
        BY <1>5, <3>1, <3>3, <4>1 DEF ExpandTurn
    <3>4. CASE /\ Exists(r.disk) /\ ~(ExtractedSize(r.range) <= disks[r.disk].size)
               /\ Goto(r, "send")
      <4>1. pc'[r] = "send" /\ disks[r.disk].size \in Int
        BY <1>1, <3>4 DEF Goto, Disk
      <4>2. disks[r.disk].size < ExtractedSize(r.range)
        BY <1>1, <3>4, <4>1
      <4>3. QED
        BY <1>5, <3>1, <3>4, <4>1, <4>2 DEF ExpandTurn
    <3>5. QED
      BY <2>2, <3>2, <3>3, <3>4 DEF ExpandGetDisk
  <2>3. CASE Submit(r)
    <3>1. pc[r] = "send" /\ pc'[r] = "wait" /\ local'[r].outcome # "done"
      BY <1>1, <2>3 DEF Submit, Wait
    <3>2. QED
      BY <3>1 DEF ExpandTurn
  <2>4. CASE ExpandDone(r)
    <3>1. pc[r] = "wait" /\ UNCHANGED computeVars
      BY <2>4 DEF ExpandDone, At
    <3>2. CASE Reply(r, Failed)
      BY <1>1, <3>1, <3>2 DEF Reply, Failed, Empty, ExpandTurn
    <3>3. CASE /\ local[r].outcome = "done" /\ RemoveVolId(r.disk)
               /\ Reply(r, Volume(r.disk, ExtractedSize(r.range), NoZone))
      <4>1. pc'[r] = "answered" /\ res'[r] = Volume(r.disk, ExtractedSize(r.range), NoZone)
        BY <1>1, <3>3 DEF Reply
      <4>2. QED
        BY <1>5, <3>1, <3>3, <4>1 DEF ExpandTurn
    <3>4. QED
      BY <2>4, <3>2, <3>3 DEF ExpandDone
  <2>5. QED
    BY <2>1, <2>2, <2>3, <2>4
<1>6. ASSUME NEW d \in DiskIds, NEW outcome \in {Verdict(r, d), "failed"}, Settled(r, d, outcome)
      PROVE  ExpandTurn(r)
  <2>1. d = r.disk /\ pc'[r] = "wait" /\ pc[r] = "wait"
    BY <1>6 DEF Settled, Awaited, Target
  <2>2. local'[r].outcome = outcome
    BY <1>1, <1>6 DEF Settled, Local
  <2>3. CASE outcome # "done"
    BY <2>1, <2>2, <2>3 DEF ExpandTurn
  <2>4. CASE outcome = "done"
    <3>1. FinishOp(<<r, d>>) /\ Verdict(r, d) = "done"
      BY <1>6, <2>4 DEF Settled
    <3>2. disks' = [disks EXCEPT ![d] = [disks[d] EXCEPT !.size = ExtractedSize(r.range)]]
      BY <3>1 DEF FinishOp, Finish, Changed
    <3>3. disks'[r.disk].size = ExtractedSize(r.range)
      BY <1>1, <2>1, <3>2 DEF Disk
    <3>4. QED
      BY <2>1, <3>3 DEF ExpandTurn
  <2>5. QED
    BY <2>3, <2>4
<1>7. CASE Died
  <2>1. /\ pc'[r] = IF pc[r] = "answered" THEN "answered" ELSE "idle"
        /\ res'[r] = res[r]
        /\ local'[r] = NoLocal
    BY <1>7 DEF Died, Crash
  <2>2. QED
    BY <1>7, <2>1 DEF ExpandTurn
<1>8. QED
  BY <1>2, <1>3, <1>4, <1>5, <1>6, <1>7, Turns DEF ExpandTurn

(***************************************************************************)
(* The disk of a bound volume, and of one that is being created, is not    *)
(* being deleted: only a released volume is.                               *)
(***************************************************************************)
LEMMA InUseIsKept ==
    ASSUME TypeOK, CloudInv, ProvisionInv, NEW name \in Names, NEW d, DiskOf(name, d),
           pv[name].phase \in {"none", "bound"}
    PROVE  ~\E r \in Requests : r.kind = "delete" /\ r.disk = d /\ <<r, d>> \in ops
<1> SUFFICES ASSUME NEW r \in Requests, r.kind = "delete", r.disk = d, <<r, d>> \in ops
             PROVE  FALSE
  OBVIOUS
<1>1. UnderWay(r)
  BY DEF UnderWay
<1>2. PICK other \in Names : pv[other].disk = d /\ pv[other].phase \in {"released", "deleted"}
  BY <1>1 DEF ProvisionInv, OnVolumesOnly
<1>3. disks[d].name = other
  BY <1>2 DEF ProvisionInv, VolumesKnowTheirDisk, DiskOf
<1>4. other = name
  BY <1>3 DEF DiskOf
<1>5. QED
  BY <1>2, <1>4

(***************************************************************************)
(* What was true of the disk stays true; at most it becomes larger.        *)
(***************************************************************************)
LEMMA InUseLasts ==
    ASSUME TypeOK, CloudInv, ProvisionInv, [Next]_vars,
           NEW name \in Names, NEW d, DiskOf(name, d), pv[name].phase \in {"none", "bound"}
    PROVE  /\ Lasts(d) => Lasts(d)'
           /\ disks'[d].zone = disks[d].zone
           /\ disks[d].size <= disks'[d].size /\ disks[d].size \in Int /\ disks'[d].size \in Int
<1>1. d \in DiskIds /\ disks[d].state # "none"
  BY DEF DiskOf
<1>2. disks'[d].zone = disks[d].zone /\ disks[d].size <= disks'[d].size
  BY <1>1, DiskLasts
<1>3. disks[d].size \in Int /\ disks'[d].size \in Int
  BY <1>1, TypeStep DEF TypeOK, ComputeTypeOK, Disk
<1>4. ASSUME Lasts(d) PROVE Lasts(d)'
  <2>1. Exists(d) /\ ("opFails" \in Disruptions => disks[d].state = "ready")
    BY <1>4 DEF Lasts, Exists
  <2>2. Exists(d)'
    BY <1>1, <2>1, DiskGoes, InUseIsKept
  <2>3. disks[d].state = "ready" => disks'[d].state = "ready"
    BY <1>1, <2>2, DiskLasts
  <2>4. QED
    BY <2>1, <2>2, <2>3 DEF Lasts
<1>5. QED
  BY <1>2, <1>3, <1>4

(***************************************************************************)
(* CreateVolume takes its operation for done only when the disk is ready.  *)
(***************************************************************************)
LEMMA CreationEnds ==
    ASSUME TypeOK, [Next]_vars, NEW r \in Requests, r.kind = "create",
           pc'[r] = "wait", local'[r].outcome = "done"
    PROVE  /\ pc[r] = "wait"
           /\ local[r].outcome = "done" \/ disks'[local[r].disk].state = "ready"
<1>1. /\ pc \in [Requests -> Steps] /\ local \in [Requests -> Local]
      /\ disks \in [DiskIds -> Disk]
  BY DEF TypeOK, ControllerTypeOK, ComputeTypeOK
<1>2. pc[r] = "wait"
  BY CreateTurns DEF CreateTurn
<1>3. ~Issue(r) /\ ~Receive(r)
  BY <1>2 DEF Issue, IssueCreate, IssueDelete, IssuePublish, IssueUnpublish, IssueExpand,
              IssueSnapshot, CreateVolume, DeleteVolume, ControllerPublishVolume,
              ControllerUnpublishVolume, ControllerExpandVolume, CreateSnapshot, At, Receive
<1>4. ~FailCall(r) /\ ~Died
  BY <1>1, <1>2 DEF FailCall, CallFails, Reply, Died, Crash
<1>5. ~(HandlerStep(r) /\ ~Panic(r))
  BY <1>1, <1>2 DEF HandlerStep, ListDisks, CreateDisk, CreateDone, Submit, DeleteDone,
              PublishGetDisk, PublishGetInstance, PublishDone, UnpublishGetDisk, Reply,
              UnpublishGetInstance, UnpublishDone, ExpandGetDisk, ExpandDone, At
<1>6. ASSUME NEW d \in DiskIds, NEW outcome \in {Verdict(r, d), "failed"}, Settled(r, d, outcome)
      PROVE  disks'[local[r].disk].state = "ready"
  <2>1. d = local[r].disk
    BY <1>6 DEF Settled, Awaited, Target
  <2>2. outcome = "done"
    BY <1>1, <1>6 DEF Settled, Local
  <2>3. FinishOp(<<r, d>>) /\ Verdict(r, d) = "done"
    BY <1>6, <2>2 DEF Settled
  <2>4. disks' = [disks EXCEPT ![d] = [disks[d] EXCEPT !.state = "ready"]]
    BY <2>3 DEF FinishOp, Finish, Changed
  <2>5. QED
    BY <1>1, <2>1, <2>4 DEF Disk
<1>7. QED
  BY <1>2, <1>3, <1>4, <1>5, <1>6, Turns

(***************************************************************************)
(* A disk that ListDisks finds is there for good, unless creations can     *)
(* fail and one goes on unattended.                                        *)
(***************************************************************************)
LEMMA FoundLasts ==
    ASSUME TypeOK, CallsAreQueued, CloudInv,
           "opFails" \notin Disruptions \/ OpsAreAwaited,
           NEW r \in Requests, r.kind = "create", pc[r] = "list",
           NEW d \in Named(r.name)
    PROVE  Lasts(d)
<1>1. d \in DiskIds /\ Exists(d) /\ disks[d].name = r.name
  BY DEF Named
<1>2. ASSUME OpsAreAwaited, disks[d].state = "creating"
      PROVE  FALSE
  <2>1. PICK q \in Requests : q.kind = "create" /\ <<q, d>> \in ops
    BY <1>1, <1>2 DEF OpsAreAwaited
  <2>2. pc[q] = "wait" /\ q.name = r.name
    BY <1>1, <1>2, <2>1 DEF OpsAreAwaited, Awaited, CloudInv, OpsKnowTheirDisk
  <2>3. q = r
    BY <2>1, <2>2, OneCreation
  <2>4. QED
    BY <2>2, <2>3
<1>3. QED
  BY <1>1, <1>2 DEF Lasts, Exists

(***************************************************************************)
(* What a PersistentVolume and the answers on their way to it say stays    *)
(* true.                                                                   *)
(***************************************************************************)
LEMMA VolumeTruth ==
    ASSUME TypeOK, CallsAreQueued, CloudInv, ProvisionInv, TruthInv, [Next]_vars,
           NEW name \in Names, pv'[name].phase = "bound"
    PROVE  LET d == pv[name].disk IN
           (Lasts(d) /\ pv[name].zone = disks[d].zone /\ pv[name].size <= disks[d].size)'
<1>1. pv[name] \in PV /\ VolumeTurn(name)
  BY VolumeTurns DEF TypeOK
<1>2. CASE pv'[name] = pv[name]
  <2>1. PICK d : d = pv[name].disk
    OBVIOUS
  <2>2. pv[name].phase = "bound" /\ DiskOf(name, d)
    BY <1>2, <2>1 DEF ProvisionInv, VolumesKnowTheirDisk
  <2>3. Lasts(d) /\ pv[name].zone = disks[d].zone /\ pv[name].size <= disks[d].size
    BY <2>1, <2>2 DEF TruthInv
  <2>4. /\ Lasts(d)' /\ disks'[d].zone = disks[d].zone /\ disks[d].size <= disks'[d].size
        /\ disks[d].size \in Int /\ disks'[d].size \in Int
    BY <2>2, <2>3, InUseLasts
  <2>5. pv[name].size \in Int
    BY <1>1 DEF PV
  <2>6. pv'[name].disk = d /\ pv'[name].zone = disks'[d].zone /\ pv'[name].size <= disks'[d].size
    BY <1>2, <2>1, <2>3, <2>4, <2>5
  <2>7. QED
    BY <2>4, <2>6
<1>3. CASE \E r \in Requests :
              /\ r.kind = "create" /\ r.name = name /\ Receive(r)
              /\ pc[r] = "answered" /\ pc'[r] = "idle" /\ res[r].code = "ok"
              /\ pv'[name] = [phase |-> "bound", disk |-> res[r].disk,
                              size |-> res[r].size, zone |-> res[r].zone]
  <2>1. PICK r \in Requests :
              /\ r.kind = "create" /\ pc[r] = "answered" /\ res[r].code = "ok"
              /\ pv'[name].disk = res[r].disk /\ pv'[name].size = res[r].size
              /\ pv'[name].zone = res[r].zone /\ disks' = disks
    BY <1>3 DEF Receive, computeVars
  <2>2. PICK d : d = res[r].disk
    OBVIOUS
  <2>3. Lasts(d) /\ res[r].zone = disks[d].zone /\ res[r].size <= disks[d].size
    BY <2>1, <2>2 DEF TruthInv
  <2>4. Lasts(d)' /\ pv'[name].disk = d
    BY <2>1, <2>2, <2>3 DEF Lasts, Exists
  <2>5. pv'[name].zone = disks'[d].zone /\ pv'[name].size <= disks'[d].size
    BY <2>1, <2>3
  <2>6. QED
    BY <2>4, <2>5
<1>4. CASE \E r \in Requests :
              /\ r.kind = "expand" /\ r.disk = pv[name].disk /\ Receive(r)
              /\ pc[r] = "answered" /\ res[r].code = "ok"
              /\ pv'[name] = [pv[name] EXCEPT !.size = res[r].size]
  <2>1. PICK r \in Requests :
              /\ r.kind = "expand" /\ r.disk = pv[name].disk
              /\ pc[r] = "answered" /\ res[r].code = "ok" /\ disks' = disks
              /\ pv'[name] = [pv[name] EXCEPT !.size = res[r].size]
    BY <1>4 DEF Receive, computeVars
  <2>2. /\ pv'[name].phase = pv[name].phase /\ pv'[name].disk = r.disk
        /\ pv'[name].size = res[r].size /\ pv'[name].zone = pv[name].zone
    BY <1>1, <2>1 DEF PV
  <2>3. Lasts(r.disk) /\ pv[name].zone = disks[r.disk].zone /\ res[r].size <= disks[r.disk].size
    BY <2>1, <2>2 DEF TruthInv
  <2>4. Lasts(r.disk)'
    BY <2>1, <2>3 DEF Lasts, Exists
  <2>5. QED
    BY <2>1, <2>2, <2>3, <2>4
<1>5. pv'[name] # [pv[name] EXCEPT !.phase = "released"] /\ pv'[name] # [pv[name] EXCEPT !.phase = "deleted"]
  BY <1>1 DEF PV
<1>6. QED
  BY <1>1, <1>2, <1>3, <1>4, <1>5 DEF VolumeTurn

(***************************************************************************)
(* CreateVolume speaks of the disk it found, or of the one it made from    *)
(* the arguments it answers with (controller.go:191-204, 229-242).         *)
(***************************************************************************)
LEMMA CreationTruth ==
    ASSUME TypeOK, CallsAreQueued, CloudInv, ProvisionInv, TruthInv, [Next]_vars,
           "opFails" \notin Disruptions \/ OpsAreAwaited,
           NEW r \in Requests, r.kind = "create"
    PROVE  (/\ pc[r] = "wait" =>
                 LET d == local[r].disk IN
                 /\ r.zone = disks[d].zone /\ ExtractedSize(r.range) <= disks[d].size
                 /\ local[r].outcome = "done" => Lasts(d)
            /\ pc[r] = "answered" /\ res[r].code = "ok" =>
                 LET d == res[r].disk IN
                 Lasts(d) /\ res[r].zone = disks[d].zone /\ res[r].size <= disks[d].size)'
<1>1. /\ CreateTurn(r) /\ disks \in [DiskIds -> Disk]
      /\ ExtractedSize(r.range) \in Int /\ r.name \in Names
      /\ res[r] \in Answers
  BY CreateTurns, RequestFields DEF TypeOK, ComputeTypeOK, ControllerTypeOK
<1>2. ASSUME NEW d, d \in Created(r)
      PROVE  /\ Lasts(d) => Lasts(d)'
             /\ disks'[d].zone = disks[d].zone
             /\ disks[d].size <= disks'[d].size /\ disks[d].size \in Int /\ disks'[d].size \in Int
  <2>1. pc[r] # "idle"
    BY <1>2 DEF Created
  <2>2. DiskOf(r.name, d) /\ pv[r.name].phase = "none"
    BY <1>2, <2>1 DEF ProvisionInv, CreationsKnowTheirDisk
  <2>3. QED
    BY <1>1, <2>2, InUseLasts
<1>3. CASE pc[r] = "wait" /\ pc'[r] = "wait" /\ local'[r].disk = local[r].disk
  <2>1. PICK d : d = local[r].disk
    OBVIOUS
  <2>2. d \in Created(r)
    BY <1>3, <2>1 DEF Created
  <2>3. /\ r.zone = disks[d].zone /\ ExtractedSize(r.range) <= disks[d].size
        /\ local[r].outcome = "done" => Lasts(d)
    BY <1>3, <2>1 DEF TruthInv
  <2>4. r.zone = disks'[d].zone /\ ExtractedSize(r.range) <= disks'[d].size
    BY <1>1, <1>2, <2>2, <2>3
  <2>5. local'[r].outcome = "done" => Lasts(d)'
    <3>1. local'[r].outcome = "done" => local[r].outcome = "done" \/ disks'[d].state = "ready"
      BY <1>3, <2>1, CreationEnds
    <3>2. disks'[d].state = "ready" => Lasts(d)'
      BY DEF Lasts, Exists
    <3>3. QED
      BY <1>2, <2>2, <2>3, <3>1, <3>2
  <2>6. local'[r].disk = d
    BY <1>3, <2>1
  <2>7. QED
    BY <1>3, <2>4, <2>5, <2>6
<1>4. CASE pc[r] = "answered" /\ pc'[r] = "answered" /\ res'[r] = res[r] /\ res[r].code = "ok"
  <2>1. PICK d : d = res[r].disk
    OBVIOUS
  <2>2. d \in Created(r)
    BY <1>4, <2>1 DEF Created
  <2>3. Lasts(d) /\ res[r].zone = disks[d].zone /\ res[r].size <= disks[d].size
    BY <1>4, <2>1 DEF TruthInv
  <2>4. Lasts(d)' /\ res[r].zone = disks'[d].zone /\ res[r].size <= disks'[d].size
    BY <1>1, <1>2, <2>2, <2>3 DEF Answers
  <2>5. res'[r].disk = d
    BY <1>4, <2>1
  <2>6. QED
    BY <1>4, <2>4, <2>5
<1>5. CASE /\ pc[r] = "list" /\ pc'[r] = "answered" /\ UNCHANGED computeVars
           /\ \E d \in DiskIds : /\ Named(r.name) = {d} /\ SameVolume(r, disks[d])
                                 /\ res'[r] = Volume(d, disks[d].size, disks[d].zone)
  <2>1. PICK d \in DiskIds : /\ Named(r.name) = {d}
                             /\ res'[r] = Volume(d, disks[d].size, disks[d].zone)
    BY <1>5
  <2>2. Lasts(d)
    BY <1>5, <2>1, FoundLasts
  <2>3. Lasts(d)' /\ disks' = disks
    BY <1>5, <2>2 DEF Lasts, Exists, computeVars
  <2>4. disks[d].size \in Int /\ res'[r].disk = d
        /\ res'[r].size = disks[d].size /\ res'[r].zone = disks[d].zone
    BY <1>1, <2>1 DEF Volume, Disk
  <2>5. QED
    BY <1>5, <2>3, <2>4
<1>6. CASE /\ pc'[r] = "wait" /\ local'[r].outcome = "running"
           /\ Allocate(r, local'[r].disk) /\ local'[r].disk \in DiskIds
  <2>1. PICK d \in DiskIds : d = local'[r].disk
    BY <1>6
  <2>2. disks'[d].zone = r.zone /\ disks'[d].size = ExtractedSize(r.range)
    BY <1>1, <1>6, <2>1 DEF Allocate, NewDisk
  <2>3. QED
    BY <1>1, <1>6, <2>1, <2>2
<1>7. CASE /\ pc[r] = "wait" /\ pc'[r] = "answered" /\ UNCHANGED computeVars
           /\ local[r].outcome = "done"
           /\ res'[r] = Volume(local[r].disk, ExtractedSize(r.range), r.zone)
  <2>1. PICK d : d = local[r].disk
    OBVIOUS
  <2>2. Lasts(d) /\ r.zone = disks[d].zone /\ ExtractedSize(r.range) <= disks[d].size
    BY <1>7, <2>1 DEF TruthInv
  <2>3. Lasts(d)' /\ disks' = disks
    BY <1>7, <2>2 DEF Lasts, Exists, computeVars
  <2>4. res'[r].disk = d /\ res'[r].size = ExtractedSize(r.range) /\ res'[r].zone = r.zone
    BY <1>7, <2>1 DEF Volume
  <2>5. QED
    BY <1>7, <2>2, <2>3, <2>4
<1>8. QED
  BY <1>1, <1>3, <1>4, <1>5, <1>6, <1>7 DEF CreateTurn

(***************************************************************************)
(* So does ControllerExpandVolume, of the size it saw or gave to the disk  *)
(* (controller.go:590, 614).                                               *)
(***************************************************************************)
LEMMA ExpansionTruth ==
    ASSUME TypeOK, CloudInv, ProvisionInv, TruthInv, [Next]_vars,
           NEW r \in Requests, r.kind = "expand"
    PROVE  (/\ pc[r] = "wait" /\ local[r].outcome = "done" =>
                 ExtractedSize(r.range) <= disks[r.disk].size
            /\ pc[r] = "answered" /\ res[r].code = "ok" => res[r].size <= disks[r.disk].size)'
<1>1. /\ ExpandTurn(r) /\ disks \in [DiskIds -> Disk] /\ r.disk \in DiskIds
      /\ ExtractedSize(r.range) \in Int /\ res[r].size \in Int /\ disks'[r.disk].size \in Int
  BY ExpandTurns, RequestFields, TypeStep DEF TypeOK, ComputeTypeOK, ControllerTypeOK, Answers, Disk
<1>2. disks[r.disk].size \in Int
  BY <1>1 DEF Disk
<1>3. ASSUME pc[r] # "idle" PROVE disks[r.disk].size <= disks'[r.disk].size
  <2>1. PICK name \in Names : pv[name].disk = r.disk
    BY <1>3 DEF ProvisionInv, OnVolumesOnly, UnderWay
  <2>2. r.disk # NoDisk
    BY <1>1, ComputeAssumption DEF ComputeAssumption
  <2>3. disks[r.disk].state # "none"
    BY <2>1, <2>2 DEF ProvisionInv, VolumesKnowTheirDisk, DiskOf
  <2>4. QED
    BY <1>1, <2>3, DiskLasts
<1>4. CASE /\ pc'[r] = pc[r] /\ res'[r] = res[r]
           /\ pc[r] = "wait" => local'[r] = local[r]
  <2>1. /\ pc[r] = "wait" /\ local[r].outcome = "done" => ExtractedSize(r.range) <= disks[r.disk].size
        /\ pc[r] = "answered" /\ res[r].code = "ok" => res[r].size <= disks[r.disk].size
    BY DEF TruthInv
  <2>2. QED
    BY <1>1, <1>2, <1>3, <1>4, <2>1
<1>5. CASE UNCHANGED computeVars /\ pc'[r] = "answered"
           /\ res'[r] = Volume(r.disk, disks[r.disk].size, NoZone)
  <2>1. disks' = disks /\ res'[r].size = disks[r.disk].size
    BY <1>5 DEF computeVars, Volume
  <2>2. QED
    BY <1>2, <1>5, <2>1
<1>6. CASE pc'[r] = "wait" /\ disks'[r.disk].size = ExtractedSize(r.range)
  BY <1>1, <1>6
<1>7. CASE /\ pc[r] = "wait" /\ pc'[r] = "answered" /\ UNCHANGED computeVars
           /\ local[r].outcome = "done"
           /\ res'[r] = Volume(r.disk, ExtractedSize(r.range), NoZone)
  <2>1. ExtractedSize(r.range) <= disks[r.disk].size
    BY <1>7 DEF TruthInv
  <2>2. disks' = disks /\ res'[r].size = ExtractedSize(r.range)
    BY <1>7 DEF computeVars, Volume
  <2>3. QED
    BY <1>7, <2>1, <2>2
<1>8. QED
  BY <1>1, <1>4, <1>5, <1>6, <1>7 DEF ExpandTurn

(***************************************************************************)
(* Every step keeps the truth.                                             *)
(***************************************************************************)
LEMMA TruthStep ==
    ASSUME TypeOK, CallsAreQueued, CloudInv, ProvisionInv, TruthInv, [Next]_vars,
           "opFails" \notin Disruptions \/ OpsAreAwaited
    PROVE  TruthInv'
<1>1. ASSUME NEW name \in Names, pv'[name].phase = "bound"
      PROVE  LET d == pv[name].disk IN
             (Lasts(d) /\ pv[name].zone = disks[d].zone /\ pv[name].size <= disks[d].size)'
  BY <1>1, VolumeTruth
<1>2. ASSUME NEW r \in Requests, r.kind = "create"
      PROVE  (/\ pc[r] = "wait" =>
                   LET d == local[r].disk IN
                   /\ r.zone = disks[d].zone /\ ExtractedSize(r.range) <= disks[d].size
                   /\ local[r].outcome = "done" => Lasts(d)
              /\ pc[r] = "answered" /\ res[r].code = "ok" =>
                   LET d == res[r].disk IN
                   Lasts(d) /\ res[r].zone = disks[d].zone /\ res[r].size <= disks[d].size)'
  BY <1>2, CreationTruth
<1>3. ASSUME NEW r \in Requests, r.kind = "expand"
      PROVE  (/\ pc[r] = "wait" /\ local[r].outcome = "done" =>
                   ExtractedSize(r.range) <= disks[r.disk].size
              /\ pc[r] = "answered" /\ res[r].code = "ok" => res[r].size <= disks[r.disk].size)'
  BY <1>3, ExpansionTruth
<1>4. QED
  BY <1>1, <1>2, <1>3 DEF TruthInv

(***************************************************************************)
(* The volumes of the start are recorded as they are.                      *)
(***************************************************************************)
LEMMA InitTruth == Init => TruthInv
<1> SUFFICES ASSUME Init PROVE TruthInv
  OBVIOUS
<1>1. /\ InitialVolumes \subseteq
            [disk : DiskIds, name : Names, size : Nat, blockSize : Nat, zone : Zones]
      /\ \A v, w \in InitialVolumes : v.disk = w.disk \/ v.name = w.name => v = w
  BY ComputeAssumption DEF ComputeAssumption
<1>2. ASSUME NEW name \in Names, pv[name].phase = "bound"
      PROVE  LET d == pv[name].disk IN
             Lasts(d) /\ pv[name].zone = disks[d].zone /\ pv[name].size <= disks[d].size
  <2>1. PICK v \in InitialVolumes : v.name = name
    BY <1>2 DEF Init
  <2>2. v.disk \in DiskIds /\ v.size \in Nat
    BY <1>1
  <2>3. (CHOOSE w \in InitialVolumes : w.disk = v.disk) = v
    BY <1>1
  <2>4. (CHOOSE w \in InitialVolumes : w.name = name) = v
    BY <1>1, <2>1
  <2>5. disks[v.disk] = NewDisk("ready", v.name, v.size, v.blockSize, v.zone)
    BY <2>2, <2>3 DEF Init, ComputeInit
  <2>6. pv[name] = [phase |-> "bound", disk |-> v.disk, size |-> v.size, zone |-> v.zone]
    BY <2>1, <2>4 DEF Init
  <2>7. /\ disks[v.disk].state = "ready" /\ disks[v.disk].zone = v.zone
        /\ disks[v.disk].size = v.size /\ pv[name].disk = v.disk
        /\ pv[name].zone = v.zone /\ pv[name].size = v.size
    BY <2>5, <2>6 DEF NewDisk
  <2>8. QED
    BY <2>2, <2>7 DEF Lasts, Exists
<1>3. pc = [r \in Requests |-> "idle"]
  BY DEF Init, ControllerInit
<1>4. QED
  BY <1>2, <1>3 DEF TruthInv

(***************************************************************************)
(* A bound PersistentVolume tells the truth about its disk, if the cloud   *)
(* does not drop a disk it has begun to create, or if no call is given up. *)
(* Where both happen CreateVolume answers with a disk that ListDisks shows *)
(* and that then vanishes (controller.go:174-204).                         *)
(***************************************************************************)
THEOREM VolumesTellTheTruth ==
    ASSUME "opFails" \notin Disruptions \/ Patient
    PROVE  Spec => []PVTruthful
<1>1. ProvisionInv /\ TruthInv => PVTruthful
  <2> SUFFICES ASSUME ProvisionInv, TruthInv, NEW name \in Names, pv[name].phase = "bound"
               PROVE  LET disk == disks[pv[name].disk] IN
                      /\ Exists(pv[name].disk)
                      /\ disk.name = name
                      /\ disk.zone = pv[name].zone
                      /\ pv[name].size <= disk.size
    BY DEF PVTruthful
  <2>1. disks[pv[name].disk].name = name
    BY DEF ProvisionInv, VolumesKnowTheirDisk, DiskOf
  <2>2. QED
    BY <2>1 DEF TruthInv, Lasts, Exists
<1>2. CASE "opFails" \notin Disruptions
  <2>1. TypeOK /\ CallsAreQueued /\ CloudInv /\ ProvisionInv /\ TruthInv
          /\ [Next]_vars => TruthInv'
    BY <1>2, TruthStep
  <2>2. QED
    BY <1>1, <2>1, InitTruth, ProvisionHolds, PTL DEF Spec
<1>3. CASE Patient
  <2>1. Spec => []OpsAreAwaited
    BY <1>3, AwaitedHolds, PTL
  <2>2. TypeOK /\ CallsAreQueued /\ CloudInv /\ ProvisionInv /\ OpsAreAwaited /\ TruthInv
          /\ [Next]_vars => TruthInv'
    BY TruthStep
  <2>3. QED
    BY <1>1, <2>1, <2>2, InitTruth, ProvisionHolds, PTL DEF Spec
<1>4. QED
  BY <1>2, <1>3

-----------------------------------------------------------------------------
(* What was asked for *)

(***************************************************************************)
(* Only a resize gives a disk another size.                                *)
(***************************************************************************)
LEMMA SizeChanges ==
    ASSUME TypeOK, CloudInv, [Next]_vars, NEW d \in DiskIds, disks[d].state # "none",
           disks'[d].size # disks[d].size
    PROVE  \/ "panel" \in Disruptions
           \/ \E r \in Requests : r.kind = "expand" /\ r.disk = d /\ <<r, d>> \in ops
<1>1. DiskStep(d) /\ disks[d] \in Disk
  BY DiskSteps DEF TypeOK, ComputeTypeOK
<1>2. /\ [disks[d] EXCEPT !.state = "ready"].size = disks[d].size
      /\ [disks[d] EXCEPT !.state = "gone"].size = disks[d].size
      /\ [disks[d] EXCEPT !.at = disks'[d].at].size = disks[d].size
  BY <1>1 DEF Disk
<1>3. QED
  BY <1>1, <1>2 DEF DiskStep

(***************************************************************************)
(* A volume that is still being created is not resized: the resizer works  *)
(* on volumes.                                                             *)
(***************************************************************************)
LEMMA CreatedKeepsItsSize ==
    ASSUME "panel" \notin Disruptions, TypeOK, CloudInv, ProvisionInv, [Next]_vars,
           NEW name \in Names, pv[name].phase = "none", NEW d, DiskOf(name, d)
    PROVE  disks'[d].size = disks[d].size
<1>1. d \in DiskIds /\ disks[d].state # "none" /\ disks[d].name = name
  BY DEF DiskOf
<1>2. ASSUME NEW r \in Requests, r.kind = "expand", r.disk = d, <<r, d>> \in ops
      PROVE  FALSE
  <2>1. PICK other \in Names : pv[other].disk = d
    BY <1>2 DEF ProvisionInv, OnVolumesOnly, UnderWay
  <2>2. d # NoDisk
    BY <1>1, ComputeAssumption DEF ComputeAssumption
  <2>3. other = name
    BY <1>1, <2>1, <2>2 DEF ProvisionInv, VolumesKnowTheirDisk, DiskOf
  <2>4. QED
    BY <2>1, <2>2, <2>3 DEF ProvisionInv, VolumesKnowTheirDisk
<1>3. QED
  BY <1>1, <1>2, SizeChanges

(***************************************************************************)
(* A disk is created as it was asked for (controller.go:206-222).          *)
(***************************************************************************)
LEMMA AllocatedIsSame ==
    ASSUME TypeOK, NEW r \in Requests, r.kind = "create", CreateAccepted(r),
           NEW d \in DiskIds, Allocate(r, d)
    PROVE  SameVolume(r, disks[d])'
<1>1. BlockSizeOf(r.blockSize) # 0
  <2>1. /\ r.blockSize \in RawBlockSize /\ BlockSizeOf(r.blockSize) \in Int
        /\ BlockSizeValid(r.blockSize)
    BY RequestsAssumption, RequestFields DEF RequestsAssumption, CreateAccepted
  <2>2. /\ MinimumBlockSize \in Nat /\ MinimumBlockSize # 0
        /\ DefaultBlockSize \in Int /\ MinimumBlockSize <= DefaultBlockSize
    BY SizingAssumption DEF SizingAssumption
  <2>3. MinimumBlockSize <= BlockSizeOf(r.blockSize)
    BY <2>1, <2>2 DEF BlockSizeValid, BlockSizeAccepted, BlockSizeOf
  <2>4. QED
    BY <2>1, <2>2, <2>3
<1>2. disks' = [disks EXCEPT ![d] = NewDisk("creating", r.name, ExtractedSize(r.range),
                                             BlockSizeOf(r.blockSize), r.zone)]
  BY DEF Allocate
<1>3. disks \in [DiskIds -> Disk]
  BY DEF TypeOK, ComputeTypeOK
<1>4. disks'[d].size = ExtractedSize(r.range) /\ disks'[d].blockSize = BlockSizeOf(r.blockSize)
  BY <1>2, <1>3 DEF NewDisk
<1>5. QED
  BY <1>1, <1>4 DEF SameVolume, EffectiveBlockSize

(***************************************************************************)
(* The disk of a CreateVolume stays the one it asked for.                  *)
(***************************************************************************)
LEMMA RequestStep ==
    ASSUME "panel" \notin Disruptions, TypeOK, CallsAreQueued, CloudInv, ProvisionInv,
           RequestInv, [Next]_vars
    PROVE  RequestInv'
<1> SUFFICES ASSUME NEW r \in Requests, r.kind = "create"
             PROVE  /\ (pc[r] \notin {"idle", "answered"} \/ Succeeds(r))' => CreateAccepted(r)
                    /\ \A d \in Created(r)' : SameVolume(r, disks[d])'
  BY DEF RequestInv
<1>1. CreateTurn(r) /\ r.name \in Names
  BY CreateTurns, RequestFields
<1>2. /\ pc[r] \notin {"idle", "answered"} \/ Succeeds(r) => CreateAccepted(r)
      /\ \A d \in Created(r) : SameVolume(r, disks[d])
  BY DEF RequestInv
<1>3. (pc[r] \notin {"idle", "answered"} \/ Succeeds(r))' => CreateAccepted(r)
  BY <1>1, <1>2 DEF CreateTurn, Succeeds
<1>4. ASSUME NEW d, d \in Created(r)
      PROVE  SameVolume(r, disks[d])'
  <2>1. DiskOf(r.name, d) /\ pv[r.name].phase = "none"
    BY <1>4 DEF ProvisionInv, CreationsKnowTheirDisk, Created
  <2>2. disks'[d].size = disks[d].size
    BY <1>1, <2>1, CreatedKeepsItsSize
  <2>3. disks'[d].blockSize = disks[d].blockSize
    BY <2>1, DiskLasts DEF DiskOf
  <2>4. SameVolume(r, disks[d])
    BY <1>2, <1>4
  <2>5. QED
    BY <2>2, <2>3, <2>4 DEF SameVolume, EffectiveBlockSize
<1>5. ASSUME NEW d \in Created(r)', d \notin Created(r)
      PROVE  SameVolume(r, disks[d])'
  <2>1. CASE /\ pc[r] = "list" /\ UNCHANGED computeVars /\ pc'[r] = "answered"
             /\ \E e \in DiskIds : /\ Named(r.name) = {e} /\ SameVolume(r, disks[e])
                                   /\ res'[r] = Volume(e, disks[e].size, disks[e].zone)
    <3>1. PICK e \in DiskIds : /\ SameVolume(r, disks[e])
                               /\ res'[r] = Volume(e, disks[e].size, disks[e].zone)
      BY <2>1
    <3>2. d = e /\ disks' = disks
      BY <1>5, <2>1, <3>1 DEF Created, Volume, computeVars
    <3>3. QED
      BY <3>1, <3>2 DEF SameVolume, EffectiveBlockSize
  <2>2. CASE /\ pc[r] = "send" /\ pc'[r] = "wait"
             /\ Allocate(r, local'[r].disk) /\ local'[r].disk \in DiskIds
    <3>1. d = local'[r].disk /\ CreateAccepted(r)
      BY <1>2, <1>5, <2>2 DEF Created
    <3>2. d \in DiskIds /\ Allocate(r, d)
      BY <2>2, <3>1
    <3>3. QED
      BY <3>1, <3>2, AllocatedIsSame
  <2>3. QED
    BY <1>1, <1>5, <2>1, <2>2 DEF CreateTurn, Created, Volume
<1>6. QED
  BY <1>3, <1>4, <1>5

(***************************************************************************)
(* An OK of CreateVolume is for what was asked for, whoever created the    *)
(* disk (controller.go:174-188), as long as nobody else makes disks        *)
(* larger: then a disk can outgrow the range between two steps.            *)
(***************************************************************************)
THEOREM CreateGivesWhatWasAsked ==
    ASSUME "panel" \notin Disruptions
    PROVE  Spec => []CreateAnswersRequest
<1>1. "panel" \notin Disruptions
  OBVIOUS
<1>2. Init => RequestInv
  BY DEF Init, ControllerInit, RequestInv, Succeeds, Created
<1>3. TypeOK /\ CallsAreQueued /\ CloudInv /\ ProvisionInv /\ RequestInv /\ [Next]_vars
         => RequestInv'
  BY <1>1, RequestStep
<1>4. RequestInv => CreateAnswersRequest
  <2> SUFFICES ASSUME RequestInv, NEW r \in Requests, r.kind = "create", pc[r] = "answered",
                      res[r].code = "ok"
               PROVE  LET disk == disks[res[r].disk] IN
                      /\ EffectiveBlockSize(disk) = BlockSizeOf(r.blockSize)
                      /\ RequiredSet(r.range) => r.range.required <= disk.size
                      /\ LimitSet(r.range) => disk.size <= r.range.limit
    BY DEF CreateAnswersRequest
  <2>1. CreateAccepted(r) /\ SameVolume(r, disks[res[r].disk])
    BY DEF RequestInv, Succeeds, Created
  <2>2. r.range \in CapacityRange
    BY RequestsAssumption DEF RequestsAssumption
  <2>3. r.range.required \in Int /\ r.range.limit \in Int
    BY <2>2 DEF CapacityRange
  <2>4. /\ RequiredSet(r.range) => r.range.required <= ExtractedSize(r.range)
        /\ LimitSet(r.range) => ExtractedSize(r.range) <= r.range.limit
    BY <2>1, <2>3 DEF CreateAccepted, RangeAccepted, ExtractedSize
  <2>5. QED
    BY <2>1, <2>4 DEF SameVolume
<1>5. QED
  BY <1>2, <1>3, <1>4, ProvisionHolds, PTL DEF Spec

-----------------------------------------------------------------------------
(* The markers *)

(***************************************************************************)
(* One ControllerExpandVolume at a time for a disk.                        *)
(***************************************************************************)
LEMMA OneExpansion ==
    ASSUME CallsAreQueued, NEW r \in Requests, NEW q \in Requests,
           r.kind = "expand", q.kind = "expand", r.disk = q.disk,
           pc[r] # "idle", pc[q] # "idle"
    PROVE  r = q
BY DEF CallsAreQueued, SameSubject, SameQueue, OnDisk

(***************************************************************************)
(* As long as no call is given up, what has succeeded is answered OK and   *)
(* taken.                                                                  *)
(***************************************************************************)
LEMMA SuccessIsTaken ==
    ASSUME Patient, TypeOK, [Next]_vars, NEW r \in Requests, r.kind = "expand", Succeeds(r)
    PROVE  \/ Succeeds(r)'
           \/ Receive(r) /\ pc[r] = "answered" /\ res[r].code = "ok"
<1>1. /\ pc \in [Requests -> Steps] /\ local \in [Requests -> Local]
      /\ res \in [Requests -> Answers]
  BY DEF TypeOK, ControllerTypeOK
<1>2. ~Issue(r)
  BY DEF Succeeds, Issue, IssueCreate, IssueDelete, IssuePublish, IssueUnpublish, IssueExpand,
         IssueSnapshot, CreateVolume, DeleteVolume, ControllerPublishVolume,
         ControllerUnpublishVolume, ControllerExpandVolume, CreateSnapshot, At
<1>3. ~FailCall(r) /\ ~Died
  BY DEF Patient, FailCall, Disrupt, Died
<1>4. ASSUME NEW d \in DiskIds, NEW outcome, Settled(r, d, outcome)
      PROVE  FALSE
  BY <1>4 DEF Settled, Awaited, Succeeds
<1>5. CASE HandlerStep(r) /\ ~Panic(r)
  <2>1. ExpandDone(r) /\ local[r].outcome = "done"
    BY <1>5 DEF Succeeds, HandlerStep, ListDisks, CreateDisk, CreateDone, Submit, DeleteDone,
                PublishGetDisk, PublishGetInstance, PublishDone, UnpublishGetDisk,
                UnpublishGetInstance, UnpublishDone, ExpandGetDisk, ExpandDone, At
  <2>2. Reply(r, Volume(r.disk, ExtractedSize(r.range), NoZone))
    BY <2>1 DEF ExpandDone
  <2>3. pc'[r] = "answered" /\ res'[r].code = "ok"
    BY <1>1, <2>2 DEF Reply, Volume
  <2>4. QED
    BY <2>3 DEF Succeeds
<1>6. CASE Receive(r)
  BY <1>6 DEF Receive, Succeeds
<1>7. QED
  BY <1>2, <1>3, <1>4, <1>5, <1>6, Turns DEF Succeeds

(***************************************************************************)
(* The size of a disk changes when its ControllerExpandVolume is told so.  *)
(***************************************************************************)
LEMMA ResizeIsAwaited ==
    ASSUME "panel" \notin Disruptions, TypeOK, CloudInv, OpsAreAwaited, [Next]_vars,
           NEW d \in DiskIds, disks[d].state # "none", disks'[d].size # disks[d].size
    PROVE  \E r \in Requests :
              /\ r.kind = "expand" /\ r.disk = d /\ Succeeds(r)'
              /\ pc[r] = "wait" /\ local[r].outcome = "running"
<1>1. disks \in [DiskIds -> Disk] /\ pc \in [Requests -> Steps] /\ local \in [Requests -> Local]
  BY DEF TypeOK, ComputeTypeOK, ControllerTypeOK
<1>2. CASE \E r \in Requests, e \in DiskIds : Allocate(r, e)
  BY <1>1, <1>2 DEF Allocate
<1>3. CASE \E n \in Nodes : StopInstance(n) \/ StartInstance(n) \/ DeleteInstance(n)
  BY <1>1, <1>3 DEF StopInstance, StartInstance, DeleteInstance, Disk
<1>4. CASE \E r \in Requests, e \in DiskIds :
              /\ <<r, e>> \in ops
              /\ \/ /\ FinishOp(<<r, e>>)
                    /\ disks' = IF Verdict(r, e) = "done"
                                THEN [disks EXCEPT ![e] = Changed(r, @)] ELSE disks
                 \/ disks' = IF r.kind = "create"
                             THEN [disks EXCEPT ![e].state = "gone"] ELSE disks
  <2>1. PICK r \in Requests, e \in DiskIds :
              /\ <<r, e>> \in ops
              /\ \/ /\ FinishOp(<<r, e>>)
                    /\ disks' = IF Verdict(r, e) = "done"
                                THEN [disks EXCEPT ![e] = Changed(r, @)] ELSE disks
                 \/ disks' = IF r.kind = "create"
                             THEN [disks EXCEPT ![e].state = "gone"] ELSE disks
    BY <1>4
  <2>2. disks[e] \in Disk /\ r.kind \in Kinds
    BY <1>1, RequestFields
  <2>3. [disks[e] EXCEPT !.state = "gone"].size = disks[e].size
    BY <2>2 DEF Disk
  <2>4. r.kind # "expand" => Changed(r, disks[e]).size = disks[e].size
    BY <2>2 DEF Changed, Disk, Kinds
  <2>5. d = e
    BY <1>1, <2>1
  <2>6. r.kind = "expand" /\ FinishOp(<<r, d>>) /\ Verdict(r, d) = "done"
    BY <1>1, <2>1, <2>3, <2>4, <2>5
  <2>7. r.disk = d /\ pc[r] = "wait" /\ local[r].outcome = "running" /\ Awaited(<<r, d>>)
    BY <2>1, <2>5, <2>6 DEF OpsAreAwaited, Awaited, Target
  <2>8. pc' = pc /\ local' = [local EXCEPT ![r].outcome = "done"]
    BY <2>6, <2>7 DEF FinishOp, Settle
  <2>9. pc'[r] = "wait" /\ local'[r].outcome = "done"
    BY <1>1, <2>7, <2>8 DEF Local
  <2>10. QED
    BY <2>6, <2>7, <2>9 DEF Succeeds
<1>5. QED
  BY <1>2, <1>3, <1>4, CloudMoves DEF computeVars

(***************************************************************************)
(* A disk is marked by its ControllerExpandVolume only (controller.go:601).*)
(***************************************************************************)
LEMMA WhoMarks ==
    ASSUME TypeOK, [Next]_vars, NEW d \in resizeLocks', d \notin resizeLocks
    PROVE  \E r \in Requests :
              r.kind = "expand" /\ r.disk = d /\ pc[r] = "wait" /\ UNCHANGED sidecarVars
<1>1. ASSUME NEW r \in Requests, Handle(r)
      PROVE  \E q \in Requests :
                q.kind = "expand" /\ q.disk = d /\ pc[q] = "wait" /\ UNCHANGED sidecarVars
  <2>1. ExpandDone(r)
    BY <1>1 DEF Handle, HandlerStep, ListDisks, CreateDisk, CreateDone, Submit, DeleteDone,
                PublishGetDisk, PublishGetInstance, PublishDone, UnpublishGetDisk,
                UnpublishGetInstance, UnpublishDone, ExpandGetDisk, Panic, Crash
  <2>2. QED
    BY <1>1, <2>1 DEF ExpandDone, At, PutVolId, RemoveVolId, Handle
<1>2. ~\E r \in Requests : Issue(r) \/ Receive(r) \/ FailCall(r)
  BY DEF Issue, IssueCreate, IssueDelete, IssuePublish, IssueUnpublish, IssueExpand,
         IssueSnapshot, CreateVolume, DeleteVolume, ControllerPublishVolume, CreateSnapshot,
         ControllerUnpublishVolume, ControllerExpandVolume, Receive, FailCall, CallFails
<1>3. ~\E o \in Requests \X DiskIds : Work(o) \/ FailOp(o)
  BY DEF Work, FailOp, FinishOp, BreakOp, Settle
<1>4. ~Restart /\ ~(\E e \in DiskIds : ResizeByHand(e)) /\ ~\E n \in Nodes : DisruptInstance(n)
  BY DEF Restart, Crash, ResizeByHand, DisruptInstance, controllerVars
<1>5. QED
  BY <1>1, <1>2, <1>3, <1>4 DEF Next, vars, controllerVars

(***************************************************************************)
(* A resize ceases to be owed when it is answered OK.                      *)
(***************************************************************************)
LEMMA WhoSettles ==
    ASSUME TypeOK, [Next]_vars, NEW d \in owed, d \notin owed'
    PROVE  \E r \in Requests :
              /\ r.kind = "expand" /\ r.disk = d /\ pc[r] = "answered" /\ pc'[r] = "idle"
              /\ res[r].code = "ok" /\ UNCHANGED resizeLocks
<1>1. ASSUME NEW r \in Requests, Receive(r)
      PROVE  \E q \in Requests :
                /\ q.kind = "expand" /\ q.disk = d /\ pc[q] = "answered" /\ pc'[q] = "idle"
                /\ res[q].code = "ok" /\ UNCHANGED resizeLocks
  BY <1>1 DEF Receive, sidecarVars, TypeOK, ControllerTypeOK
<1>2. ~\E r \in Requests : Issue(r)
  BY DEF Issue, IssueCreate, IssueDelete, IssuePublish, IssueUnpublish, IssueExpand,
         IssueSnapshot, sidecarVars
<1>3. QED
  BY <1>1, <1>2 DEF Next, Handle, FailCall, Work, FailOp, Restart, ResizeByHand,
                    DisruptInstance, Disrupt, vars, sidecarVars

(***************************************************************************)
(* The disk under a resize keeps its size unless that resize is running.   *)
(***************************************************************************)
LEMMA ExpandedKeepsItsSize ==
    ASSUME "panel" \notin Disruptions, TypeOK, CallsAreQueued, CloudInv, ProvisionInv,
           OpsAreAwaited, [Next]_vars, NEW r \in Requests, r.kind = "expand",
           pc[r] # "idle", ~(pc[r] = "wait" /\ local[r].outcome = "running")
    PROVE  disks'[r.disk].size = disks[r.disk].size
<1>1. PICK name \in Names : pv[name].disk = r.disk
  BY DEF ProvisionInv, OnVolumesOnly, UnderWay
<1>2. r.disk \in DiskIds /\ r.disk # NoDisk
  BY RequestFields, ComputeAssumption DEF ComputeAssumption
<1>3. disks[r.disk].state # "none"
  BY <1>1, <1>2 DEF ProvisionInv, VolumesKnowTheirDisk, DiskOf
<1>4. ASSUME disks'[r.disk].size # disks[r.disk].size
      PROVE  FALSE
  <2>1. PICK q \in Requests : /\ q.kind = "expand" /\ q.disk = r.disk
                              /\ pc[q] = "wait" /\ local[q].outcome = "running"
    BY <1>2, <1>3, <1>4, ResizeIsAwaited
  <2>2. q = r
    BY <2>1, OneExpansion
  <2>3. QED
    BY <2>1, <2>2
<1>5. QED
  BY <1>4

(***************************************************************************)
(* The recorded sizes follow the disks.                                    *)
(***************************************************************************)
LEMMA RecordedSizes ==
    ASSUME Patient, "panel" \notin Disruptions, TypeOK, CallsAreQueued, CloudInv,
           ProvisionInv, OpsAreAwaited, MarkerInv, [Next]_vars
    PROVE  SizesAreRecorded'
<1> SUFFICES ASSUME NEW name \in Names, pv'[name].phase # "none"
             PROVE  (pv[name].size = disks[pv[name].disk].size \/ Resized(pv[name].disk))'
  BY DEF SizesAreRecorded
<1>1. pv \in [Names -> PV] /\ VolumeTurn(name)
  BY VolumeTurns DEF TypeOK
<1>2. pv[name] \in PV
  BY <1>1
<1>3. CASE \E r \in Requests :
              /\ r.kind = "create" /\ Receive(r) /\ pc[r] = "answered" /\ res[r].code = "ok"
              /\ pv'[name] = [phase |-> "bound", disk |-> res[r].disk,
                              size |-> res[r].size, zone |-> res[r].zone]
  <2>1. PICK r \in Requests :
              /\ r.kind = "create" /\ Receive(r) /\ pc[r] = "answered" /\ res[r].code = "ok"
              /\ pv'[name] = [phase |-> "bound", disk |-> res[r].disk,
                              size |-> res[r].size, zone |-> res[r].zone]
    BY <1>3
  <2>2. res[r].size = disks[res[r].disk].size /\ disks' = disks
    BY <2>1 DEF MarkerInv, CreationsAreExact, Receive, computeVars
  <2>3. pv'[name].disk = res[r].disk /\ pv'[name].size = res[r].size
    BY <2>1
  <2>4. QED
    BY <2>2, <2>3
<1>4. ASSUME NEW r \in Requests, r.kind = "expand", r.disk = pv[name].disk, Receive(r),
             pc[r] = "answered", res[r].code = "ok"
      PROVE  pv'[name].size = disks'[pv'[name].disk].size
  <2>1. res[r].size = disks[r.disk].size /\ disks' = disks
    BY <1>4 DEF MarkerInv, ExpansionsAreOwed, Receive, computeVars
  <2>2. pv' = Recorded(r, res[r])
    BY <1>4 DEF Receive
  <2>3. pv'[name] = [pv[name] EXCEPT !.size = res[r].size]
    BY <1>1, <1>4, <2>2 DEF Recorded
  <2>4. pv'[name].disk = r.disk /\ pv'[name].size = res[r].size
    BY <1>2, <1>4, <2>3 DEF PV
  <2>5. QED
    BY <2>1, <2>4
<1>5. CASE /\ pv'[name].disk = pv[name].disk /\ pv'[name].size = pv[name].size
           /\ pv[name].phase # "none"
  <2>1. PICK d : d = pv[name].disk
    OBVIOUS
  <2>2. d \in DiskIds /\ disks[d].state # "none"
    BY <1>5, <2>1 DEF ProvisionInv, VolumesKnowTheirDisk, DiskOf
  <2>3. pv'[name].disk = d
    BY <1>5, <2>1
  <2>4. CASE Resized(d)
    <3>1. PICK r \in Requests : r.kind = "expand" /\ r.disk = d /\ Succeeds(r)
      BY <2>4 DEF Resized
    <3>2. CASE Succeeds(r)'
      BY <2>3, <3>1, <3>2 DEF Resized
    <3>3. CASE Receive(r) /\ pc[r] = "answered" /\ res[r].code = "ok"
      BY <1>4, <2>1, <3>1, <3>3
    <3>4. QED
      BY <3>1, <3>2, <3>3, SuccessIsTaken
  <2>5. CASE pv[name].size = disks[d].size
    <3>1. CASE disks'[d].size = disks[d].size
      BY <1>5, <2>3, <2>5, <3>1
    <3>2. CASE disks'[d].size # disks[d].size
      BY <2>2, <2>3, <3>2, ResizeIsAwaited DEF Resized
    <3>3. QED
      BY <3>1, <3>2
  <2>6. QED
    BY <1>5, <2>1, <2>4, <2>5 DEF MarkerInv, SizesAreRecorded
<1>6. CASE pv'[name] = pv[name]
  BY <1>5, <1>6
<1>7. CASE pv[name].phase \in {"bound", "released"} /\ pv'[name] = [pv[name] EXCEPT !.phase = "released"]
  BY <1>2, <1>5, <1>7 DEF PV
<1>8. CASE \E r \in Requests : /\ r.kind = "delete" /\ r.disk = pv[name].disk
                               /\ pv'[name] = [pv[name] EXCEPT !.phase = "deleted"]
  <2>1. pv[name].phase # "none"
    BY <1>8, RequestFields, ComputeAssumption
       DEF ComputeAssumption, ProvisionInv, VolumesKnowTheirDisk
  <2>2. QED
    BY <1>2, <1>5, <1>8, <2>1 DEF PV
<1>9. QED
  BY <1>1, <1>3, <1>4, <1>6, <1>7, <1>8 DEF VolumeTurn

(***************************************************************************)
(* The size CreateVolume answers is the one of the disk.                   *)
(***************************************************************************)
LEMMA CreatedSizes ==
    ASSUME "panel" \notin Disruptions, TypeOK, CallsAreQueued, CloudInv,
           ProvisionInv, RequestInv, MarkerInv, [Next]_vars
    PROVE  CreationsAreExact'
<1> SUFFICES ASSUME NEW r \in Requests, r.kind = "create", pc'[r] = "answered", res'[r].code = "ok"
             PROVE  (res[r].size = disks[res[r].disk].size)'
  BY DEF CreationsAreExact
<1>1. CreateTurn(r) /\ r.name \in Names
  BY CreateTurns, RequestFields
<1>2. CASE pc[r] = "answered" /\ res'[r] = res[r]
  <2>1. PICK d : d = res[r].disk
    OBVIOUS
  <2>2. DiskOf(r.name, d) /\ pv[r.name].phase = "none"
    BY <1>2, <2>1 DEF ProvisionInv, CreationsKnowTheirDisk, Created
  <2>3. disks'[d].size = disks[d].size
    BY <1>1, <2>2, CreatedKeepsItsSize
  <2>4. res[r].size = disks[d].size
    BY <1>2, <2>1 DEF MarkerInv, CreationsAreExact
  <2>5. QED
    BY <1>2, <2>1, <2>3, <2>4
<1>3. CASE /\ UNCHANGED computeVars
           /\ \E d \in DiskIds : res'[r] = Volume(d, disks[d].size, disks[d].zone)
  BY <1>3 DEF computeVars, Volume
<1>4. CASE /\ pc[r] = "wait" /\ UNCHANGED computeVars
           /\ res'[r] = Volume(local[r].disk, ExtractedSize(r.range), r.zone)
  <2>1. SameVolume(r, disks[local[r].disk])
    BY <1>4 DEF RequestInv, Created
  <2>2. QED
    BY <1>4, <2>1 DEF SameVolume, Volume, computeVars
<1>5. QED
  BY <1>1, <1>2, <1>3, <1>4 DEF CreateTurn

(***************************************************************************)
(* A repeated ControllerExpandVolume finds the disk still too small, so it *)
(* resizes it and takes the marker away (controller.go:590-606).           *)
(***************************************************************************)
LEMMA ExpansionsStep ==
    ASSUME Patient, "panel" \notin Disruptions, TypeOK, CallsAreQueued, CloudInv,
           ProvisionInv, OpsAreAwaited, MarkerInv, [Next]_vars
    PROVE  ExpansionsAreOwed'
<1> SUFFICES ASSUME NEW r \in Requests, r.kind = "expand", pc'[r] # "idle"
             PROVE  (/\ r.disk \in owed
                     /\ pc[r] = "getDisk" => \E name \in Names :
                           pv[name].disk = r.disk /\ pv[name].size < ExtractedSize(r.range)
                     /\ pc[r] = "wait" /\ local[r].outcome = "done" =>
                           disks[r.disk].size = ExtractedSize(r.range)
                     /\ pc[r] = "answered" /\ res[r].code = "ok" =>
                           res[r].size = disks[r.disk].size /\ r.disk \notin resizeLocks)'
  BY DEF ExpansionsAreOwed
<1>1. /\ ExpandTurn(r) /\ pv \in [Names -> PV] /\ r.disk \in DiskIds /\ r.disk # NoDisk
      /\ disks \in [DiskIds -> Disk] /\ ExtractedSize(r.range) \in Int
  BY ExpandTurns, RequestFields, ComputeAssumption DEF ComputeAssumption, TypeOK, ComputeTypeOK
<1>2. pc[r] # "idle" =>
         /\ r.disk \in owed
         /\ pc[r] = "getDisk" => \E name \in Names : /\ pv[name].disk = r.disk
                                                     /\ pv[name].size < ExtractedSize(r.range)
         /\ pc[r] = "wait" /\ local[r].outcome = "done" =>
               disks[r.disk].size = ExtractedSize(r.range)
         /\ pc[r] = "answered" /\ res[r].code = "ok" =>
               res[r].size = disks[r.disk].size /\ r.disk \notin resizeLocks
  BY DEF MarkerInv, ExpansionsAreOwed
<1>3. ASSUME NEW q \in Requests, q.kind = "expand", q.disk = r.disk, pc[q] # "idle",
             pc[r] # "idle"
      PROVE  q = r
  BY <1>3, OneExpansion
<1>4. r.disk \in owed'
  <2>1. CASE pc[r] = "idle"
    <3>1. Issue(r)
      BY <2>1, StartedByIssue
    <3>2. IssueExpand(r)
      BY <3>1 DEF Issue, IssueCreate, IssueDelete, IssuePublish, IssueUnpublish, IssueSnapshot,
                  CreateVolume, DeleteVolume, ControllerPublishVolume, CreateSnapshot,
                  ControllerUnpublishVolume, At
    <3>3. QED
      BY <3>2 DEF IssueExpand
  <2>2. CASE pc[r] # "idle"
    <3>1. ASSUME r.disk \notin owed' PROVE FALSE
      <4>1. PICK q \in Requests : /\ q.kind = "expand" /\ q.disk = r.disk
                                  /\ pc[q] = "answered" /\ pc'[q] = "idle"
        BY <1>2, <2>2, <3>1, WhoSettles
      <4>2. QED
        BY <1>3, <2>2, <4>1
    <3>2. QED
      BY <3>1
  <2>3. QED
    BY <2>1, <2>2
<1>5. CASE pc[r] = "idle" /\ pc'[r] = "getDisk" /\ IssueExpand(r)
  <2>1. PICK name \in Names : pv[name].disk = r.disk /\ pv[name].size < ExtractedSize(r.range)
    BY <1>5 DEF IssueExpand
  <2>2. pv' = pv
    BY <1>5 DEF IssueExpand
  <2>3. QED
    BY <1>4, <1>5, <2>1, <2>2
<1>6. CASE /\ pc[r] # "idle" /\ pc'[r] = pc[r] /\ res'[r] = res[r]
           /\ pc[r] = "wait" => local'[r] = local[r]
  <2>1. CASE pc[r] = "getDisk"
    <3>1. PICK name \in Names : pv[name].disk = r.disk /\ pv[name].size < ExtractedSize(r.range)
      BY <1>2, <2>1
    <3>2. pv[name] \in PV /\ VolumeTurn(name)
      BY <1>1, VolumeTurns
    <3>3. \A q \in Requests : q.kind = "create" /\ q.name = name => pc[q] # "answered"
      BY <1>1, <3>1 DEF ProvisionInv, VolumesKnowTheirDisk, CreationsKnowTheirDisk
    <3>4. \A q \in Requests : q.kind = "expand" /\ q.disk = r.disk => pc[q] # "answered"
      BY <1>3, <2>1
    <3>5. pv'[name].disk = r.disk /\ pv'[name].size = pv[name].size
      BY <3>1, <3>2, <3>3, <3>4 DEF VolumeTurn, PV
    <3>6. QED
      BY <1>4, <1>6, <2>1, <3>1, <3>5
  <2>2. CASE pc[r] = "wait" /\ local[r].outcome = "done"
    <3>1. disks'[r.disk].size = disks[r.disk].size
      BY <2>2, ExpandedKeepsItsSize
    <3>2. QED
      BY <1>2, <1>4, <1>6, <2>2, <3>1
  <2>3. CASE pc[r] = "answered" /\ res[r].code = "ok"
    <3>1. disks'[r.disk].size = disks[r.disk].size
      BY <2>3, ExpandedKeepsItsSize
    <3>2. ASSUME r.disk \in resizeLocks' PROVE FALSE
      <4>1. PICK q \in Requests : q.kind = "expand" /\ q.disk = r.disk /\ pc[q] = "wait"
        BY <1>2, <2>3, <3>2, WhoMarks
      <4>2. QED
        BY <1>3, <2>3, <4>1
    <3>3. QED
      BY <1>2, <1>4, <1>6, <2>3, <3>1, <3>2
  <2>4. QED
    BY <1>4, <1>6, <2>1, <2>2, <2>3
<1>7. CASE /\ pc[r] = "getDisk" /\ Exists(r.disk)
           /\ ExtractedSize(r.range) <= disks[r.disk].size
  <2>1. PICK name \in Names : pv[name].disk = r.disk /\ pv[name].size < ExtractedSize(r.range)
    BY <1>2, <1>7
  <2>2. pv[name].size \in Int /\ disks[r.disk].size \in Int
    BY <1>1 DEF PV, Disk
  <2>3. pv[name].size # disks[r.disk].size
    BY <1>1, <1>7, <2>1, <2>2
  <2>4. pv[name].phase # "none"
    BY <1>1, <2>1 DEF ProvisionInv, VolumesKnowTheirDisk
  <2>5. PICK q \in Requests : q.kind = "expand" /\ q.disk = r.disk /\ Succeeds(q)
    BY <2>1, <2>3, <2>4 DEF MarkerInv, SizesAreRecorded, Resized
  <2>6. QED
    BY <1>3, <1>7, <2>5 DEF Succeeds
<1>8. CASE pc'[r] = "answered" /\ res'[r].code = "failed"
  BY <1>4, <1>8
<1>9. CASE pc'[r] = "send" \/ (pc'[r] = "wait" /\ local'[r].outcome # "done")
  BY <1>4, <1>9
<1>10. CASE pc'[r] = "wait" /\ disks'[r.disk].size = ExtractedSize(r.range)
  BY <1>4, <1>10
<1>11. CASE /\ pc[r] = "wait" /\ pc'[r] = "answered" /\ UNCHANGED computeVars
            /\ local[r].outcome = "done" /\ RemoveVolId(r.disk)
            /\ res'[r] = Volume(r.disk, ExtractedSize(r.range), NoZone)
  <2>1. disks' = disks /\ disks[r.disk].size = ExtractedSize(r.range)
    BY <1>2, <1>11 DEF computeVars
  <2>2. res'[r].size = ExtractedSize(r.range) /\ r.disk \notin resizeLocks'
    BY <1>11 DEF Volume, RemoveVolId
  <2>3. QED
    BY <1>4, <1>11, <2>1, <2>2
<1>12. QED
  BY <1>1, <1>5, <1>6, <1>7, <1>8, <1>9, <1>10, <1>11 DEF ExpandTurn

(***************************************************************************)
(* A marker is put for a resize that is owed, and goes before its OK.      *)
(***************************************************************************)
LEMMA MarkersStep ==
    ASSUME TypeOK, MarkerInv, [Next]_vars
    PROVE  MarkerMeansOwed'
<1> SUFFICES ASSUME NEW d \in resizeLocks' PROVE d \in owed'
  BY DEF MarkerMeansOwed
<1>1. CASE d \notin resizeLocks
  <2>1. PICK r \in Requests : r.kind = "expand" /\ r.disk = d /\ pc[r] = "wait" /\ UNCHANGED sidecarVars
    BY <1>1, WhoMarks
  <2>2. QED
    BY <2>1 DEF MarkerInv, ExpansionsAreOwed, sidecarVars
<1>2. CASE d \in resizeLocks
  <2>1. d \in owed
    BY <1>2 DEF MarkerInv, MarkerMeansOwed
  <2>2. ASSUME d \notin owed' PROVE FALSE
    <3>1. PICK r \in Requests : /\ r.kind = "expand" /\ r.disk = d /\ pc[r] = "answered"
                                /\ res[r].code = "ok"
      BY <2>1, <2>2, WhoSettles
    <3>2. QED
      BY <1>2, <3>1 DEF MarkerInv, ExpansionsAreOwed
  <2>3. QED
    BY <2>2
<1>3. QED
  BY <1>1, <1>2

(***************************************************************************)
(* At the start nothing is marked, and the sizes are recorded.             *)
(***************************************************************************)
LEMMA InitMarkers == Init => MarkerInv
<1> SUFFICES ASSUME Init PROVE MarkerInv
  OBVIOUS
<1>1. /\ InitialVolumes \subseteq
            [disk : DiskIds, name : Names, size : Nat, blockSize : Nat, zone : Zones]
      /\ \A v, w \in InitialVolumes : v.disk = w.disk \/ v.name = w.name => v = w
  BY ComputeAssumption DEF ComputeAssumption
<1>2. ASSUME NEW name \in Names, pv[name].phase # "none"
      PROVE  pv[name].size = disks[pv[name].disk].size
  <2>1. PICK v \in InitialVolumes : v.name = name
    BY <1>2 DEF Init
  <2>2. v.disk \in DiskIds
    BY <1>1
  <2>3. (CHOOSE w \in InitialVolumes : w.disk = v.disk) = v
    BY <1>1
  <2>4. (CHOOSE w \in InitialVolumes : w.name = name) = v
    BY <1>1, <2>1
  <2>5. disks[v.disk] = NewDisk("ready", v.name, v.size, v.blockSize, v.zone)
    BY <2>2, <2>3 DEF Init, ComputeInit
  <2>6. pv[name] = [phase |-> "bound", disk |-> v.disk, size |-> v.size, zone |-> v.zone]
    BY <2>1, <2>4 DEF Init
  <2>7. QED
    BY <2>5, <2>6 DEF NewDisk
<1>3. pc = [r \in Requests |-> "idle"] /\ resizeLocks = {}
  BY DEF Init, ControllerInit
<1>4. QED
  BY <1>2, <1>3 DEF MarkerInv, MarkerMeansOwed, SizesAreRecorded, CreationsAreExact,
                    ExpansionsAreOwed

(***************************************************************************)
(* A volume is kept from being published (controller.go:309) only while    *)
(* its resize is outstanding, if no call is given up and nobody else makes *)
(* disks larger: else the resize that is repeated gets the early OK        *)
(* (controller.go:590) and the marker stays.                               *)
(***************************************************************************)
THEOREM MarkersAreOwed ==
    ASSUME Patient, "panel" \notin Disruptions
    PROVE  Spec => []MarkerMeansOwed
<1>1. Patient /\ "panel" \notin Disruptions
  OBVIOUS
<1>2. Init => RequestInv
  BY DEF Init, ControllerInit, RequestInv, Succeeds, Created
<1>3. TypeOK /\ CallsAreQueued /\ CloudInv /\ ProvisionInv /\ RequestInv /\ [Next]_vars
         => RequestInv'
  BY <1>1, RequestStep
<1>4. TypeOK /\ CallsAreQueued /\ CloudInv /\ ProvisionInv /\ OpsAreAwaited
         /\ RequestInv /\ MarkerInv /\ [Next]_vars => MarkerInv'
  BY <1>1, MarkersStep, RecordedSizes, CreatedSizes, ExpansionsStep DEF MarkerInv
<1>5. MarkerInv => MarkerMeansOwed
  BY DEF MarkerInv
<1>6. Spec => []OpsAreAwaited
  BY <1>1, AwaitedHolds, PTL
<1>7. QED
  BY <1>2, <1>3, <1>4, <1>5, <1>6, InitMarkers, ProvisionHolds, PTL DEF Spec
=============================================================================
