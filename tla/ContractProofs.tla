-------------------------- MODULE ContractProofs --------------------------
(***************************************************************************)
(* The contract of the controller service, for every set of requests:      *)
(* handlers, operations and failures together implement VolumeService.     *)
(*                                                                         *)
(* A node is granted a volume when the sidecar takes an OK, which may be   *)
(* long after the decision.  What carries the argument over that time is   *)
(* that a published disk is attached (PublishedStaysAttached) and that it  *)
(* is attached nowhere else (OneNode): the holders of a volume are among   *)
(* the attachments of its disk, so that there is one at most, and no       *)
(* deletion of the disk ends well while there is one.                      *)
(*                                                                         *)
(* Either the strict cloud sees to both, or, where the cloud is not        *)
(* strict, sidecars that make one call about a volume at a time and give   *)
(* none up: Exclusive.  That where the attacher holds nothing the disk is  *)
(* detached (UnpublishedMeansDetached) takes calls that are not given up,  *)
(* whatever the cloud is.                                                  *)
(***************************************************************************)
EXTENDS AttachProofs, FiniteSetTheorems

-----------------------------------------------------------------------------
(* One node *)

(***************************************************************************)
(* The strict cloud refuses a second attachment.                           *)
(***************************************************************************)
LEMMA OneNodeStep ==
    ASSUME StrictCloud, TypeOK, CloudInv, OneNode, [Next]_vars
    PROVE  OneNode'
<1> SUFFICES ASSUME NEW d \in DiskIds, NEW m \in disks'[d].at, NEW n \in disks'[d].at
             PROVE  m = n
  BY DEF OneNode
<1>1. CASE m \in disks[d].at /\ n \in disks[d].at
  BY <1>1 DEF OneNode
<1>2. ASSUME NEW k \in disks'[d].at, k \notin disks[d].at
      PROVE  disks'[d].at = {k}
  <2>1. disks'[d].at = disks[d].at \cup {k} /\ disks[d].at = {}
    BY <1>2, DiskAttaches
  <2>2. QED
    BY <2>1
<1>3. QED
  BY <1>1, <1>2

(***************************************************************************)
(* Nothing is attached at the start.                                       *)
(***************************************************************************)
LEMMA InitOneNode == Init => OneNode
BY DEF Init, ComputeInit, NewDisk, OneNode

(***************************************************************************)
(* OneNode counted.                                                        *)
(***************************************************************************)
LEMMA OneNodeIsSingle == OneNode => SingleAttachment
<1> SUFFICES ASSUME OneNode, NEW d \in DiskIds
             PROVE  Cardinality(disks[d].at) <= 1
  BY DEF SingleAttachment
<1>1. CASE disks[d].at = {}
  BY <1>1, FS_EmptySet
<1>2. CASE disks[d].at # {}
  <2>1. PICK n \in disks[d].at : TRUE
    BY <1>2
  <2>2. disks[d].at = {n}
    BY <2>1 DEF OneNode
  <2>3. Cardinality({n}) = 1
    BY FS_Singleton
  <2>4. QED
    BY <2>2, <2>3
<1>3. QED
  BY <1>1, <1>2

-----------------------------------------------------------------------------
(* The steps of the contract *)

\* What the contract sees of a disk, and of all
Shown(d) == CASE disks[d].state = "none" -> "unused"
              [] disks[d].state = "gone" -> "removed"
              [] OTHER -> "present"
Holders(d) == {n \in Nodes : va[<<d, n>>] = "attached" /\ inst[n] # "gone"}

ShownVolumes == [d \in DiskIds |-> Shown(d)]
ShownSizes   == [d \in DiskIds |-> disks[d].size]
ShownHolders == [d \in DiskIds |-> Holders(d)]

(***************************************************************************)
(* What happens to one volume and is a step of the contract.               *)
(***************************************************************************)
ContractMove(d) ==
    \/ /\ Shown(d) = "unused" /\ Shown(d)' = "present"
       /\ Holders(d)' = Holders(d)
    \/ /\ Shown(d) = "present" /\ Shown(d)' = "present" /\ disks[d].size < disks'[d].size
       /\ Holders(d)' = Holders(d)
    \/ /\ Shown(d) = "present" /\ Shown(d)' = "removed" /\ Holders(d) = {}
       /\ disks'[d].size = disks[d].size /\ Holders(d)' = Holders(d)
    \/ /\ Shown(d)' = Shown(d) /\ disks'[d].size = disks[d].size
       /\ \/ Holders(d)' = Holders(d)
          \/ Holders(d) # {} /\ Holders(d)' = {}
          \/ Shown(d) = "present" /\ Holders(d) = {} /\ \E n \in Nodes : Holders(d)' = {n}

SameVolumes(D) ==
    \A e \in D : /\ Shown(e)' = Shown(e) /\ Holders(e)' = Holders(e)
                 /\ disks'[e].size = disks[e].size

(***************************************************************************)
(* As an action of VolumeService.                                          *)
(***************************************************************************)
LEMMA ContractMoves ==
    ASSUME NEW d \in DiskIds, SameVolumes(DiskIds \ {d}), ContractMove(d)
    PROVE  [Service!Next]_(Service!serviceVars)
<1>1. ShownVolumes' = [ShownVolumes EXCEPT ![d] = Shown(d)']
  BY DEF ShownVolumes, SameVolumes
<1>2. ShownSizes' = [ShownSizes EXCEPT ![d] = disks'[d].size]
  BY DEF ShownSizes, SameVolumes
<1>3. ShownHolders' = [ShownHolders EXCEPT ![d] = Holders(d)']
  BY DEF ShownHolders, SameVolumes
<1>4. /\ ShownVolumes = [ShownVolumes EXCEPT ![d] = Shown(d)]
      /\ ShownSizes = [ShownSizes EXCEPT ![d] = disks[d].size]
      /\ ShownHolders = [ShownHolders EXCEPT ![d] = Holders(d)]
  BY DEF ShownVolumes, ShownSizes, ShownHolders
<1>5. /\ ShownVolumes[d] = Shown(d) /\ ShownHolders[d] = Holders(d)
      /\ ShownSizes[d] = disks[d].size /\ ShownSizes'[d] = disks'[d].size
  BY DEF ShownVolumes, ShownSizes, ShownHolders
<1>6. CASE /\ Shown(d) = "unused" /\ Shown(d)' = "present"
           /\ Holders(d)' = Holders(d)
  <2>1. /\ ShownVolumes[d] = "unused"
        /\ ShownVolumes' = [ShownVolumes EXCEPT ![d] = "present"]
        /\ ShownSizes' = [ShownSizes EXCEPT ![d] = ShownSizes'[d]]
        /\ ShownHolders' = ShownHolders
    BY <1>1, <1>2, <1>3, <1>4, <1>5, <1>6
  <2>2. Service!Provision(d)
    BY <2>1 DEF Service!Provision, ShownVolumes, ShownSizes, ShownHolders, Shown, Holders
  <2>3. QED
    BY <2>2 DEF Service!Next
<1>7. CASE /\ Shown(d) = "present" /\ Shown(d)' = "present"
           /\ disks[d].size < disks'[d].size /\ Holders(d)' = Holders(d)
  <2>1. /\ ShownVolumes[d] = "present" /\ ShownSizes'[d] > ShownSizes[d]
        /\ ShownSizes' = [ShownSizes EXCEPT ![d] = ShownSizes'[d]]
        /\ ShownVolumes' = ShownVolumes /\ ShownHolders' = ShownHolders
    BY <1>1, <1>2, <1>3, <1>4, <1>5, <1>7
  <2>2. Service!Grow(d)
    BY <2>1 DEF Service!Grow, ShownVolumes, ShownSizes, ShownHolders, Shown, Holders
  <2>3. QED
    BY <2>2 DEF Service!Next
<1>8. CASE /\ Shown(d) = "present" /\ Shown(d)' = "removed" /\ Holders(d) = {}
           /\ disks'[d].size = disks[d].size /\ Holders(d)' = Holders(d)
  <2>1. /\ ShownVolumes[d] = "present" /\ ShownHolders[d] = {}
        /\ ShownVolumes' = [ShownVolumes EXCEPT ![d] = "removed"]
        /\ ShownSizes' = ShownSizes /\ ShownHolders' = ShownHolders
    BY <1>1, <1>2, <1>3, <1>4, <1>5, <1>8
  <2>2. Service!Remove(d)
    BY <2>1 DEF Service!Remove, ShownVolumes, ShownSizes, ShownHolders, Shown, Holders
  <2>3. QED
    BY <2>2 DEF Service!Next
<1>9. CASE /\ Shown(d)' = Shown(d) /\ disks'[d].size = disks[d].size
           /\ Holders(d)' = Holders(d)
  <2>1. /\ ShownVolumes' = ShownVolumes /\ ShownSizes' = ShownSizes
        /\ ShownHolders' = ShownHolders
    BY <1>1, <1>2, <1>3, <1>4, <1>9
  <2>2. QED
    BY <2>1 DEF Service!serviceVars, ShownVolumes, ShownSizes, ShownHolders, Shown, Holders
<1>10. CASE /\ Shown(d)' = Shown(d) /\ disks'[d].size = disks[d].size
            /\ Holders(d) # {} /\ Holders(d)' = {}
  <2>1. /\ ShownHolders[d] # {} /\ ShownHolders' = [ShownHolders EXCEPT ![d] = {}]
        /\ ShownVolumes' = ShownVolumes /\ ShownSizes' = ShownSizes
    BY <1>1, <1>2, <1>3, <1>4, <1>5, <1>10
  <2>2. Service!Withdraw(d)
    BY <2>1 DEF Service!Withdraw, ShownVolumes, ShownSizes, ShownHolders, Shown, Holders
  <2>3. QED
    BY <2>2 DEF Service!Next
<1>11. CASE /\ Shown(d)' = Shown(d) /\ disks'[d].size = disks[d].size
            /\ Shown(d) = "present" /\ Holders(d) = {}
            /\ \E n \in Nodes : Holders(d)' = {n}
  <2>1. PICK n \in Nodes : Holders(d)' = {n}
    BY <1>11
  <2>2. /\ ShownVolumes[d] = "present" /\ ShownHolders[d] = {}
        /\ ShownHolders' = [ShownHolders EXCEPT ![d] = {n}]
        /\ ShownVolumes' = ShownVolumes /\ ShownSizes' = ShownSizes
    BY <1>1, <1>2, <1>3, <1>4, <1>5, <1>11, <2>1
  <2>3. Service!Grant(d, n)
    BY <2>2 DEF Service!Grant, ShownVolumes, ShownSizes, ShownHolders, Shown, Holders
  <2>4. QED
    BY <2>3 DEF Service!Next
<1>12. QED
  BY <1>6, <1>7, <1>8, <1>9, <1>10, <1>11 DEF ContractMove


-----------------------------------------------------------------------------
(* The steps of the cluster *)

(***************************************************************************)
(* A holder is attached, so there is one at most and the disk is there.    *)
(***************************************************************************)
LEMMA OneHolder ==
    ASSUME TypeOK, CloudInv, PublishedStaysAttached, OneNode, NEW d \in DiskIds
    PROVE  /\ Holders(d) \subseteq disks[d].at
           /\ Holders(d) # {} => \E n \in Nodes : Holders(d) = {n} /\ disks[d].at = {n}
           /\ Holders(d) # {} => disks[d].state = "ready"
<1>1. Holders(d) \subseteq disks[d].at
  BY DEF Holders, PublishedStaysAttached
<1>2. ASSUME NEW n \in Holders(d) PROVE Holders(d) = {n} /\ disks[d].at = {n} /\ n \in Nodes
  BY <1>1, <1>2 DEF OneNode, Holders
<1>3. Holders(d) # {} => disks[d].state = "ready"
  BY <1>1 DEF CloudInv, AttachedIsThere
<1>4. QED
  BY <1>1, <1>2, <1>3

(***************************************************************************)
(* A disk is created, resized, attached, detached or deleted: nobody is    *)
(* granted anything by that, and a disk that somebody holds is not         *)
(* deleted.                                                                *)
(***************************************************************************)
LEMMA DiskContract ==
    ASSUME TypeOK, CloudInv, PublishedStaysAttached, UNCHANGED <<va, inst>>,
           NEW d \in DiskIds, \A e \in DiskIds \ {d} : disks'[e] = disks[e], DiskStep(d)
    PROVE  [Service!Next]_(Service!serviceVars)
<1>1. Holders(d)' = Holders(d) /\ \A e \in DiskIds : Holders(e)' = Holders(e)
  BY DEF Holders
<1>2. disks[d] \in Disk
  BY DEF TypeOK, ComputeTypeOK
<1>3. SameVolumes(DiskIds \ {d})
  BY <1>1 DEF SameVolumes, Shown
<1>4. disks[d].at = {} => Holders(d) = {}
  BY DEF Holders, PublishedStaysAttached
<1> SUFFICES ContractMove(d)
  BY <1>3, ContractMoves
<1>5. /\ disks[d].state = "none" => Shown(d) = "unused"
      /\ disks[d].state \in {"creating", "ready"} => Shown(d) = "present"
      /\ disks'[d].state \in {"creating", "ready"} => Shown(d)' = "present"
      /\ disks'[d].state = "gone" => Shown(d)' = "removed"
      /\ disks'[d].state = disks[d].state => Shown(d)' = Shown(d)
  BY DEF Shown
<1>6. CASE disks'[d] = disks[d]
  BY <1>1, <1>5, <1>6 DEF ContractMove
<1>7. CASE disks[d].state = "none" /\ disks'[d].state = "creating"
  BY <1>1, <1>5, <1>7 DEF ContractMove
<1>8. CASE disks[d].state = "creating" /\ disks'[d] = [disks[d] EXCEPT !.state = "ready"]
  <2>1. disks'[d].state = "ready" /\ disks'[d].size = disks[d].size
    BY <1>2, <1>8 DEF Disk
  <2>2. QED
    BY <1>1, <1>5, <1>8, <2>1 DEF ContractMove
<1>9. CASE /\ disks[d].state \in {"creating", "ready"} /\ disks[d].at = {}
           /\ disks'[d] = [disks[d] EXCEPT !.state = "gone"]
  <2>1. disks'[d].state = "gone" /\ disks'[d].size = disks[d].size
    BY <1>2, <1>9 DEF Disk
  <2>2. QED
    BY <1>1, <1>4, <1>5, <1>9, <2>1 DEF ContractMove
<1>10. CASE disks[d].state = "ready" /\ disks'[d] = [disks[d] EXCEPT !.at = disks'[d].at]
  <2>1. disks'[d].state = disks[d].state /\ disks'[d].size = disks[d].size
    BY <1>2, <1>10 DEF Disk
  <2>2. QED
    BY <1>1, <1>5, <2>1 DEF ContractMove
<1>11. CASE /\ disks[d].state = "ready" /\ disks[d].size < disks'[d].size
            /\ disks'[d] = [disks[d] EXCEPT !.size = disks'[d].size]
  <2>1. disks'[d].state = disks[d].state
    BY <1>2, <1>11 DEF Disk
  <2>2. QED
    BY <1>1, <1>5, <1>11, <2>1 DEF ContractMove
<1>12. disks[d].state # "ready" => disks[d].at = {}
  BY DEF CloudInv, AttachedIsThere
<1>13. ASSUME NEW name, NEW size, NEW blockSize, NEW zone,
              disks'[d] = NewDisk("creating", name, size, blockSize, zone)
       PROVE  disks'[d].state = "creating"
  BY <1>13 DEF NewDisk
<1>14. QED
  BY <1>6, <1>7, <1>8, <1>9, <1>10, <1>11, <1>12, <1>13 DEF DiskStep

(***************************************************************************)
(* The sidecar calls, or takes an answer: of one volume the holder comes   *)
(* or goes, or nothing happens.                                            *)
(***************************************************************************)
LEMMA HolderContract ==
    ASSUME TypeOK, CloudInv, CloudInv', TypeOK', PublishedStaysAttached, PublishedStaysAttached',
           OneNode, OneNode', UNCHANGED computeVars, NEW d \in DiskIds, NEW n \in Nodes, NEW x,
           va' = [va EXCEPT ![<<d, n>>] = x]
    PROVE  [Service!Next]_(Service!serviceVars)
<1>1. \A e \in DiskIds \ {d} : Holders(e)' = Holders(e)
  BY DEF Holders, computeVars, TypeOK
<1>2. UNCHANGED disks
  BY DEF computeVars
<1>3. SameVolumes(DiskIds \ {d})
  BY <1>1, <1>2 DEF SameVolumes, Shown
<1>4. Shown(d)' = Shown(d) /\ disks'[d].size = disks[d].size
  BY <1>2 DEF Shown
<1>5. /\ Holders(d) # {} => \E m \in Nodes : Holders(d) = {m} /\ disks[d].at = {m}
      /\ Holders(d) # {} => disks[d].state = "ready"
  BY OneHolder
<1>6. /\ Holders(d)' # {} => \E m \in Nodes : Holders(d)' = {m} /\ disks[d].at = {m}
      /\ Holders(d)' # {} => disks[d].state = "ready"
  <2>1. /\ Holders(d)' \subseteq disks'[d].at
        /\ \A m, k \in disks'[d].at : m = k
        /\ disks'[d].state # "ready" => disks'[d].at = {}
    BY DEF Holders, PublishedStaysAttached, OneNode, CloudInv, AttachedIsThere
  <2>2. Holders(d)' \subseteq Nodes
    BY DEF Holders
  <2>3. QED
    BY <1>2, <2>1, <2>2
<1>7. disks[d].state = "ready" => Shown(d) = "present"
  BY DEF Shown
<1>8. ContractMove(d)
  BY <1>4, <1>5, <1>6, <1>7 DEF ContractMove
<1>9. QED
  BY <1>3, <1>8, ContractMoves

(***************************************************************************)
(* Only the attacher changes a VolumeAttachment, one at a time.            *)
(***************************************************************************)
LEMMA WhoAttaches ==
    ASSUME TypeOK, [Next]_vars, ~UNCHANGED va
    PROVE  /\ UNCHANGED computeVars
           /\ \E d \in DiskIds, n \in Nodes, x \in {"none", "attaching", "attached", "detaching"} :
                 va' = [va EXCEPT ![<<d, n>>] = x]
<1>1. ASSUME NEW r \in Requests, Issue(r)
      PROVE  IssuePublish(r) \/ IssueUnpublish(r)
  BY <1>1 DEF Issue, IssueCreate, IssueDelete, IssueExpand, IssueSnapshot, sidecarVars
<1>2. CASE \E r \in Requests : IssuePublish(r) \/ IssueUnpublish(r)
  <2>1. PICK r \in Requests : IssuePublish(r) \/ IssueUnpublish(r)
    BY <1>2
  <2>2. r.disk \in DiskIds /\ r.node \in Nodes
    BY <2>1, RequestFields DEF IssuePublish, IssueUnpublish, ControllerPublishVolume,
                               ControllerUnpublishVolume, At
  <2>3. UNCHANGED computeVars
    BY <2>1 DEF IssuePublish, IssueUnpublish, ControllerPublishVolume, ControllerUnpublishVolume
  <2>4. \E x \in {"attaching", "detaching"} : va' = [va EXCEPT ![<<r.disk, r.node>>] = x]
    BY <2>1 DEF IssuePublish, IssueUnpublish, Attachment
  <2>5. QED
    BY <2>2, <2>3, <2>4
<1>3. CASE \E r \in Requests : Receive(r)
  <2>1. PICK r \in Requests : Receive(r)
    BY <1>3
  <2>2. CASE r.kind \in {"publish", "unpublish"}
    <3>1. r.disk \in DiskIds /\ r.node \in Nodes
      BY <2>2, RequestFields
    <3>2. UNCHANGED computeVars
      BY <2>1 DEF Receive
    <3>3. \E x \in {"none", "attached"} : va' = [va EXCEPT ![<<r.disk, r.node>>] = x]
      BY <2>1, <2>2 DEF Receive, Attachment, sidecarVars
    <3>4. QED
      BY <3>1, <3>2, <3>3
  <2>3. CASE r.kind \notin {"publish", "unpublish"}
    BY <2>1, <2>3 DEF Receive, sidecarVars
  <2>4. QED
    BY <2>2, <2>3
<1>4. CASE ~\E r \in Requests : Issue(r) \/ Receive(r)
  BY <1>4 DEF Next, Handle, FailCall, Work, FailOp, Restart, ResizeByHand,
              DisruptInstance, Disrupt, vars, sidecarVars
<1>5. QED
  BY <1>1, <1>2, <1>3, <1>4

(***************************************************************************)
(* Every step of the cluster is a step of the contract, or none.           *)
(***************************************************************************)
LEMMA ContractStep ==
    ASSUME TypeOK, TypeOK', CloudInv, CloudInv', PublishedStaysAttached,
           PublishedStaysAttached', OneNode, OneNode', [Next]_vars
    PROVE  [Service!Next]_(Service!serviceVars)
<1>1. disks \in [DiskIds -> Disk] /\ \A d \in DiskIds : DiskStep(d)
  BY DiskSteps DEF TypeOK, ComputeTypeOK
<1>2. CASE ~UNCHANGED va
  BY <1>2, WhoAttaches, HolderContract
<1>3. CASE UNCHANGED <<va, disks, inst>>
  BY <1>3 DEF Service!serviceVars
<1>4. CASE \E r \in Requests, d \in DiskIds : UNCHANGED <<va, inst>> /\ Allocate(r, d)
  <2>1. PICK r \in Requests, d \in DiskIds : UNCHANGED <<va, inst>> /\ Allocate(r, d)
    BY <1>4
  <2>2. \A e \in DiskIds \ {d} : disks'[e] = disks[e]
    BY <1>1, <2>1 DEF Allocate
  <2>3. QED
    BY <1>1, <2>1, <2>2, DiskContract
<1>5. CASE UNCHANGED <<va, inst>> /\ \E d \in DiskIds : \E disk : disks' = [disks EXCEPT ![d] = disk]
  <2>1. PICK d \in DiskIds : UNCHANGED <<va, inst>> /\ \E disk : disks' = [disks EXCEPT ![d] = disk]
    BY <1>5
  <2>2. \A e \in DiskIds \ {d} : disks'[e] = disks[e]
    BY <1>1, <2>1
  <2>3. QED
    BY <1>1, <2>1, <2>2, DiskContract
<1>6. CASE UNCHANGED va /\ \E n \in Nodes : DeleteInstance(n)
  <2>1. PICK n \in Nodes : UNCHANGED va /\ DeleteInstance(n)
    BY <1>6
  <2>2. inst \in [Nodes -> {"running", "stopped", "gone"}]
    BY DEF TypeOK, ComputeTypeOK
  <2>3. \A d \in DiskIds : disks'[d].state = disks[d].state /\ disks'[d].size = disks[d].size
    BY <1>1, <2>1 DEF DeleteInstance, Disk
  <2>4. \A d \in DiskIds : Shown(d)' = Shown(d) /\ Holders(d)' = Holders(d) \ {n}
    BY <2>1, <2>2, <2>3 DEF DeleteInstance, Shown, Holders
  <2>5. /\ ShownVolumes' = ShownVolumes /\ ShownSizes' = ShownSizes
        /\ ShownHolders' = [d \in DiskIds |-> ShownHolders[d] \ {n}]
    BY <2>3, <2>4 DEF ShownVolumes, ShownSizes, ShownHolders
  <2>6. Service!Lose(n)
    BY <2>5 DEF Service!Lose, ShownVolumes, ShownSizes, ShownHolders, Shown, Holders
  <2>7. QED
    BY <2>6 DEF Service!Next
<1>7. CASE UNCHANGED <<va, disks>> /\ \E n \in Nodes : StopInstance(n) \/ StartInstance(n)
  <2>1. \A n \in Nodes : inst'[n] = "gone" <=> inst[n] = "gone"
    BY <1>7 DEF StopInstance, StartInstance, TypeOK, ComputeTypeOK
  <2>2. \A d \in DiskIds : Shown(d)' = Shown(d) /\ Holders(d)' = Holders(d)
    BY <1>7, <2>1 DEF Shown, Holders
  <2>3. ShownVolumes' = ShownVolumes /\ ShownSizes' = ShownSizes /\ ShownHolders' = ShownHolders
    BY <1>7, <2>2 DEF ShownVolumes, ShownSizes, ShownHolders
  <2>4. QED
    BY <2>3 DEF Service!serviceVars, ShownVolumes, ShownSizes, ShownHolders, Shown, Holders
<1>8. QED
  <2>1. CASE UNCHANGED va /\ ~UNCHANGED <<disks, inst>>
    <3>1. CASE \E r \in Requests, d \in DiskIds : UNCHANGED inst /\ Allocate(r, d)
      BY <1>4, <2>1, <3>1
    <3>2. CASE /\ UNCHANGED inst
               /\ \E r \in Requests, d \in DiskIds :
                     \/ disks' = IF Verdict(r, d) = "done"
                                 THEN [disks EXCEPT ![d] = Changed(r, @)] ELSE disks
                     \/ disks' = IF r.kind = "create"
                                 THEN [disks EXCEPT ![d].state = "gone"] ELSE disks
      <4>1. \E d \in DiskIds : \E disk : disks' = [disks EXCEPT ![d] = disk]
        BY <1>1, <2>1, <3>2
      <4>2. QED
        BY <1>5, <2>1, <3>2, <4>1
    <3>3. CASE \E d \in DiskIds : PanelResize(d, disks[d].size + 1)
      <4>1. UNCHANGED inst /\ \E d \in DiskIds : \E disk : disks' = [disks EXCEPT ![d] = disk]
        BY <1>1, <3>3 DEF PanelResize
      <4>2. QED
        BY <1>5, <2>1, <4>1
    <3>4. CASE \E n \in Nodes : StopInstance(n) \/ StartInstance(n) \/ DeleteInstance(n)
      BY <1>6, <1>7, <2>1, <3>4 DEF StopInstance, StartInstance
    <3>5. QED
      BY <2>1, <3>1, <3>2, <3>3, <3>4, CloudMoves DEF computeVars
  <2>2. QED
    BY <1>2, <1>3, <2>1

(***************************************************************************)
(* At the start nobody holds a volume.                                     *)
(***************************************************************************)
LEMMA InitContract == Init => Service!Init
<1> SUFFICES ASSUME Init PROVE Service!Init
  OBVIOUS
<1>1. disks \in [DiskIds -> Disk]
  BY InitType DEF TypeOK, ComputeTypeOK
<1>2. \A d \in DiskIds : disks[d].state \in {"none", "ready"}
  BY DEF Init, ComputeInit, NewDisk
<1>3. ShownVolumes \in [DiskIds -> {"unused", "present"}]
  BY <1>2 DEF ShownVolumes, Shown
<1>4. ShownSizes \in [DiskIds -> Int]
  BY <1>1 DEF ShownSizes, Disk
<1>5. ShownHolders = [d \in DiskIds |-> {}]
  BY DEF Init, ShownHolders, Holders
<1>6. QED
  BY <1>3, <1>4, <1>5 DEF Service!Init, ShownVolumes, ShownSizes, ShownHolders, Shown, Holders

-----------------------------------------------------------------------------
(* The attacher *)

(***************************************************************************)
(* A VolumeAttachment changes as a call about it is made or answered OK.   *)
(***************************************************************************)
LEMMA WhoChangesAttachment ==
    ASSUME TypeOK, [Next]_vars, NEW d \in DiskIds, NEW n \in Nodes,
           va'[<<d, n>>] # va[<<d, n>>]
    PROVE  /\ UNCHANGED computeVars
           /\ \E p \in Requests :
                 /\ AboutAttachment(p) /\ Attachment(p) = <<d, n>>
                 /\ \/ /\ pc[p] = "idle" /\ pc'[p] # "idle"
                       /\ va'[<<d, n>>] = IF p.kind = "publish" THEN "attaching" ELSE "detaching"
                    \/ /\ pc[p] = "answered" /\ pc'[p] = "idle" /\ res[p].code = "ok"
                       /\ va'[<<d, n>>] = IF p.kind = "publish" THEN "attached" ELSE "none"
<1>1. va \in [DiskIds \X Nodes -> {"none", "attaching", "attached", "detaching"}]
      /\ pc \in [Requests -> Steps]
  BY DEF TypeOK, ControllerTypeOK
<1>2. UNCHANGED computeVars
  BY WhoAttaches
<1>3. ~UNCHANGED va
  OBVIOUS
<1>4. \E r \in Requests : Issue(r) \/ Receive(r)
  BY <1>3 DEF Next, Handle, FailCall, Work, FailOp, Restart, ResizeByHand,
              DisruptInstance, Disrupt, vars, sidecarVars
<1>5. PICK p \in Requests : Issue(p) \/ Receive(p)
  BY <1>4
<1>6. CASE IssuePublish(p) \/ IssueUnpublish(p)
  <2>1. AboutAttachment(p) /\ pc[p] = "idle" /\ pc'[p] # "idle"
    BY <1>1, <1>6 DEF IssuePublish, IssueUnpublish, ControllerPublishVolume,
       ControllerUnpublishVolume, At, AboutAttachment, Goto, Reply
  <2>2. /\ p.kind = "publish" => va' = [va EXCEPT ![Attachment(p)] = "attaching"]
        /\ p.kind = "unpublish" => va' = [va EXCEPT ![Attachment(p)] = "detaching"]
    BY <1>6 DEF IssuePublish, IssueUnpublish, ControllerPublishVolume,
       ControllerUnpublishVolume, At
  <2>3. Attachment(p) = <<d, n>>
    BY <1>1, <2>1, <2>2 DEF AboutAttachment
  <2>4. va'[<<d, n>>] = IF p.kind = "publish" THEN "attaching" ELSE "detaching"
    BY <1>1, <2>1, <2>2, <2>3 DEF AboutAttachment
  <2>5. QED
    BY <1>2, <2>1, <2>3, <2>4
<1>7. CASE Receive(p)
  <2>1. pc[p] = "answered" /\ pc'[p] = "idle"
    BY <1>1, <1>7 DEF Receive
  <2>2. /\ res[p].code = "ok" /\ AboutAttachment(p)
        /\ va' = [va EXCEPT ![Attachment(p)] = IF p.kind = "publish" THEN "attached" ELSE "none"]
    BY <1>3, <1>7 DEF Receive, AboutAttachment, sidecarVars
  <2>3. Attachment(p) = <<d, n>>
    BY <1>1, <2>2
  <2>4. va'[<<d, n>>] = IF p.kind = "publish" THEN "attached" ELSE "none"
    BY <1>1, <2>2, <2>3
  <2>5. QED
    BY <1>2, <2>1, <2>2, <2>3, <2>4
<1>8. Issue(p) => IssuePublish(p) \/ IssueUnpublish(p)
  BY <1>3 DEF Issue, IssueCreate, IssueDelete, IssueExpand, IssueSnapshot, sidecarVars
<1>9. QED
  BY <1>5, <1>6, <1>7, <1>8

(***************************************************************************)
(* Two calls about one attachment are never under way together.            *)
(***************************************************************************)
LEMMA OneCallPerAttachment ==
    ASSUME CallsAreQueued, NEW r \in Requests, NEW q \in Requests,
           AboutAttachment(r), AboutAttachment(q), Attachment(r) = Attachment(q),
           pc[r] # "idle", pc[q] # "idle"
    PROVE  r = q
<1>1. SameSubject(r, q) /\ SameQueue(r, q)
  BY DEF SameSubject, SameQueue, OnDisk, AboutAttachment, Attachment
<1>2. QED
  BY <1>1 DEF CallsAreQueued

(***************************************************************************)
(* The attacher has the call under way that it wants, in every cluster.    *)
(***************************************************************************)
LEMMA WantedStep ==
    ASSUME TypeOK, CallsAreQueued, CallIsWanted, [Next]_vars
    PROVE  CallIsWanted'
<1> SUFFICES ASSUME NEW r \in Requests, AboutAttachment(r), pc'[r] # "idle"
             PROVE  /\ va'[Attachment(r)] = IF r.kind = "publish" THEN "attaching" ELSE "detaching"
                    /\ \A q \in Requests :
                          AboutAttachment(q) /\ Attachment(q) = Attachment(r) /\ pc'[q] # "idle"
                          => q = r
  BY DEF CallIsWanted, AboutAttachment, Attachment
<1>1. CallsAreQueued'
  BY QueuesStep
<1>2. ASSUME NEW q \in Requests, AboutAttachment(q), Attachment(q) = Attachment(r),
             pc'[q] # "idle"
      PROVE  q = r
  <2>1. /\ r.kind \in {"publish", "unpublish"} /\ q.kind \in {"publish", "unpublish"}
        /\ r.disk = q.disk /\ r.node = q.node
    BY <1>2 DEF AboutAttachment, Attachment
  <2>2. QED
    BY <1>1, <1>2, <2>1 DEF CallsAreQueued, SameSubject, SameQueue, OnDisk
<1>3. r.disk \in DiskIds /\ r.node \in Nodes
  BY RequestFields DEF AboutAttachment
<1>4. CASE pc[r] = "idle"
  <2>1. Issue(r)
    BY <1>4, StartedByIssue
  <2>2. IssuePublish(r) \/ IssueUnpublish(r)
    BY <2>1 DEF Issue, IssueCreate, IssueDelete, IssueExpand, IssueSnapshot, AboutAttachment,
       CreateVolume, DeleteVolume, ControllerExpandVolume, CreateSnapshot, At
  <2>3. /\ r.kind = "publish" => va' = [va EXCEPT ![Attachment(r)] = "attaching"]
        /\ r.kind = "unpublish" => va' = [va EXCEPT ![Attachment(r)] = "detaching"]
    BY <2>2 DEF IssuePublish, IssueUnpublish, ControllerPublishVolume,
       ControllerUnpublishVolume, At
  <2>4. Attachment(r) \in DOMAIN va
    BY <1>3 DEF Attachment, TypeOK
  <2>5. va'[Attachment(r)] = IF r.kind = "publish" THEN "attaching" ELSE "detaching"
    BY <2>3, <2>4 DEF AboutAttachment, TypeOK
  <2>6. QED
    BY <1>2, <2>5
<1>5. CASE pc[r] # "idle"
  <2>1. va[Attachment(r)] = IF r.kind = "publish" THEN "attaching" ELSE "detaching"
    BY <1>5 DEF CallIsWanted
  <2>2. va'[Attachment(r)] = va[Attachment(r)]
    <3> SUFFICES ASSUME va'[Attachment(r)] # va[Attachment(r)]
                 PROVE  FALSE
      OBVIOUS
    <3>1. PICK p \in Requests :
                 /\ AboutAttachment(p) /\ Attachment(p) = Attachment(r)
                 /\ \/ pc[p] = "idle" /\ pc'[p] # "idle"
                    \/ pc[p] = "answered" /\ pc'[p] = "idle"
      BY <1>3, WhoChangesAttachment DEF Attachment
    <3>2. p # r
      BY <1>5, <3>1
    <3>3. QED
      BY <1>2, <1>5, <3>1, <3>2, OneCallPerAttachment
  <2>3. QED
    BY <1>2, <2>1, <2>2
<1>6. QED
  BY <1>4, <1>5

-----------------------------------------------------------------------------
(* Sidecars that give no call up *)

(***************************************************************************)
(* A disk is attached by the call that waits for it.                       *)
(***************************************************************************)
LEMMA WhoseDiskAttaches ==
    ASSUME TypeOK, CloudInv, OpsAreAwaited, [Next]_vars, NEW d \in DiskIds,
           NEW n \in disks'[d].at, n \notin disks[d].at
    PROVE  /\ UNCHANGED <<inst, va, pc>> /\ disks'[d].at = disks[d].at \cup {n}
           /\ \E q \in Requests :
                 /\ q.kind = "publish" /\ q.disk = d /\ q.node = n /\ pc[q] = "wait"
                 /\ local[q].outcome = "running" /\ local'[q].outcome # "running"
<1>1. PICK q \in Requests : /\ q.kind = "publish" /\ q.disk = d /\ q.node = n
                            /\ <<q, d>> \in ops /\ FinishOp(<<q, d>>)
  BY DiskAttaches
<1>2. UNCHANGED <<inst, va>> /\ disks'[d].at = disks[d].at \cup {n}
  BY DiskAttaches
<1>3. Awaited(<<q, d>>) /\ pc[q] = "wait" /\ local[q].outcome = "running"
  BY <1>1 DEF OpsAreAwaited, Awaited
<1>4. UNCHANGED pc /\ local' = [local EXCEPT ![q].outcome = Verdict(q, d)]
  BY <1>1, <1>3 DEF FinishOp, Settle
<1>5. Verdict(q, d) # "running"
  BY DEF Verdict
<1>6. local'[q].outcome # "running"
  BY <1>4, <1>5 DEF TypeOK, ControllerTypeOK, Local
<1>7. QED
  BY <1>1, <1>2, <1>3, <1>4, <1>6

(***************************************************************************)
(* While a ControllerUnpublishVolume is under way the node is attached by  *)
(* nobody.                                                                 *)
(***************************************************************************)
LEMMA NoneAttachesMeanwhile ==
    ASSUME TypeOK, CallsAreQueued, CloudInv, OpsAreAwaited, [Next]_vars,
           NEW r \in Requests, r.kind = "unpublish", pc[r] # "idle",
           r.node \notin disks[r.disk].at
    PROVE  r.node \notin disks'[r.disk].at
<1> SUFFICES ASSUME r.node \in disks'[r.disk].at
             PROVE  FALSE
  OBVIOUS
<1>1. r.disk \in DiskIds
  BY RequestFields
<1>2. PICK q \in Requests : /\ q.kind = "publish" /\ q.disk = r.disk /\ q.node = r.node
                            /\ pc[q] = "wait"
  BY <1>1, WhoseDiskAttaches
<1>3. AboutAttachment(r) /\ AboutAttachment(q) /\ Attachment(r) = Attachment(q)
  BY <1>2 DEF AboutAttachment, Attachment
<1>4. r = q
  BY <1>2, <1>3, OneCallPerAttachment
<1>5. QED
  BY <1>2, <1>4

(***************************************************************************)
(* ControllerUnpublishVolume is answered OK where the disk is detached:    *)
(* the disk is not there, or attached to no instance, or the instance is   *)
(* not there, or the operation has ended well (controller.go:385-419).     *)
(***************************************************************************)
LEMMA DetachedAtLast ==
    ASSUME TypeOK, CallsAreQueued, CloudInv, OpsAreAwaited, [Next]_vars,
           NEW r \in Requests, r.kind = "unpublish", Succeeds(r)',
           Succeeds(r) => r.node \notin disks[r.disk].at
    PROVE  r.node \notin disks'[r.disk].at
<1>1. /\ pc \in [Requests -> Steps] /\ local \in [Requests -> Local]
      /\ res \in [Requests -> Answers] /\ disks \in [DiskIds -> Disk]
      /\ r.disk \in DiskIds /\ r.node \in Nodes
  BY RequestFields DEF TypeOK, ControllerTypeOK, ComputeTypeOK
<1>2. CASE pc'[r] = pc[r] /\ local'[r] = local[r] /\ res'[r] = res[r]
  <2>1. Succeeds(r) /\ pc[r] # "idle"
    BY <1>2 DEF Succeeds
  <2>2. QED
    BY <2>1, NoneAttachesMeanwhile
<1>3. CASE Issue(r) \/ Receive(r) \/ FailCall(r)
  <2>1. ~Succeeds(r)'
    BY <1>1, <1>3 DEF Issue, IssueCreate, IssueDelete, IssuePublish, IssueUnpublish,
       IssueExpand, IssueSnapshot, CreateVolume, DeleteVolume, ControllerPublishVolume,
       ControllerUnpublishVolume, ControllerExpandVolume, CreateSnapshot, At, Receive,
       FailCall, CallFails, Goto, Reply, Failed, Empty, Succeeds
  <2>2. QED
    BY <2>1
<1>4. CASE HandlerStep(r) /\ ~Panic(r)
  <2>1. CASE UnpublishGetDisk(r)
    <3>1. UNCHANGED disks
      BY <2>1 DEF UnpublishGetDisk, computeVars
    <3>2. ~Exists(r.disk) \/ disks[r.disk].at = {}
      BY <1>1, <2>1 DEF UnpublishGetDisk, Goto, Succeeds
    <3>3. disks[r.disk].at = {}
      BY <1>1, <3>2 DEF CloudInv, AttachedIsThere, Exists
    <3>4. QED
      BY <3>1, <3>3
  <2>2. CASE UnpublishGetInstance(r)
    <3>1. UNCHANGED disks
      BY <2>2 DEF UnpublishGetInstance, computeVars
    <3>2. inst[r.node] = "gone"
      BY <1>1, <2>2 DEF UnpublishGetInstance, Goto, Succeeds
    <3>3. QED
      BY <1>1, <3>1, <3>2 DEF CloudInv, AttachedIsThere
  <2>3. CASE UnpublishDone(r)
    <3>1. UNCHANGED disks /\ At(r, "unpublish", "wait")
      BY <2>3 DEF UnpublishDone, computeVars
    <3>2. local[r].outcome = "done"
      BY <1>1, <2>3 DEF UnpublishDone, Reply, Failed, Empty, Succeeds
    <3>3. Succeeds(r)
      BY <3>1, <3>2 DEF Succeeds, At
    <3>4. QED
      BY <3>1, <3>3
  <2>4. CASE Submit(r)
    <3>1. pc'[r] = "wait" /\ local'[r].outcome # "done"
      BY <1>1, <2>4 DEF Submit, Wait
    <3>2. QED
      BY <3>1 DEF Succeeds
  <2>5. QED
    BY <1>4, <2>1, <2>2, <2>3, <2>4
       DEF HandlerStep, ListDisks, CreateDisk, CreateDone, DeleteDone, PublishGetDisk,
           PublishGetInstance, PublishDone, ExpandGetDisk, ExpandDone, At
<1>5. ASSUME NEW d \in DiskIds, NEW outcome \in {Verdict(r, d), "failed"},
             Settled(r, d, outcome)
      PROVE  r.node \notin disks'[r.disk].at
  <2>1. d = r.disk /\ pc'[r] = "wait"
    BY <1>5 DEF Settled, Awaited, Target
  <2>2. local'[r].outcome = outcome
    BY <1>1, <1>5 DEF Settled, Local
  <2>3. outcome = "done"
    BY <2>1, <2>2 DEF Succeeds
  <2>4. FinishOp(<<r, d>>) /\ Verdict(r, d) = "done"
    BY <1>5, <2>3 DEF Settled
  <2>5. disks' = [disks EXCEPT ![d] = Changed(r, disks[d])]
    BY <2>4 DEF FinishOp, Finish
  <2>6. disks'[d].at = disks[d].at \ {r.node}
    BY <1>1, <2>5 DEF Changed, Disk
  <2>7. QED
    BY <2>1, <2>6
<1>6. CASE Died
  <2>1. UNCHANGED disks
    BY <1>6 DEF Died, Crash, computeVars
  <2>2. pc[r] = "answered" /\ res'[r] = res[r]
    BY <1>1, <1>6 DEF Died, Crash, Succeeds
  <2>3. Succeeds(r)
    BY <1>6, <2>2 DEF Died, Crash, Succeeds
  <2>4. QED
    BY <2>1, <2>3
<1>7. QED
  BY <1>2, <1>3, <1>4, <1>5, <1>6, Turns

(***************************************************************************)
(* DetachInv is inductive when every operation is awaited.                 *)
(***************************************************************************)
LEMMA DetachStep ==
    ASSUME TypeOK, CallsAreQueued, CloudInv, OpsAreAwaited, DetachInv, [Next]_vars
    PROVE  DetachInv'
<1>1. CallIsWanted'
  BY WantedStep DEF DetachInv
<1>2. ASSUME NEW r \in Requests, r.kind = "unpublish", Succeeds(r)'
      PROVE  r.node \notin disks'[r.disk].at
  BY <1>2, DetachedAtLast DEF DetachInv
<1>3. ASSUME NEW d \in DiskIds, NEW n \in Nodes, va'[<<d, n>>] = "none"
      PROVE  n \notin disks'[d].at
  <2>1. CASE va[<<d, n>>] = "none"
    <3>1. n \notin disks[d].at
      BY <2>1 DEF DetachInv, UnpublishedMeansDetached
    <3>2. ASSUME n \in disks'[d].at
          PROVE  FALSE
      <4>1. PICK q \in Requests : /\ q.kind = "publish" /\ q.disk = d /\ q.node = n
                                  /\ pc[q] = "wait"
        BY <3>1, <3>2, WhoseDiskAttaches
      <4>2. va[<<d, n>>] = "attaching"
        BY <4>1 DEF DetachInv, CallIsWanted, AboutAttachment, Attachment
      <4>3. QED
        BY <2>1, <4>2
    <3>3. QED
      BY <3>2
  <2>2. CASE va[<<d, n>>] # "none"
    <3>1. PICK p \in Requests :
                 /\ AboutAttachment(p) /\ Attachment(p) = <<d, n>> /\ p.kind # "publish"
                 /\ pc[p] = "answered" /\ res[p].code = "ok"
      BY <1>3, <2>2, WhoChangesAttachment
    <3>2. p.kind = "unpublish" /\ p.disk = d /\ p.node = n
      BY <3>1 DEF AboutAttachment, Attachment
    <3>3. n \notin disks[d].at
      BY <3>1, <3>2 DEF DetachInv, Succeeds
    <3>4. UNCHANGED disks
      BY <1>3, <2>2, WhoChangesAttachment DEF computeVars
    <3>5. QED
      BY <3>3, <3>4
  <2>3. QED
    BY <2>1, <2>2
<1>4. QED
  BY <1>1, <1>2, <1>3 DEF DetachInv, UnpublishedMeansDetached

(***************************************************************************)
(* At the start nothing is attached and nothing is under way.              *)
(***************************************************************************)
LEMMA InitDetach == Init => DetachInv
<1>1. Init => CallIsWanted
  BY InitAttach DEF AttachInv
<1>2. Init => \A r \in Requests : ~Succeeds(r)
  BY DEF Init, ControllerInit, Succeeds
<1>3. Init => \A d \in DiskIds : disks[d].at = {}
  BY DEF Init, ComputeInit, NewDisk
<1>4. QED
  BY <1>1, <1>2, <1>3 DEF DetachInv, UnpublishedMeansDetached

(***************************************************************************)
(* Where the attacher holds nothing the disk is not attached, whatever     *)
(* operations fail and whichever instances go, as long as no call is given *)
(* up: one that is given up may attach the disk later.                     *)
(***************************************************************************)
THEOREM DetachedForGood ==
    ASSUME Patient
    PROVE  Spec => []UnpublishedMeansDetached
<1>1. Patient
  OBVIOUS
<1>2. TypeOK /\ CallsAreQueued /\ CloudInv /\ OpsAreAwaited /\ DetachInv /\ [Next]_vars => DetachInv'
  BY DetachStep
<1>3. DetachInv => UnpublishedMeansDetached
  BY DEF DetachInv
<1>4. Spec => [](TypeOK /\ CallsAreQueued /\ CloudInv /\ OpsAreAwaited)
  BY <1>1, AwaitedHolds
<1>5. QED
  BY <1>2, <1>3, <1>4, InitDetach, PTL DEF Spec

-----------------------------------------------------------------------------
(* One call about a volume at a time, and none given up *)

(***************************************************************************)
(* Then the cloud is asked for one thing at a time, strict or not.         *)
(***************************************************************************)
LEMMA OneByOne ==
    ASSUME OneCallPerVolume, TypeOK, CallsAreQueued, CloudInv, OpsAreAwaited
    PROVE  OneAtATime
<1> SUFFICES ASSUME NEW r \in Requests, pc[r] = "send", OnDisk(r),
                    Answer(r, r.disk) = "done", Busy(r.disk)
             PROVE  FALSE
  BY DEF OneAtATime
<1>1. PICK q \in Requests : <<q, r.disk>> \in ops
  BY DEF Busy, TypeOK, ComputeTypeOK
<1>2. pc[q] = "wait"
  BY <1>1 DEF OpsAreAwaited, Awaited
<1>3. disks[r.disk].state = "ready"
  BY DEF Answer, Verdict, OnDisk
<1>4. OnDisk(q) /\ q.disk = r.disk
  BY <1>1, <1>3 DEF CloudInv, OpsKnowTheirDisk
<1>5. SameSubject(r, q)
  BY <1>4 DEF SameSubject
<1>6. r = q
  BY <1>2, <1>5 DEF CallsAreQueued
<1>7. QED
  BY <1>2, <1>6

(***************************************************************************)
(* While a ControllerPublishVolume is under way nobody else attaches.      *)
(***************************************************************************)
LEMMA AttachesAlone ==
    ASSUME OneCallPerVolume, TypeOK, CallsAreQueued, CloudInv, OpsAreAwaited, [Next]_vars,
           NEW r \in Requests, r.kind = "publish", pc[r] # "idle",
           pc'[r] = "wait" => local'[r].outcome = "running"
    PROVE  disks'[r.disk].at \subseteq disks[r.disk].at
<1> SUFFICES ASSUME NEW n \in disks'[r.disk].at, n \notin disks[r.disk].at
             PROVE  FALSE
  OBVIOUS
<1>1. r.disk \in DiskIds
  BY RequestFields
<1>2. PICK q \in Requests : /\ q.kind = "publish" /\ q.disk = r.disk /\ pc'[q] = pc[q]
                            /\ pc[q] = "wait" /\ local'[q].outcome # "running"
  BY <1>1, WhoseDiskAttaches
<1>3. SameSubject(r, q)
  BY <1>2 DEF SameSubject, OnDisk
<1>4. r = q
  BY <1>2, <1>3 DEF CallsAreQueued
<1>5. QED
  BY <1>2, <1>4

(***************************************************************************)
(* From the decision of PublishGetInstance (controller.go:313-346) until   *)
(* the operation ends the disk stays as PublishGetDisk has found it.       *)
(***************************************************************************)
LEMMA ExclusionStep ==
    ASSUME OneCallPerVolume, TypeOK, CallsAreQueued, CloudInv, OpsAreAwaited,
           ExclusionInv, [Next]_vars
    PROVE  ExclusionInv'
<1>1. /\ pc \in [Requests -> Steps] /\ local \in [Requests -> Local]
      /\ disks \in [DiskIds -> Disk]
  BY DEF TypeOK, ControllerTypeOK, ComputeTypeOK
<1>2. OneNode'
  <2> SUFFICES ASSUME NEW d \in DiskIds, NEW m \in disks'[d].at, NEW n \in disks'[d].at
               PROVE  m = n
    BY DEF OneNode
  <2>1. ASSUME NEW k \in disks'[d].at, k \notin disks[d].at
        PROVE  disks'[d].at = {k}
    <3>1. PICK q \in Requests : /\ q.kind = "publish" /\ q.disk = d /\ pc[q] = "wait"
                                /\ local[q].outcome = "running"
      BY <2>1, WhoseDiskAttaches
    <3>2. disks[d].at = {}
      BY <3>1 DEF ExclusionInv
    <3>3. disks'[d].at = disks[d].at \cup {k}
      BY <2>1, WhoseDiskAttaches
    <3>4. QED
      BY <3>2, <3>3
  <2>2. CASE m \in disks[d].at /\ n \in disks[d].at
    BY <2>2 DEF ExclusionInv, OneNode
  <2>3. QED
    BY <2>1, <2>2
<1>3. ASSUME NEW r \in Requests, r.kind = "publish",
             pc'[r] \in {"getInstance", "send", "wait"},
             pc'[r] = "wait" => local'[r].outcome = "running"
      PROVE  IF pc'[r] = "getInstance" THEN disks'[r.disk].at \subseteq local'[r].at
                                       ELSE disks'[r.disk].at = {}
  <2>1. ~(Issue(r) \/ Receive(r) \/ FailCall(r))
    BY <1>1, <1>3 DEF Issue, IssueCreate, IssueDelete, IssuePublish, IssueUnpublish,
       IssueExpand, IssueSnapshot, CreateVolume, DeleteVolume, ControllerPublishVolume,
       ControllerUnpublishVolume, ControllerExpandVolume, CreateSnapshot, At, Receive,
       FailCall, CallFails, Goto, Reply
  <2>2. ~Died
    BY <1>3 DEF Died, Crash
  <2>3. \A d \in DiskIds : \A outcome \in {Verdict(r, d), "failed"} : ~Settled(r, d, outcome)
    <3> SUFFICES ASSUME NEW d \in DiskIds, NEW outcome \in {Verdict(r, d), "failed"},
                        Settled(r, d, outcome)
                 PROVE  FALSE
      OBVIOUS
    <3>1. pc'[r] = "wait" /\ local'[r].outcome = outcome
      BY <1>1 DEF Settled, Awaited, Local
    <3>2. outcome # "running"
      BY DEF Verdict
    <3>3. QED
      BY <1>3, <3>1, <3>2
  <2>4. pc[r] # "idle"
    BY <1>3, <2>1, StartedByIssue
  <2>5. disks'[r.disk].at \subseteq disks[r.disk].at
    BY <1>3, <2>4, AttachesAlone
  <2>6. CASE pc'[r] = pc[r] /\ local'[r] = local[r]
    BY <1>3, <2>5, <2>6 DEF ExclusionInv
  <2>7. CASE HandlerStep(r) /\ ~Panic(r)
    <3>1. CASE PublishGetDisk(r)
      <4>1. /\ pc' = [pc EXCEPT ![r] = "getInstance"]
            /\ local' = [local EXCEPT ![r].at = disks[r.disk].at]
        BY <1>1, <1>3, <3>1 DEF PublishGetDisk, Reply
      <4>2. pc'[r] = "getInstance" /\ local'[r].at = disks[r.disk].at
        BY <1>1, <4>1 DEF Local
      <4>3. QED
        BY <2>5, <4>2
    <3>2. CASE PublishGetInstance(r)
      <4>1. pc'[r] = "send" /\ local[r].at = {} /\ pc[r] = "getInstance"
        BY <1>1, <1>3, <3>2 DEF PublishGetInstance, At, Goto, Reply
      <4>2. disks[r.disk].at = {}
        BY <1>3, <4>1 DEF ExclusionInv
      <4>3. QED
        BY <2>5, <4>1, <4>2
    <3>3. CASE PublishDone(r)
      BY <1>1, <1>3, <3>3 DEF PublishDone, Reply
    <3>4. CASE Submit(r)
      <4>1. pc[r] = "send" /\ pc'[r] = "wait"
        BY <1>1, <3>4 DEF Submit, Wait
      <4>2. QED
        BY <1>3, <2>5, <4>1 DEF ExclusionInv
    <3>5. QED
      BY <1>3, <2>7, <3>1, <3>2, <3>3, <3>4
         DEF HandlerStep, ListDisks, CreateDisk, CreateDone, DeleteDone, UnpublishGetDisk,
             UnpublishGetInstance, UnpublishDone, ExpandGetDisk, ExpandDone, At
  <2>8. QED
    BY <2>1, <2>2, <2>3, <2>6, <2>7, Turns
<1>4. QED
  BY <1>2, <1>3 DEF ExclusionInv

(***************************************************************************)
(* At the start nothing is attached and nothing is under way.              *)
(***************************************************************************)
LEMMA InitExclusion == Init => ExclusionInv
<1>1. Init => \A r \in Requests : pc[r] = "idle"
  BY DEF Init, ControllerInit
<1>2. QED
  BY <1>1, InitOneNode DEF ExclusionInv

(***************************************************************************)
(* Such sidecars do without the strict cloud.                              *)
(***************************************************************************)
LEMMA PatienceHolds ==
    ASSUME Patient, OneCallPerVolume
    PROVE  Spec => [](TypeOK /\ CloudInv /\ PublishedStaysAttached /\ OneNode)
<1>1. Patient /\ OneCallPerVolume
  OBVIOUS
<1> DEFINE Held == TypeOK /\ CallsAreQueued /\ CloudInv /\ OpsAreAwaited
<1>2. Held /\ ExclusionInv /\ [Next]_vars => ExclusionInv'
  BY <1>1, ExclusionStep
<1>3. Held /\ AttachInv /\ [Next]_vars => AttachInv'
  BY <1>1, OneByOne, AttachStep
<1>4. ExclusionInv => OneNode
  BY DEF ExclusionInv
<1>5. AttachInv => PublishedStaysAttached
  BY DEF AttachInv
<1>6. Spec => []Held
  BY <1>1, AwaitedHolds
<1>7. QED
  BY <1>2, <1>3, <1>4, <1>5, <1>6, InitExclusion, InitAttach, PTL DEF Spec

-----------------------------------------------------------------------------
(* The contract is kept *)

(***************************************************************************)
(* What the strict cloud guarantees, whatever goes wrong.                  *)
(***************************************************************************)
LEMMA StrictHolds ==
    ASSUME StrictCloud
    PROVE  Spec => [](TypeOK /\ CloudInv /\ PublishedStaysAttached /\ OneNode)
<1>1. StrictCloud
  OBVIOUS
<1>2. TypeOK /\ CloudInv /\ OneNode /\ [Next]_vars => OneNode'
  BY <1>1, OneNodeStep
<1>3. Spec => []PublishedStaysAttached
  BY <1>1, PublicationHolds
<1>4. QED
  BY <1>2, <1>3, InitOneNode, CloudHolds, PTL DEF Spec

(***************************************************************************)
(* One of the two sees to it.                                              *)
(***************************************************************************)
LEMMA ExclusionHolds ==
    ASSUME Exclusive
    PROVE  Spec => [](TypeOK /\ CloudInv /\ PublishedStaysAttached /\ OneNode)
<1>1. CASE StrictCloud
  BY <1>1, StrictHolds
<1>2. CASE Patient /\ OneCallPerVolume
  BY <1>2, PatienceHolds
<1>3. QED
  BY <1>1, <1>2 DEF Exclusive

(***************************************************************************)
(* A disk is attached to one instance at most, although                    *)
(* PublishGetInstance decides on attachments read one call earlier         *)
(* (controller.go:313-346).                                                *)
(***************************************************************************)
THEOREM AttachedOnce ==
    ASSUME Exclusive
    PROVE  Spec => []SingleAttachment
BY ExclusionHolds, OneNodeIsSingle, PTL

(***************************************************************************)
(* The controller service implements its contract: no volume is granted    *)
(* that another node holds, none that is held is removed, and none shrinks *)
(* (VolumeService).                                                        *)
(***************************************************************************)
THEOREM ContractIsKept ==
    ASSUME Exclusive
    PROVE  Spec => KeepsContract
<1>1. TypeOK /\ TypeOK' /\ CloudInv /\ CloudInv' /\ PublishedStaysAttached
        /\ PublishedStaysAttached' /\ OneNode /\ OneNode' /\ [Next]_vars
      => [Service!Next]_(Service!serviceVars)
  BY ContractStep
<1>2. QED
  BY <1>1, ExclusionHolds, InitContract, PTL DEF Spec, KeepsContract, Service!Spec

=============================================================================
