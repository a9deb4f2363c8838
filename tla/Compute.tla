------------------------------ MODULE Compute ------------------------------
(***************************************************************************)
(* The Compute service of the cloud, as driver/controller.go uses it: the  *)
(* disks with the instances each is attached to, the instances, and the    *)
(* long-running operations the service has accepted and not finished.      *)
(*                                                                         *)
(* Nothing here is code of the repository.  What is modelled is what the   *)
(* driver relies on, calls and tests for: the fields it reads (Id, Name,   *)
(* Size, BlockSize, ZoneId, InstanceIds), the error codes it tells apart   *)
(* (NotFound; "attached to non-stopped instance"; any other) and the fact  *)
(* that a call returns an operation which outlives the caller's interest.  *)
(***************************************************************************)
EXTENDS Sizing, FiniteSets

CONSTANTS
    Names,           \* names of volumes
    DiskIds,         \* ids the service hands out, each at most once
    Nodes,           \* instances, by node id
    Zones,
    Requests,        \* the CSI calls the sidecars may make, see RequestsAssumption
    InitialVolumes,  \* records [disk, name, size, blockSize, zone]: volumes there at the start
    StrictCloud,     \* the service itself refuses a second disk of a name, a second
                     \* attachment of a disk and a second operation on a disk
    NoDisk, NoName, NoZone

Kinds == {"create", "delete", "publish", "unpublish", "expand", "snapshot"}

(***************************************************************************)
(* A request is the arguments of one CSI call:                             *)
(*   create    [kind, name, range, blockSize, zone]                        *)
(*   delete    [kind, disk]                                                *)
(*   publish   [kind, disk, node, readonly]                                *)
(*   unpublish [kind, disk, node]                                          *)
(*   expand    [kind, disk, range]                                         *)
(*   snapshot  [kind]                                                      *)
(***************************************************************************)
ASSUME RequestsAssumption ==
    \A r \in Requests :
       /\ r.kind \in Kinds
       /\ r.kind = "create" => /\ r.name \in Names
                               /\ r.zone \in Zones
                               /\ r.blockSize \in RawBlockSize
       /\ r.kind \in {"create", "expand"} => r.range \in CapacityRange
       /\ r.kind \in {"delete", "publish", "unpublish", "expand"} => r.disk \in DiskIds
       /\ r.kind \in {"publish", "unpublish"} => r.node \in Nodes

ASSUME ComputeAssumption ==
    /\ StrictCloud \in BOOLEAN
    /\ NoDisk \notin DiskIds /\ NoName \notin Names /\ NoZone \notin Zones
    /\ InitialVolumes \subseteq
          [disk : DiskIds, name : Names, size : Nat, blockSize : Nat, zone : Zones]
    /\ \A v, w \in InitialVolumes : v.disk = w.disk \/ v.name = w.name => v = w

VARIABLES
    disks,  \* the disks by id
    inst,   \* the state of each instance
    ops     \* <<request, disk>>: accepted operations that have not finished

computeVars == <<disks, inst, ops>>

Disk == [state : {"none", "creating", "ready", "gone"}, name : Names \cup {NoName},
         size : Int, blockSize : Int, zone : Zones \cup {NoZone}, at : SUBSET Nodes]

ComputeTypeOK ==
    /\ disks \in [DiskIds -> Disk]
    /\ inst \in [Nodes -> {"running", "stopped", "gone"}]
    /\ ops \subseteq Requests \X DiskIds

NewDisk(state, name, size, blockSize, zone) ==
    [state |-> state, name |-> name, size |-> size, blockSize |-> blockSize,
     zone |-> zone, at |-> {}]

ComputeInit ==
    /\ disks = [d \in DiskIds |->
                  IF \E v \in InitialVolumes : v.disk = d
                  THEN LET v == CHOOSE v \in InitialVolumes : v.disk = d
                       IN  NewDisk("ready", v.name, v.size, v.blockSize, v.zone)
                  ELSE NewDisk("none", NoName, 0, 0, NoZone)]
    /\ inst = [n \in Nodes |-> "running"]
    /\ ops = {}

-----------------------------------------------------------------------------
(* What the service answers *)

\* Get and List see a disk from the moment its creation is accepted
Exists(d) == disks[d].state \in {"creating", "ready"}
Named(name) == {d \in DiskIds : Exists(d) /\ disks[d].name = name}

Busy(d) == \E o \in ops : o[2] = d

(***************************************************************************)
(* The outcome of the operation r asks for on disk d in the present state. *)
(* "attached" is the FailedPrecondition "attached to non-stopped instance".*)
(***************************************************************************)
Verdict(r, d) ==
    LET needsInstance == r.kind \in {"publish", "unpublish"} IN
    IF ~Exists(d) \/ (needsInstance /\ inst[r.node] = "gone") THEN "notFound"
    ELSE IF r.kind = "create" THEN "done"
    ELSE IF r.kind = "expand" /\ \E n \in disks[d].at : inst[n] = "running" THEN "attached"
    ELSE IF /\ disks[d].state = "ready"
            /\ r.kind = "delete"    => disks[d].at = {}
            /\ r.kind = "publish"   => (StrictCloud => disks[d].at = {})
            /\ r.kind = "unpublish" => r.node \in disks[d].at
            /\ r.kind = "expand"    => disks[d].size <= ExtractedSize(r.range)
         THEN "done"
    ELSE "failed"

\* An operation on an existing disk is refused at once or accepted
Answer(r, d) == IF StrictCloud /\ Busy(d) /\ Exists(d) THEN "failed" ELSE Verdict(r, d)

\* The disk after operation r on it has finished well
Changed(r, disk) ==
    CASE r.kind = "create"    -> [disk EXCEPT !.state = "ready"]
      [] r.kind = "delete"    -> [disk EXCEPT !.state = "gone"]
      [] r.kind = "publish"   -> [disk EXCEPT !.at = @ \cup {r.node}]
      [] r.kind = "unpublish" -> [disk EXCEPT !.at = @ \ {r.node}]
      [] r.kind = "expand"    -> [disk EXCEPT !.size = ExtractedSize(r.range)]
      [] OTHER                -> disk

-----------------------------------------------------------------------------
(* What the service does *)

\* A disk is created for request r: it is listed under its name from now on
Allocate(r, d) ==
    /\ disks[d].state = "none"
    /\ disks' = [disks EXCEPT ![d] = NewDisk("creating", r.name, ExtractedSize(r.range),
                                             BlockSizeOf(r.blockSize), r.zone)]

\* A new id is there, and the strict service has no disk of that name
CanAllocate(r) ==
    /\ \E d \in DiskIds : disks[d].state = "none"
    /\ StrictCloud => Named(r.name) = {}

\* Operation o finishes; its outcome depends on the state it finds
Finish(o, outcome) ==
    /\ o \in ops
    /\ ops' = ops \ {o}
    /\ disks' = IF outcome = "done"
                THEN [disks EXCEPT ![o[2]] = Changed(o[1], @)]
                ELSE disks

\* Operation o fails inside the service; a disk that was being created is dropped
Break(o) ==
    /\ o \in ops
    /\ ops' = ops \ {o}
    /\ disks' = IF o[1].kind = "create"
                THEN [disks EXCEPT ![o[2]].state = "gone"]
                ELSE disks

StopInstance(n) ==
    /\ inst[n] = "running"
    /\ inst' = [inst EXCEPT ![n] = "stopped"]
    /\ UNCHANGED <<disks, ops>>

StartInstance(n) ==
    /\ inst[n] = "stopped"
    /\ inst' = [inst EXCEPT ![n] = "running"]
    /\ UNCHANGED <<disks, ops>>

\* Disks are attached without AutoDelete: they survive the instance, detached
DeleteInstance(n) ==
    /\ inst[n] # "gone"
    /\ inst' = [inst EXCEPT ![n] = "gone"]
    /\ disks' = [d \in DiskIds |-> [disks[d] EXCEPT !.at = @ \ {n}]]
    /\ UNCHANGED ops

\* A disk is made larger from the control panel
PanelResize(d, size) ==
    /\ disks[d].state = "ready"
    /\ ~Busy(d)
    /\ \A n \in disks[d].at : inst[n] # "running"
    /\ disks[d].size < size
    /\ disks' = [disks EXCEPT ![d].size = size]
    /\ UNCHANGED <<inst, ops>>

=============================================================================
