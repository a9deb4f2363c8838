----------------------------- MODULE MCCluster -----------------------------
(* The small clusters the runs of the controller service are about. *)
EXTENDS ClusterProperties

CONSTANTS d1, d2, d3, n1, n2, v1, v2, z1, z2

Blank    == [text |-> "blank", value |-> 0, kibi |-> FALSE]
Doubled  == [text |-> "number", value |-> 2, kibi |-> TRUE]
Range(required, limit) == [required |-> required, limit |-> limit]

Create(v, range, blockSize, zone) ==
    [kind |-> "create", name |-> v, range |-> range, blockSize |-> blockSize, zone |-> zone]
Delete(d)       == [kind |-> "delete", disk |-> d]
Publish(d, n)   == [kind |-> "publish", disk |-> d, node |-> n, readonly |-> FALSE]
ReadOnly(d, n)  == [kind |-> "publish", disk |-> d, node |-> n, readonly |-> TRUE]
Unpublish(d, n) == [kind |-> "unpublish", disk |-> d, node |-> n]
Expand(d, size) == [kind |-> "expand", disk |-> d, range |-> Range(size, 0)]
Snapshot        == [kind |-> "snapshot"]

\* A disk that was created before the driver set block sizes
OldVolume(d, v) == [disk |-> d, name |-> v, size |-> 2, blockSize |-> 0, zone |-> z1]

NoVolumes  == {}
OneVolume  == {OldVolume(d1, v1)}
TwoVolumes == {OldVolume(d1, v1), OldVolume(d2, v2)}

(***************************************************************************)
(* A claim whose topology, then storage class, changes between attempts,   *)
(* and one that is too large for its block size.                           *)
(***************************************************************************)
ProvisionRequests ==
    {Create(v1, Range(3, 0), Blank, z1),
     Create(v1, Range(3, 4), Blank, z2),
     Create(v1, Range(3, 4), Doubled, z2),
     Create(v1, Range(0, 6), Blank, z1),
     Create(v2, Range(0, 0), Doubled, z1)}
    \cup {Delete(d) : d \in DiskIds}

ClaimRequests ==
    {Create(v1, Range(0, 6), Doubled, z1), Create(v2, Range(0, 0), Blank, z2)}

AttachRequests ==
    {Publish(d1, n) : n \in Nodes} \cup {Unpublish(d1, n) : n \in Nodes}

MoveRequests == AttachRequests \cup {ReadOnly(d1, n1), Delete(d1), Snapshot}

ResizeRequests == AttachRequests \cup {Expand(d1, 3)}

\* A claim that is enlarged once more before the first resize is done
GrowRequests == ResizeRequests \cup {Expand(d1, 4)}

LifeRequests ==
    ResizeRequests \cup {Create(v1, Range(2, 0), Blank, z1), Delete(d1)}

=============================================================================
