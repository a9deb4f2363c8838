--------------------------- MODULE VolumeService ---------------------------
(***************************************************************************)
(* What the controller service promises to a cluster, with no handler, no  *)
(* operation and no failure in sight: volumes that grow, each held by at   *)
(* most one node, as SINGLE_NODE_WRITER (driver/controller.go:84) says,    *)
(* and removed only when nobody holds them.                                *)
(***************************************************************************)
EXTENDS Integers

CONSTANTS DiskIds, Nodes

VARIABLES
    volume,  \* "unused", "present" or "removed": an id is never used again
    size,
    holder   \* the node that holds each volume, as a set of none or one

serviceVars == <<volume, size, holder>>

Init ==
    /\ volume \in [DiskIds -> {"unused", "present"}]
    /\ size \in [DiskIds -> Int]
    /\ holder = [d \in DiskIds |-> {}]

Provision(d) ==
    /\ volume[d] = "unused"
    /\ volume' = [volume EXCEPT ![d] = "present"]
    /\ size' = [size EXCEPT ![d] = size'[d]]
    /\ UNCHANGED holder

Grow(d) ==
    /\ volume[d] = "present"
    /\ size'[d] > size[d]
    /\ size' = [size EXCEPT ![d] = size'[d]]
    /\ UNCHANGED <<volume, holder>>

Remove(d) ==
    /\ volume[d] = "present" /\ holder[d] = {}
    /\ volume' = [volume EXCEPT ![d] = "removed"]
    /\ UNCHANGED <<size, holder>>

Grant(d, n) ==
    /\ volume[d] = "present" /\ holder[d] = {}
    /\ holder' = [holder EXCEPT ![d] = {n}]
    /\ UNCHANGED <<volume, size>>

Withdraw(d) ==
    /\ holder[d] # {}
    /\ holder' = [holder EXCEPT ![d] = {}]
    /\ UNCHANGED <<volume, size>>

\* A node disappears, with everything it holds
Lose(n) ==
    /\ holder' = [d \in DiskIds |-> holder[d] \ {n}]
    /\ UNCHANGED <<volume, size>>

Next ==
    \/ \E d \in DiskIds : Provision(d) \/ Grow(d) \/ Remove(d) \/ Withdraw(d)
    \/ \E d \in DiskIds, n \in Nodes : Grant(d, n)
    \/ \E n \in Nodes : Lose(n)

Spec == Init /\ [][Next]_serviceVars

=============================================================================
