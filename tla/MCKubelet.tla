----------------------------- MODULE MCKubelet -----------------------------
(* The small nodes the runs of the node service are about. *)
EXTENDS Kubelet, TLC

CONSTANTS v1, p1, p2, g1, g2

\* Two pods share a volume, one after the other or at the same time
OneVolume == p1 :> v1 @@ p2 :> v1

(***************************************************************************)
(* What NodeExpandVolume is told makes a difference to block volumes only  *)
(* (NodeExpandVolume in Node): without one, one of the two values will do. *)
(***************************************************************************)
OmittedForBlockOnly == capability = "omitted" => \E v \in Volumes : IsBlock(v)

PodStartInit == Init /\ OmittedForBlockOnly

PodStartSpec == PodStartInit /\ [][Next]_vars /\ Progress /\ Retry

=============================================================================
