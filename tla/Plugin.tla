------------------------------- MODULE Plugin -------------------------------
(***************************************************************************)
(* The node plugin on its instance: the process comes, registers the node, *)
(* and goes, and comes again.                                              *)
(*                                                                         *)
(* Not code of the repository, and kept to what concerns it: the kubelet   *)
(* restarts the container, and a liveness probe of the driver's container  *)
(* has a sidecar dial the socket                                           *)
(* (charts/yandex-csi-controller/templates/csi-node.yaml:63-76, 148-156;   *)
(* deploy/1.17 has the sidecar, but no probe that asks it); the            *)
(* registrar (deploy/1.17/csi-node.yaml:20-40) asks NodeGetInfo until it   *)
(* has an answer, and again whenever it likes; the scheduler puts pods     *)
(* with volumes on the node up to the registered limit, and without end    *)
(* where that is not positive.                                             *)
(***************************************************************************)
EXTENDS Process, NodeInfo

CONSTANTS
    Info,           \* the one among Calls that is NodeGetInfo
    Machines,       \* the instances considered
    MaxOwn,         \* bound on the driver's disks on the instance
    Disruptions,    \* what may happen
    MaxDisruptions  \* how many times in a behaviour

DisruptionKinds == {"signal", "killed", "metadata", "listen", "grpcBreaks",
                    "httpBreaks", "apiFails", "foreign"}

ASSUME PluginAssumption ==
    /\ Info \in Calls
    /\ Machines \subseteq Instances
    /\ MaxOwn \in Nat
    /\ Disruptions \subseteq DisruptionKinds
    /\ MaxDisruptions \in Nat

VARIABLES
    instance,    \* the devices of the instance that are not the driver's
    own,         \* how many disks of the driver it has
    answer,      \* what NodeGetInfo is about to answer
    csiNode,     \* what it answered last
    disruptions  \* how many so far

vars == <<processVars, instance, own, answer, csiNode, disruptions>>

\* foreign is there to relate the limit to what it was computed from
Answers == [known : BOOLEAN, limit : Int, foreign : Nat]
NoAnswer == [known |-> FALSE, limit |-> 0, foreign |-> 0]

TypeOK ==
    /\ ProcessTypeOK
    /\ instance \in Instances
    /\ own \in 0 .. MaxOwn
    /\ answer \in Answers /\ csiNode \in Answers
    /\ disruptions \in 0 .. MaxDisruptions

Init ==
    /\ ProcessInit
    /\ instance \in Machines /\ own = 0
    /\ answer = NoAnswer /\ csiNode = NoAnswer
    /\ disruptions = 0

Disrupted(kind) ==
    /\ kind \in Disruptions
    /\ disruptions < MaxDisruptions
    /\ disruptions' = disruptions + 1

Undisturbed == UNCHANGED <<instance, own, csiNode, disruptions>>

\* What NodeGetInfo has read is lost with its handler
KeepAnswer == answer' = IF Info \in handling' THEN answer ELSE NoAnswer

-----------------------------------------------------------------------------
(* The process, its container and its clients *)

\* The metadata service answers, or not within 15 s
GetInstanceIdentity(identified) ==
    IF identified THEN UNCHANGED disruptions ELSE Disrupted("metadata")

StartContainer ==
    /\ \E identified \in BOOLEAN : GetInstanceIdentity(identified) /\ NewDriver(identified)
    /\ UNCHANGED <<instance, own, answer, csiNode>>

Proceed == ProcessStep /\ KeepAnswer /\ Undisturbed

\* The liveness probe does not get through, or gets "not ready"
ProbeFails ==
    /\ phase = "running" /\ ~Probe
    /\ Cancel
    /\ UNCHANGED <<answer, instance, own, csiNode, disruptions>>

Disturb ==
    /\ \/ Cancel /\ Disrupted("signal")
       \/ Kill /\ Disrupted("killed")
       \/ ListenFails /\ Disrupted("listen")
       \/ GrpcBreaks /\ Disrupted("grpcBreaks")
       \/ HttpBreaks /\ Disrupted("httpBreaks")
    /\ KeepAnswer
    /\ UNCHANGED <<instance, own, csiNode>>

Call(c) == Accept(c) /\ UNCHANGED answer /\ Undisturbed

OtherDone(c) == c # Info /\ Finish(c) /\ UNCHANGED answer /\ Undisturbed

-----------------------------------------------------------------------------
(* NodeGetInfo *)

\* a platform that is not listed is an error
GetInstance_WithoutOther ==
    /\ Info \in handling /\ ~answer.known
    /\ hostKnown
    /\ IF instance.platform = "other"
       THEN Finish(Info) /\ UNCHANGED answer
       ELSE /\ answer' = [known |-> TRUE, limit |-> MaxVolumesPerNode(instance, own),
                          foreign |-> Foreign(instance)]
            /\ UNCHANGED processVars
    /\ Undisturbed

\* Instance.Get for the host's own id
GetInstance ==
    /\ Info \in handling /\ ~answer.known
    /\ hostKnown
    /\ answer' = [known |-> TRUE, limit |-> MaxVolumesPerNode(instance, own),
                  foreign |-> Foreign(instance)]
    /\ UNCHANGED processVars /\ Undisturbed

\* It fails, as it does for an empty id
GetInstanceFails ==
    /\ ~answer.known /\ Finish(Info)
    /\ \/ ~hostKnown /\ UNCHANGED disruptions
       \/ hostKnown /\ Disrupted("apiFails")
    /\ UNCHANGED <<answer, instance, own, csiNode>>

Register ==
    /\ answer.known /\ Finish(Info)
    /\ csiNode' = answer /\ answer' = NoAnswer
    /\ UNCHANGED <<instance, own, disruptions>>

-----------------------------------------------------------------------------
(* Pods come and go, and so do devices that are not the driver's *)

Schedule ==
    /\ csiNode.known /\ own < MaxOwn
    /\ own < csiNode.limit \/ csiNode.limit <= 0
    /\ own' = own + 1
    /\ UNCHANGED <<processVars, instance, answer, csiNode, disruptions>>

Unschedule ==
    /\ own > 0 /\ own' = own - 1
    /\ UNCHANGED <<processVars, instance, answer, csiNode, disruptions>>

AttachForeign ==
    /\ Disrupted("foreign")
    /\ instance' = [instance EXCEPT !.secondary = @ + 1]
    /\ UNCHANGED <<processVars, own, answer, csiNode>>

Next ==
    \/ StartContainer \/ Proceed \/ ProbeFails \/ Disturb
    \/ \E c \in Calls : Call(c) \/ OtherDone(c)
    \/ GetInstance \/ GetInstanceFails \/ Register
    \/ Schedule \/ Unschedule \/ AttachForeign

Spec == Init /\ [][Next]_vars

(***************************************************************************)
(* Every goroutine of the process runs, the kubelet restarts and probes,   *)
(* the registrar asks again, and every handler ends; of NodeGetInfo, which *)
(* asks the cloud without a deadline (node.go:371), this assumes that the  *)
(* cloud answers.  Nothing forces pods, signals or failures.               *)
(***************************************************************************)
LiveSpec ==
    /\ Spec
    /\ WF_vars(Proceed) /\ WF_vars(StartContainer) /\ WF_vars(ProbeFails)
    /\ \A c \in Calls : WF_vars(OtherDone(c))
    /\ WF_vars(GetInstance \/ GetInstanceFails) /\ WF_vars(Register)
    /\ WF_vars(~csiNode.known /\ Call(Info))

-----------------------------------------------------------------------------
\* The shutdown goroutine lowers the flag before it stops the server
FlagGoesFirst ==
    /\ phase = "created" => stopper = "waiting"
    /\ phase # "down" /\ stopper = "waiting" => grpc \in {"created", "serving", "broken"}
    /\ phase = "running" /\ ready => stopper = "waiting"

\* Handlers run while the server has not stopped; one that broke is reported
IdleWhenStopped ==
    /\ handling # {} => phase = "running"
    /\ phase # "down" /\ grpc \in {"created", "stopped"} => handling = {}
    /\ phase = "created" => grpc = "created"
    /\ phase = "running" /\ "grpc" \notin group => grpc \in {"stopped", "broken"}
    /\ phase = "running" /\ grpc = "broken" => failed

\* What is left of the platform's limit, or that without the NICs
LimitOf(foreign) ==
    {DisksLimit(instance) - BootDisksCount - foreign - n : n \in {0, instance.nics}}

LimitIsOfInstance ==
    \A a \in {answer, csiNode} : a.known => a.limit \in LimitOf(a.foreign)

(***************************************************************************)
(* What ReadyMeansServing, RunWaitsForHandlers, OwnDisksDoNotCount and     *)
(* AdmittedFits rest on: the order of the shutdown (driver.go:262-286) and *)
(* the limit of NodeGetInfo (node.go:394-429) whoever asks and when.       *)
(***************************************************************************)
PluginInv == TypeOK /\ FlagGoesFirst /\ IdleWhenStopped /\ LimitIsOfInstance

(***************************************************************************)
(* A client that reaches a server which is being stopped is told that it   *)
(* is not ready: the flag goes first (driver.go:271-274, identity.go:77).  *)
(* In a server that broke by itself the flag stays.                        *)
(***************************************************************************)
ReadyMeansServing ==
    phase = "running" /\ ready => grpc \notin {"draining", "stopped"}

(***************************************************************************)
(* Run returns without an error only when no handler runs: a signal cuts   *)
(* no mkfs, no mount and no wait for an operation (driver.go:274, 286).    *)
(***************************************************************************)
RunWaitsForHandlers == [][Return /\ ~failed => handling = {}]_vars

(***************************************************************************)
(* A signal ends the process, whenever it comes: before Run, before Serve, *)
(* with handlers running, after a server broke (main.go:59-62,             *)
(* driver.go:262-286).                                                     *)
(***************************************************************************)
StopsWhenAsked == cancelled /\ phase # "down" ~> phase = "down"

(***************************************************************************)
(* When nothing more happens to it, the plugin serves on its socket and    *)
(* says so, whatever an earlier process left: "remove the socket if it's   *)
(* already there" (driver.go:212-218).  That a server which broke is       *)
(* replaced is the doing of the chart's liveness probe.                    *)
(***************************************************************************)
ServesInTheEnd == <>[](Probe /\ grpc = "serving")

(***************************************************************************)
(* A driver that knows its instance gets the node registered, on every     *)
(* platform (node.go:418-420); one that does not never does, until it is   *)
(* restarted (driver.go:150-158).                                          *)
(***************************************************************************)
RegistersInTheEnd == <>[]hostKnown => <>csiNode.known

(***************************************************************************)
(* The limit does not shrink with the disks the driver attaches itself     *)
(* (node.go:385-390), however they come and go between a question and its  *)
(* answer; the NICs, which count from 14 devices on (425-429), are all     *)
(* that two answers may differ by.                                         *)
(***************************************************************************)
OwnDisksDoNotCount ==
    [][csiNode.known /\ csiNode'.foreign = csiNode.foreign
       => csiNode'.limit - csiNode.limit \in -instance.nics .. instance.nics]_vars

(***************************************************************************)
(* A volume that is admitted fits: with the boot disk and the foreign      *)
(* devices that were there when the limit was asked for, the instance      *)
(* stays within its platform's limit (node.go:394-421), unless the limit   *)
(* came out zero or negative, which is no limit to the scheduler.          *)
(***************************************************************************)
AdmittedFits ==
    [][own' > own /\ csiNode.limit > 0
       => BootDisksCount + csiNode.foreign + own' <= DisksLimit(instance)]_vars

=============================================================================
