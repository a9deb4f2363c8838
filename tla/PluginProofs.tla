---------------------------- MODULE PluginProofs ----------------------------
(***************************************************************************)
(* Theorems about the node plugin, for every set of RPCs and instances,    *)
(* any bound on the disks and any disruptions.                             *)
(***************************************************************************)
EXTENDS Plugin, TLAPS

\* What a step of the plugin is to its process
ProcessMoves ==
    \/ \E identified \in BOOLEAN : NewDriver(identified)
    \/ ProcessStep
    \/ Cancel \/ Kill \/ ListenFails \/ GrpcBreaks \/ HttpBreaks
    \/ \E c \in Calls : Accept(c) \/ Finish(c)
    \/ UNCHANGED processVars

ProcessInv == ProcessTypeOK /\ FlagGoesFirst /\ IdleWhenStopped

-----------------------------------------------------------------------------
(* The process *)

(***************************************************************************)
(* Each step of the node plugin is one of its process, or leaves it alone. *)
(***************************************************************************)
LEMMA NextMovesProcess == [Next]_vars => ProcessMoves
<1>1. CASE StartContainer
  BY <1>1 DEF StartContainer, ProcessMoves
<1>2. CASE Proceed
  BY <1>2 DEF Proceed, ProcessMoves
<1>3. CASE ProbeFails
  BY <1>3 DEF ProbeFails, ProcessMoves
<1>4. CASE Disturb
  BY <1>4 DEF Disturb, ProcessMoves
<1>5. CASE \E c \in Calls : Call(c) \/ OtherDone(c)
  BY <1>5 DEF Call, OtherDone, ProcessMoves
<1>6. CASE GetInstance
  BY <1>6 DEF GetInstance, ProcessMoves
<1>7. CASE GetInstanceFails \/ Register
  BY <1>7, PluginAssumption DEF PluginAssumption, GetInstanceFails, Register, ProcessMoves
<1>8. CASE Schedule \/ Unschedule \/ AttachForeign
  BY <1>8 DEF Schedule, Unschedule, AttachForeign, ProcessMoves
<1>9. CASE UNCHANGED vars
  BY <1>9 DEF vars, ProcessMoves
<1>10. QED
  BY <1>1, <1>2, <1>3, <1>4, <1>5, <1>6, <1>7, <1>8, <1>9 DEF Next

(***************************************************************************)
(* The shutdown keeps its order whatever interrupts it: main.go:59-62 and  *)
(* driver.go:256-286 with the goroutines in any order.                     *)
(***************************************************************************)
LEMMA ProcessKeepsOrder ==
    ASSUME ProcessInv, ProcessMoves
    PROVE  ProcessInv'
<1> USE DEF ProcessInv, ProcessTypeOK, Servers, FlagGoesFirst, IdleWhenStopped
<1>1. ASSUME NEW identified \in BOOLEAN, NewDriver(identified) PROVE ProcessInv'
  BY <1>1 DEF NewDriver
<1>2. CASE ListenFails \/ Kill
  BY <1>2 DEF ListenFails, Kill, Exit
<1>3. CASE Cancel
  BY <1>3 DEF Cancel
<1>4. CASE GrpcBreaks
  BY <1>4 DEF GrpcBreaks, Ends
<1>5. CASE HttpBreaks
  BY <1>5 DEF HttpBreaks, Ends
<1>6. ASSUME NEW c \in Calls, Accept(c) PROVE ProcessInv'
  BY <1>6 DEF Accept
<1>7. ASSUME NEW c \in Calls, Finish(c) PROVE ProcessInv'
  BY <1>7 DEF Finish
<1>8. CASE ProcessStep
  <2>1. CASE Run
    BY <2>1 DEF Run, Launch
  <2>2. CASE Return
    BY <2>2 DEF Return, Exit
  <2>3. CASE ShutdownHttp \/ HttpReturns
    <3>1. /\ phase = "running" /\ group' \subseteq group
          /\ "grpc" \in group => "grpc" \in group'
          /\ http' \in Servers /\ failed' = failed
          /\ UNCHANGED <<phase, hostKnown, ready, cancelled, socket, grpc, stopper, handling>>
      BY <2>3 DEF ShutdownHttp, HttpReturns, Ends
    <3>2. QED
      BY <3>1
  <2>4. CASE ServeHttp \/ ServeGrpc
    <3>1. /\ phase = "running" /\ http' \in Servers
          /\ grpc' = grpc \/ (grpc' = "serving" /\ "grpc" \in group)
          /\ UNCHANGED <<phase, hostKnown, ready, cancelled, socket, group, failed, stopper, handling>>
      BY <2>4 DEF ServeHttp, ServeGrpc, Serves
    <3>2. CASE grpc' = grpc
      BY <3>1, <3>2
    <3>3. CASE grpc' = "serving"
      BY <3>1, <3>3
    <3>4. QED
      BY <3>1, <3>2, <3>3
  <2>5. CASE ServeTooLate \/ GrpcReturns
    <3>1. /\ phase = "running" /\ group' \subseteq group
          /\ grpc \in {"created", "stopped"} /\ grpc' = "stopped"
          /\ stopper = "done" \/ grpc = "stopped"
          /\ socket' \in BOOLEAN /\ failed' \in BOOLEAN
          /\ UNCHANGED <<phase, hostKnown, ready, cancelled, http, stopper, handling>>
      BY <2>5 DEF ServeTooLate, GrpcReturns, Ends
    <3>2. stopper # "waiting"
      BY <3>1
    <3>3. QED
      BY <3>1, <3>2
  <2>6. CASE MarkNotReady
    BY <2>6 DEF MarkNotReady
  <2>7. CASE GracefulStop
    BY <2>7 DEF GracefulStop
  <2>8. CASE Drained
    BY <2>8 DEF Drained
  <2>9. QED
    BY <1>8, <2>1, <2>2, <2>3, <2>4, <2>5, <2>6, <2>7, <2>8 DEF ProcessStep
<1>9. CASE UNCHANGED processVars
  BY <1>9 DEF processVars
<1>10. QED
  BY <1>1, <1>2, <1>3, <1>4, <1>5, <1>6, <1>7, <1>8, <1>9 DEF ProcessMoves

-----------------------------------------------------------------------------
(* NodeGetInfo *)

(***************************************************************************)
(* NodeGetInfo answers what is left of the platform's limit (node.go:421), *)
(* or that without the NICs (node.go:428), whatever the driver attached.   *)
(***************************************************************************)
LEMMA LimitIsWhatIsLeft ==
    ASSUME NEW i \in Instances, NEW n \in Nat
    PROVE  /\ DisksLimit(i) \in Nat /\ Foreign(i) \in Nat
           /\ MaxVolumesPerNode(i, n) \in Int
           /\ \E k \in {0, i.nics} :
                 MaxVolumesPerNode(i, n) = DisksLimit(i) - BootDisksCount - Foreign(i) - k
<1>1. DisksLimit(i) \in Nat
  BY DEF DisksLimit
<1>2. Foreign(i) \in Nat /\ i.nics \in Nat
  BY DEF Foreign, Instances
<1>3. QED
  BY <1>1, <1>2 DEF MaxVolumesPerNode, BootDisksCount

(***************************************************************************)
(* A device attached by someone else changes neither the limit of the      *)
(* instance nor its network cards.                                         *)
(***************************************************************************)
LEMMA AttachForeignKeepsLimit ==
    ASSUME instance \in Instances, AttachForeign
    PROVE  /\ instance' \in Instances
           /\ DisksLimit(instance') = DisksLimit(instance)
           /\ instance'.nics = instance.nics
<1>1. /\ instance' = [instance EXCEPT !.secondary = instance.secondary + 1]
      /\ instance.secondary \in Nat
  BY DEF AttachForeign, Instances
<1>2. /\ instance' \in Instances
      /\ instance'.platform = instance.platform /\ instance'.cores = instance.cores
      /\ instance'.nics = instance.nics
  BY <1>1 DEF Instances
<1>3. QED
  BY <1>2 DEF DisksLimit

(***************************************************************************)
(* What is answered is right for the instance as it was when asked, and    *)
(* stays right: devices that come later do not change its platform.        *)
(***************************************************************************)
LEMMA NextKeepsLimit ==
    ASSUME TypeOK, LimitIsOfInstance, [Next]_vars
    PROVE  /\ instance' \in Instances /\ own' \in 0 .. MaxOwn
           /\ answer' \in Answers /\ csiNode' \in Answers
           /\ disruptions' \in 0 .. MaxDisruptions
           /\ LimitIsOfInstance'
<1> DEFINE Keeps == /\ instance' \in Instances /\ own' \in 0 .. MaxOwn
                    /\ answer' \in Answers /\ csiNode' \in Answers
                    /\ disruptions' \in 0 .. MaxDisruptions
                    /\ LimitIsOfInstance'
<1>1. /\ instance \in Instances /\ own \in 0 .. MaxOwn /\ own \in Nat
      /\ answer \in Answers /\ csiNode \in Answers
      /\ disruptions \in 0 .. MaxDisruptions /\ MaxDisruptions \in Nat /\ MaxOwn \in Nat
  BY PluginAssumption DEF TypeOK, PluginAssumption
<1>2. NoAnswer \in Answers /\ ~NoAnswer.known
  BY DEF NoAnswer, Answers
<1>3. ASSUME NEW kind, Disrupted(kind) PROVE disruptions' \in 0 .. MaxDisruptions
  BY <1>1, <1>3 DEF Disrupted
<1>4. ASSUME UNCHANGED <<instance, own, csiNode>>,
             disruptions' \in 0 .. MaxDisruptions,
             answer' = answer \/ answer' = NoAnswer
      PROVE  Keeps
  BY <1>1, <1>2, <1>4 DEF LimitIsOfInstance, LimitOf
<1>5. CASE StartContainer \/ Disturb \/ GetInstanceFails
  <2>1. disruptions' = disruptions \/ \E kind \in DisruptionKinds : Disrupted(kind)
    BY <1>5 DEF StartContainer, GetInstanceIdentity, Disturb, GetInstanceFails, DisruptionKinds
  <2>2. /\ UNCHANGED <<instance, own, csiNode>>
        /\ answer' = answer \/ answer' = NoAnswer
    BY <1>5 DEF StartContainer, Disturb, GetInstanceFails, KeepAnswer
  <2>3. QED
    BY <1>1, <1>3, <1>4, <2>1, <2>2
<1>6. CASE Proceed \/ ProbeFails \/ \E c \in Calls : Call(c) \/ OtherDone(c)
  <2>1. /\ UNCHANGED <<instance, own, csiNode, disruptions>>
        /\ answer' = answer \/ answer' = NoAnswer
    BY <1>6 DEF Proceed, ProbeFails, Call, OtherDone, Undisturbed, KeepAnswer
  <2>2. QED
    BY <1>1, <1>4, <2>1
<1>7. CASE GetInstance
  <2>1. /\ answer' = [known |-> TRUE, limit |-> MaxVolumesPerNode(instance, own),
                      foreign |-> Foreign(instance)]
        /\ UNCHANGED <<instance, own, csiNode, disruptions>>
    BY <1>7 DEF GetInstance, Undisturbed
  <2>2. /\ MaxVolumesPerNode(instance, own) \in LimitOf(Foreign(instance))
        /\ MaxVolumesPerNode(instance, own) \in Int /\ Foreign(instance) \in Nat
    BY <1>1, LimitIsWhatIsLeft DEF LimitOf
  <2>3. /\ answer' \in Answers
        /\ answer'.limit \in LimitOf(answer'.foreign)
    BY <2>1, <2>2 DEF Answers
  <2>4. LimitIsOfInstance'
    BY <2>1, <2>3 DEF LimitIsOfInstance, LimitOf
  <2>5. QED
    BY <1>1, <2>1, <2>3, <2>4
<1>8. CASE Register
  <2>1. /\ csiNode' = answer /\ answer' = NoAnswer
        /\ UNCHANGED <<instance, own, disruptions>>
    BY <1>8 DEF Register
  <2>2. QED
    BY <1>1, <1>2, <2>1 DEF LimitIsOfInstance, LimitOf
<1>9. CASE Schedule \/ Unschedule
  <2>1. /\ own' \in 0 .. MaxOwn
        /\ UNCHANGED <<instance, answer, csiNode, disruptions>>
    BY <1>1, <1>9 DEF Schedule, Unschedule
  <2>2. QED
    BY <1>1, <2>1 DEF LimitIsOfInstance, LimitOf
<1>10. CASE AttachForeign
  <2>1. UNCHANGED <<own, answer, csiNode>> /\ Disrupted("foreign")
    BY <1>10 DEF AttachForeign
  <2>2. /\ instance' \in Instances
        /\ DisksLimit(instance') = DisksLimit(instance)
        /\ instance'.nics = instance.nics
    BY <1>1, <1>10, AttachForeignKeepsLimit
  <2>3. QED
    BY <1>1, <1>3, <2>1, <2>2 DEF LimitIsOfInstance, LimitOf
<1>11. CASE UNCHANGED vars
  BY <1>1, <1>4, <1>11 DEF vars
<1>12. QED
  BY <1>5, <1>6, <1>7, <1>8, <1>9, <1>10, <1>11 DEF Next

-----------------------------------------------------------------------------
(* Theorems *)

(***************************************************************************)
(* At the start nothing serves and nothing is registered.                  *)
(***************************************************************************)
LEMMA InitPluginInv == Init => PluginInv
<1> SUFFICES ASSUME Init PROVE PluginInv
  OBVIOUS
<1>1. NoAnswer \in Answers /\ ~NoAnswer.known
  BY DEF NoAnswer, Answers
<1>2. TypeOK
  <2>1. ProcessTypeOK
    BY DEF Init, ProcessInit, ProcessTypeOK, Servers
  <2>2. instance \in Instances /\ own \in 0 .. MaxOwn /\ disruptions \in 0 .. MaxDisruptions
    BY PluginAssumption DEF Init, PluginAssumption
  <2>3. QED
    BY <1>1, <2>1, <2>2 DEF Init, TypeOK
<1>3. FlagGoesFirst /\ IdleWhenStopped
  BY DEF Init, ProcessInit, FlagGoesFirst, IdleWhenStopped
<1>4. LimitIsOfInstance
  BY <1>1 DEF Init, LimitIsOfInstance
<1>5. QED
  BY <1>2, <1>3, <1>4 DEF PluginInv

(***************************************************************************)
(* Every step of the process, the cloud and the sidecars keeps it.         *)
(***************************************************************************)
LEMMA NextPluginInv == PluginInv /\ [Next]_vars => PluginInv'
<1> SUFFICES ASSUME PluginInv, [Next]_vars PROVE PluginInv'
  OBVIOUS
<1>1. ProcessInv'
  BY NextMovesProcess, ProcessKeepsOrder DEF PluginInv, TypeOK, ProcessInv
<1>2. TypeOK' /\ LimitIsOfInstance'
  BY <1>1, NextKeepsLimit DEF PluginInv, TypeOK, ProcessInv
<1>3. QED
  BY <1>1, <1>2 DEF PluginInv, ProcessInv

(***************************************************************************)
(* The order of the shutdown and the registered limit are invariant, for   *)
(* any RPCs in flight, any instances and any interruptions.                *)
(***************************************************************************)
THEOREM PluginInvariant == Spec => []PluginInv
  BY InitPluginInv, NextPluginInv, PTL DEF Spec

(***************************************************************************)
(* A server that is being stopped, or has stopped, never says "ready"      *)
(* (driver.go:271-274, identity.go:77-88).                                 *)
(***************************************************************************)
THEOREM ReadyIsServing == Spec => []ReadyMeansServing
<1>1. PluginInv => ReadyMeansServing
  BY DEF PluginInv, FlagGoesFirst, ReadyMeansServing
<1>2. QED
  BY <1>1, PluginInvariant, PTL

(***************************************************************************)
(* Run returns nil only when every handler has ended (driver.go:274, 286). *)
(***************************************************************************)
THEOREM NoHandlerIsCut == Spec => RunWaitsForHandlers
<1>1. ASSUME PluginInv, Return, ~failed PROVE handling = {}
  BY <1>1 DEF PluginInv, IdleWhenStopped, Return
<1>2. PluginInv /\ [Next]_vars => [Return /\ ~failed => handling = {}]_vars
  BY <1>1
<1>3. QED
  BY <1>2, PluginInvariant, PTL DEF Spec, RunWaitsForHandlers

(***************************************************************************)
(* Two answers of NodeGetInfo given for the same foreign devices differ by *)
(* no more than the NICs, however many disks the driver attached or        *)
(* detached in between (node.go:385-390, 421-429).                         *)
(***************************************************************************)
THEOREM LimitIgnoresOwnDisks == Spec => OwnDisksDoNotCount
<1>1. ASSUME PluginInv, PluginInv', [Next]_vars,
             csiNode.known, csiNode'.foreign = csiNode.foreign
      PROVE  csiNode'.limit - csiNode.limit \in -instance.nics .. instance.nics
  <2>1. /\ instance \in Instances /\ csiNode \in Answers /\ csiNode' \in Answers
        /\ DisksLimit(instance) \in Nat /\ instance.nics \in Nat
    BY <1>1, LimitIsWhatIsLeft DEF PluginInv, TypeOK, Instances
  <2>2. CASE csiNode' = csiNode
    BY <2>1, <2>2 DEF Answers
  <2>3. CASE Register
    <3>1. csiNode' = answer /\ answer.known
      BY <2>3 DEF Register
    <3>2. /\ answer.limit \in LimitOf(answer.foreign)
          /\ csiNode.limit \in LimitOf(csiNode.foreign)
      BY <1>1, <3>1 DEF PluginInv, LimitIsOfInstance
    <3>3. QED
      BY <1>1, <2>1, <3>1, <3>2 DEF LimitOf, BootDisksCount, Answers
  <2>4. csiNode' = csiNode \/ Register
    BY <1>1 DEF Next, vars, StartContainer, Proceed, ProbeFails, Disturb, Call, OtherDone,
                GetInstance, GetInstanceFails, Schedule, Unschedule, AttachForeign, Undisturbed
  <2>5. QED
    BY <2>2, <2>3, <2>4
<1>2. PluginInv /\ PluginInv' /\ [Next]_vars
      => [csiNode.known /\ csiNode'.foreign = csiNode.foreign
          => csiNode'.limit - csiNode.limit \in -instance.nics .. instance.nics]_vars
  BY <1>1
<1>3. QED
  BY <1>2, PluginInvariant, PTL DEF Spec, OwnDisksDoNotCount

(***************************************************************************)
(* A volume that is scheduled within the registered limit fits the limit   *)
(* of the platform (node.go:394-421).                                      *)
(***************************************************************************)
THEOREM ScheduledFits == Spec => AdmittedFits
<1>1. ASSUME PluginInv, [Next]_vars, own' > own, csiNode.limit > 0
      PROVE  BootDisksCount + csiNode.foreign + own' <= DisksLimit(instance)
  <2>1. instance \in Instances /\ own \in Nat /\ csiNode \in Answers
    BY <1>1 DEF PluginInv, TypeOK
  <2>2. own' = own \/ own' = own - 1 \/ Schedule
    BY <1>1 DEF Next, vars, StartContainer, Proceed, ProbeFails, Disturb, Call, OtherDone,
                GetInstance, GetInstanceFails, Register, Unschedule, AttachForeign, Undisturbed
  <2>3. Schedule
    BY <1>1, <2>1, <2>2
  <2>4. csiNode.known /\ own < csiNode.limit /\ own' = own + 1
    BY <1>1, <2>1, <2>3 DEF Schedule, Answers
  <2>5. csiNode.limit \in LimitOf(csiNode.foreign)
    BY <1>1, <2>4 DEF PluginInv, LimitIsOfInstance
  <2>6. csiNode.limit <= DisksLimit(instance) - BootDisksCount - csiNode.foreign
    <3>1. DisksLimit(instance) \in Nat /\ instance.nics \in Nat /\ csiNode.foreign \in Nat
      BY <2>1, LimitIsWhatIsLeft DEF Instances, Answers
    <3>2. QED
      BY <2>5, <3>1 DEF LimitOf, BootDisksCount
  <2>7. QED
    BY <2>1, <2>4, <2>6, LimitIsWhatIsLeft DEF BootDisksCount, Answers
<1>2. PluginInv /\ [Next]_vars
      => [own' > own /\ csiNode.limit > 0
          => BootDisksCount + csiNode.foreign + own' <= DisksLimit(instance)]_vars
  BY <1>1
<1>3. QED
  BY <1>2, PluginInvariant, PTL DEF Spec, AdmittedFits

=============================================================================
