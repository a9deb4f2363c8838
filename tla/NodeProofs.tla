----------------------------- MODULE NodeProofs -----------------------------
(***************************************************************************)
(* Theorems about the node service under its kubelet, for every set of     *)
(* volumes, pods and goroutines.                                           *)
(***************************************************************************)
EXTENDS Kubelet, TLAPS

\* The steps of NodeStageVolume that lead to mkfs
Formatting == {"blkid", "mkfs", "formatting"}

\* A goroutine that is busy has a call; one that may format, one for a file system
CallsAreKnown ==
    \A g \in Goroutines :
       /\ pc[g] # "idle" => call[g] \in Call
       /\ pc[g] \in Formatting => mode[call[g].volume] = "filesystem"

KeptInv == TypeOK /\ CallsAreKnown /\ KeptAsIs

\* The kubelet waits for every goroutine, and for one per volume
OneCallEach ==
    /\ \A g \in Goroutines : pc[g] # "idle" <=> g \in awaited
    /\ \A g, h \in awaited : call[g].volume = call[h].volume => g = h

\* The device is there as long as the kubelet may have the volume staged
DeviceIsThere ==
    /\ \A v \in Volumes : device[v] # "coming"
    /\ \A v \in Volumes : staged[v] # "no" => device[v] = "present"
    /\ \A g \in awaited :
          call[g].kind \in {"stage", "expand"} => staged[call[g].volume] # "no"

\* mkfs is run for a volume that is blank, and what is blank is not mounted
BlankWhenFormatted ==
    /\ \A g \in Goroutines : pc[g] \in {"mkfs", "formatting"} => content[call[g].volume] = "blank"
    /\ \A v \in Volumes : mode[v] = "filesystem" /\ MountedSomewhere(v) => content[v] # "blank"

DataInv == KeptInv /\ OneCallEach /\ DeviceIsThere /\ BlankWhenFormatted /\ DataSurvives

-----------------------------------------------------------------------------
(* What a goroutine may do to the node *)

\* A command of goroutine g, done or failed
Moves(g) == NodeStep(g) \/ CommandFails(g) \/ IsFormattedFails(g)

\* It is at step next afterwards
GoesTo(g, next) ==
    /\ pc[g] # "idle" /\ next \in Commands \ {"idle", "called"}
    /\ pc' = [pc EXCEPT ![g] = next]
    /\ call' = call
    /\ res' = res \/ \E code \in {"ok", "failed"} : res' = [res EXCEPT ![g] = code]
    /\ UNCHANGED diskVars

LooksOnly(g) ==
    /\ \E next \in Commands \ Formatting : GoesTo(g, next)
    /\ UNCHANGED <<storeVars, mounts>>

AsksForFormat(g) ==
    /\ GoesTo(g, "blkid") /\ mode[call[g].volume] = "filesystem"
    /\ UNCHANGED <<storeVars, mounts>>

FindsNoFormat(g) ==
    /\ pc[g] = "blkid" /\ GoesTo(g, "mkfs") /\ call[g].kind = "stage"
    /\ device[call[g].volume] # "present" \/ content[call[g].volume] = "blank"
    /\ UNCHANGED <<storeVars, mounts>>

Erases(g) ==
    /\ pc[g] = "mkfs" /\ GoesTo(g, "formatting")
    /\ content' = [content EXCEPT ![call[g].volume] = "blank"]
    /\ ~MountedSomewhere(call[g].volume)
    /\ fsSize' \in [Volumes -> Nat] /\ UNCHANGED mounts

Formats(g) ==
    /\ pc[g] = "formatting" /\ GoesTo(g, "fsck")
    /\ content' = [content EXCEPT ![call[g].volume] = "formatted"]
    /\ fsSize' \in [Volumes -> Nat] /\ UNCHANGED mounts

Grows(g) ==
    /\ GoesTo(g, "answered")
    /\ fsSize' \in [Volumes -> Nat] /\ UNCHANGED <<content, mounts>>

Mounts(g) ==
    /\ GoesTo(g, "answered")
    /\ \E path \in Paths, source \in Sources :
          /\ mounts' = [mounts EXCEPT ![path] = <<source>> \o mounts[path]]
          /\ source \in Volumes /\ mode[source] = "filesystem"
                => content[source] # "blank" \/ MountedSomewhere(source)
    /\ UNCHANGED storeVars

Uncovers(g) ==
    /\ GoesTo(g, "answered")
    /\ \E path \in Paths : /\ IsMounted(path)
                           /\ mounts' = [mounts EXCEPT ![path] = Tail(mounts[path])]
    /\ UNCHANGED storeVars

(***************************************************************************)
(* A call is about a volume and a path of the node.                        *)
(***************************************************************************)
LEMMA CallHasVolumeAndPath ==
    ASSUME NEW c \in Call
    PROVE  /\ c.volume \in Volumes
           /\ PathOf(c) \in Paths
           /\ c.kind \in {"stage", "unstage", "expand", "publish", "unpublish"}
BY DEF Call, PathOf, Paths, Staging, Target

(***************************************************************************)
(* A path shows a volume that is mounted on it, or the host's directory.   *)
(***************************************************************************)
LEMMA ShownIsMounted ==
    ASSUME mounts \in [Paths -> Seq(Sources)], NEW path \in Paths
    PROVE  /\ Shown(path) \in Sources
           /\ Shown(path) \in Volumes => MountedSomewhere(Shown(path))
<1>1. CASE IsMounted(path)
  <2>1. /\ mounts[path] \in Seq(Sources) /\ mounts[path] # <<>>
        /\ Shown(path) = Head(mounts[path])
    BY <1>1 DEF IsMounted, Shown
  <2>2. /\ 1 \in 1 .. Len(mounts[path]) /\ mounts[path][1] = Shown(path)
        /\ Shown(path) \in Sources
    BY <2>1
  <2>3. QED
    BY <2>2 DEF MountedSomewhere
<1>2. CASE ~IsMounted(path)
  BY <1>2, NodeAssumption DEF Shown, NodeAssumption, Sources
<1>3. QED
  BY <1>1, <1>2

(***************************************************************************)
(* A goroutine that runs a command goes to that command.                   *)
(***************************************************************************)
LEMMA RunGoes ==
    ASSUME NEW g, NEW next \in Commands \ {"idle", "called"},
           pc[g] # "idle", Run(g, next), UNCHANGED diskVars
    PROVE  GoesTo(g, next)
BY DEF Run, GoesTo

(***************************************************************************)
(* A goroutine that replies goes to its answer.                            *)
(***************************************************************************)
LEMMA ReplyGoes ==
    ASSUME NEW g, NEW code \in {"ok", "failed"},
           pc[g] # "idle", Reply(g, code), UNCHANGED diskVars
    PROVE  GoesTo(g, "answered")
BY DEF Reply, GoesTo, Commands

(***************************************************************************)
(* A question followed by another command changes nothing on the node.     *)
(***************************************************************************)
LEMMA LooksAndRuns ==
    ASSUME NEW g, NEW next \in Commands \ {"idle", "called", "blkid", "mkfs", "formatting"},
           pc[g] # "idle", Run(g, next), UNCHANGED machineVars
    PROVE  LooksOnly(g)
BY RunGoes DEF LooksOnly, machineVars, diskVars, storeVars, Formatting

(***************************************************************************)
(* A question followed by the answer changes nothing on the node.          *)
(***************************************************************************)
LEMMA LooksAndReplies ==
    ASSUME NEW g, NEW code \in {"ok", "failed"},
           pc[g] # "idle", Reply(g, code), UNCHANGED machineVars
    PROVE  LooksOnly(g)
<1>1. GoesTo(g, "answered")
  BY ReplyGoes DEF machineVars
<1>2. QED
  BY <1>1 DEF LooksOnly, machineVars, Commands, Formatting

(***************************************************************************)
(* Every command of every handler has one of these effects.                *)
(***************************************************************************)
LEMMA MovesHaveEffect ==
    ASSUME NodeTypeOK, CallsAreKnown, NEW g \in Goroutines, Moves(g)
    PROVE  \/ LooksOnly(g) \/ AsksForFormat(g) \/ FindsNoFormat(g) \/ Erases(g)
           \/ Formats(g) \/ Grows(g) \/ Mounts(g) \/ Uncovers(g)
<1> DEFINE v == call[g].volume
           path == PathOf(call[g])
<1>1. /\ "fsck" \in Commands \ {"idle", "called", "blkid", "mkfs", "formatting"}
      /\ "findmnt" \in Commands \ {"idle", "called", "blkid", "mkfs", "formatting"}
      /\ "mount" \in Commands \ {"idle", "called", "blkid", "mkfs", "formatting"}
      /\ "umount" \in Commands \ {"idle", "called", "blkid", "mkfs", "formatting"}
      /\ "resize2fs" \in Commands \ {"idle", "called", "blkid", "mkfs", "formatting"}
      /\ "blkid" \in Commands \ {"idle", "called"}
      /\ "mkfs" \in Commands \ {"idle", "called"}
      /\ "formatting" \in Commands \ {"idle", "called"}
  BY DEF Commands
<1>2. pc[g] # "idle" => /\ call[g] \in Call /\ v \in Volumes /\ path \in Paths
                        /\ mode[v] \in Modes
  BY CallHasVolumeAndPath DEF CallsAreKnown, NodeTypeOK
<1>3. UNCHANGED machineVars => UNCHANGED diskVars /\ UNCHANGED <<storeVars, mounts>>
  BY DEF machineVars
<1>4. CASE NodeStageVolume(g)
  <2>1. pc[g] # "idle" /\ UNCHANGED machineVars
    BY <1>4 DEF NodeStageVolume, At
  <2>2. CASE Reply(g, "ok")
    BY <2>1, <2>2, LooksAndReplies
  <2>3. CASE mode[v] = "annotated" /\ Run(g, "fsck")
    BY <1>1, <2>1, <2>3, LooksAndRuns
  <2>4. CASE mode[v] = "filesystem" /\ Run(g, "blkid")
    BY <1>1, <1>3, <2>1, <2>4, RunGoes DEF AsksForFormat
  <2>5. QED
    BY <1>2, <1>4, <2>1, <2>2, <2>3, <2>4 DEF NodeStageVolume, IsBlock, Modes
<1>5. CASE IsFormatted(g)
  <2>1. pc[g] = "blkid" /\ call[g].kind = "stage" /\ UNCHANGED machineVars
    BY <1>5 DEF IsFormatted, At
  <2>2. CASE device[v] = "present" /\ content[v] # "blank" /\ Run(g, "fsck")
    BY <1>1, <2>1, <2>2, LooksAndRuns
  <2>3. CASE (device[v] # "present" \/ content[v] = "blank") /\ Run(g, "mkfs")
    BY <1>1, <1>3, <2>1, <2>3, RunGoes DEF FindsNoFormat
  <2>4. QED
    BY <1>5, <2>2, <2>3 DEF IsFormatted
<1>6. CASE Format(g)
  <2>1. pc[g] = "mkfs" /\ UNCHANGED <<diskVars, mounts>>
    BY <1>6 DEF Format, At
  <2>2. CASE Reply(g, "failed") /\ UNCHANGED storeVars
    BY <2>1, <2>2, LooksAndReplies DEF machineVars
  <2>3. CASE /\ ~MountedSomewhere(v) /\ Run(g, "formatting")
             /\ content' = [content EXCEPT ![v] = "blank"]
             /\ fsSize' = [fsSize EXCEPT ![v] = 0]
    <3>1. fsSize' \in [Volumes -> Nat]
      BY <2>3 DEF NodeTypeOK
    <3>2. GoesTo(g, "formatting")
      BY <1>1, <2>1, <2>3, RunGoes
    <3>3. QED
      BY <2>1, <2>3, <3>1, <3>2 DEF Erases
  <2>4. QED
    BY <1>6, <2>2, <2>3 DEF Format
<1>7. CASE FormatDone(g)
  <2>1. pc[g] = "formatting" /\ UNCHANGED <<diskVars, mounts>>
    BY <1>7 DEF FormatDone, At
  <2>2. CASE Reply(g, "failed") /\ UNCHANGED storeVars
    BY <2>1, <2>2, LooksAndReplies DEF machineVars
  <2>3. CASE /\ Run(g, "fsck")
             /\ content' = [content EXCEPT ![v] = "formatted"]
             /\ fsSize' = [fsSize EXCEPT ![v] = capacity[v]]
    <3>1. fsSize' \in [Volumes -> Nat]
      BY <1>2, <2>1, <2>3 DEF NodeTypeOK
    <3>2. GoesTo(g, "fsck")
      BY <1>1, <2>1, <2>3, RunGoes
    <3>3. QED
      BY <2>1, <2>3, <3>1, <3>2 DEF Formats
  <2>4. QED
    BY <1>7, <2>2, <2>3 DEF FormatDone
<1>8. CASE CheckAndRepairFilesystem(g)
  BY <1>1, <1>8, LooksAndRuns DEF CheckAndRepairFilesystem, At
<1>9. CASE StageIsMounted(g) \/ PublishIsMounted(g)
  <2>1. pc[g] # "idle" /\ UNCHANGED machineVars /\ (Reply(g, "ok") \/ Run(g, "mount"))
    BY <1>9 DEF StageIsMounted, PublishIsMounted, At
  <2>2. QED
    BY <1>1, <2>1, LooksAndRuns, LooksAndReplies
<1>10. CASE StageMount(g)
  <2>1. /\ pc[g] # "idle" /\ call[g].kind = "stage" /\ UNCHANGED <<diskVars, storeVars>>
    BY <1>10 DEF StageMount, At
  <2>2. CASE Reply(g, "failed") /\ UNCHANGED mounts
    BY <2>1, <2>2, LooksAndReplies DEF machineVars
  <2>3. CASE /\ content[v] # "blank" /\ Reply(g, "ok")
             /\ mounts' = [mounts EXCEPT ![Staging(v)] = <<v>> \o @]
    <3>1. Staging(v) \in Paths /\ v \in Sources
      BY <1>2, <2>1 DEF Paths, Sources
    <3>2. QED
      BY <2>1, <2>3, <3>1, ReplyGoes DEF Mounts
  <2>4. QED
    BY <1>10, <2>2, <2>3 DEF StageMount
<1>11. CASE NodePublishVolume(g)
  BY <1>1, <1>11, LooksAndRuns, LooksAndReplies DEF NodePublishVolume, At
<1>12. CASE PublishMount(g)
  <2> DEFINE source == IF IsBlock(v) THEN v ELSE Shown(Staging(v))
  <2>1. /\ pc[g] # "idle" /\ UNCHANGED <<diskVars, storeVars>>
    BY <1>12 DEF PublishMount, At
  <2>2. CASE Reply(g, "failed") /\ UNCHANGED mounts
    BY <2>1, <2>2, LooksAndReplies DEF machineVars
  <2>3. CASE Reply(g, "ok") /\ mounts' = [mounts EXCEPT ![path] = <<source>> \o @]
    <3>1. Staging(v) \in Paths
      BY <1>2, <2>1 DEF Paths
    <3>2. /\ source \in Sources
          /\ source \in Volumes /\ mode[source] = "filesystem" => MountedSomewhere(source)
      <4>1. CASE IsBlock(v)
        BY <1>2, <2>1, <4>1 DEF IsBlock, Sources
      <4>2. CASE ~IsBlock(v)
        BY <3>1, <4>2, ShownIsMounted DEF NodeTypeOK
      <4>3. QED
        BY <4>1, <4>2
    <3>3. GoesTo(g, "answered")
      BY <2>1, <2>3, ReplyGoes
    <3>4. QED
      BY <1>2, <2>1, <2>3, <3>2, <3>3 DEF Mounts
  <2>4. QED
    BY <1>12, <2>2, <2>3 DEF PublishMount
<1>13. CASE NodeUnmountVolume(g)
  BY <1>1, <1>13, LooksAndRuns DEF NodeUnmountVolume
<1>14. CASE UnmountIsMounted(g)
  BY <1>1, <1>14, LooksAndRuns, LooksAndReplies DEF UnmountIsMounted
<1>15. CASE Unmount(g)
  <2>1. pc[g] # "idle" /\ UNCHANGED <<diskVars, storeVars>>
    BY <1>15 DEF Unmount
  <2>2. CASE Reply(g, "failed") /\ UNCHANGED mounts
    BY <2>1, <2>2, LooksAndReplies DEF machineVars
  <2>3. CASE /\ IsMounted(path) /\ Reply(g, "ok")
             /\ mounts' = [mounts EXCEPT ![path] = Tail(@)]
    BY <1>2, <2>1, <2>3, ReplyGoes DEF Uncovers
  <2>4. QED
    BY <1>15, <2>2, <2>3 DEF Unmount
<1>16. CASE NodeExpandVolume(g)
  <2>1. /\ pc[g] # "idle" /\ UNCHANGED machineVars
        /\ Run(g, "resize2fs") \/ \E code \in {"ok", "failed"} : Reply(g, code)
    BY <1>16 DEF NodeExpandVolume, At
  <2>2. QED
    BY <1>1, <2>1, LooksAndRuns, LooksAndReplies
<1>17. CASE Resize(g)
  <2>1. pc[g] # "idle" /\ UNCHANGED <<diskVars, content, mounts>>
    BY <1>17 DEF Resize, At
  <2>2. CASE Reply(g, "failed") /\ UNCHANGED fsSize
    BY <2>1, <2>2, LooksAndReplies DEF machineVars, storeVars
  <2>3. CASE Reply(g, "ok") /\ fsSize' = [fsSize EXCEPT ![v] = capacity[v]]
    <3>1. fsSize' \in [Volumes -> Nat]
      BY <1>2, <2>1, <2>3 DEF NodeTypeOK
    <3>2. GoesTo(g, "answered")
      BY <2>1, <2>3, ReplyGoes
    <3>3. QED
      BY <2>1, <3>1, <3>2 DEF Grows
  <2>4. QED
    BY <1>17, <2>2, <2>3 DEF Resize
<1>18. CASE CommandFails(g)
  BY <1>18, LooksAndReplies DEF CommandFails, MayFail
<1>19. CASE IsFormattedFails(g)
  BY <1>19, LooksAndReplies DEF IsFormattedFails, At
<1>20. QED
  BY <1>4, <1>5, <1>6, <1>7, <1>8, <1>9, <1>10, <1>11, <1>12, <1>13, <1>14, <1>15,
     <1>16, <1>17, <1>18, <1>19 DEF Moves, NodeStep

-----------------------------------------------------------------------------
(* Type correctness, and the volumes that are not to be formatted *)

(***************************************************************************)
(* Going on to another command keeps the types of what goroutines know;    *)
(* only a volume in mode filesystem is formatted.                          *)
(***************************************************************************)
LEMMA GoesToType ==
    ASSUME NodeTypeOK, CallsAreKnown, NEW g \in Goroutines, NEW next, GoesTo(g, next),
           next \in Formatting => mode[call[g].volume] = "filesystem"
    PROVE  /\ pc' \in [Goroutines -> Commands] /\ call' \in [Goroutines -> Call \cup {NoCall}]
           /\ res' \in [Goroutines -> {"none", "ok", "failed"}]
           /\ mode' \in [Volumes -> Modes] /\ capability' \in {"sent", "omitted"}
           /\ capacity' \in [Volumes -> Nat]
           /\ device' \in [Volumes -> {"absent", "coming", "present"}]
           /\ CallsAreKnown'
<1>1. /\ pc[g] # "idle" /\ pc' = [pc EXCEPT ![g] = next] /\ next \in Commands
      /\ call' = call /\ UNCHANGED <<mode, capability, device, capacity>>
      /\ res' = res \/ \E code \in {"ok", "failed"} : res' = [res EXCEPT ![g] = code]
  BY DEF GoesTo, diskVars
<1>2. res' \in [Goroutines -> {"none", "ok", "failed"}]
  BY <1>1 DEF NodeTypeOK
<1>3. CallsAreKnown'
  BY <1>1 DEF CallsAreKnown, NodeTypeOK
<1>4. QED
  BY <1>1, <1>2, <1>3 DEF NodeTypeOK

(***************************************************************************)
(* A command, failed or not, keeps the types.                              *)
(***************************************************************************)
LEMMA MovesType ==
    ASSUME NodeTypeOK, CallsAreKnown, NEW g \in Goroutines, Moves(g)
    PROVE  NodeTypeOK' /\ CallsAreKnown'
<1> DEFINE StoreType == /\ content' \in [Volumes -> {"blank", "formatted", "data"}]
                        /\ fsSize' \in [Volumes -> Nat]
                        /\ mounts' \in [Paths -> Seq(Sources)]
           Gone == \E next \in Commands :
                      /\ GoesTo(g, next)
                      /\ next \in Formatting => mode[call[g].volume] = "filesystem"
<1>1. pc[g] \in Formatting => mode[call[g].volume] = "filesystem"
  BY DEF CallsAreKnown
<1>2. Gone /\ StoreType => NodeTypeOK' /\ CallsAreKnown'
  BY GoesToType DEF NodeTypeOK
<1>3. CASE LooksOnly(g)
  BY <1>2, <1>3 DEF LooksOnly, storeVars, NodeTypeOK
<1>4. CASE AsksForFormat(g)
  BY <1>2, <1>4 DEF AsksForFormat, storeVars, NodeTypeOK, Commands
<1>5. CASE FindsNoFormat(g)
  BY <1>1, <1>2, <1>5 DEF FindsNoFormat, storeVars, NodeTypeOK, Commands, Formatting
<1>6. CASE Erases(g)
  BY <1>1, <1>2, <1>6 DEF Erases, NodeTypeOK, Commands, Formatting
<1>7. CASE Formats(g)
  BY <1>2, <1>7 DEF Formats, NodeTypeOK, Commands, Formatting
<1>8. CASE Grows(g)
  BY <1>2, <1>8 DEF Grows, NodeTypeOK, Commands, Formatting
<1>9. CASE Mounts(g)
  <2>1. PICK path \in Paths, source \in Sources :
           mounts' = [mounts EXCEPT ![path] = <<source>> \o mounts[path]]
    BY <1>9 DEF Mounts
  <2>2. mounts[path] \in Seq(Sources) /\ <<source>> \o mounts[path] \in Seq(Sources)
    BY DEF NodeTypeOK
  <2>3. mounts' \in [Paths -> Seq(Sources)]
    BY <2>1, <2>2 DEF NodeTypeOK
  <2>4. QED
    BY <1>2, <1>9, <2>3 DEF Mounts, storeVars, NodeTypeOK, Commands, Formatting
<1>10. CASE Uncovers(g)
  <2>1. PICK path \in Paths : /\ IsMounted(path)
                              /\ mounts' = [mounts EXCEPT ![path] = Tail(mounts[path])]
    BY <1>10 DEF Uncovers
  <2>2. mounts[path] \in Seq(Sources) /\ mounts[path] # <<>>
    BY <2>1 DEF NodeTypeOK, IsMounted
  <2>3. Tail(mounts[path]) \in Seq(Sources)
    BY <2>2
  <2>4. mounts' \in [Paths -> Seq(Sources)]
    BY <2>1, <2>3 DEF NodeTypeOK
  <2>5. QED
    BY <1>2, <1>10, <2>4 DEF Uncovers, storeVars, NodeTypeOK, Commands, Formatting
<1>11. QED
  BY <1>3, <1>4, <1>5, <1>6, <1>7, <1>8, <1>9, <1>10, MovesHaveEffect

(***************************************************************************)
(* No command formats a volume that is not in mode filesystem              *)
(* (node.go:159-176).                                                      *)
(***************************************************************************)
LEMMA MovesKeepAsIs ==
    ASSUME NodeTypeOK, CallsAreKnown, KeptAsIs, written \subseteq Volumes,
           NEW g \in Goroutines, Moves(g), UNCHANGED written
    PROVE  KeptAsIs'
<1>1. /\ pc[g] \in Formatting => mode[call[g].volume] = "filesystem"
      /\ mode' = mode
  BY MovesHaveEffect
     DEF CallsAreKnown, LooksOnly, AsksForFormat, FindsNoFormat, Erases, Formats, Grows,
         Mounts, Uncovers, GoesTo, diskVars
<1>2. CASE content' = content
  BY <1>1, <1>2 DEF KeptAsIs
<1>3. CASE Erases(g) \/ Formats(g)
  <2>1. /\ mode[call[g].volume] = "filesystem"
        /\ \A v \in Volumes : v # call[g].volume => content'[v] = content[v]
    BY <1>1, <1>3 DEF Erases, Formats, Formatting, NodeTypeOK
  <2>2. QED
    BY <1>1, <2>1 DEF KeptAsIs
<1>4. QED
  BY <1>2, <1>3, MovesHaveEffect
     DEF LooksOnly, AsksForFormat, FindsNoFormat, Grows, Mounts, Uncovers, storeVars

(***************************************************************************)
(* A call that is sent keeps the types of the node.                        *)
(***************************************************************************)
LEMMA SendType ==
    ASSUME NodeTypeOK, CallsAreKnown, NEW g \in Goroutines, NEW c \in Call, Send(g, c)
    PROVE  NodeTypeOK' /\ CallsAreKnown'
<1>1. /\ call' = [call EXCEPT ![g] = c] /\ pc' = [pc EXCEPT ![g] = "called"]
      /\ UNCHANGED <<res, mode, capability, device, capacity, content, fsSize, mounts>>
  BY DEF Send, machineVars, diskVars, storeVars
<1>2. CallsAreKnown'
  BY <1>1 DEF CallsAreKnown, NodeTypeOK, Formatting
<1>3. QED
  BY <1>1, <1>2 DEF NodeTypeOK, Commands

\* The actions that send a call
Sends(g) ==
    \/ \E v \in Volumes : StageAttached(g, v) \/ Expand(g, v) \/ Unstage(g, v)
    \/ \E p \in Pods : Publish(g, p) \/ Unpublish(g, p)

(***************************************************************************)
(* Whatever the kubelet asks for is one call, and changes nothing on the   *)
(* node.                                                                   *)
(***************************************************************************)
LEMMA SendsCall ==
    ASSUME NEW g \in Goroutines, Sends(g)
    PROVE  /\ \E c \in Call : Send(g, c)
           /\ UNCHANGED <<machineVars, pod, expanding, written, disruptions>>
<1>1. \E c \in Call : Send(g, c)
  <2>1. ASSUME NEW v \in Volumes, StageAttached(g, v) \/ Expand(g, v) \/ Unstage(g, v)
        PROVE  \E c \in Call : Send(g, c)
    <3>1. \A kind \in {"stage", "unstage", "expand"} : [kind |-> kind, volume |-> v] \in Call
      BY DEF Call
    <3>2. QED
      BY <2>1, <3>1 DEF StageAttached, Stage, Expand, Unstage
  <2>2. ASSUME NEW p \in Pods, Publish(g, p) \/ Unpublish(g, p)
        PROVE  \E c \in Call : Send(g, c)
    <3>1. \A kind \in {"publish", "unpublish"} :
             [kind |-> kind, volume |-> Uses[p], pod |-> p] \in Call
      BY NodeAssumption DEF NodeAssumption, Call
    <3>2. QED
      BY <2>2, <3>1 DEF Publish, Unpublish
  <2>3. QED
    BY <2>1, <2>2 DEF Sends
<1>2. QED
  BY <1>1 DEF Send

\* The type of what the kubelet knows
KubeletTypeOK ==
    /\ pod \in [Pods -> {"new", "running", "deleted"}]
    /\ staged \in [Volumes -> Known \cup {"mounted"}]
    /\ published \in [Pods -> Known]
    /\ awaited \subseteq Goroutines
    /\ expanding \subseteq Volumes
    /\ written \subseteq Volumes

(***************************************************************************)
(* A call that is sent keeps the types of what the kubelet knows.          *)
(***************************************************************************)
LEMMA SendsType ==
    ASSUME KubeletTypeOK, NEW g \in Goroutines, Sends(g)
    PROVE  KubeletTypeOK'
<1>1. awaited' = awaited \cup {g} /\ UNCHANGED <<pod, expanding, written>>
  BY SendsCall DEF Send
<1>2. /\ staged' \in [Volumes -> Known \cup {"mounted"}]
      /\ published' \in [Pods -> Known]
  <2>1. CASE \E v \in Volumes : StageAttached(g, v) \/ Expand(g, v) \/ Unstage(g, v)
    BY <2>1 DEF StageAttached, Stage, Expand, Unstage, KubeletTypeOK, Known
  <2>2. CASE \E p \in Pods : Publish(g, p) \/ Unpublish(g, p)
    BY <2>2 DEF Publish, Unpublish, KubeletTypeOK, Known
  <2>3. QED
    BY <2>1, <2>2 DEF Sends
<1>3. QED
  BY <1>1, <1>2 DEF KubeletTypeOK

(***************************************************************************)
(* What the kubelet learns from an answer keeps the types.                 *)
(***************************************************************************)
LEMMA LearnType ==
    ASSUME KubeletTypeOK, NEW c \in Call, Learn(c)
    PROVE  /\ staged' \in [Volumes -> Known \cup {"mounted"}]
           /\ published' \in [Pods -> Known]
           /\ expanding' \subseteq Volumes
<1>1. expanding' \subseteq Volumes
  BY DEF Learn, KubeletTypeOK
<1>2. staged' \in [Volumes -> Known \cup {"mounted"}]
  BY DEF Learn, KubeletTypeOK, Known
<1>3. published' \in [Pods -> Known]
  BY DEF Learn, KubeletTypeOK, Known
<1>4. QED
  BY <1>1, <1>2, <1>3

(***************************************************************************)
(* Every step of the kubelet's node is of one of these kinds.              *)
(***************************************************************************)
LEMMA NextIsOneOf ==
    ASSUME [Next]_vars
    PROVE  \/ \E g \in Goroutines : \/ Moves(g) /\ UNCHANGED kubeletVars
                                    \/ Receive(g) \/ GiveUp(g) \/ Sends(g)
           \/ \E p \in Pods : StartPod(p) \/ DeletePod(p) \/ Write(p)
           \/ \E v \in Volumes : Attach(v) \/ LinkAppears(v) \/ Detach(v) \/ Enlarge(v)
           \/ Restart \/ Reboot \/ UNCHANGED vars
BY DEF Next, Step, FailCommand, Moves, Sends

(***************************************************************************)
(* No step goes beyond the bound on disruptions.                           *)
(***************************************************************************)
LEMMA DisruptionsAreCounted ==
    ASSUME disruptions \in 0 .. MaxDisruptions, [Next]_vars
    PROVE  disruptions' \in 0 .. MaxDisruptions
<1>1. MaxDisruptions \in Nat
  BY KubeletAssumption DEF KubeletAssumption
<1>2. ASSUME NEW kind, Disrupted(kind) PROVE disruptions' \in 0 .. MaxDisruptions
  BY <1>1, <1>2 DEF Disrupted
<1>3. CASE \E g \in Goroutines : Sends(g)
  BY <1>3, SendsCall
<1>4. CASE UNCHANGED disruptions
  BY <1>4
<1>5. UNCHANGED disruptions \/ (\E kind : Disrupted(kind)) \/ \E g \in Goroutines : Sends(g)
  BY DEF Next, vars, Step, Receive, FailCommand, GiveUp, Sends, StartPod, DeletePod, Write,
         Attach, LinkAppears, Detach, Enlarge, Restart, Reboot
<1>6. QED
  BY <1>2, <1>3, <1>4, <1>5

(***************************************************************************)
(* Every step keeps the types, and leaves volumes that are not to be       *)
(* formatted as they are.                                                  *)
(***************************************************************************)
LEMMA NextKeptInv ==
    ASSUME KeptInv, [Next]_vars
    PROVE  KeptInv'
<1> DEFINE Kept == NodeTypeOK' /\ KubeletTypeOK' /\ CallsAreKnown' /\ KeptAsIs'
<1>1. NodeTypeOK /\ KubeletTypeOK /\ CallsAreKnown /\ KeptAsIs
  BY DEF KeptInv, TypeOK, KubeletTypeOK
<1>2. UNCHANGED <<mode, content, written>> => KeptAsIs'
  BY <1>1 DEF KeptAsIs
<1>3. UNCHANGED goroutineVars /\ UNCHANGED mode => CallsAreKnown'
  BY <1>1 DEF CallsAreKnown, goroutineVars
<1>0. ASSUME UNCHANGED nodeVars, UNCHANGED written PROVE NodeTypeOK' /\ CallsAreKnown' /\ KeptAsIs'
  <2>1. /\ UNCHANGED <<mode, capability, device, capacity, content, fsSize, mounts>>
        /\ UNCHANGED goroutineVars /\ UNCHANGED <<call, pc, res>>
    BY <1>0 DEF nodeVars, machineVars, diskVars, storeVars, goroutineVars
  <2>2. NodeTypeOK'
    BY <1>1, <2>1 DEF NodeTypeOK
  <2>3. QED
    BY <1>0, <1>2, <1>3, <2>1, <2>2
<1>4. ASSUME NEW g \in Goroutines, Moves(g), UNCHANGED kubeletVars PROVE Kept
  <2>1. NodeTypeOK' /\ CallsAreKnown'
    BY <1>1, <1>4, MovesType
  <2>2. KeptAsIs'
    BY <1>1, <1>4, MovesKeepAsIs DEF kubeletVars, KubeletTypeOK
  <2>3. KubeletTypeOK'
    BY <1>1, <1>4 DEF kubeletVars, KubeletTypeOK
  <2>4. QED
    BY <2>1, <2>2, <2>3
<1>5. ASSUME NEW g \in Goroutines, Receive(g) PROVE Kept
  <2>1. /\ pc[g] = "answered" /\ pc' = [pc EXCEPT ![g] = "idle"]
        /\ call' = [call EXCEPT ![g] = NoCall] /\ res' = [res EXCEPT ![g] = "none"]
        /\ awaited' = awaited \ {g} /\ UNCHANGED <<machineVars, pod, written>>
        /\ Learn(call[g]) \/ UNCHANGED <<staged, published, expanding>>
    BY <1>5 DEF Receive
  <2>2. call[g] \in Call
    BY <1>1, <2>1 DEF CallsAreKnown
  <2>3. NodeTypeOK'
    BY <1>1, <2>1 DEF NodeTypeOK, machineVars, diskVars, storeVars, Commands
  <2>4. CallsAreKnown'
    BY <1>1, <2>1 DEF CallsAreKnown, NodeTypeOK, machineVars, diskVars, Formatting
  <2>5. KubeletTypeOK'
    BY <1>1, <2>1, <2>2, LearnType DEF KubeletTypeOK
  <2>6. KeptAsIs'
    BY <1>2, <2>1 DEF machineVars, diskVars, storeVars
  <2>7. QED
    BY <2>3, <2>4, <2>5, <2>6
<1>6. ASSUME NEW g \in Goroutines, Sends(g) PROVE Kept
  <2>1. NodeTypeOK' /\ CallsAreKnown'
    BY <1>1, <1>6, SendsCall, SendType
  <2>2. KubeletTypeOK'
    BY <1>1, <1>6, SendsType
  <2>3. KeptAsIs'
    BY <1>2, <1>6, SendsCall DEF machineVars, diskVars, storeVars
  <2>4. QED
    BY <2>1, <2>2, <2>3
<1>7. ASSUME NEW p \in Pods, StartPod(p) \/ DeletePod(p) PROVE Kept
  BY <1>0, <1>1, <1>7 DEF StartPod, DeletePod, KubeletTypeOK
<1>8. ASSUME NEW p \in Pods, Write(p) PROVE Kept
  <2>1. /\ content' = [content EXCEPT ![Uses[p]] = "data"] /\ Uses[p] \in Volumes
        /\ written' = written \cup {Uses[p]}
        /\ UNCHANGED <<diskVars, fsSize, mounts, goroutineVars, pod, staged, published, awaited,
                       expanding>>
    BY <1>8, NodeAssumption DEF Write, NodeAssumption
  <2>2. NodeTypeOK' /\ KubeletTypeOK' /\ CallsAreKnown'
    BY <1>1, <1>3, <2>1 DEF NodeTypeOK, KubeletTypeOK, diskVars, goroutineVars
  <2>3. KeptAsIs'
    BY <1>1, <2>1 DEF KeptAsIs, NodeTypeOK, diskVars
  <2>4. QED
    BY <2>2, <2>3
<1>9. ASSUME NEW v \in Volumes, Attach(v) \/ LinkAppears(v) \/ Detach(v) PROVE Kept
  <2>1. PICK state \in {"absent", "coming", "present"} : LinkBecomes(v, state)
    BY <1>9 DEF Attach, LinkAppears, Detach
  <2>2. NodeTypeOK' /\ KubeletTypeOK'
    BY <1>1, <2>1 DEF LinkBecomes, NodeTypeOK, KubeletTypeOK, storeVars, goroutineVars, kubeletVars
  <2>3. QED
    BY <1>2, <1>3, <2>1, <2>2 DEF LinkBecomes, storeVars, kubeletVars
<1>10. ASSUME NEW v \in Volumes, Enlarge(v) PROVE Kept
  <2>1. NodeTypeOK' /\ KubeletTypeOK'
    BY <1>1, <1>10 DEF Enlarge, NodeTypeOK, KubeletTypeOK, storeVars, goroutineVars
  <2>2. QED
    BY <1>2, <1>3, <1>10, <2>1 DEF Enlarge, storeVars
<1>11. ASSUME NEW g \in Goroutines, GiveUp(g) PROVE Kept
  BY <1>0, <1>1, <1>11 DEF GiveUp, KubeletTypeOK
<1>12. ASSUME Restart \/ Reboot PROVE Kept
  <2>1. /\ ProcessDies /\ UNCHANGED <<mode, capability, capacity, storeVars>>
        /\ UNCHANGED <<pod, expanding, written>> /\ awaited' = {}
    BY <1>12 DEF Restart, Reboot, machineVars, diskVars
  <2>2. /\ device' \in [Volumes -> {"absent", "coming", "present"}]
        /\ mounts' \in [Paths -> Seq(Sources)]
    <3>1. CASE UNCHANGED machineVars
      BY <1>1, <3>1 DEF NodeTypeOK, machineVars, diskVars
    <3>2. CASE Reboot
      <4>1. <<>> \in Seq(Sources)
        OBVIOUS
      <4>2. QED
        BY <3>2, <4>1 DEF Reboot
    <3>3. QED
      BY <1>12, <3>1, <3>2 DEF Restart
  <2>3. /\ staged' \in [Volumes -> Known \cup {"mounted"}]
        /\ published' \in [Pods -> Known]
    BY <1>1, <1>12 DEF Restart, Reboot, KubeletTypeOK, Known
  <2>4. NodeTypeOK' /\ KubeletTypeOK'
    BY <1>1, <2>1, <2>2, <2>3 DEF ProcessDies, NodeTypeOK, KubeletTypeOK, storeVars, Commands
  <2>5. CallsAreKnown'
    BY <2>1 DEF ProcessDies, CallsAreKnown, Formatting
  <2>6. UNCHANGED <<mode, content, written>>
    BY <2>1 DEF storeVars
  <2>7. QED
    BY <1>2, <2>4, <2>5, <2>6
<1>13. ASSUME UNCHANGED vars PROVE Kept
  BY <1>0, <1>1, <1>13 DEF vars, kubeletVars, KubeletTypeOK
<1> HIDE DEF Kept
<1>14. disruptions' \in 0 .. MaxDisruptions
  BY DisruptionsAreCounted DEF KeptInv, TypeOK
<1>15. Kept
  BY <1>4, <1>5, <1>6, <1>7, <1>8, <1>9, <1>10, <1>11, <1>12, <1>13, NextIsOneOf
<1>16. QED
  BY <1>14, <1>15 DEF Kept, KeptInv, TypeOK, KubeletTypeOK

(***************************************************************************)
(* So it is at the start.                                                  *)
(***************************************************************************)
LEMMA InitKeptInv == Init => KeptInv
<1> SUFFICES ASSUME Init PROVE KeptInv
  OBVIOUS
<1>1. <<>> \in Seq(Sources)
  OBVIOUS
<1>2. NodeTypeOK
  <2>1. capacity \in [Volumes -> Nat] /\ mode \in [Volumes -> Modes]
    BY DEF Init, NodeInit
  <2>2. QED
    BY <1>1, <2>1 DEF Init, NodeInit, NodeTypeOK, Commands
<1>3. TypeOK
  <2>1. 0 \in 0 .. MaxDisruptions
    BY KubeletAssumption DEF KubeletAssumption
  <2>2. QED
    BY <1>2, <2>1 DEF Init, KubeletInit, TypeOK, Known
<1>4. CallsAreKnown
  BY DEF Init, NodeInit, CallsAreKnown, Formatting
<1>5. KeptAsIs
  BY DEF Init, NodeInit, KubeletInit, KeptAsIs
<1>6. QED
  BY <1>3, <1>4, <1>5 DEF KeptInv

(***************************************************************************)
(* The node service under its kubelet is type correct.                     *)
(***************************************************************************)
THEOREM NodeTypeCorrect == Spec => []TypeOK
<1>1. KeptInv => TypeOK
  BY DEF KeptInv
<1>2. QED
  BY <1>1, InitKeptInv, NextKeptInv, PTL DEF Spec

(***************************************************************************)
(* An annotated or block volume is never formatted (node.go:144-166),      *)
(* whatever fails, comes late, is given up or is repeated.                 *)
(***************************************************************************)
THEOREM NeverFormatted == Spec => []KeptAsIs
<1>1. KeptInv => KeptAsIs
  BY DEF KeptInv
<1>2. QED
  BY <1>1, InitKeptInv, NextKeptInv, PTL DEF Spec

-----------------------------------------------------------------------------
(* Data, when no call is given up and devices are there at once *)

(***************************************************************************)
(* A mount adds nothing but its source to what is mounted.                 *)
(***************************************************************************)
LEMMA MountsOne ==
    ASSUME mounts \in [Paths -> Seq(Sources)], NEW path \in Paths, NEW source \in Sources,
           mounts' = [mounts EXCEPT ![path] = <<source>> \o mounts[path]],
           NEW v \in Volumes, MountedSomewhere(v)'
    PROVE  MountedSomewhere(v) \/ v = source
<1>1. PICK q \in Paths : \E i \in 1 .. Len(mounts'[q]) : mounts'[q][i] = v
  BY DEF MountedSomewhere
<1>2. PICK i \in 1 .. Len(mounts'[q]) : mounts'[q][i] = v
  BY <1>1
<1>3. CASE q # path
  <2>1. mounts'[q] = mounts[q]
    BY <1>3
  <2>2. QED
    BY <1>2, <2>1 DEF MountedSomewhere
<1>4. CASE q = path
  <2>1. mounts[path] \in Seq(Sources) /\ mounts'[q] = <<source>> \o mounts[path]
    BY <1>4
  <2>2. /\ Len(mounts'[q]) = 1 + Len(mounts[path])
        /\ i = 1 => mounts'[q][i] = source
        /\ i # 1 => i - 1 \in 1 .. Len(mounts[path]) /\ mounts'[q][i] = mounts[path][i - 1]
    BY <1>2, <2>1
  <2>3. QED
    BY <1>2, <2>2 DEF MountedSomewhere
<1>5. QED
  BY <1>3, <1>4

(***************************************************************************)
(* An umount adds nothing to what is mounted.                              *)
(***************************************************************************)
LEMMA UncoversOne ==
    ASSUME mounts \in [Paths -> Seq(Sources)], NEW path \in Paths, IsMounted(path),
           mounts' = [mounts EXCEPT ![path] = Tail(mounts[path])],
           NEW v \in Volumes, MountedSomewhere(v)'
    PROVE  MountedSomewhere(v)
<1>1. PICK q \in Paths : \E i \in 1 .. Len(mounts'[q]) : mounts'[q][i] = v
  BY DEF MountedSomewhere
<1>2. PICK i \in 1 .. Len(mounts'[q]) : mounts'[q][i] = v
  BY <1>1
<1>3. CASE q # path
  <2>1. mounts'[q] = mounts[q]
    BY <1>3
  <2>2. QED
    BY <1>2, <2>1 DEF MountedSomewhere
<1>4. CASE q = path
  <2>1. /\ mounts[path] \in Seq(Sources) /\ mounts[path] # <<>>
        /\ mounts'[q] = Tail(mounts[path])
    BY <1>4 DEF IsMounted
  <2>2. /\ i + 1 \in 1 .. Len(mounts[path]) /\ mounts'[q][i] = mounts[path][i + 1]
    BY <1>2, <2>1
  <2>3. QED
    BY <1>2, <2>2 DEF MountedSomewhere
<1>5. QED
  BY <1>3, <1>4

(***************************************************************************)
(* A command leads to another command or to the answer.                    *)
(***************************************************************************)
LEMMA MovesGo ==
    ASSUME NodeTypeOK, CallsAreKnown, NEW g \in Goroutines, Moves(g)
    PROVE  \E next \in Commands \ {"idle", "called"} : GoesTo(g, next)
<1>1. \/ \E next \in Commands \ Formatting : GoesTo(g, next)
      \/ GoesTo(g, "blkid") \/ GoesTo(g, "mkfs") \/ GoesTo(g, "formatting")
      \/ GoesTo(g, "fsck") \/ GoesTo(g, "answered")
  BY MovesHaveEffect
     DEF LooksOnly, AsksForFormat, FindsNoFormat, Erases, Formats, Grows, Mounts, Uncovers
<1>2. \E next : GoesTo(g, next)
  BY <1>1
<1>3. QED
  BY <1>2 DEF GoesTo

(***************************************************************************)
(* A goroutine at work leaves calls, devices and the kubelet alone.        *)
(***************************************************************************)
LEMMA MovesKeepCalls ==
    ASSUME DataInv, NEW g \in Goroutines, Moves(g), UNCHANGED kubeletVars
    PROVE  OneCallEach' /\ DeviceIsThere'
<1>1. PICK next \in Commands \ {"idle", "called"} :
         /\ pc[g] # "idle" /\ pc' = [pc EXCEPT ![g] = next]
         /\ call' = call /\ device' = device
  BY MovesGo DEF DataInv, KeptInv, TypeOK, GoesTo, diskVars
<1>2. UNCHANGED <<awaited, staged>>
  BY DEF kubeletVars
<1>3. OneCallEach'
  BY <1>1, <1>2 DEF DataInv, OneCallEach, KeptInv, TypeOK, NodeTypeOK
<1>4. DeviceIsThere'
  BY <1>1, <1>2 DEF DataInv, DeviceIsThere
<1>5. QED
  BY <1>3, <1>4

(***************************************************************************)
(* A command formats only what is blank: blkid was asked with the device   *)
(* there, and nobody else works on the volume meanwhile.                   *)
(***************************************************************************)
LEMMA MovesKeepData ==
    ASSUME DataInv, NEW g \in Goroutines, Moves(g), UNCHANGED kubeletVars
    PROVE  BlankWhenFormatted' /\ DataSurvives'
<1> DEFINE v == call[g].volume
           ToFormat(h) == pc[h] \in {"mkfs", "formatting"}
<1>1. /\ pc \in [Goroutines -> Commands] /\ mounts \in [Paths -> Seq(Sources)]
      /\ content \in [Volumes -> {"blank", "formatted", "data"}]
      /\ written \subseteq Volumes /\ written' = written
      /\ NodeTypeOK /\ CallsAreKnown
  BY DEF DataInv, KeptInv, TypeOK, NodeTypeOK, kubeletVars
<1>2. /\ \A h \in Goroutines : ToFormat(h) => content[call[h].volume] = "blank"
      /\ \A w \in Volumes : mode[w] = "filesystem" /\ MountedSomewhere(w) => content[w] # "blank"
      /\ \A w \in written : content[w] = "data"
  BY DEF DataInv, BlankWhenFormatted, DataSurvives
<1>3. PICK next \in Commands \ {"idle", "called"} : GoesTo(g, next)
  BY <1>1, MovesGo
<1>4. /\ pc[g] # "idle" /\ pc' = [pc EXCEPT ![g] = next]
      /\ call' = call /\ mode' = mode
  BY <1>3 DEF GoesTo, diskVars
<1>5. v \in Volumes
  BY <1>1, <1>4, CallHasVolumeAndPath DEF CallsAreKnown
<1>6. ASSUME ~ToFormat(g)', content' = content,
             \A w \in Volumes : MountedSomewhere(w)' /\ mode[w] = "filesystem"
                                  => content[w] # "blank"
      PROVE  BlankWhenFormatted' /\ DataSurvives'
  BY <1>1, <1>2, <1>4, <1>6 DEF BlankWhenFormatted, DataSurvives
<1>7. mounts' = mounts => \A w \in Volumes : MountedSomewhere(w)' = MountedSomewhere(w)
  BY DEF MountedSomewhere
<1>8. CASE LooksOnly(g) \/ AsksForFormat(g) \/ Grows(g)
  <2>1. content' = content /\ mounts' = mounts /\ ~ToFormat(g)'
    BY <1>1, <1>8 DEF LooksOnly, AsksForFormat, Grows, GoesTo, storeVars, Formatting
  <2>2. QED
    BY <1>2, <1>6, <1>7, <2>1
<1>9. CASE FindsNoFormat(g)
  <2>1. g \in awaited
    BY <1>4 DEF DataInv, OneCallEach
  <2>2. device[v] = "present"
    BY <1>5, <1>9, <2>1 DEF DataInv, DeviceIsThere, FindsNoFormat
  <2>3. content[v] = "blank" /\ content' = content /\ mounts' = mounts
    BY <1>9, <2>2 DEF FindsNoFormat, storeVars
  <2>4. QED
    BY <1>1, <1>2, <1>4, <1>7, <2>3 DEF BlankWhenFormatted, DataSurvives
<1>10. CASE Erases(g)
  <2>1. /\ pc[g] = "mkfs" /\ content[v] = "blank" /\ mounts' = mounts
        /\ content' = content
    BY <1>1, <1>2, <1>10 DEF Erases
  <2>2. QED
    BY <1>1, <1>2, <1>4, <1>7, <2>1 DEF BlankWhenFormatted, DataSurvives
<1>11. CASE Formats(g)
  <2>1. /\ pc[g] = "formatting" /\ content[v] = "blank" /\ mounts' = mounts
        /\ content' = [content EXCEPT ![v] = "formatted"] /\ pc'[g] = "fsck"
    BY <1>1, <1>2, <1>11 DEF Formats, GoesTo
  <2>2. \A h \in Goroutines : h # g /\ ToFormat(h) => call[h].volume # v
    <3>1. \A h \in Goroutines : ToFormat(h) => h \in awaited
      BY DEF DataInv, OneCallEach
    <3>2. QED
      BY <2>1, <3>1 DEF DataInv, OneCallEach
  <2>3. \A h \in Goroutines : ToFormat(h)' => content'[call'[h].volume] = "blank"
    <3>1. ASSUME NEW h \in Goroutines, ToFormat(h)' PROVE content'[call'[h].volume] = "blank"
      <4>1. h # g /\ ToFormat(h)
        BY <1>1, <1>4, <2>1, <3>1
      <4>2. call[h].volume \in Volumes
        BY <1>1, <4>1, CallHasVolumeAndPath DEF CallsAreKnown
      <4>3. QED
        BY <1>1, <1>2, <1>4, <2>1, <2>2, <4>1, <4>2
    <3>2. QED
      BY <3>1
  <2>4. QED
    BY <1>1, <1>2, <1>4, <1>7, <2>1, <2>3 DEF BlankWhenFormatted, DataSurvives
<1>12. CASE Mounts(g)
  <2>1. PICK path \in Paths, source \in Sources :
           /\ mounts' = [mounts EXCEPT ![path] = <<source>> \o mounts[path]]
           /\ source \in Volumes /\ mode[source] = "filesystem"
                => content[source] # "blank" \/ MountedSomewhere(source)
    BY <1>12 DEF Mounts
  <2>2. content' = content /\ pc'[g] = "answered"
    BY <1>1, <1>12 DEF Mounts, GoesTo, storeVars
  <2>3. \A w \in Volumes : MountedSomewhere(w)' /\ mode[w] = "filesystem" => content[w] # "blank"
    BY <1>1, <1>2, <2>1, MountsOne
  <2>4. QED
    BY <1>6, <2>2, <2>3
<1>13. CASE Uncovers(g)
  <2>1. PICK path \in Paths : /\ IsMounted(path)
                              /\ mounts' = [mounts EXCEPT ![path] = Tail(mounts[path])]
    BY <1>13 DEF Uncovers
  <2>2. content' = content /\ pc'[g] = "answered"
    BY <1>1, <1>13 DEF Uncovers, GoesTo, storeVars
  <2>3. \A w \in Volumes : MountedSomewhere(w)' /\ mode[w] = "filesystem" => content[w] # "blank"
    BY <1>1, <1>2, <2>1, UncoversOne
  <2>4. QED
    BY <1>6, <2>2, <2>3
<1>14. QED
  BY <1>1, <1>8, <1>9, <1>10, <1>11, <1>12, <1>13, MovesHaveEffect

(***************************************************************************)
(* An answer ends a call; what the kubelet learns from it is about its own *)
(* volume only, which no other call is about.                              *)
(***************************************************************************)
LEMMA ReceiveKeepsData ==
    ASSUME DataInv, NEW g \in Goroutines, Receive(g)
    PROVE  OneCallEach' /\ DeviceIsThere' /\ BlankWhenFormatted' /\ DataSurvives'
<1> DEFINE c == call[g]
<1>1. /\ pc[g] = "answered" /\ pc' = [pc EXCEPT ![g] = "idle"]
      /\ call' = [call EXCEPT ![g] = NoCall] /\ awaited' = awaited \ {g}
      /\ UNCHANGED <<mode, device, content, mounts, written>>
      /\ (g \in awaited /\ Learn(c)) \/ UNCHANGED staged
  BY DEF Receive, machineVars, diskVars, storeVars
<1>2. /\ pc \in [Goroutines -> Commands] /\ call \in [Goroutines -> Call \cup {NoCall}]
      /\ staged \in [Volumes -> Known \cup {"mounted"}] /\ awaited \subseteq Goroutines
      /\ OneCallEach /\ DeviceIsThere /\ BlankWhenFormatted /\ DataSurvives /\ CallsAreKnown
  BY DEF DataInv, KeptInv, TypeOK, NodeTypeOK
<1>3. \A h \in Goroutines : h # g => pc'[h] = pc[h] /\ call'[h] = call[h]
  BY <1>1, <1>2
<1>4. OneCallEach'
  BY <1>1, <1>2, <1>3 DEF OneCallEach
<1>5. BlankWhenFormatted' /\ DataSurvives'
  <2>1. \A h \in Goroutines : pc'[h] \in {"mkfs", "formatting"} => h # g
    BY <1>1, <1>2
  <2>2. \A w \in Volumes : MountedSomewhere(w)' = MountedSomewhere(w)
    BY <1>1 DEF MountedSomewhere
  <2>3. QED
    BY <1>1, <1>2, <1>3, <2>1, <2>2 DEF BlankWhenFormatted, DataSurvives
<1>6. DeviceIsThere'
  <2>1. c \in Call /\ c.volume \in Volumes
    BY <1>1, <1>2, CallHasVolumeAndPath DEF CallsAreKnown
  <2>2. CASE UNCHANGED staged
    BY <1>1, <1>2, <1>3, <2>2 DEF DeviceIsThere
  <2>3. CASE g \in awaited /\ Learn(c)
    <3>1. /\ \A w \in Volumes : w # c.volume => staged'[w] = staged[w]
          /\ staged'[c.volume] # staged[c.volume]
                => \/ c.kind = "unstage" /\ staged'[c.volume] = "no"
                   \/ c.kind \in {"stage", "expand"}
      BY <1>2, <2>1, <2>3 DEF Learn
    <3>2. \A w \in Volumes : staged'[w] # "no" => staged[w] # "no"
      BY <1>2, <2>3, <3>1 DEF DeviceIsThere
    <3>3. \A h \in awaited' : call'[h] = call[h] /\ call[h].volume # c.volume
      BY <1>1, <1>2, <1>3, <2>3 DEF OneCallEach
    <3>4. \A h \in awaited' : call[h].volume \in Volumes
      BY <1>1, <1>2, CallHasVolumeAndPath DEF OneCallEach, CallsAreKnown
    <3>5. QED
      BY <1>1, <1>2, <3>1, <3>2, <3>3, <3>4 DEF DeviceIsThere
  <2>4. QED
    BY <1>1, <2>2, <2>3
<1>7. QED
  BY <1>4, <1>5, <1>6

(***************************************************************************)
(* A call that is sent is the only one about its volume, and is sent only  *)
(* while the device is there.                                              *)
(***************************************************************************)
LEMMA SendsKeepData ==
    ASSUME DataInv, NEW g \in Goroutines, Sends(g)
    PROVE  OneCallEach' /\ DeviceIsThere' /\ BlankWhenFormatted' /\ DataSurvives'
<1>1. PICK c \in Call : Send(g, c)
  BY SendsCall
<1>2. /\ pc[g] = "idle" /\ \A h \in awaited : call[h].volume # c.volume
      /\ pc' = [pc EXCEPT ![g] = "called"] /\ call' = [call EXCEPT ![g] = c]
      /\ awaited' = awaited \cup {g}
      /\ UNCHANGED <<mode, device, content, mounts, written>>
  BY <1>1 DEF Send, machineVars, diskVars, storeVars
<1>3. /\ pc \in [Goroutines -> Commands] /\ call \in [Goroutines -> Call \cup {NoCall}]
      /\ staged \in [Volumes -> Known \cup {"mounted"}] /\ awaited \subseteq Goroutines
      /\ device \in [Volumes -> {"absent", "coming", "present"}]
      /\ OneCallEach /\ DeviceIsThere /\ BlankWhenFormatted /\ DataSurvives /\ CallsAreKnown
  BY DEF DataInv, KeptInv, TypeOK, NodeTypeOK
<1>4. /\ \A h \in Goroutines : h # g => pc'[h] = pc[h] /\ call'[h] = call[h]
      /\ pc'[g] = "called" /\ call'[g] = c /\ g \notin awaited
  BY <1>2, <1>3 DEF OneCallEach
<1>5. OneCallEach'
  BY <1>2, <1>3, <1>4 DEF OneCallEach
<1>6. BlankWhenFormatted' /\ DataSurvives'
  <2>1. \A w \in Volumes : MountedSomewhere(w)' = MountedSomewhere(w)
    BY <1>2 DEF MountedSomewhere
  <2>2. QED
    BY <1>2, <1>3, <1>4, <2>1 DEF BlankWhenFormatted, DataSurvives
<1>7. DeviceIsThere'
  <2>1. /\ \A w \in Volumes : staged[w] # "no" => staged'[w] # "no"
        /\ \A w \in Volumes : staged'[w] # "no" => device[w] = "present"
        /\ call'[g].kind \in {"stage", "expand"} => staged'[call'[g].volume] # "no"
    <3>1. ASSUME NEW v \in Volumes, StageAttached(g, v)
          PROVE  /\ \A w \in Volumes : staged[w] # "no" => staged'[w] # "no"
                 /\ \A w \in Volumes : staged'[w] # "no" => device[w] = "present"
                 /\ staged'[call'[g].volume] # "no"
      <4>1. /\ device[v] # "absent" /\ staged' = [staged EXCEPT ![v] = "uncertain"]
            /\ call' = [call EXCEPT ![g] = [kind |-> "stage", volume |-> v]]
        BY <3>1 DEF StageAttached, Stage, Send
      <4>2. QED
        BY <1>3, <4>1 DEF DeviceIsThere
    <3>2. ASSUME NEW v \in Volumes, Expand(g, v)
          PROVE  /\ \A w \in Volumes : staged[w] # "no" <=> staged'[w] # "no"
                 /\ staged'[call'[g].volume] # "no"
      <4>1. /\ staged[v] \in {"mounted", "yes"}
            /\ staged' = [staged EXCEPT ![v] = IF staged[v] = "mounted"
                                               THEN "uncertain" ELSE staged[v]]
            /\ call' = [call EXCEPT ![g] = [kind |-> "expand", volume |-> v]]
        BY <3>2 DEF Expand, Send
      <4>2. QED
        BY <1>3, <4>1
    <3>3. ASSUME NEW v \in Volumes, Unstage(g, v)
          PROVE  /\ \A w \in Volumes : staged[w] # "no" <=> staged'[w] # "no"
                 /\ call'[g].kind = "unstage"
      <4>1. /\ staged[v] # "no" /\ staged' = [staged EXCEPT ![v] = "uncertain"]
            /\ call' = [call EXCEPT ![g] = [kind |-> "unstage", volume |-> v]]
        BY <3>3 DEF Unstage, Send
      <4>2. QED
        BY <1>3, <4>1
    <3>4. ASSUME NEW p \in Pods, Publish(g, p) \/ Unpublish(g, p)
          PROVE  staged' = staged /\ call'[g].kind \notin {"stage", "expand"}
      <4>1. /\ staged' = staged
            /\ \E kind \in {"publish", "unpublish"} :
                  call' = [call EXCEPT ![g] = [kind |-> kind, volume |-> Uses[p], pod |-> p]]
        BY <3>4 DEF Publish, Unpublish, Send
      <4>2. QED
        BY <1>3, <4>1
    <3>5. QED
      BY <1>3, <3>1, <3>2, <3>3, <3>4 DEF Sends, DeviceIsThere
  <2>2. \A h \in awaited : call[h].volume \in Volumes
    BY <1>3, CallHasVolumeAndPath DEF OneCallEach, CallsAreKnown
  <2>3. QED
    BY <1>2, <1>3, <1>4, <2>1, <2>2 DEF DeviceIsThere
<1>8. QED
  BY <1>5, <1>6, <1>7

\* No call is given up, and no device is late
Punctual == {"timeout", "lateDevice"} \cap Disruptions = {}

(***************************************************************************)
(* A pod writes only where its volume is mounted, so nobody is about to    *)
(* format it.                                                              *)
(***************************************************************************)
LEMMA WriteKeepsData ==
    ASSUME DataInv, NEW p \in Pods, Write(p)
    PROVE  OneCallEach' /\ DeviceIsThere' /\ BlankWhenFormatted' /\ DataSurvives'
<1> DEFINE v == Uses[p]
<1>1. /\ v \in Volumes /\ Shown(Target(p)) = v
      /\ content' = [content EXCEPT ![v] = "data"] /\ written' = written \cup {v}
      /\ UNCHANGED <<mode, device, mounts, call, pc, staged, awaited>>
  BY NodeAssumption DEF Write, NodeAssumption, diskVars, goroutineVars
<1>2. /\ content \in [Volumes -> {"blank", "formatted", "data"}]
      /\ mounts \in [Paths -> Seq(Sources)]
      /\ OneCallEach /\ DeviceIsThere /\ BlankWhenFormatted /\ DataSurvives /\ CallsAreKnown
      /\ written \subseteq Volumes
  BY DEF DataInv, KeptInv, TypeOK, NodeTypeOK
<1>3. MountedSomewhere(v)
  BY <1>1, <1>2, ShownIsMounted DEF Paths
<1>4. \A h \in Goroutines : pc[h] \in {"mkfs", "formatting"} => call[h].volume # v
  <2>1. ASSUME NEW h \in Goroutines, pc[h] \in {"mkfs", "formatting"}, call[h].volume = v
        PROVE  FALSE
    <3>1. mode[v] = "filesystem" /\ content[v] = "blank"
      BY <1>2, <2>1 DEF BlankWhenFormatted, CallsAreKnown, Formatting
    <3>2. QED
      BY <1>1, <1>2, <1>3, <3>1 DEF BlankWhenFormatted
  <2>2. QED
    BY <2>1
<1>5. \A h \in Goroutines : pc[h] \in {"mkfs", "formatting"} => call[h].volume \in Volumes
  BY <1>2, CallHasVolumeAndPath DEF CallsAreKnown
<1>6. BlankWhenFormatted'
  <2>1. \A w \in Volumes : MountedSomewhere(w)' = MountedSomewhere(w)
    BY <1>1 DEF MountedSomewhere
  <2>2. QED
    BY <1>1, <1>2, <1>4, <1>5, <2>1 DEF BlankWhenFormatted
<1>7. OneCallEach' /\ DeviceIsThere'
  BY <1>1, <1>2 DEF OneCallEach, DeviceIsThere
<1>8. DataSurvives'
  BY <1>1, <1>2 DEF DataSurvives
<1>9. QED
  BY <1>6, <1>7, <1>8

(***************************************************************************)
(* A link appears at once and goes only when the volume is not in use.     *)
(***************************************************************************)
LEMMA LinksKeepData ==
    ASSUME Punctual, DataInv, NEW v \in Volumes, Attach(v) \/ LinkAppears(v) \/ Detach(v)
    PROVE  OneCallEach' /\ DeviceIsThere' /\ BlankWhenFormatted' /\ DataSurvives'
<1>1. /\ device \in [Volumes -> {"absent", "coming", "present"}]
      /\ OneCallEach /\ DeviceIsThere /\ BlankWhenFormatted /\ DataSurvives
  BY DEF DataInv, KeptInv, TypeOK, NodeTypeOK
<1>2. PICK state \in {"absent", "present"} :
         LinkBecomes(v, state) /\ (state = "absent" => staged[v] = "no")
  <2>1. ~Disrupted("lateDevice") /\ ~LinkAppears(v)
    BY <1>1 DEF Punctual, Disrupted, LinkAppears, DeviceIsThere
  <2>2. QED
    BY <2>1 DEF Attach, Detach, Unused
<1>3. /\ device' = [device EXCEPT ![v] = state]
      /\ UNCHANGED <<mode, content, mounts, call, pc, staged, awaited, written>>
  BY <1>2 DEF LinkBecomes, storeVars, goroutineVars, kubeletVars
<1>4. DeviceIsThere'
  BY <1>1, <1>2, <1>3 DEF DeviceIsThere
<1>5. BlankWhenFormatted' /\ OneCallEach' /\ DataSurvives'
  <2>1. \A w \in Volumes : MountedSomewhere(w)' = MountedSomewhere(w)
    BY <1>3 DEF MountedSomewhere
  <2>2. QED
    BY <1>1, <1>3, <2>1 DEF BlankWhenFormatted, OneCallEach, DataSurvives
<1>6. QED
  BY <1>4, <1>5

(***************************************************************************)
(* A restart ends every handler before it formats, and loses no data.      *)
(***************************************************************************)
LEMMA RestartKeepsData ==
    ASSUME DataInv, Restart \/ Reboot
    PROVE  OneCallEach' /\ DeviceIsThere' /\ BlankWhenFormatted' /\ DataSurvives'
<1>1. /\ pc' = [g \in Goroutines |-> "idle"] /\ awaited' = {}
      /\ UNCHANGED <<mode, content, written>>
  BY DEF Restart, Reboot, ProcessDies, machineVars, diskVars, storeVars
<1>2. /\ device \in [Volumes -> {"absent", "coming", "present"}]
      /\ DeviceIsThere /\ BlankWhenFormatted /\ DataSurvives
  BY DEF DataInv, KeptInv, TypeOK, NodeTypeOK
<1>3. OneCallEach' /\ DataSurvives'
  BY <1>1, <1>2 DEF OneCallEach, DataSurvives
<1>4. DeviceIsThere'
  <2>1. CASE Restart
    BY <1>1, <1>2, <2>1 DEF Restart, machineVars, diskVars, DeviceIsThere
  <2>2. CASE Reboot
    BY <1>1, <1>2, <2>2 DEF Reboot, DeviceIsThere
  <2>3. QED
    BY <2>1, <2>2
<1>5. BlankWhenFormatted'
  <2>1. \A w \in Volumes : MountedSomewhere(w)' => MountedSomewhere(w)
    <3>1. CASE Restart
      BY <3>1 DEF Restart, machineVars, MountedSomewhere
    <3>2. CASE Reboot
      BY <3>2 DEF Reboot, MountedSomewhere
    <3>3. QED
      BY <3>1, <3>2
  <2>2. QED
    BY <1>1, <1>2, <2>1 DEF BlankWhenFormatted
<1>6. QED
  BY <1>3, <1>4, <1>5

(***************************************************************************)
(* Every step keeps data, devices and calls apart, when links are not late *)
(* and no call is given up.                                                *)
(***************************************************************************)
LEMMA NextDataInv ==
    ASSUME Punctual, DataInv, [Next]_vars
    PROVE  DataInv'
<1> DEFINE Kept == OneCallEach' /\ DeviceIsThere' /\ BlankWhenFormatted' /\ DataSurvives'
<1>1. KeptInv'
  BY NextKeptInv DEF DataInv
<1>2. ASSUME UNCHANGED <<mode, device, content, mounts, call, pc, staged, awaited, written>>
      PROVE  Kept
  <2>1. \A w \in Volumes : MountedSomewhere(w)' = MountedSomewhere(w)
    BY <1>2 DEF MountedSomewhere
  <2>2. QED
    BY <1>2, <2>1
       DEF DataInv, OneCallEach, DeviceIsThere, BlankWhenFormatted, DataSurvives
<1>3. ASSUME NEW g \in Goroutines, Moves(g), UNCHANGED kubeletVars PROVE Kept
  BY <1>3, MovesKeepCalls, MovesKeepData
<1>4. ASSUME NEW g \in Goroutines, Receive(g) PROVE Kept
  BY <1>4, ReceiveKeepsData
<1>5. ASSUME NEW g \in Goroutines, Sends(g) PROVE Kept
  BY <1>5, SendsKeepData
<1>6. ASSUME NEW g \in Goroutines, GiveUp(g) PROVE Kept
  BY <1>6 DEF Punctual, GiveUp, Disrupted
<1>7. ASSUME NEW p \in Pods, StartPod(p) \/ DeletePod(p) PROVE Kept
  BY <1>2, <1>7
     DEF StartPod, DeletePod, nodeVars, machineVars, diskVars, storeVars, goroutineVars
<1>8. ASSUME NEW p \in Pods, Write(p) PROVE Kept
  BY <1>8, WriteKeepsData
<1>9. ASSUME NEW v \in Volumes, Attach(v) \/ LinkAppears(v) \/ Detach(v) PROVE Kept
  BY <1>9, LinksKeepData
<1>10. ASSUME NEW v \in Volumes, Enlarge(v) PROVE Kept
  BY <1>2, <1>10 DEF Enlarge, storeVars, goroutineVars
<1>11. ASSUME Restart \/ Reboot PROVE Kept
  BY <1>11, RestartKeepsData
<1>12. ASSUME UNCHANGED vars PROVE Kept
  BY <1>2, <1>12
     DEF vars, kubeletVars, nodeVars, machineVars, diskVars, storeVars, goroutineVars
<1> HIDE DEF Kept
<1>13. Kept
  BY <1>3, <1>4, <1>5, <1>6, <1>7, <1>8, <1>9, <1>10, <1>11, <1>12, NextIsOneOf
<1>14. QED
  BY <1>1, <1>13 DEF Kept, DataInv

(***************************************************************************)
(* So it is at the start.                                                  *)
(***************************************************************************)
LEMMA InitDataInv == Init => DataInv
<1> SUFFICES ASSUME Init PROVE DataInv
  OBVIOUS
<1>1. OneCallEach /\ DeviceIsThere /\ DataSurvives
  BY DEF Init, NodeInit, KubeletInit, OneCallEach, DeviceIsThere, DataSurvives
<1>2. BlankWhenFormatted
  BY DEF Init, NodeInit, BlankWhenFormatted, MountedSomewhere
<1>3. QED
  BY <1>1, <1>2, InitKeptInv DEF DataInv

(***************************************************************************)
(* What a pod wrote is never formatted away when no call is given up and   *)
(* device links are there at once (node.go:169-182, mounter.go:220-259),   *)
(* although commands fail, the process dies and the node reboots.  The     *)
(* run LateDevice shows what a late link does.                             *)
(***************************************************************************)
THEOREM DataIsKept == Punctual => (Spec => []DataSurvives)
<1> SUFFICES ASSUME Punctual PROVE Spec => []DataSurvives
  OBVIOUS
<1>1. DataInv /\ [Next]_vars => DataInv'
  BY NextDataInv
<1>2. DataInv => DataSurvives
  BY DEF DataInv
<1>3. QED
  BY <1>1, <1>2, InitDataInv, PTL DEF Spec

=============================================================================
