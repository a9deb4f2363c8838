# A TLA+ model of the Yandex Cloud CSI driver

These modules model the driver of this repository: the controller service that
creates, attaches, resizes and deletes disks through the Compute API, and the
node service that formats and mounts them. The runs check them on small
instances with TLC, the proof modules prove most safety properties for every instance with
TLAPS. `PROJECT.json` lists components, runs, mutants, findings, hazards,
theorems and, for every definition, the source lines it stands for. Source
paths below are relative to the repository; the repository has no tests, so the
code, its comments, the README and `deploy/1.17` are all there is to go by.

## 1. Inventory

| Part | State | Operations | Talks to |
|---|---|---|---|
| Sizing (`controller.go:110-122, 623-718`) | none | `parseBlockSize`, `maximumVolumeSize`, `extractStorage` | called by `CreateVolume`, `ControllerExpandVolume` |
| Controller service (`controller.go`) | the goroutines of the calls in flight | `CreateVolume`, `DeleteVolume`, `ControllerPublishVolume`, `ControllerUnpublishVolume`, `ControllerExpandVolume`; read-only: `ValidateVolumeCapabilities`, `ListVolumes`, `GetCapacity`, `ControllerGetCapabilities` | Compute API; the CSI sidecars |
| Resize markers (`lock.go`) | a set of volume ids, in memory, under a mutex | `PutVolId`, `RemoveVolId`, `VolIdExists` | `ControllerExpandVolume` writes, `ControllerPublishVolume` reads |
| Waiting for operations (`operation_wrapper.go`) | none | `WaitForResult` | Compute operations |
| Node service (`node.go`) | none: it asks the node each time | `NodeStageVolume`, `NodeUnstageVolume`, `NodePublishVolume`, `NodeUnpublishVolume`, `NodeExpandVolume`; read-only: `NodeGetVolumeStats`, `NodeGetCapabilities` | mounter; the kubelet |
| Node registration (`node.go:364-453`) | none | `NodeGetInfo` | Compute API; the registrar, and through it the scheduler |
| Mounter (`mounter.go`) | none | `Format`, `Mount`, `Unmount`, `IsFormatted`, `IsMounted`, statistics | `blkid`, `mkfs`, `mount`, `umount`, `findmnt`; the kernel's mount table, the devices |
| Lifecycle (`driver.go:115-287`, `health.go`, `identity.go`, `main.go`) | `ready` flag, `hostID`, two servers, an errgroup; the socket file outlives it | `NewDriver`, `Run`, `Probe`, `/health`, shutdown | signals; kubelet, liveness probe |
| Snapshots (`driver.go:103-113`) | none | advertised, `panic("implement me")` | csi-snapshotter |
| Metadata, encoding (`metadata_service.go`, `encoding.go`) | none | read at start; hash for a device name | instance metadata |

What is hard in it:

- **Nothing is serialised.** gRPC runs a goroutine per call. The controller
  reads a disk, then an instance, then asks for an operation; the world may
  change between any two. The sidecars serialise calls per queue, not per volume:
  the attacher, the provisioner and the resizer work on one volume at once.
- **Operations outlive their calls.** `WaitForResult` gives up when the context
  expires; the cloud goes on. The sidecar repeats a call whose first attempt is
  still having effects. On the node the handlers ignore their context
  altogether (`_ context.Context`) and go on after the kubelet gave up.
- **State that is not persisted.** The resize markers are lost with the process.
- **Two halves that do not talk.** Controller and node run in different
  processes; the cloud, the sidecars and the kubelet are all that keeps a disk
  attached while it is mounted, and makes a file system follow its disk.
- **Shutting down.** A signal may come before the servers serve, with handlers
  in flight, or after a server broke; three goroutines and a fourth must all end.
- **Idempotence from observation.** Every repeated call has to recognise
  what an earlier one left: a disk of the name, an attachment, a file system, a
  mount.

What makes each part correct: sizes within what was asked for and supported, with
no overflow; one disk per name, the answered disk being the requested one, none
left behind; a disk held by one node at most, present as long as a node was
told so, absent when it was told so; a resize that is done in the end, a marker
that is there only as long as a resize is owed; data that is formatted over at
no time, a pod that finds its volume and nothing else, a mount that is gone
before the disk is detached, a pod that starts in the end; a file system as
large as the volume; a limit on volumes that keeps an instance within its
platform's; a process that stops when asked, cutting no handler, and that serves
again when it is restarted.

## 2. Modules

```
Sizing ── SizingCalls ── MCSizing                    SizingProofs
   └── Compute ── Controller ── Cluster ── ClusterProperties ── MCCluster
                                   │            ├── VolumeService (INSTANCE)
                                   │            └── ClusterInvariants
                                   │                  └── ClusterProofs ─┬─ AttachProofs ── ContractProofs
                                   │                                     └─ ProvisionProofs
                                   └── Volume ─┬─ MCVolume (with MCCluster)
                                         │     └─ VolumeInvariants ── VolumeProofs
                                         │ (INSTANCE)     (with ProvisionProofs, ContractProofs)
                        Node ── Kubelet ─┴── MCKubelet
                                    └── NodeProofs
Process ──┬── Plugin ── MCPlugin
NodeInfo ─┘      └── PluginProofs
```

- **Sizing**: the size arithmetic as operators. The code's constants are
  parameters with their assumptions (`SizingAssumption`), because TLC's integers
  are narrower than an `int64`; multiplication wraps (`Wrap`).
- **SizingCalls**: one call to these operators, to check them alone.
- **Compute** (external): disks, instances, accepted operations. `StrictCloud`
  says whether the service itself refuses a second disk of a name, a second
  attachment of a disk and a second operation on a disk at a time. The properties
  that need a strict cloud and those that do not are told apart by it.
- **Controller**: the handlers. An action is one call to the cloud with all the
  code up to the next one; `pc[r]` is the call that the goroutine of request `r` makes
  next. That is fine enough: between two such calls a handler touches only its
  own variables and the markers, whose methods are atomic. `local` is what a
  goroutine remembers (`Disk.InstanceIds` as read, the outcome of the
  operation), `res` its answer. `CallFails` is the context that expires, the API
  call that fails or the answer that is lost; `Crash` the process that dies.
- **Cluster**: the sidecars as an environment (external), disruptions with their
  bound, the fairness. `pv`, `va` and `owed` are what provisioner, attacher and
  resizer remember.
- **ClusterProperties**: the properties, the inductive invariant `AttachInv`,
  and the refinement mapping to **VolumeService**, the abstract promise: volumes
  grow, are held by one node at most, and are removed when nobody holds them.
- **ClusterInvariants**: the inductive invariants behind the other properties,
  and the hypotheses of the theorems, `Patient` and `Exclusive`.
- **Node**: the node handlers. An action is one command with the code up to the
  next one; `mkfs` takes two, because it is long. `mounts[path]` is the stack of
  mounts on a path; a bind mount of a staging path with nothing on it shows
  a directory of the node. `capacity` is the size of the disk, `fsSize` the size
  its file system was last made or grown for.
- **Kubelet** (external): what the kubelet knows of volumes and pods, its calls,
  the devices, pods that write, volumes that are enlarged, and what goes wrong.
- **Volume**: Cluster and Kubelet on the same volumes, with one of the nodes,
  `Here`, in full. `INSTANCE Kubelet WITH` replaces the devices and their sizes
  by what the cloud has attached; `PublishWhereWanted`, `UnpublishUnused`,
  `StageWhenAttached` and `TakeAnswer` are the four places where the sidecars
  and the kubelet wait for each other. No handler of the node is given up here
  (Kubelet has that) and no device link is late.
- **VolumeInvariants**: what the two halves know of each other, the inductive
  invariant behind the properties of Volume.
- **Process**: one process from `main` through `NewDriver` and `Run` to its end.
  An action is what a goroutine does between two points where it waits; `group`
  is the errgroup, `stopper` the goroutine that lowers `ready` and calls
  `GracefulStop`, which is in no group. `socket` is the file, which stays when a
  process is killed.
- **NodeInfo**: the limit of `NodeGetInfo` as an operator over the devices of an
  instance.
- **Plugin**: Process and NodeInfo with the kubelet that restarts the container
  and probes it, the registrar, the scheduler, and disks that come and go.
  `NodeGetInfo` is two steps, `GetInstance` that reads the devices and `Register`
  that answers, with other steps between them; `GetInstanceFails` is its error path.

Correspondence of an action name to the code: the entry action of a handler has
the handler's name, the others name the API call or command (`PublishGetDisk`,
`ExpandDone`, `StageIsMounted`). A definition ending in `_With...` or
`_Without...` is a mutated form of the one after it, used to show that a
property notices that mistake.

### What is abstracted

- A request is its arguments as far as the code tells them apart; gRPC codes
  other than OK are one `"failed"`, because every sidecar repeats on every error
  (the driver answers `Internal` for an expired context as well,
  `controller.go:225`). Nil checks of the request are left out: the sidecars
  send complete requests.
- The call that submits an operation and the acceptance of the operation are one
  step; that the answer to the submission is lost is `CallFails` after it. Two identical
  accepted operations of one request on one disk are one element of `ops`.
- The zone of a claim is the one `CreateVolume` picks from the topology; region is
  left out.
- `findmnt`'s output and mount propagation (`mounter.go:261-318`) are either
  right or a command that fails. `fsck` changes nothing; its one fatal exit
  status is a failing command.
- What `GetDeviceNameFromMount` and `ResizeFs` say of a path with nothing on it
  is not code of the repository: `NodeExpandVolume` answers either way there. The
  staging path of a block volume is such a path, and a block volume gets that far
  when the request has no `VolumeCapability` (`node.go:556`); `capability` says
  whether the kubelet sends one.
- A second signal does nothing (`main.go:60-63` reads the channel once); a
  signal before `signal.Notify` is a kill.
- The metadata service, listeners and servers fail or do not; what a server that
  broke still serves is as the grpc library has it.
- `mkfs` opens the device exclusively and refuses a mounted one; the kernel
  refuses a device without file system and the same device twice on a path. These
  are properties of the tools, not of the driver.

## 3. Runs

Passing runs. Bounds: `MaxDisruptions` disruptions in a behaviour, of the kinds
listed; everything else is unbounded within the sets of the configuration.

| Run | What it asks | Bounds, and why they are enough |
|---|---|---|
| Provision | `OneDiskPerName`, `CreateAnswersRequest`, `PVTruthful`, `NoLeakedDisk`; `CreateConverges` under fairness | two names, three ids (one more than names, so that a duplicate has room), four variants of one claim; two failed calls or restarts: one abandons a creation, one disturbs its retry. The cloud is not strict: uniqueness is the driver's doing |
| Attach | `PublishedStaysAttached`, `AttachInv`, `KeepsContract` | one volume, two nodes, deletion, a read-only publication, the panic of a snapshot (as often as it likes); two more disruptions of all kinds but a resize by hand |
| Resize | `ResizeGetsItsTurn` under fairness | one volume, two nodes, two sizes; two disruptions, restart and resize by hand among them |
| Guards | `SingleAttachment`, `UnpublishedMeansDetached`, `PVTruthful`, `MarkerMeansOwed`, `KeepsContract`, `TypeOK` | a cloud that refuses nothing by itself, one call per volume at a time, the whole life of a volume on two nodes, failing operations and instances that stop or go |
| Sizes | `BlockSizeExact`, `SizeWithinRange`, `SmallOnlyWithBothBounds` | KiB = 4 and integers of 14 bits: every number of that width, and a few outside it, with and without suffix; ranges around every constant; the theorems do away with the scaling |
| PodStart | `PodGetsVolume`, `ExpansionArrives` under fairness, `KeptAsIs` | two pods on one volume of each of the three modes, enlarged or not while it is detached, with and without the capability in `NodeExpandVolume` where that matters (`OmittedForBlockOnly`), two goroutines so that an abandoned handler and its successor overlap; one of: failing command, timeout, dying process, reboot, late link |
| Volume | `MountedMeansHeld`, `SpaceAsRecorded`, `PodSeesVolume`, `UnusedIsUnmounted`, `DataSurvives` | one volume, with a file system or block (expanded with and without the capability), wanted on two nodes, two pods on one of them, a resize; one disruption on either side: failing call, operation or command, a restart of either process, a reboot. One is enough to abandon a call and repeat it, and the runs of each half have more. An annotated volume skips `blkid` and `mkfs` and is otherwise like the first; PodStart has it |
| Plugin | `PluginInv`, `ReadyMeansServing`, `RunWaitsForHandlers`, `OwnDisksDoNotCount`, `AdmittedFits`; `StopsWhenAsked`, `ServesInTheEnd`, `RegistersInTheEnd` under fairness | three machines: one whose NICs count from the fifth disk on, one of an unlisted platform, one whose limit is zero; six disks, so that the NICs come to count; two RPCs, one of them `NodeGetInfo`; three disruptions: one to break a server, one to signal while it is broken, one to disturb the restart. The theorems do away with the bounds |

Violations. In each the code does what a comment or message of its own denies:

| Run | Finding |
|---|---|
| StaleMarker | `ControllerExpandVolume` answers OK early without `RemoveVolId` (`controller.go:580-588`). A resize that was given up, or one from the control panel, leaves the marker; publishing is refused with "Resize required, not publishing" until a restart or a larger resize |
| LateAttach | "assuming Disk is detached" (`controller.go:396`) while an abandoned `AttachDisk` is still under way: the disk ends up attached with nobody to detach it |
| UnfinishedVolume | "volume already created" (`controller.go:190`) for a disk whose creation goes on and then fails |
| LateDevice | exit status 2 of `blkid` means "no devices have been found" as well (`mounter.go:52`), and `IsFormatted` answers "not formatted" (`mounter.go:251`): if the link appears before `mkfs -F`, data is lost |

Observations that have no run of their own:

- `PodSeesVolume`, `UnusedIsUnmounted` and `DataSurvives`, added one at a time to
  the invariants of PodStart, are each violated by a single timeout: a handler
  ignores its context, so one that the kubelet stopped waiting for may stand still
  and go on much later. A `NodeUnstageVolume` unmounts the staging path after a
  new `NodeStageVolume` was answered OK, and `NodePublishVolume`, which never looks
  whether the volume is staged (`node.go:608-612`), binds the bare directory. A
  `NodeStageVolume` mounts after `NodeUnstageVolume` was answered OK. One that
  had its answer from `blkid` runs `mkfs` after another one formatted the volume, a
  pod wrote to it, and it was unmounted again.
- `NodeExpandVolume` skips a block volume only if the request carries the optional
  `VolumeCapability` (`node.go:556-562`), which older kubelets leave out. Without it
  the handler asks for the device of a path and for its file system to be resized
  (`node.go:564-577`), and if the library refuses, it refuses every repetition: the
  volume is not staged, and the pod waits. `ExpansionArrives` and `PodGetsVolume`
  except this case (`LeftToTheLibrary`).
- A size below the minimum is accepted when a limit is given too
  (`controller.go:689`; the doc comment at 668-670 says otherwise);
  `SmallOnlyWithBothBounds` says that this is the only way.
- `CreateSnapshot` is advertised (`controller.go:533-534`) and panics
  (`driver.go:103-105`); run Attach has the panic as one more crash.
- A limit on volumes that comes out zero or negative (`node.go:426-428`) is no
  limit to the scheduler. `AdmittedFits` excepts it.
- With a limit of 14 disks and one NIC the driver admits 13 volumes; with the
  boot disk and the NIC these are 15 devices, and "If you restart a VM with more
  than 14 devices connected, it will not be able to load and run"
  (`node.go:393`).
- The identity of the instance is read once; when the metadata service does not
  answer (`driver.go:150-158`), the process probes as ready, and the node is not
  registered until something restarts it. `RegistersInTheEnd` excepts it.
- When the HTTP server fails by itself, `Run` goes on until a signal comes
  (`driver.go:286`); the chart's liveness probe
  (`templates/csi-node.yaml:148-156`) has a sidecar ask the gRPC server.

`CHECK_DEADLOCK FALSE` where the system may stop: all volumes deleted, every pod
gone, all disruptions used up (Provision, Attach, Guards, the node runs, the
single-call run of Sizing). Resize and Plugin check for deadlock.

### Fairness

`Progress` in `Cluster`: weak fairness of each goroutine's next step, of taking
an answer, and of the cloud finishing what it accepted. Go schedules every
goroutine, the sidecars read their answers, the cloud's operations come to an
end. `Retry`: strong fairness of repeating `CreateVolume`,
`ControllerUnpublishVolume` and `ControllerExpandVolume`. The sidecars have
work queues with back-off and never drop an item; the item's turn may be blocked
and unblocked by calls about the same volume over and over, so that weak fairness would
not do. The variants of one claim are repeated alike, the contradictory ones
too, which is more than one provisioner does; `CreateConverges` does not depend on it for
the second name, which has one variant. Detaching is fair because the README asks for the pod to be deleted
(`README.md:41`); publishing is not fair, nothing forces a pod to come.
In `Kubelet` likewise: goroutines, answers and devices weakly, repeated
staging, publishing, expanding and unpublishing strongly; starting and deleting
pods, enlarging, and everything that goes wrong, not at all. In `Plugin` weakly: the process as a
whole (each of its goroutines takes a few steps and ends, so that none can be
passed over for ever), the kubelet's restarts, its probes as the chart sets them up
(`templates/csi-node.yaml:148-156`; under `deploy/1.17`, which has no probe on the
driver's container, a gRPC server that broke by itself is not replaced), the registrar's
repetition until it has an answer, and the end of every handler. The last is an
assumption about the cloud where `NodeGetInfo` is concerned: it asks without a
deadline (`node.go:371`). Signals, kills, pods and disks are not fair. Volume
is checked for safety only.

## 4. Proofs

All hypotheses are on constants: on what the cloud does by itself, and on
which disruptions are considered. Three of them recur.

| Hypothesis | Says | Who grants it |
|---|---|---|
| `StrictCloud` | the cloud refuses a second disk of a name, a second attachment of a disk, a second operation on a disk | the Compute service, as far as the driver's own handling of its errors tells |
| `Patient` | no call fails on its way and the process goes on: `callFails` and `restart` are no disruptions, `CreateSnapshot` (a panic) is not called | nobody for ever; it is the case in which no operation is given up |
| `Exclusive` | `StrictCloud`, or `Patient` with `OneCallPerVolume` | the cloud, or the sidecars in a good hour |

- **SizingProofs** `BlockSizeIsExact`, `SizeIsWithinRange`,
  `SmallSizeHasBothBounds`: from `SizingAssumption` only. The product that
  `parseBlockSize` computes is within the width because the number is compared
  with the maximum before it is multiplied (`AcceptedProductIsExact`); the
  default size fits every block size (`DefaultFits`), which is what the range
  checks silently rely on.
- **ClusterProofs** `TypeCorrect`: the type invariant, one lemma per group of
  actions. Its interest is in the sizes and the ids: whatever is answered comes
  from a disk or from an accepted request. The lemmas the other proofs share are
  here too: which step is a move of one call (`CallStep`), of the cloud, or of a
  sidecar; `CallsAreQueued`, that two calls under way never exclude each other;
  `CloudInv`, that an accepted operation is about the disk of its request and
  that only a ready disk is attached; `AwaitedHolds`, that a patient cluster has
  no operation that nobody waits for.
- **AttachProofs** `AttachmentsAreTrue`, `PublicationHolds`: with `StrictCloud`,
  `PublishedStaysAttached` for any number of volumes, nodes, requests, failures
  and restarts. The property is not inductive: a detachment may go on after its
  call was given up, and nothing in the property forbids it where the disk is
  published. `AttachInv` adds that the cloud has one operation per disk
  (`OneOpPerDisk`), that a running detachment is still wanted by the attacher
  (`DetachIsWanted`), that the attacher's one call about an attachment is
  the wanted one (`CallIsWanted`), and that an OK, given or about to be
  given, is true (`ClaimsAreTrue`). The heart of it: while an
  abandoned detachment runs, every repeated `ControllerUnpublishVolume` sees the
  disk attached, is refused by the cloud, and passes the error on, so the attacher
  cannot move on to publish again.
- **ProvisionProofs**, the life of a disk. `ProvisionInv` says which disk a
  volume, a `CreateVolume` under way and an abandoned creation are about. It
  needs nothing of the cloud: the provisioner has one call about a name at a
  time, and a creation that was given up has its disk listed at once, so that what
  `ListDisks` found is still so when `CreateDisk` creates.
  - `CreateIsIdempotent` (`OneDiskPerName`) and `NothingIsLeaked`
    (`NoLeakedDisk`) follow from it without any hypothesis.
  - `VolumesTellTheTruth` (`PVTruthful`): `TruthInv` follows each answer from the
    moment it is decided until it is recorded. It assumes that no operation fails inside
    the cloud, or `Patient`; with both kinds of failure it is false (run
    UnfinishedVolume).
  - `CreateGivesWhatWasAsked` (`CreateAnswersRequest`): `RequestInv`. It assumes that
    nobody makes disks larger from the control panel, else a disk outgrows the
    range between `ListDisks` and the answer.
  - `MarkersAreOwed` (`MarkerMeansOwed`): `MarkerInv` says that the resizer knows the
    size of the disk, so that a repeated resize never takes the early OK that
    leaves the marker. It assumes `Patient` and no control panel; without the
    first it is false (run StaleMarker).
- **ContractProofs**, what the attachments add up to.
  - `DetachedForGood` (`UnpublishedMeansDetached`): `Patient`, any cloud, any
    number of calls about a volume at a time. Every operation is awaited, so
    nothing happens to an attachment that the attacher does not hold. Without
    `Patient` it is false (run LateAttach).
  - `AttachedOnce` (`SingleAttachment`): `Exclusive`. Either half has its own
    argument: a strict cloud attaches only what is detached; with one call per
    volume what `PublishGetDisk` read is still true when `AttachDisk` is
    done (`ExclusionInv`).
  - `ContractIsKept` (`KeepsContract`): `Exclusive`. Each step of Cluster maps to a step
    of VolumeService or a stutter. A deletion maps to a removal because a disk that is
    deleted is not attached, hence, by `PublishedStaysAttached`, held by nobody;
    a grant, because a disk is on one node.

- **NodeProofs** `NodeTypeCorrect`, `NeverFormatted`, `DataIsKept`. A lemma on
  the moves of a goroutine, `MovesHaveEffect`, says once which command may have
  which effect on the volume of its call; the invariants are proved from it, not
  from each action anew. `NeverFormatted` (with timeouts, crashes and late links)
  rests on `KeptInv`: a goroutine at `blkid`, at `mkfs` or in the middle of it
  has a call about a volume that may be formatted. `DataIsKept` assumes
  `Punctual`, that no handler is given up and no link is late, because without
  it the property is false (LateDevice, and the first observation above). Its
  invariant `DataInv` adds that a volume has one call at a time
  (`OneCallEach`), that a volume the kubelet may have staged has its device
  (`DeviceIsThere`), and that the volume of a goroutine that has decided to
  format is blank, and what is mounted is not (`BlankWhenFormatted`); the last
  is inductive only thanks to the other two.
- **VolumeProofs**, both halves on the same volumes, with `Exclusive` and, as
  Volume has it, handlers of the node that are waited for: `MountsAreHeld`
  (`MountedMeansHeld`), `SpaceIsAsRecorded` (`SpaceAsRecorded`),
  `PodsSeeTheirVolume` (`PodSeesVolume`), `UnusedStaysUnmounted`
  (`UnusedIsUnmounted`) and `DataIsKept` (`DataSurvives`), for any volumes, nodes,
  pods and goroutines, failures and restarts of either process, and reboots.
  - The controller side needs nothing new: a step of it is a step of Cluster
    (`ControllerStepIsNext`), so the lemmas of ProvisionProofs, AttachProofs and
    ContractProofs apply (`ControllerSideInv`); `KeptApart` carries along which half of
    `Exclusive` holds and what it rests on. Since no disk is being created,
    what is recorded of a disk is true without `VolumesTellTheTruth`'s hypothesis.
  - `NodeSideInv` is the invariant of the node side. `CallsAreAwaited`: a
    volume has one call. `KubeletKnows`: that call made uncertain what it changes.
    `MountsAreKnown`: what is not uncertain is true of the mounts. `GoroutinesKnow`:
    what a handler found out, and the OK it is about to give, hold until it is
    through. `StagedIsAttached`: what may be staged the attacher has attached. By
    `PublishedStaysAttached` the disk is then here, by `OneNode` nowhere else, and a
    disk of a running instance is not resized (`StagedKeepsItsSize`): the device
    is there whenever `blkid` asks, and `resize2fs` grows to the size it keeps.
    `SizesFollow`: a file system is as large as the volume is recorded, or the
    kubelet has been told to have it grown.
  - Each command has one of four effects on the volume and the path of its call
    (`CommandIsEffect`); two calls never share either (`OthersStillKnow`).
  - Each of the five properties is a consequence of the two invariants. With
    handlers that are given up three of them are false (first observation in §3),
    and `CallsAreAwaited` is what breaks.
- **PluginProofs** `PluginInvariant`, `ReadyIsServing`, `NoHandlerIsCut`,
  `LimitIgnoresOwnDisks`, `ScheduledFits`: from `PluginAssumption`, for any set
  of RPCs, any instances and any number of disruptions. `PluginInv` is inductive,
  and run Plugin checks it: `FlagGoesFirst` orders the flag, the goroutine that
  stops and the server; `IdleWhenStopped` says that a server which has stopped
  has no handlers; `LimitIsOfInstance` gives the two values a limit can have,
  from which both theorems about limits follow.

Every invariant and every action property that the passing runs check, and the
refinement, is the statement of a theorem. Model-checked only: liveness
(`CreateConverges`, `ResizeGetsItsTurn`, `PodGetsVolume`, `ExpansionArrives`,
`StopsWhenAsked`, `ServesInTheEnd`, `RegistersInTheEnd`), which is out of the
prover's reach.

## 5. Not modelled

The `/health` handler (`health.go`) asks the cloud within 15 seconds and keeps
nothing. Read-only calls (`ListVolumes`, `ValidateVolumeCapabilities`,
`GetCapacity`, `NodeGetVolumeStats`, the capabilities), plugin info and the
manifests have no state that another call could disturb. `DeleteSnapshot` and
`ListSnapshots` are the same panic as `CreateSnapshot`. The hash for device names (`encoding.go`) may
collide for two volumes of one instance; it is not modelled. What the scheduler
does with capacities and topology is outside the repository.

## 6. Plan

Done: Sizing, Compute, Controller, Cluster with VolumeService, Node with
expansion, Kubelet, Volume, Process, NodeInfo, Plugin; theorems on sizes, types,
provisioning, attachments, the contract, formatting, both halves together,
shutdown and limits. What is left:

1. Which part of VolumeProofs survives a handler that is given up, for instance
   that `MountedMeansHeld` fails only for volumes of abandoned handlers.
2. Which part of the contract survives a call that is given up without a strict
   cloud.
