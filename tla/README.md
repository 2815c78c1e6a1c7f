# A verification development for capi-migration

`capi-migration` is a Kubernetes controller that takes a Giant Swarm legacy
cluster and hands it over to the upstream Cluster API (CAPI) controllers. These
modules model what it does to the management cluster's custom resources (CRs),
how its passes interleave with other managers, operators, users and failures,
and how it rewrites a cluster's network. TLC checks the models on small
instances; TLAPS proves the safety properties for every program, any number of
managers and masters, any VNET and node pools, and any number of faults; that
all of it implements an abstract hand-over and keeps what that promises; and what
the code does make of a migration, and what not, for the Azure and the AWS program.

Paths below are relative to the repository root.

## The system

| Part | Code | State | Operations |
|---|---|---|---|
| manager process | `main.go` | informer cache, work queue | start, list, watch, resync; leader election if `--leader-elect` is given |
| event filter | `pkg/meta/label.go` | none | `Predicate`: does the Cluster carry the opt-in label with this version |
| cluster controller | `controllers/cluster_controller.go` | none between passes | `Reconcile`, `reconcile`, `reconcileDelete` |
| Azure migrator | `pkg/migration/azure.go`, `azure_crs.go` | `m.crs`, the CRs of one pass | `NewMigrator`, `IsMigrated`, `IsMigrating`, `Prepare`, `TriggerMigration` |
| network rewriting | `azure_crs.go` (`updateAzureCluster`, `getVNETCIDR`, `getMasterIPForVNet`) | the AzureCluster's network | one rewrite per pass |
| disabling old masters | `stop_old_master.go` | pods in the workload cluster | find a node without a pod, create one pod |
| Azure cleanup | `azure_cleanup.go`, `azure_api_clients.go` | scale sets in Azure | delete legacy masters, then node pools |
| AWS migrator | `aws.go`, `aws_crs.go`, `aws_api_clients.go` | `m.crs` of the AWS pass | as Azure's, with an empty `triggerMigration` |
| AWS certificates | `aws_certificates.go` | secrets of the management cluster | fetch the CA from Vault, give secrets upstream's keys |
| templates, names, errors | `templates/`, `internal/key`, `error.go` | none | rendering, naming |

**How they interact.** An event on a Cluster passes the filter into the
manager's work queue. A worker takes it and runs one *pass*: `Reconcile` reads
the Cluster from the cache, ignores a deleted one, builds a migrator (which
connects to the workload cluster), asks `IsMigrated` and `IsMigrating` (both
always answer false) and runs `Prepare` and `TriggerMigration`. These are
straight lines of calls: read the legacy CRs, create the missing ones, rewrite
the legacy ones, disable an old master, then put the `watch-filter` label on
seven CRs one after the other. An error anywhere ends the pass; the request comes
back after 30 s. The CRs are the only memory between passes. They are shared with
the legacy azure-operator, with the upstream controllers and with the user, and
the API server refuses an update made from an outdated copy.

**What is hard.** The hand-over is seven separate writes that follow about
fifteen others; each may fail, conflict or be the last before the process ends,
and the next pass starts from the top with an empty `m.crs`. Two managers may do
all this at once. Some steps only work in the pass that did an earlier one, and
some decide on what earlier passes have left. The list with source lines is in
`PROJECT.json` under `hazards`.

**What makes each part correct.**

- Controller and migrator: nothing is touched before opt-in; the legacy operator
  loses a CR only when what precedes it is done, and upstream gets one only when the
  preparation is complete, in order, so that a CR is never the legacy operator's and
  upstream's at once, while cluster-operator stays beside upstream on the two CRs it
  shares; the Cluster comes to refer to its control plane by kind and name; a
  deletion or an opt-out that has been seen stops the migration; no pass
  dereferences what was not read; a cluster that opted in does get prepared.
- Two managers: they never hand over what was created both. Leader election is a
  flag that is off by default. The shipped manifests pass it
  (`config/manager/manager.yaml`, the chart); the development patch
  (`config/dev`) replaces the arguments and runs without.
- Network: passes settle, inject each subnet once and inside the VNET, and give
  the control plane an address in its own subnet.
- Disabling: every legacy master gets its pod.
- Cleanup: nothing legacy is deleted before its replacement is ready, masters go
  before pools, and everything legacy goes in the end.
- AWS: the same as Azure up to the hand-over, which it does not have, and
  certificates that upstream can read before anything else changes. As the code
  stands most of its calls fail every time: the legacy cluster stays as it was.

## Modules

| Module | Models |
|---|---|
| `Migrator` | the engine: controller, manager, store, operators, user, nodes. What each *kind* of call does |
| `AzureMigrator` | the Azure program: one record per method, in the order of the code |
| `AWSMigrator` | the AWS program, likewise |
| `Handover` | the abstract specification: which operators reconcile which CR. `Migrator` implements it |
| `MCMigrator` | instances of `Migrator` that run the one or the other |
| `MigratorProofs` | types, the hand-over, unset fields, exclusiveness, stranding |
| `HandoverPromises` | the theorems about `Handover` |
| `HandoverProofs` | release, opt-in and withdrawal, the refinement of `Handover`, and its promises for `Migrator` |
| `UndisturbedProofs` | what an undisturbed hand-over achieves |
| `ProviderProofs` | what all this says of the Azure and of the AWS program |
| `AzureNetwork` | the network part of an Azure pass, repeated |
| `MCAzureNetwork` | the VNETs, balancers and subnet layouts that are checked |
| `AzureNetworkProofs` | the theorems about `AzureNetwork` |
| `AzureCleanup` | the deletion of the legacy scale sets, call by call |
| `MCAzureCleanup` | an instance with two pools |
| `AzureCleanupProofs` | the theorems about `AzureCleanup` |

### `Migrator`, `AzureMigrator` and `AWSMigrator`

A migrator's pass is a straight line of calls, so the *program* is data: a
sequence of records `[op, obj, uses]`, where `op` is the kind of call, `obj` the
CR and `uses` the fields of `m.crs` that the method dereferences.

| `op` | methods | action |
|---|---|---|
| `connect` | `NewMigrator`, `IsMigrated`, `IsMigrating` | `NewMigrator` |
| `read` | `readEncryptionSecret` ... `readRelease`; `getCAData`, `createAWSApiClients` | `ReadCR`, `ReadMissing` |
| `rekey` | `moveCertDataToCAPIKeys`, the etcd secret in `createCASecrets` | `Rekey` |
| `ensure` | `create*Secret`, and the CRs AWS creates and does not keep | `Ensure` |
| `create` | `createKubeadmControlPlane` ... `createWorkersMachineDeployment` | `CreateCR` |
| `adopt` | `updateCluster`, `updateAzureCluster` | `UpdateCR` |
| `disable` | `stopOldMasterComponents` | `FindMaster`, `CreatePod` |
| `trigger` | one block of `triggerMigration` | `TriggerCR` |

`pc[m]` is the step the pass of manager `m` is at (0: no pass), `held[m]` is its
`m.crs`. A field is `nil`; `bare`, the object rendered from the template that is
kept when Create answers AlreadyExists (no resource version, no labels);
`current`, as in the store; or `stale`. Resource versions are reduced to that:
`Bump` makes every other copy stale, and an Update of a copy that is not current
is a `Conflict`. `fresh` and `sees` are the informer's cache, `queued` the work
queue. Every call can also `Fail`; a process can `Crash` at any step of a pass,
and `Panic`s when a method touches an unset field or a nil Labels map. A response
that is lost is a `Crash` or `Fail` after the effect, at the next step.

The reference to the control plane has three values. `updateCluster` takes kind and
apiVersion from its copy of the KubeadmControlPlane (`NewReference`): the client
strips them from the response of Create, so the pass that creates the CR writes a
reference without them (`kindless`). A `bare` copy has those of its template, if the
template names them (`Typed`; Azure's do, AWS's literal does not), so that a later
pass writes a good one (`kind`). `versioned` are the CRs with cluster-operator's
version label: some legacy CRs have one from the first (`VersionedFirst`), and
`triggerMigration` puts it on the Cluster and the WorkersMachineDeployment
(`Versioned`) in the same Update as the watch filter.

`OptIn`, `OptOut`, `Delete`, `Teardown`, `LegacyWrite`, `ClusterOperatorWrite`,
`UpstreamWrite` and `PodRuns` are the environment: user, operators, nodes. `View` is
what a cache that is up to date knows of the Cluster, and `Predicate` which views are
queued: taking the label away filters later events, and leaves a request that is
already there.

`Existing` are secrets that are there before any pass, `Refused` objects whose read
or creation fails every time. Both are for AWS.

What is abstracted: contents of CRs beyond the three operator labels, finalizers and
`controlPlaneRef`; the values of the labels, which are versions of the release's
components; the namespace. Nodes are listed in one order, the same every time
(`FirstWithoutPod`).
`Labelled` says for which created CRs the response of Create carries labels. No
template has any, so this is up to the API server's defaulting, which is not in
the repository. The runs take the favourable case, the theorems any.

The AWS program runs through the same actions. It begins with the certificates,
keeps only the control plane of what it creates, makes a KubeadmConfig, an
AWSMachinePool and a MachinePool for each node pool (two here), and ends after
`updateCluster` and `updateAWSCluster`: the disabling of the masters is commented
out in the code and `triggerMigration` is empty. It reads the encryption secret
under the name it later creates one with, so `Readable` lets the read succeed only
where the secret is there.

Many of its calls cannot succeed as the code stands. `AWS!Refusals` lists them by
cause: the manager's scheme (`main.go:63-75`) has neither Giant Swarm's
`infrastructure/v1alpha2` nor Cluster API's AWS types, so the client can neither list
AWSCluster, AWSControlPlane, G8sControlPlane and AWSMachineDeployment nor write the
AWSMachineTemplate and the AWSMachinePools of upstream (`Unregistered`);
`readRelease` takes the "v" from the name of the Release and, unlike Azure's, does not
put it back (`Misnamed`); and Vault's strings are asked for as bytes, the CA secret
has no name (`Unstorable`). The reads and writes are still modelled in full, since
`Refused` says which of them fail: all, one or none.

### `Handover`

The promise in four actions: the user asks (`Ask`), the legacy operator loses its
CRs one at a time (`Release`), what upstream needs is complete (`Complete`), and
upstream gets the CRs one at a time, each after those it depends on (`HandOver`).
`reconciler` maps a CR to the operators that act on it, of three: the legacy
operator, upstream, and cluster-operator, which the code does not relieve of anything
but gives two CRs to together with upstream. Four promises follow: no CR is the legacy
operator's and upstream's at once (`NeverBoth`), upstream has one only when all is
ready (`UpstreamWhenReady`), cluster-operator has what it had and the shared CRs that
upstream has (`SharedTogether`), and nothing goes back (`NeverBack`). That
cluster-operator and upstream both act on the Cluster is what the code asks for, and
the specification says so.

In `Migrator` the three are told by three labels (`Reconcilers`): the version of
azure- or aws-operator, the watch filter, and the version of cluster-operator;
`asked` is `optIn` and `complete` is `PrepareDone`, that every step before the
hand-over has left its effect. Everything else, passes, copies, caches, restarts,
conflicts, is a stutter.

### `AzureNetwork`

`updateAzureCluster` changes the load balancer and the subnets from what it finds,
and `createKubeadmControlPlane` computes the master's address once. The module
runs these over several passes on one AzureCluster: addresses are the third and
fourth octet, arithmetic is that of Go bytes (`% 256`) and of `net.ParseCIDR`,
which masks the address. A VNET that is not IPv4 ends or panics where the code
does. `Migrator` abstracts all this to "an update of the AzureCluster may change
it": the two modules meet in `UpdateCR`.

### `AzureCleanup`

One action per call of `ensureLegacyMastersAreDeleted` and
`ensureLegacyNodePoolsAreDeleted`; `pc` is the call the pass is at, `found` is
`vmssesToBeDeleted`, from which the count of old workers follows. A failed lookup
of the masters' scale set is not an error in the code (`LookupMastersFails`), that
of a pool's is a panic, which ends the pass like any other error (`Fail`). Master
nodes are listed in the order of their names, any fixed order (`rank`), since the
code looks at the first one. Azure accepts a deletion and completes it later
(`Deleted`).

None of this is reached today: `reconcile` calls `Cleanup` only when `IsMigrated`
answers true, which it never does (`azure.go:98`), `Cleanup` itself returns an error
when it answers false (`azure.go:146`), and past that `getVMSSClient` needs the
AzureCluster, which only `Prepare` reads. The module is what the two methods do once
they are called with it. Two premises belong to it: the nodes' phase is "Running"
(`ready`), a field that current versions of Kubernetes no longer fill, and for
`CleanupCompletes` that the replacements stay up.

## Runs

| Run | Instance | Shows |
|---|---|---|
| `migrator` | the whole Azure program, 1 manager, 2 masters, 1 fault, 1 foreign write | that it implements `Handover`; `HandoverAfterPrepare`, `HandoverInOrder`, `ReleasedInOrder`, `NilSafe`, `UntouchedBeforeOptIn`, `AllOrNothing`, `StrandedForever`, `WithdrawnIsLeftAlone` |
| `progress` | a shortened program, 1 manager, 2 masters, 1 fault, 1 foreign write, fair | that it gets there: `PrepareCompletes`, `MastersDisabled`, `ReferenceCompletes`, `HandoverCompletes`, `DeletionSettles` |
| `two_managers` | a shorter one, 2 managers, 1 master, 1 fault, 1 foreign write | `HandoverExclusive`; that who finds a CR there is barred from its label (`BarredForGood`); and the order and the deletion over interleaved passes |
| `aws` | the AWS program with every failing call mended, 1 fault, 1 foreign write, a user who may opt out | `ReleasedInOrder`, `ReleasedWhenReady`, `WithdrawnIsLeftAlone` |
| `network` | 48 IPv4 VNETs and one of each other family, 5 balancers, 7 layouts, 4 passes | the properties of `AzureNetwork` |
| `cleanup` | 2 pools, 1 legacy and 2 new masters, 2 new workers, 2 faults | `MastersFirst`, `NoPoolMissed`, `EnoughWorkers`, `CleanupCompletes` |
| `wrong_master` | as `cleanup` | a violation: below |
| `unreferenced` | the whole program, nothing fails | a violation: below |
| `existing_is_fatal` | the whole program, nothing fails | a violation: below |
| `disabled_late` | the whole program, 2 masters | a violation: below |
| `late_worker_subnet` | as `network` | a violation: below |
| `aws_ca` | the AWS program as the code is, nothing fails | a violation: below |

**Bounds.** `MaxFaults` and `MaxNoise` count over the whole behaviour. One fault
is enough to cut any pass at any step; passes themselves are not bounded, so what
a second, third or later pass finds is explored. Two masters are the least for
which "one pod per pass" matters. Two managers are the least that race.
`RaceProgram` keeps what two managers race for: the Cluster, which both rewrite and
label, and two of the five created CRs, which only one of them can create (the one
that is labelled next to first and the one that is created first); with the reads
these need, the pod and three of the seven labels. The AzureCluster is read and not
rewritten there: that step is the Cluster's, but for a rewrite that may change the
subnets once more, which `migrator` and `progress` have. The other CRs go through the
same actions as one that is kept, but for the two secrets, which are created and never
looked at again; `migrator` has them all, and the theorems hold for the whole program
with any number of managers. `ShortProgram` adds the AzureCluster and one secret:
liveness is checked on it, since each of its steps can be the one a pass ends at.
`aws` takes everything the code always fails at (`AWS!Refusals`) as mended, and the
encryption secret as made by someone. It has more behaviours than the code, so
its safety properties hold of the code too, and say what an AWS migration would be
with those calls mended. No liveness is checked of it: the code has none to offer
(`AWSKeepsItsOperator`).
Two node pools are the least of which one can be done and the other not. Only this run
has a user who opts out (`MayOptOut`): the steps that follow are the same for Azure,
where `WithdrawnIsLeftAlone` is proved with them.
`network` has the first and the last
addresses, written with and without host bits, with masks that have room for two
subnets, one, or many; a third pass changes nothing, so four passes are enough.

In `cleanup` two pools are the least that can be half deleted, two new masters the
least that are too many, and two faults cut a pass and the one that repeats it.

Deadlock is not checked for `Migrator` and `AzureNetwork`: the system may really stop,
for example when a cluster is deleted before anyone opted in.

**Fairness.** The worker takes what is queued and a pass goes on (`Reconcile`,
`PassStep`); the watches deliver (`SyncCache`); a process that ended is restarted
by its Deployment (`Restart`); and controller-runtime's manager resyncs its
caches periodically by default, which delivers every cached Cluster again
(`Resync`). Nothing is assumed of users, operators, nodes or failures. For the
cleanup the same makes its passes come again (`cleanup`), and Azure completes the
deletions it has accepted (`Deleted`); that the replacements stay up is the premise
of `CleanupCompletes`. `HandoverCompletes` and `AllOrNothing` rest on `AllLabelled`,
that the API server's defaulting labels each created CR: no template has a label, and
without them `AzureStopsAtCluster` is what holds.

### What the runs say about the code

- **A hand-over is completed by the pass that created the CRs, or never**
  (`StrandedForever`, proved). When Create answers AlreadyExists the rendered
  object stays in `m.crs` with nil Labels, and `triggerMigration` panics when it
  labels it: run `existing_is_fatal`, against "It's ok. It's already there." and, in
  `spec.go`, an `IsMigrating` that tells when a migration is triggered. It
  needs no failure: the first event after a complete hand-over does it, at the
  second of the seven labels, and no later pass gets any further
  (`AzureIsHandedOverOnce`, proved).
- While nothing fails and nobody interferes, there is nothing half-way between two
  passes (`AllOrNothing`, proved for one manager). With two managers even that is
  lost: the one that finds the CRs there goes on to update the Cluster, which makes
  the other's update a conflict and strands the CRs that it created. The shipped manifests ask for leader
  election, the development ones do not.
- The same flaw is what keeps two managers apart: `HandoverExclusive` fails as
  soon as the object is read back (its mutant). Reading it back needs leader
  election, or a check, at the same time.
- `IsMigrating` always answers false, so every event prepares again, against its
  name. Two things depend on it: one pod is created per pass, and the reference to the
  control plane is only made good by a second pass. If `IsMigrating` told the truth the
  other masters would never be disabled, and the reference would never have a kind (the
  mutants of `MastersDisabled` and `ReferenceCompletes`).
- The pass that creates the control plane refers to it without kind and apiVersion,
  and hands the Cluster over like that (run `unreferenced`, against the comment in
  `createKubeadmControlPlane` that the CR is stored to be referenced). The next event's
  pass, which finds the CR there and keeps the rendered object, writes the reference
  again, this time with both.
- The first pass hands over while other legacy masters still run (run
  `disabled_late`, against the README's preparation phase). Making
  `stopOldMasterComponents` wait would not do: `HandoverCompletes` fails, since
  the next pass finds the CRs there (its mutant, and that of `AllOrNothing`). With one
  legacy master the README's order is kept (`AzureDisablesTheOnlyMaster`, proved).
- All of the hand-over rests on the labels that the API server's defaulting may put
  into the response of Create. If it puts none, upstream gets the Cluster and never
  another CR, after the legacy operator has lost them all (`AzureStopsAtCluster`,
  proved).
- With node pool subnets only, the second pass injects the legacy worker subnet
  that the first one rightly left out (run `late_worker_subnet`, against the
  comment in `updateAzureCluster`).
- Cleanup checks the phase of the first master listed: a legacy one that still runs
  passes for the new one (run `wrong_master`, against the comment in
  `ensureLegacyMastersAreDeleted`). The comment is true if the new masters' names sort
  before the legacy ones' (`ReadyIfListedFirst`, proved).
- An AWS pass ends where it begins (run `aws_ca`, against the comment of
  `createCASecrets`): Vault's client decodes JSON strings where the code asks for
  `[]byte`, and the CA secret has no name and no namespace; nothing is changed then
  (`AWSNeedsTheCA`, proved). Past that, it reads the encryption secret before it
  creates it: unless someone else does, no control plane is ever made
  (`AWSNeedsTheEncryptionSecret`, proved). Past that too, it lists CRs of types that the
  manager's scheme does not have, and gets a Release by a name without its "v". While
  a single one of these is not mended, the legacy operator keeps every CR
  (`AWSKeepsItsOperator`, proved). And were all mended, the Cluster would refer to its
  control plane without a kind in every pass, since the rendered object has none.
- Nothing but the order of the calls protects the certificates: with
  `migrateCertsSecrets` last, `ReleasedWhenReady` fails (its mutant).
- Opting out is not a stop: a request that is queued, or waits its 30 s, runs another
  pass, and again after each one that fails, until one succeeds or the process is
  restarted. `WithdrawnIsLeftAlone` therefore starts where no request is left.

## Proofs

For every `Managers`, `Masters`, `Labelled`, `Typed`, `Versioned`, `VersionedFirst`,
`Existing`, `Refused`, bound and every `Program` that meets `ProgramAssumption`:

| Theorem | States | In |
|---|---|---|
| `TypeCorrect` | `TypeOK` | `MigratorProofs` |
| `HandoverIsPrepared` | `HandoverAfterPrepare` | |
| `HandoverIsOrdered` | `HandoverInOrder` | |
| `NoNilDereference` | `NilSafe` | |
| `HandoverIsExclusive` | `HandoverExclusive` | |
| `StrandedIsForever` | `StrandedForever` | |
| `BarredIsForGood` | `BarredForGood` | |
| `NothingBeforeOptIn` | `UntouchedBeforeOptIn` | `HandoverProofs` |
| `WithdrawnStaysAlone` | `WithdrawnIsLeftAlone` | |
| `ReleaseIsOrdered` | `ReleasedInOrder` | |
| `ReleaseIsReady` | `ReleasedWhenReady`, for programs with `MissingFirst`: what is missing is made before a legacy CR is rewritten | |
| `MigratorImplementsHandover` | `ImplementsHandover` | |
| `MigratorKeepsPromises` | the four promises of `Handover` | |
| `UndisturbedIsAllOrNothing` | `AllOrNothing`, given `OneManager`, `LabelsDefaulted` and `CreatesThenHandsOver` | `UndisturbedProofs` |
| `HandoverNeedsLabels` | a CR of the hand-over order is labelled only if Create's responses for it and all before it have labels | `ProviderProofs` |
| `ImpassableStays` | at a step the code always fails at all passes end, and what only it and later steps do is never done | |
| `HandedOverOnce` | once a CR is created and no pass is under way, no pass of any manager gets past its label | |

For the Azure and the AWS program (`ProviderProofs`):

| Theorem | States |
|---|---|
| `AzureReleasedWhenReady`, `AWSReleasedWhenReady` | `ReleasedWhenReady`, without a hypothesis on the program |
| `AzureIsAllOrNothing` | `AllOrNothing`, given `OneManager` and `LabelsDefaulted` |
| `AzureClusterIsLast` | with the AzureCluster upstream has all CRs, the legacy operator none, and a pod, the controlPlaneRef and all that is created are there |
| `AzureDisablesTheOnlyMaster` | with one legacy master, `DisabledBeforeHandover`, which fails with two |
| `AzureStopsAtCluster` | if Create's responses have no labels, upstream gets the Cluster and nothing else |
| `AzureIsHandedOverOnce` | once the WorkersMachineDeployment is created and no pass is under way, no pass gets past the second label |
| `AWSNeedsTheCA` | if the CA cannot be read, nothing is changed |
| `AWSNeedsTheEncryptionSecret` | if nobody else makes that secret, there is no control plane and the legacy operator keeps the cluster |
| `AWSKeepsItsOperator` | while any of the calls in `AWS!Refusals` is refused, the legacy operator keeps every CR and nothing is handed over |

For every set of CRs and any order of them (`HandoverPromises`):
`NeverTwoOwners`, `UpstreamIsReady`, `SharedComeTogether`, `NothingGoesBack`.

For every set of VNETs, balancers and layouts and any number of passes
(`AzureNetworkProofs`): `TypeOK`, `UpdateHasNetwork`, `OneSubnetOfAKind`,
`InjectedInNetwork`, `MasterInItsSubnet`, `BalancerUsable`, `SettlesAtSecondPass`,
`FrontendsKept`. For every set of pools, capacities and nodes
(`AzureCleanupProofs`): `TypeOK`, `MastersFirst`, `NoPoolMissed`, `EnoughWorkers`
and `NewMasterReady` where the new masters are listed first (`ReadyIfListedFirst`).

**Assumptions.** `ProgramAssumption` says what the order of the code's calls
gives: hand-over steps come last and name different CRs; a field is set by an
earlier read or create before it is used; the Cluster is one of the legacy CRs,
and these are read and never created; a certificate secret is read by the method
that rewrites it. `EnvironmentAssumption`, `NetworkAssumption` and
`CleanupAssumption` type the other constants. TLC evaluates them on the Azure program,
the two shortened ones and the AWS program in the runs of `MCMigrator`, and on the
instances of the other two. What a theorem assumes beyond these is in its statement:
`MissingFirst` and `CreatesThenHandsOver` are facts about a program, proved for
Azure's (`AzureOrder`; the first for AWS's too); `OneManager`, `LabelsDefaulted`,
`Refused` and `Existing` say in which environment it runs. None is a constraint that
the runs do not meet: `migrator` has `OneManager` and `LabelsDefaulted`.

**Argument.**

1. *Hand-over.* `HandoverAfterPrepare` is not inductive: it says nothing of a pass
   that is half-way. `HandoverInv` adds `Progress` (below the `pc` of any manager
   every step is `Done`) and `Justified` (below the step of any labelled CR too).
   It works because what is done stays done (`DoneStable`): nothing ever removes a
   created CR, puts an operator label back, or takes a watch-filter label away;
   `StepShape` is that, for each action. A pass that fails resets its `pc` and
   loses no effect. `HandoverInOrder` is the same invariant read at trigger steps.
2. *Unset fields.* `NilInv`: what lies below the `pc` has been read or created in
   this pass, so the field is set. `SetShape` and `HeldShape` describe how a step
   changes the copies.
3. *Exclusiveness.* `OwnerInv`: at most one manager holds a created CR with a
   resource version (`OneOwner`), a copy is only held of what exists, and a pass
   past a trigger step holds what it labelled. Create refuses the second one, and
   a refused copy is `bare`; a process that ends takes its copies with it.
4. *Stranding.* From 3 and `HeldShape`: no action turns a `nil` or `bare` copy of
   an existing created CR into one the API server accepts. So a manager that finds
   such a CR is barred from its label for good (`BarredStep`): no read renews the
   copy, and Create answers AlreadyExists.
5. *Release.* `ReleaseInv` is `HandoverInv` with `ReleasedInOrder`. The step that
   takes an operator label off is at its own `pc`, and `Progress` has all below it.
6. *Opt-in.* `UntouchedInv` adds that before opt-in every manager is idle with an
   empty queue and a cache that shows no label. `IdleSteps` says which actions are
   left then, and `IdleStepShape` that none of them touches a CR.
7. *Withdrawal.* What a cache has seen must have happened (`SeenInv`), and a process
   that is down has no pass and no queue (`DownInv`): so a restart or a resync shows
   a withdrawn Cluster again, and the filter or the deletion check stops it.
8. *Refinement.* `ReleaseInv` and `UntouchedInv` together say which abstract step a
   change of the labels is; `VersionedInv`, that cluster-operator's label is where
   it was or where it came with the watch filter, says it of the third one. Each
   step of `Migrator` changes at most one of `operated`, `handed`, `optIn` and the
   rest of the preparation (`OneAtATime`): a case for each gives `Release`,
   `HandOver`, `Ask`, and `Complete` or a stutter.
9. *Promises.* `Handover` is proved about on its own, where a state is three
   variables: `PromiseInv` adds to the promises that what is complete has been
   released; one lemma each for a `Release` and a `HandOver` keeps it.
   `MigratorPromises` carries them over: a behaviour of `Migrator` is one of
   `Handover` under the mapping, so nothing is proved twice.
10. *Undisturbed.* `AllOrNothing` speaks of the time between passes.
   `UndisturbedInv` says what a pass is like while it runs (`Pending`): before its
   first Create its cache is up to date where it has still to read, beyond it it holds
   a current copy of every CR it is still to write, so no later step can conflict or
   panic. `UndisturbedStep` lists the steps that are left when nothing disturbs; with
   one manager none but the pass's own changes a CR.
11. *Blocked steps.* `BlockedInv(i)`: no `pc` is beyond `i`, and nothing that only
   step `i` or a later one does is done. `EffectShape` gives for each effect the step
   that has it. The Azure and AWS theorems name the step and why it is impassable;
   `AWSRefusalsComeFirst` finds one before the rewriting for each refusal.
12. *Handed over once.* `IdleInv`: a manager without a pass has an empty `m.crs`. So
   when all are idle and a created CR exists, all are barred from it (`AllBarred`),
   and by 4 they stay so.
13. *Network.* `NetworkInv`: an injected subnet's octet follows from its kind and the
   VNET (`Placed`), kinds are unique, the master's address follows from the VNET, and
   after a first and a second pass there is a master and a worker subnet.
   `UpdatedSubnets` is cut into two additions of one subnet (`UpdateInTwoSteps`,
   `ExtendedKeeps`). `StartOfBlock` is the arithmetic: block sizes are powers of two,
   so the start of a block of at least two octets and its successor are in it and
   the byte does not overflow.
14. *Cleanup.* `OrderInv`: beyond the masters' part of a pass their scale set is no
    longer present, and scale sets only go. `NoPoolMissed` is inductive with
    `TypeOK`, since `left` and `found` are filled from all pools in each pass. Workers
   are counted as pairs of a pool and an instance, a finite set (`WorkersFinite`), so
   that the count of more pools is not less (`SumsGrow`): `EnoughWorkers` needs that,
   and TLC evaluates that the count is the sum of the capacities. Where the new
   masters' names sort first, the node that is checked is the new one (`FirstIsNew`).

Liveness under fairness (`PrepareCompletes`, `MastersDisabled`, `ReferenceCompletes`,
`HandoverCompletes`, `DeletionSettles`, `CleanupCompletes`) is out of the prover's reach and
model-checked only; `AllOrNothing` is the part of `HandoverCompletes` that is safety,
and it is proved. The properties of the runs that expect a violation are false and
have no theorem, but for the cases in which they hold.

## Not modelled

- Releases that lack a component: the watch-filter label is then empty, and nobody
  takes the CR. Which components a release has is data outside the repository.
- Cleanup by two managers at once, and scale sets whose capacity changes.
- API clients (their credentials, `getVMSSClient`), templates, names, flags: no state,
  or rendering only. AWS's `Cleanup` only refuses.
- A change of the migration's own version (`project.Version`), which is an opt-in or
  an opt-out of every Cluster at once.
- Garbage collection of created CRs after the Cluster is gone.

## What could follow

1. The release as data in `Migrator`: which components it lists, and who reconciles
   a CR whose label is empty.
2. The AWS program once its failing calls are mended and it has a
   `triggerMigration`: run `aws` with liveness and the hand-over of `HandoverCompletes`.
3. Cleanup once `IsMigrated` tells the truth and `Cleanup` reads the CRs, composed with
   `Migrator`.
