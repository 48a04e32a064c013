# Formal models of OpenShift Origin

TLA+ models of the controllers of OpenShift Origin (`src/origin/pkg`), the runs
of TLC that check them on small instances, and the theorems about them that
TLAPS proves. Everything else under `src/` (Kubernetes, etcd, the Docker
distribution and so on) is vendored; what the models need of it is modelled
from how the origin code uses it and marked `external` in the map of
`PROJECT.json`.

`PROJECT.json` names for every definition the lines it stands for, for every
run its question, for every property a mutation of the code that breaks it, and
lists the hazards and the disagreements.

Contents: [the system](#1-the-system), [the plan](#2-the-plan),
[how the models are built](#3-how-the-models-are-built),
[deployments](#4-one-deployment-deploymentcontroller),
[rollouts](#5-the-rollout-of-a-config-rollouts),
[the leader lease](#6-the-leader-lease-leaderlease),
[ingress addresses](#7-ingress-addresses-ingressips),
[the network](#8-the-network-eventqueue-subnets-netids),
[routes](#9-the-router-routeadmission), [runs](#10-runs-and-bounds),
[fairness](#11-fairness), [proofs](#12-what-is-proved),
[disagreements](#13-disagreements), [limits](#14-what-is-not-modelled).

## 1. The system

The master is a set of controllers around one API server. Objects are stored
with a `resourceVersion`; an update from an outdated copy is refused with a
conflict, a patch or a deletion is not. Controllers read from *informers*,
caches filled by one watch per kind of object; the watches are independent of
each other and lag. Handlers of the informers put keys into rate limited work
queues, workers take them and call `Handle`. So almost every behaviour of
interest is one of: a decision on an old copy; two copies of different age; a
wakeup that no handler gives; a write that is refused or lost half way; a key
that is dropped after a number of errors; a restart that empties queue and
caches.

### Deployments (modelled)

| component | state | operations | talks to |
|---|---|---|---|
| deployment config controller (`deploy/controller/deploymentconfig`) | a work queue; caches of configs, deployments, pods | makes the deployment of the latest version, cancels those it supersedes, scales, prunes the history, writes the status | trigger controller (the status it writes wakes it), deployment controller (through the ReplicationController it creates or cancels) |
| trigger controller (`deploy/controller/generictrigger`) | a work queue; caches of configs, deployments, image streams | asks the instantiate endpoint for a version | the endpoint, the config controller (through `latestVersion`) |
| config storage and instantiate (`deploy/registry`) | configs | update, status update, instantiate | every client |
| deployment controller (`deploy/controller/deployment`) | a work queue; caches of deployments and pods | creates the deployer pod, takes the phase of the deployment from it, cleans up | deployer (through its pod), clients (through annotations) |
| deployer and strategies (`cmd/infra/deployer`, `deploy/strategy`) | its own process in a pod | scales old and new deployments, runs hook pods | the ReplicationControllers |
| clients (`oc rollout`, `oc deploy`) | what they read a moment ago | latest, cancel, retry | annotations and versions |

Hard here: two independent watches decide together about one phase; the
annotations that Handle computes at its start are written at its end; a pod
created before the write that records it; wakeups that some handlers do not
give (additions of deployments, additions of pods); users who cancel, retry,
scale and remove while controllers work from lists; `HandleErr` that drops keys.

Correct means: a phase only advances, and `Complete` is backed by a deployer
that succeeded; a cancellation is not overwritten; every deployment ends and
its pods go; only superseded deployments are cancelled, the latest is never
pruned, only complete ones are scaled up; a version asked for is made, a
template that stays is rolled out, the replicas settle.

### Builds (planned)

State: builds with a phase, their pods, a sequence number per config.
Operations: creation of the pod of a build, following its phase, cancellation,
choice of the next build by a run policy (serial, serial latest only, parallel),
instantiation. They run on `controller.RetryController` (FIFO and retry
manager). Hard: the policy reads lists while other builds start and end; a pod
is created and the update to Pending fails; a cancellation races the creation.
Correct: at most one build of a serial configuration runs; builds start in
order; a cancelled build has no pod for long; every build is started.

### Leader lease (modelled), scheduler (candidate)

`util/leaderlease`: state is a key of etcd with a TTL, an acquiring loop, a
renewing loop, a watch, and a channel that reports the loss to the plug of the
controllers. Hard: expiry against renewal, a renewal applied whose answer is
lost, a watch that misses, a release that races the loss. Correct: two masters
lead together for no longer than the delays allow; without failures never; a
holder learns of its loss; a free lease is taken. `controller/scheduler.go`:
buckets of items handled outside the lock while they are removed, delayed or
added. Correct: an item is in one bucket, no removed item comes back.

### Addresses and networks (modelled on the master's side)

Ingress IPs (`service/controller/ingressip`): an allocator and a map in memory,
a queue of changes, an initial sync, two writes per service. Correct: no
address is stored for two services for good, an address is kept, also over a
restart; a full range is retried without growing the queue.

Subnets (`sdn/plugin/subnets.go`, `util/netutils/subnet_allocator.go`): two
goroutines that share an allocator and take events of nodes and of HostSubnets.
Correct: distinct subnets, all of them before an error, none lost or given
again; a node gets its HostSubnet.

Network ids (`sdn/plugin/vnids_master.go`, `sdn/plugin/netid`): namespaces and
their ids in memory and stored; join, isolate, make global. Correct: memory and
store agree, only those share an id who asked for it, requests are done.

The three SDN loops work from `sdn/plugin/eventqueue.go`, a queue that compresses
deltas over lists, watches and resyncs. Hard: an event compressed away or
contradicted by a list; failed calls after memory was changed; lost answers.

### Router (admission modelled), quota, unidling, security, images, service accounts

Router: a compressing queue (`client/cache/eventqueue.go`), `UniqueHost`, which
keeps the claims of hosts by routes of several namespaces, and the state of the
template router. Hard: what was refused is remembered in one map and not in the
other; lists that hide deletions; resyncs without an event. Correct: one
namespace per host, one route per path, the router follows the store. Quota: the
bucketing work queue of the reconciliation; correct: nothing added is lost, a
key is handled by one worker at a time. The components of `PROJECT.json` say of
each part what is left out and why.

## 2. The plan

The order follows what the system is for: deployments first.

1. **Deployments** (done). `DeploymentController`, which drives one deployment
   through its phases, with its abstract specification `DeploymentOutcome`;
   proofs in `DeploymentController_proofs`.
2. **Rollouts** (done, to be extended). `DeploymentConfigs` (the objects, their
   caches, users), `DeploymentConfigController`, `DeploymentTriggerController`,
   and `Rollouts`, which composes them. `Rollouts` uses of the deployment
   controller what `DeploymentOutcome` promises.
3. **Leases** (done): `LeaderLease`.
4. **Allocators** (done): `IngressIPs`; `Subnets` and `NetIDs`, which compose
   the instances of `EventQueue` they work from. The queue is proved about once,
   in `EventQueue_proofs`, for both.
5. **Router** (done, to be extended by wildcards and the contention of
   routers): `RouteAdmission`.
6. **Image triggers**: image streams in the trigger controller and
   `processTriggers`: an image pushed last is deployed last, and no push is
   forgotten.
7. **Lifecycle hooks** of a deployer: the wait group of
   `executeExecNewPod` against the events of a hook pod.
8. **Builds**: `RetryController`, `BuildPolicies` and `Builds`; the abstract
   specification is a queue of builds of which one is active.
9. **Quota and scheduler**: `BucketingQueue`, `Scheduler`.

Theorems: the safety properties of every module above are proved (section 12).
All modules with theorems are free of recursive operators; `Subnets` has a
recursive function, `Pow2`, whose equation is proved.

## 3. How the models are built

**Stores, watches, caches.** For each kind of object there is what is stored
(`rc`, `pod`, `dc`), a sequence of events that are written but not delivered
(`rcEvents`, ...), and what the informer holds (`rcCache`, ...). A write
appends an event; a delivery takes the first, updates the cache and runs the
handlers of the informer. The watches are independent, so any combination of
ages occurs. A restart lists again: the caches equal the store and no events
are left, which is what `waitForSyncedStores` waits for.

**resourceVersion.** A copy is current exactly if no event of that object is on
its way, so a counter is not needed: `Fresh` stands for the check. Events that a
restart skips have been replaced by a fresh cache. Configs are read by others
than their controller: `upToDate` is the set of those whose copy is current.

**Work queues.** A set (or a Boolean for a single key) of keys to handle,
another of those waiting out their delay, and `NumRequeues`. A key handled is
out of the queue; it may be added again meanwhile, and by the queue's contract
is not given to a second worker before the first is done.

**Steps.** `DeploymentController` handles a key in one step. It reads only its
cache, and its writes to the deployment are refused when the deployment
changed since, so a write of someone else between its calls has the same effect as one
just before that the cache does not show. What it does to pods it does by name
(creation, deletion), where the same holds: nothing is read back.
`DeploymentConfigController` reads its cache again between its calls, deletes
without a precondition and writes the status last: there each call is a step
of its own, and `work` is where the worker is, with exactly the copies the
code holds (a copy that is not used any more is set to a fixed value).

**Bounds.** Environment actions that write are guarded by `Room`, which bounds
how far they run ahead of the watches; the controllers' own writes never are.
What the environment may do at all is counted in `spent` against `Limits`, a
record with one field for each kind: errors of API calls, restarts, edits,
rollouts by clients, retries, scalings, removals, evictions, hooks, creations,
events of other pods. `MaxVersion` bounds the versions of a config.

Types of objects keep the fields the decisions depend on. Replica counts are 0
or 1, 1 standing for the desired count.

## 4. One deployment: `DeploymentController`

`DeployUtil` holds the pure functions of `deploy/util` the controllers share:
the phase machine, and the views on the deployments of a config (latest,
active, those for cleanup). `DeploymentController` has the two watches, the
queue, and one action for each branch of `Handle`:

| action | code |
|---|---|
| `DeliverRc`, `DeliverPod` | the handlers of `factory.go`: which event wakes which key; a pod whose deployment is not in the cache wakes nobody |
| `HandleNewCancelled`, `HandleNewStart`, `HandleNewFound`, `HandleInFlight`, `HandleTerminated`, `HandleMissing` | the branches of `Handle` and `work` |
| `UpdatePhase` | the end of `Handle`: transition check, test deployments scaled down, update, conflict |
| `CleanupThenUpdate` | `cleanupDeployerPods`: deletions that fail are passed over and reported at the end, and then the update is not made |
| `Requeue`, `Forget`, `DelayElapses` | `handleErr`: dropped after two requeues |
| `PodStarts`, `PodFinishes`, `PodRemoved`, `PodEvicted` | nodes, and whoever deletes pods |
| `DeployerScales`, `DeployerRunsHook` | what others see of a strategy |
| `CancelReads`/`CancelPatches`, `Retry`, `RetryReads`/`RetryPatches` | `oc rollout cancel`, `oc deploy --retry`, `oc rollout retry`; the updates can conflict, the patches (`...Patches`) carry no resourceVersion |
| `RcCreated`, `RcDeleted` | the config controller and users |

Special deployments are constants: `IgnorePod` (a client runs the deployment
itself, annotation `deployer-pod.ignore`), `Foreign` (a pod of somebody else
has the deployer's name), `TestDeployments` (`spec.test`).

`succeeded` and `attempted` are observations, not state of the program: whether
a deployer of this deployment ever succeeded, and whether one was created since
it was New.

`DeploymentOutcome` is the promise: a deployment is accepted, ends once, and
ends Complete only on evidence; a failed one may be retried. The refinement maps
the phase to the outcome and `succeeded` to the evidence.

## 5. The rollout of a config: `Rollouts`

`DeploymentConfigs` has the config, its deployments by version, their caches,
the instantiate endpoint and everybody who writes to them apart from the two
controllers. `DeploymentConfigController` has its queue and `Handle` as steps:
`Begin` (a worker takes the key, copies config and list, and decides), then
`CancelOne`..., `AwaitCancellations`, `ScaleOne`..., `Create`, `PruneOne`...,
`WriteStatus`. `DeploymentTriggerController` has its queue and `Handle`.
`Rollouts` composes the two: an event of the config goes to the handlers of both
(they share the informers), a restart restarts both, every other step belongs
to one of them or to the environment.

Abstractions, in addition to those of section 3:

- `"New"` stands for New, Pending and Running, which the config controller does
  not tell apart, except in the Progressing condition (it reports progress from
  Pending on; `ProgressOf` allows both).
- `RcEnds` is what `DeploymentOutcome` promises of the deployment controller
  and its deployer: a deployment in flight ends, with either number of
  replicas. A cancellation is one reason to fail; completion takes it back.
- `synced` says whether `status.observedGeneration` is `metadata.generation`;
  the generation is bumped by the strategies on a change of the spec and by an
  instantiation, observed by the status write.
- The status is `latestVersion`, `synced` and `progress` (what the Progressing
  condition says); replica counts and the Available condition are left out.
  They would write the status more often and so wake the trigger controller
  more often: leaving them out makes the liveness properties harder to satisfy.
- One config, with one ConfigChange trigger. It may be paused, edited and
  marked for deletion; its finalization is not modelled.
- The update of a cache and the run of its handlers is one step.
- `Instantiate` reads and writes in one step; a conflict with another writer is
  one of the errors of `TriggerFails`.
- `oc retry` is modelled for the latest version only, the one its command line
  accepts.
- A template that `MakeDeployment` cannot encode (a fatal error) does not occur.
- `HistoryLimit` is 0 in the runs: everything that may be pruned is. (The
  default is no limit, under which nothing is.)

Why the controller ends and scales only what it should, although config and list
may both be old, is `RolloutIsSound`, the conjunction of five parts in `Rollouts`:

| part | says |
|---|---|
| `ConfigFollows` | the events of the config lead from `dcCache` to `dc`; versions only grow on the way |
| `DeploymentsFollow` | a deployment without events under way is cached as stored; the last event of one carries what is stored |
| `VersionsAreSeen` | no deployment, stored, cached or under way, is of a version above `dcCache.lv`, nor is the config in hand |
| `WorkIsSound` | a copy that may be written is `dc`; what is listed or scaled is not above the version in hand, what is cancelled or pruned is below |
| `CompleteStays` | without removals by users, what is cached or under way as Complete, and the active deployment in hand, is so, or was pruned and is not made again |

The deployments are read again, one by one, while they are scaled, but the
active one is chosen once, from the list (`controller.go:211`, `work.active`): a
deployment that completes while the loop runs does not replace it.

## 6. The leader lease: `LeaderLease`

Each master has `AcquireAndHold` as places of a loop (`loop`), a call to etcd in
two or three steps (sent, applied or failed, answered), a watch, and `Release`
with its own calls. etcd applies a call at any moment between its sending and
its answer, or reports an error with or without applying it. Time passes in
ticks of the retry interval; `Tick` is held back until every process has done
what it does at that tick, and no call is in flight for more than `MaxDelay`.
The waits (`After`, the ttl halved and so on) are computed as in the code. A
process that dies comes back with another random id, so its key belongs to
`Gone`. `started` is the plug: the controllers of a process run because of the
lease, or because somebody asked for it by hand.

`MaxDelay` is at least 1: a call can always be in flight when a tick comes, and
with 0 no tick could. Every bound is a multiple of it. It is an assumption about
etcd and the network: the client sets no request timeout (`etcd.go:58-62`), so the
code enforces no such bound. `OverlapIsBounded` and `LoserStops` hold relative
to the delay that the environment keeps.

`over` counts the ticks in which controllers run without the lease. `Grace`, the
bound of `OverlapIsBounded`, is what the code can cost: the delay of the last
renewal that succeeded, the tries of the last poll, the tries of `Release`,
which runs before the plug is told. `OnlyFaultsEndALease` states the margin
under which a leader renews in time. `LeasesAreSound` is what both follow from
(section 12): a process that runs because of the lease has no more ticks left
to run (`LeftToRun`) than `Grace` and what is left of its lease leave it.

## 7. Ingress addresses: `IngressIPs`

One informer feeds a queue of changes; a change is taken (`Work`), which decides
a `plan`, a sequence of steps: allocate, set the status, add the external ip,
clear either. Each step that is a call is an action, between which users write
and watches deliver (`Allocate`, `WriteDone`, `WriteFails`, `Forget`). `Fails`
says which failed changes come back after a delay; a change that waits for a
free address is flagged and in `requeued`. Until the initial sync the changes
are only kept; `ProcessInitialSync` records what is stored in order of creation.

`service` keeps type, address in the status and external ips; a write from a
copy that is not the stored one conflicts, which the code takes for done.

`disputed` is an observation: the addresses that several services had at the
initial sync. Only one of them is recorded, and until the change of the others is
processed the address is given to a third service when that one goes: hence the
exception of `NewAddressIsFree`.

The properties rest on the invariants of the section "Why they hold" of the
module, together `IngressIsSound`: events lead from the cache to what is stored
(`EventsFollow`); a deletion in the queue is out of date once the service has an
address again, and the update that gave it comes later (`QueueIsSound`); the copy
that a change works on is the stored one, or overtaken by a change that is still
to come (`JobIsSound`); allocator and map agree but for the address that is being
written (`AllocatorIsExact`); a stored address is recorded, or its service is
pending (`StoredIsRecorded`). TLC checked them on the instance of the run and on
one with three services that begin with the same address.

## 8. The network: `EventQueue`, `Subnets`, `NetIDs`

`EventQueue` is a queue for one kind of objects: what is stored, what the
reflector listed or has still to read, the delta of each key, and what the
handlers have been told. The matrix is `DeltaActions`; what it lacks is a panic,
which takes the master down and is an action of the composing modules. `skewed`
remembers the keys whose delta a list contradicted: for these the queue is known
to be wrong (section 13), and the properties except them. The deletion of what is
neither known nor queued is dropped by `DeltaFIFO` (`Dropped`). The object of a
delta is the one in `knownObjects`, so a handler that changes it in place changes
what the next resync queues (`AlterKnown`). Abstractions: the order among keys is
open, a list is current when it is handed over, a resync finds the queue empty.

The composing modules instantiate what the queue promises: `Learned`, that the
handlers are told the truth once nothing is under way; `IsTold`, what it follows
from (the watch leads from what the handlers will know, or from the list, to what
is stored); `Carries`, that nothing is in the queue that was not stored; and
`GoneForGood`, that what a deletion says is gone is not heard of again.

`Subnets` composes two queues with the two loops of the master. A handler runs
under the lock of its queue, so that only its own watch goes on; its calls to the
API are steps, with the other loop, users and kubelets between them. The
allocator is `taken` and `next`; `SubnetAt` is the arithmetic of `GetNetwork`,
compared with its reference definition in `RotationCovers` for host bits 1 to 9
and subnet bits 0 to 9 (and proved for all, section 12); `FullWhenAllTaken` says
that the search from `next` on finds a free subnet if there is one. The check of a node's address and of its conditions is
left out: a heartbeat stands for every event that brings the node again. A subnet
is `Owned` by a host if the store, the watch, the list or the queue of HostSubnets
connects the two, unless it was dropped (released after a lost answer); `Making`
is what a goroutine is about to store. `OwnersAreSound` says that all these are
disjoint and taken, `AnnotatedIsSeen` that the goroutine is at an annotated
HostSubnet if nothing about it is queued.

`NetIDs` composes two queues with the loops for namespaces and NetNamespaces.
The lock of the map is held over the calls, so an assignment with its call is
one step with an outcome: done, refused as outdated (a conflict), failed, or
applied with the answer lost. A request is the annotation of a NetNamespace.
`updateVNID` sets the id and takes the annotation off the object of the event
itself before it sends the update (`Alter`), whatever becomes of the call: the
known copy has then lost the request, and no resync brings it back. The field
`was` is history, the request that was taken off; `IsForgotten` says that it is
the one still stored. `NetworksFollow` excepts these namespaces, and is violated
without that exception (section 13).
`Residents` are namespaces that are there and stay, `default` among them, which
is global. `joined` records who was asked to share, `unsettled` whose last call
gave an error. `SharedInMap` is `NeverShared` of the map in memory, and
`JoinsOthers` says that no request, however old, asks to join a namespace to
itself: that one would free the id it holds. Whether ids may change (`allowRenumbering`) may be another after
a restart. The branch for new admin namespaces, malformed requests and deletions
of NetNamespaces by administrators are left out.

## 9. The router: `RouteAdmission`

The reflector's list (sorted by age), its watch, the queue of events with its
store, `UniqueHost` and the routes of the template router. `HandleRoute` is `Pop`
and the whole of `UniqueHost.HandleRoute`, under the controller's lock:

| operator | code |
|---|---|
| `Rival`, `Loses` | the comparisons of paths and ages that refuse a route |
| `Displaced`, `Claimed` | who is told to go, and the list of claims afterwards |
| `Admit`, `Forget`, `ClaimOnly` | the switch over the type of the event: added or modified, deleted, none (a resync) |
| `Dropped` | the claims of the host that a route is said to have had |
| `HandleNamespaces` | the filter, and whether the template router is told |
| `Compressed`, `HandleEvent`, `Replace`, `Resync`, `Panics` | the queue |

Age is `uid`. The host of a route is fixed by validation, its path is not; an
update may leave both, as a write of the status does. `Admit` may fail to write
the status, and then the template router is not told.

`refused` is an observation: the routes of which the template router was not
told what is stored. `ServedFollows` says that there is no other reason to
differ. `AdmissionIsSound` is what `HostsAreOwned` follows from: the watch tells the
story of every route and the queue knows how it began (`WatchIsSound`), what is
served is what the queue last gave out (`ServedIsKnown`), and a route claims the
host it is served at, with its path (`ClaimsAreSound`). `left` are the hosts whose claims were dropped by a route that was
said to leave them; `HostsAreOwned` excepts them, and the run `routes_share`
shows why (section 13).

## 10. Runs and bounds

Two events under way are enough to let each watch be ahead of the other; three
let a deployment change twice while its pod is not seen. One fault of a kind is
enough to separate any two calls of a handler; the actions repeat, so
behaviours of any length within these limits are explored.

| run | instance | shows |
|---|---|---|
| `deployment` | one test deployment; lag 3; one API error, restart, retry, eviction | the safety properties of section 4, and that the controller implements `DeploymentOutcome` |
| `deployment_live` | one deployment with a hook; lag 2; an eviction; no API error | every deployment ends; pods of complete or cancelled ones go |
| `rollouts` | two templates, three versions; lag 1; any two of two edits and a retry; triggers are retried once | cancels, prunes and scales up the right deployments |
| `rollouts_faults` | one template, two versions; lag 1; any two of an API error, a restart, `oc rollout latest`, a retry, a removal, a lost pod; keys are retried once, then dropped, and triggers dropped at once | under faults too only superseded ones are cancelled and pruned, no version is taken back, deployments are made in order |
| `rollouts_live` | two templates, two versions; lag 1; an edit and a scaling; keys are never retried | wakeups alone lead to every version, template and replica count |
| `leader` | two masters; TTL 9 ticks; delays of a tick; two faults or requests by hand | the overlap is bounded; leases are taken again; losers stop |
| `ingress` | two services, two addresses and one of an earlier range; lag 1; two edits, errors, restarts or resyncs | addresses are kept, distinct and given; allocator and map agree |
| `subnets` | a node and another host, two subnets, two addresses; two changes, one fault | subnets are distinct, the queues and the allocator follow, the node is served |
| `netids` | two namespaces beside `default` and a settled project, two ids; three changes (two of a kind), one fault | only those share who asked; memory follows the store; requests are done, unless their update failed |
| `routes` | two routes of a namespace and one of another, two hosts, two paths; three changes, of which one may be of the namespaces and one a fault; one event under way | hosts and paths are served once; the router follows the store |
| `rollouts_compete`, `routes_share` | see each `.cfg` | what the code says of itself and does not do (section 13) |

The lag of 1 in the runs of `Rollouts` (2 in `rollouts_compete`) restrains only the environment: each
controller still writes as much as it likes (several deployments and a status
before the first of them is seen), so both watches hold several events. Three
versions are needed so that two are cancelled or pruned while a third is the
latest; the run with two versions looks at users and faults instead. `MaxVersion` stops the triggers at the last version;
`TemplateIsRolledOut` therefore excepts it.

Deadlock is not checked: when the limits are used up and every controller is
idle the system rightly stops. `deployment_live` and `rollouts_live` show that it
does not stop too early.

No key is retried in `rollouts_live` (`MaxRetries` 0): an error drops the key at
once. This is the hardest case for liveness. It shows that events alone bring
every key back, and that `handleErr`'s limit is not what liveness rests on.
With API errors liveness does not hold (section 13, dropped keys), so these runs
have none.

`OnlyCompleteIsScaledUp` is checked without removals by users: when a user
removes the deployment that is being scaled up and it is made again, the
replicas computed for the old one may be written into the new one
(section 13).

In the runs of the allocators everybody competes for one id or address less than
they would like: a range that is never full would not show what is given twice,
and one fault at any call separates memory and store. A leader's TTL of 9 is the
smallest that leaves the code room to renew with a delay of a tick. The initial
states of `routes` differ in the ages of the three routes and in their paths; the
order of a1 and a2, and the names of the paths, are symmetric, so each is fixed.
`leader` checks deadlock; the others may stop once the bounds are used up.

Mutations. Every property of a passing run is violated by a mutation of the
code the model translates, listed in `PROJECT.json` and defined next to the
definition it replaces: an update that ignores the resourceVersion, a handler
that wakes on the wrong event, a sort in the wrong order, a forgotten reset.

## 11. Fairness

`FairSpec` of `DeploymentController` and `Rollouts` assumes weak fairness of:

- the delivery of watch events: a watch that breaks is opened again by the
  informer (`cache.Reflector`), which lists what it has missed;
- the workers: they are started with `wait.Until(worker, time.Second)` and take
  any key there is (`factory.go`); a queue gives out every key;
- the delays of the rate limited queue, which are finite;
- nodes: a pod runs to an end and is removed once marked. A deployer has an
  active deadline (`makeDeployerPod`), so that it does end;
- in `Rollouts`, the end of a deployment in flight, which is
  `EveryDeploymentFinishes` of `DeploymentController`.

- In `LeaderLease`: time passes, every process goes on, a call is answered, and a
  process that died is started again (the process manager of a master).
- In `IngressIPs`: the watch, the worker, and the delays.
- In `Subnets` and `NetIDs`: the loops (`utilwait.Forever`), and strong fairness
  of a reflector, which needs the lock that a handler holds now and then; a
  panic is a way of going on, as the master is started again. `NodeIsServed` needs
  that kubelets report, which brings a node again whose handling failed;
  `NetworksFollow` that the resync of half an hour brings a namespace again. It does
  not bring a request again whose update failed.
- In `RouteAdmission`: the reflector, the controller's loop, and the start of a
  router that panicked. Nothing is said of resyncs.

Not fair: users, clients, retries, evictions, restarts, errors. Nothing forces
anybody to do any of it, and `<>[]Settled` in `ReplicasFollowConfig` says of a
behaviour that they have stopped.

## 12. What is proved

Each component's theorems are in `<module>_proofs`. They hold for all values of
the constants that the assumptions admit; a theorem that proves a property of a
run says so in `PROJECT.json`. Every module has the same outline: `Init` implies
an inductive invariant, each action preserves each of its parts (a lemma per
action or per part), and the property follows from it. The invariants are defined
in the component's module, in front of the proofs, where TLC can check them, and
were checked on the instance of the run (and larger ones) before they were
proved.

### One deployment

`DeploymentController_proofs`, for all sets of deployments, special
deployments, limits and lengths of the watches (assumptions
`DeploymentsAssumption` and `BoundsAssumption`, which only say of which type the
constants are):

| theorem | establishes |
|---|---|
| `TypeCorrect` | `TypeOK`; with it, no key is requeued more than `MaxRequeues` times |
| `ViewsSound` | `ViewsAreSound`, the inductive invariant |
| `SuccessSound` | Complete only if its own deployer succeeded; `NeverBarred` |
| `PhasesOnlyAdvance` | the stored phase only advances |
| `CancelNotLost` | a cancellation is lost only to success, a retry or removal |
| `TestsScaledDown` | the write that ends a test deployment scales it down |
| `PromiseKept` | `Spec` and `RetriesAreTimely` imply `DeploymentOutcome` |

The argument. The property one wants, *Complete means that a deployer
succeeded*, is not inductive: the phase is computed from a cached pod, so one
needs that every success in the cache, or under way to it, happened
(`SuccessIsVouched`); and it is written from a cached deployment, so one needs
that a copy whose write is not refused is the stored one (`FreshIsCurrent`).
That in turn is not inductive: when the last event of an object is
delivered the copy becomes current only if that event carries what is stored
(`LastEventIsCurrent`). `ViewsAreSound` is the conjunction. From it each action
property follows by looking at the one write that can change the annotation or
phase in question. `PromiseKept` maps every action to a step of
`DeploymentOutcome` or a stutter; `RetriesAreTimely` excludes the second of two
racing retries, which resets a deployment that runs or is complete
(section 13).

### Rollouts

`Rollouts_proofs`, for all templates, numbers of versions and of retries, history
limits and bounds of the environment (`ConfigsAssumption`, `ControllerAssumption`,
`TriggerAssumption`, which only give the types of the constants):

| theorem | establishes |
|---|---|
| `TypeCorrect` | `TypeOK`; with it, neither controller requeues a key too often |
| `RolloutSound` | `RolloutIsSound`, the inductive invariant (section 5) |
| `SupersededOnly` | `OnlySupersededIsEnded` |
| `VersionsOrdered` | `VersionsSupersede`: versions are not taken back, deployments are made in their order |
| `CompleteOnly` | `OnlyCompleteIsScaledUp`, if `Limits["removals"]` is 0 |

The argument. Two watches that are independent of each other could show a
deployment that is *newer* than the config in the cache; the controller would
cancel it as superseded. They cannot, because the only one who makes deployments is
the controller, and it makes one for the version of its own copy
(`VersionsAreSeen`). So what it lists is not above the version in hand; what
is cancelled is strictly below, because the latest version is not among the listed;
what is pruned is strictly below, because `DeploymentsForCleanup` excludes the
latest version or stays below the active one, which is itself listed. The version
in hand is at most `dcCache.lv`, which is at most `dc.lv`: versions are never taken
back, since a status is written only from the copy that is stored (`WorkIsSound`),
and with it the version.

For `CompleteOnly`, the replicas are above zero only for the active deployment,
which was chosen once from the list (`work.active`) and was then seen Complete. It
still is, although others complete meanwhile: Complete is left only by a removal,
and the controller prunes only below the version in hand and makes only the
version in hand, so what was pruned is not made again (`CompleteStays`). If users
remove deployments it may be (section 13), hence the hypothesis.

For `VersionsOrdered`, the config in hand is at least the version of every deployment
(`WorkKnows`): it was when the config was copied, by `VersionsAreSeen`, and since
then only the worker made one, for that version. So the one it makes is
above all that are there.

The proof abstracts every action to a `SoundStep`: what it does to the config, to a
deployment, to the worker and to the copies. One lemma per action shows that it
is one and keeps the types; `SoundStepKeeps` shows once that such a step preserves
the invariant.

### Leader lease

`LeaderLease_proofs`, for all sets of masters, ttls, numbers of tries, faults, and
delays of at least a tick (`TimeAssumption`, `OwnerAssumption`,
`FaultsAssumption`):

| theorem | establishes |
|---|---|
| `TypeCorrect` | `TypeOK` |
| `LeasesSound` | `LeasesAreSound`, the inductive invariant |
| `OverlapBounded` | controllers run without the lease for at most `Grace` ticks |
| `OnlyFaults` | with no fault, and time enough to renew, they never do |

The argument. A bound on `over` is not inductive; a bound on `over` *and* on the
ticks the process can still run is. `LeftToRun` is computed from the place in the
loop, its timer, the age of the call, and the tries of `Release` that are left.
`RunIsBounded` compares the sum of both with `Grace` and what is left of the
lease; every step gives as much to the one side as to the other: a tick takes one
from the lease or adds one to `over`, and takes one from `LeftToRun`; a renewal
that is answered late finds the lease as much shorter as the call is old. For
`OnlyFaults` the invariant is stronger (`InTime`): without faults the owner of the
lease *is* the leader, and `LeastLeft` ticks are left of it at each place.

### Ingress addresses

`IngressIPs_proofs`, for all finite sets of services, ranges of addresses and
bounds (`ServicesAssumption`, `NamesAssumption`, `WantsAssumption`,
`BoundsAssumption`):

| theorem | establishes |
|---|---|
| `TypeCorrect` | `TypeOK` |
| `IngressSound` | `IngressIsSound`, the inductive invariant (section 7) |
| `AllocatorExact` | allocator and map agree between two changes |
| `StoredSound` | no address is shared for good; no external ip without the status |
| `OneRequeued` | one change circulates for a service that waits for an address |
| `AddressesKept` | an address is kept over edits, failures and restarts |
| `NewAddressesFree` | an address that is given is nobody else's |

The argument. That a stored address is recorded fails whenever a write is lost or
a user edits: what holds is that then a change for the service is still to
come. So the invariant relates four copies of a service (store, events, cache, the
copy of the worker) through the changes that are queued. The hard step is the
worker's: its copy may be old, and then its write conflicts and is taken for
done. `JobIsSound` says that in this case an event or a change is there that will
put it right. The second hard step is a deletion in the queue whose service was
created anew meanwhile: it clears what is recorded, which is only right because
the update with the new address comes later in the queue (`QueueIsSound`).
`OneRequeued` counts with `Cardinality`; the invariant `RequeuedIsSound` says
the same by uniqueness, which needs no induction over sets.

### Network

`EventQueue_proofs`, for all sets of keys and objects, says of one queue:

| theorem | establishes |
|---|---|
| `QueueStep` | every step of a queue and of who writes its objects preserves `QueueSound`, that is, the types (`QueueTyped`) and `IsTold` |
| `QueueTells` | `QueueSound` implies `Learned` for every key that is not skewed |

with the lemmas that `Carries` and `GoneForGood` are preserved. A handler that
changes its object in place (`Alters`) preserves the types and `Carries`, but not
`IsTold`: what is known is then not what was told. `NetIDs_proofs` therefore uses
`QueueTyped` for the queue of NetNamespaces. `Subnets_proofs`
and `NetIDs_proofs` instantiate the module once per queue, so the matrix of
deltas is argued about only there.

`Subnets_proofs`, for all sets of nodes and hosts and all sizes of the network
(`NamesAssumption`, `BitsAssumption`, `BoundsAssumption`, `NothingAssumption`):

| theorem | establishes |
|---|---|
| `TypeCorrect` | `TypeOK` |
| `SubnetsSound` | `SubnetsAreSound`, the inductive invariant |
| `SubnetsNotShared` | no subnet is given to two hosts |
| `RotationIsSound` | for all numbers of host bits and subnet bits, `GetNetwork` computes exactly the subnets of the network, each for one number |
| `AllocatorSound` | what is stored is taken: nothing is released twice, or by an old event; `GetNetwork` finds a free subnet if there is one |
| `EventsAreTaken` | the handlers have been told the truth when nothing is under way; annotated HostSubnets are taken up |

The argument. `watchSubnets` releases the subnet of a deleted HostSubnet when it
is told, maybe long after the name was used again. Distinct subnets are therefore
only inductive together with what the queue may still say: a subnet belongs to the
host for which the store, the watch, the list or the queue mentions it, and the
subnet of a deletion is mentioned by nothing behind it, so that it is released
once.

`RotationIsSound` is arithmetic on powers of two, of which the provers know
nothing. `Pow2` is a recursive function, that is, the `CHOOSE` of a function with
its equation: `Pow2Is` shows by least counterexamples (`Least`) that finite pieces of
one exist and agree, hence the equation and that the powers are positive;
`Pow2Sum` is the law of exponents. The shifts and masks of `GetNetwork` are then
divisions and remainders by `a`, `b` and `h`, the powers of the rotation, of the
rest of the subnet bits and of the host bits. `Rotated` shows that they send `n` to
`(a * (n % b) + n \div b) * h`: the place of `n` in a grid of `a` by `b` that is read
by columns instead of rows. `Transposed` shows that this is a permutation, and
`ShiftIs` that the rotation is shorter than the subnet number, so that `b` exists.

`NetIDs_proofs`, for all finite sets of namespaces, ranges of ids and bounds
(`RangeAssumption`, `NamesAssumption`, `BoundsAssumption`, `NothingAssumption`):

| theorem | establishes |
|---|---|
| `TypeCorrect` | `TypeOK` |
| `SharingSound` | `SharingIsSound`, the inductive invariant |
| `MapSound` | the allocator marks what the map has, the map is what is stored |
| `SharedWhenAsked` | namespaces share an id only if asked to, or after an error |

The argument. What the store has is read at a restart, so what is shared in the
store and in the map must be kept apart: `SharedInMap` follows the map and
`MapIsSound` ties it to the store, but for namespaces whose last call failed. That
an assignment finds its old id in the map needs that no request joins a
namespace to itself; requests come out of the queue, so `Carries` is part of the
invariant.

### Router

`RouteAdmission_proofs`, for all finite sets of routes, hosts, paths, namespaces
and bounds (`RoutesAssumption`, `BoundsAssumption`, and `StoredAssumption`: routes
stored at the start are under their own name and older than what is created
later):

| theorem | establishes |
|---|---|
| `TypeCorrect` | `TypeOK`; with it the claims of a host are of one namespace and of different paths |
| `AdmissionSound` | `AdmissionIsSound`, the inductive invariant (section 9) |
| `HostsOwned` | `HostsAreOwned` |

The argument. *Served implies claimed* is broken by a route that was let through
and later claims another path or host. One needs that the route the event is
about is the one that is served: that is what the queue knows, and the queue knows
it only if it compressed the events of a watch that told a possible story
(`WatchIsSound`: creations and deletions alternate, and an event that began with
Added is of a route that is not served). Then `Admit` has three cases: nobody is
displaced, a younger route of the same namespace and path is, or all the routes of
a younger namespace; in each the claims afterwards are `OfOthers` of the displaced
and the new one, in an order that does not matter. The sequences are filtered by
the operator `Kept`, about which there is one lemma: it keeps what it should.

### What stays model-checked

- All liveness: `ENABLED`, and with it fairness, is outside of what the provers
  handle.

## 13. Disagreements

Two disagreements between what the repository says and what the code does are
runs (`"expect": "violation"`) and findings in `PROJECT.json`.

- **`rollouts_compete`** (`deploymentconfig/controller.go:177`). Config and list
  come from independent caches: a new deployment is made beside one in flight.
- **`routes_share`** (`router/controller/unique_host.go:204`). A route whose path
  and then whose deletion was refused comes back at another host and drops the
  claims of the first one: a second namespace gets a host that is served
  (`:126` "ensure hosts can only be claimed by one namespace at a time").

Others were met in the models, most of them in a counterexample of TLC to a
property that said the opposite. They are not kept as runs; the properties state
the exception.

Deployments:

- `nextStatus` edits the annotations before the phase is known
  (`deployment/controller.go:246`): a New deployment that is cancelled while its
  deployer has succeeded loses the cancellation *and* the desired replicas, then
  fails, and cannot be retried.
- After a retry the pod cache may still hold the old, failed deployer (`:152`);
  the deployment fails again and no deployer is made.
- The check that the deployer pod belongs to the deployment is made on one of
  two paths (`:101`).
- `NotFound` of the instantiate endpoint is taken for a server without it, and the
  version is incremented (`rollout/latest.go:166`): a version is skipped.
- A Pending deployment whose update is seen before the creation of its pod is
  failed for a missing deployer while its deployer runs
  (`deployment/controller.go:163-164`; `deploy/api/types.go:101` words it as a
  pod that "no longer exists").
- `oc rollout cancel` patches deployments listed earlier, without a
  resourceVersion: a complete deployment ends up marked as cancelled
  (`rollout/cancel.go:140`). In the model this is `CancelPatches`.
- `oc rollout retry` patches likewise (`rollout/retry.go:181`): of two racing
  retries the second resets a deployment that runs or is complete, although
  "only failed deployments can be retried" (`retry.go:141`). Hence
  `RetriesAreTimely` in `PromiseKept`.
- A key is dropped after two requeues (`deployment/controller.go:426`) and
  conflicts count: with one API error a cancelled deployment can stay Pending
  for ever, although "Eventually the deletion of the deployer pod should cause a
  requeue" (`:98-100`).
- The config controller does not scale while it sees the latest deployment run
  (`deploymentconfig/controller.go:153-154`), but `reconcileDeployments` reads
  the deployment again from the cache before it writes (`:235-236`): a
  deployment retried since is scaled under its deployer. With a removal and
  re-creation this is also why `OnlyCompleteIsScaledUp` needs that users do not
  remove deployments.
- An old deployment which somebody scaled up after it was listed is pruned with
  its pods (`:419-424`): the check of its replicas reads the list.
- `oc rollout latest` may supersede a deployment in progress although it
  refuses to (`rollout/latest.go:145` against `:158`): the check and the request
  are separate calls, and the endpoint does not check.

A comment of `Handle` says that its config "MUST be deep-copied beforehand";
`work` in `factory.go` passes the cached object, and `Handle` copies it itself
only in `updateStatus`. The model has values, not pointers, so this is outside of it.

Leader lease (`util/leaderlease/leaderlease.go`):

- A renewal that was applied but whose answer was lost is refused at the next
  try, and the code says that "another client has taken the lease" (`:211-212`):
  the leader gives up a lease it holds.
- `index = etcdIndexFor(err, index)` (`:217`) makes the next try compare with an
  index that is not that of the key, so that "try again" (`:218`) is in vain.
- `plug.go:123` evaluates `err` when the stop is deferred, when it is nil, so the
  loss of the lease is not reported to the one who waits for it
  (`start_master.go:575`).
- `Release` and its tries run before the plug stops: the controllers go on
  meanwhile, and the next leader may have started. A start by hand
  (`control.go:39-48`) runs them without the lease.

Ingress addresses (`service/controller/ingressip/controller.go`):

- `persistService` takes a conflict or NotFound for done (`:679-693`): the
  address stays in the allocator and in the map although the service may not
  have it, until another change of the service comes.
- Of services that have the same address when the controller starts one is
  recorded. The changes of the others are queued, but the address may be
  given once more before they are processed, if the recorded one goes
  (`:256-263`). `NewAddressIsFree` excepts these addresses (`disputed`).
- Of the two writes of a change only the first can succeed when somebody else
  writes between them; the second is left to the event of the first.

Subnets and the event queue (`sdn/plugin`):

- A panic in legal sequences (`eventqueue.go:232`): Updated waits while a handler
  is busy, the watch breaks, and the list queues Sync, which the matrix does not
  have; or Sync or Added waits, the object goes away unseen and comes back.
- A pending Deleted makes the queue ignore a Sync of the same key, so a node that
  came back is not told of; an Added or Sync of an object that went away while
  the watch was broken stays. From then on what the handlers know of the key may
  be an object long gone, until the next list: the keys in `skewed`.
- Deleted and Added of a HostSubnet are compressed to Updated, and Added and
  Deleted to nothing: the subnet of the first is never released
  (`subnets.go:253`). The second happens also when the handlers knew an earlier
  object of that name, so that its deletion is never told either.
- When the answer to a creation is lost the subnet is freed, but stored
  (`subnets.go:79-93`): the next node may get it.
- An annotated HostSubnet is deleted before the new one is created
  (`:231-247`): if that fails the request is lost.
- A HostSubnet of a node that is deleted by an administrator is not made again.

Network ids (`sdn/plugin/vnids_master.go`):

- `updateNetID` releases the old id before the NetNamespace is updated (`:263`).
  Two requests in a row, without any failure, make the update conflict: the
  released id is given to a new project while the stored NetNamespace has it.
- A request whose update fails is not tried again: the annotation was deleted from
  the object that `knownObjects` holds (`:248`, `:260-261`, `eventqueue.go:60-75`), so
  a resync finds nothing to do, and the map has the new id while the stored
  NetNamespace keeps the old one. Only another change of the object, another
  list or a restart brings the request back (`IsForgotten`).
- Isolating the only global namespace leaves it global (`:171-174`): it keeps the id that
  nobody else has.
- A lost answer of a creation releases an id that is stored; one of a deletion
  leaves the id in the map, so that a namespace of that name gets no
  NetNamespace.
- A namespace that is deleted while the master restarts leaves its NetNamespace
  for ever.

Router (`router/controller/unique_host.go`, `client/cache/eventqueue.go`):

- The host is claimed before the type of the event is looked at. A deletion may be
  refused, and the route is served for ever; or it takes the host from a younger
  namespace (the claims of which are told to go) and then gives it up, so that
  nobody is served.
- A route that lost is not served when the winner goes: nothing sends its event
  again, as a resync queues keys without a type (`eventqueue.go:383`) and
  `UniqueHost` then claims without telling anybody. The same holds for the routes
  of a namespace that is served again, although `factory.go:182-184` counts on the
  resync.
- The first claim of a host is taken for the oldest (`oldest := old[0]`, `:129`), but
  the others are in the order in which they came. When the first goes, or an older
  route replaces a claim behind it, the first is not the oldest any more, and a
  route of another namespace takes the host from a route that is older than it
  (`:180` compares with the first only). TLC finds it with three routes of the one
  namespace: one changes its path, which puts it last, and the first is deleted.
- A route that takes a path from a younger one keeps its claim of the old path.
- `eventqueue.go:30-32` says that a key never comes back; the router's keys are
  names (`factory.go:61`). Deleted and then Added panics. A resync may queue a key
  beside its event; if that is Deleted the second one panics (`:303` "Should
  always succeed").
- A list hides deletions (`Replace`): the route stays served. Made again with the
  same path it loses against its own former claim.
- A route that is deleted before its Added was read stays in the store of the
  queue, and a resync lets it claim a host.

## 14. What is not modelled

Wording of events, messages and logs; the contents of pods and templates;
metrics; replica counts beyond none and desired; the clock (delays and deadlines
are actions that may happen at any time). Components with status
`not_modelled` in `PROJECT.json` give their reason one by one: those that are
candidates, those whose work is I/O or rendering (registry, router back ends,
Open vSwitch), generated code, command lines, and vendored dependencies.

Two paths of `DeploymentController` are left out: a pod whose phase is Unknown,
which `nextStatus` takes for New (`deployment/controller.go:260`), a status that no
other may change to; and a deployer pod that cannot be made from the deployment
(`:116-119`, `:420-424`), a fatal error of malformed contents.

Running: in `tla/`, `tlc -workers 2 -config Rollouts.cfg MCRollouts` and so on
for the pairs under `runs`; `tlapm RouteAdmission_proofs.tla` and so on for
the modules under `theorems`. The runs take between a second and two and a half
minutes, the proofs of a module up to five.
