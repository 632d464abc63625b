# Verification of the device mutation control plane

TLA+ models of the part of the Cisco virtual kubelet that decides *when a
network device may be changed, by whom, and how often*: the campaign controller
with the shared reservation ledger, the per-device topology lock, the
administrator's budgets and the handshake with the workers; the worker that
carries out a software upgrade; and the actions, writes and records that share
one device through the mutation Lease. TLC checks the models on small
instances; TLAPS proves the central safety properties for every value of the
constants.

Source paths are relative to the repository (`src/`). Short names:
`execution.go` is `internal/controller/iosxesoftwarerollout_execution.go`,
`controller.go` is `internal/controller/iosxesoftwarerollout_controller.go`,
`ledger.go`, `store.go`, `policy.go` are in `internal/topologyrollout/`,
`topology_lock.go` in `internal/controller/`, `managed.go` and `reconciler.go` in
`internal/provider/softwareupgrade/`, `action.go` stands for
`internal/provider/operationalaction/reconciler.go`, `guard.go` is in
`internal/provider/mutationguard/`, `lease.go` in
`internal/drivers/iosxe/configdriver/engine/` and `coordinator.go` in
`internal/provider/maintenance/`.

## The system

A *campaign* (`IOSXESoftwareRollout`) freezes a plan of *targets*. For each
target the manager makes a *reservation* in the ledger, holds a *topology lock*
on the device, and creates a *leaf* (`IOSXESoftwareUpgrade`). A *worker* next to
the device performs the upgrade, and claims each device mutation on the leaf
before it calls the device. All of these are Kubernetes objects:

| object | written by | state that matters |
|---|---|---|
| campaign `spec.control` | operator | revision, pause, cancel |
| campaign `status` | manager | phase, frozen plan, policy epoch and its transition |
| ledger (one ConfigMap for the fleet) | manager | reservations, one release-fence slot |
| `CiscoDevice.status.topologyLock` | manager | acquisition, Active or Releasing |
| leaf `managerAdmission`, `managerControl` | manager | Pending, Granted, Revoked, Settled; revision, pause, cancel |
| leaf `workerControl`, claims, phase | worker | what it has seen, what it has begun, how it ended |
| policy ConfigMap | administrator | ceilings |
| upgrade status | worker | phase, request and completion markers, failure reason |
| `IOSXEOperationalAction` status | action controller | phase, invocation ID |
| device mutation Lease | upgrade worker, action controller, ordinary writes | holder, expiry |
| maintenance taint of the Node | coordinator | present or not |

Each write is a compare-and-swap on **one** object (`resourceVersion`). There is
no transaction over two of them, a manager may lose its lease and not notice,
and every reconcile may stop after any write. That is where the difficulty of
this code lies, and what the modules are about. On the device's side there is no
transaction at all: a request is sent once, its answer may be lost, and what the
device does afterwards can only be observed.

## Inventory

The parts down to the maintenance coordinator are modelled. The others are
listed with what they hold and what would be worth saying about them;
`PROJECT.json` gives the files and the reason why a part is left out.

| part | state | operations | what is hard | status |
|---|---|---|---|---|
| reservation ledger | reservations, release fence | Reserve, BindChild, BeginDrain, PromoteDrain, Grant, Revoke, RevokeDrain, Settle, SettleDrained, ReleaseUnclaimed, RevokeUnclaimed, FenceUnbound | replays, stale revisions, drain provenance, validation refusing a stop | modelled, proved |
| topology lock | acquisition on the device | acquire, recover, begin release, release | in-flight Reserve after a release; one fence slot for the fleet | modelled, proved |
| target admission and release | locals of a reconcile | admitTarget, rearm, release, settle | two objects, crashes between them | in the lock and budget modules |
| administrator policy and epochs | effective policy, transition, fences done | reconcilePolicyEpoch and its fences | loosened and tightened policies, Reserve across an epoch | modelled in part, proved |
| campaign reconciler | phase, pass | pause, cancel, execute, fail, succeed | stale reads inside a pass, order of fences and reports | modelled in part, proved |
| managed leaf handshake | admission, control, acknowledgement, claims | bind, acknowledge, grant, claim, observe, revoke, settle | claim racing revocation, half-done settlement | modelled in part, proved |
| software upgrade worker | upgrade phase, request markers, deadlines | resolve, stage, transfer, activate, verify, roll back, delete | crash around a device call, lost answers, two supervisors | modelled in part, proved |
| operational actions | phase, invocation ID, finalizer | scan, acquire, claim, dispatch, record, release, delete | at most once, late answers, deletion | modelled, proved |
| device mutation Lease and guard | Lease with expiry, records at risk | acquire, renew, take over, release, scan | scan and Lease are two calls; records of other releases | modelled in part, proved |
| maintenance coordinator | write Lease, taint | AcquireWrite, BeforeMutation, Sync | taint removed by a stale Sync | modelled in part, proved |
| workload drain | drain session, Pods, maintenance session | begin, evict, prove, recover | several actors and a final proof | ledger side only |
| activation, invalidation, placement | receipts | consume, invalidate | receipt used twice | planned |
| worker handoff | generations of a worker | retire, bind | two workers of one device | planned |
| application lifecycle (IOS-XE, NX-OS) | application state on the device | install, activate, start, stop, delete | late answers, retries | planned |
| configuration reconciler and engine | owned sections, journal | plan, apply, confirm, roll back | partial apply, drift | planned |
| aggregator | running workers | start, stop, restart | concurrent restart | planned |
| network controller adapters | section lease | acquire, release | lease takeover | planned |
| CiscoDevice controller, provider, telemetry, tables, API types, commands | | | rendering, input and output | not planned |

## Modules

| module | what it is |
|---|---|
| `LedgerOps` | the ledger's transitions as relations between two ledgers |
| `RolloutLedger` | the ledger as a state machine behind `Store.Mutate` |
| `DeviceClaim` | abstract specification: an exclusive claim on a device |
| `TopologyLock` | lock, ledger and leaf, driven by several managers step by step |
| `AdmissionBudgets` | ceilings and policy epochs, with campaigns that share the ledger |
| `ManagedLeaf` | one campaign with its leaves, managers, workers and operator |
| `UpgradeWorker` | one upgrade of one device: every phase, claim, answer and deadline |
| `DeviceMutations` | actions, writes and older records that share one device |
| `DispatchOnce` | abstract specification: a mutation is sent at most once, after its claim |
| `RolloutLedger_proofs` | theorems about the ledger |
| `TopologyLock_proofs` | inductive invariant and theorems about the lock |
| `AdmissionBudgets_proofs` | inductive invariant and theorems about budgets and epochs |
| `ManagedLeaf_proofs` | inductive invariant and theorems about the handshake |
| `ManagedLeaf_campaign` | theorems about how a campaign ends |
| `UpgradeWorker_proofs` | refinement of `DispatchOnce`, final outcomes |
| `UpgradeWorker_outcomes` | what outcomes say of the device, fencing by the Lease |
| `DeviceMutations_proofs` | refinement of `DispatchOnce`, fencing by Lease, records and taint |
| `MC*` | instances for TLC |

The state machines look at the same objects from different sides and keep
only what their questions need. `LedgerOps` is shared by `RolloutLedger` and
`TopologyLock`, so the lock protocol runs on the very transitions the ledger
theorems are about. `UpgradeWorker` and `DeviceMutations` share the abstract
specification `DispatchOnce`.

### LedgerOps and RolloutLedger (`ledger.go`, `store.go`)

One operator per exported transition, with its identity checks, its
idempotent replays and its refusals. `Mutate` is the compare-and-swap of
`store.go`: the new ledger must pass `validatePersistedLedger`. The state
machine calls every transition with every argument, which includes late,
repeated and stale calls. Time is a small set of instants; budgets are left to
`AdmissionBudgets`. `Resolve` says when a leaf's outcome is proved; the code
passes this to `Settle` as two booleans.

### TopologyLock (`topology_lock.go`, `admitTarget` and release in `execution.go`)

Every manager has a program counter; each label stands for one API call.
`fresh[m]` says that the ledger has not been written since manager `m` read it,
which is all a `resourceVersion` tells. `owner` and `fenced` are history
variables. `Fail` is a crash, an error return or a lost lease at any label.
The checks that a callback of `Store.Mutate` makes on other objects are labels of
their own, between the read of the ledger and its update: the lock in
`admitTarget`, the leaf and the lock in `tryGrantLeaf`. So is the creation of the
leaf after the lock was confirmed. Policy epoch and control revision are fixed
here.

### AdmissionBudgets (`Reserve` in `ledger.go`, `reconcilePolicyEpoch` and fences in `execution.go`)

A policy is a function from ceilings to numbers; its value stands for the hashes
that the code compares. `Reserve` is split into evaluation and commit with the
same `fresh` flag as above. The state machine of a policy transition is kept in
full: start, fence per target, publish, restart after a crash, replan. A claim is
open until the worker has a conclusive outcome (`Resolve`). Settling is two
steps, as in `trySettleLeaf`: the ledger drops the reservation (`Settle`), and
after the topology lock is released the leaf is acknowledged
(`AcknowledgeSettlement`); a manager that stops between them leaves a claimed
leaf without a reservation, which the fences refuse. Devices in `Unstable` can
be relabelled and become unhealthy at any time.

### ManagedLeaf (`controller.go`, `execution.go`, `managed.go`, `reconciler.go`)

`mgr[m]` is a reconcile: its kind of pass, its current loop over the targets,
the targets still to visit, the write that comes next, and the copy of the
campaign it works on. `StartPass` is the first read and `Reread` the one after
`recordApproval`; `propagateLeafControl`, the fences, the settlement loop, the
grant in its two writes, `admitTarget` and `patchExecutionStatus` follow the code
in its order. Execution works on the leaves as they were listed, not as they
are. The API server's transition rules on `managerControl` are
`ControlAllowed`.

The worker acknowledges, claims, finishes a stage, fails with or without a
known outcome, and may later observe an outcome that was unknown.

Simplifications, each one on the safe side or explained:

- A compare-and-swap whose callback also reads other objects is one step. The
  object it writes has not changed since it was read, and nothing the others do
  in the meantime depends on that, so the reads can be moved next to the write.
- `admission.controlRevision` and `managerControl.revision` are written together
  and are one field.
- A reservation is made, its leaf created and bound in one step (`admitTarget`).
  The steps in between, and a stop among them, are the subject of `TopologyLock`;
  what a half-made admission means for a later cancellation (the hazards at
  `execution.go:942` and `topology_lock.go:315`) cannot be seen here.
- Within one cancellation pass the second round of propagation and fences, an
  idempotent replay of the first, is not repeated.
- `Executing`, `Soaking` and `Paused` are one phase, "Active". Status writes
  that do not change the phase are not modelled, so more status patches succeed
  in the model than in the code.
- Canary waves, drains, activation approval, network evidence, campaign
  deletion and policy epochs are left out.

### UpgradeWorker (`reconciler.go`)

A reconcile reads the object and the device and decides; a decision is a status
to write or a stage to claim. `runResolving`, `runTransferring`,
`submitActivation` and the other handlers are operators that return the set of
possible decisions, with the order of the code's returns. `Write` is
`updateStatus` with its compare-and-swap (`CASToken` says which fields it
compares), `Claim` the four durable claims, `Send` and `Respond` the request and
its answer, which may be lost, definitive or a failure that proves nothing.
`Crash` stops a worker between any two of them. Time is the set `late` of
deadlines that have passed; nothing is assumed of how they are ordered. The
device accepts a request or not, finishes it well or badly, may boot something
else, and may get a second supervisor in the middle of it all. Whether the
inventory shows the right image from the right file is not computed:
`targetReadyForActivation` may always refuse it, with the mutation unsettled and
the Lease kept, as the code does.

`RPCGraceOver` is an assumption about time: a worker is not suspended between
its claim and its request for longer than the grace that other reconciles grant
it. The spec of an upgrade is immutable (the CRD says so), so it does not change
in the model. The Lease is read after the worker's own writes to it; a lagging
read of it is in `DeviceMutations`.

### DeviceMutations (`action.go`, `guard.go`, `lease.go`, `coordinator.go`)

One device with operational actions, upgrade records that carry no known
execution model, and ordinary writes. A reconcile is a sequence of API calls;
`FindCanonicalRisk` is read in one step and the Lease taken in the next, as in
the code. The LIST calls inside `FindCanonicalRisk` (upgrades, then actions) are
one step, and so are those of `Sync`: an upgrade record that is a risk was left by
another release and none becomes one later, so a scan that finds none in two
lists finds none at the time of the second. `hot` says whose work the device may still be doing. Actions of an
earlier release (`Legacy`) were sent without a Lease and are found by the scan
only. Actions are of three kinds, told apart by what a successful answer
proves: `Lasting` (Reboot, FactoryReset) goes on after it, `Plain` is over,
`Cancel` takes no Lease.

Assumptions about time, each a guard of an environment action: the Lease's 26
hours outlast the work of the device and the way from acquiring it to sending
the request (`Expire`); the owner window is longer than the way from the claim
to the request (`WindowPasses`); the quarantine of a terminal record outlasts
the device's work (`AgeOut`). A record of an earlier release is not deleted
before this release has put its finalizer on it. The model is of standalone
mode with the mutation features enabled; with them off, a write on a device that
has neither a Lease object nor a record at risk takes no Lease
(`coordinator.go:105`), a branch that is left out.

## Runs

Each run is one question. State counts are of the instances in the `.cfg` files.

| run | instance | what it shows |
|---|---|---|
| `ledger_protocol` | 2 campaigns, 1 device, 2 each of acquisitions, leaves, drain sessions, epochs and revisions (18 k states) | every transition in every order with every argument: a fenced acquisition has no reservation, drain provenance is permanent, a live reservation keeps its identity, a Granted one ends only with a proved outcome; the ledger implements `DeviceClaim` |
| `lock_race` | 2 managers, 2 campaigns, 1 device, 3 acquisitions (1.5 M) | with a stop after every API call, a reservation is covered by its own acquisition and a released acquisition never returns, although the fence slot is overwritten |
| `budget_epochs` | 1 campaign with a budget of its own, 2 devices of which one changes site and health, 3 epochs, fairness (221 k) | while the policy tightens and loosens, ceilings hold, no unclaimed reservation of an old epoch survives, an open claim keeps its reservation, and a transition is published as long as no target is settled with a claim or left in an earlier epoch |
| `budget_shared` | 2 campaigns with different policies, 2 managers, 1 site, 1 risk group (832 k) | managers that count in the same ledger never exceed every approval together |
| `leaf_replicas` | 2 managers of which one may stop for good, 1 leaf, 2 revisions, fairness (335 k) | grants and open claims stay covered by the ledger; a cancelled leaf stays cancelled and gains no claim; a cancellation ends or a target is in a state that `CancellationConverges` names |
| `leaf_campaign` | 1 manager, 2 targets, 2 stages, 2 revisions (1.0 M) | a reported end is a real end; after a reported failure no leaf gets its first claim |
| `upgrade` | 1 worker, 7 requests covering every strategy and source, one or two supervisors, fairness (235 k) | each stage is sent once, the Lease covers what the device does, a successful outcome is true, the active supervisor is never activated first, deletion leaves no unused Lease, and whatever the device does the upgrade ends and gives the Lease back |
| `mutations` | 1 process, up to 2 actions with a write, an older upgrade with an action or a write, 1 fault (2.0 M) | whatever the device may be doing is fenced, nothing starts beside it, the Node is tainted while an action works, an action is sent once |
| `mutations_ends` | an older action with an older or newer upgrade or with a new action, or a new action with the upgrade, 1 fault, fairness (113 k) | two records at risk at once wait for the Lease and for each other's quarantine: what an earlier release left always ends, everything else unless an upgrade of a newer release stays, and deletions complete |
| `leaf_cancelled`, `leaf_reported`, `upgrade_kept` | smallest instances | three places where the code does not do what a comment or document says; see below |

### Bounds

- *Devices, campaigns, managers.* One device and two competitors suffice for
  exclusion: every step of the protocols concerns one device and one identity,
  and the only state they share is the ledger's single fence slot and the sums
  that `Reserve` takes. `lock_race` has three acquisitions, so that a second one
  can overwrite the fence of the first while a third is on its way. The budgets
  need two targets that compete for the last place.
- *Revisions.* Two control revisions (three values with "absent") are one
  change of pause or cancel, which may fall between any two steps of a pass.
- *Stages.* Two in `leaf_campaign`, as in the code: staging and activation. One
  in `leaf_replicas`, whose questions concern a single claim; the theorems about
  it hold for any number.
- *Epochs.* `MaxEpoch` bounds the epochs a campaign publishes. Three are needed
  for the difference between "left behind" and "current" targets.
- *Policies.* Every ceiling is at least one, as `policy.go:693` demands; a budget of
  the campaign's own may be zero, which means none. One wide, one with tighter numbers, and in `budget_shared` one with
  another group ceiling, which demands a new plan.
- *Workers and processes.* One. What concerns several (at most once, final and
  truthful outcomes) is proved for any number. The fencing properties are
  statements about one process: with two that overlap, a stale cleanup can
  release a Lease (see the hazards at `reconciler.go:3818` and `action.go:758`).
- *Requests and devices.* Seven combinations of strategy, source and rollback
  that between them reach every handler, on a device with one supervisor, to
  which a second may be added, and on one with two that disagree.
- *Actions.* Two compete with each other or with one other party. The scan picks
  the first by name, so two suffice for "mine" and "another's". Faults: one stop
  or lagging read at any place. `mutations_ends` leaves out passes of `Sync` that
  no reconcile waits for (nothing reads the taint) and ordinary writes, which are
  never owed.

The proofs below remove the bounds for the properties they are about.

The specifications stop when their bounds are used up or when all campaigns have
ended, and a rollout that has ended really does nothing more; these runs say
`CHECK_DEADLOCK FALSE`. The ledger can always be called again, and its run
checks for deadlock.

### Fairness

- `AdmissionBudgets!Fairness`: the reconcile loop is requeued until a transition
  is published, so each enabled fence and the publication are weakly fair;
  restarts of the fences by crashed managers end some day.
- `ManagedLeaf!FairManager`, in `leaf_replicas` for one replica only: `Reconcile`
  requeues an active campaign after every pass and after every error, so a
  manager's steps are weakly fair, and from some time on no pass is stopped in
  its middle. Without the latter a crash in every
  pass would refute anything. Workers poll, so their observations are weakly
  fair, but nothing forces a claim. A device that has ended its work passes the
  health gate again and again until it is healthy (strong fairness of settling a
  healthy target); the code cannot guarantee this, and the liveness statements
  are made under it.
- `UpgradeWorker!Fairness`: the work queue calls `Reconcile` again, and a worker
  that is stopped now and then finishes some reconcile (strong fairness); other
  holders give the Lease back; deadlines pass. Nothing is assumed of the device.
- `DeviceMutations!Fairness`: records that are not finished are requeued, the
  queue serves every one of them, and a reconcile gets the mutex of `Sync` in
  the end (strong fairness); the device finishes; the Lease expires and windows
  close. Deletions, ordinary writes and faults are never owed.

## Proofs

All theorems hold for every value of the constants, under the named assumptions
of the modules: `None` is not an identifier (`NoneAssumption`), epochs and times
are positive (`BoundsAssumption`), every target has a leaf UID
(`LeafAssumption`), there is at least one stage (`ManagedLeafAssumption`), sets
of devices and ceilings are finite and well-typed (`BudgetAssumption`), and the
constants of the two executors have their types (`RequestsAssumption`,
`DevicesAssumption`, `ActionsAssumption` and those next to it).

**Ledger** (`RolloutLedger_proofs`). Each of the twelve transitions is shown to
have one of two shapes: `Update` changes one reservation and keeps what a live
reservation must keep, `Release` removes one and records its fence. The
invariant `LedgerInv` (types, `validatePersistedLedger`, fence excludes
reservation) and the theorems follow from the shapes: `FenceExcludes`,
`DrainPermanent`, `IdentityStable`, `GrantedResolved`, `TypeCorrect`, and
`ClaimRefinement`, with the abstract claims as a function of the ledger.
`SafetyTransitionsWritable` says that the validation never refuses a ledger
which a settlement, a release, a fence or a revocation of a bound reservation
produced from a valid one. `RevokeNeedsLeaf` says where this ends: the generic
`Revoke` accepts a Reserved target without a leaf, and the validation refuses what
it produces, exactly in that state; such a target has to be released or fenced.
`GrantedResolved` is about the step out of Granted: the ledger alone does not
prevent a caller from revoking a Granted reservation and releasing it as
unclaimed. That the manager does this only to a leaf without a claim is
`ClaimBacked` and `ClaimKeepsReservation`.

**Lock** (`TopologyLock_proofs`). That a released
acquisition never returns is not inductive: a manager may be about to commit a
Reserve. The invariant adds `OwnerInv`, that every place which names an
acquisition names it for the target it was drawn for, and `LocalOK`, what a
manager relies on at each label. Its heart is that a commit on a fresh ledger
finds the lock it has checked unfenced: a fence writes the ledger, and so makes
every earlier read stale, whatever happens to the slot afterwards.

**Handshake** (`ManagedLeaf_proofs`). `GrantsBacked`, `ClaimsBacked`,
`CancelFinal` and type correctness, for any number of managers, targets, stages
and revisions. `Fits` relates a leaf and its reservation. `LocalOK` says what a
pass relies on between two writes: a leaf whose reservation it is about to
release is closed and has no claim, a leaf it is about to grant is backed, the
leaves it listed as resolved are resolved, and the settlement loop of a
cancellation begins only when every leaf is closed. `Moves` says what one step
may do to a leaf and its reservation; every part of `LocalOK` is stable under
`Moves`, which is why a deposed manager does no harm. Each action is shown to
move one target that way.

**The end of a campaign** (`ManagedLeaf_campaign`). `TerminalQuiet`: Cancelled or
Succeeded means settled leaves, no reservation, nothing in flight.
`FailedStopsAdmission`: a failed campaign gives no leaf its first claim. Both
depend on what a pass has collected before it writes the phase, so `EndInv` adds
three things to the invariant of the handshake. `Calm` says that a settled leaf
has no reservation and nothing open. `PassOK` says, for each point of a pass,
what its lists stand for: the leaves it counts as good are settled, those it is
about to settle are released, and an execution that is about to publish Failed
has barred every leaf from a first claim. `PhaseOK` says what a published phase
means for the leaves. No step undoes a settlement, a release or a fence
(`Keeps`), so a pass that read the campaign long ago can disturb none of this.

**Budgets** (`AdmissionBudgets_proofs`). For any campaigns, devices, policies
and managers: a campaign stays within its approval, the fleet within some
approval, unclaimed reservations are of the current epoch, open claims keep theirs,
and epochs only tighten. That the fleet stays within *some* approval is not
inductive, because the campaign whose ceiling covers the sum may be the one that
releases. `Layered` is: *every* non-empty set of live reservations is covered by
one of its own members (the latest of them, when it was made). For the epochs,
`LocalOK` says that a manager about to commit on a fresh ledger has a target
that no fence has passed, and `LeafInv` that no leaf is more than one epoch
behind unless it is claimed or settled, which is why a rearming that does not
read the campaign again still reserves in the current epoch. `ClaimsKept` is
about open claims: `LeafInv` ties the epoch of the reservation to that of the leaf
from the binding on, and a fence, a replan or a cancellation that meets the claim
leaves the ledger alone.

**At most once** (`UpgradeWorker_proofs`, `DeviceMutations_proofs`). Both
executors implement `DispatchOnce` for any number of overlapping workers and
processes. The invariant says who may be about to send: for every claimed stage
that was not sent at most one worker is between its claim and its request, its
copy agrees with the record, and the record is open. For the worker this needs
that a reconcile of another worker does not close the record within the grace;
for an action, that the owner window outlasts the way from claim to request.
`OutcomesFinal`: a terminal upgrade never changes, except that a lost activation
outcome is corrected to Succeeded.

**Outcomes of an upgrade** (`UpgradeWorker_outcomes`). `TruthfulOutcome` and
`ActivatesInstalledImage`, for any number of overlapping workers. What a record
says cannot be compared with the device directly, since a worker decides on what
it read some steps ago. The invariant `OInv` separates what a status *records*
and the device never undoes (`Confirmed`, `Staged`, `Ordered`) from what an
outcome *claims* (`Holds`), which is only claimed while the request markers in
the worker's copy are those of the object: a worker with older markers is
refused by the compare-and-swap. `Sound` states the first of the object,
`Informed` of every worker, at each step of a reconcile.

**Fencing of an upgrade** (the same module). `FencedWhileOutstanding` and
`NoOrphanLease`, for one worker that may stop and restart after any step
(`OneWorker`). `LInv` relates Lease, object and status: a status that lets the
Lease go (`Settles`) is one after which the device works on nothing, an object
without its finalizer has no Lease, and `Alone` says what the worker knows of
the Lease at each step.

**Fencing among actions** (`DeviceMutations_proofs`). Types for any number of
processes; `FencedWhileWorking`, `StartsAlone` and `TaintedWhileWorking` for any
number of actions, older upgrades and writes in one process that may stop and
restart (`OneProcess`). Mutual exclusion by the Lease alone would be simple; what
an earlier release started holds no Lease. `FInv` therefore says that such work
has a record that requires the quarantine until the Lease was taken in its name
(`Quarantined`, `Fenced`), and that whoever scanned and found no risk may rely on
`OldWorkHeld`: any old work that goes on holds the Lease, so that taking the
Lease afterwards excludes it too. `Tainted` puts the taint before the claim and
requires that a pass of Sync which would take it away has ended.

`OneWorker` and `OneProcess` are what the deployment provides: the per-device
workers run without leader election, and `ciscodevice_controller.go:803` gives
their Deployment the Recreate strategy because the markers "cannot safely
distinguish an overlapping old worker from a crashed one". The assumption is
needed: with two workers TLC finds a worker whose claim is refused because the
object is gone, and which then takes the Lease, or gives back the one that the
other worker still needs, on the status it had read before.

### Model-checked only

Every safety invariant, action property and refinement that a passing run checks
is also proved. The leads-to properties are checked by TLC alone, since the
prover handles neither fairness nor ENABLED: `TransitionPublishedIfCurrent`,
`CancellationConverges`, `UpgradeEnds`, `SettledReleases`, `EveryRecordEnds` and
`DeletionCompletes`. The three properties of the violation runs (see Findings)
do not hold and have no theorem.

## Findings

1. **A cancellation may reach a leaf as a resume** (`leaf_cancelled`,
   `controller.go:281`). It arrives between the two reads of `Reconcile`; the
   second half looks at pause only and writes `cancel=false` with the
   cancellation's revision, after which the API refuses `cancel=true` at that
   revision. The campaign stays Cancelling.
2. **A failure is not reported after a target has been settled**
   (`leaf_reported`, `execution.go:2804`). The failure fences demand a
   reservation for every leaf with claims, return an error in every pass, and
   `Failed` is never published. The fence of a policy transition makes the same
   demand (`execution.go:2648`); `TransitionPublishedIfCurrent` exempts those
   targets.
3. **A preparation from a device file never ends as Prepared** (`upgrade_kept`,
   `reconciler.go:1124`). `completePreparation` compares the inventory with
   `ValidatedVersion`, which is not set on this path.

States that do not recover by themselves, or recover late, without a document
that promises otherwise; they are hazards in `PROJECT.json`:

- A cancellation between staging and activation (`execution.go:3414`) and one
  after a settlement that stopped between the ledger and the leaf
  (`execution.go:3620`): both are named in `CancellationConverges`.
- A new leaf whose control was written and whose admission was not
  (`execution.go:1146`) stays unbound until the next revision.
- A primary install that is proven after a lost answer on a device with
  individual supervisors (`reconciler.go:1832`): the next reconcile ends with
  `InstallAttemptMarkerMissing`.
- Two overlapping workers: the cleanup of a stale claim releases the Lease
  (`reconciler.go:3818`, `action.go:758`), and a peer's `Sync` removes the taint.
- A quarantine taken in the name of a record that has ended in the meantime, or
  a release that met a lagging informer: the device stays fenced until the Lease
  expires (`guard.go:130`, `lease.go:258`).
- A device that runs the previous version at the reboot deadline is recorded as
  `RolledBack` and given free (`reconciler.go:3389`).

## Not modelled

The table above lists the parts; the reasons are in `PROJECT.json`. Left out
for good: rendering of Kubernetes objects, wire protocols and generated models,
telemetry, static tables, option parsing, read-only operations. Left out of the
modelled parts: encoding and hashing, the contents of evidence digests, canary
waves, drains on the manager's side, network evidence, activation approval,
prepared receipts and their invalidation, image resolution, campaign deletion,
the managed mode of the maintenance coordinator, and `AcquireIfFree`.

## Plan

What would come next, each with its hazards:

1. *Workload drain*: manager, maintenance worker and Pods; its abstract
   specification is that no mutation starts before the drain is proved and no
   drained node is forgotten. Composes with `LedgerOps`.
2. *Lock and rearming in one model*: `rearmPolicyEpochLeaf` over two epochs with
   the topology lock, for the two recovery hazards without a property.
3. *Activation and invalidation receipts*, *worker handoff*.
4. *Application lifecycle* on IOS-XE, then NX-OS; *configuration engine* with
   its journal; *aggregator*; *section lease*.
5. *Pure algorithms* (health gate, placement, canary waves) against reference
   definitions.
