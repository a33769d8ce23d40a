# A formal model of the Baseline Security operator

TLA+ modules, TLC configurations and TLAPS proofs kept beside the OpenShift
Baseline Security operator and its console plugin. Paths below are relative to
`operator/internal/controller/` unless they start elsewhere.

## 1. The system

An operator (Go, controller-runtime) reconciles one cluster-scoped object,
`ClusterBaseline/cluster`. A console plugin (TypeScript, no backend) reads the
same objects through the console's proxy and writes them with the user's token.
All state is in API objects, and all communication goes through them:

* one reconcile worker on the elected leader (`MaxConcurrentReconciles` 1), five
  minutes per reconcile, re-enqueued after 15 s while a batch is active or the
  installation progresses, else after 1 min or at the next waiver expiry;
* typed objects (the ClusterBaseline) are read from an informer cache that may
  lag; unstructured ones (pools, remediations, suites, bindings) are read live;
* writes carry a resourceVersion, `retryOnConflict` (`clock.go`) repeats a
  read-modify-write five times; the status is written once, at the end of a
  reconcile, whether it succeeded or not;
* a crash forgets everything but the API objects; the first error of
  `reconcileOwned` skips the steps behind it.

`reconcileOwned` runs, in this order: remediation batch, Compliance Operator
install, scan configuration, console plugin, dashboard, aggregation with scan
history, scan storage.

### Inventory

| Component | State it keeps | Operations | What makes it correct |
|---|---|---|---|
| Remediation batch: `batch*.go` | annotations `batch-apply`, `batch-started-at`, `batch-pools`; `status.remediationBatch`; `spec.paused` and the pause-owner marker of MachineConfigPools; `spec.apply` of ComplianceRemediations | open, finish, orphan recovery, delete | a pool the operator pauses is always on record and is resumed in the end; a pause of an administrator survives; only owned remediations are applied, and under a pause; an outcome is counted once |
| Reconcile loop: `clusterbaseline_controller.go`, `clock.go` | the finalizer, in-memory copies, requeue times, the status | Reconcile, reconcileOwned, status write, lazy watches | errors leave a coherent status, metrics follow the status, something always re-enqueues |
| Scan history: `history*.go`, `aggregate.go` | `lastScanTime`, score rings, failure lists, annotation `history-scoring-mode` | recordHistory, persistHistoryScoringMode, clearing | one point per scan, time never goes back, no ring mixes scoring modes, the diff compares a scan with the one before |
| Scoring: `scoring.go`, `inconsistent.go` | none | score, weights, collapse of inconsistent results | 0..100, no overflow, agrees with the console |
| Schedule: `schedule.go` | none | normalise, next time, interval | a schedule that never fires is refused |
| Scan configuration: `scanconfig.go` | one ScanSetting, the ScanSettingBindings, condition ScanConfigured | ensure, prune | bindings equal the selected profiles, the last good schedule survives a bad one, the condition tells the truth |
| Compliance Operator install: `compliance_operator.go`, `compliance_version.go` | Subscription, OperatorGroup, condition ComplianceOperatorReady | ensure, choose catalog and CSV | an installation made by others is not changed, the newest healthy CSV counts |
| Console plugin: `plugin.go`, `plugin_pod.go` | Deployment, Service, ConsolePlugin, one entry in the list of the Console | ensure, deregister, remove | other entries of the list survive, deletion is not wedged |
| Conditions and sanitizing: `conditions.go`, `sanitize.go` | status conditions | rollup, clamp, skip of an unchanged write | Available, Progressing and Degraded follow the details; the status is always admitted |
| Default object: `default_cr.go` | the ClusterBaseline | create once with retries | never a second one, never after an administrator's own |
| Metrics, dashboard, storage check | gauges, a ConfigMap, one condition | publish, copy, derive | follow the status |
| Process: `operator/cmd` | TLS certificate of the metrics endpoint | flags, readiness, certificate reload | never serves an older pair after a newer one |
| Console writes: `patches.ts`, the tabs of `components/` | the state of each tab; requests under way | waive, unwaive, apply, auto-apply, batch, switch, unbind, create and edit a tailored profile, schedule, rescan, create the baseline | nothing is written over what the tab had not read; a late, lost or refused answer leaves the tab usable; a failed request leaves what was typed in place (cases left in section 5); no request repeats what is done |
| Console page: `CompliancePage.tsx`, `BaselineContext.tsx` and what it mounts | three watches, banners | load, fail, rescan, export, create | what it says is true of what it read |
| Console views: `status.ts`, `scoring.ts`, `results.ts`, `report.ts`, `waivers.ts`, `overviewTrend.ts`, `Overview.tsx` | memoised derivations | derive | agrees with the operator and with itself, and is never older than a known bound |
| Console parts: `chunkLoad.ts`, `focus.ts`, `TabErrorBoundary.tsx`, `contentKey.ts` | chunk attempts, focus, keys | load, retry, restore, compare | a late answer is not taken for another one |
| Scripts: `operator/hack` | files | backup, restore, verify | sequential, not modelled |

The hard behaviours: another writer between any two calls; a cache that is
behind; a call that fails before or after it took effect; a crash between two
writes that belong together (annotations and status, status and stamp); retries
of something that was done already; several scans that end at different times. In
the console: a watch that lags or fails while another works, an answer that comes
late or never, a tab that is left with requests under way, and an object whose
writers are other tabs, other administrators and the operator.

## 2. What is modelled

### RemediationBatch

The batch is the most delicate part: it stops the configuration of nodes while
it runs, and a lost record leaves them stopped. The module has one action per
call to the API server, so a crash, a failure or another writer can come between
any two of them.

| State | Code |
|---|---|
| `cr`, `seen`, `cb` | the stored ClusterBaseline, the informer's copy, the copy the reconcile works on |
| `cr.request`, `.started`, `.pools`, `.batch`, `.phase` | `batch-apply`, `batch-started-at`, `batch-pools`, `status.remediationBatch`, deletion timestamp with finalizer |
| `rem`, `mcp` | ComplianceRemediations; MachineConfigPools with the pause-owner marker |
| `pc`, `kept`, `plan`, `todo`, `left`, `scope`, `stuck` | where the worker is, and the locals of `openRemediationBatch` and the loops |
| `rvOK` | the status write will not conflict |
| `held`, `adminHeld`, `reports`, `faults`, `disruptions`, `moves` | history and bounds, not in the code |

| Actions | Code |
|---|---|
| `BeginOpen`, `OpenList`, `OpenRecall`, `OpenRecord`, `OpenPause`, `OpenApply`, `OpenDone`, `DropRequest` | `openRemediationBatch` with `ensureBatchMetadata`, `poolPausedBy`, `setMCPPaused`, `applyOwnedRemediation` |
| `RollbackPool`, `RollbackDone` | `resumePoolsBestEffort` after a failure |
| `BeginFinish`, `FinishWait`, `ResumePool`, `FinishClear` | `finishRemediationBatch`, `clearBatchAnnotations` |
| `BeginOrphan`, `ResumePool`, `OrphanClear` | `resumeOrphanedBatch` |
| `BeginDelete`, `DeleteList`, `ResumePool`, `RemoveFinalizer` | deletion branch of `Reconcile`, `resumeBatchPoolsOnDelete` |
| `StatusWrite` | the status write at the end, of a success and of an error |
| `Crash` | the process stops, its successor fills a new cache |
| `Submit`, `Withdraw`, `Forge`, `EditBaseline`, `DeleteBaseline` | users: the console, with its guard, or a plain annotate |
| `Revert`, `Upset`, `Enact` | users and the Compliance Operator on remediations |
| `AdminPause`, `AdminUnpause`, `GracePasses`, `Deliver` | an administrator, time, the informer |

A read-modify-write under `retryOnConflict` is one step: it either works on the
current object or fails. Names are numbers, because the code sorts them; a batch
clock is fresh or expired; which of several equal errors was returned is
dropped. A failed call may have taken effect: every `Disrupt` branch exists in
both forms.

### PauseLedger

The abstract specification: a ledger that lists a pool before it is paused and
keeps it until it is released. `LedgerKept` says that RemediationBatch
implements it, with `ledger` being the pools of `status.remediationBatch` once
that is set and of `batch-pools` before: this is the write-ahead argument of
`batch.go:26-28` made precise.

### ScanHistory

What the operator remembers of the scans: the rings of scores behind the trend
charts, the time of the last scan, the failures of the scan before, and the
annotation that says under which scoring mode the rings were written. A reconcile
reads the check results first and the suites second, and writes the status first
and the annotation second; the module has an action per call, and everything
else happens in between.

| State | Code |
|---|---|
| `cr`, `cb` | the stored ClusterBaseline and the copy the reconcile works on |
| `.mode`, `.selected`, `.stamp` | `spec.scoring.mode`, `spec.profiles` with `tailoredProfiles`, `history-scoring-mode` |
| `.status` | `history` and the history of each profile, `lastScanTime`, `previousFailures`, `diffBaseFailures`, `diffBaseScanTime`, `newlyFailed`, `fixed` |
| `suite`, `result`, `crds`, `now` | ComplianceSuites with the oldest and newest end of their scans, ComplianceCheckResults, whether the CRDs exist, the time in seconds |
| `pc`, `tally`, `rvOK` | where the worker is, the results it has counted, whether the status write will not conflict |
| `lost`, `ahead` | a stamp that was due was not written; it was due in another mode than that of its rings (history, not in the code) |
| `moves`, `disruptions` | bounds, not in the code |

| Actions | Code |
|---|---|
| `Begin`, `ReadResults`, `ReadSuites` | `Reconcile` up to `aggregateStatus`, its list of results with the rebuild or clearing of the rings, `recordHistory` (`Recorded`: `LateResults` for the scan recorded last, `NewScan` for a new one) |
| `StatusWrite`, `StampWrite`, `Crash` | the status write after success or error, `persistHistoryScoringMode`, a restart |
| `BatchWrites` | the remediation batch of the same reconcile, which refreshes the resourceVersion but not the spec |
| `Rescore`, `Select` | edits of the spec |
| `ScanStarts`, `ScanEnds`, `ResultArrives`, `SuiteVanishes`, `CRDsChange` | the Compliance Operator and those who remove it |

A score is the mode with the sets of passed and failed checks it is computed
from, which tells more points apart than a number would. Results that do not
count are one value. Timestamps that cannot be parsed or lie in the future, which
only delay a scan, and the byte budget of the failure lists are left out.

### ScanBindings

`ensureScanConfig`: the ScanSetting first, then one list of the bindings, then a
write for every selected profile and a deletion for every binding that is the
operator's and not selected, all decided from that list. The two CRDs can come and
go one at a time, and anybody may write between two calls.

| State | Code |
|---|---|
| `spec`, `cond`, `cb` | the selected profiles and the schedule; the condition ScanConfigured; the copy the reconcile works on |
| `crds`, `setting`, `binding` | which CRDs are registered; the schedule of the ScanSetting; each ScanSettingBinding with its controller and whether its contents are right |
| `pc`, `listed`, `todo`, `stale`, `rvOK` | where the worker is, what it listed, what is left to ensure and to prune, whether the status write will not conflict |
| `right`, `gap`, `moves`, `disruptions` | history and bounds, not in the code |

| Actions | Code |
|---|---|
| `Begin`, `EnsureSetting`, `ListBindings` | the beginning of the reconcile, `ensureScanSetting` with the last good schedule, the list |
| `EnsureBinding` | `ensureScanBinding` for one profile: nothing to do, refused by `SetControllerReference`, written, or skipped because the CRD is gone |
| `PruneBinding`, `Conclude` | the deletions, the condition |
| `StatusWrite`, `Crash`, `BatchWrites` | as in ScanHistory |
| `EditSpec`, `TouchBinding`, `EditSetting`, `ChangeCRD` | users, other products, CRDs |

### ConsolePluginReg

The plugin's objects and its entry in the list of plugins of the one Console, which every
operator with a plugin rewrites as a whole. The list is read in one step and written in
another; in between anybody may change it, or the Console may go.

| State | Code |
|---|---|
| `baseline`, `cond`, `cb` | deletion timestamp with finalizer and `spec.console.managementState`; the condition ConsolePluginReady; the copy the reconcile works on |
| `image`, `single`, `crds`, `console` | RELATED_IMAGE_CONSOLE_PLUGIN, the topology, whether the Console capability is there, the Console with its list |
| `objects`, `replicas` | Service, Deployment, PodDisruptionBudget, ConsolePlugin; the replicas of the Deployment |
| `pc`, `oneNode`, `left`, `got`, `fresh`, `tries`, `rvOK` | where the worker is, what it has read, the attempts of `retryOnConflict`, which writes will conflict |
| `seen`, `byHand`, `moves`, `disruptions` | history and bounds, not in the code |

| Actions | Code |
|---|---|
| `Begin`, `ReadTopology`, `EnsureService`, `EnsureDeployment`, `EnsurePDB`, `EnsurePlugin` | `ensureConsolePlugin` and `ensurePluginWorkload` up to the registration |
| `RemoveObject` | `removeConsolePlugin`, one deletion after the other |
| `GetConsole`, `UpdateConsole` | the read-modify-write of the list: registration, `deregisterConsolePlugin` after a removal and before the finalizer goes |
| `ReadPods`, `StatusWrite`, `RemoveFinalizer`, `Crash`, `Collect` | the end of the reconcile, of the deletion and of the process; the garbage collector |
| `EditBaseline`, `EditConsole`, `ToggleConsole`, `DeleteObject` | administrators and other operators |

### DefaultBaseline

`DefaultClusterBaseline.Start` lists, creates if there is nothing, and retries, in every
process that becomes leader. `object`, `refused` and `listed` are the ClusterBaseline,
a webhook or an RBAC rule that refuses it, and the informer's copy; `at` is where `Start`
is; `answered` is history. `WaitForCacheSync`, `List`, `Create` and `Sleep` are its steps,
`Restart`, `Deliver` and `Administrator` everybody else's.

### MetricsCert

`metricsCertProvider.GetCertificate`, called by handshakes that run at the same time,
over a Secret that is rotated under them. Every file read is a step, and so is every
critical section; the one that reads the files again keeps `mu` over three steps.

| State | Code |
|---|---|
| `disk`, `newest` | the rotation the two paths show, none while a path is gone; the last rotation |
| `cert`, `mu` | the cache with its fingerprint; who holds the mutex over a read |
| `hs` | each handshake: its place, its attempt, the pair it read and read again, what it was served |
| `shown`, `gaps`, in `hs` `floor` and `due` | history and bounds: the newest pair shown, gaps left; what was shown when the handshake began, and the pair it must be served as long as the Secret does not change |

`Begin`, `ReadCrt`, `ReadKey`, `Look`, `Lock`, `ReadCrtAgain`, `Publish` and `FallBack` are
the steps of a handshake, `Project` is the kubelet.

### ComplianceInstall

`ensureComplianceOperator`: depending on whether there is a Subscription it keeps
the catalog of that one right and reports the CSV it names, or it looks for an
installation in any namespace, and installs one only if it finds none. What it
reports passes through `setCond`, which keeps the time of the last transition, and
the rollup turns that time into InstallStalled.

| State | Code |
|---|---|
| `spec`, `status`, `cb` | `complianceOperatorInstall` and `complianceCatalogSource`; ComplianceOperatorReady with the age of its transition, the version and Degraded; the copy the reconcile works on |
| `olm`, `catalogs`, `sub`, `csv`, `groups` | the APIs of OLM, CatalogSources, the Subscription, the phases of the CSVs in the namespace and elsewhere, OperatorGroups |
| `pc`, `seen`, `fallback`, `choice`, `rvOK` | where the worker is, the Subscription and the unfinished CSV it has read, the catalog it chose and whether it is confident |
| `lasting`, `deferring`, `present`, `missing`, `status.long`, `moves`, `disruptions` | history and bounds, not in the code |

| Actions | Code |
|---|---|
| `GetSubscription`, `ResolveSource`, `ResolveCommunity`, `SyncSource`, `ReadInstalled` | the way with a Subscription: `resolveCatalogSource`, `syncComplianceSubscriptionSource`, `setComplianceOperatorReady` |
| `FindLocal`, `FindAnywhere` | `findComplianceOperatorCSV` in the namespace and in the cluster |
| `ListGroups`, `WriteGroup`, `CreateSubscription` | `ensureComplianceOperatorGroup` and the creation of the Subscription |
| `StatusWrite`, `Crash`, `BatchWrites` | the rollup and the status write; as above |
| `OlmInstalls`, `OlmFinishes`, `GracePasses` | OLM and time |
| `EditSpec`, `ChangeCatalogs`, `TouchSubscription`, `TouchCSV`, `TouchGroups`, `ToggleOLM` | administrators |

### The console: writes

`ConsolePatches` has every patch of `patches.ts` as the list of tests and the write
it is made of, and `Accepts` and `Patched`, which say what the API server does with
one. `ConsoleWrites` has what all tabs that write share:

| State | Code or environment |
|---|---|
| `server`, `author` | the stored object; who wrote its present version (history) |
| `watched`, `access` | what `useK8sWatchResource` delivered last; what `useAccessReview` answers |
| `calls` | requests under way: the object read, the patch, whether the server has seen it, whether the caller still waits |
| `mount` | which opening of the tab is on the screen: an answer for an earlier one sets no state |

A request is served once or not at all, in any order; its answer comes later, says
success or failure, and may say failure of a write that landed. `OptimisticObject`
is the abstract specification: a console write takes effect only on the version it was
decided on. `Optimistic` instantiates it `WITH` the version and the value of the
server and the decisions that the calls carry, and `WritesOptimistic` says that a tab
implements it.

| Module | Code | Actions |
|---|---|---|
| `ResultsTab` | `ResultsTab.tsx` | open and close a check, type, add and remove a waiver, remove orphans, answers, alerts |
| `RemediationsTab` | `RemediationsTab.tsx` | the dialogs of one remediation, of the switch and of the batch, with the operator as what it does to both objects |
| `ProfilesTab` | `ProfilesTab.tsx` | switches, the dialog for the last profile, unbinding, `openEdit`, `createTailored` with its three requests, answers |
| `ScheduleEditor` | `ScheduleEditor` in `Overview.tsx` | edit, type, cancel, save, answer |

A click is one step up to the `await`; what follows the `await` is another. Clicks
are guarded by what the code checks synchronously (`busyRef`, `pendingRef`), never by
the disabled look of a button, because a second click can precede the next render.

### The console: what it shows

| Module | Code | What it is about |
|---|---|---|
| `CompliancePage` | `CompliancePage.tsx`, `BaselineNotConfigured.tsx`, early returns of the tabs | watches that fail or lag, rescan as several patches, export, creation |
| `PageParts` | `chunkLoad.ts`, `ChunkError.tsx`, `TabErrorBoundary.tsx`, `focus.ts`, the viewing dialog | imports, copies and animation frames that settle late |
| `WaiverClock` | `waivers.ts`, `useWaiverExpiryClock.ts` | expiry with no event, the render, the effect that sets the timer later, a timer that is early or late, its cap |
| `CheckViews` | `status.ts`, `scoring.ts`, `results.ts`, `report.ts` beside `aggregate.go`, `inconsistent.go`, `scoring.go` | two programs that read one list of results; the newest point of the history where there is none |
| `OverviewRules` | `Overview.tsx` | the alert and the card of changed checks over two independent watches |
| `ScoreTrend` | `scoring.ts`, `overviewTrend.ts`, `OverviewCharts.tsx` | a history in any order, with bad points and scores that are no whole numbers |
| `RemediationList` | `remediation.ts`, filters of `RemediationsTab.tsx` | order, chips, search, what a batch names |
| `TailoredRules` | `profiles.ts`, `RuleMultiSelect` | pickers, counts, adoption of a taken name |
| `ContentKeys` | `contentKey.ts`, `historyContentKey` | keys that must not be forged by their content |

`Lists` has the two functions of arrays that all of them use: `Kept`, a filter by a set,
and `Ordered`, a sort by a set of pairs. `ContentKeys` takes the numeral of a length as a
constant, since only that lengths have different numerals of digits matters to a key.

State variables carry the names of the hooks they stand for; derived values are
operators with the names of the code (`rescanDisabledReason`, `effectiveStatus`,
`tailoredProfileSpecMatches`). Layout, wording, formatting of numbers and dates are
left out.

### How the modules fit together

Each of the four operator models has the whole reconcile reduced to the calls of its
own component. What couples them is the one ClusterBaseline object: its
resourceVersion, which another component may refresh (`BatchWrites`), and the one
status write at the end, which every model repeats with its own part of the
status. The composition in the order of `reconcileOwned` is planned (section 6).
`MCOperatorParts` runs `ScanBindings` with the three parts that share no state with it as
alternatives: the initial state picks one, and the variables of the others do not move.

The console meets the operator in the same object. The operator models take its
requests as `Submit`, with the guard of `batchApplyPatch`; the console models take
the operator as one of the other writers, and in `RemediationsTab` as what it does to
the request and the remediations. `ConsolePatches` is shared by every module that
writes. The router mounts one tab at a time and a tab that is left forgets its state,
so `ConsoleTabs` and `ConsolePages` compose the tabs and parts as alternatives:
the initial state picks one, its variables evolve, those of the others are `Absent`. The
theorems are about these compositions. `MCConsoleTabs` and `MCConsolePages` add what TLC
needs: values of constants and, for the tabs, bounds.

## 3. What the runs check

| Run | Question | Outcome |
|---|---|---|
| `BatchCore` | `PausesTracked`, `CountedOnce`, `AdminPausesKept`, `GoneReleased`, `GraceNeverRestarts`, refinement of `PauseLedger`, with requests from the console | hold |
| `BatchUntrusted` | `OnlyOwnedPools`, `AppliesUnderPause` with forged pools, foreign and invalid names, a lagging cache | hold |
| `BatchLive` | `PausesReleased`, `RequestsConsumed` under fairness | hold |
| `BatchStaleCache` | `PausesTracked` with a lagging cache and no failure | violated |
| `BatchRecount` | `CountedOnce` if requests may also be annotated directly | violated |
| `HistoryCore` | `DiffHonest`, `UniformWhileStamped`, `BaseIsScanBefore`, `ScoresFrozen`, and `ScansRecorded` under fairness | hold |
| `HistoryMixed` | `RingsUniform`, that no ring ever mixes scoring modes | violated |
| `OperatorParts` | `OwnedAreSelected`, `ConfiguredIsSound`, `KeepsOthers`, `GoneStaysGone`, `NothingOlder`, and `Settles` under fairness | hold |
| `InstallCore` | `NoSecondInstall`, and under fairness `StallShows`, `SourceInTheEnd`, `ReportsInTheEnd` | hold |
| `InstallGrace` | `StallAfterGrace`, that only an installation of some age is called stalled | violated |
| `ConsoleTabs` | refinement of `OptimisticObject`, `WaiversSound`, `BatchesDecided`, `LastConfirmed`, `BoundAsTyped`, `FormIsWanted`, `InputKept`, `BusyIsRequest`, `RetryLands` | hold |
| `ConsolePages` | `SaysWhatIs`, `RescansLand`, `ShownIsCurrent`, `FocusNotStolen`, `NumbersAgree`, `FormKeepsWord` | hold |

Type invariants and the safety properties `AppliesUnderPause`, `PointsOrdered`,
`TimeForward`, `OthersKept`, `VersionOnlyWhenReady`, `SourceVerified` and
`DefersToTheirs` are proved for all constants (section 4) and not checked again by a
run, except the first in `BatchUntrusted`.

`BatchCore` has two pools, a remediation of each, requests for both and for one,
two disruptions and three moves. Two pools are the least that can be paused in
part; two requests the least that can differ; a second disruption is needed to
disturb a recovery, a third move to submit, change a remediation and interfere
with a pool. The invariant is inductive and proved for all values, so the bounds
matter only for what is not proved. `BatchUntrusted` adds a foreign remediation,
one without pool and an invalid name. `BatchLive` is smaller because each
temporal property costs a product with the state graph; one disruption is enough
to lose the status write or an annotation write of either kind.

`HistoryCore` has two profiles whose suites end at different times. A second scan
has one to be compared with, a third overflows a ring of two points. One move is a
change of mode or selection, a vanished suite or CRD; one disruption is a conflict,
a lost answer or a crash in any place. Only one profile has a check: the other one
may still hold the scan back. The safety properties are proved for all values of
the constants.

`OperatorParts` has two profiles and the name of a foreign binding: one profile may be
ensured while the other is pruned, and a failure may come between them. Two moves
let a CRD disappear and come back within a reconcile, or a binding change its owner
and the selection change as well; two disruptions disturb the repair of a failure. The
list of plugins has one entry of somebody else, which can be lost as well as many; two
moves let the Console change twice during one reconcile and use up both attempts, which
stand for the five of the code, and one disruption a lost answer, a refused call or a
crash. The default object has three moves (the administrator creates, deletes, and lifts
a refusal) and two disruptions. The certificate has two handshakes, the least of which one
can overtake the other, three rotations of which the second does not parse, and one gap.

The properties of this run name what the parts have in common, each with a conjunct per
part: `KeepsOthers` (the list of plugins), `GoneStaysGone` (the entry of the plugin and the
default that was deleted), `NothingOlder` (the certificate, and a plugin that is called
deployed), `Settles` (bindings, plugin, provisioning).

`InstallCore` has two versions, which an upgrade and a choice between two
installations need. With one move and one disruption, an administrator may
interfere, and a call fail, in any place of the installation, the switch of the
catalog or the upgrade; the first catalog may be missing from the beginning. The
state graph is the largest here, because OLM and time move freely.

`ConsoleTabs` gives each behaviour one of two sets of bounds, as the constraint `Bounded`
of `MCConsoleTabs`. The wide one has two requests at a time, so that answers come out of
order, over three versions: the one read, one written by somebody else, one of its own. The
long one has one request at a time. In the Remediations tab it has four versions, enough for
a batch that is requested, run, cleared and submitted again; in the Profiles tab it has two
profiles and two fetches, enough for one to be overtaken, where the wide one leaves the
second profile alone (`LeftAlone`); nothing is typed there over a profile that was fetched
(`EditsUntouched`), which the wide one has. The lists of waivers and of tailored profiles hold two
entries, so that their limit is met. Clicks on the same control, lost answers and writes of
others are all free within these. All nine properties of this run are proved without them.

`ConsolePages` gives each part the least that tells its cases apart. `CompliancePage` has
two scans, two clicks and two turns of watches and of others; `CheckViews` has two checks,
one of which may have no name, and rows of every status, severity and annotation that is
told apart, and histories are told apart where the console reads them, in a profile without
results (`TipsWhereRead`); `ScoreTrend` has a score the operator writes, one that is no whole
number and one out of range; `WaiverClock` runs over twelve instants, around the warning
window and past the cap of the timer, with a timer or an effect up to one instant from when
it is due (`MaxDrift`), which is what lets a deadline pass between the two; `ContentKeys` over texts that contain the
characters of the keys. The six properties are proved without these bounds.

Deadlock is not checked: when the requests, moves and disruptions of the bounds
are used up and the ClusterBaseline is gone, the model stops, as the system idles. The
same holds of the console when its versions and clicks are used up.

### The four violations

* `BatchStaleCache`. A status write is not in the cache yet when the next
  reconcile starts; it opens the batch again from annotations it has not fully
  seen, while one of the remediations vanished. The recorded pools are overwritten.
* `BatchRecount`. `batchUnreported` cannot tell the request of the next batch
  from a marker of this one.
* `HistoryMixed`. The first scan is recorded and its status written, but the stamp
  is not. An absent stamp matches every mode (`scoring.go:29-34`), so that after a
  change of the mode the next scan is appended to the points of the other mode.
  The comment at `history_reconcile.go:40-45` promises that a failed patch is
  "never a silent mix". Writing the stamp with the first status, or treating an
  absent stamp with points as a mismatch, would close it. There is a second way, without
  any failure. A reconcile begins in Flat; the mode is edited; the remediation batch of the
  same reconcile writes, which takes over the resourceVersion of the edit but not its spec;
  a scan is recorded as Flat, and the answer of the status write, which is not refused any
  more, replaces the object in memory with the edited spec. `persistHistoryScoringMode` then
  stamps SeverityWeighted over Flat points (`history_reconcile.go:50`), the next reconcile
  sees no mismatch, and the scan after it is mixed in. The comments at
  `history_reconcile.go:20-26` and `:40-45` say that the stamp can never lead the history it
  guards. Stamping the mode that the points were computed
  in would close it. `UniformWhileStamped` names both ways (`lost`, `ahead`) and says that
  there is no other; `StampNeverLeads` and `UndisturbedIsUniform` say that without batches
  the second does not exist.
* `InstallGrace`. Nothing is installed for longer than the grace, then an
  installation begins. NotInstalled and Installing are both False, so `setCond`
  leaves the transition time alone (`conditions.go:57-63`), and the first reconcile
  that sees the installation rolls it up as InstallStalled (`conditions.go:198-200`).
  Measuring from the change of the reason would close it. `StallShows` is the other
  half, which holds: what is stalled is shown in the end.

### Fairness

`FairSpec` assumes the worker is not stopped for ever while it can take a step
(the manager re-enqueues after an error with back-off and after success with a
poll), that time passes, and that the informer catches up. Nothing is assumed of
users, administrators or the Compliance Operator: a remediation need never be
applied. Disruptions are bounded, since no code can survive a server that fails
for ever.

`ScansRecorded` in `HistoryCore` assumes only the worker. It says that suites which
stay complete, with every member scan newer than the scan recorded last, are
recorded in the end, with the failures that came late.

`Settles` assumes the worker of the bindings and of the plugin, the garbage collector, and
for the default object that `Start` runs until it returns and the informer delivers; nothing
is assumed of handshakes. The properties of the installation assume in
addition that a transition time gets old: time does not stop, and a reconcile only
writes back the transition time it has read unless the status changed. The model
lets the grace pass between two reconciles, hence strong fairness, as the action is
disabled during one. This matters for `StallShows` only, whose premise is that the
status does not change any more. OLM need not do anything; an installation it never
finishes is what `StallShows` is about. All four say what holds once nobody else
writes, which the bounds bring about.

The console models assume no fairness and state no liveness: a click need not be made,
an answer need not come. What must become possible again is said by `RetryLands` (once the
watch has caught up, a patch of the baseline or of a remediation that failed is accepted when
it is tried again; the Save of a tailored profile exactly while the object its form was opened
on is the stored one) and `BusyIsRequest`
(no control stays busy without a request), which are safety properties.

## 4. What is proved

All with TLAPS, for every value of the constants unless stated. Each component's
theorems are in its `...Proofs` module: those of the four parts of `OperatorParts` together
in `OperatorPartsProofs`, since one specification runs them, those of the tabs in
`ConsoleTabsProofs` and of what the console shows in `ConsolePagesProofs`. Lemmas about
patches and calls are in `ConsoleWritesProofs`, those about folds, filters, sorts and finite
sets in `FoldLemmas`.

| Theorem | Statement | Assumes |
|---|---|---|
| `TypeCorrect` | `[]TypeOK` | - |
| `AdminPausesAreKept` | `[]AdminPausesKept` | - |
| `OnlyOwnedPoolsPaused` | `[]OnlyOwnedPools` | - |
| `AppliesWhilePaused` | `AppliesUnderPause` | - |
| `PausesHeldRight`, `PausesAreTracked`, `GoneIsReleased` | `[]PauseInv`, `[]PausesTracked`, `[]GoneReleased` | `Lag = FALSE`, `FaultsPerReconcile <= 1` |
| `BatchKeepsLedger` | refinement of `PauseLedger` | the same |
| `GraceIsKept` | `GraceNeverRestarts` | the same |
| `PointsAreOrdered`, `DiffIsHonest`, `RingsStayUniform` | `[]PointsOrdered`, `[]DiffHonest`, `[]UniformWhileStamped` | - |
| `TimeIsForward`, `BaseFollows`, `ScoresStayFrozen` | `TimeForward`, `BaseIsScanBefore`, `ScoresFrozen` | - |
| `StampNeverLeads`, `UndisturbedIsUniform` | `[]~ahead`; `RingsUniform` as long as nothing was disrupted | `Batches = FALSE` |
| `HistoryHolds`, `HistoryTyped` | `[]HistInv`, `[]TypeOK` of `ScanHistory` | - |
| `BindingsHold`, `BindingsTyped`, `LeftIsSelected`, `CreatedIsSound` | `[]BindInv`, `[]TypeOK`, `[]OwnedAreSelected`, `[]ConfiguredIsSound` | - |
| `OthersAreKept` | `OthersKept` | - |
| `PartsHold`, `NothingIsOlder` | `[]PartsInv`, `[]NothingOlder` | `PluginMoves \in Nat` |
| `ListOfOthersIsKept`, `GoneIsNotBroughtBack` | `KeepsOthers`, `GoneStaysGone` | the same |
| `InstallHolds`, `InstallTyped`, `VersionIsReady` | `[]InstallInv`, `[]TypeOK`, `[]VersionOnlyWhenReady` | - |
| `SourceIsVerified`, `NothingTwice`, `DefersAlways` | `SourceVerified`, `NoSecondInstall`, `DefersToTheirs` | - |
| `BatchCountedOnce` | `[]CountedOnce` | `Lag = FALSE`, `DirectAnnotate = FALSE`, `ForgedPools = {}` |
| `TabsWriteOptimistically` | refinement of `OptimisticObject` by whichever tab is mounted | - |
| `TabsBusy`, `TabsRetry` | `[]BusyIsRequest`, `[]RetryLands` | - |
| `TabsKeepInput`, `TabsConfirmed` | `InputKept`, `LastConfirmed` | - |
| `TabsBatches`, `TabsForm`, `TabsBinding`, `TabsWaivers` | `BatchesDecided`, `[]FormIsWanted`, `[]BoundAsTyped`, `[]WaiversSound` | - |
| `ConsoleSaysWhatIs`, `WhatIsShownIsCurrent` | `[]SaysWhatIs`, `[]ShownIsCurrent` | - |
| `NumbersAreOne`, `FormIsKept` | `[]NumbersAgree`, `[]FormKeepsWord` | - |
| `RescansAreNew`, `RestoreLeavesDialogs` | `RescansLand`, `FocusNotStolen` | - |

The assumptions on the constants, by name in the modules that declare them, are that bounds
are numbers; that names which the code sorts are numbers and instants points of one line;
that lists are finite; that a marker for something absent is none of the things it stands
beside (an absent list of profiles no list, the name of no remediation no remediation, a
dialog of something else no object shown); and of keys, that the numeral of a length is made
of characters that are no colon, differs from that of any other length, and that no digit is
one of the four letters a key starts with. TLC evaluates them in the runs. Nothing is
assumed of how many names, requests, versions, clicks, fetches or characters there are.

Both assumptions on the pauses are needed: with either of them gone `PausesTracked` is
false, as `BatchStaleCache` shows of the first and section 5 of the second. `CountedOnce`
stands whatever fails, and however often; it needs that requests come through the guard of
the console, which is what `BatchRecount` drops, and a current cache.

`PausesTracked` is not inductive: whether a reconcile may drop a record depends
on what it has in memory. `PauseInv` adds, for each step of the reconcile, where
the held pools are listed: in the record the reconcile works on while it reads
(`list`, `recall`, `release`), in `plan` and in `cr.pools` while it pauses, in
`todo` while it resumes, in what the status write will leave when only that is
missing. It also says that a held pool carries the operator's marker, so that a
resume by this batch releases it, and that a rollback has used up the one failure,
so that it resumes all it paused. The proofs have one step per action.

`AdminPausesKept` follows from one more fact: a pool whose pause is an
administrator's does not carry the operator's marker. `AppliesUnderPause` needs
the same of the pools of the batch at the step that applies.

The scan history is proved from `HistInv`. What is stored is honest and ordered,
but a reconcile writes a copy that it computed some calls ago; so the invariant
says the same of the copy, and how it follows what is stored: its scan is not
older, its base is what the stored scan ended with, no scan changed its mode. Until
`recordHistory` runs, the copy still has the stored scan and stamp. As long as no
stamp was lost and none was due in another mode than its rings, all points carry the mode
of the stamp, except between the status write and the stamp, where they carry some single
mode. Without batches a reconcile whose spec is not the stored one has lost its
resourceVersion, so that the answer of a status write that lands brings back the mode the
points were computed in (`UneditedInv`). The lemmas about
`Recorded` do the work: `LateResultsKeeps` and `NewScanKeeps` rest on lemmas about
the rings (`AppendedPoints`, `SyncedOrdered`, `SyncedMode`).

The bindings are proved from `BindInv`. Between the list and the conclusion, what
the operator owns is selected or listed as stale, since nobody else makes a
binding the operator's own; and a selected profile that is no longer in `todo` was
right at some moment, when it was listed or written, unless the CRD was away.

The three small parts are proved from `PartsInv`, which has one invariant for each.
`CertInv`: what was shown is not newer than the cache, and the cache only grows, because the
pair that is published was read again, and found unchanged, after the lock was taken; without
the second read a slow handshake could put back a pair it read before a rotation. A handshake
that nothing disturbs has in each place read what is on disk. `PluginInv`: when the update of
the list is accepted, what was read is still there; a deletion that is past the list has left
it without the entry, unless an administrator put it back by hand; a worker that looks at the
pods has seen the entry. `AnsweredIsOver`: a process that was told that the default object is
there has returned.

The installation is proved from `InstallInv`: without the APIs of OLM there are none
of its objects (`Gone`); in the stored status and in the copy alike a version goes
with CSVSucceeded (`HonestCopy`); and what the worker knows at each step of its way
to a write (`Route`): on the way to an installation, that it saw no Subscription,
may install and that no CSV was there all the time; with a confident choice, that
the catalog was verified; before its OperatorGroup is written, that nobody else's was
there all the time.

A batch is counted once because of `CountInv`: a batch that was counted shows no
annotation any more (its finish clears them in the write that counts), the request on record
is the one the batch was opened for, as nobody may submit over a running one, and a
reconcile that holds another request has lost its resourceVersion.

### The console: what it writes

Each tab has an invariant of its own; `OneTab` says that a step is one of the tab the
initial state picked, `TabsKeep` puts the invariants together, and the theorems with `Tabs`
in their names are about `ConsoleTabs`, the module the run checks.

* The refinement rests on one fact about the patches: each of them tests the
  resourceVersion it was built on (`Guarded` calls), so it is accepted on that version only,
  and the version grows with every write. The member of `Decisions` that a call carries says
  the same for as long as the call waits.
* `WaiversSound` adds that the list a patch was built from is the list of the version it
  tests, and that what the patch makes of a sound list is sound.
* `BoundAsTyped` follows the chain of requests: a bind is only sent after the profile was
  created as typed, or read and found to say the same, and whoever rewrites it changes its
  version. `FormIsWanted` needs that a fetch that was overtaken is marked before the next one
  starts. `BusyIsRequest` needs that a tab has at most one unanswered request of its present
  opening.
* `LastConfirmed` needs an induction over the lists of profiles, which `Kept` gives: taking a
  name off a list in which it was neither alone nor bound leaves something (`Confirming`: what
  a call would leave is decided from the version it tests).
* `RetryLands` holds in every state in which the watches have caught up, by what the patches
  are built from: a patch of the baseline or of a remediation is built from the live object.
  The Save of a tailored profile is built from what was fetched; there `Filling` says that
  the form holds an object of the profile it names, and the statement is that the Save is
  accepted exactly while that object is stored.
* `InputKept` goes through every action that ends a form or sets what was typed in it, the
  answers of failed requests among them, and names for each tab who may end it.

### The console: what it shows

`ConsolePages` has one invariant per part, composed by `OnePart`.

* `RescansLand`: a token is a pair of the instant of the page and a number of the click, so
  that tokens are ordered also over a reload. `PageInv` says that every token in a request or
  on a scan was given before, that no two requests for a scan have the same one, and that a
  patch that would create the annotations insists on a version without them (`Guarded`).
  It also ties what the alerts say to the patches that landed, which `SaysWhatIs` needs.
* `FocusNotStolen` and what is shown of copies and imports: `PartsInv` ties each write and
  import under way to the opening and attempt it belongs to.
* What is shown of waivers was true at the last render, and a deadline is noticed no later
  than the padding and the lateness of the timer: `ClockInv` says that the effect of a render
  runs soon after it, that from then on a timer is set which passes no later than the next
  deadline and its padding (`Watched`, `ArmedCovers`), and that it fires in time (`InTime`).
  A deadline that passed between the render and its effect has no timer, and is excepted.
* Two lists with one content key are one list (`MemoFresh`), which is the decoding of a
  prefix code: where a member of one list ends in the key follows from what stands there
  (its letter, and for texts the numeral up to the colon), and then the members of both lists
  stand at the same places (`MembersStand`, `KeysDiffer`), for texts and lists of any length.
* The list of remediations has each of them once in its order, and every state it has a chip
  of its own, so that a filter that hides something is on the screen. The banner and the card
  of the Overview count the same list, which is one whatever was edited into the status.
* `CountsAgree` and `ScoreParity`: what a row is read as by either program is defined by
  cases over its status, tokens and waiver, and both put it in the same of eight places; the
  places are disjoint, so their sizes add up. Both compute a score from the same two sets
  with the same weights; the console goes another way for a profile without results. In
  Flat the sums of both are 0 there; in SeverityWeighted the operator writes no score and the
  console shows the newest one of the history, which `ScoreParity` says as an exception.
* `TrendAgrees`: the badge comes from a fold over the history, the trend from a filter and a
  sort. The fold ends at the point that none follows in time, nor at the same instant behind
  it (`IsLast`, by induction over the history); a sorted list ends with that point too. The badge
  rounds down, the trend does not; the operator writes whole scores.
* `FormKeepsWord`: two cleaned lists that are the same as lists have the same valid names,
  whatever duplicates and invalid names the stored profile has, and the counts of the pickers
  are those of disjoint sets.

The community modules define folds by CHOOSE, and filters and sorts with an operator
as parameter, about which nothing can be proved. `FoldLemmas` shows that there is such a fold
(`FoldExists`), that it computes its value place by place (`FoldChain`), what a filter keeps and
where that stood (`KeptPlaces`), that a sort by a total order has every element once
(`OrderedSorts`) and that a set as a list has each of its elements (`SetToSeqLists`). Induction
over lengths comes from the well-foundedness of the naturals, in the form that a set which has
0 and with every number the next has them all (`NaturalsByStep`), since the induction theorems
of the library take an operator.

Only model-checked are the liveness properties (`PausesReleased`, `RequestsConsumed`,
`ScansRecorded`, `Settles`, `StallShows`, `SourceInTheEnd`, `ReportsInTheEnd`), because liveness
under fairness is beyond the prover. The properties of the four violating runs are
false under the constants of those. Every safety property of a passing run is proved.

## 5. Limits

* A batch of a previous release without a pause owner, and a corrupt
  `batch-started-at`, are not modelled.
* `AdminPausesKept` does not cover an administrator who unpauses a pool during a
  batch and pauses it again: the marker stays, and the code cannot tell.
* A conflicting write that outlasts the five attempts is one failure; that the
  attempts are 10 ms apart is not modelled.
* In `RemediationBatch` the selection of profiles, which decides what remediations
  are foreign, is fixed.
* If the CRD of the bindings disappears after the list, `ensureScanBinding` reports
  no error (`scanconfig.go:232`), and the conclusion overwrites CRDsMissing with
  BindingsCreated until the next reconcile. `ConfiguredIsSound` excepts this case by
  name (`gap`); `Settles` says that it heals.
* A binding is deleted by name. `OthersKept` excepts the one that was the operator's
  when it was listed and was taken over before the deletion.
* An OperatorGroup or an installation that appears after the reconcile looked for it
  can still be joined by a second one. `DefersToTheirs` and `NoSecondInstall` speak
  of those that were there from the beginning of the reconcile.
* OLM is modelled from how the code uses it: it upgrades from a CSV that succeeded,
  and does nothing in a namespace with two OperatorGroups. The cap of the cluster-wide
  walk over the CSVs is left out.

* Two failed calls in one reconcile are outside `BatchCore` and the proofs
  (`FaultsPerReconcile <= 1`). With two, `PausesTracked` is false: pool 1 is paused, the
  pause of pool 2 takes effect but its answer is lost, and rolling pool 1 back fails;
  only pool 1 is recorded (`batch_apply.go:202-204`), and the finish then removes
  `batch-pools`. Recording the whole `poolList`, as the apply failure below it does, would
  close it.
* A pool that is not there, or whose `spec.paused` cannot be read, is skipped by the code and
  its remediations are applied all the same (`batch_reconcile.go:80-99`); in `RemediationBatch`
  every pool is there and readable. The outcome "orphaned" of a request that is withdrawn
  before its batch was opened (`batch_reconcile.go:305-307`) is not counted by the model.
* A request identical to the running batch is cleared with it, and the answer to a write
  that cleared the annotations may be lost after it landed, in which case nothing is
  counted; `CountedOnce` permits both.
* A stamp may be written in a mode that its rings are not in, when a batch writes after an
  edit of the mode (section 3); `UniformWhileStamped` and `ScoresFrozen` except it by name.
* The failures of a deselected profile stay the base of the next comparison;
  `BaseIsScanBefore` permits it, as the comment at `history_reconcile.go:345-351` does.

* In `ConsolePluginReg` the informer's copy of the ClusterBaseline is current, two attempts
  stand for five, and Unavailable is WaitingForPods that lasted. Of what others do to
  the objects of the plugin only their deletion is modelled, not an edit of their contents.
* A process that starts creates the default object although an administrator deleted the
  one before; `GoneStaysGone` speaks of one process.
* In `MetricsCert` a directory for certificates is configured; without one every handshake
  gets the self-signed certificate. A torn pair never parses, since each rotation has a
  new key.

Of the console:

* Confirm stays enabled in the batch dialog while a batch is under way, for instance after
  a lost answer, and does nothing (`RemediationsTab.tsx:410`). Reopening the dialog helps.
* `unresolvedNewlyFailed` (`Overview.tsx:642`) does not count the names without a check
  result, as the comment above it says, because `changedChecksMany` falls back to the name;
  it counts entries that are no names.
* Which remediations need a node reboot is decided by the kind and the scan name in the
  console (`remediation.ts:25-41`) and by the pool in the operator (`batch.go:77-105`); the
  two are not compared by a property, since the operator filters the request again.
* The counts under the pickers of a tailored profile include a name in both selections or
  an invalid one, which a save drops; `FormKeepsWord` excepts them by name.
* After a conflict, or after a Save that landed but whose answer was lost, the Save of an
  edited tailored profile is refused until the form is opened again, since it replaces the
  object that was fetched (`ProfilesTab.tsx:583-594`). `RetryLands` says so.
* New tailored profile, clicked while the fetch of an edit is under way, opens a form that
  the fetch then turns into the edit, with what was typed: the button is not disabled by the
  fetch and does not overtake it (`ProfilesTab.tsx:963-975`), contrary to what the comment
  at `ProfilesTab.tsx:493-494` says of a form the user already moved on from. `InputKept`
  leaves this case.
* Any request of the Results tab that succeeds takes what is typed in its dialog, the removal
  of an orphaned waiver too (`ResultsTab.tsx:304`). A save of the schedule that lands closes
  the form over what was typed since. `InputKept` leaves both to a request that succeeded.
* A waiver that runs out between a render (`Overview.tsx:572-606`) and its effect
  (`useWaiverExpiryClock.ts:42-56`, `waivers.ts:63-69`) has no timer, and is shown as active
  until the next deadline or change of the list. `NeverStaleLong` excepts it.
* Under SeverityWeighted the card of a profile without results shows the newest score of its
  history (`scoring.ts:310-314`), while the operator writes none. `ScoreParity` excepts it.
  That the list of results may not have arrived yet is not modelled.
* In a history edited by hand to have a score that is no whole number, the badge rounds down
  and the trend keeps the fraction. `TrendAgrees` says so.
* Whether a profile of a taken name may be adopted is decided by its base and its rules; its
  other fields (`setValues`, `manualRules`) are compared by neither the code nor the model.
  That others delete a TailoredProfile is not modelled.
* The error of an orphan's removal is shown in the dialog of whatever check is opened
  while the request is under way. A boolean and the text of it have one content key. A
  save of the schedule replaces one that was changed while the form was open, if the watch
  had delivered it. The alert may say "and 0 more". No property speaks of these four.
* Defensive guards that no control can reach are in the models but never decide anything.

### Not modelled

Text processing (`text.ts`, `dates.ts`, `parse.ts`, the HTML of `report.ts`, download),
layout, translations and the build tools: functions of one call without state, whose
verdict enters the models as a choice. Metrics, the dashboard, the
contents of the plugin's objects, scan storage, cache configuration, sanitizing of the status
and the scripts under `operator/hack`: derived or sequential, as listed in PROJECT.json.

## 6. Plan

In this order; each with its theorems where the property is a safety property.

1. The list of plugins implements a list with an owner per entry.
2. `Reconcile`: the ensure steps in order, first error, status write, requeue and watches,
   implementing a register of status and stamp.
3. The console and the operator in one model, over one request for a batch.
