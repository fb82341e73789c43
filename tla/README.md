# Verification of the CloudFront tenant operator

The operator in `src/` manages AWS CloudFront distribution tenants through two
Kubernetes custom resources. This directory holds TLA+ models of its two
reconcilers with everything their calls interleave with, of the way of a
tenant's fields from a DynamoDB row to CloudFront, the TLC runs that check
them and TLAPS proofs about all three.

| file | content |
|---|---|
| `TenantData.tla` | the data and the pure functions: payloads, spec-versus-AWS comparison, three-way diff, Route53 batches |
| `DistributionTenant.tla` | the reconciler, the API server with its cache and queue, CloudFront, Route53, users, other writers, faults; the properties |
| `TenantLifecycle.tla` | the abstract specification that `DistributionTenant` implements |
| `SourceData.tla`, `TenantSource.tla` | the TenantSource reconciler, the table, the cluster around it; the properties |
| `FieldSync.tla` | row, item, spec, request, answer: mapping, overlays and comparisons field by field |
| `SharedZone.tla` | several resources with common domains in one Route53 zone |
| `MC*.tla`, `MC*.cfg` | the instances TLC checks |
| `DistributionTenantProofs.tla` | proofs: types, `observedGeneration` |
| `LifecycleProofs.tla` | proofs: the refinement of `TenantLifecycle`, no leak of a recorded tenant |
| `WorkerProofs.tla` | proofs: what is overwritten was read, no resource is forgotten |
| `CertificateProofs.tla`, `DNSProofs.tla` | proofs: the conditions CertificateReady and DNSReady tell the truth, a tenant has its records |
| `TenantSourceProofs.tla` | proofs: types, foreign tenants and attached certificates are left alone |
| `FieldSyncProofs.tla` | proofs: the comparisons, updates, pushes and the pre-flight check, field by field |
| `PROJECT.json` | components, runs, mutants, map to the source, findings, hazards, theorems |

## The system

### Components

**DistributionTenant reconciler** (`internal/controller/distributiontenant_controller.go`).
State: none of its own between two reconciles. What it knows is in the
resource: finalizer, generation, and the status with the CloudFront ID, ETag,
`observedGeneration`, `dnsChangeId`, `dnsTarget`, `domainResults`,
`driftDetected` and four conditions (Ready, Synced, DNSReady,
CertificateReady). Operations: `Reconcile` with its branches `reconcileCreate`
(DNS records first, then the tenant), `reconcileExisting` (get, diff, then
update, drift handling, certificate attachment or steady state),
`reconcileUpdate` and `reconcileDelete` (disable, wait, delete, remove the
records, remove the finalizer), and the error handlers. It is correct when the
tenant converges to the spec, the status never claims what is not so, nothing
created in AWS outlives the resource, changes made by others are not
overwritten blindly or against the drift policy, and no resource is forgotten.

**Change detection** (`internal/controller/change_detection.go`). Pure:
`specMatchesAWS` compares the spec with the tenant read, `detectChanges` tells
a spec change from drift with generation and `observedGeneration`, the drift
policy says what to do. It is correct when `observedGeneration` really means
that this spec has been pushed.

**AWS clients** (`internal/aws`). CloudFront (create, get, update and delete with
If-Match, connection groups, managed certificate details), Route53 (atomic
CNAME batches and change status), ACM (the names of a certificate), and the
classification of error codes into terminal, not found, precondition failed,
throttled and other. No state but the SDK clients.

**TenantSource reconciler** (`internal/controller/tenantsource_controller.go`)
and its **backends** (`internal/tenantsource`, `internal/aws/dynamodb.go`). State: the
source's finalizer and status (counts, `pendingChanges`, Ready). Operations:
`Reconcile` scans the table, lists the tenants that carry the source's label and
runs `syncTenants` over items and tenants, which creates, updates or deletes, or
in a dry run only plans; `reconcileDelete` deletes the labelled tenants and waits
for them. A desired spec is a row laid over the source's template, field by
field. Correct when the owned resources converge to the items and then rest,
other owners' resources are left alone, fields set by the tenant reconciler
survive, problems and plans are reported, and a deleted source leaves nothing.

**Kubernetes API types** (`api/v1alpha1`), **metrics** (`internal/metrics`),
**manager start-up** (`cmd/main.go`), **mocks and generated code**.

### How they interact

Both reconcilers run in one manager. They read from an informer cache that
lags behind the API server, write with optimistic concurrency (a
`resourceVersion` conflict is an error and hence a retry), and are called
from a work queue that never runs one key twice at a time and is fed by watch
events, `RequeueAfter` and error backoff. The tenant controller filters its
events with `GenerationChangedPredicate`: a change of the status alone queues
nothing. The tenant reconciler calls CloudFront, Route53 and ACM; each is
shared with other writers, answers late, and may fail at any call. The two
reconcilers meet only in the DistributionTenant objects.

### What is hard

There is no transaction over the three systems. A reconcile that has changed
CloudFront or Route53 may fail to record it, because a user edited or deleted
the resource meanwhile, because a call failed, or because the operator
stopped. The next reconcile works with what the cache shows, which may be
older than the operator's own last write. Route53 changes, deployments and
certificate validation take minutes, during which the spec may change.
`hazards` in `PROJECT.json` lists 38 such points with the line where each one
bites and the properties that watch it.

## The models

### DistributionTenant: state

| variable | stands for |
|---|---|
| `api` | the stored resource: existence, `deletionTimestamp`, finalizer, generation, spec, status |
| `cache` | the informer's copy |
| `current` | which copies (the cache, the worker's object, the worker's CloudFront answer) are still the stored version: `resourceVersion` and ETag without counters |
| `queued`, `timer` | the key in the work queue; a pending `RequeueAfter` or backoff |
| `pc`, `obj`, `got`, `details` | the call the worker makes next, its copy of the resource, the tenant and the certificate status it has read |
| `aws`, `cert`, `zone` | the CloudFront tenant, its managed certificate, the Route53 records |
| `edits`, `faults`, `externals` | what the bounds `MaxEdits`, `MaxFaults`, `MaxExternals` count |

`aws.by` and `aws.gen` (who wrote the tenant, which generation was pushed last)
are auxiliary: properties read them, actions do not.

### DistributionTenant: actions

A reconcile is a sequence of steps, one for each call that leaves the process,
so that everything else can happen between any two calls. What the handler
computes between two calls belongs to the step that precedes it.

| code | actions |
|---|---|
| `Reconcile`, queue | `Reconcile`, `ReconcileGone`, `AddFinalizer`, `StatusUpdate` |
| `validateSpec`, `validateCertificateSANs` | `ValidationPasses`, `ValidationFails`, `ValidationSkipped`, `SANsValidated`, `SANMismatch`, `SANsSkipped` |
| `reconcileCreate`, `reconcileDNSForCreate` | `UpsertDNS`, `PollPending`, `PollInsync`, `DNSTerminalError`, `CreateAccepted`, `CreateRefused`, `CreateInvalid` |
| `reconcileExisting` | `Get`, `GetNotFound`, `GetCertificate`, `SpecChanged`, `CertificateIssued`, `AttachCertificate`, `StillDeploying`, `SteadyState`, `CleanupOrphans` |
| `handleDrift` | `EnforceDrift`, `LeaveDrift` (policies report and suspend) |
| `reconcileUpdate`, `upsertDNSForUpdate` | `UpsertForUpdate`, `UpsertForUpdateFails`, `UpdateAccepted`, `UpdateRefused`, `UpdateInvalid` |
| `reconcileDelete`, `cleanupDNSRecords` | `GetForDelete`, `AlreadyDeleted`, `DisableAccepted`, `DisableRefused`, `DeleteAccepted`, `DeleteRefused`, `CleanupDNS`, `CleanupDNSFails`, `RemoveFinalizer` |
| `handleAWSError`, failing calls | `CallFails`, `AWSTerminalError`, `handleTerminalError` |
| around the operator | `Restart`, `WatchDeliver`, `EditSpec`, `DeleteCR`, `Deploy`, `Activate`, `DecideCertificate`, `ExternalUpdate`, `ExternalDelete` |

`CallFails` is a call that has no effect and returns an error. That a call was
executed and its answer lost needs no action of its own: it is the call's step
followed by `Restart` or by a failing status update, which loses the same
knowledge. Operators commented "Seeded fault" are the bodies of the mutants
in `PROJECT.json`; no specification uses them.

### DistributionTenant: abstractions

* `config` stands for distribution ID, parameters, web ACL and geo
  restrictions, which are pushed and compared as a whole.
* Domains are a set; `FieldSync` has lists and their order.
* `dnsChange` and `id` are "set or not set" and a count of tenants created: only
  the equality of IDs matters.
* `domainResults`, `eTag` and the certificate fields of the status are left
  out: every reconcile overwrites them before it reads them.
* All requeue delays are one timer that may fire at any moment.
* A connection group's routing endpoint is the group.
* CloudFront, Route53 and the API server are external. They are modelled from
  how the code uses them: what it checks in answers, which errors it handles,
  what its mock does. Of a certificate, "failed" stands for every end without
  one, "expired" for one that was issued and has expired or was revoked. Other
  writers change a tenant's `config` and `enabled`, or delete it; its domains and
  its certificate are left to the operator. A create is refused while a tenant of the resource
  exists, a delete unless the tenant is disabled and deployed.

### TenantLifecycle: what the reconciler promises

Four variables (`exists`, `deleting`, `finalizer`, `tenant`) and six actions say
what a user may rely on: the tenant is provisioned under a finalizer, then
recorded, and the finalizer is released only when no recorded tenant is left;
a deletion once begun is carried through. `DistributionTenant!Lifecycle`
instantiates it with `TenantStage`, computed from `aws`, `api.status.id` and nothing
else. `ImplementsLifecycle` is the whole of it, fairness included: calls, caches,
retries, failures and restarts are stutters or lifecycle steps. The abstract
`Release` allows an *unrecorded* tenant, because the code does (finding 1).

### TenantSource

| variable | stands for |
|---|---|
| `source`, `due` | the stored TenantSource; its key is queued or on a timer |
| `table` | the rows |
| `tenants`, `cached` | the stored DistributionTenants, the informer's copies |
| `pc`, `obj`, `todo`, `items`, `listed`, `sr` | the next call, the worker's copy of the source, what the loop has left, the answers of scan and list, the `syncResult` |
| `current` | which copies are at the latest version |
| `events` | what `MaxEvents` counts |

| code | actions |
|---|---|
| `Reconcile` | `Reconcile`, `ReconcileGone`, `AddFinalizer`, `List`, `EndSync` |
| `resolveBackend`, `handleScanError`, `ScanTenants` | `InvalidConfig`, `ScanPage`, `ScanFails`, `StatusUpdate` |
| `syncTenants`, first loop | `SyncItem`: `SyncConflict`, `SyncEqual`, `SyncPlanned`, `SyncUpdate`, `SyncCreate`, `SyncCallFails` |
| `syncTenants`, second loop | `Prune`: `PrunePlanned`, `PruneDelete`, `PruneCallFails` |
| `reconcileDelete` | `ListForDelete`, `DeleteTenant`, `AwaitDeletion`, `RemoveFinalizer` |
| failing calls, restart | `CallFails`, `Restart` |
| users | `EditItem`, `EditSource`, `DeleteSource`, `CreateForeign`, `EditTenant`, `RemoveTenant` |
| tenant controller, Kubernetes | `Protect`, `AttachCertificate`, `Release`, `Collect`, `WatchDeliver` |

The tenant controller is present with what it writes to a resource: the
finalizer, the certificate it attaches to the spec, the release after a
deletion. This composes the two reconcilers where they meet. Abstractions:

* The plain fields of a spec are one `value`; `FieldSync` has them one by one.
* The source itself is read directly, and written with a version check; only
  the tenants are read from a lagging cache.
* A row that cannot be mapped is no row. Pages of a scan are read in any order
  and the table may change between them.
* `SetOwnerReference` sets no controller reference, so `Owns()` maps no event of a
  tenant to the source: the source learns of tenants by polling only.
* A tenant cannot be created in another namespace than the source's, for an
  owner reference does not cross namespaces.

### FieldSync

One row, its tenant and the AWS tenant; a reconcile is one step. What matters is
the data: typed DynamoDB attributes (`mapDynamoItem`), overlays on the template
(`buildTenantSpec` and its parts), the source's comparison (`tenantSpecEqual`) and
update (`applyManagedFields`), the API server's defaults and its schema as far as
it is about missing and empty values (no enums, ranges, patterns, or the region
rule for ARNs), the
conversions to CloudFront and back, the tenant controller's comparison
(`specMatchesAWS`) and its pre-flight checks (`validateSpec`, SAN matching). Lists
are sequences. DynamoDB sets, Go maps and CloudFront's lists are read in any
order, so a row has several desired specs. Lookups succeed, the drift policy is
enforce, no dry run: failures and policies are in the other modules. The shapes
of rows, templates and certificates are assumptions (`TableAssumption`,
`FieldSyncAssumption`): an attribute has any DynamoDB type, strings may be empty,
and only lists a user writes are free of duplicates.

### SharedZone

Resources whose domains overlap, with the record functions of `TenantData`. Each
resource goes through its phases (records, tenant, deletion, cleanup) in single
steps; CloudFront gives a domain to one tenant only.

## The runs

Unless said otherwise a run allows one edit of the spec, one fault (failing
call or restart), one external change of the tenant, and a deletion, each at
any point. `fields` checks for deadlock. The other runs do not: the system
stops for good once the resource, or the source, and what it made are gone.

| run | checks | distinct states |
|---|---|---|
| `lifecycle` | `TypeOK`, `ObservedMeansPushed`, `RecordedTenantNotLeaked`, `NeverForgotten`, `ImplementsLifecycle`, `OverwritesOnlyWhatItRead`, `Converges`, `DeletionCompletes`; no DNS | 252,660 |
| `managed` | `TenantHasRecords`, `DNSReadyIsTrue`, `ValidatedMeansIssued`, `CertificateAttached`; managed DNS and a managed certificate that may fail or lapse, group and TTL edited together, no external changes | 747,481 |
| `conditions` | `InvalidSpecReported`, `DriftReported`; policy `report`, specs the distribution rejects, domains outside the certificate, another TTL | 909,251 |
| `source` | `TypeOK`, `ForeignSpecKept`, `CertificateKept`, `SourceConverges`, `Settles`, `ConflictReported`, `PlanIsAccurate`, `SourceDeletionCompletes`, `NothingLeftBehind` | 303,179 |
| `fields` | `TypeOK`, `MatchIsExact`, `EqualMeansSame`, `CoverageIsExact`, `UpdateSettles`, `PushSettles`, `RowReachesAWS` | 21,337 |

What they show:

* `ObservedMeansPushed`: `observedGeneration = generation` means that the
  recorded tenant has the content of the spec, unless others changed it.
  Every drift decision rests on this.
* `RecordedTenantNotLeaked`, `DeletionCompletes`: the finalizer holds until the
  tenant recorded in the status is deleted, and it is deleted in the end,
  through the wait for the disabled tenant's deployment.
* `NeverForgotten`: without managed certificates an existing resource is always
  queued, on a timer, in work, or about to be queued by an event that the
  predicate lets through.
* `OverwritesOnlyWhatItRead`: what the operator replaces is what it has read.
* `Converges`: when changes cease the tenant is deployed as specified and the
  status says so, also after a crash or an external deletion; the exception is
  a tenant whose ID was lost (finding 1).
* `TenantHasRecords`, `DNSReadyIsTrue`: with fixed domains, records precede the
  tenant and outlive it, and DNSReady is not claimed without them.
* `ValidatedMeansIssued`, `CertificateAttached`: a certificate requested from the
  start is reported Validated only when it was issued, and an issued one ends
  up in the tenant. It may have lapsed since: while its details cannot be read,
  the condition goes by the domains alone.
* `InvalidSpecReported`, `DriftReported`: a lasting problem is visible in the
  conditions, although the handlers return early when it is recorded already.
* `ImplementsLifecycle`: with stale caches, refused writes and restarts in
  between, nothing is created in AWS before the finalizer is stored, a
  recorded tenant stays recorded until it is gone, and the finalizer outlives
  it.
* `ForeignSpecKept`, `CertificateKept`: a sync works from a list that may be old;
  what its first loop creates and updates still reaches no tenant of others and
  loses no attached certificate. The deletions of the second loop are not
  covered (see the last of the executions below).
* `SourceConverges`, `Settles`: the tenants become what row and template ask for,
  and the polls then change nothing more, in particular not because of an
  attached certificate. Exceptions are names taken by others and labels removed.
* `ConflictReported`, `PlanIsAccurate`: Ready says Conflict while an item cannot be
  synced; the plan of a dry run ends up as exactly the missing changes.
* `SourceDeletionCompletes`, `NothingLeftBehind`: the deletion of a source ends, and
  a tenant created too late to be listed, or in reach of another
  `targetNamespace`, is collected through its owner reference.
* `MatchIsExact`, `EqualMeansSame`, `CoverageIsExact`: the comparisons of lists by
  length and membership, of nil and empty parts and of wildcard names decide
  what a definition with sets decides, on every spec and answer reached.
* `UpdateSettles`, `PushSettles`, `RowReachesAWS`: one update and one push are enough,
  so neither controller repeats itself, and CloudFront ends up with each field
  of the row, or else of the template, but for the template's certificate (see
  below).

### Disagreements between the code and what is said of it

Seven runs are expected to fail; each counterexample is an execution of the
code.

1. `leaked_tenant`: an empty `status.id` is taken for "never created in AWS". If
   the user deletes the resource between `CreateDistributionTenant` and the
   status update, the update is refused, the ID is lost, and the next
   reconcile removes the finalizer while the tenant lives on.
2. `forgotten`: after an issued certificate is attached the tenant's domains are
   not active at once. The next reconcile attaches the same ARN again; this
   changes no generation, so the predicate drops the event, and the empty
   result requeues nothing. The comment at line 682 relies on the bump. No
   status is written on this path: Ready stays Deploying and CertificateReady
   PendingValidation as they were written last. A resync keeps the generation
   and is dropped as well; only an edit, the deletion or a restart helps.
3. `orphans`: `updateStatusFromAWS` refreshes `domainResults` before
   `cleanupOrphanedDNSRecords` compares it with the spec, so in steady state
   no orphan is ever found.
4. `ttl`: `cleanupDNSRecords` takes the TTL from the current spec. If that is not
   the TTL the records were written with, Route53 refuses the batch on every
   retry and the finalizer stays. The run finds a deletion that starts before
   the edit is reconciled. Waiting would not help: `specMatchesAWS` does not
   compare the TTL, so an edit of it alone is never pushed and never rewrites
   the records.
5. `source_delete`: `reconcileDelete` of a source deletes every tenant with its
   label and does not ask `isOwnedBySource`, as both loops of a sync do. A
   user's tenant with a copied label is deleted with the source, although
   `crd.md:199` says the controller never modifies what it does not own.
6. `shared_zone`: records go by domain name alone. A second resource with a
   domain in service upserts the record before CloudFront refuses its tenant;
   its deletion removes the record of the first one's domain.
7. `drift_overwritten`: a spec change is pushed and its status written, but the
   cache still shows the status before. Others change the tenant now, and the
   next reconcile compares the generation with that old `observedGeneration`:
   it takes the drift for a spec change and overwrites it with what was pushed
   already. `drift-detection.md:20` calls this case drift, which `report` and
   `suspend` promise to leave alone. The run has the policy `suspend`; with
   `report` it finds the same execution. A creation is not exposed to this: its
   generation is recorded together with the ID. The passing runs explore the
   policies enforce and report.

More executions, met with TLC while modelling, limit the passing runs:

* `spec.domains` edited while `dnsChangeId` is set: the old change is polled and
  the tenant is created with domains that have no record. Hence the fixed
  domains of `managed`.
* `connectionGroupId` edited: `upsertDNSForUpdate` keeps the target in the
  status, and the records point to the old group's endpoint. Hence
  `DNSReadyIsTrue` speaks of the recorded target.
* `connectionGroupId` edited, and others delete the tenant: the re-creation
  writes the records for the new group while the status has the old target
  and DNSReady is still true. Hence `FixedTarget` in the proof about DNSReady.
* A deletion between the Route53 upsert and the status update: `dnsTarget` is
  lost and the records stay.
* `managedCertificateRequest` added to an existing tenant is not part of the
  comparison, is never sent, and is reported Validated because the domains
  are active. Hence every spec of `managed` has the request.
* `targetNamespace` other than the source's own: nothing is ever created, and the
  error is reported as Conflict (`tenantsource_types.go:55` offers the field
  without a word about it). Hence `SourceConverges` speaks of the own namespace.
* A user removes the label of an owned tenant: it is not listed any more, the
  conflict check lets it pass as owned, the creation fails with AlreadyExists
  on every poll; a dry run plans "create". Hence `Blocked`.
* The certificate of a template (`customizations.certificate`), which `crd.md:140`
  lists among the defaults and line 132 puts behind the item's, is read by no
  handler: a row without a certificate of its own gets a tenant without one.
  `FieldSync` has such a template; `RowReachesAWS` excepts the field, and says
  in its place that no certificate appears that nobody asked for.
* An issued certificate expires or is revoked, and `GetManagedCertificateDetails`
  fails: the fallback reports Validated as long as the domains are active.
  Hence `ValidatedMeansIssued` says "was issued".
* The errors of a dry run are dropped: a conflict is neither planned nor
  reported.
* A row loses its explicit certificate and gets a managed request: the explicit
  ARN is kept as if it had been attached. `SameSpec` and `AsSpecified` allow it.
* DNS turned on without a TTL: the API server stores 300, the desired spec has
  nil, and `dnsConfigEqual` makes every poll update the tenant. `UpdateSettles`
  excepts it.
* `tagsEqual` reads a missing key as nil, which equals a tag without a value.
  `EqualMeansSame` excepts it. Edits of tags are never sent to CloudFront:
  `buildUpdateInput` has none.
* `parametersEqual` reads a missing key as "". A row whose parameter is empty,
  which the API server would reject, passes for equal if the number of
  parameters is the same, and the error is not reported. `EqualMeansSame`
  excepts it.
* The default of `primaryDomainName` is the first domain read; should DynamoDB
  return a set in another order, the request differs and the tenant is updated.
* A row that cannot be mapped counts as removed: its tenant is deleted.
* `Delete` in a sync is not bound to the version listed: a tenant a user replaced
  in between is deleted.

### Bounds

The faults and interleavings of interest need one disturbance at a chosen
point: between a call and the write that records it, between a read and the
write based on it. One edit gives two generations, hence a stale copy, a
superseded object and an unobserved generation; one external change gives
drift and a lost ETag; one fault stops or fails any call. They combine: the
`lifecycle` run has an edit, a fault, an external change and a deletion in one
execution. Requeues and polls are not bounded. Two domains, two groups,
two TTLs and two configs are enough to differ. The proofs hold for all bounds.

`source` has two names. Users, failing calls and restarts share a budget of two
events (`MaxEvents`), the deletion of the source comes on top. `Meddled` are the
names users work on. The second name is free, or has a row whose tenant
existed before the run, so that loops over two tenants, lists and deletions of
several happen; such a beginning counts as one event. `FirstSpecs` are the
initial specs (dry run or not), `SourceSpecs` those an edit may give: another
template value, no managed certificates, another namespace, no configuration.

`fields` has eleven rows and three templates, chosen for missing, empty and mistyped
attributes, two domains, explicit certificates and partial overlays, and two
changes (`MaxChanges`) of row, template or AWS tenant, each possibly to any other
row's content.

### Fairness

`FairSpec` assumes weak fairness of the worker, of watch delivery, and of
CloudFront's deployment and activation, which finish on their own. A timer is
part of the worker's fairness: controller-runtime fires every `RequeueAfter` and
backoff. Strong fairness of `PollInsync` says that a Route53 change polled
again and again is in sync at last. Nothing is assumed of users, other
writers, faults or the validation of certificates. Weak fairness of the
worker as a whole is enough, since it has one call to make at a time.

`TenantSource` assumes the same of its worker and of watch delivery, of the tenant
controller that it finishes a deletion (`Release`, which `DeletionCompletes`
shows), and of the garbage collector. `FieldSync` assumes that both controllers
come back (`Sync`, `Push`): a source is polled, a tenant requeued.

## The proofs

All theorems hold for every set of specs, domains, groups, configs, names, rows and
templates, every policy and every bound. They rest on the named assumptions about
the constants only, which TLC evaluates in the runs: `TenantDataAssumption`,
`RecordAssumption` (nil is not a record), `PolicyAssumption`, `BoundsAssumption`;
`SourceDataAssumption`, `SourceAssumption`; `FieldSyncAssumption`,
`TableAssumption`, `NilAssumption`. Four theorems have a hypothesis of their own,
named below. There is one lemma per group of actions, under it one step per
action, and lemmas for the common ends of a handler (`Done`, `SetStatus`, `Write`,
`handleTerminalError`).

`DistributionTenantProofs`:

* `TypeCorrect`: `Spec => []TypeOK`. `TypeOK` is not inductive: the steps that write
  records take `spec.ttl`, which must not be nil. `TypeInv` adds `DNSConfigured`,
  that these steps are reached with a DNS block only.
* `ObservedGenerationCorrect`: `Spec => []ObservedMeansPushed`. A status update can
  vouch for the wrong content in many ways, and the inductive invariant
  `ObservedInv` excludes each:
  * `CopiesInv`: a cache in `current` is the stored resource, and an object in
    `current` has the stored generation;
  * `GenerationInv`: the worker's generation is at most the cached one and that
    at most the stored one; no copy has observed more than it has seen;
  * `SpecInv`: copies with equal generations have equal specs;
  * `IdInv`: no status records an ID that CloudFront has not handed out, so a
    new tenant is recorded nowhere until its status is written;
  * `DeletingInv`: an object in deletion has an unobserved generation, so the
    content written by the disabling update contradicts nothing;
  * `ReplyInv`: an answer that still describes the tenant has the content it had
    when it was read;
  * `ObjectInv`: the property for the status the worker is about to write.

`LifecycleProofs` adds `LifecycleInv`: a resource in deletion has its finalizer
(`FinalizerInv`); it is stored while a tenant is recorded or a copy shows it with
no deletion (`HeldInv`, which needs what the cache has shown, for the worker acts
on the cache); and the worker looks up, records and gives up the ID that is
stored (`IdentityInv`: past the deletion of the tenant the stored ID names none).
From it follow

* `RecordedTenantHeld`: `Spec => []RecordedTenantNotLeaked`, and
* `LifecycleRefinement`: `Spec => Lifecycle!Safety`, every step mapped to a step of
  `TenantLifecycle` or to a stutter.

`WorkerProofs`:

* `OverwriteIsInformed`: `Spec => OverwritesOnlyWhatItRead`, from `AnswerInv`: as long
  as the ETag read is the tenant's, so is the content read.
* `UnmanagedNeverForgotten`: `NeverForgotten` if no spec requests a managed
  certificate (`Unmanaged`). With such requests it is false (run `forgotten`); the
  lemma `OnlyAttachingForgets` shows that `AttachCertificate` is the only step that
  can forget a resource.

`CertificateProofs`:

* `ValidatedIsTrue`: `ValidatedMeansIssued` if every spec requests a managed
  certificate (`AlwaysManaged`), lapses included. A request added later is never sent and is
  reported Validated, so the hypothesis is needed. `IssuedInv` relates what the
  worker has read of the certificate to the tenant it has read it of, since the
  tenant may be gone when the condition is written.

`DNSProofs`:

* `OrphanCleanupIsVoid`: no step removes records by `CleanupOrphans`: the steady state
  is reached only when AWS has the domains of the spec, so the difference is
  empty. This is the cause of the finding of `orphans`, on every instance.
* `TenantKeepsRecords`: `TenantHasRecords` if all specs have DNS and the same domains
  (`FixedDomains`). `ConfiguredInv` says that every copy of the spec and every
  batch agree on them, `RecordsInv` that a tenant, an ID in any copy of the
  status and every step after the upsert are backed by records.
* `DNSReadyTellsTheTruth`: `DNSReadyIsTrue` if also the connection group stays
  (`FixedTarget`). Without either hypothesis TLC finds an execution (see above).

`TenantSourceProofs`:

* `SourceTypeCorrect`: `Spec => []TypeOK`.
* `ForeignTenantsSafe`, `AttachedCertificateSurvives`: `ForeignSpecKept` and
  `CertificateKept`. A sync decides on a listed copy and a cached one; `CopiesInv`
  says that a copy in `current`, the only kind the API server accepts a write for,
  is the stored tenant.

`FieldSyncProofs`, from the inductive invariant `FieldInv`, which says that a stored
spec and an answer have the shape the comparisons take for granted: lists without
duplicates, names once, no empty parameter value, no customizations without
content, a TTL:

* `FieldTypeCorrect`: `Spec => []TypeOK`;
* `ComparisonExact`: `MatchIsExact`; equal length and one inclusion decide equality of
  lists without duplicates (`SameMembers`), one lookup per name that of entries
  none of which has the value a missing name reads as (`SameEntries`);
* `NoEditOverlooked`: `EqualMeansSame`, by the same two lemmas;
* `UpdatesSettle`, `PushesSettle`: `UpdateSettles` and `PushSettles`; what is written
  or sent, in whatever order it comes back, is equal to its own comparison;
* `PreflightExact`: `CoverageIsExact`, label by label (`NameCovers`).

Only model-checked are: liveness under fairness (`Converges`, `DeletionCompletes`,
`CertificateAttached`, `InvalidSpecReported`, `DriftReported`, `SourceConverges`,
`Settles`, `ConflictReported`, `PlanIsAccurate`, `SourceDeletionCompletes`,
`NothingLeftBehind`, `RowReachesAWS`) and with it the fairness of `TenantLifecycle`,
which are out of the prover's reach. What the expected violations are about is
false.

## Not modelled, and why

* The table from AWS error codes to classes (`errors.go`, `classifyDynamoDBError`): a
  switch over strings without state; its classes are the alternatives of the
  steps that meet them.
* Comparison and conversion of every optional field by a variable of its own:
  `zone` and `host` in `FieldSync` stand for fields that are treated alike.
* Duplicates in lists a user writes into a template or a tenant.
* The effects of a Route53 change ID that expires, and of a payload that
  disables a tenant without its parameters: the services decide them.
* Metrics, start-up, mocks, generated code: no influence on the behaviour
  beyond the constants and `Restart`.
* Events, logs and messages of conditions, except that `ready.at` keeps the
  failed call the message names, on which `conditionMatches` depends.

## Plan

1. Done: `TenantData`, `DistributionTenant`, its runs, `TypeCorrect` and
   `ObservedGenerationCorrect`.
2. Done: `TenantLifecycle` and the refinement, `TenantSource` with the tenant
   controller's writes to the spec, `FieldSync`, `SharedZone`.
3. Done: the proofs of the safety properties of `DistributionTenant`,
   `TenantSource` and `FieldSync`, and of the safety part of the refinement.
4. Next: `DNSReadyIsTrue` without `FixedTarget` where nobody else deletes the
   tenant; `DriftLeftAlone` under the hypothesis that the cache shows the
   operator's own last write.
