-------------------------- MODULE DistributionTenant --------------------------
(***************************************************************************)
(* The reconciler of one DistributionTenant resource, with everything its  *)
(* calls interleave with: users who edit and delete the resource, the      *)
(* Kubernetes API server and the informer cache the reconciler reads, its  *)
(* work queue, CloudFront, Route53, other writers of the CloudFront        *)
(* tenant, failing calls and restarts of the operator.                     *)
(*                                                                         *)
(* A reconcile is a sequence of steps, one for each call that leaves the   *)
(* process; `pc' names the call the worker is about to make.  The work     *)
(* queue never runs one key twice at a time, so there is one worker.       *)
(***************************************************************************)
EXTENDS TenantData

CONSTANTS
  Policy,        \* the operator's drift policy
  MaxEdits,      \* bound: spec edits by users
  MaxFaults,     \* bound: failing calls and restarts
  MaxExternals   \* bound: changes of the AWS tenant by others

ASSUME PolicyAssumption == Policy \in {"enforce", "report", "suspend"}
ASSUME BoundsAssumption ==
  MaxEdits \in Nat /\ MaxFaults \in Nat /\ MaxExternals \in Nat

VARIABLES
  \* Kubernetes
  api,       \* the stored resource
  cache,     \* the informer's copy, which the reconciler reads
  current,   \* the copies that are still at the latest version (see Copies)
  queued,    \* the key is in the work queue
  timer,     \* the key is to be added again later (RequeueAfter, backoff)
  \* the worker
  pc, obj,   \* the next call, and the reconciler's copy of the resource
  got,       \* the answer of GetDistributionTenant
  details,   \* the certificate status answered, "none" for a nil answer
  \* AWS
  aws,       \* the CloudFront tenant
  cert,      \* its managed certificate
  zone,      \* the Route53 records
  \* bounds
  edits, faults, externals

k8s    == <<api, cache, queued, timer>>
worker == <<pc, obj, got, details>>
bounds == <<edits, faults, externals>>
vars   == <<k8s, current, worker, aws, cert, zone, bounds>>

(* A write that carries a resourceVersion or an ETag is accepted only when *)
(* the copy it is based on is still the latest.  Instead of counting the   *)
(* versions, `current' holds the copies whose version is the stored one:   *)
(* the cache and the worker's object against the API server, the worker's  *)
(* answer (its ETag) against CloudFront.                                   *)
Copies == {"cache", "object", "reply"}

Steps ==
  {"idle", "AddFinalizer", "Validate", "ValidateSANs", "PollDNS",
   "UpsertDNS", "Create", "StatusUpdate", "Get", "GetCertificate", "Detect",
   "UpsertForUpdate", "Update", "AttachCertificate", "CleanupOrphans",
   "GetForDelete", "Disable", "Delete", "CleanupDNS", "RemoveFinalizer"}

(* "failed" stands for every end without a certificate, "expired" for the  *)
(* end of an issued one: the code treats them alike.                       *)
CertStates == {"none", "pending-validation", "issued", "failed", "expired"}
EverIssued == {"issued", "expired"}

ReadyReasons ==
  {"", "Creating", "Deploying", "Deployed", "Disabling", "ValidationFailed",
   "CertificateSANMismatch", "DomainValidationPending", "DomainConflict",
   "AccessDenied", "InvalidSpec", "DNSError"}
SyncedReasons ==
  {"", "InSync", "UpdatePending", "DriftDetected", "ValidationFailed",
   "DomainConflict", "AccessDenied", "InvalidSpec"}
DNSReasons ==
  {"", "DNSReady", "DNSNotConfigured", "DNSPropagating", "DNSError"}
CertReasons ==
  {"", "NotConfigured", "Validated", "Attaching", "PendingValidation",
   "CertificateFailed"}

(* Ready keeps the failed call (`at', which the condition's message names) *)
(* and its observedGeneration, for conditionMatches.  domainResults, eTag  *)
(* and the certificate fields of the status are left out: a reconcile      *)
(* overwrites them before it reads them.                                   *)
StatusType ==
  [id        : Nat,                     \* 0 is the empty string
   obs       : Nat,                     \* observedGeneration
   dnsChange : BOOLEAN,                 \* dnsChangeId is set
   target    : Groups \cup {None},      \* dnsTarget
   ready     : [reason : ReadyReasons, at : Steps, gen : Nat],
   synced    : SyncedReasons,
   dns       : DNSReasons,
   certReady : CertReasons,
   drift     : BOOLEAN]                 \* driftDetected

ObjectType ==
  [exists : BOOLEAN, deleting : BOOLEAN, finalizer : BOOLEAN,
   gen : Nat, spec : SpecType, st : StatusType]

AwsType ==
  [exists : BOOLEAN, id : Nat,          \* id: of the latest tenant created
   by : {"operator", "external"},       \* who wrote cfg (auxiliary)
   gen : Nat,                           \* generation last pushed (auxiliary)
   cfg : CfgType, deployed : BOOLEAN,
   active : BOOLEAN]                    \* every domain is "active"

ReplyType == [cfg : CfgType, deployed : BOOLEAN, active : BOOLEAN]

NewStatus ==
  [id |-> 0, obs |-> 0, dnsChange |-> FALSE, target |-> None,
   ready |-> [reason |-> "", at |-> "idle", gen |-> 0],
   synced |-> "", dns |-> "", certReady |-> "", drift |-> FALSE]

(* What the worker holds between two reconciles, and AWS before the first  *)
(* create: values no step looks at.                                        *)
NoSpec ==
  [domains |-> Domains, group |-> None, config |-> BareConfig,
   enabled |-> FALSE, ttl |-> None, managed |-> "none", cert |-> FALSE]
NoObject ==
  [exists |-> FALSE, deleting |-> FALSE, finalizer |-> FALSE,
   gen |-> 0, spec |-> NoSpec, st |-> NewStatus]
NoReply ==
  [cfg |-> disableInput(NoSpec), deployed |-> FALSE, active |-> FALSE]
NoTenant(id) ==
  [exists |-> FALSE, id |-> id, by |-> "operator", gen |-> 0,
   cfg |-> disableInput(NoSpec), deployed |-> FALSE, active |-> FALSE]

TypeOK ==
  /\ api \in ObjectType
  /\ cache \in ObjectType
  /\ current \subseteq Copies
  /\ queued \in BOOLEAN /\ timer \in BOOLEAN
  /\ pc \in Steps
  /\ obj \in ObjectType
  /\ got \in ReplyType
  /\ details \in CertStates
  /\ aws \in AwsType
  /\ cert \in CertStates
  /\ zone \in ZoneType
  /\ edits \in Nat /\ faults \in Nat /\ externals \in Nat

(* The operator is up and the resource has just been created.              *)
Init ==
  /\ \E s \in Specs :
       api = [exists |-> TRUE, deleting |-> FALSE, finalizer |-> FALSE,
              gen |-> 1, spec |-> s, st |-> NewStatus]
  /\ cache = api /\ current = {"cache"}
  /\ queued = TRUE /\ timer = FALSE
  /\ pc = "idle" /\ obj = NoObject /\ got = NoReply /\ details = "none"
  /\ aws = NoTenant(0) /\ cert = "none"
  /\ zone = [d \in Domains |-> None]
  /\ edits = 0 /\ faults = 0 /\ externals = 0

-----------------------------------------------------------------------------
(* How a reconcile goes on, and how it ends.                               *)

Goto(step) == pc' = step /\ UNCHANGED <<k8s, current, got, details>>

(* Status().Update is the last call of every path that sets the status.    *)
SetStatus(st) == obj' = [obj EXCEPT !.st = st] /\ Goto("StatusUpdate")

(* The handler returns; `again' when the result or an error requeues.      *)
Return(again) ==
  /\ pc' = "idle" /\ obj' = NoObject /\ got' = NoReply /\ details' = "none"
  /\ timer' = (timer \/ again)
  /\ UNCHANGED <<cache, queued>>

(* It returns without a write to the API server.                           *)
Done(again) ==
  /\ Return(again)
  /\ current' = current \ {"object", "reply"}
  /\ UNCHANGED api

WriteAccepted == "object" \in current
(* Seeded fault: the ETag is not sent.                                     *)
NoIfMatch == aws.exists

IfMatchHolds  == "reply" \in current

(* Update and Status().Update: refused with a conflict when the object is  *)
(* not the stored version; after a success every other copy is outdated.   *)
Write(new, again) ==
  IF WriteAccepted
    THEN api' = new /\ current' = {} /\ Return(again)
    ELSE Done(TRUE)

Condition(reason) == [reason |-> reason, at |-> "idle", gen |-> obj.gen]

(* The same failure was already recorded for this generation.              *)
conditionMatches(reason) ==
  obj.st.ready = [reason |-> reason, at |-> pc, gen |-> obj.gen]

(* Seeded fault: a failed call also records the generation as observed.    *)
ObservedOnError(reason) ==
  SetStatus([obj.st EXCEPT
    !.ready = [reason |-> reason, at |-> pc, gen |-> obj.gen],
    !.synced = reason, !.obs = obj.gen])

handleTerminalError(reason) ==
  IF conditionMatches(reason)
    THEN Done(TRUE)
    ELSE SetStatus([obj.st EXCEPT
           !.ready = [reason |-> reason, at |-> pc, gen |-> obj.gen],
           !.synced = reason])

allDomainsActive == got.active

(* Seeded fault: an unknown certificate counts as validated.               *)
OptimisticCertificate(spec, status, active) ==
  CASE spec.managed = "none"                              -> "NotConfigured"
    [] spec.managed # "none" /\ status \in {"issued", "none"} -> "Validated"
    [] spec.managed # "none" /\ status \notin {"issued", "none"}
                                                      -> "PendingValidation"

(* updateCertificateCondition: the reason it sets, from the certificate    *)
(* status answered (or "none") and the domains' state.                     *)
CertificateCondition(spec, status, active) ==
  CASE spec.managed = "none"              -> "NotConfigured"
    [] spec.managed # "none" /\ status \in {"failed", "expired"}
                                          -> "CertificateFailed"
    [] spec.managed # "none" /\ status = "pending-validation"
                                          -> "PendingValidation"
    [] spec.managed # "none" /\ status = "issued" ->
         IF active THEN "Validated" ELSE "Attaching"
    [] spec.managed # "none" /\ status = "none" ->
         IF active THEN "Validated" ELSE "PendingValidation"

updateDNSCondition(spec, st) ==
  IF spec.ttl = None THEN "DNSNotConfigured"
  ELSE IF st.target # None THEN "DNSReady" ELSE st.dns

-----------------------------------------------------------------------------
(* Reconcile: the entry of the handler.                                    *)

(* Seeded fault: creation does not wait for the finalizer.                 *)
EntryWithoutFinalizer(o) ==
  CASE o.deleting /\ o.st.id = 0     -> "CleanupDNS"
    [] o.deleting /\ o.st.id # 0     -> "GetForDelete"
    [] ~o.deleting /\ o.st.id = 0    -> "Validate"
    [] ~o.deleting /\ o.st.id # 0    ->
         IF o.finalizer THEN "Get" ELSE "AddFinalizer"

Entry(o) ==
  CASE o.deleting /\ o.st.id = 0     -> "CleanupDNS"
    [] o.deleting /\ o.st.id # 0     -> "GetForDelete"
    [] ~o.deleting /\ ~o.finalizer   -> "AddFinalizer"
    [] ~o.deleting /\ o.finalizer /\ o.st.id = 0 -> "Validate"
    [] ~o.deleting /\ o.finalizer /\ o.st.id # 0 -> "Get"

(* The queue hands the key out; a timer that fires adds it first.          *)
Dequeue ==
  /\ pc = "idle"
  /\ \/ queued /\ UNCHANGED timer
     \/ timer /\ timer' = FALSE
  /\ queued' = FALSE

Reconcile ==
  /\ Dequeue /\ cache.exists
  /\ obj' = cache /\ pc' = Entry(cache)
  /\ current' = IF "cache" \in current THEN current \cup {"object"} ELSE current
  /\ UNCHANGED <<api, cache, got, details, aws, cert, zone, bounds>>

ReconcileGone ==
  /\ Dequeue /\ ~cache.exists
  /\ UNCHANGED <<api, cache, current, worker, aws, cert, zone, bounds>>

AddFinalizer ==
  /\ pc = "AddFinalizer"
  /\ Write([api EXCEPT !.finalizer = TRUE], TRUE)
  /\ UNCHANGED <<aws, cert, zone, bounds>>

(* Seeded fault: an empty result after the status is written.              *)
StatusUpdateNoRequeue ==
  /\ pc = "StatusUpdate"
  /\ Write([api EXCEPT !.st = obj.st], FALSE)
  /\ UNCHANGED <<aws, cert, zone, bounds>>

StatusUpdate ==
  /\ pc = "StatusUpdate"
  /\ Write([api EXCEPT !.st = obj.st], TRUE)
  /\ UNCHANGED <<aws, cert, zone, bounds>>

-----------------------------------------------------------------------------
(* Seeded fault: the tenant is created before its records.                 *)
TenantFirst(o) ==
  IF o.st.id = 0 THEN "Create"
  ELSE IF o.spec.ttl = None THEN "Update" ELSE "UpsertForUpdate"

(* validateSpec and reconcileCreate.                                       *)

AfterValidation(o) ==
  CASE o.st.id # 0 /\ o.spec.ttl = None  -> "Update"
    [] o.st.id # 0 /\ o.spec.ttl # None  -> "UpsertForUpdate"
    [] o.st.id = 0 /\ o.spec.ttl = None  -> "Create"
    [] o.st.id = 0 /\ o.spec.ttl # None  ->
         IF o.st.dnsChange THEN "PollDNS"
         ELSE IF o.spec.managed = "none" THEN "ValidateSANs" ELSE "UpsertDNS"

GoAhead ==
  /\ Goto(AfterValidation(obj))
  /\ obj' = IF AfterValidation(obj) = "Create"
              THEN [obj EXCEPT !.st.dns = "DNSNotConfigured"] ELSE obj

ValidationPasses ==
  /\ pc = "Validate" /\ SpecAccepted(obj.spec)
  /\ GoAhead
  /\ UNCHANGED <<aws, cert, zone, bounds>>

(* The distribution cannot be read: the check is skipped.                  *)
ValidationSkipped ==
  /\ pc = "Validate" /\ ~SpecAccepted(obj.spec)
  /\ faults < MaxFaults /\ faults' = faults + 1
  /\ GoAhead
  /\ UNCHANGED <<aws, cert, zone, edits, externals>>

(* Seeded fault: a rejected spec is retried without a word.                *)
ValidationFailsSilently ==
  /\ pc = "Validate" /\ ~SpecAccepted(obj.spec)
  /\ Done(TRUE)
  /\ UNCHANGED <<aws, cert, zone, bounds>>

ValidationFails ==
  /\ pc = "Validate" /\ ~SpecAccepted(obj.spec)
  /\ handleTerminalError("ValidationFailed")
  /\ UNCHANGED <<aws, cert, zone, bounds>>

SANsValidated ==
  /\ pc = "ValidateSANs" /\ SANsCover(obj.spec)
  /\ Goto("UpsertDNS")
  /\ UNCHANGED <<obj, aws, cert, zone, bounds>>

(* ACM or the distribution cannot be read: the check is skipped.           *)
SANsSkipped ==
  /\ pc = "ValidateSANs" /\ ~SANsCover(obj.spec)
  /\ faults < MaxFaults /\ faults' = faults + 1
  /\ Goto("UpsertDNS")
  /\ UNCHANGED <<obj, aws, cert, zone, edits, externals>>

SANMismatch ==
  /\ pc = "ValidateSANs" /\ ~SANsCover(obj.spec)
  /\ SetStatus([obj.st EXCEPT !.ready = Condition("CertificateSANMismatch")])
  /\ UNCHANGED <<aws, cert, zone, bounds>>

UpsertDNS ==
  /\ pc = "UpsertDNS"
  /\ LET target == resolveCNAMETarget(obj.spec) IN
       /\ zone' = UpsertCNAMERecords(zone,
                    Batch(obj.spec.domains, target, obj.spec.ttl))
       /\ SetStatus([obj.st EXCEPT !.dnsChange = TRUE, !.target = target,
                                   !.dns = "DNSPropagating"])
  /\ UNCHANGED <<aws, cert, bounds>>

PollPending ==
  /\ pc = "PollDNS"
  /\ SetStatus([obj.st EXCEPT !.dns = "DNSPropagating"])
  /\ UNCHANGED <<aws, cert, zone, bounds>>

PollInsync ==
  /\ pc = "PollDNS"
  /\ obj' = [obj EXCEPT !.st.dns = "DNSReady"] /\ Goto("Create")
  /\ UNCHANGED <<aws, cert, zone, bounds>>

(* handleDNSError, terminal: access denied, no such zone, no such group.   *)
DNSTerminalError ==
  /\ pc \in {"UpsertDNS", "PollDNS"}
  /\ faults < MaxFaults /\ faults' = faults + 1
  /\ SetStatus([obj.st EXCEPT !.dns = "DNSError",
                              !.ready = Condition("DNSError")])
  /\ UNCHANGED <<aws, cert, zone, edits, externals>>

StatusAfterCreate(id) ==
  [obj.st EXCEPT
     !.id = id, !.obs = obj.gen, !.dnsChange = FALSE,
     !.ready = Condition("Creating"), !.synced = "InSync",
     !.certReady = CertificateCondition(obj.spec, "none",
                                        obj.spec.managed = "none")]

CreateAccepted ==
  /\ pc = "Create" /\ ~aws.exists /\ SpecAccepted(obj.spec)
  /\ aws' = [exists |-> TRUE, id |-> aws.id + 1, by |-> "operator",
             gen |-> obj.gen, cfg |-> buildInput(obj.spec),
             deployed |-> FALSE, active |-> obj.spec.managed = "none"]
  /\ cert' = IF obj.spec.managed = "none" THEN "none" ELSE "pending-validation"
  /\ SetStatus(StatusAfterCreate(aws.id + 1))
  /\ UNCHANGED <<zone, bounds>>

(* A tenant of this name exists: its domains are taken (terminal), or the  *)
(* name is (a code the client does not classify, hence retried).           *)
CreateRefused ==
  /\ pc = "Create" /\ aws.exists
  /\ \/ /\ obj.spec.domains \cap aws.cfg.domains # {}
        /\ handleTerminalError("DomainConflict")
     \/ Done(TRUE)
  /\ UNCHANGED <<aws, cert, zone, bounds>>

(* InvalidArgument for a spec CloudFront rejects, or (cloudfront-hosted    *)
(* validation) because the CNAMEs are not resolvable everywhere yet.       *)
CreateInvalid ==
  /\ pc = "Create" /\ ~aws.exists
  /\ \/ ~SpecAccepted(obj.spec) /\ UNCHANGED faults
     \/ /\ obj.spec.managed = "cloudfront"
        /\ faults < MaxFaults /\ faults' = faults + 1
  /\ IF obj.spec.managed = "cloudfront"
       THEN SetStatus([obj.st EXCEPT
                         !.ready = Condition("DomainValidationPending")])
       ELSE handleTerminalError("InvalidSpec")
  /\ UNCHANGED <<aws, cert, zone, edits, externals>>

-----------------------------------------------------------------------------
(* reconcileExisting, reconcileUpdate and handleDrift.                     *)

TenantFound == aws.exists /\ aws.id = obj.st.id

Answer ==
  /\ got' = [cfg |-> aws.cfg, deployed |-> aws.deployed, active |-> aws.active]
  /\ current' = current \cup {"reply"}

Get ==
  /\ pc = "Get" /\ TenantFound
  /\ Answer
  /\ pc' = IF obj.spec.managed = "none" THEN "Detect" ELSE "GetCertificate"
  /\ UNCHANGED <<k8s, obj, details, aws, cert, zone, bounds>>

(* Seeded fault: the ID of a tenant deleted by others is kept.             *)
GetNotFoundKeepsID ==
  /\ pc = "Get" /\ ~TenantFound
  /\ SetStatus([obj.st EXCEPT !.ready = Condition("Creating")])
  /\ UNCHANGED <<aws, cert, zone, bounds>>

GetNotFound ==
  /\ pc = "Get" /\ ~TenantFound
  /\ SetStatus([obj.st EXCEPT !.id = 0, !.ready = Condition("Creating")])
  /\ UNCHANGED <<aws, cert, zone, bounds>>

(* The answer, or nil after a failure the handler only logs.               *)
GetCertificate ==
  /\ pc = "GetCertificate"
  /\ pc' = "Detect"
  /\ \/ details' = cert /\ UNCHANGED faults
     \/ /\ details' = "none"
        /\ faults < MaxFaults /\ faults' = faults + 1
  /\ UNCHANGED <<k8s, current, obj, got, aws, cert, zone, edits, externals>>

Change == detectChanges(obj.spec, obj.gen, obj.st.obs, got.cfg)

SpecChanged ==
  /\ pc = "Detect" /\ Change = "spec"
  /\ Goto("Validate")
  /\ UNCHANGED <<obj, aws, cert, zone, bounds>>

EnforceDrift ==
  /\ pc = "Detect" /\ Change = "drift" /\ Policy = "enforce"
  /\ obj' = [obj EXCEPT !.st.drift = TRUE] /\ Goto("Update")
  /\ UNCHANGED <<aws, cert, zone, bounds>>

(* Seeded fault: the Synced condition is left as it was.                   *)
LeaveDriftSilently ==
  /\ pc = "Detect" /\ Change = "drift" /\ Policy # "enforce"
  /\ SetStatus([obj.st EXCEPT !.drift = TRUE])
  /\ UNCHANGED <<aws, cert, zone, bounds>>

(* "suspend" notes the drift, "report" makes it a condition.               *)
LeaveDrift ==
  /\ pc = "Detect" /\ Change = "drift" /\ Policy # "enforce"
  /\ SetStatus([obj.st EXCEPT
       !.drift = TRUE, !.synced = IF Policy = "suspend" THEN @ ELSE "DriftDetected"])
  /\ UNCHANGED <<aws, cert, zone, bounds>>

(* Seeded fault: the test of the domains is inverted.                      *)
AttachToActive == details = "issued" /\ allDomainsActive

CertificateToAttach == details = "issued" /\ ~allDomainsActive

(* The ARN of an issued certificate goes into the spec, by r.Update.       *)
CertificateIssued ==
  /\ pc = "Detect" /\ Change = "none" /\ CertificateToAttach
  /\ obj' = [obj EXCEPT !.spec.cert = TRUE] /\ Goto("AttachCertificate")
  /\ UNCHANGED <<aws, cert, zone, bounds>>

(* r.Update writes spec and metadata; a spec that does not change keeps    *)
(* its generation.  The handler returns an empty result.                   *)
AttachCertificate ==
  /\ pc = "AttachCertificate"
  /\ Write([api EXCEPT !.spec = obj.spec,
                       !.gen = IF obj.spec = api.spec THEN @ ELSE @ + 1], FALSE)
  /\ UNCHANGED <<aws, cert, zone, bounds>>

StillDeploying ==
  /\ pc = "Detect" /\ Change = "none" /\ ~CertificateToAttach /\ ~got.deployed
  /\ SetStatus([obj.st EXCEPT
       !.obs = obj.gen, !.ready = Condition("Deploying"), !.synced = "InSync",
       !.certReady = CertificateCondition(obj.spec, details, allDomainsActive)])
  /\ UNCHANGED <<aws, cert, zone, bounds>>

SteadyState ==
  /\ pc = "Detect" /\ Change = "none" /\ ~CertificateToAttach /\ got.deployed
  /\ obj' = [obj EXCEPT !.st = [obj.st EXCEPT
       !.obs = obj.gen, !.ready = Condition("Deployed"), !.synced = "InSync",
       !.drift = FALSE, !.dns = updateDNSCondition(obj.spec, obj.st),
       !.certReady = CertificateCondition(obj.spec, details, allDomainsActive)]]
  /\ Goto(IF obj.spec.ttl = None THEN "StatusUpdate" ELSE "CleanupOrphans")
  /\ UNCHANGED <<aws, cert, zone, bounds>>

(* Seeded fault: the test of membership in the spec is missing.            *)
EveryDomain == IF obj.st.target = None THEN {} ELSE got.cfg.domains

(* cleanupOrphanedDNSRecords: domains in status.domainResults, which holds *)
(* the answer just read, that the spec no longer has.                      *)
Orphaned ==
  IF obj.st.target = None THEN {} ELSE got.cfg.domains \ obj.spec.domains

CleanupOrphans ==
  /\ pc = "CleanupOrphans"
  /\ zone' = DeleteCNAMERecords(zone,
               Batch(Orphaned, obj.st.target, obj.spec.ttl))
  /\ Goto("StatusUpdate")
  /\ UNCHANGED <<obj, aws, cert, bounds>>

(* upsertDNSForUpdate: the target is resolved only when status has none.   *)
TargetForUpdate ==
  IF obj.st.target = None THEN resolveCNAMETarget(obj.spec) ELSE obj.st.target

UpsertForUpdate ==
  /\ pc = "UpsertForUpdate"
  /\ zone' = UpsertCNAMERecords(zone,
               Batch(obj.spec.domains, TargetForUpdate, obj.spec.ttl))
  /\ obj' = [obj EXCEPT !.st.target = TargetForUpdate] /\ Goto("Update")
  /\ UNCHANGED <<aws, cert, bounds>>

(* Resolving fails, or the upsert does once the target is in the status.   *)
UpsertForUpdateFails ==
  /\ pc = "UpsertForUpdate"
  /\ faults < MaxFaults /\ faults' = faults + 1
  /\ \E target \in {obj.st.target, TargetForUpdate} :
       SetStatus([obj.st EXCEPT !.target = target, !.dns = "DNSError"])
  /\ UNCHANGED <<aws, cert, zone, edits, externals>>

UpdateAccepted ==
  /\ pc = "Update" /\ IfMatchHolds /\ SpecAccepted(obj.spec)
  /\ aws' = [aws EXCEPT
       !.by = "operator", !.gen = obj.gen, !.cfg = buildInput(obj.spec),
       !.deployed = FALSE,
       !.active = \/ obj.spec.managed = "none"
                  \/ @ /\ obj.spec.domains \subseteq aws.cfg.domains]
  /\ cert' = IF obj.spec.managed # "none" /\ cert = "none"
               THEN "pending-validation" ELSE cert
  /\ SetStatus([obj.st EXCEPT !.obs = obj.gen, !.synced = "UpdatePending",
                              !.ready = Condition("Deploying")])
  /\ UNCHANGED <<zone, bounds>>

(* The tenant changed or went away since it was read: fetch it again.      *)
UpdateRefused ==
  /\ pc = "Update" /\ ~IfMatchHolds
  /\ Done(TRUE)
  /\ UNCHANGED <<aws, cert, zone, bounds>>

UpdateInvalid ==
  /\ pc = "Update" /\ IfMatchHolds /\ ~SpecAccepted(obj.spec)
  /\ handleTerminalError("InvalidSpec")
  /\ UNCHANGED <<aws, cert, zone, bounds>>

-----------------------------------------------------------------------------
(* reconcileDelete.                                                        *)

GetForDelete ==
  /\ pc = "GetForDelete" /\ TenantFound
  /\ Answer
  /\ pc' = IF aws.cfg.enabled THEN "Disable" ELSE "Delete"
  /\ UNCHANGED <<k8s, obj, details, aws, cert, zone, bounds>>

AlreadyDeleted ==
  /\ pc = "GetForDelete" /\ ~TenantFound
  /\ Goto("CleanupDNS")
  /\ UNCHANGED <<obj, aws, cert, zone, bounds>>

(* Seeded fault: the reason goes to the wrong condition.                   *)
DisableSetsSynced ==
  /\ pc = "Disable" /\ IfMatchHolds
  /\ aws' = [aws EXCEPT !.by = "operator", !.cfg = disableInput(obj.spec),
                        !.deployed = FALSE]
  /\ SetStatus([obj.st EXCEPT !.synced = "Disabling"])
  /\ UNCHANGED <<cert, zone, bounds>>

DisableAccepted ==
  /\ pc = "Disable" /\ IfMatchHolds
  /\ aws' = [aws EXCEPT !.by = "operator", !.cfg = disableInput(obj.spec),
                        !.deployed = FALSE]
  /\ SetStatus([obj.st EXCEPT !.ready = Condition("Disabling")])
  /\ UNCHANGED <<cert, zone, bounds>>

DisableRefused ==
  /\ pc = "Disable" /\ ~IfMatchHolds
  /\ Done(TRUE)
  /\ UNCHANGED <<aws, cert, zone, bounds>>

(* CloudFront deletes a tenant that is disabled and deployed.              *)
Deletable == ~aws.cfg.enabled /\ aws.deployed

DeleteAccepted ==
  /\ pc = "Delete" /\ IfMatchHolds /\ Deletable
  /\ aws' = NoTenant(aws.id) /\ cert' = "none"
  /\ Goto("CleanupDNS")
  /\ UNCHANGED <<obj, zone, bounds>>

(* Seeded fault: a refused deletion passes for a completed one.            *)
DeleteRefusedIgnored ==
  /\ pc = "Delete" /\ ~(IfMatchHolds /\ Deletable)
  /\ Goto("CleanupDNS")
  /\ UNCHANGED <<obj, aws, cert, zone, bounds>>

(* Seeded fault: a refused deletion is not tried again.                    *)
DeleteRefusedDropped ==
  /\ pc = "Delete" /\ ~(IfMatchHolds /\ Deletable)
  /\ Done(FALSE)
  /\ UNCHANGED <<aws, cert, zone, bounds>>

(* Precondition failed, not found, or ResourceNotDisabled: try again.      *)
DeleteRefused ==
  /\ pc = "Delete" /\ ~(IfMatchHolds /\ Deletable)
  /\ Done(TRUE)
  /\ UNCHANGED <<aws, cert, zone, bounds>>

(* cleanupDNSRecords: the spec's domains at the target kept in status.     *)
CleanupBatch ==
  Batch(IF obj.spec.ttl = None \/ obj.st.target = None THEN {}
        ELSE obj.spec.domains, obj.st.target, obj.spec.ttl)

CleanupDNS ==
  /\ pc = "CleanupDNS" /\ ~DeletionRefused(zone, CleanupBatch)
  /\ zone' = DeleteCNAMERecords(zone, CleanupBatch)
  /\ Goto("RemoveFinalizer")
  /\ UNCHANGED <<obj, aws, cert, bounds>>

CleanupDNSFails ==
  /\ pc = "CleanupDNS" /\ DeletionRefused(zone, CleanupBatch)
  /\ Done(TRUE)
  /\ UNCHANGED <<aws, cert, zone, bounds>>

(* Without its last finalizer the resource disappears.                     *)
RemoveFinalizer ==
  /\ pc = "RemoveFinalizer"
  /\ Write([api EXCEPT !.exists = FALSE, !.finalizer = FALSE], FALSE)
  /\ UNCHANGED <<aws, cert, zone, bounds>>

-----------------------------------------------------------------------------
(* Failing calls.                                                          *)

(* A call fails, or its answer is lost, with an error the handler returns  *)
(* or a throttling it waits out.  That a call was executed and its answer  *)
(* lost is the call's own step followed by this one.                       *)
Failing ==
  Steps \ {"idle", "Validate", "ValidateSANs", "GetCertificate", "Detect",
           "UpsertForUpdate", "CleanupOrphans"}

CallFails ==
  /\ pc \in Failing
  /\ faults < MaxFaults /\ faults' = faults + 1
  /\ Done(TRUE)
  /\ UNCHANGED <<aws, cert, zone, edits, externals>>

(* handleAWSError, terminal.                                               *)
AWSTerminalError ==
  /\ pc \in {"Create", "Get", "Update", "GetForDelete", "Disable", "Delete"}
  /\ faults < MaxFaults /\ faults' = faults + 1
  /\ handleTerminalError("AccessDenied")
  /\ UNCHANGED <<aws, cert, zone, edits, externals>>

(* The operator stops at any point and starts again: the worker's state    *)
(* and the timers are lost, the cache is listed anew.                      *)
Restart ==
  /\ faults < MaxFaults /\ faults' = faults + 1
  /\ pc' = "idle" /\ obj' = NoObject /\ got' = NoReply /\ details' = "none"
  /\ cache' = api /\ current' = {"cache"}
  /\ queued' = api.exists /\ timer' = FALSE
  /\ UNCHANGED <<api, aws, cert, zone, edits, externals>>

-----------------------------------------------------------------------------
(* The environment.                                                        *)

(* The predicate drops the updates that keep the generation.               *)
GenerationChangedPredicate == api.gen # cache.gen \/ api.exists # cache.exists

WatchDeliver ==
  /\ "cache" \notin current
  /\ cache' = api /\ current' = current \cup {"cache"}
  /\ queued' = (queued \/ GenerationChangedPredicate)
  /\ UNCHANGED <<api, timer, worker, aws, cert, zone, bounds>>

Stored(new) ==
  /\ api' = new /\ current' = current \ {"cache", "object"}
  /\ UNCHANGED <<cache, queued, timer, worker, aws, cert, zone,
                 faults, externals>>

(* A user applies another spec; an attached certificate stays in it.       *)
EditSpec ==
  /\ api.exists /\ edits < MaxEdits /\ edits' = edits + 1
  /\ \E s \in Specs :
       LET spec == [s EXCEPT !.cert = @ \/ api.spec.cert] IN
       /\ spec # api.spec
       /\ Stored([api EXCEPT !.spec = spec, !.gen = @ + 1])

DeleteCR ==
  /\ api.exists /\ ~api.deleting
  /\ Stored(IF api.finalizer
              THEN [api EXCEPT !.deleting = TRUE, !.gen = @ + 1]
              ELSE [api EXCEPT !.exists = FALSE])
  /\ UNCHANGED edits

Deploy ==
  /\ aws.exists /\ ~aws.deployed
  /\ aws' = [aws EXCEPT !.deployed = TRUE]
  /\ UNCHANGED <<k8s, current, worker, cert, zone, bounds>>

(* Domains become active once the issued certificate is deployed.          *)
Activate ==
  /\ aws.exists /\ aws.deployed /\ ~aws.active
  /\ aws.cfg.cert /\ cert = "issued"
  /\ aws' = [aws EXCEPT !.active = TRUE]
  /\ UNCHANGED <<k8s, current, worker, cert, zone, bounds>>

(* The validation ends, or the issued certificate expires or is revoked.   *)
DecideCertificate ==
  /\ \/ cert = "pending-validation" /\ cert' \in {"issued", "failed"}
     \/ cert = "issued" /\ cert' = "expired"
  /\ UNCHANGED <<k8s, current, worker, aws, zone, bounds>>

Meddle(new) ==
  /\ aws.exists /\ externals < MaxExternals /\ externals' = externals + 1
  /\ aws' = new /\ current' = current \ {"reply"}
  /\ UNCHANGED <<k8s, worker, zone, edits, faults>>

(* Someone else changes the tenant, to a content CloudFront accepts, or    *)
(* deletes it.  Domains and certificate are left to the operator.          *)
ExternalUpdate ==
  /\ \E c \in Configs \ RejectedConfigs, e \in BOOLEAN :
       /\ <<c, e>> # <<aws.cfg.config, aws.cfg.enabled>>
       /\ Meddle([aws EXCEPT !.by = "external", !.deployed = FALSE,
                             !.cfg.config = c, !.cfg.enabled = e])
  /\ UNCHANGED cert

ExternalDelete == Meddle(NoTenant(aws.id)) /\ cert' = "none"

-----------------------------------------------------------------------------
Worker ==
  \/ Reconcile \/ ReconcileGone \/ AddFinalizer \/ StatusUpdate
  \/ ValidationPasses \/ ValidationFails \/ SANsValidated \/ SANMismatch
  \/ UpsertDNS \/ PollPending \/ PollInsync
  \/ CreateAccepted \/ CreateRefused \/ CreateInvalid
  \/ Get \/ GetNotFound \/ GetCertificate
  \/ SpecChanged \/ EnforceDrift \/ LeaveDrift
  \/ CertificateIssued \/ AttachCertificate
  \/ StillDeploying \/ SteadyState \/ CleanupOrphans
  \/ UpsertForUpdate \/ UpdateAccepted \/ UpdateRefused \/ UpdateInvalid
  \/ GetForDelete \/ AlreadyDeleted \/ DisableAccepted \/ DisableRefused
  \/ DeleteAccepted \/ DeleteRefused \/ CleanupDNS \/ CleanupDNSFails
  \/ RemoveFinalizer

Faults ==
  \/ ValidationSkipped \/ SANsSkipped \/ DNSTerminalError
  \/ UpsertForUpdateFails \/ CallFails \/ AWSTerminalError \/ Restart

Environment ==
  \/ WatchDeliver \/ EditSpec \/ DeleteCR \/ Deploy \/ Activate
  \/ DecideCertificate \/ ExternalUpdate \/ ExternalDelete

Next == Worker \/ Faults \/ Environment

Spec == Init /\ [][Next]_vars

(* The worker runs, watches deliver, CloudFront finishes its deployments,  *)
(* and a Route53 change that is polled again and again is in sync at last. *)
(* Users, other writers, faults and the certificate's validation need not  *)
(* happen.                                                                 *)
Fairness ==
  /\ WF_vars(Worker) /\ WF_vars(WatchDeliver)
  /\ WF_vars(Deploy) /\ WF_vars(Activate) /\ SF_vars(PollInsync)

FairSpec == Spec /\ Fairness

-----------------------------------------------------------------------------
(* The tenant the resource's status records.                               *)
Recorded(o) == aws.exists /\ aws.id = o.st.id

(* observedGeneration never vouches for a spec that was not pushed: when   *)
(* it equals the generation, and nobody else wrote to the tenant, the      *)
(* tenant recorded in the status has the content of the spec.              *)
ObservedMeansPushed ==
  (api.st.obs = api.gen /\ Recorded(api) /\ aws.by = "operator")
    => specMatchesAWS(api.spec, aws.cfg)

(* The finalizer holds the resource until the CloudFront tenant its status *)
(* records has been deleted.                                               *)
RecordedTenantNotLeaked == ~api.exists => ~Recorded(api)

(* The resource and its tenant as a user sees them.                        *)
TenantStage ==
  IF Recorded(api) THEN "recorded"
  ELSE IF aws.exists THEN "unrecorded" ELSE "none"

Lifecycle ==
  INSTANCE TenantLifecycle WITH
    exists <- api.exists, deleting <- api.deleting,
    finalizer <- api.finalizer, tenant <- TenantStage

(* Calls, caches, failures and all, the operator goes through the stages   *)
(* of TenantLifecycle: nothing is created in CloudFront before the         *)
(* finalizer is stored, a recorded tenant stays recorded until it is gone, *)
(* the finalizer outlives it, and a deletion runs through all its stages.  *)
ImplementsLifecycle == Lifecycle!Spec

(* The finalizer holds the resource until no CloudFront tenant created for *)
(* it is left.                                                             *)
NoLeakedTenant == ~api.exists => ~aws.exists

(* An existing resource will be reconciled again: it is queued, being      *)
(* reconciled, on a timer, or an event that queues it is on its way.       *)
NeverForgotten ==
  api.exists => queued \/ timer \/ pc # "idle" \/ GenerationChangedPredicate

(* The operator replaces or deletes the content of the tenant only if it   *)
(* is the content it has read (If-Match).                                  *)
OverwritesOnlyWhatItRead ==
  [][(aws.exists /\ aws'.by = "operator" /\ aws'.cfg # aws.cfg
        /\ externals' = externals)
       => got.cfg = aws.cfg]_vars

(* Unless the policy is "enforce", a change made outside the operator is   *)
(* replaced only by a generation that was never pushed before: by a user's *)
(* new intent, never by the spec the change drifted from.  A stale cache   *)
(* makes the code break this (run drift_overwritten).                      *)
DriftLeftAlone ==
  [][(Policy # "enforce" /\ aws.by = "external" /\ UpdateAccepted)
       => aws'.gen > aws.gen]_vars

-----------------------------------------------------------------------------
(* DNS.                                                                    *)

(* The records are created before the tenant and deleted after it: while   *)
(* the recorded tenant exists, each domain it serves has a record.         *)
TenantHasRecords ==
  (Recorded(api) /\ api.spec.ttl # None)
    => \A d \in aws.cfg.domains : zone[d] # None

(* DNSReady=True for the generation in AWS: the records of all domains of  *)
(* the spec are there, at the recorded target.                             *)
DNSReadyIsTrue ==
  (api.exists /\ ~api.deleting /\ api.st.dns = "DNSReady"
     /\ api.st.obs = api.gen)
    => \A d \in api.spec.domains :
         zone[d] # None /\ zone[d].target = api.st.target

(* The status is the one a steady-state reconcile of this generation left. *)
SteadyReported ==
  /\ api.exists /\ ~api.deleting
  /\ api.st.ready.reason = "Deployed" /\ api.st.obs = api.gen
  /\ Recorded(api) /\ aws.by = "operator"

(* A steady-state cycle leaves no record of a domain that is not in the    *)
(* spec.                                                                   *)
NoOrphanedRecords ==
  SteadyReported => \A d \in Domains : zone[d] # None => d \in api.spec.domains

(* CertificateReady=True/Validated: the tenant's managed certificate was   *)
(* issued.  It may have lapsed since the status was written, or lapse      *)
(* unnoticed while its details cannot be read.                             *)
ValidatedMeansIssued ==
  (Recorded(api) /\ api.st.certReady = "Validated") => cert \in EverIssued

-----------------------------------------------------------------------------
(* Liveness.                                                               *)

(* A tenant exists in CloudFront that the status does not record.          *)
Lost == aws.exists /\ aws.id # api.st.id

InForce ==
  /\ Recorded(api) /\ specMatchesAWS(api.spec, aws.cfg)
  /\ api.st.obs = api.gen /\ api.st.ready.reason = "Deployed"

(* When changes cease, a resource with an acceptable spec ends up deployed *)
(* as specified and says so, unless the identity of its tenant was lost.   *)
Converges ==
  \/ <>[]Lost
  \/ <>[](api.exists /\ ~api.deleting /\ SpecAccepted(api.spec) => InForce)

(* A deletion is carried through.                                          *)
DeletionCompletes == api.deleting ~> ~api.exists

(* The controller must refuse the spec: the distribution rejects it, or    *)
(* the certificate does not cover the domains of a tenant to be created.   *)
Unacceptable ==
  \/ ~SpecAccepted(api.spec)
  \/ /\ api.spec.ttl # None /\ api.spec.managed = "none"
     /\ ~SANsCover(api.spec) /\ api.st.id = 0 /\ ~api.st.dnsChange

(* A spec that stays unacceptable ends up reported as such, for as long as *)
(* nothing changes.                                                        *)
InvalidSpecReported ==
  <>[](api.exists /\ ~api.deleting /\ Unacceptable /\ ~Lost)
    => <>[](api.st.ready.reason \in
              {"ValidationFailed", "InvalidSpec", "CertificateSANMismatch"})

(* Under "report" a lasting drift from a spec that CloudFront would take   *)
(* ends up in the Synced condition.                                        *)
DriftReported ==
  <>[](api.exists /\ ~api.deleting /\ Recorded(api)
         /\ SpecAccepted(api.spec) /\ ~specMatchesAWS(api.spec, aws.cfg))
    => <>[](api.st.synced = "DriftDetected")

(* An issued certificate ends up attached to the tenant.                   *)
CertificateAttached ==
  <>[](api.exists /\ ~api.deleting /\ ~Lost /\ cert = "issued")
    => <>[](aws.cfg.cert)
=============================================================================
