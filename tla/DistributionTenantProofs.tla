----------------------- MODULE DistributionTenantProofs -----------------------
(***************************************************************************)
(* Theorems about DistributionTenant, for every value of its constants.    *)
(***************************************************************************)
EXTENDS DistributionTenant, TLAPS

-----------------------------------------------------------------------------
(* The operators return values of their types.                             *)

(* The payloads built from a spec are contents of a CloudFront tenant.     *)
LEMMA InputTypes ==
  ASSUME NEW spec \in SpecType
  PROVE  /\ resolveCNAMETarget(spec) \in Groups
         /\ buildInput(spec) \in CfgType
         /\ disableInput(spec) \in CfgType
BY TenantDataAssumption
   DEF SpecType, CfgType, resolveCNAMETarget, buildInput, disableInput

(* The resting values of the worker and of AWS have their types.           *)
LEMMA RestingTypes ==
  /\ NoSpec \in SpecType
  /\ NewStatus \in StatusType
  /\ NoObject \in ObjectType
  /\ NoReply \in ReplyType
  /\ \A n \in Nat : NoTenant(n) \in AwsType
<1>1. NoSpec \in SpecType
  BY TenantDataAssumption DEF NoSpec, SpecType, ManagedHosts
<1>2. NewStatus \in StatusType
  BY DEF NewStatus, StatusType, ReadyReasons, SyncedReasons, DNSReasons,
         CertReasons, Steps
<1>3. NoObject \in ObjectType
  BY <1>1, <1>2 DEF NoObject, ObjectType
<1>4. disableInput(NoSpec) \in CfgType
  BY <1>1, InputTypes
<1> QED
  BY <1>1, <1>2, <1>3, <1>4 DEF NoReply, ReplyType, NoTenant, AwsType

(* updateCertificateCondition sets one of the documented reasons.          *)
LEMMA CertificateConditionType ==
  ASSUME NEW spec \in SpecType, NEW status \in CertStates, NEW active \in BOOLEAN
  PROVE  CertificateCondition(spec, status, active) \in CertReasons
BY DEF CertificateCondition, CertReasons, CertStates, SpecType, ManagedHosts

(* The batches the reconciler sends keep a zone a zone.                    *)
LEMMA ZoneTypes ==
  ASSUME NEW z \in ZoneType, NEW ds \in SUBSET Domains,
         NEW target \in Groups \cup {None}, NEW ttl \in TTLs \cup {None}
  PROVE  /\ DeleteCNAMERecords(z, Batch(ds, target, ttl)) \in ZoneType
         /\ (target # None /\ ttl # None)
              => UpsertCNAMERecords(z, Batch(ds, target, ttl)) \in ZoneType
BY DEF ZoneType, RecordType, Batch, DeleteCNAMERecords, UpsertCNAMERecords

(* The handler goes on with a step of the model.                           *)
LEMMA StepTypes ==
  ASSUME NEW o \in ObjectType
  PROVE  Entry(o) \in Steps /\ AfterValidation(o) \in Steps
BY DEF Entry, AfterValidation, Steps, ObjectType, StatusType

-----------------------------------------------------------------------------
(* Type correctness.                                                       *)

(* The worker sends records only for a spec that has a DNS block.          *)
DNSConfigured ==
  pc \in {"ValidateSANs", "UpsertDNS", "PollDNS", "UpsertForUpdate"}
    => obj.spec.ttl # None

(* The inductive invariant behind TypeOK.                                  *)
TypeInv == TypeOK /\ DNSConfigured

(* The handler returns without a write (Done).                             *)
LEMMA DoneTypes ==
  ASSUME TypeInv, NEW again \in BOOLEAN, Done(again),
         UNCHANGED <<aws, cert, zone>>,
         edits' \in Nat, faults' \in Nat, externals' \in Nat
  PROVE  TypeInv'
BY RestingTypes DEF TypeInv, TypeOK, DNSConfigured, Done, Return, Steps, CertStates

(* A write to the API server stores an object of its type, or is refused.  *)
LEMMA WriteTypes ==
  ASSUME TypeInv, NEW again \in BOOLEAN, NEW new \in ObjectType,
         Write(new, again), UNCHANGED <<aws, cert, zone, bounds>>
  PROVE  TypeInv'
<1>1. CASE WriteAccepted
  BY <1>1, RestingTypes
     DEF TypeInv, TypeOK, DNSConfigured, Write, Return, Steps, CertStates, bounds
<1>2. CASE ~WriteAccepted
  BY <1>2, DoneTypes DEF TypeInv, TypeOK, Write, bounds
<1> QED BY <1>1, <1>2

(* The handler sets a status and goes on to Status().Update.               *)
LEMMA SetStatusTypes ==
  ASSUME TypeInv, NEW st \in StatusType, SetStatus(st),
         aws' \in AwsType, cert' \in CertStates, zone' \in ZoneType,
         edits' \in Nat, faults' \in Nat, externals' \in Nat
  PROVE  TypeInv'
BY DEF TypeInv, TypeOK, DNSConfigured, SetStatus, Goto, k8s, Steps, ObjectType

(* handleTerminalError keeps the types.                                    *)
LEMMA TerminalErrorTypes ==
  ASSUME TypeInv, pc # "idle",
         NEW reason \in ReadyReasons \cap SyncedReasons,
         handleTerminalError(reason), UNCHANGED <<aws, cert, zone>>,
         edits' \in Nat, faults' \in Nat, externals' \in Nat
  PROVE  TypeInv'
<1>1. CASE conditionMatches(reason)
  BY <1>1, DoneTypes DEF handleTerminalError
<1>2. CASE ~conditionMatches(reason)
  <2>1. [obj.st EXCEPT !.ready = [reason |-> reason, at |-> pc, gen |-> obj.gen],
                       !.synced = reason] \in StatusType
    BY DEF TypeInv, TypeOK, ObjectType, StatusType
  <2> QED
    BY <1>2, <2>1, SetStatusTypes DEF handleTerminalError, TypeInv, TypeOK
<1> QED BY <1>1, <1>2

(* A condition of the object's generation, for any reason that is used.    *)
LEMMA ConditionType ==
  ASSUME TypeOK, NEW reason \in ReadyReasons
  PROVE  Condition(reason) \in [reason : ReadyReasons, at : Steps, gen : Nat]
BY DEF TypeOK, Condition, ObjectType, Steps

(* The steps of the worker that lead to or make a change in CloudFront.    *)
LEMMA CreateTypes ==
  ASSUME TypeInv, ValidationPasses \/ ValidationSkipped \/ ValidationFails
           \/ SANsValidated \/ SANsSkipped \/ SANMismatch \/ UpsertDNS
           \/ PollPending \/ PollInsync \/ DNSTerminalError
           \/ CreateAccepted \/ CreateRefused \/ CreateInvalid
  PROVE  TypeInv'
<1> USE DEF TypeInv
<1>1. ASSUME GoAhead, pc = "Validate", UNCHANGED <<aws, cert, zone>>,
             edits' \in Nat, faults' \in Nat, externals' \in Nat
      PROVE  TypeInv'
  <2>1. obj' \in ObjectType /\ obj'.spec = obj.spec
    BY <1>1 DEF GoAhead, TypeOK, ObjectType, StatusType, DNSReasons
  <2>2. pc' = AfterValidation(obj) /\ pc' \in Steps
    BY <1>1, StepTypes DEF GoAhead, Goto, TypeOK
  <2>3. obj.spec.ttl = None => pc' \in {"Create", "Update"}
    BY <2>2 DEF AfterValidation, TypeOK, ObjectType, StatusType
  <2>4. DNSConfigured'
    BY <2>1, <2>3 DEF DNSConfigured
  <2> QED BY <1>1, <2>1, <2>2, <2>4 DEF TypeOK, GoAhead, Goto, k8s
<1>2. CASE ValidationPasses
  BY <1>1, <1>2 DEF ValidationPasses, TypeOK, bounds
<1>3. CASE ValidationSkipped
  BY <1>1, <1>3 DEF ValidationSkipped, TypeOK
<1>4. CASE ValidationFails
  BY <1>4, TerminalErrorTypes
     DEF ValidationFails, TypeOK, bounds, ReadyReasons, SyncedReasons
<1>5. CASE SANsValidated \/ SANsSkipped
  BY <1>5 DEF SANsValidated, SANsSkipped, TypeOK, DNSConfigured, Goto, k8s,
              bounds, Steps
<1>6. CASE SANMismatch
  <2>1. [obj.st EXCEPT !.ready = Condition("CertificateSANMismatch")] \in StatusType
    BY ConditionType DEF TypeOK, ObjectType, StatusType, ReadyReasons
  <2> QED BY <1>6, <2>1, SetStatusTypes DEF SANMismatch, TypeOK, bounds
<1>7. CASE UpsertDNS
  <2> DEFINE target == resolveCNAMETarget(obj.spec)
  <2>1. target \in Groups /\ target # None
    BY InputTypes, TenantDataAssumption DEF TypeOK, ObjectType
  <2>2. obj.spec.domains \in SUBSET Domains /\ obj.spec.ttl \in TTLs \cup {None}
        /\ obj.spec.ttl # None
    BY <1>7 DEF UpsertDNS, DNSConfigured, TypeOK, ObjectType, SpecType
  <2>3. zone' \in ZoneType
    <3> HIDE DEF target
    <3>1. zone' = UpsertCNAMERecords(zone, Batch(obj.spec.domains, target, obj.spec.ttl))
      BY <1>7 DEF UpsertDNS, target
    <3> QED BY <2>1, <2>2, <3>1, ZoneTypes DEF TypeOK
  <2>4. [obj.st EXCEPT !.dnsChange = TRUE, !.target = target,
                       !.dns = "DNSPropagating"] \in StatusType
    BY <2>1 DEF TypeOK, ObjectType, StatusType, DNSReasons
  <2> QED BY <1>7, <2>3, <2>4, SetStatusTypes DEF UpsertDNS, TypeOK, bounds
<1>8. CASE PollPending
  <2>1. [obj.st EXCEPT !.dns = "DNSPropagating"] \in StatusType
    BY DEF TypeOK, ObjectType, StatusType, DNSReasons
  <2> QED BY <1>8, <2>1, SetStatusTypes DEF PollPending, TypeOK, bounds
<1>9. CASE PollInsync
  <2>1. obj' \in ObjectType
    BY <1>9 DEF PollInsync, TypeOK, ObjectType, StatusType, DNSReasons
  <2> QED
    BY <1>9, <2>1 DEF PollInsync, TypeOK, DNSConfigured, Goto, k8s, bounds, Steps
<1>10. CASE DNSTerminalError
  <2>1. [obj.st EXCEPT !.dns = "DNSError", !.ready = Condition("DNSError")]
          \in StatusType
    BY ConditionType DEF TypeOK, ObjectType, StatusType, DNSReasons, ReadyReasons
  <2> QED BY <1>10, <2>1, SetStatusTypes DEF DNSTerminalError, TypeOK
<1>11. CASE CreateAccepted
  <2>1. CertificateCondition(obj.spec, "none", obj.spec.managed = "none")
          \in CertReasons
    BY CertificateConditionType DEF TypeOK, ObjectType, CertStates
  <2>2. aws.id + 1 \in Nat
    BY DEF TypeOK, AwsType
  <2>3. StatusAfterCreate(aws.id + 1) \in StatusType
    BY <2>1, <2>2, ConditionType
       DEF StatusAfterCreate, TypeOK, ObjectType, StatusType, ReadyReasons,
           SyncedReasons
  <2>4. aws' \in AwsType
    BY <1>11, <2>2, InputTypes DEF CreateAccepted, TypeOK, ObjectType, AwsType
  <2>5. cert' \in CertStates
    BY <1>11 DEF CreateAccepted, CertStates
  <2> QED
    BY <1>11, <2>3, <2>4, <2>5, SetStatusTypes DEF CreateAccepted, TypeOK, bounds
<1>12. CASE CreateRefused
  BY <1>12, TerminalErrorTypes, DoneTypes
     DEF CreateRefused, TypeOK, bounds, ReadyReasons, SyncedReasons
<1>13. CASE CreateInvalid
  <2>1. [obj.st EXCEPT !.ready = Condition("DomainValidationPending")]
          \in StatusType
    BY ConditionType DEF TypeOK, ObjectType, StatusType, ReadyReasons
  <2>2. /\ pc = "Create" /\ faults' \in Nat
        /\ edits' \in Nat /\ externals' \in Nat
        /\ UNCHANGED <<aws, cert, zone>>
    BY <1>13 DEF CreateInvalid, TypeOK
  <2>3. CASE obj.spec.managed = "cloudfront"
    BY <1>13, <2>1, <2>2, <2>3, SetStatusTypes DEF CreateInvalid, TypeOK
  <2>4. CASE obj.spec.managed # "cloudfront"
    BY <1>13, <2>2, <2>4, TerminalErrorTypes
       DEF CreateInvalid, ReadyReasons, SyncedReasons
  <2> QED BY <2>3, <2>4
<1> QED
  BY <1>2, <1>3, <1>4, <1>5, <1>6, <1>7, <1>8, <1>9, <1>10, <1>11, <1>12, <1>13

(* The steps of reconcileExisting, reconcileUpdate and handleDrift.        *)
LEMMA ExistingTypes ==
  ASSUME TypeInv, Get \/ GetNotFound \/ GetCertificate \/ SpecChanged
           \/ EnforceDrift \/ LeaveDrift
           \/ CertificateIssued \/ AttachCertificate \/ StillDeploying
           \/ SteadyState \/ CleanupOrphans \/ UpsertForUpdate
           \/ UpsertForUpdateFails \/ UpdateAccepted \/ UpdateRefused
           \/ UpdateInvalid
  PROVE  TypeInv'
<1> USE DEF TypeInv
<1>1. CASE Get
  BY <1>1 DEF Get, Answer, TypeOK, DNSConfigured, k8s, bounds, Steps, AwsType,
              ReplyType, Copies
<1>2. CASE GetNotFound
  <2>1. [obj.st EXCEPT !.id = 0, !.ready = Condition("Creating")] \in StatusType
    BY ConditionType DEF TypeOK, ObjectType, StatusType, ReadyReasons
  <2> QED BY <1>2, <2>1, SetStatusTypes DEF GetNotFound, TypeOK, bounds
<1>3. CASE GetCertificate
  BY <1>3 DEF GetCertificate, TypeOK, DNSConfigured, k8s, Steps, CertStates
<1>4. CASE SpecChanged
  BY <1>4 DEF SpecChanged, TypeOK, DNSConfigured, Goto, k8s, bounds, Steps
<1>5. CASE EnforceDrift
  <2>1. obj' \in ObjectType
    BY <1>5 DEF EnforceDrift, TypeOK, ObjectType, StatusType
  <2> QED
    BY <1>5, <2>1 DEF EnforceDrift, TypeOK, DNSConfigured, Goto, k8s, bounds, Steps
<1>6. CASE LeaveDrift
  <2> DEFINE synced == IF Policy = "suspend" THEN obj.st.synced ELSE "DriftDetected"
  <2>1. synced \in SyncedReasons
    BY DEF TypeOK, ObjectType, StatusType, SyncedReasons
  <2>2. SetStatus([obj.st EXCEPT !.drift = TRUE, !.synced = synced])
    BY <1>6 DEF LeaveDrift
  <2> HIDE DEF synced
  <2>3. [obj.st EXCEPT !.drift = TRUE, !.synced = synced] \in StatusType
    BY <2>1 DEF TypeOK, ObjectType, StatusType
  <2> QED BY <1>6, <2>2, <2>3, SetStatusTypes DEF LeaveDrift, TypeOK, bounds
<1>7. CASE CertificateIssued
  <2>1. [obj.spec EXCEPT !.cert = TRUE] \in SpecType
    BY DEF TypeOK, ObjectType, SpecType
  <2>2. obj' = [obj EXCEPT !.spec = [obj.spec EXCEPT !.cert = TRUE]]
    BY <1>7 DEF CertificateIssued
  <2>3. obj' \in ObjectType
    BY <2>1, <2>2 DEF TypeOK, ObjectType
  <2> QED
    BY <1>7, <2>3
       DEF CertificateIssued, TypeOK, DNSConfigured, Goto, k8s, bounds, Steps
<1>8. CASE AttachCertificate
  <2> DEFINE g == IF obj.spec = api.spec THEN api.gen ELSE api.gen + 1
  <2>1. g \in Nat
    BY DEF TypeOK, ObjectType
  <2>2. Write([api EXCEPT !.spec = obj.spec, !.gen = g], FALSE)
    BY <1>8 DEF AttachCertificate
  <2> HIDE DEF g
  <2>3. [api EXCEPT !.spec = obj.spec, !.gen = g] \in ObjectType
    BY <2>1 DEF TypeOK, ObjectType
  <2> QED BY <1>8, <2>2, <2>3, WriteTypes DEF AttachCertificate
<1>9. CertificateCondition(obj.spec, details, allDomainsActive) \in CertReasons
  BY CertificateConditionType DEF TypeOK, ObjectType, ReplyType, allDomainsActive
<1>10. CASE StillDeploying
  <2>1. [obj.st EXCEPT
          !.obs = obj.gen, !.ready = Condition("Deploying"), !.synced = "InSync",
          !.certReady = CertificateCondition(obj.spec, details, allDomainsActive)]
          \in StatusType
    BY <1>9, ConditionType
       DEF TypeOK, ObjectType, StatusType, ReadyReasons, SyncedReasons
  <2> QED BY <1>10, <2>1, SetStatusTypes DEF StillDeploying, TypeOK, bounds
<1>11. CASE SteadyState
  <2>1. updateDNSCondition(obj.spec, obj.st) \in DNSReasons
    BY DEF updateDNSCondition, TypeOK, ObjectType, StatusType, DNSReasons
  <2>2. [obj.st EXCEPT
          !.obs = obj.gen, !.ready = Condition("Deployed"), !.synced = "InSync",
          !.drift = FALSE, !.dns = updateDNSCondition(obj.spec, obj.st),
          !.certReady = CertificateCondition(obj.spec, details, allDomainsActive)]
          \in StatusType
    BY <1>9, <2>1, ConditionType
       DEF TypeOK, ObjectType, StatusType, ReadyReasons, SyncedReasons
  <2>3. obj' \in ObjectType
    BY <1>11, <2>2 DEF SteadyState, TypeOK, ObjectType
  <2> QED
    BY <1>11, <2>3 DEF SteadyState, TypeOK, DNSConfigured, Goto, k8s, bounds, Steps
<1>12. CASE CleanupOrphans
  <2>1. Orphaned \in SUBSET Domains
    BY DEF Orphaned, TypeOK, ReplyType, CfgType
  <2>2. obj.st.target \in Groups \cup {None} /\ obj.spec.ttl \in TTLs \cup {None}
    BY DEF TypeOK, ObjectType, StatusType, SpecType
  <2>3. zone' \in ZoneType
    BY <1>12, <2>1, <2>2, ZoneTypes DEF CleanupOrphans, TypeOK
  <2> QED
    BY <1>12, <2>3
       DEF CleanupOrphans, TypeOK, DNSConfigured, Goto, k8s, bounds, Steps
<1>13. TargetForUpdate \in Groups /\ TargetForUpdate # None
  BY InputTypes, TenantDataAssumption
     DEF TargetForUpdate, TypeOK, ObjectType, StatusType
<1>14. CASE UpsertForUpdate
  <2>1. obj.spec.domains \in SUBSET Domains /\ obj.spec.ttl \in TTLs \cup {None}
        /\ obj.spec.ttl # None
    BY <1>14 DEF UpsertForUpdate, DNSConfigured, TypeOK, ObjectType, SpecType
  <2>2. zone' \in ZoneType
    BY <1>13, <1>14, <2>1, ZoneTypes DEF UpsertForUpdate, TypeOK
  <2>3. obj' \in ObjectType
    BY <1>13, <1>14 DEF UpsertForUpdate, TypeOK, ObjectType, StatusType
  <2> QED
    BY <1>14, <2>2, <2>3
       DEF UpsertForUpdate, TypeOK, DNSConfigured, Goto, k8s, bounds, Steps
<1>15. CASE UpsertForUpdateFails
  <2>1. PICK target \in {obj.st.target, TargetForUpdate} :
          SetStatus([obj.st EXCEPT !.target = target, !.dns = "DNSError"])
    BY <1>15 DEF UpsertForUpdateFails
  <2>2. [obj.st EXCEPT !.target = target, !.dns = "DNSError"] \in StatusType
    BY <1>13 DEF TypeOK, ObjectType, StatusType, DNSReasons
  <2> QED
    BY <1>15, <2>1, <2>2, SetStatusTypes DEF UpsertForUpdateFails, TypeOK
<1>16. CASE UpdateAccepted
  <2>1. [obj.st EXCEPT !.obs = obj.gen, !.synced = "UpdatePending",
                       !.ready = Condition("Deploying")] \in StatusType
    BY ConditionType
       DEF TypeOK, ObjectType, StatusType, ReadyReasons, SyncedReasons
  <2>2. aws' \in AwsType
    BY <1>16, InputTypes DEF UpdateAccepted, TypeOK, ObjectType, AwsType
  <2>3. cert' \in CertStates
    BY <1>16 DEF UpdateAccepted, TypeOK, CertStates
  <2> QED
    BY <1>16, <2>1, <2>2, <2>3, SetStatusTypes DEF UpdateAccepted, TypeOK, bounds
<1>17. CASE UpdateRefused
  BY <1>17, DoneTypes DEF UpdateRefused, TypeOK, bounds
<1>18. CASE UpdateInvalid
  BY <1>18, TerminalErrorTypes
     DEF UpdateInvalid, TypeOK, bounds, ReadyReasons, SyncedReasons
<1> QED
  BY <1>1, <1>2, <1>3, <1>4, <1>5, <1>6, <1>7, <1>8, <1>10, <1>11, <1>12,
     <1>14, <1>15, <1>16, <1>17, <1>18

(* The steps of reconcileDelete.                                           *)
LEMMA DeletionTypes ==
  ASSUME TypeInv, GetForDelete \/ AlreadyDeleted \/ DisableAccepted
           \/ DisableRefused \/ DeleteAccepted \/ DeleteRefused \/ CleanupDNS
           \/ CleanupDNSFails \/ RemoveFinalizer
  PROVE  TypeInv'
<1> USE DEF TypeInv
<1>1. CASE GetForDelete
  BY <1>1 DEF GetForDelete, Answer, TypeOK, DNSConfigured, k8s, bounds, Steps,
              AwsType, ReplyType, Copies
<1>2. CASE AlreadyDeleted
  BY <1>2 DEF AlreadyDeleted, TypeOK, DNSConfigured, Goto, k8s, bounds, Steps
<1>3. CASE DisableAccepted
  <2>1. [obj.st EXCEPT !.ready = Condition("Disabling")] \in StatusType
    BY ConditionType DEF TypeOK, ObjectType, StatusType, ReadyReasons
  <2>2. aws' \in AwsType
    BY <1>3, InputTypes DEF DisableAccepted, TypeOK, ObjectType, AwsType
  <2> QED
    BY <1>3, <2>1, <2>2, SetStatusTypes DEF DisableAccepted, TypeOK, bounds
<1>4. CASE DisableRefused
  BY <1>4, DoneTypes DEF DisableRefused, TypeOK, bounds
<1>5. CASE DeleteAccepted
  <2>1. aws' \in AwsType
    BY <1>5, RestingTypes DEF DeleteAccepted, TypeOK, AwsType
  <2> QED
    BY <1>5, <2>1 DEF DeleteAccepted, TypeOK, DNSConfigured, Goto, k8s, bounds,
                      Steps, CertStates
<1>6. CASE DeleteRefused
  BY <1>6, DoneTypes DEF DeleteRefused, TypeOK, bounds
<1>7. CASE CleanupDNS
  <2> DEFINE ds == IF obj.spec.ttl = None \/ obj.st.target = None THEN {}
                   ELSE obj.spec.domains
  <2>1. /\ ds \in SUBSET Domains
        /\ obj.st.target \in Groups \cup {None}
        /\ obj.spec.ttl \in TTLs \cup {None}
    BY DEF TypeOK, ObjectType, StatusType, SpecType
  <2>2. zone' = DeleteCNAMERecords(zone, Batch(ds, obj.st.target, obj.spec.ttl))
    BY <1>7 DEF CleanupDNS, CleanupBatch
  <2> HIDE DEF ds
  <2>3. zone' \in ZoneType
    BY <2>1, <2>2, ZoneTypes DEF TypeOK
  <2> QED
    BY <1>7, <2>3 DEF CleanupDNS, TypeOK, DNSConfigured, Goto, k8s, bounds, Steps
<1>8. CASE CleanupDNSFails
  BY <1>8, DoneTypes DEF CleanupDNSFails, TypeOK, bounds
<1>9. CASE RemoveFinalizer
  <2>1. [api EXCEPT !.exists = FALSE, !.finalizer = FALSE] \in ObjectType
    BY DEF TypeOK, ObjectType
  <2> QED BY <1>9, <2>1, WriteTypes DEF RemoveFinalizer
<1> QED BY <1>1, <1>2, <1>3, <1>4, <1>5, <1>6, <1>7, <1>8, <1>9

(* Failing calls, restarts, and the steps of the environment.              *)
LEMMA EnvironmentTypes ==
  ASSUME TypeInv, CallFails \/ AWSTerminalError \/ Restart \/ Environment
  PROVE  TypeInv'
<1> USE DEF TypeInv
<1>1. CASE CallFails
  <2>1. faults' \in Nat
    BY <1>1 DEF CallFails, TypeOK
  <2>2. /\ Done(TRUE) /\ UNCHANGED <<aws, cert, zone>>
        /\ edits' \in Nat /\ externals' \in Nat
    BY <1>1, Zenon DEF CallFails, TypeOK
  <2> QED BY <2>1, <2>2, DoneTypes
<1>2. CASE AWSTerminalError
  <2>1. /\ handleTerminalError("AccessDenied") /\ UNCHANGED <<aws, cert, zone>>
        /\ edits' \in Nat /\ faults' \in Nat /\ externals' \in Nat
        /\ pc # "idle"
    BY <1>2 DEF AWSTerminalError, TypeOK
  <2>2. "AccessDenied" \in ReadyReasons \cap SyncedReasons
    BY DEF ReadyReasons, SyncedReasons
  <2> QED BY <2>1, <2>2, TerminalErrorTypes
<1>3. CASE Restart
  <2>1. /\ cache' \in ObjectType /\ api' \in ObjectType
        /\ queued' \in BOOLEAN /\ timer' \in BOOLEAN
    BY <1>3 DEF Restart, TypeOK, ObjectType
  <2>2. /\ obj' \in ObjectType /\ got' \in ReplyType /\ pc' \in Steps
        /\ details' \in CertStates /\ current' \subseteq Copies /\ pc' = "idle"
    BY <1>3, RestingTypes DEF Restart, Steps, CertStates, Copies
  <2>3. /\ aws' \in AwsType /\ cert' \in CertStates /\ zone' \in ZoneType
        /\ edits' \in Nat /\ faults' \in Nat /\ externals' \in Nat
    BY <1>3 DEF Restart, TypeOK
  <2> QED BY <2>1, <2>2, <2>3 DEF TypeOK, DNSConfigured
<1>4. CASE WatchDeliver
  BY <1>4 DEF WatchDeliver, TypeOK, DNSConfigured, worker, bounds, Copies,
              GenerationChangedPredicate
<1>5. ASSUME NEW new \in ObjectType, Stored(new), edits' \in Nat
      PROVE  TypeInv'
  BY <1>5 DEF Stored, TypeOK, DNSConfigured, worker
<1>6. api.gen + 1 \in Nat
  BY DEF TypeOK, ObjectType
<1>7. CASE EditSpec
  <2>1. PICK s \in Specs :
          Stored([api EXCEPT !.spec = [s EXCEPT !.cert = @ \/ api.spec.cert],
                             !.gen = api.gen + 1])
    BY <1>7 DEF EditSpec
  <2>2. s \in SpecType
    BY TenantDataAssumption
  <2>3. [s EXCEPT !.cert = @ \/ api.spec.cert] \in SpecType
    BY <2>2 DEF TypeOK, ObjectType, SpecType
  <2>4. ASSUME NEW t \in SpecType
        PROVE  [api EXCEPT !.spec = t, !.gen = api.gen + 1] \in ObjectType
    <3>1. ASSUME NEW n \in Nat PROVE [api EXCEPT !.spec = t, !.gen = n] \in ObjectType
      BY DEF TypeOK, ObjectType
    <3> QED BY <1>6, <3>1
  <2>5. edits' \in Nat
    BY <1>7 DEF EditSpec, TypeOK
  <2> QED BY <1>5, <2>1, <2>3, <2>4, <2>5
<1>8. CASE DeleteCR
  <2>1. [api EXCEPT !.deleting = TRUE, !.gen = api.gen + 1] \in ObjectType
    <3>1. ASSUME NEW n \in Nat
          PROVE  [api EXCEPT !.deleting = TRUE, !.gen = n] \in ObjectType
      BY DEF TypeOK, ObjectType
    <3> QED BY <1>6, <3>1
  <2>2. [api EXCEPT !.exists = FALSE] \in ObjectType
    BY DEF TypeOK, ObjectType
  <2>3. edits' \in Nat
    BY <1>8 DEF DeleteCR, TypeOK
  <2>4. \/ Stored([api EXCEPT !.deleting = TRUE, !.gen = api.gen + 1])
        \/ Stored([api EXCEPT !.exists = FALSE])
    BY <1>8 DEF DeleteCR
  <2> QED BY <1>5, <2>1, <2>2, <2>3, <2>4
<1>9. CASE Deploy \/ Activate
  BY <1>9 DEF Deploy, Activate, TypeOK, DNSConfigured, k8s, worker, bounds, AwsType
<1>10. CASE DecideCertificate
  BY <1>10 DEF DecideCertificate, TypeOK, DNSConfigured, k8s, worker, bounds,
              CertStates
<1>11. ASSUME NEW new \in AwsType, Meddle(new), cert' \in CertStates
       PROVE  TypeInv'
  BY <1>11 DEF Meddle, TypeOK, DNSConfigured, k8s, worker
<1>12. CASE ExternalUpdate
  <2>1. PICK c \in Configs, e \in BOOLEAN :
          Meddle([aws EXCEPT !.by = "external", !.deployed = FALSE,
                             !.cfg.config = c, !.cfg.enabled = e])
    BY <1>12 DEF ExternalUpdate
  <2>2. [aws EXCEPT !.by = "external", !.deployed = FALSE,
                    !.cfg.config = c, !.cfg.enabled = e] \in AwsType
    BY DEF TypeOK, AwsType, CfgType
  <2> QED BY <1>11, <1>12, <2>1, <2>2 DEF ExternalUpdate, TypeOK
<1>13. CASE ExternalDelete
  BY <1>11, <1>13, RestingTypes DEF ExternalDelete, TypeOK, AwsType, CertStates
<1> QED
  BY <1>1, <1>2, <1>3, <1>4, <1>7, <1>8, <1>9, <1>10, <1>12, <1>13 DEF Environment

(* Every step keeps the types.                                             *)
LEMMA TypeStep == TypeInv /\ [Next]_vars => TypeInv'
<1> SUFFICES ASSUME TypeInv, [Next]_vars PROVE TypeInv'
  OBVIOUS
<1> USE DEF TypeInv
<1>1. CASE Reconcile
  <2>1. pc' \in Steps /\ pc' \notin {"ValidateSANs", "UpsertDNS", "PollDNS",
                                     "UpsertForUpdate"}
    BY <1>1 DEF Reconcile, Entry, Steps, TypeOK, ObjectType, StatusType
  <2> QED
    BY <1>1, <2>1 DEF Reconcile, Dequeue, TypeOK, DNSConfigured, bounds, Copies
<1>2. CASE ReconcileGone
  BY <1>2 DEF ReconcileGone, Dequeue, TypeOK, DNSConfigured, worker, bounds
<1>3. CASE AddFinalizer
  <2>1. [api EXCEPT !.finalizer = TRUE] \in ObjectType
    BY DEF TypeOK, ObjectType
  <2> QED BY <1>3, <2>1, WriteTypes DEF AddFinalizer
<1>4. CASE StatusUpdate
  <2>1. [api EXCEPT !.st = obj.st] \in ObjectType
    BY DEF TypeOK, ObjectType
  <2> QED BY <1>4, <2>1, WriteTypes DEF StatusUpdate
<1>5. CASE UNCHANGED vars
  BY <1>5 DEF vars, k8s, worker, bounds, TypeOK, DNSConfigured
<1> QED
  BY <1>1, <1>2, <1>3, <1>4, <1>5, CreateTypes, ExistingTypes, DeletionTypes,
     EnvironmentTypes
     DEF Next, Worker, Faults

(* Every reachable state is well typed: conditions carry only documented   *)
(* reasons, the zone only complete records, and the handler is always at a *)
(* step of the model, whatever the sets of values and the bounds.          *)
THEOREM TypeCorrect == Spec => []TypeOK
<1>1. Init => TypeInv
  <2> SUFFICES ASSUME Init PROVE TypeInv
    OBVIOUS
  <2>1. PICK s \in Specs :
          api = [exists |-> TRUE, deleting |-> FALSE, finalizer |-> FALSE,
                 gen |-> 1, spec |-> s, st |-> NewStatus]
    BY DEF Init
  <2>2. api \in ObjectType
    BY <2>1, RestingTypes, TenantDataAssumption DEF ObjectType
  <2> QED
    BY <2>2, RestingTypes
       DEF Init, TypeInv, TypeOK, DNSConfigured, Copies, Steps, CertStates, ZoneType
<1>2. TypeInv => TypeOK
  BY DEF TypeInv
<1> QED BY <1>1, <1>2, TypeStep, PTL DEF Spec

-----------------------------------------------------------------------------
(* observedGeneration.  The invariant follows the generations: the worker  *)
(* never works on an older one than the status has recorded, a copy at the *)
(* latest generation has the latest spec, and a deletion leaves a          *)
(* generation that is never observed.                                      *)

Busy == pc # "idle"

DeletionSteps == {"GetForDelete", "Disable", "Delete", "CleanupDNS", "RemoveFinalizer"}

(* The copies marked current are what they are copies of.                  *)
CopiesInv ==
  /\ "cache" \in current => cache = api
  /\ "object" \in current =>
       Busy /\ obj.gen = api.gen /\ obj.deleting = api.deleting

(* Generations grow from the worker's object over the cache to the store,  *)
(* and none has been observed that the worker has not reached.             *)
GenerationInv ==
  /\ cache.gen <= api.gen /\ api.st.obs <= cache.gen
  /\ cache.st.obs <= cache.gen
  /\ Busy => /\ obj.gen <= cache.gen
             /\ obj.st.obs <= obj.gen /\ api.st.obs <= obj.gen

(* One generation, one spec (AttachCertificate is about to make a new one).*)
SpecInv ==
  /\ cache.gen = api.gen => cache.spec = api.spec
  /\ (Busy /\ pc # "AttachCertificate" /\ obj.gen = api.gen)
       => obj.spec = api.spec

(* Recorded IDs were handed out by CloudFront.                             *)
IdInv ==
  /\ aws.exists => aws.id > 0
  /\ api.st.id <= aws.id /\ cache.st.id <= aws.id
  /\ Busy => obj.st.id <= aws.id

(* The generation of a deletion is not observed, and the deletion steps    *)
(* are taken for a resource being deleted, the others for one that is not. *)
DeletingInv ==
  /\ api.deleting => api.st.obs < api.gen
  /\ cache.deleting => api.deleting /\ cache.st.obs < cache.gen
  /\ (Busy /\ obj.deleting) => api.deleting /\ obj.st.obs < obj.gen
  /\ pc \in DeletionSteps => obj.deleting
  /\ (Busy /\ pc \notin DeletionSteps /\ pc # "StatusUpdate") => ~obj.deleting

(* What was read of the tenant still holds unless others changed it.       *)
ReplyInv ==
  (pc \in {"GetCertificate", "Detect"} /\ Recorded(obj) /\ aws.by = "operator")
    => got.cfg = aws.cfg

(* ObservedMeansPushed holds of the status the worker is about to write.   *)
ObjectInv ==
  ("object" \in current /\ pc # "AttachCertificate" /\ obj.st.obs = obj.gen
     /\ Recorded(obj) /\ aws.by = "operator")
    => specMatchesAWS(obj.spec, aws.cfg)

ObservedInv ==
  /\ CopiesInv /\ GenerationInv /\ SpecInv /\ IdInv /\ DeletingInv
  /\ ReplyInv /\ ObjectInv /\ ObservedMeansPushed

(* A payload built from a spec matches the spec.                           *)
LEMMA InputMatches ==
  ASSUME NEW spec \in SpecType
  PROVE  specMatchesAWS(spec, buildInput(spec))
BY DEF specMatchesAWS, buildInput, resolveCNAMETarget, SpecType

(* The handler returns without a write.                                    *)
LEMMA DoneObserved ==
  ASSUME TypeOK, ObservedInv, NEW again \in BOOLEAN, Done(again), UNCHANGED aws
  PROVE  ObservedInv'
<1> USE DEF ObservedInv, Done, Return
<1>1. CopiesInv'
  BY DEF CopiesInv, Busy
<1>2. GenerationInv' /\ SpecInv' /\ IdInv'
  BY DEF GenerationInv, SpecInv, IdInv, Busy
<1>3. DeletingInv'
  BY DEF DeletingInv, Busy, DeletionSteps
<1>4. ReplyInv' /\ ObjectInv'
  BY DEF ReplyInv, ObjectInv
<1>5. ObservedMeansPushed'
  BY DEF ObservedMeansPushed, Recorded
<1> QED BY <1>1, <1>2, <1>3, <1>4, <1>5

(* The handler goes on, with a status that records the same generation and *)
(* the same tenant or none.                                                *)
GoesOn ==
  /\ Busy /\ UNCHANGED <<api, cache, aws>>
  /\ current' \ {"reply"} = current \ {"reply"}
  /\ obj'.gen = obj.gen /\ obj'.deleting = obj.deleting /\ obj'.spec = obj.spec
  /\ obj'.st.obs = obj.st.obs
  /\ obj'.st.id = obj.st.id \/ obj'.st.id = 0
  /\ pc # "AttachCertificate" /\ pc # "StatusUpdate"
  /\ pc' \notin {"idle", "AttachCertificate"}
  /\ pc' = "StatusUpdate" \/ (pc' \in DeletionSteps <=> pc \in DeletionSteps)

(* A step that only goes on keeps the invariant.                           *)
LEMMA GoesOnObserved ==
  ASSUME TypeOK, ObservedInv, GoesOn, ReplyInv'
  PROVE  ObservedInv'
<1> USE DEF ObservedInv, GoesOn
<1>1. /\ "object" \in current' <=> "object" \in current
      /\ "cache" \in current' <=> "cache" \in current
  OBVIOUS
<1>2. CopiesInv'
  BY <1>1 DEF CopiesInv, Busy
<1>3. GenerationInv' /\ SpecInv'
  BY DEF GenerationInv, SpecInv, Busy
<1>4. IdInv'
  BY DEF IdInv, Busy, TypeOK, AwsType
<1>5. DeletingInv'
  BY DEF DeletingInv, Busy, DeletionSteps
<1>6. ObjectInv'
  BY <1>1 DEF ObjectInv, IdInv, Recorded, TypeOK, AwsType
<1>7. ObservedMeansPushed'
  BY DEF ObservedMeansPushed, Recorded
<1> QED BY <1>2, <1>3, <1>4, <1>5, <1>6, <1>7

(* The reconcile ends with a status update that changes neither.           *)
LEMMA SetStatusObserved ==
  ASSUME TypeOK, ObservedInv, NEW st, SetStatus(st), UNCHANGED aws,
         pc \notin {"idle", "AttachCertificate", "StatusUpdate"},
         st.obs = obj.st.obs, st.id = obj.st.id \/ st.id = 0
  PROVE  ObservedInv'
<1>1. GoesOn
  BY DEF SetStatus, Goto, k8s, GoesOn, Busy, TypeOK, ObjectType
<1>2. ReplyInv'
  BY DEF SetStatus, Goto, ReplyInv
<1> QED BY <1>1, <1>2, GoesOnObserved

(* A terminal error is recorded, or was recorded before.                   *)
LEMMA TerminalErrorObserved ==
  ASSUME TypeOK, ObservedInv, UNCHANGED aws, NEW reason,
         pc \notin {"idle", "AttachCertificate", "StatusUpdate"},
         handleTerminalError(reason)
  PROVE  ObservedInv'
<1>1. CASE conditionMatches(reason)
  BY <1>1, DoneObserved DEF handleTerminalError
<1>2. CASE ~conditionMatches(reason)
  <2> DEFINE st == [obj.st EXCEPT
                      !.ready = [reason |-> reason, at |-> pc, gen |-> obj.gen],
                      !.synced = reason]
  <2>1. st.obs = obj.st.obs /\ st.id = obj.st.id
    BY DEF TypeOK, ObjectType, StatusType
  <2>2. SetStatus(st)
    BY <1>2 DEF handleTerminalError
  <2> HIDE DEF st
  <2> QED BY <2>1, <2>2, SetStatusObserved
<1> QED BY <1>1, <1>2

(* The steps up to the creation of the tenant.                             *)
LEMMA CreateObserved ==
  ASSUME TypeOK, ObservedInv, ValidationPasses \/ ValidationSkipped
           \/ ValidationFails \/ SANsValidated \/ SANsSkipped \/ SANMismatch
           \/ UpsertDNS \/ PollPending \/ PollInsync \/ DNSTerminalError
           \/ CreateAccepted \/ CreateRefused \/ CreateInvalid
  PROVE  ObservedInv'
<1>1. CASE ValidationPasses \/ ValidationSkipped
  <2>1. /\ pc = "Validate" /\ GoAhead /\ UNCHANGED aws
    BY <1>1 DEF ValidationPasses, ValidationSkipped
  <2>2. pc' \in {"Update", "UpsertForUpdate", "Create", "PollDNS",
                 "ValidateSANs", "UpsertDNS"}
    BY <2>1 DEF GoAhead, Goto, AfterValidation, TypeOK, ObjectType, StatusType
  <2>3. /\ obj'.gen = obj.gen /\ obj'.deleting = obj.deleting
        /\ obj'.spec = obj.spec /\ obj'.st.obs = obj.st.obs
        /\ obj'.st.id = obj.st.id
    BY <2>1 DEF GoAhead, TypeOK, ObjectType, StatusType
  <2>4. GoesOn
    BY <2>1, <2>2, <2>3 DEF GoesOn, GoAhead, Goto, k8s, Busy, DeletionSteps
  <2>5. ReplyInv'
    BY <2>2 DEF ReplyInv
  <2> QED BY <2>4, <2>5, GoesOnObserved
<1>2. CASE ValidationFails
  BY <1>2, TerminalErrorObserved DEF ValidationFails
<1>3. CASE SANsValidated \/ SANsSkipped
  <2>1. GoesOn
    BY <1>3 DEF SANsValidated, SANsSkipped, GoesOn, Goto, k8s, Busy, DeletionSteps
  <2>2. ReplyInv'
    BY <1>3 DEF SANsValidated, SANsSkipped, Goto, ReplyInv
  <2> QED BY <2>1, <2>2, GoesOnObserved
<1>4. CASE SANMismatch
  <2> DEFINE st == [obj.st EXCEPT !.ready = Condition("CertificateSANMismatch")]
  <2>1. st.obs = obj.st.obs /\ st.id = obj.st.id
    BY DEF TypeOK, ObjectType, StatusType
  <2>2. SetStatus(st) /\ UNCHANGED aws /\ pc = "ValidateSANs"
    BY <1>4 DEF SANMismatch
  <2> HIDE DEF st
  <2> QED BY <2>1, <2>2, SetStatusObserved
<1>5. CASE UpsertDNS
  <2> DEFINE st == [obj.st EXCEPT !.dnsChange = TRUE,
                      !.target = resolveCNAMETarget(obj.spec),
                      !.dns = "DNSPropagating"]
  <2>1. st.obs = obj.st.obs /\ st.id = obj.st.id
    BY DEF TypeOK, ObjectType, StatusType
  <2>2. SetStatus(st) /\ UNCHANGED aws /\ pc = "UpsertDNS"
    BY <1>5 DEF UpsertDNS
  <2> HIDE DEF st
  <2> QED BY <2>1, <2>2, SetStatusObserved
<1>6. CASE PollPending
  <2> DEFINE st == [obj.st EXCEPT !.dns = "DNSPropagating"]
  <2>1. st.obs = obj.st.obs /\ st.id = obj.st.id
    BY DEF TypeOK, ObjectType, StatusType
  <2>2. SetStatus(st) /\ UNCHANGED aws /\ pc = "PollDNS"
    BY <1>6 DEF PollPending
  <2> HIDE DEF st
  <2> QED BY <2>1, <2>2, SetStatusObserved
<1>7. CASE PollInsync
  <2>1. /\ obj'.gen = obj.gen /\ obj'.deleting = obj.deleting
        /\ obj'.spec = obj.spec /\ obj'.st.obs = obj.st.obs
        /\ obj'.st.id = obj.st.id
    BY <1>7 DEF PollInsync, TypeOK, ObjectType, StatusType
  <2>2. GoesOn
    BY <1>7, <2>1 DEF PollInsync, GoesOn, Goto, k8s, Busy, DeletionSteps
  <2>3. ReplyInv'
    BY <1>7 DEF PollInsync, Goto, ReplyInv
  <2> QED BY <2>2, <2>3, GoesOnObserved
<1>8. CASE DNSTerminalError
  <2> DEFINE st == [obj.st EXCEPT !.dns = "DNSError",
                                  !.ready = Condition("DNSError")]
  <2>1. st.obs = obj.st.obs /\ st.id = obj.st.id
    BY DEF TypeOK, ObjectType, StatusType
  <2>2. SetStatus(st) /\ UNCHANGED aws /\ pc \in {"UpsertDNS", "PollDNS"}
    BY <1>8 DEF DNSTerminalError
  <2> HIDE DEF st
  <2> QED BY <2>1, <2>2, SetStatusObserved
<1>9. CASE CreateRefused
  BY <1>9, TerminalErrorObserved, DoneObserved DEF CreateRefused
<1>10. CASE CreateInvalid
  <2> DEFINE st == [obj.st EXCEPT !.ready = Condition("DomainValidationPending")]
  <2>1. st.obs = obj.st.obs /\ st.id = obj.st.id
    BY DEF TypeOK, ObjectType, StatusType
  <2>2. /\ SetStatus(st) \/ handleTerminalError("InvalidSpec")
        /\ UNCHANGED aws /\ pc = "Create"
    BY <1>10 DEF CreateInvalid
  <2> HIDE DEF st
  <2> QED BY <2>1, <2>2, SetStatusObserved, TerminalErrorObserved
<1>11. CASE CreateAccepted
  <2>1. /\ pc = "Create" /\ ~aws.exists /\ pc' = "StatusUpdate"
        /\ UNCHANGED <<api, cache, current>>
        /\ aws'.id = aws.id + 1 /\ aws'.cfg = buildInput(obj.spec)
        /\ aws.id \in Nat /\ aws'.exists
    BY <1>11 DEF CreateAccepted, SetStatus, Goto, k8s, TypeOK, AwsType
  <2>2. /\ obj'.gen = obj.gen /\ obj'.deleting = obj.deleting
        /\ obj'.spec = obj.spec /\ obj'.st.obs = obj.gen
        /\ obj'.st.id = aws.id + 1
    BY <1>11 DEF CreateAccepted, SetStatus, StatusAfterCreate, TypeOK, ObjectType,
                 StatusType
  <2>3. CopiesInv'
    BY <2>1, <2>2 DEF ObservedInv, CopiesInv, Busy
  <2>4. GenerationInv' /\ SpecInv'
    BY <2>1, <2>2 DEF ObservedInv, GenerationInv, SpecInv, Busy, TypeOK, ObjectType,
                      StatusType
  <2>5. IdInv'
    BY <2>1, <2>2 DEF ObservedInv, IdInv, Busy, TypeOK, ObjectType, StatusType
  <2>6. DeletingInv'
    BY <2>1, <2>2 DEF ObservedInv, DeletingInv, Busy, DeletionSteps
  <2>7. ReplyInv'
    BY <2>1 DEF ReplyInv
  <2>8. ObjectInv'
    BY <2>1, <2>2, InputMatches DEF ObjectInv, TypeOK, ObjectType
  <2>9. api'.st.id # aws'.id
    BY <2>1 DEF ObservedInv, IdInv, TypeOK, ObjectType, StatusType
  <2>10. ObservedMeansPushed'
    BY <2>9 DEF ObservedMeansPushed, Recorded
  <2> QED
    BY <2>3, <2>4, <2>5, <2>6, <2>7, <2>8, <2>10 DEF ObservedInv
<1> QED
  BY <1>1, <1>2, <1>3, <1>4, <1>5, <1>6, <1>7, <1>8, <1>9, <1>10, <1>11

(* A write to the API server, which ends the reconcile: refused, or        *)
(* accepted for an object at the latest generation.                        *)
LEMMA WriteObserved ==
  ASSUME TypeOK, ObservedInv, UNCHANGED aws, Busy,
         NEW new \in ObjectType, NEW again \in BOOLEAN, Write(new, again),
         "object" \in current =>
           /\ new.gen >= api.gen /\ new.deleting = api.deleting
           /\ new.gen = api.gen => new.spec = api.spec
           /\ new.st.obs <= obj.gen /\ new.st.id <= aws.id
           /\ new.deleting => new.st.obs < new.gen
           /\ (new.st.obs = new.gen /\ Recorded(new) /\ aws.by = "operator")
                => specMatchesAWS(new.spec, aws.cfg)
  PROVE  ObservedInv'
<1>1. CASE ~WriteAccepted
  BY <1>1, DoneObserved DEF Write
<1>2. CASE WriteAccepted
  <2>1. /\ api' = new /\ current' = {} /\ pc' = "idle" /\ UNCHANGED <<aws, cache>>
        /\ "object" \in current
    BY <1>2 DEF Write, WriteAccepted, Return
  <2>2. CopiesInv'
    BY <2>1 DEF CopiesInv
  <2>3. GenerationInv'
    BY <2>1 DEF ObservedInv, GenerationInv, Busy, TypeOK, ObjectType, StatusType
  <2>4. SpecInv'
    BY <2>1 DEF ObservedInv, GenerationInv, SpecInv, Busy, TypeOK, ObjectType
  <2>5. IdInv'
    BY <2>1 DEF ObservedInv, IdInv, Busy
  <2>6. DeletingInv'
    BY <2>1 DEF ObservedInv, DeletingInv, Busy, DeletionSteps
  <2>7. ReplyInv' /\ ObjectInv'
    BY <2>1 DEF ReplyInv, ObjectInv
  <2>8. ObservedMeansPushed'
    BY <2>1 DEF ObservedMeansPushed, Recorded
  <2> QED
    BY <2>2, <2>3, <2>4, <2>5, <2>6, <2>7, <2>8 DEF ObservedInv
<1> QED BY <1>1, <1>2

(* The handler records the generation it works on, having seen that the    *)
(* tenant is as the spec says or having made it so.                        *)
LEMMA RecordObserved ==
  ASSUME TypeOK, ObservedInv, UNCHANGED <<api, cache, current>>,
         pc \in {"Detect", "Update"}, pc' \in {"StatusUpdate", "CleanupOrphans"},
         obj'.gen = obj.gen, obj'.deleting = obj.deleting,
         obj'.spec = obj.spec, obj'.st.id = obj.st.id, obj'.st.obs = obj.gen,
         aws'.id = aws.id, aws'.exists = aws.exists,
         (Recorded(obj) /\ aws'.by = "operator")
            => specMatchesAWS(obj.spec, aws'.cfg),
         ObservedMeansPushed'
  PROVE  ObservedInv'
<1>1. CopiesInv'
  BY DEF ObservedInv, CopiesInv, Busy
<1>2. GenerationInv' /\ SpecInv'
  BY DEF ObservedInv, GenerationInv, SpecInv, Busy, TypeOK, ObjectType, StatusType
<1>3. IdInv'
  BY DEF ObservedInv, IdInv, Busy
<1>4. DeletingInv'
  BY DEF ObservedInv, DeletingInv, Busy, DeletionSteps
<1>5. ReplyInv' /\ ObjectInv'
  BY DEF ReplyInv, ObjectInv, Recorded
<1> QED BY <1>1, <1>2, <1>3, <1>4, <1>5 DEF ObservedInv

(* The steps for a tenant that was created before.                         *)
LEMMA ExistingObserved ==
  ASSUME TypeOK, ObservedInv, Get \/ GetNotFound \/ GetCertificate
           \/ SpecChanged \/ EnforceDrift \/ LeaveDrift
           \/ CertificateIssued \/ AttachCertificate \/ StillDeploying
           \/ SteadyState \/ CleanupOrphans \/ UpsertForUpdate
           \/ UpsertForUpdateFails \/ UpdateAccepted \/ UpdateRefused
           \/ UpdateInvalid
  PROVE  ObservedInv'
<1>1. CASE Get
  <2>1. GoesOn
    BY <1>1 DEF Get, Answer, GoesOn, k8s, Busy, DeletionSteps
  <2>2. ReplyInv'
    BY <1>1 DEF Get, Answer, ReplyInv
  <2> QED BY <2>1, <2>2, GoesOnObserved
<1>2. CASE GetNotFound
  <2> DEFINE st == [obj.st EXCEPT !.id = 0, !.ready = Condition("Creating")]
  <2>1. st.obs = obj.st.obs /\ st.id = 0
    BY DEF TypeOK, ObjectType, StatusType
  <2>2. SetStatus(st) /\ UNCHANGED aws /\ pc = "Get"
    BY <1>2 DEF GetNotFound
  <2> HIDE DEF st
  <2> QED BY <2>1, <2>2, SetStatusObserved
<1>3. CASE GetCertificate
  <2>1. GoesOn
    BY <1>3 DEF GetCertificate, GoesOn, k8s, Busy, DeletionSteps
  <2>2. ReplyInv'
    BY <1>3 DEF GetCertificate, ObservedInv, ReplyInv, Recorded
  <2> QED BY <2>1, <2>2, GoesOnObserved
<1>4. CASE SpecChanged
  <2>1. GoesOn
    BY <1>4 DEF SpecChanged, Goto, GoesOn, k8s, Busy, DeletionSteps
  <2>2. ReplyInv'
    BY <1>4 DEF SpecChanged, Goto, ReplyInv
  <2> QED BY <2>1, <2>2, GoesOnObserved
<1>5. CASE EnforceDrift
  <2>1. /\ obj'.gen = obj.gen /\ obj'.deleting = obj.deleting
        /\ obj'.spec = obj.spec /\ obj'.st.obs = obj.st.obs
        /\ obj'.st.id = obj.st.id
    BY <1>5 DEF EnforceDrift, TypeOK, ObjectType, StatusType
  <2>2. GoesOn
    BY <1>5, <2>1 DEF EnforceDrift, Goto, GoesOn, k8s, Busy, DeletionSteps
  <2>3. ReplyInv'
    BY <1>5 DEF EnforceDrift, Goto, ReplyInv
  <2> QED BY <2>2, <2>3, GoesOnObserved
<1>6. CASE LeaveDrift
  <2> DEFINE synced == IF Policy = "suspend" THEN obj.st.synced ELSE "DriftDetected"
             st == [obj.st EXCEPT !.drift = TRUE, !.synced = synced]
  <2>1. st.obs = obj.st.obs /\ st.id = obj.st.id
    BY DEF TypeOK, ObjectType, StatusType
  <2>2. SetStatus(st) /\ UNCHANGED aws /\ pc = "Detect"
    BY <1>6 DEF LeaveDrift
  <2> HIDE DEF synced, st
  <2> QED BY <2>1, <2>2, SetStatusObserved
<1>7. CASE CertificateIssued
  <2>1. /\ pc = "Detect" /\ pc' = "AttachCertificate"
        /\ UNCHANGED <<api, cache, current, aws>>
        /\ obj'.gen = obj.gen /\ obj'.deleting = obj.deleting /\ obj'.st = obj.st
    BY <1>7 DEF CertificateIssued, Goto, k8s, TypeOK, ObjectType
  <2>2. CopiesInv' /\ GenerationInv' /\ SpecInv' /\ IdInv'
    BY <2>1 DEF ObservedInv, CopiesInv, GenerationInv, SpecInv, IdInv, Busy
  <2>3. DeletingInv'
    BY <2>1 DEF ObservedInv, DeletingInv, Busy, DeletionSteps
  <2>4. ReplyInv' /\ ObjectInv' /\ ObservedMeansPushed'
    BY <2>1 DEF ObservedInv, ReplyInv, ObjectInv, ObservedMeansPushed, Recorded
  <2> QED BY <2>2, <2>3, <2>4 DEF ObservedInv
<1>8. CASE AttachCertificate
  <2> DEFINE g == IF obj.spec = api.spec THEN api.gen ELSE api.gen + 1
             new == [api EXCEPT !.spec = obj.spec, !.gen = g]
  <2>1. g \in Nat /\ g >= api.gen /\ (g = api.gen => obj.spec = api.spec)
    BY DEF TypeOK, ObjectType
  <2>2. Write(new, FALSE) /\ pc = "AttachCertificate" /\ UNCHANGED aws
    BY <1>8 DEF AttachCertificate
  <2> HIDE DEF g
  <2>3. /\ new \in ObjectType /\ new.gen = g /\ new.spec = obj.spec
        /\ new.deleting = api.deleting /\ new.st = api.st
    BY <2>1 DEF TypeOK, ObjectType
  <2> HIDE DEF new
  <2>4. /\ api.st.obs <= obj.gen /\ api.st.id <= aws.id
        /\ api.st.obs <= api.gen
    BY <2>2 DEF ObservedInv, GenerationInv, IdInv, Busy, TypeOK, ObjectType,
                StatusType
  <2>5. new.deleting => new.st.obs < new.gen
    BY <2>1, <2>3 DEF ObservedInv, DeletingInv, TypeOK, ObjectType, StatusType
  <2>6. (new.st.obs = new.gen /\ Recorded(new) /\ aws.by = "operator")
          => specMatchesAWS(new.spec, aws.cfg)
    <3> SUFFICES ASSUME new.st.obs = new.gen, Recorded(new), aws.by = "operator"
                 PROVE  specMatchesAWS(new.spec, aws.cfg)
      OBVIOUS
    <3>1. g = api.gen
      BY <2>1, <2>3, <2>4 DEF TypeOK, ObjectType, StatusType
    <3> QED
      BY <2>1, <2>3, <3>1 DEF ObservedInv, ObservedMeansPushed, Recorded
  <2> QED BY <2>1, <2>2, <2>3, <2>4, <2>5, <2>6, WriteObserved DEF Busy
<1>9. CASE StillDeploying \/ SteadyState
  <2>1. /\ pc = "Detect" /\ Change = "none"
        /\ pc' \in {"StatusUpdate", "CleanupOrphans"}
        /\ UNCHANGED <<api, cache, current, aws>>
    BY <1>9 DEF StillDeploying, SteadyState, SetStatus, Goto, k8s
  <2>2. /\ obj'.gen = obj.gen /\ obj'.deleting = obj.deleting
        /\ obj'.spec = obj.spec /\ obj'.st.obs = obj.gen
        /\ obj'.st.id = obj.st.id
    <3>1. CASE StillDeploying
      BY <3>1 DEF StillDeploying, SetStatus, TypeOK, ObjectType, StatusType
    <3>2. CASE SteadyState
      BY <3>2 DEF SteadyState, TypeOK, ObjectType, StatusType
    <3> QED BY <1>9, <3>1, <3>2
  <2>3. specMatchesAWS(obj.spec, got.cfg)
    BY <2>1 DEF Change, detectChanges
  <2>4. (Recorded(obj) /\ aws.by = "operator") => specMatchesAWS(obj.spec, aws.cfg)
    BY <2>1, <2>3 DEF ObservedInv, ReplyInv
  <2>5. ObservedMeansPushed'
    BY <2>1 DEF ObservedInv, ObservedMeansPushed, Recorded
  <2> QED BY <2>1, <2>2, <2>4, <2>5, RecordObserved
<1>10. CASE CleanupOrphans
  <2>1. GoesOn
    BY <1>10 DEF CleanupOrphans, Goto, GoesOn, k8s, Busy
  <2>2. ReplyInv'
    BY <1>10 DEF CleanupOrphans, Goto, ReplyInv
  <2> QED BY <2>1, <2>2, GoesOnObserved
<1>11. CASE UpsertForUpdate
  <2>1. /\ obj'.gen = obj.gen /\ obj'.deleting = obj.deleting
        /\ obj'.spec = obj.spec /\ obj'.st.obs = obj.st.obs
        /\ obj'.st.id = obj.st.id
    BY <1>11 DEF UpsertForUpdate, TypeOK, ObjectType, StatusType
  <2>2. GoesOn
    BY <1>11, <2>1 DEF UpsertForUpdate, Goto, GoesOn, k8s, Busy, DeletionSteps
  <2>3. ReplyInv'
    BY <1>11 DEF UpsertForUpdate, Goto, ReplyInv
  <2> QED BY <2>2, <2>3, GoesOnObserved
<1>12. CASE UpsertForUpdateFails
  <2>1. PICK target \in {obj.st.target, TargetForUpdate} :
          SetStatus([obj.st EXCEPT !.target = target, !.dns = "DNSError"])
    BY <1>12 DEF UpsertForUpdateFails
  <2> DEFINE st == [obj.st EXCEPT !.target = target, !.dns = "DNSError"]
  <2>2. st.obs = obj.st.obs /\ st.id = obj.st.id
    BY DEF TypeOK, ObjectType, StatusType
  <2>3. SetStatus(st) /\ UNCHANGED aws /\ pc = "UpsertForUpdate"
    BY <1>12, <2>1 DEF UpsertForUpdateFails
  <2> HIDE DEF st
  <2> QED BY <2>2, <2>3, SetStatusObserved
<1>13. CASE UpdateAccepted
  <2>1. /\ pc = "Update" /\ pc' = "StatusUpdate"
        /\ UNCHANGED <<api, cache, current>>
        /\ aws'.exists = aws.exists /\ aws'.id = aws.id
        /\ aws'.by = "operator" /\ aws'.cfg = buildInput(obj.spec)
    BY <1>13 DEF UpdateAccepted, SetStatus, Goto, k8s, TypeOK, AwsType
  <2>2. /\ obj'.gen = obj.gen /\ obj'.deleting = obj.deleting
        /\ obj'.spec = obj.spec /\ obj'.st.obs = obj.gen
        /\ obj'.st.id = obj.st.id
    BY <1>13 DEF UpdateAccepted, SetStatus, TypeOK, ObjectType, StatusType
  <2>3. specMatchesAWS(obj.spec, aws'.cfg)
    BY <2>1, InputMatches DEF TypeOK, ObjectType
  <2>4. ObservedMeansPushed'
    <3> SUFFICES ASSUME api.st.obs = api.gen
                 PROVE  specMatchesAWS(api.spec, aws'.cfg)
      BY <2>1 DEF ObservedMeansPushed
    <3>1. obj.gen = api.gen
      BY <2>1 DEF ObservedInv, GenerationInv, Busy, TypeOK, ObjectType, StatusType
    <3>2. obj.spec = api.spec
      BY <2>1, <3>1 DEF ObservedInv, SpecInv, Busy
    <3> QED BY <2>3, <3>2
  <2> QED BY <2>1, <2>2, <2>3, <2>4, RecordObserved
<1>14. CASE UpdateRefused
  BY <1>14, DoneObserved DEF UpdateRefused
<1>15. CASE UpdateInvalid
  BY <1>15, TerminalErrorObserved DEF UpdateInvalid
<1> QED
  BY <1>1, <1>2, <1>3, <1>4, <1>5, <1>6, <1>7, <1>8, <1>9, <1>10, <1>11,
     <1>12, <1>13, <1>14, <1>15

(* The tenant's own life, and what others do to it: it is deployed or      *)
(* activated, gets a content the operator did not write, or goes away.     *)
LEMMA TenantObserved ==
  ASSUME TypeOK, ObservedInv, UNCHANGED <<api, cache, pc, obj, got>>,
         current' \ {"reply"} = current \ {"reply"}, aws'.id = aws.id,
         aws'.exists => aws.exists,
         (aws'.exists /\ aws'.by = "operator")
           => aws.by = "operator" /\ aws'.cfg = aws.cfg
  PROVE  ObservedInv'
<1> USE DEF ObservedInv
<1>1. /\ "object" \in current' <=> "object" \in current
      /\ "cache" \in current' <=> "cache" \in current
  OBVIOUS
<1>2. CopiesInv'
  BY <1>1 DEF CopiesInv, Busy
<1>3. GenerationInv' /\ SpecInv' /\ IdInv'
  BY DEF GenerationInv, SpecInv, IdInv, Busy
<1>4. DeletingInv'
  BY DEF DeletingInv, Busy
<1>5. ReplyInv'
  BY DEF ReplyInv, Recorded
<1>6. ObjectInv'
  BY <1>1 DEF ObjectInv, Recorded
<1>7. ObservedMeansPushed'
  BY DEF ObservedMeansPushed, Recorded
<1> QED BY <1>2, <1>3, <1>4, <1>5, <1>6, <1>7

(* A user stores another version of the resource.                          *)
LEMMA StoredObserved ==
  ASSUME TypeOK, ObservedInv, NEW new \in ObjectType, Stored(new),
         new.gen >= api.gen, new.st = api.st,
         new.gen = api.gen => new.spec = api.spec /\ new.deleting = api.deleting,
         api.deleting => new.deleting
  PROVE  ObservedInv'
<1>1. /\ api' = new /\ UNCHANGED <<cache, pc, obj, got, aws>>
      /\ "cache" \notin current' /\ "object" \notin current'
  BY DEF Stored, worker
<1>2. api.st.obs <= api.gen
  BY DEF ObservedInv, GenerationInv, TypeOK, ObjectType, StatusType
<1>3. CopiesInv' /\ IdInv'
  BY <1>1 DEF ObservedInv, CopiesInv, IdInv, Busy
<1>4. GenerationInv'
  BY <1>1 DEF ObservedInv, GenerationInv, Busy, TypeOK, ObjectType, StatusType
<1>5. SpecInv'
  BY <1>1 DEF ObservedInv, GenerationInv, SpecInv, Busy, TypeOK, ObjectType
<1>6. new.deleting => new.st.obs < new.gen
  <2>1. CASE new.gen = api.gen
    BY <2>1, Zenon DEF ObservedInv, DeletingInv
  <2>2. CASE new.gen # api.gen
    BY <1>2, <2>2 DEF TypeOK, ObjectType, StatusType
  <2> QED BY <2>1, <2>2
<1>7. DeletingInv'
  BY <1>1, <1>6 DEF ObservedInv, DeletingInv, Busy
<1>8. ReplyInv' /\ ObjectInv'
  BY <1>1 DEF ObservedInv, ReplyInv, ObjectInv, Recorded
<1>9. (new.st.obs = new.gen) => new.gen = api.gen
  BY <1>2 DEF TypeOK, ObjectType, StatusType
<1>10. ObservedMeansPushed'
  BY <1>1, <1>9 DEF ObservedInv, ObservedMeansPushed, Recorded
<1> QED BY <1>3, <1>4, <1>5, <1>7, <1>8, <1>10 DEF ObservedInv

(* The steps of a deletion.                                                *)
LEMMA DeletionObserved ==
  ASSUME TypeOK, ObservedInv, GetForDelete \/ AlreadyDeleted
           \/ DisableAccepted \/ DisableRefused \/ DeleteAccepted
           \/ DeleteRefused \/ CleanupDNS \/ CleanupDNSFails \/ RemoveFinalizer
  PROVE  ObservedInv'
<1>1. CASE GetForDelete
  <2>1. GoesOn
    BY <1>1 DEF GetForDelete, Answer, GoesOn, k8s, Busy, DeletionSteps
  <2>2. ReplyInv'
    BY <1>1 DEF GetForDelete, ReplyInv
  <2> QED BY <2>1, <2>2, GoesOnObserved
<1>2. CASE AlreadyDeleted \/ CleanupDNS
  <2>1. GoesOn
    BY <1>2 DEF AlreadyDeleted, CleanupDNS, Goto, GoesOn, k8s, Busy, DeletionSteps
  <2>2. ReplyInv'
    BY <1>2 DEF AlreadyDeleted, CleanupDNS, Goto, ReplyInv
  <2> QED BY <2>1, <2>2, GoesOnObserved
<1>3. CASE DisableAccepted
  <2>1. /\ pc = "Disable" /\ pc' = "StatusUpdate"
        /\ UNCHANGED <<api, cache, current>>
        /\ aws'.exists = aws.exists /\ aws'.id = aws.id
    BY <1>3 DEF DisableAccepted, SetStatus, Goto, k8s, TypeOK, AwsType
  <2>2. /\ obj'.gen = obj.gen /\ obj'.deleting = obj.deleting
        /\ obj'.spec = obj.spec /\ obj'.st.obs = obj.st.obs
        /\ obj'.st.id = obj.st.id
    BY <1>3 DEF DisableAccepted, SetStatus, TypeOK, ObjectType, StatusType
  <2>3. api.st.obs < api.gen /\ obj.st.obs < obj.gen
    BY <2>1 DEF ObservedInv, DeletingInv, Busy, DeletionSteps
  <2>4. CopiesInv' /\ GenerationInv' /\ SpecInv' /\ IdInv'
    BY <2>1, <2>2 DEF ObservedInv, CopiesInv, GenerationInv, SpecInv, IdInv, Busy
  <2>5. DeletingInv'
    BY <2>1, <2>2 DEF ObservedInv, DeletingInv, Busy, DeletionSteps
  <2>6. ReplyInv' /\ ObjectInv' /\ ObservedMeansPushed'
    BY <2>1, <2>2, <2>3
       DEF ReplyInv, ObjectInv, ObservedMeansPushed, TypeOK, ObjectType, StatusType
  <2> QED BY <2>4, <2>5, <2>6 DEF ObservedInv
<1>4. CASE DeleteAccepted
  <2>1. /\ pc = "Delete" /\ pc' = "CleanupDNS"
        /\ UNCHANGED <<api, cache, current, obj>>
        /\ ~aws'.exists /\ aws'.id = aws.id
    BY <1>4 DEF DeleteAccepted, NoTenant, Goto, k8s
  <2>2. CopiesInv' /\ GenerationInv' /\ SpecInv' /\ IdInv'
    BY <2>1 DEF ObservedInv, CopiesInv, GenerationInv, SpecInv, IdInv, Busy
  <2>3. DeletingInv'
    BY <2>1 DEF ObservedInv, DeletingInv, Busy, DeletionSteps
  <2>4. ReplyInv' /\ ObjectInv' /\ ObservedMeansPushed'
    BY <2>1 DEF ReplyInv, ObjectInv, ObservedMeansPushed, Recorded
  <2> QED BY <2>2, <2>3, <2>4 DEF ObservedInv
<1>5. CASE DisableRefused \/ DeleteRefused \/ CleanupDNSFails
  BY <1>5, DoneObserved DEF DisableRefused, DeleteRefused, CleanupDNSFails
<1>6. CASE RemoveFinalizer
  <2> DEFINE new == [api EXCEPT !.exists = FALSE, !.finalizer = FALSE]
  <2>1. /\ new \in ObjectType /\ new.gen = api.gen /\ new.spec = api.spec
        /\ new.deleting = api.deleting /\ new.st = api.st
    BY DEF TypeOK, ObjectType
  <2>2. Write(new, FALSE) /\ pc = "RemoveFinalizer" /\ UNCHANGED aws
    BY <1>6 DEF RemoveFinalizer
  <2> HIDE DEF new
  <2>3. /\ api.st.obs <= obj.gen /\ api.st.id <= aws.id
        /\ api.deleting => api.st.obs < api.gen
    BY <2>2 DEF ObservedInv, GenerationInv, IdInv, DeletingInv, Busy
  <2>4. (new.st.obs = new.gen /\ Recorded(new) /\ aws.by = "operator")
          => specMatchesAWS(new.spec, aws.cfg)
    BY <2>1 DEF ObservedInv, ObservedMeansPushed, Recorded
  <2>5. new.gen >= api.gen
    BY <2>1 DEF TypeOK, ObjectType
  <2> QED BY <2>1, <2>2, <2>3, <2>4, <2>5, WriteObserved DEF Busy
<1> QED BY <1>1, <1>2, <1>3, <1>4, <1>5, <1>6

(* Faults, and the steps of users, the watch and CloudFront.               *)
LEMMA EnvironmentObserved ==
  ASSUME TypeOK, ObservedInv,
         CallFails \/ AWSTerminalError \/ Restart \/ Environment
  PROVE  ObservedInv'
<1>1. CASE CallFails
  BY <1>1, DoneObserved DEF CallFails
<1>2. CASE AWSTerminalError
  BY <1>2, TerminalErrorObserved DEF AWSTerminalError
<1>3. CASE Restart \/ WatchDeliver
  <2>1. /\ cache' = api /\ "cache" \in current' /\ UNCHANGED <<api, aws>>
        /\ \/ pc' = "idle" /\ "object" \notin current'
           \/ /\ UNCHANGED <<pc, obj, got>>
              /\ "object" \in current' <=> "object" \in current
    BY <1>3 DEF Restart, WatchDeliver, worker
  <2>2. CopiesInv'
    BY <2>1 DEF ObservedInv, CopiesInv, Busy
  <2>3. GenerationInv' /\ SpecInv'
    BY <2>1 DEF ObservedInv, GenerationInv, SpecInv, Busy, TypeOK, ObjectType,
                StatusType
  <2>4. IdInv' /\ DeletingInv'
    BY <2>1 DEF ObservedInv, IdInv, DeletingInv, Busy, DeletionSteps
  <2>5. ReplyInv' /\ ObjectInv'
    BY <2>1 DEF ObservedInv, ReplyInv, ObjectInv, Recorded
  <2>6. ObservedMeansPushed'
    BY <2>1 DEF ObservedInv, ObservedMeansPushed, Recorded
  <2> QED BY <2>2, <2>3, <2>4, <2>5, <2>6 DEF ObservedInv
<1>4. api.gen \in Nat /\ api.gen + 1 \in Nat /\ api.gen + 1 > api.gen
  BY DEF TypeOK, ObjectType
<1>5. CASE EditSpec
  <2>1. PICK s \in Specs :
          Stored([api EXCEPT !.spec = [s EXCEPT !.cert = @ \/ api.spec.cert],
                             !.gen = api.gen + 1])
    BY <1>5 DEF EditSpec
  <2>2. s \in SpecType
    BY TenantDataAssumption
  <2>3. [s EXCEPT !.cert = @ \/ api.spec.cert] \in SpecType
    BY <2>2 DEF TypeOK, ObjectType, SpecType
  <2>4. ASSUME NEW t \in SpecType, NEW n \in Nat, n > api.gen,
               Stored([api EXCEPT !.spec = t, !.gen = n])
        PROVE  ObservedInv'
    <3> DEFINE new == [api EXCEPT !.spec = t, !.gen = n]
    <3>1. /\ new \in ObjectType /\ new.gen = n /\ new.deleting = api.deleting
          /\ new.st = api.st
      BY DEF TypeOK, ObjectType
    <3>2. Stored(new)
      BY <2>4
    <3> HIDE DEF new
    <3>3. new.gen >= api.gen /\ new.gen # api.gen
      BY <1>4, <2>4, <3>1
    <3> QED BY <3>1, <3>2, <3>3, StoredObserved
  <2> QED BY <1>4, <2>1, <2>3, <2>4
<1>6. CASE DeleteCR
  <2>1. ASSUME NEW n \in Nat, n > api.gen,
               Stored([api EXCEPT !.deleting = TRUE, !.gen = n])
        PROVE  ObservedInv'
    <3> DEFINE new == [api EXCEPT !.deleting = TRUE, !.gen = n]
    <3>1. /\ new \in ObjectType /\ new.gen = n /\ new.deleting /\ new.st = api.st
      BY DEF TypeOK, ObjectType
    <3>2. Stored(new)
      BY <2>1
    <3> HIDE DEF new
    <3>3. new.gen >= api.gen /\ new.gen # api.gen
      BY <1>4, <2>1, <3>1
    <3> QED BY <3>1, <3>2, <3>3, StoredObserved
  <2>2. ASSUME Stored([api EXCEPT !.exists = FALSE])
        PROVE  ObservedInv'
    <3> DEFINE new == [api EXCEPT !.exists = FALSE]
    <3>1. /\ new \in ObjectType /\ new.gen = api.gen /\ new.spec = api.spec
          /\ new.deleting = api.deleting /\ new.st = api.st
      BY DEF TypeOK, ObjectType
    <3>2. Stored(new)
      BY <2>2
    <3> HIDE DEF new
    <3>3. new.gen >= api.gen
      BY <1>4, <3>1
    <3> QED BY <3>1, <3>2, <3>3, StoredObserved
  <2>3. \/ Stored([api EXCEPT !.deleting = TRUE, !.gen = api.gen + 1])
        \/ Stored([api EXCEPT !.exists = FALSE])
    BY <1>6 DEF DeleteCR
  <2> QED BY <1>4, <2>1, <2>2, <2>3
<1>7. CASE Deploy \/ Activate \/ DecideCertificate
  <2>1. /\ UNCHANGED <<api, cache, pc, obj, got, current>>
        /\ aws'.id = aws.id /\ aws'.exists = aws.exists
        /\ aws'.by = aws.by /\ aws'.cfg = aws.cfg
    BY <1>7 DEF Deploy, Activate, DecideCertificate, k8s, worker, TypeOK, AwsType
  <2> QED BY <2>1, TenantObserved
<1>8. CASE ExternalUpdate
  <2>1. PICK c \in Configs, e \in BOOLEAN :
          Meddle([aws EXCEPT !.by = "external", !.deployed = FALSE,
                             !.cfg.config = c, !.cfg.enabled = e])
    BY <1>8 DEF ExternalUpdate
  <2>2. /\ UNCHANGED <<api, cache, pc, obj, got>>
        /\ current' \ {"reply"} = current \ {"reply"}
        /\ aws'.id = aws.id /\ aws'.exists = aws.exists /\ aws'.by = "external"
    BY <2>1 DEF Meddle, k8s, worker, TypeOK, AwsType
  <2> QED BY <2>2, TenantObserved
<1>9. CASE ExternalDelete
  <2>1. /\ UNCHANGED <<api, cache, pc, obj, got>>
        /\ current' \ {"reply"} = current \ {"reply"}
        /\ aws'.id = aws.id /\ ~aws'.exists
    BY <1>9 DEF ExternalDelete, Meddle, NoTenant, k8s, worker
  <2> QED BY <2>1, TenantObserved
<1> QED
  BY <1>1, <1>2, <1>3, <1>5, <1>6, <1>7, <1>8, <1>9 DEF Environment

(* Every step keeps the invariant.                                         *)
LEMMA ObservedStep == TypeOK /\ ObservedInv /\ [Next]_vars => ObservedInv'
<1> SUFFICES ASSUME TypeOK, ObservedInv, [Next]_vars PROVE ObservedInv'
  OBVIOUS
<1>1. CASE Reconcile
  <2>1. /\ obj' = cache /\ pc' = Entry(cache) /\ UNCHANGED <<api, cache, aws>>
        /\ "object" \in current' => "cache" \in current \/ "object" \in current
        /\ "cache" \in current' <=> "cache" \in current
        /\ pc = "idle"
    BY <1>1 DEF Reconcile, Dequeue
  <2>2. /\ pc' \in {"CleanupDNS", "GetForDelete", "AddFinalizer", "Validate", "Get"}
        /\ pc' \in DeletionSteps <=> cache.deleting
    BY <2>1 DEF Entry, DeletionSteps, TypeOK, ObjectType, StatusType
  <2>3. "object" \in current' => cache = api
    BY <2>1 DEF ObservedInv, CopiesInv, Busy
  <2>4. CopiesInv'
    BY <2>1, <2>2, <2>3 DEF ObservedInv, CopiesInv, Busy
  <2>5. GenerationInv' /\ SpecInv'
    BY <2>1, <2>2 DEF ObservedInv, GenerationInv, SpecInv, Busy, TypeOK, ObjectType
  <2>6. IdInv' /\ DeletingInv'
    BY <2>1, <2>2 DEF ObservedInv, IdInv, DeletingInv, Busy, DeletionSteps
  <2>7. ReplyInv' /\ ObjectInv'
    BY <2>1, <2>2, <2>3 DEF ObservedInv, ReplyInv, ObjectInv, ObservedMeansPushed,
                            Recorded
  <2>8. ObservedMeansPushed'
    BY <2>1 DEF ObservedInv, ObservedMeansPushed, Recorded
  <2> QED BY <2>4, <2>5, <2>6, <2>7, <2>8 DEF ObservedInv
<1>2. CASE ReconcileGone \/ UNCHANGED vars
  <2>1. UNCHANGED <<api, cache, current, pc, obj, got, aws>>
    BY <1>2 DEF ReconcileGone, worker, vars, k8s
  <2> QED BY <2>1, TenantObserved
<1>3. CASE AddFinalizer
  <2> DEFINE new == [api EXCEPT !.finalizer = TRUE]
  <2>1. /\ new \in ObjectType /\ new.gen = api.gen /\ new.spec = api.spec
        /\ new.deleting = api.deleting /\ new.st = api.st
    BY DEF TypeOK, ObjectType
  <2>2. Write(new, TRUE) /\ pc = "AddFinalizer" /\ UNCHANGED aws
    BY <1>3 DEF AddFinalizer
  <2> HIDE DEF new
  <2>3. /\ api.st.obs <= obj.gen /\ api.st.id <= aws.id
        /\ api.deleting => api.st.obs < api.gen
    BY <2>2 DEF ObservedInv, GenerationInv, IdInv, DeletingInv, Busy
  <2>4. (new.st.obs = new.gen /\ Recorded(new) /\ aws.by = "operator")
          => specMatchesAWS(new.spec, aws.cfg)
    BY <2>1 DEF ObservedInv, ObservedMeansPushed, Recorded
  <2>5. new.gen >= api.gen
    BY <2>1 DEF TypeOK, ObjectType
  <2> QED BY <2>1, <2>2, <2>3, <2>4, <2>5, WriteObserved DEF Busy
<1>4. CASE StatusUpdate
  <2> DEFINE new == [api EXCEPT !.st = obj.st]
  <2>1. /\ new \in ObjectType /\ new.gen = api.gen /\ new.spec = api.spec
        /\ new.deleting = api.deleting /\ new.st = obj.st
    BY DEF TypeOK, ObjectType
  <2>2. Write(new, TRUE) /\ pc = "StatusUpdate" /\ UNCHANGED aws
    BY <1>4 DEF StatusUpdate
  <2> HIDE DEF new
  <2>3. obj.st.obs <= obj.gen /\ obj.st.id <= aws.id
    BY <2>2 DEF ObservedInv, GenerationInv, IdInv, Busy
  <2>4. ASSUME "object" \in current
        PROVE  /\ new.deleting => new.st.obs < new.gen
               /\ (new.st.obs = new.gen /\ Recorded(new) /\ aws.by = "operator")
                     => specMatchesAWS(new.spec, aws.cfg)
    <3>1. obj.gen = api.gen /\ obj.deleting = api.deleting /\ obj.spec = api.spec
      BY <2>2, <2>4 DEF ObservedInv, CopiesInv, SpecInv, Busy
    <3>2. new.deleting => new.st.obs < new.gen
      BY <2>1, <2>2, <3>1 DEF ObservedInv, DeletingInv, Busy
    <3>3. (new.st.obs = new.gen /\ Recorded(new) /\ aws.by = "operator")
             => specMatchesAWS(new.spec, aws.cfg)
      BY <2>1, <2>2, <2>4, <3>1 DEF ObservedInv, ObjectInv, Recorded
    <3> QED BY <3>2, <3>3
  <2>5. new.gen >= api.gen
    BY <2>1 DEF TypeOK, ObjectType
  <2> QED BY <2>1, <2>2, <2>3, <2>4, <2>5, WriteObserved DEF Busy
<1> QED
  BY <1>1, <1>2, <1>3, <1>4, CreateObserved, ExistingObserved, DeletionObserved,
     EnvironmentObserved
     DEF Next, Worker, Faults

(* The invariant holds in every reachable state.                           *)
LEMMA ObservedInvariance == Spec => []ObservedInv
<1>1. Init => ObservedInv
  <2> SUFFICES ASSUME Init PROVE ObservedInv
    OBVIOUS
  <2>1. PICK s \in Specs :
          api = [exists |-> TRUE, deleting |-> FALSE, finalizer |-> FALSE,
                 gen |-> 1, spec |-> s, st |-> NewStatus]
    BY DEF Init
  <2>2. /\ cache = api /\ current = {"cache"} /\ pc = "idle"
        /\ ~aws.exists /\ aws.id = 0
    BY DEF Init, NoTenant
  <2>3. api.gen = 1 /\ api.st.obs = 0 /\ api.st.id = 0 /\ ~api.deleting
    BY <2>1 DEF NewStatus
  <2>4. CopiesInv /\ GenerationInv /\ SpecInv /\ IdInv
    BY <2>2, <2>3 DEF CopiesInv, GenerationInv, SpecInv, IdInv, Busy
  <2>5. DeletingInv /\ ReplyInv /\ ObjectInv /\ ObservedMeansPushed
    BY <2>2, <2>3 DEF DeletingInv, ReplyInv, ObjectInv, ObservedMeansPushed, Busy,
                      DeletionSteps
  <2> QED BY <2>4, <2>5 DEF ObservedInv
<1> QED BY <1>1, ObservedStep, TypeCorrect, PTL DEF Spec

(* observedGeneration never vouches for a spec that was not pushed: for    *)
(* any sets of specs and domains, any drift policy, and any number of      *)
(* edits, faults, restarts and external changes.                           *)
THEOREM ObservedGenerationCorrect == Spec => []ObservedMeansPushed
<1>1. ObservedInv => ObservedMeansPushed
  BY DEF ObservedInv
<1> QED BY <1>1, ObservedInvariance, PTL
=============================================================================
