------------------------------ MODULE DNSProofs ------------------------------
(***************************************************************************)
(* The DNS records of a tenant, for every value of the other constants.    *)
(*                                                                         *)
(* That the clean-up of orphaned records removes none holds without any    *)
(* hypothesis.  That a recorded tenant has its records, and that DNSReady  *)
(* tells the truth, is proved for a resource whose specs have DNS          *)
(* configured and agree on the domains (and, for the target of the         *)
(* records, on the connection group).  Both fail when the domains of a     *)
(* resource are edited between the creation of its records and of its      *)
(* tenant.  The second also fails when the group is edited, others delete  *)
(* the tenant, and the records are written for the new group while the     *)
(* status still has the old target.                                        *)
(***************************************************************************)
EXTENDS LifecycleProofs

-----------------------------------------------------------------------------
(* Orphaned records.                                                       *)

(* The steady state is reached only when AWS has the domains of the spec.  *)
OrphanInv == pc = "CleanupOrphans" => got.cfg.domains = obj.spec.domains

(* Every step keeps it: CleanupOrphans is reached from SteadyState alone.  *)
LEMMA OrphanStep == TypeOK /\ OrphanInv /\ [Next]_vars => OrphanInv'
<1> SUFFICES ASSUME TypeOK, OrphanInv, [Next]_vars, pc' = "CleanupOrphans"
             PROVE  got'.cfg.domains = obj'.spec.domains
  BY DEF OrphanInv
<1>1. CASE SteadyState
  <2>1. got.cfg.domains = obj.spec.domains
    BY <1>1 DEF SteadyState, Change, detectChanges, specMatchesAWS
  <2>2. obj'.spec = obj.spec /\ got' = got
    BY <1>1 DEF SteadyState, Goto, TypeOK, ObjectType
  <2> QED BY <2>1, <2>2
<1>2. CASE UNCHANGED <<pc, obj, got>>
  BY <1>2 DEF OrphanInv
<1>3. CASE Reconcile
  BY <1>3 DEF Reconcile, Entry, TypeOK, ObjectType, StatusType
<1>4. CASE ReconcileGone \/ UNCHANGED vars \/ Environment
  <2>1. UNCHANGED <<pc, obj, got>>
    <3>1. CASE ReconcileGone \/ UNCHANGED vars
      BY <3>1 DEF ReconcileGone, vars, worker
    <3>2. CASE WatchDeliver \/ Deploy \/ Activate \/ DecideCertificate
      BY <3>2 DEF WatchDeliver, Deploy, Activate, DecideCertificate, worker
    <3>3. CASE EditSpec \/ DeleteCR
      BY <3>3 DEF EditSpec, DeleteCR, Stored, worker
    <3>4. CASE ExternalUpdate \/ ExternalDelete
      BY <3>4 DEF ExternalUpdate, ExternalDelete, Meddle, worker
    <3> QED BY <1>4, <3>1, <3>2, <3>3, <3>4 DEF Environment
  <2> QED BY <1>2, <2>1
<1>5. CASE ValidationPasses \/ ValidationSkipped
  BY <1>5 DEF ValidationPasses, ValidationSkipped, GoAhead, Goto,
     AfterValidation, TypeOK, ObjectType, StatusType
<1>6. ASSUME NEW again, Return(again) PROVE FALSE
  BY <1>6 DEF Return
<1>7. ASSUME NEW reason, handleTerminalError(reason) PROVE FALSE
  BY <1>6, <1>7 DEF handleTerminalError, Done, SetStatus, Goto
<1>8. CASE AddFinalizer \/ StatusUpdate \/ AttachCertificate \/ RemoveFinalizer
             \/ UpdateRefused \/ DisableRefused \/ DeleteRefused
             \/ CleanupDNSFails \/ CallFails
  BY <1>6, <1>8 DEF AddFinalizer, StatusUpdate, AttachCertificate,
     RemoveFinalizer, Write, UpdateRefused, DisableRefused, DeleteRefused,
     CleanupDNSFails, CallFails, Done
<1>9. CASE ValidationFails \/ CreateRefused \/ UpdateInvalid \/ AWSTerminalError
  BY <1>6, <1>7, <1>9 DEF ValidationFails, CreateRefused, UpdateInvalid,
     AWSTerminalError, Done
<1>10. CASE SANsValidated \/ SANsSkipped \/ PollInsync \/ SpecChanged
             \/ EnforceDrift \/ CertificateIssued \/ CleanupOrphans
             \/ UpsertForUpdate \/ AlreadyDeleted \/ DeleteAccepted \/ CleanupDNS
  BY <1>10 DEF SANsValidated, SANsSkipped, PollInsync, SpecChanged,
     EnforceDrift, CertificateIssued, CleanupOrphans, UpsertForUpdate,
     AlreadyDeleted, DeleteAccepted, CleanupDNS, Goto
<1>11. CASE SANMismatch \/ UpsertDNS \/ PollPending \/ DNSTerminalError
             \/ GetNotFound \/ LeaveDrift \/ StillDeploying
             \/ UpsertForUpdateFails \/ CreateAccepted \/ UpdateAccepted
             \/ DisableAccepted
  BY <1>11 DEF SANMismatch, UpsertDNS, PollPending, DNSTerminalError,
     GetNotFound, LeaveDrift, StillDeploying,
     UpsertForUpdateFails, CreateAccepted, UpdateAccepted, DisableAccepted,
     SetStatus, Goto
<1>12. CASE CreateInvalid
  BY <1>7, <1>12 DEF CreateInvalid, SetStatus, Goto
<1>13. CASE Get \/ GetForDelete \/ GetCertificate \/ Restart
  BY <1>13 DEF Get, GetForDelete, GetCertificate, Restart
<1> QED
  BY <1>1, <1>3, <1>4, <1>5, <1>8, <1>9, <1>10, <1>11, <1>12, <1>13
     DEF Next, Worker, Faults

(* It holds in every reachable state.                                      *)
LEMMA OrphanInvariance == Spec => []OrphanInv
<1>1. Init => OrphanInv
  BY DEF Init, OrphanInv
<1> QED BY <1>1, OrphanStep, TypeCorrect, PTL DEF Spec

(* There is nothing to clean up.                                           *)
LEMMA NothingOrphaned ==
  ASSUME TypeOK, OrphanInv, CleanupOrphans
  PROVE  zone' = zone
<1>1. Orphaned = {}
  BY DEF Orphaned, OrphanInv, CleanupOrphans
<1>2. zone' = DeleteCNAMERecords(zone, Batch({}, obj.st.target, obj.spec.ttl))
  BY <1>1 DEF CleanupOrphans
<1>3. zone = [d \in Domains |-> zone[d]]
  BY DEF TypeOK, ZoneType
<1> QED BY <1>2, <1>3 DEF DeleteCNAMERecords, Batch

(* The clean-up at the end of a steady-state reconcile removes no record:  *)
(* the domains it compares with the spec are those of the answer, and the  *)
(* steady state means that these are the spec's.                           *)
OrphanCleanupRemovesNothing == [][CleanupOrphans => UNCHANGED zone]_vars

(* The records of a domain taken out of a spec are never removed while the *)
(* resource exists, on any instance: the cause of what the run `orphans'   *)
(* shows.                                                                  *)
THEOREM OrphanCleanupIsVoid == Spec => OrphanCleanupRemovesNothing
<1>1. Spec => []OrphanInv
  BY OrphanInvariance
<1>2. TypeOK /\ OrphanInv /\ [Next]_vars => [CleanupOrphans => UNCHANGED zone]_vars
  BY NothingOrphaned
<1> QED BY <1>1, <1>2, TypeCorrect, PTL DEF Spec, OrphanCleanupRemovesNothing

-----------------------------------------------------------------------------
(* The records of a tenant.                                                *)

(* Every spec has DNS configured, for the domains ds.                      *)
FixedDomains(ds) == \A s \in Specs : s.domains = ds /\ s.ttl # None

RecordsIn(ds) == \A d \in ds : zone[d] # None

(* The targets that the specs name.                                        *)
SpecTargets == {resolveCNAMETarget(s) : s \in Specs}

(* Then so has every copy of the resource, the tenant serves these         *)
(* domains, and every target, recorded or in the zone, is a spec's.        *)
Configured(o, ds) ==
  /\ o.spec.domains = ds /\ o.spec.ttl # None
  /\ resolveCNAMETarget(o.spec) \in SpecTargets
  /\ o.st.target \in SpecTargets \cup {None}
ZoneTargets == \A d \in Domains : zone[d] # None => zone[d].target \in SpecTargets
ConfiguredInv(ds) ==
  /\ Configured(api, ds) /\ Configured(cache, ds)
  /\ Busy => Configured(obj, ds)
  /\ aws.exists => aws.cfg.domains = ds
  /\ ZoneTargets

(* A status that records a tenant, a change of the records or that they    *)
(* are ready has their target; a status with a target, of a resource that  *)
(* is not being deleted, and one whose tenant is there, has the records.   *)
Backed(o, ds) ==
  /\ (o.st.id # 0 \/ o.st.dnsChange \/ o.st.dns = "DNSReady")
       => o.st.target # None
  /\ (o.st.target # None /\ ~o.deleting) => RecordsIn(ds)
  /\ Recorded(o) => RecordsIn(ds)

(* Every copy of the status is backed.  No deletion changes the ID: what a *)
(* deletion finds absent is absent for every copy.                         *)
RecordsInv(ds) ==
  /\ Backed(api, ds) /\ Backed(cache, ds)
  /\ Busy => Backed(obj, ds)
  /\ pc \in {"PollDNS", "Create", "UpsertForUpdate"} => obj.st.target # None
  /\ cache.deleting => cache.st.id = api.st.id
  /\ (Busy /\ obj.deleting) => obj.st.id = api.st.id
  /\ pc \in {"CleanupDNS", "RemoveFinalizer"} => ~Recorded(obj)

DNSInv(ds) == ConfiguredInv(ds) /\ RecordsInv(ds)

(* The handler goes on, and no record goes away.                           *)
Works(ds) ==
  /\ Busy /\ pc' # "idle" /\ UNCHANGED <<api, cache>>
  /\ aws'.id = aws.id /\ aws'.exists \in BOOLEAN /\ (aws'.exists => aws.exists)
  /\ aws'.exists => aws'.cfg.domains \in {aws.cfg.domains, obj.spec.domains}
  /\ RecordsIn(ds) => RecordsIn(ds)'
  /\ ZoneTargets => ZoneTargets'
  /\ obj'.deleting = obj.deleting
  /\ obj'.spec.domains = obj.spec.domains /\ obj'.spec.ttl = obj.spec.ttl
  /\ obj'.spec.group = obj.spec.group
  /\ obj'.st.id = obj.st.id \/ (obj'.st.id = 0 /\ ~obj.deleting)
  /\ obj'.st.target \in {obj.st.target, resolveCNAMETarget(obj.spec)}
  /\ obj'.st.target # None => obj.st.target # None \/ RecordsIn(ds)'
  /\ obj.st.target # None => obj'.st.target # None
  /\ (obj'.st.dnsChange \/ obj'.st.dns = "DNSReady") => obj'.st.target # None
  /\ pc' \in {"PollDNS", "Create", "UpsertForUpdate"} => obj'.st.target # None
  /\ pc' \in {"CleanupDNS", "RemoveFinalizer"} =>
       ~(aws'.exists /\ aws'.id = obj'.st.id)

(* Such a step keeps the invariant.                                        *)
LEMMA WorksDNS ==
  ASSUME NEW ds, TypeOK, ObservedInv, DNSInv(ds), Works(ds)
  PROVE  DNSInv(ds)'
<1>1. ConfiguredInv(ds)'
  BY DEF DNSInv, ConfiguredInv, Configured, Works, Busy, resolveCNAMETarget
<1>2. Recorded(obj)' => Recorded(obj)
  BY DEF Works, Recorded, ObservedInv, IdInv, TypeOK, AwsType
<1>3. Backed(obj, ds)'
  BY <1>2 DEF DNSInv, RecordsInv, Backed, Works
<1>4. Backed(api, ds)' /\ Backed(cache, ds)'
  BY DEF DNSInv, RecordsInv, Backed, Works, Recorded
<1>5. RecordsInv(ds)'
  BY <1>3, <1>4 DEF DNSInv, RecordsInv, Works, Recorded
<1> QED BY <1>1, <1>5 DEF DNSInv

(* The handler returns, with or without a write.                           *)
LEMMA ReturnDNS ==
  ASSUME NEW ds, TypeOK, DNSInv(ds), NEW again, Return(again),
         UNCHANGED <<aws, zone>>, Configured(api, ds)', Backed(api, ds)',
         cache.deleting => api'.st.id = api.st.id
  PROVE  DNSInv(ds)'
<1>1. pc' = "idle" /\ UNCHANGED <<cache, aws, zone>>
  BY DEF Return
<1>2. ConfiguredInv(ds)'
  BY <1>1 DEF DNSInv, ConfiguredInv, Configured, ZoneTargets, Busy
<1>3. Backed(cache, ds)'
  BY <1>1 DEF DNSInv, RecordsInv, Backed, Recorded, RecordsIn
<1>4. RecordsInv(ds)'
  BY <1>1, <1>3 DEF DNSInv, RecordsInv, Busy
<1> QED BY <1>2, <1>4 DEF DNSInv

(* The handler returns without a write.                                    *)
LEMMA DoneDNS ==
  ASSUME NEW ds, TypeOK, DNSInv(ds), NEW again, Done(again), UNCHANGED <<aws, zone>>
  PROVE  DNSInv(ds)'
<1>1. Return(again) /\ UNCHANGED <<api, aws, zone>>
  BY DEF Done
<1>2. Configured(api, ds)' /\ Backed(api, ds)'
  BY <1>1 DEF DNSInv, ConfiguredInv, Configured, RecordsInv, Backed, Recorded,
              RecordsIn
<1> QED BY <1>1, <1>2, ReturnDNS

(* The four writes.                                                        *)
LEMMA WritesDNS ==
  ASSUME NEW ds, TypeOK, ObservedInv, DNSInv(ds),
         AddFinalizer \/ StatusUpdate \/ AttachCertificate \/ RemoveFinalizer
  PROVE  DNSInv(ds)'
<1>1. UNCHANGED <<aws, zone>> /\ Busy
  BY DEF AddFinalizer, StatusUpdate, AttachCertificate, RemoveFinalizer, Busy
<1>2. CASE ~WriteAccepted
  <2>1. Done(TRUE)
    BY <1>2 DEF AddFinalizer, StatusUpdate, AttachCertificate, RemoveFinalizer,
                Write
  <2> QED BY <1>1, <2>1, DoneDNS
<1>3. CASE WriteAccepted
  <2>1. "object" \in current /\ \E again : Return(again)
    BY <1>3 DEF AddFinalizer, StatusUpdate, AttachCertificate, RemoveFinalizer,
                Write, WriteAccepted
  <2>2. obj.deleting = api.deleting
    BY <2>1 DEF ObservedInv, CopiesInv
  <2>3. /\ api'.spec \in {api.spec, obj.spec} /\ api'.st \in {api.st, obj.st}
        /\ api'.deleting = api.deleting
    <3> USE DEF TypeOK, ObjectType
    <3>1. CASE AddFinalizer
      <4>1. api' = [api EXCEPT !.finalizer = TRUE]
        BY <1>3, <3>1 DEF AddFinalizer, Write
      <4> QED BY <4>1
    <3>2. CASE StatusUpdate
      <4>1. api' = [api EXCEPT !.st = obj.st]
        BY <1>3, <3>2 DEF StatusUpdate, Write
      <4> QED BY <4>1
    <3>3. CASE AttachCertificate
      <4>1. PICK n : api' = [api EXCEPT !.spec = obj.spec, !.gen = n]
        BY <1>3, <3>3 DEF AttachCertificate, Write
      <4> QED BY <4>1
    <3>4. CASE RemoveFinalizer
      <4>1. api' = [api EXCEPT !.exists = FALSE, !.finalizer = FALSE]
        BY <1>3, <3>4 DEF RemoveFinalizer, Write
      <4> QED BY <4>1
    <3> QED BY <3>1, <3>2, <3>3, <3>4
  <2>4. Configured(api, ds)'
    BY <1>1, <2>3 DEF DNSInv, ConfiguredInv, Configured
  <2>5. Backed(api, ds)'
    BY <1>1, <2>2, <2>3 DEF DNSInv, RecordsInv, Backed, Recorded, RecordsIn
  <2>6. cache.deleting => api'.st.id = api.st.id
    BY <1>1, <2>2, <2>3 DEF DNSInv, RecordsInv, ObservedInv, DeletingInv
  <2> QED BY <1>1, <2>1, <2>4, <2>5, <2>6, ReturnDNS
<1> QED BY <1>2, <1>3

(* The handler goes on; what the status says of the records is unchanged,  *)
(* or no longer that they are ready.                                       *)
Quiet ==
  /\ Busy /\ pc' # "idle" /\ UNCHANGED <<api, cache, zone>>
  /\ aws'.id = aws.id /\ aws'.exists \in BOOLEAN /\ (aws'.exists => aws.exists)
  /\ aws'.exists => aws'.cfg.domains \in {aws.cfg.domains, obj.spec.domains}
  /\ obj'.deleting = obj.deleting
  /\ obj'.spec.domains = obj.spec.domains /\ obj'.spec.ttl = obj.spec.ttl
  /\ obj'.spec.group = obj.spec.group
  /\ obj'.st.id = obj.st.id \/ (obj'.st.id = 0 /\ ~obj.deleting)
  /\ obj'.st.target = obj.st.target /\ obj'.st.dnsChange = obj.st.dnsChange
  /\ obj'.st.dns = obj.st.dns \/ obj'.st.dns # "DNSReady"
  /\ pc' \in {"PollDNS", "Create", "UpsertForUpdate"} => obj.st.target # None
  /\ pc' \in {"CleanupDNS", "RemoveFinalizer"} =>
       ~(aws'.exists /\ aws'.id = obj'.st.id)

(* Such a step keeps the invariant.                                        *)
LEMMA QuietDNS ==
  ASSUME NEW ds, TypeOK, ObservedInv, DNSInv(ds), Quiet
  PROVE  DNSInv(ds)'
<1>1. Works(ds)
  BY DEF Quiet, Works, DNSInv, RecordsInv, Backed, RecordsIn, ZoneTargets
<1> QED BY <1>1, WorksDNS

(* A terminal error is recorded, or was recorded before.                   *)
LEMMA TerminalErrorDNS ==
  ASSUME NEW ds, TypeOK, ObservedInv, DNSInv(ds), NEW reason,
         handleTerminalError(reason), UNCHANGED <<aws, zone>>, Busy
  PROVE  DNSInv(ds)'
<1>1. CASE conditionMatches(reason)
  BY <1>1, DoneDNS DEF handleTerminalError
<1>2. CASE ~conditionMatches(reason)
  <2> DEFINE st == [obj.st EXCEPT
                      !.ready = [reason |-> reason, at |-> pc, gen |-> obj.gen],
                      !.synced = reason]
  <2>1. /\ st.id = obj.st.id /\ st.target = obj.st.target
        /\ st.dnsChange = obj.st.dnsChange /\ st.dns = obj.st.dns
    BY DEF TypeOK, ObjectType, StatusType
  <2>2. SetStatus(st)
    BY <1>2 DEF handleTerminalError
  <2> HIDE DEF st
  <2>3. Quiet
    BY <2>1, <2>2 DEF SetStatus, Goto, k8s, Quiet, TypeOK, ObjectType, AwsType
  <2> QED BY <2>3, QuietDNS
<1> QED BY <1>1, <1>2

(* The steps up to the creation of the tenant that write no record.        *)
LEMMA CreateDNS ==
  ASSUME NEW ds, TypeOK, ObservedInv, DNSInv(ds),
         ValidationPasses \/ ValidationSkipped \/ ValidationFails
           \/ SANsValidated \/ SANsSkipped \/ SANMismatch \/ PollPending
           \/ DNSTerminalError \/ CreateRefused \/ CreateInvalid
  PROVE  DNSInv(ds)'
<1> USE DEF TypeOK, ObjectType, StatusType, AwsType, Busy
<1>1. CASE ValidationPasses \/ ValidationSkipped
  <2>1. pc = "Validate" /\ GoAhead /\ UNCHANGED <<aws, zone>>
    BY <1>1 DEF ValidationPasses, ValidationSkipped
  <2>2. /\ obj.spec.ttl # None
        /\ (obj.st.id # 0 \/ obj.st.dnsChange) => obj.st.target # None
    BY <2>1 DEF DNSInv, ConfiguredInv, Configured, RecordsInv, Backed
  <2>3. /\ AfterValidation(obj) \in
             {"UpsertForUpdate", "PollDNS", "ValidateSANs", "UpsertDNS"}
        /\ AfterValidation(obj) \in {"UpsertForUpdate", "PollDNS"}
             => obj.st.target # None
    BY <2>2 DEF AfterValidation
  <2>4. obj' = obj
    BY <2>1, <2>3 DEF GoAhead
  <2>5. Quiet
    BY <2>1, <2>3, <2>4 DEF GoAhead, Goto, k8s, Quiet
  <2> QED BY <2>5, QuietDNS
<1>2. CASE ValidationFails
  BY <1>2, TerminalErrorDNS DEF ValidationFails
<1>3. CASE CreateRefused
  BY <1>3, TerminalErrorDNS, DoneDNS DEF CreateRefused
<1>4. CASE SANsValidated \/ SANsSkipped
  <2>1. Quiet
    BY <1>4 DEF SANsValidated, SANsSkipped, Goto, k8s, Quiet
  <2> QED BY <2>1, QuietDNS
<1>5. CASE SANMismatch
  <2>1. Quiet
    BY <1>5 DEF SANMismatch, SetStatus, Goto, k8s, Quiet
  <2> QED BY <2>1, QuietDNS
<1>6. CASE PollPending
  <2>1. Quiet
    BY <1>6 DEF PollPending, SetStatus, Goto, k8s, Quiet
  <2> QED BY <2>1, QuietDNS
<1>7. CASE DNSTerminalError
  <2>1. Quiet
    BY <1>7 DEF DNSTerminalError, SetStatus, Goto, k8s, Quiet
  <2> QED BY <2>1, QuietDNS
<1>8. CASE CreateInvalid
  <2>1. CASE handleTerminalError("InvalidSpec")
    BY <1>8, <2>1, TerminalErrorDNS DEF CreateInvalid
  <2>2. CASE SetStatus([obj.st EXCEPT
                          !.ready = Condition("DomainValidationPending")])
    <3>1. Quiet
      BY <1>8, <2>2 DEF CreateInvalid, SetStatus, Goto, k8s, Quiet
    <3> QED BY <3>1, QuietDNS
  <2> QED BY <1>8, <2>1, <2>2 DEF CreateInvalid
<1> QED BY <1>1, <1>2, <1>3, <1>4, <1>5, <1>6, <1>7, <1>8

(* The steps for a tenant that was created before that write no record and *)
(* do not say that the records are ready.                                  *)
LEMMA ExistingDNS ==
  ASSUME NEW ds, TypeOK, ObservedInv, OrphanInv, DNSInv(ds),
         Get \/ GetNotFound \/ GetCertificate
           \/ SpecChanged \/ EnforceDrift \/ LeaveDrift
           \/ CertificateIssued \/ StillDeploying \/ CleanupOrphans
           \/ UpdateAccepted \/ UpdateRefused \/ UpdateInvalid
  PROVE  DNSInv(ds)'
<1> USE DEF TypeOK, ObjectType, StatusType, AwsType, Busy
<1>1. CASE Get \/ GetCertificate
  <2>1. Quiet
    BY <1>1 DEF Get, GetCertificate, k8s, Quiet
  <2> QED BY <2>1, QuietDNS
<1>2. CASE GetNotFound
  <2>1. ~obj.deleting
    BY <1>2 DEF GetNotFound, ObservedInv, DeletingInv, DeletionSteps
  <2>2. Quiet
    BY <1>2, <2>1 DEF GetNotFound, SetStatus, Goto, k8s, Quiet
  <2> QED BY <2>2, QuietDNS
<1>3. CASE SpecChanged
  <2>1. Quiet
    BY <1>3 DEF SpecChanged, Goto, k8s, Quiet
  <2> QED BY <2>1, QuietDNS
<1>4. CASE CleanupOrphans
  <2>1. Quiet
    BY <1>4, NothingOrphaned DEF CleanupOrphans, Goto, k8s, Quiet
  <2> QED BY <2>1, QuietDNS
<1>5. CASE EnforceDrift
  <2>1. Quiet
    BY <1>5 DEF EnforceDrift, Goto, k8s, Quiet
  <2> QED BY <2>1, QuietDNS
<1>6. CASE CertificateIssued
  <2>1. Quiet
    BY <1>6 DEF CertificateIssued, Goto, k8s, Quiet, SpecType
  <2> QED BY <2>1, QuietDNS
<1>7. CASE LeaveDrift
  <2>1. Quiet
    BY <1>7 DEF LeaveDrift, SetStatus, Goto, k8s, Quiet
  <2> QED BY <2>1, QuietDNS
<1>8. CASE StillDeploying
  <2>1. Quiet
    BY <1>8 DEF StillDeploying, SetStatus, Goto, k8s, Quiet
  <2> QED BY <2>1, QuietDNS
<1>9. CASE UpdateAccepted
  <2>1. /\ aws'.id = aws.id /\ aws'.exists = aws.exists
        /\ aws'.cfg.domains = obj.spec.domains
    BY <1>9 DEF UpdateAccepted, buildInput
  <2>2. Quiet
    BY <1>9, <2>1 DEF UpdateAccepted, SetStatus, Goto, k8s, Quiet
  <2> QED BY <2>2, QuietDNS
<1>10. CASE UpdateRefused \/ UpdateInvalid
  BY <1>10, DoneDNS, TerminalErrorDNS DEF UpdateRefused, UpdateInvalid
<1> QED
  BY <1>1, <1>2, <1>3, <1>4, <1>5, <1>6, <1>7, <1>8, <1>9, <1>10

(* An upsert leaves a record for every domain of the batch.                *)
LEMMA UpsertLeavesRecords ==
  ASSUME NEW z \in ZoneType, NEW ds \in SUBSET Domains,
         NEW target \in Groups, NEW ttl \in TTLs
  PROVE  \A d \in Domains :
           UpsertCNAMERecords(z, Batch(ds, target, ttl))[d] =
             IF d \in ds THEN [target |-> target, ttl |-> ttl] ELSE z[d]
BY DEF UpsertCNAMERecords, Batch

(* So none of them is without.                                             *)
LEMMA UpsertedPresent ==
  ASSUME NEW z \in ZoneType, NEW ds \in SUBSET Domains,
         NEW target \in Groups, NEW ttl \in TTLs
  PROVE  \A d \in ds : UpsertCNAMERecords(z, Batch(ds, target, ttl))[d] # None
<1>1. [target |-> target, ttl |-> ttl] # None
  BY RecordAssumption DEF RecordType
<1>2. ds \subseteq Domains
  OBVIOUS
<1>3. TAKE d \in ds
<1>4. UpsertCNAMERecords(z, Batch(ds, target, ttl))[d] = [target |-> target, ttl |-> ttl]
  BY <1>2, UpsertLeavesRecords
<1> QED BY <1>1, <1>4

(* And the zone has no target that it had not before, but this one.        *)
LEMMA UpsertedTargets ==
  ASSUME NEW target \in SpecTargets \cap Groups, NEW ttl \in TTLs,
         NEW ds \in SUBSET Domains, zone \in ZoneType, ZoneTargets,
         zone' = UpsertCNAMERecords(zone, Batch(ds, target, ttl))
  PROVE  ZoneTargets'
<1> SUFFICES ASSUME NEW d \in Domains, zone'[d] # None
             PROVE  zone'[d].target \in SpecTargets
  BY DEF ZoneTargets
<1>1. zone'[d] = IF d \in ds THEN [target |-> target, ttl |-> ttl] ELSE zone[d]
  BY UpsertLeavesRecords
<1> QED BY <1>1 DEF ZoneTargets

(* The steps that write records, and those that say that they are ready.   *)
LEMMA UpsertsDNS ==
  ASSUME NEW ds, TypeOK, ObservedInv, DNSInv(ds),
         UpsertDNS \/ PollInsync \/ SteadyState \/ UpsertForUpdate
           \/ UpsertForUpdateFails
  PROVE  DNSInv(ds)'
<1> USE DEF TypeOK, ObjectType, StatusType, AwsType, Busy
<1>1. /\ obj.spec.domains = ds /\ obj.spec.ttl # None /\ Backed(obj, ds)
      /\ resolveCNAMETarget(obj.spec) \in SpecTargets /\ ZoneTargets
      /\ obj.st.target \in SpecTargets \cup {None}
      /\ pc \in {"PollDNS", "UpsertForUpdate"} => obj.st.target # None
      /\ UNCHANGED <<api, cache, aws>> /\ pc # "idle"
  BY DEF UpsertDNS, PollInsync, SteadyState, UpsertForUpdate,
         UpsertForUpdateFails, SetStatus, Goto, k8s, DNSInv, ConfiguredInv,
         Configured, RecordsInv
<1>2. ds \in SUBSET Domains /\ obj.spec.ttl \in TTLs
  BY <1>1 DEF SpecType
<1>3. CASE UpsertDNS
  <2> DEFINE target == resolveCNAMETarget(obj.spec)
             st == [obj.st EXCEPT !.dnsChange = TRUE, !.target = target,
                                  !.dns = "DNSPropagating"]
  <2>1. target \in Groups /\ target # None
    BY InputTypes, TenantDataAssumption
  <2>2. SetStatus(st) /\ zone' = UpsertCNAMERecords(zone,
                                   Batch(ds, target, obj.spec.ttl))
    BY <1>1, <1>3 DEF UpsertDNS
  <2>3. /\ st.id = obj.st.id /\ st.target = target /\ st.dns # "DNSReady"
    OBVIOUS
  <2> HIDE DEF st, target
  <2>4. RecordsIn(ds)'
    <3>1. \A d \in ds : UpsertCNAMERecords(zone,
                          Batch(ds, target, obj.spec.ttl))[d] # None
      BY <1>2, <2>1, UpsertedPresent
    <3> QED BY <2>2, <3>1 DEF RecordsIn
  <2>5. target \in SpecTargets /\ target = resolveCNAMETarget(obj.spec)
    BY <1>1 DEF target
  <2>6. ZoneTargets'
    BY <1>1, <1>2, <2>1, <2>2, <2>5, UpsertedTargets
  <2>7. Works(ds)
    BY <1>1, <2>1, <2>2, <2>3, <2>4, <2>5, <2>6 DEF SetStatus, Goto, Works
  <2> QED BY <2>7, WorksDNS
<1>4. CASE PollInsync
  <2>1. /\ obj'.deleting = obj.deleting /\ obj'.spec = obj.spec
        /\ obj'.st.id = obj.st.id /\ obj'.st.target = obj.st.target
        /\ obj.st.target # None /\ pc' = "Create" /\ UNCHANGED zone
    BY <1>1, <1>4 DEF PollInsync, Goto
  <2>2. Works(ds)
    BY <1>1, <2>1 DEF Works, RecordsIn, ZoneTargets
  <2> QED BY <2>2, WorksDNS
<1>5. CASE SteadyState
  <2>1. /\ obj'.deleting = obj.deleting /\ obj'.spec = obj.spec
        /\ obj'.st.id = obj.st.id /\ obj'.st.target = obj.st.target
        /\ obj'.st.dnsChange = obj.st.dnsChange
        /\ obj'.st.dns = updateDNSCondition(obj.spec, obj.st)
        /\ pc' = "CleanupOrphans" /\ UNCHANGED zone
    BY <1>1, <1>5 DEF SteadyState, Goto
  <2>2. obj'.st.dns = "DNSReady" => obj'.st.target # None
    BY <1>1, <2>1 DEF updateDNSCondition, Backed
  <2>3. Works(ds)
    BY <1>1, <2>1, <2>2 DEF Works, RecordsIn, ZoneTargets, Backed
  <2> QED BY <2>3, WorksDNS
<1>6. CASE UpsertForUpdate
  <2>1. TargetForUpdate = obj.st.target /\ obj.st.target \in Groups
    BY <1>1, <1>6 DEF TargetForUpdate, UpsertForUpdate
  <2>2. /\ zone' = UpsertCNAMERecords(zone,
                     Batch(ds, obj.st.target, obj.spec.ttl))
        /\ obj' = [obj EXCEPT !.st.target = obj.st.target] /\ pc' = "Update"
    BY <1>1, <1>6, <2>1 DEF UpsertForUpdate, Goto
  <2>3. RecordsIn(ds)'
    <3>1. \A d \in ds : UpsertCNAMERecords(zone,
                          Batch(ds, obj.st.target, obj.spec.ttl))[d] # None
      BY <1>2, <2>1, UpsertedPresent
    <3> QED BY <2>2, <3>1 DEF RecordsIn
  <2>4. obj' = obj
    BY <2>2
  <2>5. ZoneTargets'
    BY <1>1, <1>2, <2>1, <2>2, TenantDataAssumption, UpsertedTargets
  <2>6. Works(ds)
    BY <1>1, <2>2, <2>3, <2>4, <2>5 DEF Works, Backed
  <2> QED BY <2>6, WorksDNS
<1>7. CASE UpsertForUpdateFails
  <2>1. TargetForUpdate = obj.st.target
    BY <1>1, <1>7 DEF TargetForUpdate, UpsertForUpdateFails
  <2>2. SetStatus([obj.st EXCEPT !.target = obj.st.target, !.dns = "DNSError"])
    BY <1>7, <2>1 DEF UpsertForUpdateFails
  <2>3. Quiet
    BY <1>1, <1>7, <2>2 DEF UpsertForUpdateFails, SetStatus, Goto, k8s, Quiet
  <2> QED BY <2>3, QuietDNS
<1> QED BY <1>3, <1>4, <1>5, <1>6, <1>7

(* The creation of the tenant, over the records.                           *)
LEMMA CreationDNS ==
  ASSUME NEW ds, TypeOK, ObservedInv, DNSInv(ds), CreateAccepted
  PROVE  DNSInv(ds)'
<1> USE DEF TypeOK, ObjectType, StatusType, AwsType, Busy
<1>1. /\ UNCHANGED <<api, cache, zone>> /\ pc = "Create" /\ pc' = "StatusUpdate"
      /\ aws'.id = aws.id + 1 /\ aws'.cfg.domains = obj.spec.domains
  BY DEF CreateAccepted, SetStatus, Goto, k8s, buildInput
<1>2. /\ obj'.deleting = obj.deleting /\ obj'.spec = obj.spec
      /\ obj'.st.target = obj.st.target
  BY DEF CreateAccepted, SetStatus, StatusAfterCreate
<1>3. ~obj.deleting /\ obj.st.target # None
  BY <1>1 DEF ObservedInv, DeletingInv, DeletionSteps, DNSInv, RecordsInv
<1>4. RecordsIn(ds) /\ RecordsIn(ds)'
  BY <1>1, <1>3 DEF DNSInv, RecordsInv, Backed, RecordsIn
<1>5. ConfiguredInv(ds)'
  BY <1>1, <1>2 DEF DNSInv, ConfiguredInv, Configured, ZoneTargets
<1>6. Backed(api, ds)' /\ Backed(cache, ds)' /\ Backed(obj, ds)'
  BY <1>1, <1>2, <1>3, <1>4 DEF DNSInv, RecordsInv, Backed
<1>7. RecordsInv(ds)'
  BY <1>1, <1>2, <1>3, <1>6 DEF DNSInv, RecordsInv
<1> QED BY <1>5, <1>7 DEF DNSInv

(* The steps of a deletion.  The records go when no copy of the resource   *)
(* has a tenant any more, and every copy knows of the deletion.            *)
LEMMA DeletionDNS ==
  ASSUME NEW ds, TypeOK, ObservedInv, LifecycleInv, DNSInv(ds),
         GetForDelete \/ AlreadyDeleted \/ DisableAccepted \/ DisableRefused
           \/ DeleteAccepted \/ DeleteRefused \/ CleanupDNS \/ CleanupDNSFails
  PROVE  DNSInv(ds)'
<1> USE DEF TypeOK, ObjectType, StatusType, AwsType, Busy
<1>1. CASE GetForDelete
  <2>1. Quiet
    BY <1>1 DEF GetForDelete, k8s, Quiet
  <2> QED BY <2>1, QuietDNS
<1>2. CASE AlreadyDeleted
  <2>1. Quiet
    BY <1>2 DEF AlreadyDeleted, TenantFound, Goto, k8s, Quiet
  <2> QED BY <2>1, QuietDNS
<1>3. CASE DisableAccepted
  <2>1. /\ aws'.id = aws.id /\ aws'.exists = aws.exists
        /\ aws'.cfg.domains = obj.spec.domains
    BY <1>3 DEF DisableAccepted, disableInput
  <2>2. Quiet
    BY <1>3, <2>1 DEF DisableAccepted, SetStatus, Goto, k8s, Quiet
  <2> QED BY <2>2, QuietDNS
<1>4. CASE DeleteAccepted
  <2>1. Quiet
    BY <1>4 DEF DeleteAccepted, NoTenant, Goto, k8s, Quiet
  <2> QED BY <2>1, QuietDNS
<1>5. CASE DisableRefused \/ DeleteRefused \/ CleanupDNSFails
  BY <1>5, DoneDNS DEF DisableRefused, DeleteRefused, CleanupDNSFails
<1>6. CASE CleanupDNS
  <2>1. /\ UNCHANGED <<api, cache, obj, aws>> /\ pc = "CleanupDNS"
        /\ pc' = "RemoveFinalizer"
    BY <1>6 DEF CleanupDNS, Goto, k8s
  <2>2. obj.deleting /\ api.deleting /\ cache.deleting
    BY <2>1 DEF ObservedInv, DeletingInv, DeletionSteps, LifecycleInv, HeldInv
  <2>3. ~Recorded(obj) /\ ~Recorded(api) /\ ~Recorded(cache)
    BY <2>1, <2>2 DEF DNSInv, RecordsInv, Recorded
  <2>4. Backed(api, ds)' /\ Backed(cache, ds)' /\ Backed(obj, ds)'
    BY <2>1, <2>2, <2>3 DEF DNSInv, RecordsInv, Backed, Recorded
  <2>5. ZoneTargets'
    <3>1. \A d \in Domains : zone'[d] \in {zone[d], None}
      BY <1>6 DEF CleanupDNS, DeleteCNAMERecords
    <3> QED BY <3>1 DEF DNSInv, ConfiguredInv, ZoneTargets
  <2>6. ConfiguredInv(ds)' /\ RecordsInv(ds)'
    BY <2>1, <2>3, <2>4, <2>5
       DEF DNSInv, ConfiguredInv, Configured, RecordsInv, Recorded
  <2> QED BY <2>6 DEF DNSInv
<1> QED BY <1>1, <1>2, <1>3, <1>4, <1>5, <1>6

(* Faults, and the environment.                                            *)
LEMMA EnvironmentDNS ==
  ASSUME NEW ds, FixedDomains(ds), TypeOK, ObservedInv, LifecycleInv, DNSInv(ds),
         CallFails \/ AWSTerminalError \/ Restart \/ Environment
  PROVE  DNSInv(ds)'
<1> USE DEF TypeOK, ObjectType, StatusType, AwsType
<1>1. CASE CallFails
  BY <1>1, DoneDNS DEF CallFails
<1>2. CASE AWSTerminalError
  BY <1>2, TerminalErrorDNS DEF AWSTerminalError, Busy
<1>3. CASE Restart \/ WatchDeliver
  <2>1. /\ cache' = api /\ UNCHANGED <<api, aws, zone>>
        /\ \/ pc' = "idle"
           \/ UNCHANGED <<pc, obj>>
    BY <1>3 DEF Restart, WatchDeliver, worker
  <2>2. ConfiguredInv(ds)'
    BY <2>1 DEF DNSInv, ConfiguredInv, Configured, ZoneTargets, Busy
  <2>3. RecordsInv(ds)'
    BY <2>1 DEF DNSInv, RecordsInv, Backed, RecordsIn, Recorded, Busy
  <2> QED BY <2>2, <2>3 DEF DNSInv
<1>4. CASE EditSpec \/ DeleteCR
  <2>1. /\ UNCHANGED <<cache, pc, obj, aws, zone>>
        /\ api'.st = api.st /\ (api.deleting => api'.deleting)
    <3>1. CASE EditSpec
      <4>1. PICK s : Stored([api EXCEPT !.spec = s, !.gen = api.gen + 1])
        BY <3>1 DEF EditSpec
      <4> QED BY <4>1 DEF Stored, worker
    <3>2. CASE DeleteCR
      <4>1. CASE api.finalizer
        BY <3>2, <4>1 DEF DeleteCR, Stored, worker
      <4>2. CASE ~api.finalizer
        BY <3>2, <4>2 DEF DeleteCR, Stored, worker
      <4> QED BY <4>1, <4>2
    <3> QED BY <1>4, <3>1, <3>2
  <2>2. Configured(api, ds)'
    <3>1. CASE EditSpec
      <4>1. PICK s \in Specs :
              Stored([api EXCEPT !.spec = [s EXCEPT !.cert = s.cert \/ api.spec.cert],
                                 !.gen = api.gen + 1])
        BY <3>1 DEF EditSpec
      <4>2. s \in SpecType /\ s.domains = ds /\ s.ttl # None
        BY TenantDataAssumption DEF FixedDomains
      <4>3. /\ api'.spec.domains = ds /\ api'.spec.ttl # None
            /\ api'.spec.group = s.group
        BY <4>1, <4>2 DEF Stored, SpecType
      <4>4. resolveCNAMETarget(api'.spec) = resolveCNAMETarget(s)
        BY <4>3 DEF resolveCNAMETarget
      <4> QED BY <2>1, <4>3, <4>4
              DEF Configured, SpecTargets, DNSInv, ConfiguredInv
    <3>2. CASE DeleteCR
      <4>1. api'.spec = api.spec
        <5>1. CASE api.finalizer
          BY <3>2, <5>1 DEF DeleteCR, Stored
        <5>2. CASE ~api.finalizer
          BY <3>2, <5>2 DEF DeleteCR, Stored
        <5> QED BY <5>1, <5>2
      <4> QED BY <2>1, <4>1 DEF DNSInv, ConfiguredInv, Configured
    <3> QED BY <1>4, <3>1, <3>2
  <2>3. ConfiguredInv(ds)'
    BY <2>1, <2>2 DEF DNSInv, ConfiguredInv, Configured, ZoneTargets, Busy
  <2>4. RecordsInv(ds)'
    BY <2>1 DEF DNSInv, RecordsInv, Backed, RecordsIn, Recorded, Busy
  <2> QED BY <2>3, <2>4 DEF DNSInv
<1>5. CASE Deploy \/ Activate \/ DecideCertificate \/ ExternalUpdate \/ ExternalDelete
  <2>1. /\ UNCHANGED <<api, cache, pc, obj, zone>>
        /\ aws'.id = aws.id /\ aws'.exists \in BOOLEAN /\ (aws'.exists => aws.exists)
        /\ aws'.exists => aws'.cfg.domains = aws.cfg.domains
    <3>1. CASE Deploy \/ Activate \/ DecideCertificate
      BY <3>1 DEF Deploy, Activate, DecideCertificate, k8s, worker
    <3>2. CASE ExternalUpdate
      <4>1. PICK c, e : Meddle([aws EXCEPT !.by = "external", !.deployed = FALSE,
                                           !.cfg.config = c, !.cfg.enabled = e])
        BY <3>2 DEF ExternalUpdate
      <4> QED BY <4>1 DEF Meddle, k8s, worker, CfgType
    <3>3. CASE ExternalDelete
      BY <3>3 DEF ExternalDelete, Meddle, NoTenant, k8s, worker
    <3> QED BY <1>5, <3>1, <3>2, <3>3
  <2>2. ConfiguredInv(ds)'
    BY <2>1 DEF DNSInv, ConfiguredInv, Configured, ZoneTargets, Busy
  <2>3. RecordsInv(ds)'
    BY <2>1 DEF DNSInv, RecordsInv, Backed, RecordsIn, Recorded, Busy
  <2> QED BY <2>2, <2>3 DEF DNSInv
<1> QED BY <1>1, <1>2, <1>3, <1>4, <1>5 DEF Environment

(* Every step keeps the invariant.                                         *)
LEMMA DNSStep ==
  ASSUME NEW ds, FixedDomains(ds)
  PROVE  TypeOK /\ ObservedInv /\ LifecycleInv /\ OrphanInv /\ DNSInv(ds)
           /\ [Next]_vars => DNSInv(ds)'
<1> SUFFICES ASSUME TypeOK, ObservedInv, LifecycleInv, OrphanInv, DNSInv(ds),
                    [Next]_vars
             PROVE  DNSInv(ds)'
  OBVIOUS
<1>1. CASE Reconcile
  <2>1. /\ obj' = cache /\ pc' = Entry(cache) /\ UNCHANGED <<api, cache, aws, zone>>
    BY <1>1 DEF Reconcile
  <2>2. /\ pc' \in {"CleanupDNS", "GetForDelete", "AddFinalizer", "Validate", "Get"}
        /\ pc' = "CleanupDNS" => cache.st.id = 0
    BY <2>1 DEF Entry, TypeOK, ObjectType, StatusType
  <2>3. cache.st.id = 0 => ~Recorded(cache)
    BY DEF Recorded, ObservedInv, IdInv, TypeOK, AwsType
  <2>4. ConfiguredInv(ds)'
    BY <2>1 DEF DNSInv, ConfiguredInv, Configured, ZoneTargets
  <2>5. RecordsInv(ds)'
    BY <2>1, <2>2, <2>3 DEF DNSInv, RecordsInv, Backed, RecordsIn, Recorded
  <2> QED BY <2>4, <2>5 DEF DNSInv
<1>2. CASE ReconcileGone \/ UNCHANGED vars
  <2>1. UNCHANGED <<api, cache, pc, obj, aws, zone>>
    BY <1>2 DEF ReconcileGone, worker, vars, k8s
  <2> QED BY <2>1 DEF DNSInv, ConfiguredInv, Configured, ZoneTargets,
                      RecordsInv, Backed, RecordsIn, Recorded, Busy
<1> QED
  BY <1>1, <1>2, WritesDNS, CreateDNS, ExistingDNS, UpsertsDNS, CreationDNS,
     DeletionDNS, EnvironmentDNS
     DEF Next, Worker, Faults

(* It holds in every reachable state.                                      *)
LEMMA DNSInvariance ==
  ASSUME NEW ds, FixedDomains(ds)
  PROVE  Spec => []DNSInv(ds)
<1>1. Init => DNSInv(ds)
  <2> SUFFICES ASSUME Init PROVE DNSInv(ds)
    OBVIOUS
  <2>1. PICK s \in Specs :
          api = [exists |-> TRUE, deleting |-> FALSE, finalizer |-> FALSE,
                 gen |-> 1, spec |-> s, st |-> NewStatus]
    BY DEF Init
  <2>2. /\ cache = api /\ pc = "idle" /\ ~aws.exists
        /\ \A d \in Domains : zone[d] = None
    BY DEF Init, NoTenant
  <2>3. ConfiguredInv(ds)
    BY <2>1, <2>2 DEF ConfiguredInv, Configured, ZoneTargets, SpecTargets,
                      FixedDomains, NewStatus, Busy
  <2>4. RecordsInv(ds)
    BY <2>1, <2>2 DEF RecordsInv, Backed, Recorded, NewStatus, Busy
  <2> QED BY <2>3, <2>4 DEF DNSInv
<1>2. TypeOK /\ ObservedInv /\ LifecycleInv /\ OrphanInv /\ DNSInv(ds)
        /\ [Next]_vars => DNSInv(ds)'
  BY DNSStep
<1> QED
  BY <1>1, <1>2, TypeCorrect, ObservedInvariance, LifecycleInvariance,
     OrphanInvariance, PTL DEF Spec

(* While the tenant the status records exists, each domain it serves has a *)
(* record, whatever fails and whatever the worker's copies show: it is     *)
(* created after its records, and no deletion of records starts before it  *)
(* is gone.                                                                *)
THEOREM TenantKeepsRecords ==
  ASSUME NEW ds, FixedDomains(ds)
  PROVE  Spec => []TenantHasRecords
<1>1. DNSInv(ds) => TenantHasRecords
  BY DEF DNSInv, ConfiguredInv, RecordsInv, Backed, RecordsIn, Recorded,
         TenantHasRecords
<1> QED BY <1>1, DNSInvariance, PTL

(* Every spec routes through the same connection group.                    *)
FixedTarget == \A s1, s2 \in Specs : resolveCNAMETarget(s1) = resolveCNAMETarget(s2)

(* DNSReady=True tells the truth: the records of all domains of the spec   *)
(* are there, at the recorded target.                                      *)
THEOREM DNSReadyTellsTheTruth ==
  ASSUME NEW ds, FixedDomains(ds), FixedTarget
  PROVE  Spec => []DNSReadyIsTrue
<1>1. TypeOK /\ DNSInv(ds) => DNSReadyIsTrue
  <2> SUFFICES ASSUME TypeOK, DNSInv(ds), ~api.deleting, api.st.dns = "DNSReady",
                      NEW d \in api.spec.domains
               PROVE  zone[d] # None /\ zone[d].target = api.st.target
    BY DEF DNSReadyIsTrue
  <2>1. api.st.target \in SpecTargets /\ zone[d] # None
    BY DEF DNSInv, ConfiguredInv, Configured, RecordsInv, Backed, RecordsIn
  <2>2. zone[d].target \in SpecTargets
    BY <2>1 DEF DNSInv, ConfiguredInv, ZoneTargets, TypeOK, ObjectType, SpecType
  <2> QED BY <2>1, <2>2 DEF SpecTargets, FixedTarget
<1> QED BY <1>1, DNSInvariance, TypeCorrect, PTL
=============================================================================
