--------------------------- MODULE LifecycleProofs ---------------------------
(***************************************************************************)
(* The reconciler implements the safety part of TenantLifecycle, for every *)
(* value of the constants: any specs, any drift policy, any number of      *)
(* edits, failing calls, restarts and changes made by others.              *)
(***************************************************************************)
EXTENDS DistributionTenantProofs

(* The finalizer: a resource that is being deleted still has it, and the   *)
(* worker holds a resource without it only to add it.                      *)
FinalizerInv ==
  /\ (api.exists /\ api.deleting) => api.finalizer
  /\ (cache.exists /\ cache.deleting) => cache.finalizer
  /\ Busy => obj.exists
  /\ (Busy /\ pc # "AddFinalizer") => obj.finalizer
  /\ pc = "AddFinalizer" => ~obj.finalizer
  /\ "object" \in current =>
       obj.exists = api.exists /\ obj.finalizer = api.finalizer

(* It is stored for as long as a tenant is recorded, or a copy shows the   *)
(* resource with it and not being deleted: only a reconcile that knows of  *)
(* the deletion removes it, and what the cache has shown it goes on to     *)
(* show.                                                                   *)
HeldInv ==
  /\ api.finalizer => api.exists
  /\ Recorded(api) => api.finalizer
  /\ (cache.finalizer /\ ~cache.deleting) => api.finalizer
  /\ (Busy /\ obj.finalizer /\ ~obj.deleting) => api.finalizer
  /\ (Busy /\ obj.deleting) => cache.deleting

(* A tenant is looked up by the ID that is stored; the status about to be  *)
(* written has another one only when the stored one names no tenant; past  *)
(* the deletion of the tenant the stored ID names none.                    *)
IdentityInv ==
  /\ ("object" \in current /\ pc # "StatusUpdate") => obj.st.id = api.st.id
  /\ ("object" \in current /\ pc = "StatusUpdate" /\ obj.st.id # api.st.id)
       => ~Recorded(api) /\ ~obj.deleting
  /\ ("object" \in current /\ pc \in {"CleanupDNS", "RemoveFinalizer"})
       => ~Recorded(api)

LifecycleInv == FinalizerInv /\ HeldInv /\ IdentityInv

(* The step is one of TenantLifecycle, or leaves what it shows unchanged.  *)
LifecycleStep == [Lifecycle!Next]_(Lifecycle!vars)

(* Nothing changes but the tenant, which stays or goes away.               *)
LEMMA TenantStaysOrGoes ==
  ASSUME UNCHANGED api, aws'.id = aws.id, aws'.exists \in BOOLEAN, aws.exists \in BOOLEAN,
         aws'.exists => aws.exists
  PROVE  LifecycleStep
BY DEF LifecycleStep, Lifecycle!Next, Lifecycle!vars, Lifecycle!Deprovision,
       TenantStage, Recorded

-----------------------------------------------------------------------------
(* The steps of the worker.                                                *)

(* The handler returns without a write.                                    *)
LEMMA DoneLifecycle ==
  ASSUME TypeOK, LifecycleInv, NEW again, Done(again), UNCHANGED aws
  PROVE  LifecycleInv' /\ LifecycleStep
<1>1. /\ UNCHANGED <<api, cache, aws>> /\ pc' = "idle" /\ "object" \notin current'
  BY DEF Done, Return
<1>2. FinalizerInv'
  BY <1>1 DEF LifecycleInv, FinalizerInv, Busy
<1>3. HeldInv'
  BY <1>1 DEF LifecycleInv, HeldInv, Busy, Recorded
<1>4. IdentityInv'
  BY <1>1 DEF IdentityInv
<1>5. LifecycleStep
  BY <1>1, TenantStaysOrGoes DEF TypeOK, AwsType
<1> QED BY <1>2, <1>3, <1>4, <1>5 DEF LifecycleInv

(* The handler goes on with the resource it has read.  The tenant stays or *)
(* goes away; the ID in the status stays, or is given up when it names no  *)
(* tenant; the tenant is past its deletion only if it is not there.        *)
Proceeds ==
  /\ pc \notin {"idle", "AddFinalizer", "StatusUpdate"}
  /\ pc' \notin {"idle", "AddFinalizer"}
  /\ UNCHANGED <<api, cache>>
  /\ "object" \in current' <=> "object" \in current
  /\ obj'.exists = obj.exists /\ obj'.deleting = obj.deleting
  /\ obj'.finalizer = obj.finalizer
  /\ aws'.id = aws.id /\ aws'.exists \in BOOLEAN /\ (aws'.exists => aws.exists)
  /\ \/ obj'.st.id = obj.st.id
     \/ pc' = "StatusUpdate" /\ ~Recorded(obj) /\ ~obj.deleting
  /\ pc' \in {"CleanupDNS", "RemoveFinalizer"} =>
       \/ pc \in {"CleanupDNS", "RemoveFinalizer"}
       \/ ~(aws'.exists /\ aws'.id = obj.st.id)

(* Such a step keeps the invariant.                                        *)
LEMMA ProceedsLifecycle ==
  ASSUME TypeOK, LifecycleInv, Proceeds
  PROVE  LifecycleInv' /\ LifecycleStep
<1>1. Recorded(api)' => Recorded(api)
  BY DEF Proceeds, Recorded
<1>2. FinalizerInv'
  BY DEF Proceeds, LifecycleInv, FinalizerInv, Busy
<1>3. HeldInv'
  BY <1>1 DEF Proceeds, LifecycleInv, HeldInv, Busy
<1>4. IdentityInv'
  BY <1>1 DEF Proceeds, LifecycleInv, IdentityInv, Recorded
<1>5. LifecycleStep
  BY TenantStaysOrGoes DEF Proceeds, TypeOK, AwsType
<1> QED BY <1>2, <1>3, <1>4, <1>5 DEF LifecycleInv

(* The handler ends with a status update, the ID kept.                     *)
LEMMA SetStatusLifecycle ==
  ASSUME TypeOK, LifecycleInv, NEW st, SetStatus(st), st.id = obj.st.id,
         aws'.exists = aws.exists, aws'.id = aws.id,
         pc \notin {"idle", "AddFinalizer", "StatusUpdate"}
  PROVE  LifecycleInv' /\ LifecycleStep
<1>1. Proceeds
  BY DEF SetStatus, Goto, k8s, Proceeds, TypeOK, ObjectType, AwsType
<1> QED BY <1>1, ProceedsLifecycle

(* A terminal error is recorded, or was recorded before.                   *)
LEMMA TerminalErrorLifecycle ==
  ASSUME TypeOK, LifecycleInv, NEW reason, handleTerminalError(reason), UNCHANGED aws,
         pc \notin {"idle", "AddFinalizer", "StatusUpdate"}
  PROVE  LifecycleInv' /\ LifecycleStep
<1>1. CASE conditionMatches(reason)
  BY <1>1, DoneLifecycle DEF handleTerminalError
<1>2. CASE ~conditionMatches(reason)
  <2> DEFINE st == [obj.st EXCEPT
                      !.ready = [reason |-> reason, at |-> pc, gen |-> obj.gen],
                      !.synced = reason]
  <2>1. st.id = obj.st.id
    BY DEF TypeOK, ObjectType, StatusType
  <2>2. SetStatus(st)
    BY <1>2 DEF handleTerminalError
  <2> HIDE DEF st
  <2> QED BY <2>1, <2>2, SetStatusLifecycle
<1> QED BY <1>1, <1>2

(* A write to the API server: refused, or accepted for the latest object.  *)
(* What is stored then must keep the finalizer for as long as a tenant is  *)
(* recorded or a copy shows it.                                            *)
LEMMA WriteLifecycle ==
  ASSUME TypeOK, LifecycleInv, NEW new, NEW again, Write(new, again), UNCHANGED aws,
         "object" \in current =>
           /\ LifecycleStep
           /\ (new.exists /\ new.deleting) => new.finalizer
           /\ new.finalizer => new.exists
           /\ Recorded(new) => new.finalizer
           /\ (cache.finalizer /\ ~cache.deleting) => new.finalizer
  PROVE  LifecycleInv' /\ LifecycleStep
<1>1. CASE ~WriteAccepted
  BY <1>1, DoneLifecycle DEF Write
<1>2. CASE WriteAccepted
  <2>1. /\ api' = new /\ current' = {} /\ pc' = "idle" /\ UNCHANGED <<aws, cache>>
        /\ "object" \in current
    BY <1>2 DEF Write, WriteAccepted, Return
  <2>2. FinalizerInv'
    BY <2>1 DEF LifecycleInv, FinalizerInv, Busy
  <2>3. HeldInv'
    BY <2>1 DEF HeldInv, Busy, Recorded
  <2>4. IdentityInv'
    BY <2>1 DEF IdentityInv
  <2> QED BY <2>1, <2>2, <2>3, <2>4 DEF LifecycleInv
<1> QED BY <1>1, <1>2

(* The four writes of the handler.                                         *)
LEMMA WritesLifecycle ==
  ASSUME TypeOK, ObservedInv, LifecycleInv,
         AddFinalizer \/ StatusUpdate \/ AttachCertificate \/ RemoveFinalizer
  PROVE  LifecycleInv' /\ LifecycleStep
<1> USE DEF TypeOK, ObjectType
<1>1. CASE AddFinalizer
  <2> DEFINE new == [api EXCEPT !.finalizer = TRUE]
  <2>1. /\ new.exists = api.exists /\ new.deleting = api.deleting
        /\ new.finalizer /\ new.st = api.st
    OBVIOUS
  <2>2. Write(new, TRUE) /\ pc = "AddFinalizer" /\ UNCHANGED aws
    BY <1>1 DEF AddFinalizer
  <2> HIDE DEF new
  <2>3. "object" \in current => api.exists /\ ~api.deleting /\ ~api.finalizer
    BY <2>2 DEF LifecycleInv, FinalizerInv, ObservedInv, CopiesInv, DeletingInv,
                Busy, DeletionSteps
  <2>4. "object" \in current => LifecycleStep
    BY <2>1, <2>2, <2>3
       DEF Write, WriteAccepted, LifecycleStep, Lifecycle!Next, Lifecycle!Protect,
           TenantStage, Recorded
  <2> QED BY <2>1, <2>2, <2>3, <2>4, WriteLifecycle
<1>2. CASE StatusUpdate
  <2> DEFINE new == [api EXCEPT !.st = obj.st]
  <2>1. /\ new.exists = api.exists /\ new.deleting = api.deleting
        /\ new.finalizer = api.finalizer /\ new.st = obj.st
    OBVIOUS
  <2>2. Write(new, TRUE) /\ pc = "StatusUpdate" /\ UNCHANGED aws
    BY <1>2 DEF StatusUpdate
  <2> HIDE DEF new
  <2>3. "object" \in current =>
          /\ api.exists /\ api.finalizer
          /\ obj.st.id # api.st.id => ~Recorded(api) /\ ~api.deleting
    BY <2>2 DEF LifecycleInv, FinalizerInv, HeldInv, IdentityInv, ObservedInv,
                CopiesInv, Busy
  <2>4. ASSUME "object" \in current PROVE LifecycleStep
    <3>1. api' = new
      BY <2>2, <2>4 DEF Write, WriteAccepted
    <3>2. CASE obj.st.id = api.st.id
      BY <2>1, <2>2, <3>1, <3>2
         DEF LifecycleStep, Lifecycle!vars, TenantStage, Recorded
    <3>3. CASE obj.st.id # api.st.id
      BY <2>1, <2>2, <2>3, <2>4, <3>1, <3>3
         DEF LifecycleStep, Lifecycle!vars, Lifecycle!Next, Lifecycle!Record,
             TenantStage, Recorded
    <3> QED BY <3>2, <3>3
  <2> QED BY <2>1, <2>2, <2>3, <2>4, WriteLifecycle
<1>3. CASE AttachCertificate
  <2> DEFINE gen == IF obj.spec = api.spec THEN api.gen ELSE api.gen + 1
             new == [api EXCEPT !.spec = obj.spec, !.gen = gen]
  <2>1. /\ new.exists = api.exists /\ new.deleting = api.deleting
        /\ new.finalizer = api.finalizer /\ new.st = api.st
    OBVIOUS
  <2>2. Write(new, FALSE) /\ UNCHANGED aws
    BY <1>3 DEF AttachCertificate
  <2> HIDE DEF new
  <2>3. "object" \in current => LifecycleStep
    BY <2>1, <2>2
       DEF Write, WriteAccepted, LifecycleStep, Lifecycle!vars, TenantStage, Recorded
  <2>4. /\ (new.exists /\ new.deleting) => new.finalizer
        /\ new.finalizer => new.exists
        /\ Recorded(new) => new.finalizer
        /\ (cache.finalizer /\ ~cache.deleting) => new.finalizer
    BY <2>1 DEF LifecycleInv, FinalizerInv, HeldInv, Recorded
  <2> QED BY <2>2, <2>3, <2>4, WriteLifecycle
<1>4. CASE RemoveFinalizer
  <2> DEFINE new == [api EXCEPT !.exists = FALSE, !.finalizer = FALSE]
  <2>1. /\ ~new.exists /\ new.deleting = api.deleting
        /\ ~new.finalizer /\ new.st = api.st
    OBVIOUS
  <2>2. Write(new, FALSE) /\ pc = "RemoveFinalizer" /\ UNCHANGED aws
    BY <1>4 DEF RemoveFinalizer
  <2> HIDE DEF new
  <2>3. "object" \in current =>
          /\ api.exists /\ api.deleting /\ api.finalizer /\ ~Recorded(api)
          /\ cache.deleting
    BY <2>2 DEF LifecycleInv, FinalizerInv, HeldInv, IdentityInv, ObservedInv,
                CopiesInv, DeletingInv, Busy, DeletionSteps
  <2>4. "object" \in current => LifecycleStep
    BY <2>1, <2>2, <2>3
       DEF Write, WriteAccepted, LifecycleStep, Lifecycle!Next, Lifecycle!Release,
           TenantStage, Recorded
  <2> QED BY <2>1, <2>2, <2>3, <2>4, WriteLifecycle DEF Recorded
<1> QED BY <1>1, <1>2, <1>3, <1>4

(* The steps up to the creation of the tenant.                             *)
LEMMA CreateLifecycle ==
  ASSUME TypeOK, ObservedInv, LifecycleInv,
         ValidationPasses \/ ValidationSkipped \/ ValidationFails
           \/ SANsValidated \/ SANsSkipped \/ SANMismatch \/ UpsertDNS
           \/ PollPending \/ PollInsync \/ DNSTerminalError
           \/ CreateAccepted \/ CreateRefused \/ CreateInvalid
  PROVE  LifecycleInv' /\ LifecycleStep
<1> USE DEF TypeOK, ObjectType, StatusType, AwsType
<1>1. CASE ValidationPasses \/ ValidationSkipped
  <2>1. /\ pc = "Validate" /\ GoAhead /\ UNCHANGED aws
    BY <1>1 DEF ValidationPasses, ValidationSkipped
  <2>2. pc' \in {"Update", "UpsertForUpdate", "Create", "PollDNS",
                 "ValidateSANs", "UpsertDNS"}
    BY <2>1 DEF GoAhead, Goto, AfterValidation
  <2>3. Proceeds
    BY <2>1, <2>2 DEF GoAhead, Goto, k8s, Proceeds
  <2> QED BY <2>3, ProceedsLifecycle
<1>2. CASE ValidationFails \/ CreateRefused
  BY <1>2, TerminalErrorLifecycle, DoneLifecycle DEF ValidationFails, CreateRefused
<1>3. CASE SANsValidated \/ SANsSkipped \/ PollInsync
  <2>1. Proceeds
    BY <1>3 DEF SANsValidated, SANsSkipped, PollInsync, Proceeds, Goto, k8s
  <2> QED BY <2>1, ProceedsLifecycle
<1>4. CASE SANMismatch \/ UpsertDNS \/ PollPending \/ DNSTerminalError
  <2>1. PICK st :
          SetStatus(st) /\ st.id = obj.st.id /\ UNCHANGED aws
            /\ pc \in {"ValidateSANs", "UpsertDNS", "PollDNS"}
    BY <1>4 DEF SANMismatch, UpsertDNS, PollPending, DNSTerminalError
  <2> QED BY <2>1, SetStatusLifecycle
<1>5. CASE CreateInvalid
  <2> DEFINE st == [obj.st EXCEPT !.ready = Condition("DomainValidationPending")]
  <2>1. st.id = obj.st.id
    OBVIOUS
  <2>2. /\ SetStatus(st) \/ handleTerminalError("InvalidSpec")
        /\ UNCHANGED aws /\ pc = "Create"
    BY <1>5 DEF CreateInvalid
  <2> HIDE DEF st
  <2> QED BY <2>1, <2>2, SetStatusLifecycle, TerminalErrorLifecycle
<1>6. CASE CreateAccepted
  <2>1. /\ pc = "Create" /\ ~aws.exists /\ pc' = "StatusUpdate"
        /\ UNCHANGED <<api, cache, current>>
        /\ aws'.id = aws.id + 1 /\ aws'.exists
    BY <1>6 DEF CreateAccepted, SetStatus, Goto, k8s
  <2>2. /\ obj'.exists = obj.exists /\ obj'.deleting = obj.deleting
        /\ obj'.finalizer = obj.finalizer
    BY <1>6 DEF CreateAccepted, SetStatus
  <2>3. ~obj.deleting /\ obj.finalizer /\ api.finalizer /\ api.exists
    BY <2>1 DEF ObservedInv, DeletingInv, LifecycleInv, FinalizerInv, HeldInv, Busy,
                DeletionSteps
  <2>4. ~Recorded(api) /\ ~Recorded(api)'
    BY <2>1 DEF Recorded, ObservedInv, IdInv
  <2>5. FinalizerInv'
    BY <2>1, <2>2 DEF LifecycleInv, FinalizerInv, Busy
  <2>6. HeldInv'
    BY <2>1, <2>2, <2>4 DEF LifecycleInv, HeldInv, Busy
  <2>7. IdentityInv'
    BY <2>1, <2>2, <2>3, <2>4 DEF IdentityInv
  <2>8. LifecycleStep
    BY <2>1, <2>3, <2>4
       DEF LifecycleStep, Lifecycle!Next, Lifecycle!Provision, TenantStage
  <2> QED BY <2>5, <2>6, <2>7, <2>8 DEF LifecycleInv
<1> QED BY <1>1, <1>2, <1>3, <1>4, <1>5, <1>6

(* The steps for a tenant that was created before.                         *)
LEMMA ExistingLifecycle ==
  ASSUME TypeOK, ObservedInv, LifecycleInv,
         Get \/ GetNotFound \/ GetCertificate
           \/ SpecChanged \/ EnforceDrift \/ LeaveDrift
           \/ CertificateIssued \/ StillDeploying \/ SteadyState
           \/ CleanupOrphans \/ UpsertForUpdate \/ UpsertForUpdateFails
           \/ UpdateAccepted \/ UpdateRefused \/ UpdateInvalid
  PROVE  LifecycleInv' /\ LifecycleStep
<1> USE DEF TypeOK, ObjectType, StatusType, AwsType
<1>1. CASE Get
  <2>1. Proceeds
    BY <1>1 DEF Get, Answer, k8s, Proceeds
  <2> QED BY <2>1, ProceedsLifecycle
<1>2. CASE GetNotFound
  <2>1. ~obj.deleting
    BY <1>2 DEF GetNotFound, ObservedInv, DeletingInv, Busy, DeletionSteps
  <2>2. Proceeds
    BY <1>2, <2>1 DEF GetNotFound, SetStatus, Goto, k8s, Proceeds, TenantFound,
                      Recorded
  <2> QED BY <2>2, ProceedsLifecycle
<1>3. CASE GetCertificate \/ SpecChanged \/ CleanupOrphans
  <2>1. Proceeds
    BY <1>3 DEF GetCertificate, SpecChanged, CleanupOrphans, Goto, k8s, Proceeds
  <2> QED BY <2>1, ProceedsLifecycle
<1>4. CASE EnforceDrift \/ CertificateIssued \/ UpsertForUpdate
  <2>1. Proceeds
    BY <1>4 DEF EnforceDrift, CertificateIssued, UpsertForUpdate, Goto, k8s, Proceeds
  <2> QED BY <2>1, ProceedsLifecycle
<1>5. CASE SteadyState
  <2>1. Proceeds
    BY <1>5 DEF SteadyState, Goto, k8s, Proceeds
  <2> QED BY <2>1, ProceedsLifecycle
<1>6. CASE LeaveDrift \/ StillDeploying \/ UpsertForUpdateFails
  <2>1. PICK st :
          SetStatus(st) /\ st.id = obj.st.id /\ UNCHANGED aws
            /\ pc \in {"Detect", "UpsertForUpdate"}
    BY <1>6 DEF LeaveDrift, StillDeploying, UpsertForUpdateFails
  <2> QED BY <2>1, SetStatusLifecycle
<1>7. CASE UpdateAccepted
  <2>1. PICK st :
          SetStatus(st) /\ st.id = obj.st.id /\ pc = "Update"
            /\ aws'.exists = aws.exists /\ aws'.id = aws.id
    BY <1>7 DEF UpdateAccepted
  <2> QED BY <2>1, SetStatusLifecycle
<1>8. CASE UpdateRefused \/ UpdateInvalid
  BY <1>8, DoneLifecycle, TerminalErrorLifecycle DEF UpdateRefused, UpdateInvalid
<1> QED BY <1>1, <1>2, <1>3, <1>4, <1>5, <1>6, <1>7, <1>8

(* The steps of a deletion.                                                *)
LEMMA DeletionLifecycle ==
  ASSUME TypeOK, LifecycleInv,
         GetForDelete \/ AlreadyDeleted \/ DisableAccepted \/ DisableRefused
           \/ DeleteAccepted \/ DeleteRefused \/ CleanupDNS \/ CleanupDNSFails
  PROVE  LifecycleInv' /\ LifecycleStep
<1> USE DEF TypeOK, ObjectType, StatusType, AwsType
<1>1. CASE GetForDelete
  <2>1. Proceeds
    BY <1>1 DEF GetForDelete, Answer, k8s, Proceeds
  <2> QED BY <2>1, ProceedsLifecycle
<1>2. CASE AlreadyDeleted \/ CleanupDNS
  <2>1. Proceeds
    BY <1>2 DEF AlreadyDeleted, CleanupDNS, Goto, k8s, Proceeds, TenantFound
  <2> QED BY <2>1, ProceedsLifecycle
<1>3. CASE DeleteAccepted
  <2>1. Proceeds
    BY <1>3 DEF DeleteAccepted, NoTenant, Goto, k8s, Proceeds
  <2> QED BY <2>1, ProceedsLifecycle
<1>4. CASE DisableAccepted
  <2>1. PICK st :
          SetStatus(st) /\ st.id = obj.st.id /\ pc = "Disable"
            /\ aws'.exists = aws.exists /\ aws'.id = aws.id
    BY <1>4 DEF DisableAccepted
  <2> QED BY <2>1, SetStatusLifecycle
<1>5. CASE DisableRefused \/ DeleteRefused \/ CleanupDNSFails
  BY <1>5, DoneLifecycle DEF DisableRefused, DeleteRefused, CleanupDNSFails
<1> QED BY <1>1, <1>2, <1>3, <1>4, <1>5

-----------------------------------------------------------------------------
(* Faults, and the steps of users, the watch and CloudFront.               *)

(* A user stores another version of the resource.                          *)
LEMMA StoredLifecycle ==
  ASSUME LifecycleInv, NEW new, Stored(new), new.st = api.st,
         (new.exists /\ new.deleting) => new.finalizer,
         new.finalizer = api.finalizer, new.finalizer => new.exists
  PROVE  LifecycleInv'
<1>1. /\ api' = new /\ UNCHANGED <<cache, pc, obj, aws>>
      /\ "object" \notin current'
  BY DEF Stored, worker
<1>2. FinalizerInv' /\ IdentityInv'
  BY <1>1 DEF LifecycleInv, FinalizerInv, IdentityInv, Busy
<1>3. HeldInv'
  BY <1>1 DEF LifecycleInv, HeldInv, Busy, Recorded
<1> QED BY <1>2, <1>3 DEF LifecycleInv

(* Faults, and the environment.                                            *)
LEMMA EnvironmentLifecycle ==
  ASSUME TypeOK, ObservedInv, LifecycleInv,
         CallFails \/ AWSTerminalError \/ Restart \/ Environment
  PROVE  LifecycleInv' /\ LifecycleStep
<1> USE DEF TypeOK, ObjectType, AwsType
<1>1. CASE CallFails \/ AWSTerminalError
  BY <1>1, DoneLifecycle, TerminalErrorLifecycle DEF CallFails, AWSTerminalError
<1>2. CASE Restart \/ WatchDeliver
  <2>1. /\ cache' = api /\ UNCHANGED <<api, aws>>
        /\ \/ pc' = "idle" /\ "object" \notin current'
           \/ /\ UNCHANGED <<pc, obj>>
              /\ "object" \in current' <=> "object" \in current
    BY <1>2 DEF Restart, WatchDeliver, worker
  <2>2. FinalizerInv'
    BY <2>1 DEF LifecycleInv, FinalizerInv, Busy
  <2>3. HeldInv'
    BY <2>1 DEF LifecycleInv, HeldInv, Busy, Recorded, ObservedInv, DeletingInv
  <2>4. IdentityInv'
    BY <2>1 DEF LifecycleInv, IdentityInv, Recorded
  <2>5. LifecycleStep
    BY <2>1, TenantStaysOrGoes
  <2> QED BY <2>2, <2>3, <2>4, <2>5 DEF LifecycleInv
<1>3. CASE EditSpec
  <2>1. PICK s : Stored([api EXCEPT !.spec = s, !.gen = api.gen + 1])
    BY <1>3 DEF EditSpec
  <2> DEFINE new == [api EXCEPT !.spec = s, !.gen = api.gen + 1]
  <2>2. /\ new.st = api.st /\ new.exists = api.exists
        /\ new.deleting = api.deleting /\ new.finalizer = api.finalizer
    OBVIOUS
  <2>3. Stored(new)
    BY <2>1
  <2> HIDE DEF new
  <2>4. LifecycleStep
    BY <2>2, <2>3 DEF Stored, LifecycleStep, Lifecycle!vars, TenantStage, Recorded
  <2>5. /\ (new.exists /\ new.deleting) => new.finalizer
        /\ new.finalizer => new.exists
    BY <2>2 DEF LifecycleInv, FinalizerInv, HeldInv
  <2> QED BY <2>2, <2>3, <2>4, <2>5, StoredLifecycle
<1>4. CASE DeleteCR
  <2>1. CASE api.finalizer
    <3> DEFINE new == [api EXCEPT !.deleting = TRUE, !.gen = api.gen + 1]
    <3>1. /\ new.st = api.st /\ new.exists = api.exists
          /\ new.deleting /\ new.finalizer = api.finalizer
      OBVIOUS
    <3>2. Stored(new) /\ api.exists /\ ~api.deleting
      BY <1>4, <2>1 DEF DeleteCR
    <3> HIDE DEF new
    <3>3. LifecycleStep
      BY <2>1, <3>1, <3>2
         DEF Stored, LifecycleStep, Lifecycle!Next, Lifecycle!Delete, TenantStage,
             Recorded
    <3> QED BY <2>1, <3>1, <3>2, <3>3, StoredLifecycle
  <2>2. CASE ~api.finalizer
    <3> DEFINE new == [api EXCEPT !.exists = FALSE]
    <3>1. /\ new.st = api.st /\ ~new.exists
          /\ new.deleting = api.deleting /\ new.finalizer = api.finalizer
      OBVIOUS
    <3>2. Stored(new) /\ api.exists /\ ~api.deleting
      BY <1>4, <2>2 DEF DeleteCR
    <3> HIDE DEF new
    <3>3. LifecycleStep
      BY <2>2, <3>1, <3>2
         DEF Stored, LifecycleStep, Lifecycle!Next, Lifecycle!Delete, TenantStage,
             Recorded
    <3> QED BY <2>2, <3>1, <3>2, <3>3, StoredLifecycle
  <2> QED BY <2>1, <2>2
<1>5. CASE Deploy \/ Activate \/ DecideCertificate \/ ExternalUpdate \/ ExternalDelete
  <2>1. /\ UNCHANGED <<api, cache, pc, obj>>
        /\ "object" \in current' <=> "object" \in current
        /\ aws'.id = aws.id /\ aws'.exists \in BOOLEAN /\ (aws'.exists => aws.exists)
    <3>1. CASE Deploy \/ Activate \/ DecideCertificate
      BY <3>1 DEF Deploy, Activate, DecideCertificate, k8s, worker
    <3>2. CASE ExternalUpdate
      <4>1. PICK c, e : Meddle([aws EXCEPT !.by = "external", !.deployed = FALSE,
                                           !.cfg.config = c, !.cfg.enabled = e])
        BY <3>2 DEF ExternalUpdate
      <4> QED BY <4>1 DEF Meddle, k8s, worker
    <3>3. CASE ExternalDelete
      BY <3>3 DEF ExternalDelete, Meddle, NoTenant, k8s, worker
    <3> QED BY <1>5, <3>1, <3>2, <3>3
  <2>2. Recorded(api)' => Recorded(api)
    BY <2>1 DEF Recorded
  <2>3. FinalizerInv' /\ HeldInv' /\ IdentityInv'
    BY <2>1, <2>2 DEF LifecycleInv, FinalizerInv, HeldInv, IdentityInv, Busy
  <2>4. LifecycleStep
    BY <2>1, TenantStaysOrGoes
  <2> QED BY <2>3, <2>4 DEF LifecycleInv
<1> QED BY <1>1, <1>2, <1>3, <1>4, <1>5 DEF Environment

(* Every step keeps the invariant and is a step of TenantLifecycle.        *)
LEMMA LifecycleSteps ==
  TypeOK /\ ObservedInv /\ LifecycleInv /\ [Next]_vars => LifecycleInv' /\ LifecycleStep
<1> SUFFICES ASSUME TypeOK, ObservedInv, LifecycleInv, [Next]_vars
             PROVE  LifecycleInv' /\ LifecycleStep
  OBVIOUS
<1>1. CASE Reconcile
  <2>1. /\ obj' = cache /\ pc' = Entry(cache) /\ UNCHANGED <<api, cache, aws>>
        /\ "object" \in current' => "cache" \in current \/ "object" \in current
        /\ pc = "idle" /\ cache.exists
    BY <1>1 DEF Reconcile, Dequeue
  <2>2. /\ pc' \in {"CleanupDNS", "GetForDelete", "AddFinalizer", "Validate", "Get"}
        /\ pc' = "AddFinalizer" <=> ~cache.deleting /\ ~cache.finalizer
        /\ pc' = "CleanupDNS" => cache.st.id = 0
    BY <2>1 DEF Entry, TypeOK, ObjectType, StatusType
  <2>3. "object" \in current' => cache = api
    BY <2>1 DEF ObservedInv, CopiesInv, Busy
  <2>4. FinalizerInv'
    BY <2>1, <2>2, <2>3 DEF LifecycleInv, FinalizerInv, Busy, TypeOK, ObjectType
  <2>5. HeldInv'
    BY <2>1, <2>2 DEF LifecycleInv, HeldInv, Busy, Recorded
  <2>6. api.st.id = 0 => ~Recorded(api)
    BY DEF Recorded, ObservedInv, IdInv, TypeOK, AwsType
  <2>7. IdentityInv'
    BY <2>1, <2>2, <2>3, <2>6 DEF IdentityInv, Recorded
  <2>8. LifecycleStep
    BY <2>1, TenantStaysOrGoes DEF TypeOK, AwsType
  <2> QED BY <2>4, <2>5, <2>7, <2>8 DEF LifecycleInv
<1>2. CASE ReconcileGone \/ UNCHANGED vars
  <2>1. UNCHANGED <<api, cache, current, pc, obj, aws>>
    BY <1>2 DEF ReconcileGone, worker, vars, k8s
  <2>2. FinalizerInv' /\ HeldInv' /\ IdentityInv'
    BY <2>1 DEF LifecycleInv, FinalizerInv, HeldInv, IdentityInv, Busy, Recorded
  <2>3. LifecycleStep
    BY <2>1, TenantStaysOrGoes DEF TypeOK, AwsType
  <2> QED BY <2>2, <2>3 DEF LifecycleInv
<1> QED
  BY <1>1, <1>2, WritesLifecycle, CreateLifecycle, ExistingLifecycle,
     DeletionLifecycle, EnvironmentLifecycle
     DEF Next, Worker, Faults

(* The invariants of this module hold in every reachable state.            *)
LEMMA LifecycleInvariance == Spec => []LifecycleInv
<1>1. Init => LifecycleInv
  <2> SUFFICES ASSUME Init PROVE LifecycleInv
    OBVIOUS
  <2>1. PICK s \in Specs :
          api = [exists |-> TRUE, deleting |-> FALSE, finalizer |-> FALSE,
                 gen |-> 1, spec |-> s, st |-> NewStatus]
    BY DEF Init
  <2>2. /\ cache = api /\ current = {"cache"} /\ pc = "idle" /\ ~aws.exists
    BY DEF Init, NoTenant
  <2> QED
    BY <2>1, <2>2 DEF LifecycleInv, FinalizerInv, HeldInv, IdentityInv, Busy, Recorded
<1> QED BY <1>1, LifecycleSteps, ObservedInvariance, TypeCorrect, PTL DEF Spec

(* The finalizer holds the resource until the CloudFront tenant its status *)
(* records has been deleted: no interleaving of edits, deletions, stale    *)
(* reads, failed writes, restarts and changes by others leaves a recorded  *)
(* tenant behind.                                                          *)
THEOREM RecordedTenantHeld == Spec => []RecordedTenantNotLeaked
<1>1. LifecycleInv => RecordedTenantNotLeaked
  BY DEF LifecycleInv, HeldInv, RecordedTenantNotLeaked
<1> QED BY <1>1, LifecycleInvariance, PTL

(* The reconciler implements the safety part of TenantLifecycle: every     *)
(* call is one of its steps or changes nothing it shows, so the tenant is  *)
(* created only under a stored finalizer, it is recorded only for a        *)
(* resource that is not being deleted, and the finalizer is released only  *)
(* when no recorded tenant is left.                                        *)
THEOREM LifecycleRefinement == Spec => Lifecycle!Safety
<1>1. Init => Lifecycle!Init
  <2> SUFFICES ASSUME Init PROVE Lifecycle!Init
    OBVIOUS
  <2>1. /\ api.exists = TRUE /\ api.deleting = FALSE /\ api.finalizer = FALSE
        /\ ~aws.exists
    BY DEF Init, NoTenant
  <2> QED BY <2>1 DEF Lifecycle!Init, TenantStage, Recorded
<1>2. TypeOK /\ ObservedInv /\ LifecycleInv /\ [Next]_vars
        => [Lifecycle!Next]_(Lifecycle!vars)
  BY LifecycleSteps DEF LifecycleStep
<1> QED
  BY <1>1, <1>2, TypeCorrect, ObservedInvariance, LifecycleInvariance, PTL
     DEF Spec, Lifecycle!Safety
=============================================================================
