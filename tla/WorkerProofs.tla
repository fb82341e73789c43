---------------------------- MODULE WorkerProofs ----------------------------
(***************************************************************************)
(* Two promises of the worker's loop, for every value of the constants:    *)
(* it overwrites only what it has read, and it does not forget a resource. *)
(***************************************************************************)
EXTENDS DistributionTenantProofs

(* The steps whose handler is past its calls to CloudFront.                *)
PastTenant == {"StatusUpdate", "CleanupDNS", "RemoveFinalizer"}

(* The handler's copy after a call: the ID stays or is given up, and the   *)
(* certificate's condition stays or follows from what was read.            *)
Carries(o) ==
  /\ o.spec.managed = obj.spec.managed
  /\ o.st.id \in {obj.st.id, 0}
  /\ o.st.certReady \in
       {obj.st.certReady, CertificateCondition(obj.spec, details, got.active)}

(* The handler goes on to another call, or returns and is to run again.    *)
Continues ==
  /\ Busy /\ pc \notin PastTenant /\ pc' \notin {"idle", "GetCertificate"}
  /\ UNCHANGED <<api, cache, got, current, aws, cert>>
  /\ Carries(obj')
  /\ details' = details \/ (pc = "GetCertificate" /\ details' \in {cert, "none"})
  /\ pc' = "AttachCertificate" => details = "issued"
Ends == Done(TRUE) /\ UNCHANGED <<aws, cert>>

(* The calls that leave the tenant as it is and bring no answer of it: the *)
(* handler goes on, or returns and runs again.                             *)
LEMMA CallsContinueOrEnd ==
  ASSUME TypeOK,
         ValidationPasses \/ ValidationSkipped \/ ValidationFails
           \/ SANsValidated \/ SANsSkipped \/ SANMismatch \/ UpsertDNS
           \/ PollPending \/ PollInsync \/ DNSTerminalError \/ CreateRefused
           \/ CreateInvalid \/ GetNotFound \/ GetCertificate \/ SpecChanged
           \/ EnforceDrift \/ LeaveDrift
           \/ CertificateIssued \/ StillDeploying \/ SteadyState
           \/ CleanupOrphans \/ UpsertForUpdate \/ UpsertForUpdateFails
           \/ UpdateRefused \/ UpdateInvalid \/ AlreadyDeleted
           \/ DisableRefused \/ DeleteRefused \/ CleanupDNSFails
           \/ CallFails \/ AWSTerminalError
  PROVE  Continues \/ Ends
<1> USE DEF PastTenant, Busy
<1> DEFINE Calling == UNCHANGED <<aws, cert>> /\ Busy /\ pc \notin PastTenant
<1>1. ASSUME NEW step, Goto(step), Calling, Carries(obj'),
             step \notin {"idle", "GetCertificate"},
             step = "AttachCertificate" => details = "issued"
      PROVE  Continues
  BY <1>1 DEF Goto, k8s, Continues
<1>2. ASSUME NEW st, SetStatus(st), Calling, st.id \in {obj.st.id, 0},
             \/ st.certReady = obj.st.certReady
             \/ st.certReady = CertificateCondition(obj.spec, details, got.active)
      PROVE  Continues
  <2>1. Carries(obj')
    BY <1>2 DEF SetStatus, Carries, TypeOK, ObjectType
  <2> QED BY <1>2, <1>1, <2>1 DEF SetStatus
<1>3. ASSUME NEW reason, handleTerminalError(reason), Calling
      PROVE  Continues \/ Ends
  <2> DEFINE st == [obj.st EXCEPT
                      !.ready = [reason |-> reason, at |-> pc, gen |-> obj.gen],
                      !.synced = reason]
  <2>1. Done(TRUE) \/ SetStatus(st)
    BY <1>3 DEF handleTerminalError
  <2>2. st.id = obj.st.id /\ st.certReady = obj.st.certReady
    BY DEF TypeOK, ObjectType, StatusType
  <2> HIDE DEF st
  <2> QED BY <1>2, <1>3, <2>1, <2>2 DEF Ends
<1>4. CASE ValidationPasses \/ ValidationSkipped
  <2>1. AfterValidation(obj) \notin {"idle", "GetCertificate", "AttachCertificate"}
    BY DEF AfterValidation, TypeOK, ObjectType, StatusType
  <2>2. GoAhead /\ Calling
    BY <1>4 DEF ValidationPasses, ValidationSkipped
  <2>3. Carries(obj')
    BY <2>2 DEF GoAhead, Carries, TypeOK, ObjectType, StatusType
  <2> QED BY <1>1, <2>1, <2>2, <2>3 DEF GoAhead
<1>5. CASE ValidationFails \/ UpdateInvalid \/ AWSTerminalError
  BY <1>3, <1>5 DEF ValidationFails, UpdateInvalid, AWSTerminalError
<1>6. CASE SANsValidated \/ SANsSkipped \/ PollInsync \/ SpecChanged
             \/ EnforceDrift \/ CertificateIssued \/ SteadyState
             \/ CleanupOrphans \/ UpsertForUpdate \/ AlreadyDeleted
  <2>1. PICK step \in Steps \ {"idle", "GetCertificate"} :
          /\ Goto(step) /\ Calling
          /\ step = "AttachCertificate" => details = "issued"
    BY <1>6 DEF SANsValidated, SANsSkipped, PollInsync, SpecChanged,
       EnforceDrift, CertificateIssued, CertificateToAttach, SteadyState,
       CleanupOrphans, UpsertForUpdate, AlreadyDeleted, Steps
  <2>2. ASSUME SteadyState PROVE Carries(obj')
    BY <2>2 DEF SteadyState, Carries, allDomainsActive, TypeOK, ObjectType,
                StatusType
  <2>3. ASSUME ~SteadyState PROVE Carries(obj')
    BY <1>6, <2>3 DEF SANsValidated, SANsSkipped, PollInsync, SpecChanged,
       EnforceDrift, CertificateIssued, CleanupOrphans, UpsertForUpdate,
       AlreadyDeleted, Carries, TypeOK, ObjectType, SpecType, StatusType
  <2>4. Carries(obj')
    BY <2>2, <2>3
  <2> QED BY <1>1, <2>1, <2>4
<1>7. CASE SANMismatch \/ UpsertDNS \/ PollPending \/ DNSTerminalError
             \/ GetNotFound \/ LeaveDrift \/ StillDeploying
             \/ UpsertForUpdateFails
  <2>1. Calling
    BY <1>7 DEF SANMismatch, UpsertDNS, PollPending, DNSTerminalError,
       GetNotFound, LeaveDrift, StillDeploying,
       UpsertForUpdateFails
  <2>2. CASE StillDeploying
    <3> DEFINE st == [obj.st EXCEPT
          !.obs = obj.gen, !.ready = Condition("Deploying"), !.synced = "InSync",
          !.certReady = CertificateCondition(obj.spec, details, got.active)]
    <3>1. /\ st.id = obj.st.id
          /\ st.certReady = CertificateCondition(obj.spec, details, got.active)
      BY DEF TypeOK, ObjectType, StatusType
    <3>2. SetStatus(st)
      BY <2>2 DEF StillDeploying, allDomainsActive
    <3> HIDE DEF st
    <3> QED BY <1>2, <2>1, <3>1, <3>2
  <2>3. CASE ~StillDeploying
    <3> USE DEF SetStatus, TypeOK, ObjectType, StatusType
    <3> DEFINE Same == /\ obj'.st.id = obj.st.id
                       /\ obj'.st.certReady = obj.st.certReady
                       /\ obj'.spec.managed = obj.spec.managed
    <3>1. ASSUME SANMismatch PROVE Same
      BY <3>1 DEF SANMismatch
    <3>2. ASSUME UpsertDNS PROVE Same
      BY <3>2 DEF UpsertDNS
    <3>3. ASSUME PollPending PROVE Same
      BY <3>3 DEF PollPending
    <3>4. ASSUME DNSTerminalError PROVE Same
      BY <3>4 DEF DNSTerminalError
    <3>5. ASSUME LeaveDrift PROVE Same
      BY <3>5 DEF LeaveDrift
    <3>6. ASSUME UpsertForUpdateFails PROVE Same
      <4>1. PICK target :
              SetStatus([obj.st EXCEPT !.target = target, !.dns = "DNSError"])
        BY <3>6 DEF UpsertForUpdateFails
      <4> QED BY <4>1
    <3>7. ASSUME GetNotFound
          PROVE  /\ obj'.st.id = 0 /\ obj'.st.certReady = obj.st.certReady
                 /\ obj'.spec.managed = obj.spec.managed
      BY <3>7 DEF GetNotFound
    <3>8. Carries(obj')
      BY <1>7, <2>3, <3>1, <3>2, <3>3, <3>4, <3>5, <3>6, <3>7 DEF Carries
    <3>9. Goto("StatusUpdate")
      BY <1>7 DEF SANMismatch, UpsertDNS, PollPending, DNSTerminalError,
         GetNotFound, LeaveDrift, StillDeploying,
         UpsertForUpdateFails
    <3> QED BY <1>1, <2>1, <3>8, <3>9
  <2> QED BY <2>2, <2>3
<1>8. CASE CreateRefused
  BY <1>3, <1>8 DEF CreateRefused, Ends
<1>9. CASE CreateInvalid
  <2> DEFINE st == [obj.st EXCEPT !.ready = Condition("DomainValidationPending")]
  <2>1. st.id = obj.st.id /\ st.certReady = obj.st.certReady
    BY DEF TypeOK, ObjectType, StatusType
  <2>2. (SetStatus(st) \/ handleTerminalError("InvalidSpec")) /\ Calling
    BY <1>9 DEF CreateInvalid
  <2> HIDE DEF st
  <2> QED BY <1>2, <1>3, <2>1, <2>2
<1>10. CASE GetCertificate
  BY <1>10 DEF GetCertificate, k8s, Continues, Carries
<1>11. CASE UpdateRefused \/ DisableRefused \/ DeleteRefused
              \/ CleanupDNSFails \/ CallFails
  BY <1>11 DEF UpdateRefused, DisableRefused, DeleteRefused, CleanupDNSFails,
     CallFails, Ends
<1> QED
  BY <1>4, <1>5, <1>6, <1>7, <1>8, <1>9, <1>10, <1>11

-----------------------------------------------------------------------------
(* If-Match.                                                               *)

(* An answer that is marked current belongs to the reconcile that is under *)
(* way, and until that is past its calls to CloudFront it shows the        *)
(* content of the tenant.                                                  *)
AnswerInv ==
  "reply" \in current => Busy /\ (pc \notin PastTenant => got.cfg = aws.cfg)

(* Content that CloudFront had is replaced by the operator only if it is   *)
(* the content of the answer.                                              *)
OverwriteStep ==
  (aws.exists /\ aws'.by = "operator" /\ aws'.cfg # aws.cfg
     /\ externals' = externals)
    => got.cfg = aws.cfg

(* Every step keeps the invariant and overwrites only what was read.       *)
LEMMA AnswerStep ==
  TypeOK /\ AnswerInv /\ [Next]_vars => AnswerInv' /\ OverwriteStep
<1> SUFFICES ASSUME TypeOK, AnswerInv, [Next]_vars
             PROVE  AnswerInv' /\ OverwriteStep
  OBVIOUS
<1> USE DEF AnswerInv, OverwriteStep, PastTenant, Busy
<1>1. CASE Continues
  BY <1>1 DEF Continues
<1>2. CASE Ends
  BY <1>2 DEF Ends, Done
<1>3. CASE Reconcile \/ ReconcileGone \/ UNCHANGED vars
  BY <1>3 DEF Reconcile, ReconcileGone, Dequeue, vars, worker, k8s
<1>4. CASE AddFinalizer \/ StatusUpdate \/ AttachCertificate \/ RemoveFinalizer
  BY <1>4 DEF AddFinalizer, StatusUpdate, AttachCertificate, RemoveFinalizer,
              Write, Done
<1>5. CASE CreateAccepted
  BY <1>5 DEF CreateAccepted, SetStatus, Goto
<1>6. CASE Get \/ GetForDelete
  BY <1>6 DEF Get, GetForDelete, Answer
<1>7. CASE UpdateAccepted \/ DisableAccepted
  BY <1>7 DEF UpdateAccepted, DisableAccepted, SetStatus, Goto, IfMatchHolds
<1>8. CASE DeleteAccepted
  BY <1>8 DEF DeleteAccepted, Goto, IfMatchHolds
<1>9. CASE CleanupDNS
  BY <1>9 DEF CleanupDNS, Goto
<1>10. CASE Restart \/ WatchDeliver
  BY <1>10 DEF Restart, WatchDeliver, worker
<1>11. CASE EditSpec \/ DeleteCR
  BY <1>11 DEF EditSpec, DeleteCR, Stored, worker
<1>12. CASE Deploy \/ Activate \/ DecideCertificate
  BY <1>12 DEF Deploy, Activate, DecideCertificate, worker, TypeOK, AwsType
<1>13. CASE ExternalUpdate \/ ExternalDelete
  <2>1. PICK new : Meddle(new)
    BY <1>13 DEF ExternalUpdate, ExternalDelete
  <2>2. "reply" \notin current' /\ externals' # externals
    BY <2>1 DEF Meddle, TypeOK
  <2> QED BY <2>2
<1> QED
  BY <1>1, <1>2, <1>3, <1>4, <1>5, <1>6, <1>7, <1>8, <1>9, <1>10, <1>11, <1>12,
     <1>13, CallsContinueOrEnd DEF Next, Worker, Faults, Environment

(* Every update, disabling and deletion of a CloudFront tenant replaces    *)
(* the content the same reconcile has read, however others write to the    *)
(* tenant between the read and the call, and wherever the operator was     *)
(* restarted before.                                                       *)
THEOREM OverwriteIsInformed == Spec => OverwritesOnlyWhatItRead
<1>1. Init => AnswerInv
  BY DEF Init, AnswerInv
<1>2. TypeOK /\ AnswerInv /\ [Next]_vars =>
        [(aws.exists /\ aws'.by = "operator" /\ aws'.cfg # aws.cfg
            /\ externals' = externals)
           => got.cfg = aws.cfg]_vars
  BY AnswerStep DEF OverwriteStep
<1> QED
  BY <1>1, <1>2, AnswerStep, TypeCorrect, PTL DEF Spec, OverwritesOnlyWhatItRead

-----------------------------------------------------------------------------
(* Nothing is forgotten.                                                   *)

(* The only step after which nothing leads to another reconcile of an      *)
(* existing resource is the one that attaches a certificate.               *)
LEMMA OnlyAttachingForgets ==
  ASSUME TypeOK, ObservedInv, NeverForgotten, [Next]_vars, ~AttachCertificate
  PROVE  NeverForgotten'
<1> USE DEF NeverForgotten, GenerationChangedPredicate
<1>1. CASE Continues
  BY <1>1 DEF Continues
<1>2. CASE Ends
  BY <1>2 DEF Ends, Done, Return
<1>3. CASE Reconcile
  <2>1. Entry(cache) # "idle"
    BY DEF Entry, TypeOK, ObjectType, StatusType
  <2> QED BY <1>3, <2>1 DEF Reconcile
<1>4. CASE ReconcileGone
  BY <1>4 DEF ReconcileGone, TypeOK, ObjectType
<1>5. CASE UNCHANGED vars
  BY <1>5 DEF vars, worker, k8s
<1>6. CASE AddFinalizer \/ StatusUpdate
  BY <1>6 DEF AddFinalizer, StatusUpdate, Write, Done, Return
<1>7. CASE RemoveFinalizer
  <2>1. CASE WriteAccepted
    <3>1. api' = [api EXCEPT !.exists = FALSE, !.finalizer = FALSE]
      BY <1>7, <2>1 DEF RemoveFinalizer, Write
    <3>2. ~api'.exists
      BY <3>1 DEF TypeOK, ObjectType
    <3> QED BY <3>2
  <2>2. CASE ~WriteAccepted
    BY <1>7, <2>2 DEF RemoveFinalizer, Write, Done, Return
  <2> QED BY <2>1, <2>2
<1>8. CASE CreateAccepted \/ UpdateAccepted \/ DisableAccepted
  BY <1>8 DEF CreateAccepted, UpdateAccepted, DisableAccepted, SetStatus, Goto
<1>9. CASE Get \/ GetForDelete
  BY <1>9 DEF Get, GetForDelete
<1>10. CASE DeleteAccepted \/ CleanupDNS
  BY <1>10 DEF DeleteAccepted, CleanupDNS, Goto
<1>11. CASE Restart \/ WatchDeliver
  BY <1>11 DEF Restart, WatchDeliver, worker
<1>12. cache.gen <= api.gen
  BY DEF ObservedInv, GenerationInv
<1>13. CASE EditSpec
  <2>1. PICK s : Stored([api EXCEPT !.spec = s, !.gen = api.gen + 1])
    BY <1>13 DEF EditSpec
  <2>2. api'.gen = api.gen + 1
    BY <2>1 DEF Stored, TypeOK, ObjectType
  <2>3. api'.gen # cache'.gen
    BY <1>12, <2>1, <2>2 DEF Stored, TypeOK, ObjectType
  <2> QED BY <2>3
<1>14. CASE DeleteCR
  <2>1. \/ api' = [api EXCEPT !.deleting = TRUE, !.gen = api.gen + 1]
        \/ api' = [api EXCEPT !.exists = FALSE]
    BY <1>14 DEF DeleteCR, Stored
  <2>2. UNCHANGED cache
    BY <1>14 DEF DeleteCR, Stored
  <2>3. api'.gen = api.gen + 1 \/ ~api'.exists
    BY <2>1 DEF TypeOK, ObjectType
  <2>4. api'.gen # cache'.gen \/ ~api'.exists
    BY <1>12, <2>2, <2>3 DEF TypeOK, ObjectType
  <2> QED BY <2>4
<1>15. CASE Deploy \/ Activate \/ DecideCertificate
  BY <1>15 DEF Deploy, Activate, DecideCertificate, worker, k8s
<1>16. CASE ExternalUpdate \/ ExternalDelete
  BY <1>16 DEF ExternalUpdate, ExternalDelete, Meddle, worker, k8s
<1> QED
  BY <1>1, <1>2, <1>3, <1>4, <1>5, <1>6, <1>7, <1>8, <1>9, <1>10, <1>11, <1>13,
     <1>14, <1>15, <1>16, CallsContinueOrEnd DEF Next, Worker, Faults, Environment

(* No resource asks for a managed certificate.                             *)
Unmanaged == \A s \in Specs : s.managed = "none"

(* Then no copy of one does, and no certificate is looked up or attached.  *)
UnmanagedInv ==
  /\ api.spec.managed = "none" /\ cache.spec.managed = "none"
  /\ obj.spec.managed = "none" /\ details = "none"
  /\ pc \notin {"GetCertificate", "AttachCertificate"}

(* No step brings a certificate in.                                        *)
LEMMA UnmanagedStep ==
  ASSUME Unmanaged, TypeOK, UnmanagedInv, [Next]_vars
  PROVE  UnmanagedInv'
<1> USE DEF UnmanagedInv
<1>1. CASE Continues
  BY <1>1 DEF Continues, Carries
<1>2. ASSUME NEW again, Return(again), api'.spec.managed = "none"
      PROVE  UnmanagedInv'
  BY <1>2 DEF Return, NoObject, NoSpec
<1>3. CASE Ends
  BY <1>2, <1>3 DEF Ends, Done
<1>4. CASE Reconcile
  <2>1. Entry(cache) \notin {"GetCertificate", "AttachCertificate"}
    BY DEF Entry, TypeOK, ObjectType, StatusType
  <2> QED BY <1>4, <2>1 DEF Reconcile
<1>5. CASE ReconcileGone \/ UNCHANGED vars
  BY <1>5 DEF ReconcileGone, vars, worker, k8s
<1>6. CASE AddFinalizer
  <2>1. api' \in {api, [api EXCEPT !.finalizer = TRUE]} /\ \E again : Return(again)
    BY <1>6 DEF AddFinalizer, Write, Done
  <2>2. api'.spec.managed = "none"
    BY <2>1 DEF TypeOK, ObjectType
  <2> QED BY <1>2, <2>1, <2>2
<1>7. CASE StatusUpdate
  <2>1. api' \in {api, [api EXCEPT !.st = obj.st]} /\ \E again : Return(again)
    BY <1>7 DEF StatusUpdate, Write, Done
  <2>2. api'.spec.managed = "none"
    BY <2>1 DEF TypeOK, ObjectType
  <2> QED BY <1>2, <2>1, <2>2
<1>8. CASE RemoveFinalizer
  <2>1. /\ api' \in {api, [api EXCEPT !.exists = FALSE, !.finalizer = FALSE]}
        /\ \E again : Return(again)
    BY <1>8 DEF RemoveFinalizer, Write, Done
  <2>2. api'.spec.managed = "none"
    BY <2>1 DEF TypeOK, ObjectType
  <2> QED BY <1>2, <2>1, <2>2
<1>9. CASE CreateAccepted \/ UpdateAccepted \/ DisableAccepted
  <2>1. PICK st : SetStatus(st)
    BY <1>9 DEF CreateAccepted, UpdateAccepted, DisableAccepted
  <2> QED BY <2>1 DEF SetStatus, Goto, k8s, TypeOK, ObjectType
<1>10. CASE Get \/ GetForDelete
  BY <1>10 DEF Get, GetForDelete, k8s
<1>11. CASE DeleteAccepted \/ CleanupDNS
  BY <1>11 DEF DeleteAccepted, CleanupDNS, Goto, k8s
<1>12. CASE Restart \/ WatchDeliver
  BY <1>12 DEF Restart, WatchDeliver, worker, NoObject, NoSpec
<1>13. CASE EditSpec
  <2>1. PICK s \in Specs :
          Stored([api EXCEPT !.spec = [s EXCEPT !.cert = @ \/ api.spec.cert],
                             !.gen = api.gen + 1])
    BY <1>13 DEF EditSpec
  <2>2. s.managed = "none" /\ s \in SpecType
    BY TenantDataAssumption DEF Unmanaged
  <2>3. api'.spec.managed = "none"
    BY <2>1, <2>2 DEF Stored, TypeOK, ObjectType, SpecType
  <2> QED BY <2>1, <2>3 DEF Stored, worker
<1>14. CASE DeleteCR
  <2>1. \/ api' = [api EXCEPT !.deleting = TRUE, !.gen = api.gen + 1]
        \/ api' = [api EXCEPT !.exists = FALSE]
    BY <1>14 DEF DeleteCR, Stored
  <2>2. api'.spec.managed = "none"
    BY <2>1 DEF TypeOK, ObjectType
  <2> QED BY <1>14, <2>2 DEF DeleteCR, Stored, worker
<1>15. CASE Deploy \/ Activate \/ DecideCertificate
  BY <1>15 DEF Deploy, Activate, DecideCertificate, worker, k8s
<1>16. CASE ExternalUpdate \/ ExternalDelete
  <2>1. PICK new : Meddle(new)
    BY <1>16 DEF ExternalUpdate, ExternalDelete
  <2> QED BY <2>1 DEF Meddle, worker, k8s
<1>17. ~AttachCertificate
  BY DEF AttachCertificate
<1> QED
  BY <1>1, <1>3, <1>4, <1>5, <1>6, <1>7, <1>8, <1>9, <1>10, <1>11, <1>12,
     <1>13, <1>14, <1>15, <1>16, <1>17, CallsContinueOrEnd
     DEF Next, Worker, Faults, Environment

(* An existing resource that asks for no managed certificate is never      *)
(* forgotten: whatever is edited, lost, restarted or refused, it is        *)
(* queued, being reconciled, on a timer, or about to be queued by an event *)
(* of the watch.  With a managed certificate this fails (run `forgotten'), *)
(* by OnlyAttachingForgets in no other step than AttachCertificate.        *)
THEOREM UnmanagedNeverForgotten ==
  ASSUME Unmanaged
  PROVE  Spec => []NeverForgotten
<1>1. Init => UnmanagedInv /\ NeverForgotten
  <2> SUFFICES ASSUME Init PROVE UnmanagedInv /\ NeverForgotten
    OBVIOUS
  <2>1. PICK s \in Specs :
          api = [exists |-> TRUE, deleting |-> FALSE, finalizer |-> FALSE,
                 gen |-> 1, spec |-> s, st |-> NewStatus]
    BY DEF Init
  <2>2. api.spec.managed = "none"
    BY <2>1 DEF Unmanaged
  <2> QED
    BY <2>2 DEF Init, UnmanagedInv, NeverForgotten, NoObject, NoSpec
<1>2. TypeOK /\ ObservedInv /\ UnmanagedInv /\ NeverForgotten /\ [Next]_vars
        => UnmanagedInv' /\ NeverForgotten'
  <2>1. UnmanagedInv => ~AttachCertificate
    BY DEF UnmanagedInv, AttachCertificate
  <2> QED BY <2>1, UnmanagedStep, OnlyAttachingForgets
<1> QED BY <1>1, <1>2, TypeCorrect, ObservedInvariance, PTL DEF Spec
=============================================================================
