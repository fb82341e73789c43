-------------------------- MODULE CertificateProofs --------------------------
(***************************************************************************)
(* CertificateReady=True/Validated is said only of a certificate that was  *)
(* issued, for a resource that asks for a managed one throughout.          *)
(***************************************************************************)
EXTENDS WorkerProofs

(* Every spec asks for a managed certificate.                              *)
AlwaysManaged == \A s \in Specs : s.managed # "none"

ManagedInv ==
  /\ api.spec.managed # "none" /\ cache.spec.managed # "none"
  /\ Busy => obj.spec.managed # "none"

(* A status that says Validated of the tenant it records says the truth.   *)
Truthful(o) ==
  (Recorded(o) /\ o.st.certReady = "Validated") => cert \in EverIssued

(* Active domains mean an issued certificate; so does what the worker has  *)
(* read, as long as the tenant it has read it of is there; every copy of   *)
(* the status is truthful.                                                 *)
IssuedInv ==
  /\ aws.active => cert \in EverIssued
  /\ ~Busy => details = "none" /\ ~got.active
  /\ ((details = "issued" \/ got.active) /\ pc # "StatusUpdate" /\ Recorded(obj))
       => cert \in EverIssued
  /\ Truthful(api) /\ Truthful(cache)
  /\ Busy => Truthful(obj)

(* The condition is Validated only for active domains.                     *)
LEMMA ValidatedMeansActive ==
  ASSUME NEW spec \in SpecType, spec.managed # "none",
         NEW status \in CertStates, NEW active \in BOOLEAN,
         CertificateCondition(spec, status, active) = "Validated"
  PROVE  active
BY DEF CertificateCondition, SpecType, ManagedHosts, CertStates

(* The handler goes on.                                                    *)
LEMMA ContinuesIssued ==
  ASSUME TypeOK, ObservedInv, ManagedInv, IssuedInv, Continues
  PROVE  ManagedInv' /\ IssuedInv'
<1>1. /\ UNCHANGED <<api, cache, got, aws, cert>> /\ pc' # "idle" /\ Busy
      /\ pc # "StatusUpdate" /\ Carries(obj')
      /\ details' = details \/ details' \in {cert, "none"}
  BY DEF Continues, PastTenant
<1>2. obj'.spec.managed = obj.spec.managed /\ obj'.st.id \in {obj.st.id, 0}
  BY <1>1 DEF Carries
<1>3. ManagedInv'
  BY <1>1, <1>2 DEF ManagedInv, Busy
<1>4. Recorded(obj)' => Recorded(obj)
  BY <1>1, <1>2 DEF Recorded, ObservedInv, IdInv, TypeOK, AwsType
<1>5. Truthful(obj)'
  <2>1. CASE obj'.st.certReady = obj.st.certReady
    BY <1>1, <1>4, <2>1 DEF IssuedInv, Truthful
  <2>2. CASE obj'.st.certReady = CertificateCondition(obj.spec, details, got.active)
    <3>1. obj'.st.certReady = "Validated" => got.active
      BY <1>1, <2>2, ValidatedMeansActive
         DEF ManagedInv, TypeOK, ObjectType, ReplyType
    <3> QED BY <1>1, <1>4, <3>1 DEF IssuedInv, Truthful
  <2> QED BY <1>1, <2>1, <2>2 DEF Carries
<1>6. ((details' = "issued" \/ got'.active) /\ Recorded(obj)') => cert' \in EverIssued
  BY <1>1, <1>4 DEF IssuedInv, EverIssued
<1>7. Truthful(api)' /\ Truthful(cache)'
  BY <1>1 DEF IssuedInv, Truthful, Recorded
<1>8. IssuedInv'
  BY <1>1, <1>5, <1>6, <1>7 DEF IssuedInv, Busy
<1> QED BY <1>3, <1>8

(* The handler returns, with or without a write of what it holds.          *)
LEMMA ReturnIssued ==
  ASSUME TypeOK, ManagedInv, IssuedInv, NEW again, Return(again),
         UNCHANGED <<aws, cert>>, api'.spec.managed # "none", Truthful(api)'
  PROVE  ManagedInv' /\ IssuedInv'
<1>1. /\ pc' = "idle" /\ details' = "none" /\ ~got'.active
      /\ UNCHANGED <<cache, aws, cert>>
  BY DEF Return, NoReply
<1>2. ManagedInv'
  BY <1>1 DEF ManagedInv, Busy
<1>3. Truthful(cache)'
  BY <1>1 DEF IssuedInv, Truthful, Recorded
<1>4. IssuedInv'
  BY <1>1, <1>3 DEF IssuedInv, Busy
<1> QED BY <1>2, <1>4

(* The four writes store the worker's spec and status, or keep them.       *)
LEMMA WritesIssued ==
  ASSUME TypeOK, ManagedInv, IssuedInv,
         AddFinalizer \/ StatusUpdate \/ AttachCertificate \/ RemoveFinalizer
  PROVE  ManagedInv' /\ IssuedInv'
<1>1. UNCHANGED <<aws, cert>> /\ Busy /\ \E again : Return(again)
  BY DEF AddFinalizer, StatusUpdate, AttachCertificate, RemoveFinalizer, Write,
         Done, Busy
<1>2. api'.spec \in {api.spec, obj.spec} /\ api'.st \in {api.st, obj.st}
  <2> USE DEF TypeOK, ObjectType
  <2>1. CASE AddFinalizer
    <3>1. api' \in {api, [api EXCEPT !.finalizer = TRUE]}
      BY <2>1 DEF AddFinalizer, Write, Done
    <3> QED BY <3>1
  <2>2. CASE StatusUpdate
    <3>1. api' \in {api, [api EXCEPT !.st = obj.st]}
      BY <2>2 DEF StatusUpdate, Write, Done
    <3> QED BY <3>1
  <2>3. CASE AttachCertificate
    <3>1. PICK n : api' \in {api, [api EXCEPT !.spec = obj.spec, !.gen = n]}
      BY <2>3 DEF AttachCertificate, Write, Done
    <3> QED BY <3>1
  <2>4. CASE RemoveFinalizer
    <3>1. api' \in {api, [api EXCEPT !.exists = FALSE, !.finalizer = FALSE]}
      BY <2>4 DEF RemoveFinalizer, Write, Done
    <3> QED BY <3>1
  <2> QED BY <2>1, <2>2, <2>3, <2>4
<1>3. api'.spec.managed # "none"
  BY <1>1, <1>2 DEF ManagedInv
<1>4. Truthful(api)'
  BY <1>1, <1>2 DEF IssuedInv, Truthful, Recorded
<1> QED BY <1>1, <1>3, <1>4, ReturnIssued

(* The calls that change the tenant.                                       *)
LEMMA TenantIssued ==
  ASSUME TypeOK, ObservedInv, ManagedInv, IssuedInv,
         CreateAccepted \/ UpdateAccepted \/ DisableAccepted \/ DeleteAccepted
  PROVE  ManagedInv' /\ IssuedInv'
<1>1. /\ UNCHANGED <<api, cache, got, details>> /\ Busy /\ pc' # "idle"
      /\ obj.spec.managed # "none"
  BY DEF CreateAccepted, UpdateAccepted, DisableAccepted, DeleteAccepted,
         SetStatus, Goto, k8s, Busy, ManagedInv
<1>2. obj'.spec = obj.spec
  <2>1. CASE DeleteAccepted
    BY <2>1 DEF DeleteAccepted
  <2>2. CASE ~DeleteAccepted
    <3>1. PICK st : obj' = [obj EXCEPT !.st = st]
      BY <2>2 DEF CreateAccepted, UpdateAccepted, DisableAccepted, SetStatus
    <3> QED BY <3>1 DEF TypeOK, ObjectType
  <2> QED BY <2>1, <2>2
<1>3. ManagedInv'
  BY <1>1, <1>2 DEF ManagedInv, Busy
<1>4. CASE CreateAccepted
  <2>1. /\ aws'.id = aws.id + 1 /\ ~aws'.active /\ pc' = "StatusUpdate"
    BY <1>1, <1>4 DEF CreateAccepted, SetStatus, Goto
  <2>2. ~Recorded(api)' /\ ~Recorded(cache)'
    BY <1>1, <2>1 DEF Recorded, ObservedInv, IdInv, TypeOK, AwsType, ObjectType,
                      StatusType
  <2>3. obj'.st.certReady = CertificateCondition(obj.spec, "none", FALSE)
    BY <1>1, <1>4 DEF CreateAccepted, SetStatus, StatusAfterCreate, TypeOK,
                      ObjectType, StatusType
  <2>4. obj'.st.certReady # "Validated"
    BY <1>1, <2>3, ValidatedMeansActive DEF TypeOK, ObjectType, CertStates
  <2> QED
    BY <1>1, <1>3, <2>1, <2>2, <2>4 DEF IssuedInv, Truthful, Busy
<1>5. CASE UpdateAccepted \/ DisableAccepted
  <2>1. /\ aws'.id = aws.id /\ aws'.exists = aws.exists
        /\ aws'.active => aws.active
        /\ cert \in EverIssued => cert' \in EverIssued
        /\ pc' = "StatusUpdate"
    BY <1>1, <1>5 DEF UpdateAccepted, DisableAccepted, SetStatus, Goto, TypeOK,
                      AwsType, EverIssued
  <2>2. obj'.st.id = obj.st.id /\ obj'.st.certReady = obj.st.certReady
    <3>1. CASE UpdateAccepted
      BY <3>1 DEF UpdateAccepted, SetStatus, TypeOK, ObjectType, StatusType
    <3>2. CASE DisableAccepted
      BY <3>2 DEF DisableAccepted, SetStatus, TypeOK, ObjectType, StatusType
    <3> QED BY <1>5, <3>1, <3>2
  <2>3. Truthful(api)' /\ Truthful(cache)' /\ Truthful(obj)'
    BY <1>1, <2>1, <2>2 DEF IssuedInv, Truthful, Recorded
  <2> QED
    BY <1>1, <1>3, <2>1, <2>3 DEF IssuedInv, Busy
<1>6. CASE DeleteAccepted
  <2>1. ~aws'.exists /\ ~aws'.active
    BY <1>6 DEF DeleteAccepted, NoTenant
  <2> QED
    BY <1>1, <1>3, <2>1 DEF IssuedInv, Truthful, Recorded, Busy
<1> QED BY <1>4, <1>5, <1>6

(* The steps of users, the watch, ACM and CloudFront.                      *)
LEMMA EnvironmentIssued ==
  ASSUME AlwaysManaged, TypeOK, ManagedInv, IssuedInv, Restart \/ Environment
  PROVE  ManagedInv' /\ IssuedInv'
<1>1. CASE Restart \/ WatchDeliver
  <2>1. /\ cache' = api /\ UNCHANGED <<api, aws, cert>>
        /\ \/ UNCHANGED <<pc, obj, got, details>>
           \/ pc' = "idle" /\ details' = "none" /\ ~got'.active
    BY <1>1 DEF Restart, WatchDeliver, worker, NoReply
  <2>2. ManagedInv'
    BY <2>1 DEF ManagedInv, Busy
  <2>3. Truthful(api)' /\ Truthful(cache)'
    BY <2>1 DEF IssuedInv, Truthful, Recorded
  <2>4. CASE UNCHANGED <<pc, obj, got, details>>
    BY <2>1, <2>2, <2>3, <2>4 DEF IssuedInv, Truthful, Recorded, Busy
  <2>5. CASE pc' = "idle" /\ details' = "none" /\ ~got'.active
    BY <2>1, <2>2, <2>3, <2>5 DEF IssuedInv, Busy
  <2> QED BY <2>1, <2>4, <2>5
<1>2. CASE EditSpec \/ DeleteCR
  <2>1. UNCHANGED <<cache, pc, obj, got, details, aws, cert>>
    BY <1>2 DEF EditSpec, DeleteCR, Stored, worker
  <2>2. api'.st = api.st /\ api'.spec.managed # "none"
    <3>1. CASE EditSpec
      <4>1. PICK s \in Specs :
              Stored([api EXCEPT !.spec = [s EXCEPT !.cert = @ \/ api.spec.cert],
                                 !.gen = api.gen + 1])
        BY <3>1 DEF EditSpec
      <4>2. s.managed # "none" /\ s \in SpecType
        BY TenantDataAssumption DEF AlwaysManaged
      <4> QED BY <4>1, <4>2 DEF Stored, TypeOK, ObjectType, SpecType
    <3>2. CASE DeleteCR
      <4>1. \/ api' = [api EXCEPT !.deleting = TRUE, !.gen = api.gen + 1]
            \/ api' = [api EXCEPT !.exists = FALSE]
        BY <3>2 DEF DeleteCR, Stored
      <4> QED BY <4>1 DEF ManagedInv, TypeOK, ObjectType
    <3> QED BY <1>2, <3>1, <3>2
  <2>3. ManagedInv'
    BY <2>1, <2>2 DEF ManagedInv, Busy
  <2>4. IssuedInv'
    BY <2>1, <2>2 DEF IssuedInv, Truthful, Recorded, Busy
  <2> QED BY <2>3, <2>4
<1>3. CASE Deploy \/ Activate \/ DecideCertificate \/ ExternalUpdate
             \/ ExternalDelete
  <2>1. UNCHANGED <<api, cache, pc, obj, got, details>>
    <3>1. CASE Deploy \/ Activate \/ DecideCertificate
      BY <3>1 DEF Deploy, Activate, DecideCertificate, k8s, worker
    <3>2. CASE ExternalUpdate \/ ExternalDelete
      <4>1. PICK new : Meddle(new)
        BY <3>2 DEF ExternalUpdate, ExternalDelete
      <4> QED BY <4>1 DEF Meddle, k8s, worker
    <3> QED BY <1>3, <3>1, <3>2
  <2>2. \/ ~aws'.exists /\ ~aws'.active
        \/ /\ aws'.exists = aws.exists /\ aws'.id = aws.id
           /\ aws'.active => aws.active \/ cert \in EverIssued
           /\ cert \in EverIssued => cert' \in EverIssued
    <3>1. CASE Deploy \/ Activate \/ DecideCertificate
      BY <3>1 DEF Deploy, Activate, DecideCertificate, EverIssued, TypeOK, AwsType
    <3>2. CASE ExternalUpdate
      <4>1. PICK c, e : Meddle([aws EXCEPT !.by = "external", !.deployed = FALSE,
                                           !.cfg.config = c, !.cfg.enabled = e])
        BY <3>2 DEF ExternalUpdate
      <4>2. UNCHANGED cert
        BY <3>2 DEF ExternalUpdate
      <4> QED BY <4>1, <4>2 DEF Meddle, TypeOK, AwsType
    <3>3. CASE ExternalDelete
      BY <3>3 DEF ExternalDelete, Meddle, NoTenant
    <3> QED BY <1>3, <3>1, <3>2, <3>3
  <2>3. ManagedInv'
    BY <2>1 DEF ManagedInv, Busy
  <2>4. IssuedInv'
    BY <2>1, <2>2 DEF IssuedInv, Truthful, Recorded, Busy
  <2> QED BY <2>3, <2>4
<1> QED BY <1>1, <1>2, <1>3 DEF Environment

(* Every step keeps the invariants.                                        *)
LEMMA IssuedStep ==
  ASSUME AlwaysManaged, TypeOK, ObservedInv, ManagedInv, IssuedInv, [Next]_vars
  PROVE  ManagedInv' /\ IssuedInv'
<1>1. CASE Ends
  <2>1. UNCHANGED <<api, aws, cert>> /\ Return(TRUE)
    BY <1>1 DEF Ends, Done
  <2>2. api'.spec.managed # "none" /\ Truthful(api)'
    BY <2>1 DEF ManagedInv, IssuedInv, Truthful, Recorded
  <2> QED BY <2>1, <2>2, ReturnIssued
<1>2. CASE Reconcile
  <2>1. /\ obj' = cache /\ UNCHANGED <<api, cache, got, details, aws, cert>>
        /\ ~Busy /\ details' = "none" /\ ~got'.active
    BY <1>2 DEF Reconcile, Dequeue, IssuedInv, Busy
  <2> QED BY <2>1 DEF ManagedInv, IssuedInv, Truthful, Recorded, Busy
<1>3. CASE ReconcileGone \/ UNCHANGED vars
  <2>1. UNCHANGED <<api, cache, pc, obj, got, details, aws, cert>>
    BY <1>3 DEF ReconcileGone, vars, worker, k8s
  <2> QED BY <2>1 DEF ManagedInv, IssuedInv, Truthful, Recorded, Busy
<1>4. CASE Get \/ GetForDelete
  <2>1. /\ UNCHANGED <<api, cache, obj, details, aws, cert>> /\ Busy
        /\ pc' # "idle" /\ pc # "StatusUpdate" /\ got'.active = aws.active
    BY <1>4 DEF Get, GetForDelete, Answer, k8s, Busy
  <2> QED BY <2>1 DEF ManagedInv, IssuedInv, Truthful, Recorded, Busy
<1>5. CASE CleanupDNS
  <2>1. /\ UNCHANGED <<api, cache, obj, got, details, aws, cert>> /\ Busy
        /\ pc' # "idle" /\ pc # "StatusUpdate"
    BY <1>5 DEF CleanupDNS, Goto, k8s, Busy
  <2> QED BY <2>1 DEF ManagedInv, IssuedInv, Truthful, Recorded, Busy
<1> QED
  BY <1>1, <1>2, <1>3, <1>4, <1>5, CallsContinueOrEnd, ContinuesIssued,
     WritesIssued, TenantIssued, EnvironmentIssued DEF Next, Worker, Faults

(* A resource that asks for a managed certificate throughout reports       *)
(* CertificateReady=True/Validated of its tenant only when ACM has issued  *)
(* the certificate: also when the answer of the certificate call was lost, *)
(* after the tenant was deleted and created anew, and from any stale copy  *)
(* of the status.                                                          *)
THEOREM ValidatedIsTrue ==
  ASSUME AlwaysManaged
  PROVE  Spec => []ValidatedMeansIssued
<1>1. Init => ManagedInv /\ IssuedInv
  <2> SUFFICES ASSUME Init PROVE ManagedInv /\ IssuedInv
    OBVIOUS
  <2>1. PICK s \in Specs :
          api = [exists |-> TRUE, deleting |-> FALSE, finalizer |-> FALSE,
                 gen |-> 1, spec |-> s, st |-> NewStatus]
    BY DEF Init
  <2>2. api.spec.managed # "none"
    BY <2>1 DEF AlwaysManaged
  <2>3. /\ cache = api /\ pc = "idle" /\ ~aws.exists /\ ~aws.active
        /\ details = "none" /\ ~got.active
    BY DEF Init, NoTenant, NoReply
  <2> QED BY <2>2, <2>3 DEF ManagedInv, IssuedInv, Truthful, Recorded, Busy
<1>2. TypeOK /\ ObservedInv /\ ManagedInv /\ IssuedInv /\ [Next]_vars
        => ManagedInv' /\ IssuedInv'
  BY IssuedStep
<1>3. IssuedInv => ValidatedMeansIssued
  BY DEF IssuedInv, Truthful, ValidatedMeansIssued
<1> QED BY <1>1, <1>2, <1>3, TypeCorrect, ObservedInvariance, PTL DEF Spec
=============================================================================
