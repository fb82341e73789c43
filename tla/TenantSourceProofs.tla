-------------------------- MODULE TenantSourceProofs --------------------------
(***************************************************************************)
(* The TenantSource reconciler, for every value of the constants: any      *)
(* names, items and source specs, and any number of changes by users,      *)
(* failing calls and restarts.                                             *)
(*                                                                         *)
(* A sync works on copies that users, the tenant controller and the        *)
(* garbage collector outdate while it runs.  The theorems say that it      *)
(* nevertheless writes to no tenant of others, and drops no certificate    *)
(* that the tenant controller has attached.                                *)
(***************************************************************************)
EXTENDS TenantSource, TLAPS

-----------------------------------------------------------------------------
(* Types.                                                                  *)

(* The spec built from a source and an item is a tenant's spec.            *)
LEMMA BuiltType ==
  ASSUME NEW s \in SourceSpecType, NEW item \in ItemType
  PROVE  buildTenantSpec(s, item) \in TenantSpecType
BY DEF buildTenantSpec, SourceSpecType, ItemType, TenantSpecType

(* So is the one an update writes.                                         *)
LEMMA AppliedType ==
  ASSUME NEW dst \in TenantSpecType, NEW src \in TenantSpecType
  PROVE  applyManagedFields(dst, src) \in TenantSpecType
BY DEF applyManagedFields, TenantSpecType

(* What the worker holds between two reconciles is well typed.             *)
LEMMA RestingTypes ==
  /\ NoSpec \in TenantSpecType /\ NoTenant \in TenantType
  /\ NoTenants \in [Names -> TenantType]
  /\ NoItems \in [Names -> ItemType \cup {NoItem}]
  /\ NewStatus \in StatusType /\ NoSource \in SourceType
  /\ NewResult \in ResultType
<1>1. NoSpec \in TenantSpecType
  BY SourceDataAssumption DEF NoSpec, TenantSpecType
<1>2. NoTenant \in TenantType
  BY <1>1 DEF NoTenant, TenantType
<1>3. NewStatus \in StatusType /\ NewResult \in ResultType
  BY DEF NewStatus, StatusType, Reasons, NewResult, ResultType
<1>4. NoSource \in SourceType
  BY <1>3, SourceAssumption DEF NoSource, SourceType
<1> QED BY <1>1, <1>2, <1>3, <1>4 DEF NoTenants, NoItems

(* A deletion leaves a tenant, or none.                                    *)
LEMMA DeletedType ==
  ASSUME NEW t \in TenantType
  PROVE  Deleted(t) \in TenantType
BY RestingTypes DEF Deleted, TenantType

(* The handler returns, with or without a write to the source.             *)
LEMMA ReturnTypes ==
  ASSUME TypeOK, NEW again, Return(again), source' \in SourceType,
         UNCHANGED <<table, tenants, cached>>, events' \in Nat
  PROVE  TypeOK'
BY RestingTypes DEF Return, TypeOK, Steps

(* A write to the source is accepted or refused; the handler returns.      *)
LEMMA WriteTypes ==
  ASSUME TypeOK, NEW new \in SourceType, NEW again, Write(new, again),
         UNCHANGED <<table, tenants, cached, events>>
  PROVE  TypeOK'
<1>1. source' \in SourceType /\ Return(again \/ ~current.object)
  BY DEF Write, TypeOK
<1>2. events' \in Nat
  BY DEF TypeOK
<1> QED BY <1>1, <1>2, ReturnTypes

(* A poll that failed is reported.                                         *)
LEMMA SetStatusTypes ==
  ASSUME TypeOK, NEW st \in StatusType, SetStatus(st), events' \in Nat
  PROVE  TypeOK'
BY RestingTypes DEF SetStatus, cluster, TypeOK, Steps, SourceType

(* A tenant is stored.                                                     *)
LEMMA StoreTypes ==
  ASSUME TypeOK, NEW n \in Names, NEW new \in TenantType, Store(n, new)
  PROVE  /\ tenants' \in [Names -> TenantType]
         /\ current' \in [object : BOOLEAN, cached : SUBSET Names,
                          listed : SUBSET Names]
BY DEF Store, TypeOK

(* The loop is done with a tenant.                                         *)
LEMMA HandledTypes ==
  ASSUME TypeOK, NEW n \in Names, NEW result \in ResultType, Handled(n, result),
         tenants' \in [Names -> TenantType], events' \in Nat,
         current' \in [object : BOOLEAN, cached : SUBSET Names,
                       listed : SUBSET Names]
  PROVE  TypeOK'
BY RestingTypes DEF Handled, TypeOK

(* The results of one turn of the loop.                                    *)
LEMMA ResultTypes ==
  ASSUME TypeOK
  PROVE  /\ Refused \in ResultType /\ Changed \in ResultType
         /\ \A n \in Names, c \in {"create", "update", "delete"} :
              Planned(c, n) \in ResultType
<1> USE DEF TypeOK, ResultType
<1>1. Refused \in ResultType /\ Changed \in ResultType
  BY DEF Refused, Changed
<1>2. ASSUME NEW n \in Names, NEW c \in {"create", "update", "delete"}
      PROVE  Planned(c, n) \in ResultType
  BY <1>2 DEF Planned, Changes
<1> QED BY <1>1, <1>2

(* An item of the loop has a well-typed spec.                              *)
LEMMA DesiredType ==
  ASSUME TypeOK, NEW n \in Names, n \in Discovered
  PROVE  Desired(n) \in TenantSpecType
<1>1. items[n] \in ItemType /\ obj.spec \in SourceSpecType
  BY DEF Discovered, TypeOK, SourceType
<1> QED BY <1>1, BuiltType DEF Desired

(* Events are counted.                                                     *)
LEMMA EventType ==
  ASSUME TypeOK, Event \/ UNCHANGED events
  PROVE  events' \in Nat
BY DEF Event, TypeOK

(* One turn of the loop over the items.                                    *)
LEMMA ItemTypes ==
  ASSUME TypeOK, NEW n \in todo \cap Discovered,
         SyncConflict(n) \/ SyncEqual(n) \/ SyncPlanned(n)
           \/ SyncUpdate(n) \/ SyncCreate(n) \/ SyncCallFails(n)
  PROVE  TypeOK'
<1>1. /\ n \in Names /\ n \in Discovered /\ sr \in ResultType
      /\ tenants \in [Names -> TenantType] /\ tenants[n] \in TenantType
      /\ listed[n].spec \in TenantSpecType
      /\ current \in [object : BOOLEAN, cached : SUBSET Names,
                      listed : SUBSET Names]
  BY DEF TypeOK, TenantType
<1>2. events' \in Nat
  BY EventType DEF SyncConflict, SyncEqual, SyncPlanned, SyncUpdate, SyncCreate,
     SyncCallFails
<1>3. CASE Handled(n, Refused) /\ UNCHANGED <<tenants, current>>
  BY <1>1, <1>2, <1>3, ResultTypes, HandledTypes
<1>4. CASE SyncConflict(n) \/ SyncCallFails(n)
  BY <1>3, <1>4 DEF SyncConflict, SyncCallFails
<1>5. CASE SyncEqual(n)
  BY <1>1, <1>2, <1>5, HandledTypes DEF SyncEqual
<1>6. CASE SyncPlanned(n)
  <2>1. Planned(Verdict(n), n) \in ResultType
    BY <1>1, <1>6, ResultTypes DEF SyncPlanned
  <2> QED BY <1>1, <1>2, <1>6, <2>1, HandledTypes DEF SyncPlanned
<1>7. CASE SyncUpdate(n)
  <2>1. CASE UpdateAccepted(n)
    <3> DEFINE spec == applyManagedFields(listed[n].spec, Desired(n))
               new == [tenants[n] EXCEPT !.spec = spec]
    <3>1. spec \in TenantSpecType
      BY <1>1, DesiredType, AppliedType
    <3> HIDE DEF spec
    <3>2. new \in TenantType
      BY <1>1, <3>1 DEF TenantType
    <3>3. Store(n, new) /\ Handled(n, Changed)
      BY <1>7, <2>1 DEF SyncUpdate, spec
    <3> HIDE DEF new
    <3> QED BY <1>1, <1>2, <3>2, <3>3, ResultTypes, StoreTypes, HandledTypes
  <2> QED BY <1>3, <1>7, <2>1 DEF SyncUpdate
<1>8. CASE SyncCreate(n)
  <2>1. CASE Store(n, NewTenant(n)) /\ Handled(n, Changed)
    <3>1. NewTenant(n) \in TenantType
      BY <1>1, DesiredType DEF NewTenant, TenantType
    <3> QED BY <1>1, <1>2, <2>1, <3>1, ResultTypes, StoreTypes, HandledTypes
  <2> QED BY <1>3, <1>8, <2>1 DEF SyncCreate
<1> QED BY <1>4, <1>5, <1>6, <1>7, <1>8

(* One turn of the loop over the tenants without an item, or of the loop   *)
(* of a deletion.                                                          *)
LEMMA PruneTypes ==
  ASSUME TypeOK, Prune \/ DeleteTenant
  PROVE  TypeOK'
<1>1. CASE Prune
  <2>1. PICK n \in todo : PrunePlanned(n) \/ PruneDelete(n) \/ PruneCallFails(n)
    BY <1>1 DEF Prune
  <2>2. /\ n \in Names /\ tenants \in [Names -> TenantType]
        /\ Deleted(tenants[n]) \in TenantType
        /\ current \in [object : BOOLEAN, cached : SUBSET Names,
                        listed : SUBSET Names]
    BY DeletedType DEF TypeOK
  <2>3. events' \in Nat
    BY <2>1, EventType DEF PrunePlanned, PruneDelete, PruneCallFails
  <2>4. CASE Handled(n, Refused) /\ UNCHANGED <<tenants, current>>
    BY <2>2, <2>3, <2>4, ResultTypes, HandledTypes
  <2>5. CASE PrunePlanned(n)
    BY <2>2, <2>3, <2>5, ResultTypes, HandledTypes DEF PrunePlanned
  <2>6. CASE Store(n, Deleted(tenants[n])) /\ Handled(n, Changed)
    BY <2>2, <2>3, <2>6, ResultTypes, StoreTypes, HandledTypes
  <2> QED BY <2>1, <2>4, <2>5, <2>6 DEF PruneDelete, PruneCallFails
<1>2. CASE DeleteTenant
  <2>1. PICK n \in todo :
          /\ todo' = todo \ {n}
          /\ IF Exists(tenants[n]) THEN Store(n, Deleted(tenants[n]))
                                   ELSE UNCHANGED <<tenants, current>>
    BY <1>2 DEF DeleteTenant
  <2>2. n \in Names /\ Deleted(tenants[n]) \in TenantType
    BY DeletedType DEF TypeOK
  <2>3. /\ tenants' \in [Names -> TenantType]
        /\ current' \in [object : BOOLEAN, cached : SUBSET Names,
                         listed : SUBSET Names]
    BY <2>1, <2>2, StoreTypes DEF TypeOK
  <2> QED BY <1>2, <2>1, <2>3 DEF DeleteTenant, TypeOK
<1> QED BY <1>1, <1>2

(* The other steps of the worker, and the faults.                          *)
LEMMA WorkerTypes ==
  ASSUME TypeOK,
         Reconcile \/ ReconcileGone \/ AddFinalizer \/ InvalidConfig \/ ScanPage
           \/ List \/ EndSync \/ StatusUpdate \/ ListForDelete \/ AwaitDeletion
           \/ RemoveFinalizer \/ Faults
  PROVE  TypeOK'
<1>1. CASE Reconcile
  BY <1>1 DEF Reconcile, TypeOK, Steps
<1>2. CASE ReconcileGone
  BY <1>2 DEF ReconcileGone, TypeOK, local
<1>3. CASE AddFinalizer
  <2>1. [source EXCEPT !.finalizer = TRUE] \in SourceType
    BY DEF TypeOK, SourceType
  <2> QED BY <1>3, <2>1, WriteTypes DEF AddFinalizer
<1>4. CASE InvalidConfig
  <2>1. [obj.st EXCEPT !.reason = "InvalidConfig"] \in StatusType
    BY DEF TypeOK, SourceType, StatusType, Reasons
  <2> QED BY <1>4, <2>1, SetStatusTypes, EventType DEF InvalidConfig
<1>5. CASE ScanPage
  <2>1. PICK page \in SUBSET todo :
          /\ items' = [n \in Names |-> IF n \in page THEN table[n] ELSE items[n]]
          /\ todo' = todo \ page
    BY <1>5 DEF ScanPage
  <2>2. items' \in [Names -> ItemType \cup {NoItem}] /\ todo' \subseteq Names
    BY <2>1 DEF TypeOK
  <2>3. pc' \in Steps /\ UNCHANGED <<cluster, obj, listed, sr, current, events>>
    BY <1>5 DEF ScanPage, Steps
  <2> QED BY <2>2, <2>3 DEF TypeOK, cluster
<1>6. CASE List
  <2>1. Labelled \subseteq Names /\ Discovered \subseteq Names
    BY DEF Labelled, Discovered
  <2>2. listed' \in [Names -> TenantType]
    BY <1>6, RestingTypes DEF List, TypeOK
  <2>3. /\ current' \in [object : BOOLEAN, cached : SUBSET Names,
                         listed : SUBSET Names]
        /\ todo' \subseteq Names /\ pc' \in Steps
    BY <1>6, <2>1 DEF List, TypeOK, Steps
  <2>4. UNCHANGED <<cluster, obj, items, sr, events>>
    BY <1>6 DEF List
  <2> QED BY <2>2, <2>3, <2>4 DEF TypeOK, cluster
<1>7. CASE EndSync
  <2>1. updateSyncStatus \in StatusType
    BY DEF updateSyncStatus, TypeOK, ResultType, StatusType, Reasons
  <2>2. [source EXCEPT !.st = updateSyncStatus] \in SourceType
    BY <2>1 DEF TypeOK, SourceType
  <2> QED BY <1>7, <2>2, WriteTypes DEF EndSync
<1>8. CASE StatusUpdate
  <2>1. [source EXCEPT !.st = obj.st] \in SourceType
    BY DEF TypeOK, SourceType
  <2> QED BY <1>8, <2>1, WriteTypes DEF StatusUpdate
<1>9. CASE ListForDelete
  BY <1>9 DEF ListForDelete, Labelled, cluster, TypeOK, Steps
<1>10. CASE AwaitDeletion
  BY <1>10, ReturnTypes DEF AwaitDeletion, TypeOK
<1>11. CASE RemoveFinalizer
  <2>1. [source EXCEPT !.exists = FALSE, !.finalizer = FALSE] \in SourceType
    BY DEF TypeOK, SourceType
  <2> QED BY <1>11, <2>1, WriteTypes DEF RemoveFinalizer
<1>12. CASE ScanFails
  <2>1. [obj.st EXCEPT !.reason = "PollFailed"] \in StatusType
    BY DEF TypeOK, SourceType, StatusType, Reasons
  <2> QED BY <1>12, <2>1, SetStatusTypes, EventType DEF ScanFails
<1>13. CASE CallFails
  <2>1. source' \in SourceType /\ events' \in Nat
    BY <1>13, EventType DEF CallFails, TypeOK
  <2> QED BY <1>13, <2>1, ReturnTypes DEF CallFails
<1>14. CASE Restart
  <2>1. events' \in Nat
    BY <1>14, EventType DEF Restart
  <2> QED BY <1>14, <2>1, RestingTypes DEF Restart, TypeOK, Steps, SourceType
<1> QED
  BY <1>1, <1>2, <1>3, <1>4, <1>5, <1>6, <1>7, <1>8, <1>9, <1>10, <1>11, <1>12,
     <1>13, <1>14 DEF Faults

(* A tenant is written by someone else.                                    *)
LEMMA StoreTenantTypes ==
  ASSUME TypeOK, NEW n \in Names, NEW new \in TenantType, StoreTenant(n, new),
         Event \/ UNCHANGED events
  PROVE  TypeOK'
<1>1. /\ tenants' \in [Names -> TenantType]
      /\ current' \in [object : BOOLEAN, cached : SUBSET Names,
                       listed : SUBSET Names]
  BY StoreTypes DEF StoreTenant
<1>2. events' \in Nat
  BY EventType
<1> QED BY <1>1, <1>2 DEF StoreTenant, local, TypeOK

(* Users.                                                                  *)
LEMMA UsersTypes ==
  ASSUME TypeOK, Users
  PROVE  TypeOK'
<1>1. CASE EditItem
  <2>1. PICK n \in Meddled, i \in Items \cup {NoItem} : table' = [table EXCEPT ![n] = i]
    BY <1>1 DEF EditItem
  <2>2. table' \in [Names -> ItemType \cup {NoItem}]
    BY <2>1, SourceAssumption DEF TypeOK
  <2>3. events' \in Nat
    BY <1>1, EventType DEF EditItem
  <2> QED BY <1>1, <2>2, <2>3 DEF EditItem, local, TypeOK
<1>2. ASSUME NEW new \in SourceType, StoreSource(new), Event \/ UNCHANGED events
      PROVE  TypeOK'
  <2>1. events' \in Nat
    BY <1>2, EventType
  <2> QED BY <1>2, <2>1 DEF StoreSource, local, TypeOK
<1>3. CASE EditSource
  <2>1. PICK s \in SourceSpecs : StoreSource([source EXCEPT !.spec = s])
    BY <1>3 DEF EditSource
  <2>2. [source EXCEPT !.spec = s] \in SourceType
    BY SourceAssumption DEF TypeOK, SourceType
  <2> QED BY <1>2, <1>3, <2>1, <2>2 DEF EditSource
<1>4. CASE DeleteSource
  <2>1. /\ [source EXCEPT !.deleting = TRUE] \in SourceType
        /\ [source EXCEPT !.exists = FALSE] \in SourceType
    BY DEF TypeOK, SourceType
  <2> QED BY <1>2, <1>4, <2>1 DEF DeleteSource
<1>5. ASSUME NEW n \in Meddled, CreateForeign(n) \/ EditTenant(n) \/ RemoveTenant(n)
      PROVE  TypeOK'
  <2>1. n \in Names /\ tenants[n] \in TenantType
    BY SourceAssumption DEF TypeOK
  <2>2. CASE CreateForeign(n)
    <3>1. PICK label \in BOOLEAN :
            StoreTenant(n, [phase |-> "new", owned |-> FALSE, label |-> label,
                            made |-> FALSE, spec |-> NoSpec])
      BY <2>2 DEF CreateForeign
    <3>2. [phase |-> "new", owned |-> FALSE, label |-> label,
           made |-> FALSE, spec |-> NoSpec] \in TenantType
      BY RestingTypes DEF TenantType
    <3> QED BY <2>1, <2>2, <3>1, <3>2, StoreTenantTypes DEF CreateForeign
  <2>3. CASE EditTenant(n)
    <3>1. ASSUME NEW v \in Values
          PROVE  [tenants[n] EXCEPT !.spec.value = v] \in TenantType
      BY <2>1 DEF TenantType, TenantSpecType
    <3>2. [tenants[n] EXCEPT !.label = FALSE] \in TenantType
      BY <2>1 DEF TenantType
    <3> QED BY <2>1, <2>3, <3>1, <3>2, StoreTenantTypes DEF EditTenant
  <2>4. CASE RemoveTenant(n)
    BY <2>1, <2>4, DeletedType, StoreTenantTypes DEF RemoveTenant
  <2> QED BY <1>5, <2>2, <2>3, <2>4
<1> QED BY <1>1, <1>3, <1>4, <1>5 DEF Users

(* The tenant controller, and Kubernetes.                                  *)
LEMMA ClusterTypes ==
  ASSUME TypeOK, Cluster
  PROVE  TypeOK'
<1>1. PICK n \in Names : \/ Protect(n) \/ AttachCertificate(n) \/ Release(n)
                         \/ Collect(n) \/ WatchDeliver(n)
  BY DEF Cluster
<1>2. tenants[n] \in TenantType
  BY DEF TypeOK
<1>3. CASE Protect(n)
  <2>1. [tenants[n] EXCEPT !.phase = "held"] \in TenantType
    BY <1>2 DEF TenantType
  <2> QED BY <1>3, <2>1, StoreTenantTypes DEF Protect
<1>4. CASE AttachCertificate(n)
  <2>1. [tenants[n] EXCEPT !.spec.cert = "attached"] \in TenantType
    BY <1>2 DEF TenantType, TenantSpecType
  <2> QED BY <1>4, <2>1, StoreTenantTypes DEF AttachCertificate
<1>5. CASE Release(n)
  BY <1>5, RestingTypes, StoreTenantTypes DEF Release
<1>6. CASE Collect(n)
  BY <1>2, <1>6, DeletedType, StoreTenantTypes DEF Collect
<1>7. CASE WatchDeliver(n)
  BY <1>7 DEF WatchDeliver, local, TypeOK
<1> QED BY <1>1, <1>3, <1>4, <1>5, <1>6, <1>7

(* Every step keeps the types.                                             *)
LEMMA TypeStep == TypeOK /\ [Next]_vars => TypeOK'
<1> SUFFICES ASSUME TypeOK, [Next]_vars PROVE TypeOK'
  OBVIOUS
<1>1. CASE UNCHANGED vars
  BY <1>1 DEF vars, cluster, local, TypeOK
<1>2. CASE SyncItem
  BY <1>2, ItemTypes DEF SyncItem
<1> QED
  BY <1>1, <1>2, PruneTypes, WorkerTypes, UsersTypes, ClusterTypes
     DEF Next, Worker

(* The variables keep the types of the resources, the table's items and    *)
(* the syncResult: in particular every spec a sync writes is complete,     *)
(* whichever of its fields the item leaves to the template.                *)
THEOREM SourceTypeCorrect == Spec => []TypeOK
<1>1. Init => TypeOK
  <2> SUFFICES ASSUME Init PROVE TypeOK
    OBVIOUS
  <2>1. table \in [Names -> Items \cup {NoItem}]
    BY SourceAssumption DEF Init
  <2>2. PICK s \in FirstSpecs :
          /\ source = [exists |-> TRUE, deleting |-> FALSE,
                       finalizer |-> \E n \in Names : Established(n),
                       spec |-> s, st |-> NewStatus]
          /\ tenants = [n \in Names |->
                          IF Established(n)
                            THEN [phase |-> "held", owned |-> TRUE, label |-> TRUE,
                                  made |-> TRUE, spec |-> buildTenantSpec(s, table[n])]
                            ELSE NoTenant]
    BY DEF Init
  <2>3. s \in SourceSpecType /\ source \in SourceType
    BY <2>2, SourceAssumption, RestingTypes DEF SourceType
  <2>4. ASSUME NEW n \in Names, Established(n)
        PROVE  buildTenantSpec(s, table[n]) \in TenantSpecType
    <3>1. table[n] \in ItemType
      BY <2>1, <2>4, SourceAssumption DEF Established
    <3> QED BY <2>3, <3>1, BuiltType
  <2>5. tenants \in [Names -> TenantType]
    BY <2>2, <2>4, RestingTypes DEF TenantType
  <2>6. table \in [Names -> ItemType \cup {NoItem}]
    BY <2>1, SourceAssumption
  <2> QED BY <2>3, <2>5, <2>6, RestingTypes DEF Init, TypeOK, Steps
<1> QED BY <1>1, TypeStep, PTL DEF Spec

-----------------------------------------------------------------------------
(* The copies.                                                             *)

(* A copy marked current is what is stored: the informer's, and the listed *)
(* one of a tenant that the loop has still to handle.  Outside the loop    *)
(* nothing is listed.                                                      *)
CopiesInv ==
  /\ \A n \in current.cached : cached[n] = tenants[n]
  /\ \A n \in current.listed : n \in todo => listed[n] = tenants[n]
  /\ pc # "Sync" => current.listed = {}

(* The handler returns.                                                    *)
LEMMA ReturnCopies ==
  ASSUME TypeOK, CopiesInv, NEW again, Return(again), UNCHANGED <<tenants, cached>>
  PROVE  CopiesInv'
BY DEF Return, CopiesInv, TypeOK

(* A poll that failed is reported.                                         *)
LEMMA SetStatusCopies ==
  ASSUME TypeOK, CopiesInv, NEW st, SetStatus(st)
  PROVE  CopiesInv'
BY DEF SetStatus, cluster, CopiesInv, TypeOK

(* A tenant is written, and the worker's copies stay or it is handled.     *)
LEMMA StoreCopies ==
  ASSUME TypeOK, CopiesInv, NEW n \in Names, NEW new, Store(n, new),
         UNCHANGED <<cached, pc>>, todo' \subseteq todo,
         \A m \in Names \ {n} : listed'[m] = listed[m]
  PROVE  CopiesInv'
<1>1. /\ \A m \in Names \ {n} : tenants'[m] = tenants[m]
      /\ current'.cached = current.cached \ {n}
      /\ current'.listed = current.listed \ {n}
  BY DEF Store, TypeOK
<1>2. current.cached \subseteq Names /\ current.listed \subseteq Names
  BY DEF TypeOK
<1> QED BY <1>1, <1>2 DEF CopiesInv

(* The loop is done with a tenant, with or without a write to it.          *)
LEMMA HandledCopies ==
  ASSUME TypeOK, CopiesInv, NEW n \in Names, NEW result, Handled(n, result),
         UNCHANGED <<tenants, current>> \/ \E new : Store(n, new)
  PROVE  CopiesInv'
<1>1. /\ UNCHANGED <<cached, pc>> /\ todo' = todo \ {n}
      /\ \A m \in Names \ {n} : listed'[m] = listed[m]
  BY DEF Handled, TypeOK
<1>2. CASE UNCHANGED <<tenants, current>>
  <2>1. current.listed \subseteq Names
    BY DEF TypeOK
  <2> QED BY <1>1, <1>2, <2>1 DEF CopiesInv
<1>3. CASE \E new : Store(n, new)
  BY <1>1, <1>3, StoreCopies
<1> QED BY <1>2, <1>3

(* Nothing the invariant is about changes, or only the loop's list shrinks.*)
LEMMA KeptCopies ==
  ASSUME CopiesInv, UNCHANGED <<tenants, cached>>,
         current'.cached = current.cached, current'.listed = current.listed,
         UNCHANGED <<listed, todo, pc>> \/ (pc # "Sync" /\ pc' # "Sync")
  PROVE  CopiesInv'
BY DEF CopiesInv

(* Every step keeps it.                                                    *)
LEMMA CopiesStep == TypeOK /\ CopiesInv /\ [Next]_vars => CopiesInv'
<1> SUFFICES ASSUME TypeOK, CopiesInv, [Next]_vars PROVE CopiesInv'
  OBVIOUS
<1>1. CASE Reconcile
  <2>1. /\ UNCHANGED <<tenants, cached>> /\ pc # "Sync" /\ pc' # "Sync"
        /\ current'.cached = current.cached /\ current'.listed = current.listed
    BY <1>1 DEF Reconcile, TypeOK
  <2> QED BY <2>1, KeptCopies
<1>2. CASE ReconcileGone \/ UNCHANGED vars \/ EditItem
  BY <1>2, KeptCopies DEF ReconcileGone, EditItem, vars, cluster, local
<1>3. CASE ScanPage \/ ListForDelete
  BY <1>3, KeptCopies DEF ScanPage, ListForDelete, cluster
<1>4. CASE AddFinalizer \/ EndSync \/ StatusUpdate \/ AwaitDeletion
             \/ RemoveFinalizer \/ CallFails
  BY <1>4, ReturnCopies DEF AddFinalizer, EndSync, StatusUpdate, AwaitDeletion,
     RemoveFinalizer, CallFails, Write
<1>5. CASE InvalidConfig \/ ScanFails
  BY <1>5, SetStatusCopies DEF InvalidConfig, ScanFails
<1>6. CASE List
  <2>1. /\ UNCHANGED <<tenants, cached>> /\ pc' = "Sync"
        /\ current'.cached = current.cached
        /\ current'.listed = current.cached \cap Labelled
        /\ listed' = [n \in Names |-> IF n \in Labelled THEN cached[n] ELSE NoTenant]
    BY <1>6 DEF List, cluster, TypeOK
  <2>2. \A n \in current'.listed : listed'[n] = cached[n]
    BY <2>1 DEF Labelled
  <2> QED BY <2>1, <2>2 DEF CopiesInv
<1>7. CASE SyncItem
  <2>1. PICK n \in todo \cap Discovered :
          \/ SyncConflict(n) \/ SyncEqual(n) \/ SyncPlanned(n)
          \/ SyncUpdate(n) \/ SyncCreate(n) \/ SyncCallFails(n)
    BY <1>7 DEF SyncItem
  <2>2. n \in Names
    BY DEF TypeOK
  <2>3. /\ \E result : Handled(n, result)
        /\ UNCHANGED <<tenants, current>> \/ \E new : Store(n, new)
    BY <2>1 DEF SyncConflict, SyncEqual, SyncPlanned, SyncUpdate, SyncCreate,
       SyncCallFails
  <2> QED BY <2>2, <2>3, HandledCopies
<1>8. CASE Prune
  <2>1. PICK n \in todo : PrunePlanned(n) \/ PruneDelete(n) \/ PruneCallFails(n)
    BY <1>8 DEF Prune
  <2>2. n \in Names
    BY DEF TypeOK
  <2>3. /\ \E result : Handled(n, result)
        /\ UNCHANGED <<tenants, current>> \/ \E new : Store(n, new)
    BY <2>1 DEF PrunePlanned, PruneDelete, PruneCallFails
  <2> QED BY <2>2, <2>3, HandledCopies
<1>9. CASE DeleteTenant
  <2>1. PICK n \in todo :
          /\ todo' = todo \ {n}
          /\ \/ Store(n, Deleted(tenants[n]))
             \/ UNCHANGED <<tenants, current>>
    BY <1>9 DEF DeleteTenant
  <2>2. n \in Names /\ UNCHANGED <<cached, pc, listed>> /\ pc = "DeleteTenants"
    BY <1>9 DEF DeleteTenant, TypeOK
  <2>3. CASE Store(n, Deleted(tenants[n]))
    BY <2>1, <2>2, <2>3, StoreCopies
  <2>4. CASE UNCHANGED <<tenants, current>>
    BY <2>2, <2>4, KeptCopies
  <2> QED BY <2>1, <2>3, <2>4
<1>10. CASE Restart
  BY <1>10 DEF Restart, CopiesInv
<1>11. CASE EditSource \/ DeleteSource
  <2>1. \E new : StoreSource(new)
    BY <1>11 DEF EditSource, DeleteSource
  <2>2. /\ UNCHANGED <<tenants, cached, listed, todo, pc>>
        /\ current'.cached = current.cached /\ current'.listed = current.listed
    BY <2>1 DEF StoreSource, local, TypeOK
  <2> QED BY <2>2, KeptCopies
<1>12. ASSUME NEW n \in Names, NEW new, StoreTenant(n, new)
       PROVE  CopiesInv'
  <2>1. Store(n, new) /\ UNCHANGED <<cached, pc, todo, listed>>
    BY <1>12 DEF StoreTenant, local
  <2> QED BY <2>1, StoreCopies
<1>13. ASSUME NEW n \in Meddled, CreateForeign(n) \/ EditTenant(n) \/ RemoveTenant(n)
       PROVE  CopiesInv'
  <2>1. n \in Names /\ \E new : StoreTenant(n, new)
    BY <1>13, SourceAssumption DEF CreateForeign, EditTenant, RemoveTenant
  <2> QED BY <1>12, <2>1
<1>14. ASSUME NEW n \in Names,
              Protect(n) \/ AttachCertificate(n) \/ Release(n) \/ Collect(n)
       PROVE  CopiesInv'
  <2>1. \E new : StoreTenant(n, new)
    BY <1>14 DEF Protect, AttachCertificate, Release, Collect
  <2> QED BY <1>12, <2>1
<1>15. ASSUME NEW n \in Names, WatchDeliver(n)
       PROVE  CopiesInv'
  <2>1. /\ UNCHANGED <<tenants, pc, listed, todo>>
        /\ current'.cached = current.cached \cup {n}
        /\ current'.listed = current.listed
        /\ cached'[n] = tenants[n]
        /\ \A m \in Names \ {n} : cached'[m] = cached[m]
        /\ current.cached \subseteq Names
    BY <1>15 DEF WatchDeliver, local, TypeOK
  <2> QED BY <2>1 DEF CopiesInv
<1> QED
  BY <1>1, <1>2, <1>3, <1>4, <1>5, <1>6, <1>7, <1>8, <1>9, <1>10, <1>11, <1>13,
     <1>14, <1>15 DEF Next, Worker, Faults, Users, Cluster

(* It holds in every reachable state.                                      *)
LEMMA CopiesInvariance == Spec => []CopiesInv
<1>1. Init => CopiesInv
  BY DEF Init, CopiesInv
<1> QED BY <1>1, CopiesStep, SourceTypeCorrect, PTL DEF Spec

(* The one tenant a turn of the loop may write: one that is not there, or  *)
(* the source's own, which is as it was listed; the write keeps an         *)
(* attached certificate if the tenant is still to have a managed one.      *)
LEMMA SyncWrites ==
  ASSUME TypeOK, CopiesInv, SyncItem
  PROVE  \E n \in Names :
           /\ \A m \in Names \ {n} : tenants'[m] = tenants[m]
           /\ \/ tenants'[n] = tenants[n]
              \/ ~Exists(tenants[n])
              \/ /\ tenants[n].owned
                 /\ (tenants[n].spec.cert = "attached" /\ tenants'[n].spec.managed)
                      => tenants'[n].spec.cert = "attached"
<1>1. PICK n \in todo \cap Discovered :
        \/ SyncConflict(n) \/ SyncEqual(n) \/ SyncPlanned(n)
        \/ SyncUpdate(n) \/ SyncCreate(n) \/ SyncCallFails(n)
  BY DEF SyncItem
<1>2. n \in Names /\ tenants[n] \in TenantType /\ Desired(n) \in TenantSpecType
  BY DesiredType DEF TypeOK
<1>3. CASE UNCHANGED tenants
  BY <1>2, <1>3
<1>4. CASE SyncCreate(n) /\ ~UNCHANGED tenants
  <2>1. Store(n, NewTenant(n)) /\ ~Exists(tenants[n])
    BY <1>4 DEF SyncCreate
  <2> QED BY <1>2, <2>1 DEF Store, TypeOK
<1>5. CASE SyncUpdate(n) /\ ~UNCHANGED tenants
  <2> DEFINE spec == applyManagedFields(listed[n].spec, Desired(n))
  <2>1. /\ Store(n, [tenants[n] EXCEPT !.spec = spec])
        /\ n \in current.listed /\ Verdict(n) = "update"
    BY <1>5 DEF SyncUpdate, UpdateAccepted
  <2>2. listed[n] = tenants[n]
    BY <2>1 DEF CopiesInv
  <2>3. tenants[n].owned
    BY <2>1, <2>2 DEF Verdict
  <2>4. Desired(n).managed => Desired(n).cert = "none"
    BY DEF Desired, buildTenantSpec
  <2>5. /\ spec.managed = Desired(n).managed
        /\ Desired(n).managed => spec.cert = tenants[n].spec.cert
    BY <1>2, <2>2, <2>4 DEF applyManagedFields, TenantSpecType
  <2> HIDE DEF spec
  <2>6. /\ tenants'[n].spec = spec
        /\ \A m \in Names \ {n} : tenants'[m] = tenants[m]
    BY <1>2, <2>1 DEF Store, TypeOK, TenantType
  <2> QED BY <1>2, <2>3, <2>5, <2>6
<1> QED
  BY <1>1, <1>3, <1>4, <1>5 DEF SyncConflict, SyncEqual, SyncPlanned, SyncCallFails

(* The creations and updates of a sync never touch a tenant the source     *)
(* does not own, whatever its label says and however old the list is: the  *)
(* update is bound to the version that was listed, and that one was owned. *)
THEOREM ForeignTenantsSafe == Spec => ForeignSpecKept
<1>1. TypeOK /\ CopiesInv /\ [Next]_vars =>
        [SyncItem => \A n \in Names : Exists(tenants[n]) /\ ~tenants[n].owned
                                        => tenants'[n] = tenants[n]]_vars
  BY SyncWrites
<1> QED
  BY <1>1, SourceTypeCorrect, CopiesInvariance, PTL DEF Spec, ForeignSpecKept

(* A certificate the tenant controller attached survives every update by   *)
(* the source, for as long as the tenant is to have a managed one.         *)
THEOREM AttachedCertificateSurvives == Spec => CertificateKept
<1>1. TypeOK /\ CopiesInv /\ [Next]_vars =>
        [SyncItem =>
           \A n \in Names : Exists(tenants[n]) /\ tenants[n].spec.cert = "attached"
                               /\ tenants'[n].spec.managed
                             => tenants'[n].spec.cert = "attached"]_vars
  BY SyncWrites
<1> QED
  BY <1>1, SourceTypeCorrect, CopiesInvariance, PTL DEF Spec, CertificateKept
=============================================================================
