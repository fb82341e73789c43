----------------------------- MODULE TenantSource -----------------------------
(***************************************************************************)
(* The reconciler of one TenantSource: it polls a DynamoDB table, compares *)
(* the items with the DistributionTenants that carry the source's label,   *)
(* and creates, updates and deletes tenants.  Around it are the users of   *)
(* the table, of the source and of the tenants, the DistributionTenant     *)
(* controller (as far as TenantLifecycle and the attached certificate go), *)
(* the cache the tenants are read from, the garbage collector of           *)
(* Kubernetes, failing calls and restarts.                                 *)
(*                                                                         *)
(* One call that leaves the process is one step; `pc' names the next one.  *)
(***************************************************************************)
EXTENDS SourceData

CONSTANTS
  Items,        \* the items users put into the table
  SourceSpecs,  \* the specs users give the source
  FirstSpecs,   \* those the source has at the start
  Tables,       \* the table at the start
  Meddled,      \* the names users work on
  MaxEvents     \* bound: changes by users, failing calls and restarts

ASSUME SourceAssumption ==
  /\ Items \subseteq ItemType
  /\ SourceSpecs \subseteq SourceSpecType /\ SourceSpecs # {}
  /\ FirstSpecs \subseteq SourceSpecs
  /\ Tables \subseteq [Names -> Items \cup {NoItem}]
  /\ Meddled \subseteq Names /\ MaxEvents \in Nat

VARIABLES
  \* the cluster and the table
  source,     \* the stored TenantSource
  due,        \* its key is queued or on a timer
  table,      \* the items; NoItem also for a row that cannot be mapped
  tenants,    \* the stored DistributionTenants
  cached,     \* the informer's copies of them
  \* the worker
  pc, obj,    \* the next call, and the worker's copy of the source
  todo,       \* what the current loop has still to handle
  items,      \* the answer of the scan
  listed,     \* the answer of the list
  sr,         \* the syncResult
  current,    \* the copies that are at the latest version
  events      \* what MaxEvents bounds

cluster == <<source, due, table, tenants, cached>>
local   == <<obj, todo, items, listed, sr>>
vars    == <<cluster, pc, local, current, events>>

Steps ==
  {"idle", "AddFinalizer", "Scan", "List", "Sync", "StatusUpdate",
   "ListForDelete", "DeleteTenants", "RemoveFinalizer"}

(* Counts and times of the status are left out but for `touched': one of   *)
(* tenantsCreated, tenantsUpdated and tenantsDeleted is not 0.             *)
Changes    == {"create", "update", "delete"} \X Names
Reasons    == {"", "PollSucceeded", "PollFailed", "InvalidConfig",
               "DryRunComplete", "Conflict"}
StatusType == [reason : Reasons, pending : SUBSET Changes, touched : BOOLEAN]
SourceType == [exists : BOOLEAN, deleting : BOOLEAN, finalizer : BOOLEAN,
               spec : SourceSpecType, st : StatusType]
ResultType == [pending : SUBSET Changes, errs : BOOLEAN, touched : BOOLEAN]

(* phase: absent, without the tenant controller's finalizer, with it, with *)
(* a deletionTimestamp.  owned: an owner reference has the source's UID.   *)
(* made: created by this controller (auxiliary).                           *)
TenantType ==
  [phase : {"none", "new", "held", "deleting"},
   owned : BOOLEAN, label : BOOLEAN, made : BOOLEAN, spec : TenantSpecType]

TypeOK ==
  /\ source \in SourceType /\ due \in BOOLEAN
  /\ table \in [Names -> ItemType \cup {NoItem}]
  /\ tenants \in [Names -> TenantType] /\ cached \in [Names -> TenantType]
  /\ pc \in Steps /\ obj \in SourceType /\ todo \subseteq Names
  /\ items \in [Names -> ItemType \cup {NoItem}]
  /\ listed \in [Names -> TenantType]
  /\ sr \in ResultType
  /\ current \in [object : BOOLEAN, cached : SUBSET Names,
                  listed : SUBSET Names]
  /\ events \in Nat

NoTenant ==
  [phase |-> "none", owned |-> FALSE, label |-> FALSE, made |-> FALSE,
   spec |-> NoSpec]
NoTenants == [n \in Names |-> NoTenant]
NoItems   == [n \in Names |-> NoItem]
NewStatus == [reason |-> "", pending |-> {}, touched |-> FALSE]
NewResult == [pending |-> {}, errs |-> FALSE, touched |-> FALSE]
(* What the worker holds between two reconciles.                           *)
NoSource ==
  [exists |-> FALSE, deleting |-> FALSE, finalizer |-> FALSE,
   spec |-> CHOOSE s \in SourceSpecs : TRUE, st |-> NewStatus]

(* The tenants of rows that were there before: the source is in use, and   *)
(* has created them.                                                       *)
Established(n) == n \notin Meddled /\ table[n] # NoItem

(* A source as a user has just set it up, or one that is in use.  The rows *)
(* of the latter count as an event of the past.                            *)
Init ==
  /\ table \in Tables
  /\ \E s \in FirstSpecs :
       /\ source = [exists |-> TRUE, deleting |-> FALSE,
                    finalizer |-> \E n \in Names : Established(n),
                    spec |-> s, st |-> NewStatus]
       /\ tenants = [n \in Names |->
                       IF Established(n)
                         THEN [phase |-> "held", owned |-> TRUE, label |-> TRUE,
                               made |-> TRUE, spec |-> buildTenantSpec(s, table[n])]
                         ELSE NoTenant]
  /\ events = IF source.finalizer THEN 1 ELSE 0
  /\ due = TRUE /\ cached = tenants
  /\ pc = "idle" /\ obj = NoSource
  /\ todo = {} /\ items = NoItems /\ listed = NoTenants /\ sr = NewResult
  /\ current = [object |-> FALSE, cached |-> Names, listed |-> {}]

-----------------------------------------------------------------------------
(* How a reconcile goes on, and how it ends.                               *)

Event == events < MaxEvents /\ events' = events + 1

(* The handler returns; `again' when the result or an error requeues.      *)
Return(again) ==
  /\ pc' = "idle" /\ obj' = NoSource /\ due' = (due \/ again)
  /\ todo' = {} /\ items' = NoItems /\ listed' = NoTenants /\ sr' = NewResult
  /\ current' = [current EXCEPT !.object = FALSE, !.listed = {}]

(* Update and Status().Update of the source, refused for an old version.   *)
Write(new, again) ==
  /\ source' = IF current.object THEN new ELSE source
  /\ Return(again \/ ~current.object)

SetStatus(st) ==
  /\ obj' = [obj EXCEPT !.st = st]
  /\ pc' = "StatusUpdate"
  /\ todo' = {} /\ items' = NoItems /\ listed' = NoTenants /\ sr' = NewResult
  /\ current' = [current EXCEPT !.listed = {}]
  /\ UNCHANGED cluster

(* A write to tenant n outdates the copies of it.                          *)
Store(n, new) ==
  /\ tenants' = [tenants EXCEPT ![n] = new]
  /\ current' = [current EXCEPT !.cached = @ \ {n}, !.listed = @ \ {n}]

(* What a Delete leaves: a finalizer holds the resource.                   *)
Deleted(t) ==
  IF t.phase = "new" THEN NoTenant ELSE [t EXCEPT !.phase = "deleting"]

Exists(t) == t.phase # "none"

-----------------------------------------------------------------------------
(* Reconcile.                                                              *)

Reconcile ==
  /\ pc = "idle" /\ due /\ due' = FALSE /\ source.exists
  /\ obj' = source /\ current' = [current EXCEPT !.object = TRUE]
  /\ pc' = IF source.deleting THEN "ListForDelete"
           ELSE IF source.finalizer THEN "Scan" ELSE "AddFinalizer"
  /\ todo' = IF pc' = "Scan" THEN Names ELSE {}
  /\ UNCHANGED <<source, table, tenants, cached, items, listed, sr, events>>

ReconcileGone ==
  /\ pc = "idle" /\ due /\ due' = FALSE /\ ~source.exists
  /\ UNCHANGED <<source, table, tenants, cached, pc, local, current, events>>

AddFinalizer ==
  /\ pc = "AddFinalizer"
  /\ Write([source EXCEPT !.finalizer = TRUE], TRUE)
  /\ UNCHANGED <<table, tenants, cached, events>>

(* The provider is not registered (resolveBackend), or its section is      *)
(* missing (the backend, then handleScanError).                            *)
InvalidConfig ==
  /\ pc = "Scan" /\ ~obj.spec.configured
  /\ SetStatus([obj.st EXCEPT !.reason = "InvalidConfig"])
  /\ UNCHANGED events

(* ScanTenants reads page after page; rows that lack a name or domains are *)
(* skipped.                                                                *)
ScanPage ==
  /\ pc = "Scan" /\ obj.spec.configured
  /\ \E page \in SUBSET todo :
       /\ page # {}
       /\ items' = [n \in Names |-> IF n \in page THEN table[n] ELSE items[n]]
       /\ todo' = todo \ page
  /\ pc' = IF todo' = {} THEN "List" ELSE "Scan"
  /\ UNCHANGED <<cluster, obj, listed, sr, current, events>>

(* handleScanError: no table, no access, throttling.                       *)
ScanFails ==
  /\ pc = "Scan" /\ obj.spec.configured /\ Event
  /\ SetStatus([obj.st EXCEPT !.reason = "PollFailed"])

(* listOwnedTenants: by namespace and label, from the cache.               *)
Labelled == {n \in Names : Exists(cached[n]) /\ cached[n].label
                             /\ obj.spec.target = "own"}

Discovered == {n \in Names : items[n] # NoItem}

List ==
  /\ pc = "List"
  /\ listed' = [n \in Names |-> IF n \in Labelled THEN cached[n] ELSE NoTenant]
  /\ current' = [current EXCEPT !.listed = current.cached \cap Labelled]
  /\ pc' = "Sync"
  /\ todo' = Discovered \cup {n \in Labelled : cached[n].owned}
  /\ UNCHANGED <<cluster, obj, items, sr, events>>

-----------------------------------------------------------------------------
(* syncTenants: first the items, then the tenants without an item.         *)

Desired(n) == buildTenantSpec(obj.spec, items[n])

(* Seeded fault: a listed tenant is taken for an owned one.                *)
VerdictByLabel(n) ==
  IF Exists(listed[n])
    THEN IF tenantSpecEqual(listed[n].spec, Desired(n)) THEN "none" ELSE "update"
    ELSE IF /\ obj.spec.target = "own"
            /\ Exists(cached[n]) /\ ~cached[n].owned THEN "conflict"
         ELSE "create"

(* syncExistingTenant for a listed tenant, else syncNewTenant with its     *)
(* conflict check against the cache.                                       *)
Verdict(n) ==
  IF Exists(listed[n])
    THEN IF ~listed[n].owned THEN "conflict"
         ELSE IF tenantSpecEqual(listed[n].spec, Desired(n)) THEN "none"
         ELSE "update"
    ELSE IF /\ obj.spec.target = "own"
            /\ Exists(cached[n]) /\ ~cached[n].owned THEN "conflict"
         ELSE "create"

(* The loop is done with n, and does not look at its item and copy again.  *)
Handled(n, result) ==
  /\ todo' = todo \ {n} /\ sr' = result
  /\ items' = [items EXCEPT ![n] = NoItem]
  /\ listed' = [listed EXCEPT ![n] = NoTenant]
  /\ UNCHANGED <<source, due, table, cached, pc, obj>>

Refused == [sr EXCEPT !.errs = TRUE]
Changed == [sr EXCEPT !.touched = TRUE]
Planned(change, n) == [sr EXCEPT !.pending = @ \cup {<<change, n>>}]

(* Seeded fault: the item is skipped without an error.                     *)
SkipSilently(n) ==
  /\ Verdict(n) = "conflict" /\ Handled(n, sr)
  /\ UNCHANGED <<tenants, current, events>>

SyncConflict(n) ==
  /\ Verdict(n) = "conflict" /\ Handled(n, Refused)
  /\ UNCHANGED <<tenants, current, events>>

SyncEqual(n) ==
  /\ Verdict(n) = "none" /\ Handled(n, sr)
  /\ UNCHANGED <<tenants, current, events>>

(* Seeded fault: an existing tenant is planned as a new one.               *)
PlanCreate(n) ==
  /\ obj.spec.dryRun /\ Verdict(n) \in {"create", "update"}
  /\ Handled(n, Planned("create", n))
  /\ UNCHANGED <<tenants, current, events>>

SyncPlanned(n) ==
  /\ obj.spec.dryRun /\ Verdict(n) \in {"create", "update"}
  /\ Handled(n, Planned(Verdict(n), n))
  /\ UNCHANGED <<tenants, current, events>>

(* Seeded fault: the version of the listed copy is not sent.               *)
AlwaysAccepted(n) == Exists(tenants[n])

UpdateAccepted(n) == n \in current.listed

SyncUpdate(n) ==
  /\ ~obj.spec.dryRun /\ Verdict(n) = "update"
  /\ IF UpdateAccepted(n)
       THEN /\ Store(n, [tenants[n] EXCEPT
                           !.spec = applyManagedFields(listed[n].spec, Desired(n))])
            /\ Handled(n, Changed)
       ELSE Handled(n, Refused) /\ UNCHANGED <<tenants, current>>
  /\ UNCHANGED events

(* Seeded fault: the owner reference is not set.                           *)
UnownedTenant(n) ==
  [phase |-> "new", owned |-> FALSE, label |-> TRUE, made |-> TRUE,
   spec |-> Desired(n)]

NewTenant(n) ==
  [phase |-> "new", owned |-> TRUE, label |-> TRUE, made |-> TRUE,
   spec |-> Desired(n)]

(* An owner reference cannot cross namespaces; a name may be taken.        *)
SyncCreate(n) ==
  /\ ~obj.spec.dryRun /\ Verdict(n) = "create"
  /\ IF obj.spec.target = "own" /\ ~Exists(tenants[n])
       THEN Store(n, NewTenant(n)) /\ Handled(n, Changed)
       ELSE Handled(n, Refused) /\ UNCHANGED <<tenants, current>>
  /\ UNCHANGED events

(* A Create or an Update fails; the loop goes on.                          *)
SyncCallFails(n) ==
  /\ ~obj.spec.dryRun /\ Verdict(n) \in {"create", "update"}
  /\ Event
  /\ Handled(n, Refused)
  /\ UNCHANGED <<tenants, current>>

SyncItem ==
  /\ pc = "Sync"
  /\ \E n \in todo \cap Discovered :
       \/ SyncConflict(n) \/ SyncEqual(n) \/ SyncPlanned(n)
       \/ SyncUpdate(n) \/ SyncCreate(n) \/ SyncCallFails(n)

PrunePlanned(n) ==
  /\ obj.spec.dryRun /\ Handled(n, Planned("delete", n))
  /\ UNCHANGED <<tenants, current, events>>

(* Delete goes by name: it is not bound to the version listed.  A tenant   *)
(* that is gone is an error.                                               *)
PruneDelete(n) ==
  /\ ~obj.spec.dryRun
  /\ IF Exists(tenants[n])
       THEN Store(n, Deleted(tenants[n])) /\ Handled(n, Changed)
       ELSE Handled(n, Refused) /\ UNCHANGED <<tenants, current>>
  /\ UNCHANGED events

PruneCallFails(n) ==
  /\ ~obj.spec.dryRun /\ Event
  /\ Handled(n, Refused)
  /\ UNCHANGED <<tenants, current>>

Prune ==
  /\ pc = "Sync" /\ todo \cap Discovered = {}
  /\ \E n \in todo : PrunePlanned(n) \/ PruneDelete(n) \/ PruneCallFails(n)

updateSyncStatus ==
  [reason  |-> IF obj.spec.dryRun THEN "DryRunComplete"
               ELSE IF sr.errs THEN "Conflict" ELSE "PollSucceeded",
   pending |-> IF obj.spec.dryRun THEN sr.pending ELSE {},
   touched |-> sr.touched]

EndSync ==
  /\ pc = "Sync" /\ todo = {}
  /\ Write([source EXCEPT !.st = updateSyncStatus], TRUE)
  /\ UNCHANGED <<table, tenants, cached, events>>

(* The status of a poll that failed.                                       *)
StatusUpdate ==
  /\ pc = "StatusUpdate"
  /\ Write([source EXCEPT !.st = obj.st], TRUE)
  /\ UNCHANGED <<table, tenants, cached, events>>

-----------------------------------------------------------------------------
(* reconcileDelete.                                                        *)

ListForDelete ==
  /\ pc = "ListForDelete"
  /\ todo' = Labelled
  /\ pc' = IF Labelled = {} THEN "RemoveFinalizer" ELSE "DeleteTenants"
  /\ UNCHANGED <<cluster, obj, items, listed, sr, current, events>>

(* Every labelled tenant is deleted, whoever owns it.                      *)
DeleteTenant ==
  /\ pc = "DeleteTenants"
  /\ \E n \in todo :
       /\ todo' = todo \ {n}
       /\ IF Exists(tenants[n]) THEN Store(n, Deleted(tenants[n]))
                                ELSE UNCHANGED <<tenants, current>>
  /\ UNCHANGED <<source, due, table, cached, pc, obj, items, listed, sr, events>>

(* Seeded fault: the end of the deletions is left to a watch event.        *)
AwaitEvent ==
  /\ pc = "DeleteTenants" /\ todo = {}
  /\ Return(FALSE)
  /\ UNCHANGED <<source, table, tenants, cached, events>>

(* The handler waits for the tenants to be gone.                           *)
AwaitDeletion ==
  /\ pc = "DeleteTenants" /\ todo = {}
  /\ Return(TRUE)
  /\ UNCHANGED <<source, table, tenants, cached, events>>

RemoveFinalizer ==
  /\ pc = "RemoveFinalizer"
  /\ Write([source EXCEPT !.exists = FALSE, !.finalizer = FALSE], FALSE)
  /\ UNCHANGED <<table, tenants, cached, events>>

(* A call fails whose error the handler returns.                           *)
CallFails ==
  /\ \/ pc \in {"AddFinalizer", "List", "StatusUpdate", "ListForDelete",
                "RemoveFinalizer"}
     \/ pc = "Sync" /\ todo = {}
     \/ pc = "DeleteTenants" /\ todo # {}
  /\ Event
  /\ Return(TRUE)
  /\ UNCHANGED <<source, table, tenants, cached>>

(* The operator stops at any point and starts again.                       *)
Restart ==
  /\ Event
  /\ pc' = "idle" /\ obj' = NoSource /\ due' = source.exists
  /\ todo' = {} /\ items' = NoItems /\ listed' = NoTenants /\ sr' = NewResult
  /\ cached' = tenants
  /\ current' = [object |-> FALSE, cached |-> Names, listed |-> {}]
  /\ UNCHANGED <<source, table, tenants>>

-----------------------------------------------------------------------------
(* Users.                                                                  *)

EditItem ==
  /\ Event
  /\ \E n \in Meddled, i \in Items \cup {NoItem} :
       table[n] # i /\ table' = [table EXCEPT ![n] = i]
  /\ UNCHANGED <<source, due, tenants, cached, pc, local, current>>

(* A change of the source makes an event and outdates the worker's copy.   *)
StoreSource(new) ==
  /\ source' = new /\ due' = TRUE
  /\ current' = [current EXCEPT !.object = FALSE]
  /\ UNCHANGED <<table, tenants, cached, pc, local>>

EditSource ==
  /\ source.exists /\ Event
  /\ \E s \in SourceSpecs :
       s # source.spec /\ StoreSource([source EXCEPT !.spec = s])

DeleteSource ==
  /\ source.exists /\ ~source.deleting
  /\ StoreSource(IF source.finalizer THEN [source EXCEPT !.deleting = TRUE]
                                     ELSE [source EXCEPT !.exists = FALSE])
  /\ UNCHANGED events

StoreTenant(n, new) ==
  /\ Store(n, new)
  /\ UNCHANGED <<source, due, table, cached, pc, local>>

(* A user creates a tenant under a name of the table, perhaps with the     *)
(* source's label, as a copied manifest has it.                            *)
CreateForeign(n) ==
  /\ ~Exists(tenants[n]) /\ Event
  /\ \E label \in BOOLEAN :
       StoreTenant(n, [phase |-> "new", owned |-> FALSE, label |-> label,
                       made |-> FALSE, spec |-> NoSpec])

EditTenant(n) ==
  /\ Exists(tenants[n]) /\ Event
  /\ \/ \E v \in Values : v # tenants[n].spec.value
          /\ StoreTenant(n, [tenants[n] EXCEPT !.spec.value = v])
     \/ /\ tenants[n].label
        /\ StoreTenant(n, [tenants[n] EXCEPT !.label = FALSE])

RemoveTenant(n) ==
  /\ tenants[n].phase \in {"new", "held"} /\ Event
  /\ StoreTenant(n, Deleted(tenants[n]))

-----------------------------------------------------------------------------
(* The DistributionTenant controller, and Kubernetes.                      *)

Protect(n) ==
  /\ tenants[n].phase = "new"
  /\ StoreTenant(n, [tenants[n] EXCEPT !.phase = "held"])
  /\ UNCHANGED events

AttachCertificate(n) ==
  /\ tenants[n].phase = "held" /\ tenants[n].spec.managed
  /\ tenants[n].spec.cert # "attached"
  /\ StoreTenant(n, [tenants[n] EXCEPT !.spec.cert = "attached"])
  /\ UNCHANGED events

Release(n) ==
  /\ tenants[n].phase = "deleting"
  /\ StoreTenant(n, NoTenant)
  /\ UNCHANGED events

(* The garbage collector deletes what a vanished owner leaves.             *)
Collect(n) ==
  /\ ~source.exists /\ tenants[n].owned /\ tenants[n].phase \in {"new", "held"}
  /\ StoreTenant(n, Deleted(tenants[n]))
  /\ UNCHANGED events

WatchDeliver(n) ==
  /\ n \notin current.cached
  /\ cached' = [cached EXCEPT ![n] = tenants[n]]
  /\ current' = [current EXCEPT !.cached = @ \cup {n}]
  /\ UNCHANGED <<source, due, table, tenants, pc, local, events>>

-----------------------------------------------------------------------------
Worker ==
  \/ Reconcile \/ ReconcileGone \/ AddFinalizer \/ InvalidConfig \/ ScanPage
  \/ List \/ SyncItem \/ Prune \/ EndSync \/ StatusUpdate
  \/ ListForDelete \/ DeleteTenant \/ AwaitDeletion \/ RemoveFinalizer

Faults == ScanFails \/ CallFails \/ Restart

Users ==
  \/ EditItem \/ EditSource \/ DeleteSource
  \/ \E n \in Meddled : CreateForeign(n) \/ EditTenant(n) \/ RemoveTenant(n)

Cluster ==
  \E n \in Names : \/ Protect(n) \/ AttachCertificate(n) \/ Release(n)
                   \/ Collect(n) \/ WatchDeliver(n)

Next == Worker \/ Faults \/ Users \/ Cluster

Spec == Init /\ [][Next]_vars

(* The worker runs and timers fire, watches deliver, the tenant controller *)
(* finishes deletions (DeletionCompletes), the garbage collector works.    *)
Fairness ==
  /\ WF_vars(Worker)
  /\ \A n \in Names :
       WF_vars(WatchDeliver(n)) /\ WF_vars(Release(n)) /\ WF_vars(Collect(n))

FairSpec == Spec /\ Fairness

-----------------------------------------------------------------------------
(* Safety.                                                                 *)

(* The creations and updates of a sync never touch a tenant the source     *)
(* does not own, whatever its label says and however old the list is.  The *)
(* second loop's Delete is bound to no version (PruneDelete): it may meet  *)
(* a tenant that has replaced the one listed.                              *)
ForeignSpecKept ==
  [][SyncItem =>
       \A n \in Names : Exists(tenants[n]) /\ ~tenants[n].owned
                         => tenants'[n] = tenants[n]]_vars

(* A certificate the tenant controller attached survives every update by   *)
(* the source, for as long as the tenant is to have a managed certificate, *)
(* although both write the spec from copies of their own.                  *)
CertificateKept ==
  [][SyncItem =>
       \A n \in Names : Exists(tenants[n]) /\ tenants[n].spec.cert = "attached"
                           /\ tenants'[n].spec.managed
                         => tenants'[n].spec.cert = "attached"]_vars

-----------------------------------------------------------------------------
(* Liveness.                                                               *)

Polling == source.exists /\ ~source.deleting /\ source.spec.configured
Active  == Polling /\ ~source.spec.dryRun

(* A tenant of this name exists that is not the source's, or whose label a *)
(* user has removed.                                                       *)
Blocked(n) == Exists(tenants[n]) /\ ~(tenants[n].owned /\ tenants[n].label)

(* The tenant's spec is what item and template ask for: the item's value   *)
(* before the template's, its certificate before a managed one.            *)
AsSpecified(n) ==
  LET spec == tenants[n].spec IN
  /\ spec.value = IF table[n].value = None THEN source.spec.template
                                           ELSE table[n].value
  /\ spec.managed <=> source.spec.managed /\ ~table[n].arn
  /\ table[n].arn => spec.cert = "explicit"
  /\ ~table[n].arn /\ ~source.spec.managed => spec.cert = "none"

InSync(n) ==
  IF table[n] = NoItem
    THEN ~Exists(tenants[n])
    ELSE /\ tenants[n].phase \in {"new", "held"}
         /\ AsSpecified(n)

(* When changes cease, every item has its tenant, as item and template ask *)
(* for, and no tenant is left without an item.                             *)
SourceConverges ==
  \A n \in Names :
    <>[](Active /\ source.spec.target = "own" /\ ~Blocked(n)) => <>[]InSync(n)

(* The polls come to rest: an attached certificate, or a conflict, does    *)
(* not make the source update its tenants again and again.                 *)
Settles == <>[]Active => <>[](~source.st.touched)

(* A name that is taken, a label that was removed, or a namespace in which *)
(* nothing can be created ends up reported in the Ready condition.         *)
ConflictReported ==
  <>[](Active /\ \E n \in Names : table[n] # NoItem
                    /\ (Blocked(n) \/ source.spec.target = "other"))
    => <>[](source.st.reason = "Conflict")

Differences ==
  {c \in Changes :
     LET n == c[2] IN
     CASE c[1] = "create" -> table[n] # NoItem /\ ~Exists(tenants[n])
       [] c[1] = "update" -> /\ table[n] # NoItem /\ Exists(tenants[n])
                             /\ tenants[n].owned /\ ~AsSpecified(n)
       [] c[1] = "delete" -> /\ table[n] = NoItem /\ Exists(tenants[n])
                             /\ tenants[n].owned}

(* In a dry run pendingChanges ends up as the changes that are missing, no *)
(* more and no less.                                                       *)
PlanIsAccurate ==
  <>[](/\ Polling /\ source.spec.dryRun /\ source.spec.target = "own"
       /\ \A n \in Names : tenants[n].owned => tenants[n].label)
    => <>[](source.st.pending = Differences)

(* The deletion of a source is carried through.                            *)
SourceDeletionCompletes == source.deleting ~> ~source.exists

(* Nothing the source created outlives it, also what it created behind the *)
(* back of its own deletion, or before targetNamespace changed.            *)
NothingLeftBehind ==
  ~source.exists ~> \A n \in Names : ~(Exists(tenants[n]) /\ tenants[n].made)

(* The controller never modifies, let alone deletes, a tenant that it does *)
(* not own.                                                                *)
NeverTouchesForeign ==
  [][\A n \in Names :
       (Exists(tenants[n]) /\ ~tenants[n].owned /\ Worker)
         => tenants'[n] = tenants[n]]_vars
=============================================================================
