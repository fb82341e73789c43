------------------------------ MODULE SharedZone ------------------------------
(***************************************************************************)
(* Several DistributionTenant resources whose domains lie in one Route53   *)
(* zone and overlap.  The life of each resource is coarse here, one step   *)
(* per phase of DistributionTenant: records, tenant, deletion of the       *)
(* tenant, cleanup of the records.  What the model adds is that the zone   *)
(* is shared, that UPSERT and DELETE go by domain name, and that           *)
(* CloudFront gives a domain to one tenant only.                           *)
(***************************************************************************)
EXTENDS TenantData

CONSTANTS
  Resources,   \* the resources
  SpecOf       \* their specs, with a dns block

VARIABLES
  stage,       \* how far each resource is
  target,      \* status.dnsTarget
  serving,     \* the resources that have a tenant
  zone         \* the Route53 records

vars == <<stage, target, serving, zone>>

Stages == {"new", "recorded", "created", "deleting", "cleanup", "gone"}

TypeOK ==
  /\ stage \in [Resources -> Stages]
  /\ target \in [Resources -> Groups \cup {None}]
  /\ serving \subseteq Resources
  /\ zone \in ZoneType

Init ==
  /\ stage = [r \in Resources |-> "new"]
  /\ target = [r \in Resources |-> None]
  /\ serving = {}
  /\ zone = [d \in Domains |-> None]

Enter(r, s) == stage' = [stage EXCEPT ![r] = s]

(* reconcileDNSBeforeCreate: the records come first, whoever has them now. *)
UpsertDNS(r) ==
  /\ stage[r] = "new" /\ Enter(r, "recorded")
  /\ target' = [target EXCEPT ![r] = resolveCNAMETarget(SpecOf[r])]
  /\ zone' = UpsertCNAMERecords(zone,
               Batch(SpecOf[r].domains, target'[r], SpecOf[r].ttl))
  /\ UNCHANGED serving

(* Refused, and tried again, while another tenant has one of the domains   *)
(* (DomainConflict).                                                       *)
CreateTenant(r) ==
  /\ stage[r] = "recorded" /\ Enter(r, "created")
  /\ \A q \in serving : SpecOf[q].domains \cap SpecOf[r].domains = {}
  /\ serving' = serving \cup {r}
  /\ UNCHANGED <<target, zone>>

DeleteCR(r) ==
  /\ stage[r] \in {"new", "recorded", "created"} /\ Enter(r, "deleting")
  /\ UNCHANGED <<target, serving, zone>>

(* Disable, wait, delete; nothing to do for a tenant never created.        *)
DeleteTenant(r) ==
  /\ stage[r] = "deleting" /\ Enter(r, "cleanup")
  /\ serving' = serving \ {r}
  /\ UNCHANGED <<target, zone>>

(* cleanupDNSRecords, then the finalizer.  It is retried for as long as    *)
(* Route53 refuses the batch.                                              *)
CleanupDNS(r) ==
  LET batch == Batch(IF target[r] = None THEN {} ELSE SpecOf[r].domains,
                     target[r], SpecOf[r].ttl) IN
  /\ stage[r] = "cleanup" /\ Enter(r, "gone")
  /\ ~DeletionRefused(zone, batch)
  /\ zone' = DeleteCNAMERecords(zone, batch)
  /\ UNCHANGED <<target, serving>>

Next ==
  \E r \in Resources :
    \/ UpsertDNS(r) \/ CreateTenant(r) \/ DeleteCR(r) \/ DeleteTenant(r)
    \/ CleanupDNS(r)

Spec == Init /\ [][Next]_vars

(* Records are created before the tenant and deleted after it: a domain in *)
(* service has its record, and no record is left when all resources are    *)
(* gone.                                                                   *)
RecordsFrameTenants ==
  /\ \A r \in serving : \A d \in SpecOf[r].domains : zone[d] # None
  /\ (\A r \in Resources : stage[r] = "gone")
       => \A d \in Domains : zone[d] = None
=============================================================================
