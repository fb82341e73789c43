------------------------------ MODULE TenantData ------------------------------
(***************************************************************************)
(* The values the DistributionTenant controller works on, and the pure     *)
(* functions it computes with them: the payload it builds from a spec, the *)
(* comparison of a spec with what CloudFront returns, the three-way diff,  *)
(* and the two batch operations on a Route53 zone.                         *)
(*                                                                         *)
(* Abstraction of the data.  A spec keeps the fields on which the control  *)
(* of the controller depends.  `config' stands for distributionId,         *)
(* parameters, web ACL and geo restrictions together: they are pushed and  *)
(* compared as a whole.  `cert' is TRUE when customizations.certificate is *)
(* set (one ARN, the managed certificate's).  `ttl' is None when spec.dns  *)
(* is nil.  The routing endpoint of a connection group is the group.       *)
(***************************************************************************)
EXTENDS Naturals

CONSTANTS
  Domains,          \* host names
  Groups,           \* connection groups
  DefaultGroup,     \* the account's default connection group
  Configs,          \* values of the plain fields of a tenant
  BareConfig,       \* the config of a payload that carries none of them
  RejectedConfigs,  \* configs that lack what the distribution requires
  TTLs,             \* values of spec.dns.ttl
  Uncovered,        \* domains outside the SANs of the certificate in use
  Specs,            \* the specs users write
  None              \* nil, or the empty string

ManagedHosts == {"none", "cloudfront", "self-hosted"}

SpecType ==
  [domains : (SUBSET Domains) \ {{}},
   group   : Groups \cup {None},
   config  : Configs,
   enabled : BOOLEAN,
   ttl     : TTLs \cup {None},
   managed : ManagedHosts,     \* managedCertificateRequest.validationTokenHost
   cert    : BOOLEAN]

CfgType ==
  [domains : SUBSET Domains,
   group   : Groups,
   config  : Configs,
   enabled : BOOLEAN,
   cert    : BOOLEAN]

ASSUME TenantDataAssumption ==
  /\ Domains # {}
  /\ DefaultGroup \in Groups
  /\ BareConfig \in Configs \ RejectedConfigs
  /\ RejectedConfigs \subseteq Configs
  /\ Specs \subseteq SpecType
  /\ None \notin Groups
  /\ None \notin TTLs

-----------------------------------------------------------------------------
(* The connection group a tenant routes through, and the CNAME target.     *)
resolveCNAMETarget(spec) ==
  IF spec.group = None THEN DefaultGroup ELSE spec.group

(* The payload of a create or an update: every field of the spec that      *)
(* CloudFront keeps.  The DNS block is not part of it.                     *)
buildInput(spec) ==
  [domains |-> spec.domains,
   group   |-> resolveCNAMETarget(spec),
   config  |-> spec.config,
   enabled |-> spec.enabled,
   cert    |-> spec.cert]

(* The payload that disables a tenant before its deletion: domains only.   *)
disableInput(spec) ==
  [domains |-> spec.domains,
   group   |-> DefaultGroup,
   config  |-> BareConfig,
   enabled |-> FALSE,
   cert    |-> FALSE]

(* The spec-versus-AWS comparison.  A connection group is compared only    *)
(* when the spec names one; DNS and the certificate request never are.     *)
specMatchesAWS(spec, cfg) ==
  /\ spec.enabled = cfg.enabled
  /\ spec.group # None => spec.group = cfg.group
  /\ spec.domains = cfg.domains
  /\ spec.config = cfg.config
  /\ spec.cert = cfg.cert

(* The three-way diff of generation, observed generation and AWS state.    *)
detectChanges(spec, gen, observed, cfg) ==
  IF specMatchesAWS(spec, cfg) THEN "none"
  ELSE IF gen # observed THEN "spec" ELSE "drift"

(* The pre-flight check against the distribution's configuration.          *)
SpecAccepted(spec) == spec.config \notin RejectedConfigs

(* The certificate in use covers every domain.                             *)
SANsCover(spec) == spec.domains \cap Uncovered = {}

-----------------------------------------------------------------------------
(* Route53.  A zone maps a domain to its CNAME record, or to None.  A      *)
(* batch maps some domains to records and is applied as a whole.           *)
RecordType == [target : Groups, ttl : TTLs]
ZoneType   == [Domains -> RecordType \cup {None}]

ASSUME RecordAssumption == None \notin RecordType

Batch(domains, target, ttl) ==
  [d \in domains |-> [target |-> target, ttl |-> ttl]]

UpsertCNAMERecords(zone, batch) ==
  [d \in Domains |-> IF d \in DOMAIN batch THEN batch[d] ELSE zone[d]]

(* "record not found": one absent record rejects the batch, and the client *)
(* reports the rejection as success.                                       *)
RecordNotFound(zone, batch) == \E d \in DOMAIN batch : zone[d] = None

(* "values provided do not match the current values": an error.            *)
DeletionRefused(zone, batch) ==
  /\ ~RecordNotFound(zone, batch)
  /\ \E d \in DOMAIN batch : zone[d] # batch[d]

DeleteCNAMERecords(zone, batch) ==
  IF \A d \in DOMAIN batch : zone[d] = batch[d]
    THEN [d \in Domains |-> IF d \in DOMAIN batch THEN None ELSE zone[d]]
    ELSE zone
=============================================================================
