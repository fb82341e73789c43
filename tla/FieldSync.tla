------------------------------ MODULE FieldSync ------------------------------
(***************************************************************************)
(* One table row on its way to CloudFront, field by field.  The            *)
(* TenantSource controller builds a tenant spec from the row and the       *)
(* source's template and compares it with the stored one; the              *)
(* DistributionTenant controller compares the stored spec with the AWS     *)
(* tenant and sends it.  Modules TenantSource and DistributionTenant have  *)
(* the interleavings of each controller and take a spec as one value; here *)
(* a reconcile is one step and the fields, their defaults, their overlays  *)
(* and the order of their lists are what matters.                          *)
(*                                                                         *)
(* A domain is the sequence of its labels in lower case.  `zone' stands    *)
(* for hostedZoneId and assumeRoleArn, `host' for validationTokenHost and  *)
(* the transparency preference: they are overlaid and compared alike.      *)
(***************************************************************************)
EXTENDS Naturals, FiniteSets, Sequences, SequencesExt

CONSTANTS
  Rows,                \* the rows the table may hold: a value or None for each
                       \* attribute the source maps
  Templates,           \* the templates the source may have
  Dist,                \* the parent distribution: [cert, required]
  SANs,                \* the SANs of each certificate
  ManagedArn,          \* the certificate CloudFront issues
  None,                \* nil
  DefaultGroup, DefaultTTL,
  MaxChanges           \* bound: edits of row and template, external updates

(* A domain; an optional value; a list without duplicates; entries, each   *)
(* name once.  Lists a user writes have no duplicates here.                *)
Domain == Seq(STRING \ {""})
Opt(S) == S \cup {None}
ListOf(S) == {l \in Seq(S) : \A i, j \in DOMAIN l : l[i] = l[j] => i = j}
EntriesOf(V) ==
  {l \in Seq([name : STRING, value : V]) :
     \A i, j \in DOMAIN l : l[i].name = l[j].name => i = j}

(* An attribute that DynamoDB returns, with strings from V.                *)
AttributeOf(av, V) ==
  av # None =>
    /\ "S" \in DOMAIN av => av.S \in V
    /\ "SS" \in DOMAIN av => av.SS \subseteq V /\ IsFiniteSet(av.SS)
    /\ "N" \in DOMAIN av => av.N \in STRING
    /\ "BOOL" \in DOMAIN av => av.BOOL \in BOOLEAN
    /\ "M" \in DOMAIN av =>
         /\ DOMAIN av.M \subseteq STRING /\ IsFiniteSet(DOMAIN av.M)
         /\ \A k \in DOMAIN av.M : "S" \in DOMAIN av.M[k] => av.M[k].S \in STRING

Fields == {"enabled", "group", "host", "provider", "zone", "ttl", "action",
           "aclArn", "geoType", "locations", "parameters", "tags"}

McrType == [host : Opt(STRING), primary : Opt(Domain)]
DnsType == [provider : Opt(STRING), zone : Opt(STRING), ttl : Opt(STRING)]
AclType == [action : Opt(STRING), arn : Opt(STRING)]
GeoType == [type : Opt(STRING), locations : ListOf(STRING)]

CustType == [acl : Opt(AclType), cert : Opt(DOMAIN SANs), geo : Opt(GeoType)]

(* The customizations of a template are its acl, cert and geo.             *)
TemplateType ==
  [enabled : Opt(BOOLEAN), group : Opt(STRING), mcr : Opt(McrType),
   dns : Opt(DnsType), acl : Opt(AclType), cert : Opt(DOMAIN SANs),
   geo : Opt(GeoType),
   parameters : EntriesOf(STRING), tags : EntriesOf(Opt(STRING))]

NoCust == [acl |-> None, cert |-> None, geo |-> None]

ASSUME FieldSyncAssumption ==
  /\ MaxChanges \in Nat
  /\ ManagedArn \in DOMAIN SANs /\ Dist.cert \in Opt(DOMAIN SANs)
  /\ \A cert \in DOMAIN SANs : SANs[cert] \subseteq Domain \ {<<>>}
  /\ DefaultGroup \in STRING /\ DefaultTTL \in STRING

ASSUME TableAssumption ==
  /\ Templates \subseteq TemplateType
  /\ \A x \in Rows :
       /\ AttributeOf(x.domains, Domain) /\ AttributeOf(x.primary, Domain)
       /\ AttributeOf(x.arn, {""} \cup DOMAIN SANs)
       /\ \A f \in Fields : AttributeOf(x[f], STRING)

(* nil is none of the values.                                              *)
ASSUME NilAssumption ==
  None \notin STRING \cup DOMAIN SANs \cup CustType

VARIABLES
  row, tmpl,    \* the row and the template
  stored,       \* the spec of the DistributionTenant resource, or None
  observed,     \* observedGeneration = generation
  aws,          \* the tenant as GetDistributionTenant answers it, or None
  changes

vars == <<row, tmpl, stored, observed, aws, changes>>

First(a, b) == IF a # None THEN a ELSE b
Names(list) == {p.name : p \in ToSet(list)}

(* What a Go map read returns: the last entry of that name, or absent.     *)
ValueOf(list, name, absent) ==
  LET at == {i \in DOMAIN list : list[i].name = name}
  IN  IF at = {} THEN absent
      ELSE list[CHOOSE i \in at : \A j \in at : j <= i].value

-----------------------------------------------------------------------------
(* The DynamoDB backend: from a row to an item.  An attribute value is a   *)
(* record with one field, its type; a value that is absent, empty or of    *)
(* another type counts as not given.                                       *)

Attribute(av, type) ==
  IF av # None /\ type \in DOMAIN av THEN av[type] ELSE None

getStringAttr(av) == IF Attribute(av, "S") = "" THEN None ELSE Attribute(av, "S")
getSetAttr(av) == IF Attribute(av, "SS") = {} THEN None ELSE Attribute(av, "SS")
getDomainsAttr(av) ==
  IF Attribute(av, "S") \in {None, <<>>} THEN getSetAttr(av)
                                         ELSE {Attribute(av, "S")}

(* A string counts as a Boolean, and as FALSE unless it is "true".         *)
getBoolAttr(av) ==
  IF Attribute(av, "S") # None THEN Attribute(av, "S") = "true"
                               ELSE Attribute(av, "BOOL")

(* Entries that are not strings are dropped.                               *)
getMapStringAttr(av) ==
  LET m    == First(Attribute(av, "M"), <<>>)
      keys == {k \in DOMAIN m : "S" \in DOMAIN m[k]}
  IN  IF keys = {} THEN None ELSE [k \in keys |-> m[k].S]

(* None: the row is skipped.                                               *)
mapDynamoItem(x) ==
  IF getDomainsAttr(x.domains) = None THEN None
  ELSE [domains    |-> getDomainsAttr(x.domains),
        enabled    |-> getBoolAttr(x.enabled),
        group      |-> getStringAttr(x.group),
        arn        |-> getStringAttr(x.arn),
        host       |-> getStringAttr(x.host),
        primary    |-> getStringAttr(x.primary),
        provider   |-> getStringAttr(x.provider),
        zone       |-> getStringAttr(x.zone),
        ttl        |-> Attribute(x.ttl, "N"),
        action     |-> getStringAttr(x.action),
        aclArn     |-> getStringAttr(x.aclArn),
        geoType    |-> getStringAttr(x.geoType),
        locations  |-> getSetAttr(x.locations),
        parameters |-> getMapStringAttr(x.parameters),
        tags       |-> getMapStringAttr(x.tags)]

item == mapDynamoItem(row)

-----------------------------------------------------------------------------
(* TenantSource: from item and template to the desired spec.               *)

Part(cust, field) == IF cust = None THEN None ELSE cust[field]

(* An explicit certificate, or else the template's managed request with    *)
(* the row's overrides; the primary domain defaults to the first one.  The *)
(* certificate of the template is not read, here or anywhere.              *)
buildCertificateFields(t, i, domains) ==
  [cert |-> i.arn,
   mcr  |-> IF i.arn # None \/ t.mcr = None THEN None
            ELSE [host    |-> First(i.host, t.mcr.host),
                  primary |-> First(i.primary, First(t.mcr.primary, domains[1]))]]

buildDNSFields(t, i) ==
  LET base == First(t.dns, [provider |-> None, zone |-> None, ttl |-> None])
  IN  IF t.dns = None /\ i.provider = None /\ i.zone = None /\ i.ttl = None
        THEN None
        ELSE [provider |-> First(i.provider, base.provider),
              zone     |-> First(i.zone, base.zone),
              ttl      |-> First(i.ttl, base.ttl)]

buildWebAcl(t, i) ==
  LET base == First(t.acl, [action |-> None, arn |-> None])
  IN  IF t.acl = None /\ i.action = None /\ i.aclArn = None THEN None
      ELSE [action |-> First(i.action, base.action),
            arn    |-> First(i.aclArn, base.arn)]

buildGeoRestrictions(t, i, locs) ==
  LET base == First(t.geo, [type |-> None, locations |-> <<>>])
  IN  IF t.geo = None /\ i.geoType = None /\ locs = None THEN None
      ELSE [type      |-> First(i.geoType, base.type),
            locations |-> First(locs, base.locations)]

(* Seeded fault: the customizations are never nil.                         *)
CustomizationsAlways(t, i, locs, cert) ==
  [acl |-> buildWebAcl(t, i), cert |-> cert, geo |-> buildGeoRestrictions(t, i, locs)]

buildCustomizationFields(t, i, locs, cert) ==
  LET cust == [acl |-> buildWebAcl(t, i), cert |-> cert,
               geo |-> buildGeoRestrictions(t, i, locs)]
  IN  IF cust = NoCust THEN None ELSE cust

(* Seeded fault: the row's entries are added to the template's.            *)
EntriesMerged(own, fromTemplate) ==
  IF own # None
    THEN {s \o SelectSeq(fromTemplate, LAMBDA e : e.name \notin DOMAIN own) :
            s \in SetToSeqs({[name |-> n, value |-> own[n]] : n \in DOMAIN own})}
    ELSE {fromTemplate}

(* Parameters and tags: the row's map, which Go ranges over in any order,  *)
(* replaces the template's list.                                           *)
buildEntries(own, fromTemplate) ==
  IF own # None
    THEN SetToSeqs({[name |-> n, value |-> own[n]] : n \in DOMAIN own})
    ELSE {fromTemplate}

(* The spec, once the order of each list is chosen.                        *)
SpecWith(t, i, ds, ls, ps, ts) ==
  [domains    |-> ds,
   enabled    |-> First(i.enabled, First(t.enabled, TRUE)),
   group      |-> First(i.group, t.group),
   mcr        |-> buildCertificateFields(t, i, ds).mcr,
   dns        |-> buildDNSFields(t, i),
   cust       |-> buildCustomizationFields(t, i, ls, buildCertificateFields(t, i, ds).cert),
   parameters |-> ps,
   tags       |-> ts]

(* The item's domains and locations are DynamoDB string sets, read in any  *)
(* order, so that one item has several specs.                              *)
Orders(set) == IF set = None THEN {None} ELSE SetToSeqs(set)

buildTenantSpec(t, i) ==
  {SpecWith(t, i, ds, ls, ps, ts) :
     ds \in SetToSeqs(i.domains), ls \in Orders(i.locations),
     ps \in buildEntries(i.parameters, t.parameters),
     ts \in buildEntries(i.tags, t.tags)}

-----------------------------------------------------------------------------
(* TenantSource: is the stored spec a the desired spec b?                  *)

stringSliceEqual(a, b) == Len(a) = Len(b) /\ ToSet(b) \subseteq ToSet(a)

(* Seeded fault: the lengths are not compared.                             *)
ParametersIncluded(a, b) ==
  \A i \in DOMAIN b : ValueOf(a, b[i].name, "") = b[i].value

parametersEqual(a, b) ==
  /\ Len(a) = Len(b)
  /\ \A i \in DOMAIN b : ValueOf(a, b[i].name, "") = b[i].value

(* A missing key reads as nil, which a tag without a value equals.         *)
tagsEqual(a, b) ==
  /\ Len(a) = Len(b)
  /\ \A i \in DOMAIN b : ValueOf(a, b[i].name, None) = b[i].value

(* Seeded fault: an attached certificate counts as a difference.           *)
CertificatesEqual(a, b) == Part(a.cust, "cert") = Part(b.cust, "cert")

certificateFieldsEqual(a, b) ==
  \/ b.mcr # None /\ Part(b.cust, "cert") = None /\ a.mcr # None
  \/ Part(a.cust, "cert") = Part(b.cust, "cert")

geoRestrictionsEqual(a, b) ==
  LET ag == Part(a, "geo")
      bg == Part(b, "geo")
  IN  \/ ag = None /\ bg = None
      \/ /\ ag # None /\ bg # None
         /\ ag.type = bg.type
         /\ stringSliceEqual(ag.locations, bg.locations)

tenantSpecEqual(a, b) ==
  /\ stringSliceEqual(a.domains, b.domains)
  /\ a.enabled = b.enabled
  /\ a.group = b.group
  /\ certificateFieldsEqual(a, b)
  /\ a.mcr = b.mcr
  /\ a.dns = b.dns
  /\ Part(a.cust, "acl") = Part(b.cust, "acl")
  /\ geoRestrictionsEqual(a.cust, b.cust)
  /\ parametersEqual(a.parameters, b.parameters)
  /\ tagsEqual(a.tags, b.tags)

(* The desired spec, with the stored certificate if it may be attached.    *)
applyManagedFields(dst, src) ==
  IF src.mcr # None /\ Part(src.cust, "cert") = None
                    /\ Part(dst.cust, "cert") # None
    THEN [src EXCEPT !.cust =
            [First(src.cust, NoCust) EXCEPT !.cert = dst.cust.cert]]
    ELSE src

(* The API server's schema: the rules on missing and empty values, and the *)
(* default it fills in.  Its enums, ranges and patterns are left out.      *)
Admissible(spec) ==
  /\ <<>> \notin ToSet(spec.domains)
  /\ \A p \in ToSet(spec.parameters) : p.value # ""
  /\ spec.dns # None => spec.dns.provider # None /\ spec.dns.zone # None
  /\ Part(spec.cust, "acl") # None =>
       /\ spec.cust.acl.action # None
       /\ spec.cust.acl.action = "override" => spec.cust.acl.arn # None
  /\ Part(spec.cust, "geo") # None => spec.cust.geo.type # None

WithDefaults(spec) ==
  IF spec.dns = None THEN spec
  ELSE [spec EXCEPT !.dns.ttl = First(@, DefaultTTL)]

-----------------------------------------------------------------------------
(* DistributionTenant: from the stored spec to the AWS tenant.             *)

specToAWSCustomizations(c) ==
  IF c = None THEN None ELSE [acl |-> c.acl, cert |-> c.cert, geo |-> c.geo]

(* Seeded fault: the web ACL's ARN is not sent.                            *)
CustomizationsWithoutArn(c) ==
  IF Part(c, "acl") = None THEN c ELSE [c EXCEPT !.acl.arn = None]

toAWSCustomizations(c) ==
  IF c = None THEN None ELSE [acl |-> c.acl, cert |-> c.cert, geo |-> c.geo]

fromAWSCustomizations(c) ==
  IF c = None THEN None ELSE [acl |-> c.acl, cert |-> c.cert, geo |-> c.geo]

(* The request: tags and the certificate request, which no answer shows,   *)
(* are left out.                                                           *)
buildInput(spec) ==
  [domains |-> spec.domains, enabled |-> spec.enabled, group |-> spec.group,
   cust |-> toAWSCustomizations(specToAWSCustomizations(spec.cust)),
   parameters |-> spec.parameters]

(* CloudFront replaces the whole configuration; a tenant without a         *)
(* connection group joins the default one, and lists may come back in      *)
(* another order.                                                          *)
CloudFront(input) ==
  {[domains |-> ds, enabled |-> input.enabled, group |-> First(input.group, DefaultGroup),
    cust |-> input.cust, parameters |-> ps] :
     ds \in SetToSeqs(ToSet(input.domains)),
     ps \in SetToSeqs(ToSet(input.parameters))}

toDistributionTenantOutput(dt) ==
  [dt EXCEPT !.cust = fromAWSCustomizations(@)]

Answers(spec) ==
  {toDistributionTenantOutput(dt) : dt \in CloudFront(buildInput(spec))}

(* Seeded fault: only the restriction type is compared.                    *)
RestrictionTypesMatch(spec, dt) ==
  \/ spec = None /\ dt = None
  \/ spec # None /\ dt # None /\ spec.type = dt.type

geoRestrictionsMatch(spec, dt) ==
  \/ spec = None /\ dt = None
  \/ /\ spec # None /\ dt # None
     /\ spec.type = dt.type
     /\ Len(spec.locations) = Len(dt.locations)
     /\ ToSet(dt.locations) \subseteq ToSet(spec.locations)

(* Without an ARN means nil or empty.                                      *)
webAclMatch(spec, dt) ==
  \/ spec = None /\ dt = None
  \/ /\ spec # None /\ dt # None
     /\ spec.action = dt.action
     /\ First(spec.arn, "") = First(dt.arn, "")

customizationsMatch(spec, dt) ==
  \/ spec = None /\ dt = None
  \/ /\ spec # None /\ dt # None
     /\ webAclMatch(spec.acl, dt.acl)
     /\ spec.cert = dt.cert
     /\ geoRestrictionsMatch(spec.geo, dt.geo)

specMatchesAWS(spec, dt) ==
  /\ spec.enabled = dt.enabled
  /\ spec.group # None => spec.group = dt.group
  /\ Len(spec.domains) = Len(dt.domains)
  /\ ToSet(dt.domains) \subseteq ToSet(spec.domains)
  /\ Len(spec.parameters) = Len(dt.parameters)
  /\ \A i \in DOMAIN dt.parameters :
       ValueOf(spec.parameters, dt.parameters[i].name, "") = dt.parameters[i].value
  /\ customizationsMatch(spec.cust, dt.cust)

detectChanges ==
  IF specMatchesAWS(stored, aws) THEN "none"
  ELSE IF ~observed THEN "spec" ELSE "drift"

(* A distribution without a certificate needs one from the tenant; its     *)
(* required parameters are those without a default.                        *)
validateSpec(spec) ==
  /\ Dist.cert = None => Part(spec.cust, "cert") # None \/ spec.mcr # None
  /\ Dist.required \subseteq Names(spec.parameters)

(* Seeded fault: a wildcard covers every subdomain.                        *)
CoveredBySuffix(domain, sans) ==
  \E san \in sans :
    san = domain \/ (san[1] = "*" /\ IsStrictSuffix(Tail(san), domain))

domainCoveredBySANs(domain, sans) ==
  \E san \in sans :
    \/ san = domain
    \/ san[1] = "*" /\ Len(domain) > 1 /\ Tail(domain) = Tail(san)

(* Before a creation with DNS and without a managed certificate.  The      *)
(* lookups of distribution and certificate succeed here: a failing one     *)
(* skips the check.                                                        *)
validateCertificateSANs(spec) ==
  LET cert == First(Part(spec.cust, "cert"), Dist.cert)
  IN  cert # None =>
        \A d \in ToSet(spec.domains) : domainCoveredBySANs(d, SANs[cert])

Creatable(spec) ==
  /\ validateSpec(spec)
  /\ spec.dns # None /\ spec.mcr = None => validateCertificateSANs(spec)

-----------------------------------------------------------------------------
Init ==
  /\ row \in Rows
  /\ tmpl \in Templates
  /\ stored = None /\ observed = FALSE
  /\ aws = None
  /\ changes = 0

(* The specs this poll may ask for.                                        *)
Desired == IF item = None THEN {} ELSE buildTenantSpec(tmpl, item)

syncNewTenant ==
  /\ stored = None
  /\ \E spec \in Desired :
       /\ Admissible(spec)
       /\ stored' = WithDefaults(spec)
  /\ observed' = FALSE
  /\ UNCHANGED <<row, tmpl, aws, changes>>

syncExistingTenant(spec) ==
  /\ stored # None
  /\ ~tenantSpecEqual(stored, spec)
  /\ Admissible(applyManagedFields(stored, spec))
  /\ stored' = WithDefaults(applyManagedFields(stored, spec))
  /\ observed' = (observed /\ stored' = stored)
  /\ UNCHANGED <<row, tmpl, aws, changes>>

(* The row is skipped and has no tenant, or the API server rejects the     *)
(* write: the source counts an error and polls again later.                *)
NothingWritten ==
  /\ \/ item = None /\ stored = None
     \/ \E spec \in Desired :
          /\ stored # None => ~tenantSpecEqual(stored, spec)
          /\ ~Admissible(IF stored = None THEN spec
                         ELSE applyManagedFields(stored, spec))
  /\ UNCHANGED vars

(* No item for the tenant: it is deleted, and in the end also from AWS.    *)
Prune ==
  /\ item = None /\ stored # None
  /\ stored' = None /\ aws' = None /\ observed' = FALSE
  /\ UNCHANGED <<row, tmpl, changes>>

Sync ==
  Prune \/ syncNewTenant \/ \E spec \in Desired : syncExistingTenant(spec)

reconcileCreate ==
  /\ stored # None /\ aws = None
  /\ Creatable(stored)
  /\ aws' \in Answers(stored)
  /\ observed' = TRUE
  /\ UNCHANGED <<row, tmpl, stored, changes>>

(* A new spec is validated, a drift is not.  The drift policy is enforce.  *)
reconcileUpdate ==
  /\ stored # None /\ aws # None
  /\ \/ detectChanges = "spec" /\ validateSpec(stored)
     \/ detectChanges = "drift"
  /\ aws' \in Answers(stored)
  /\ observed' = TRUE
  /\ UNCHANGED <<row, tmpl, stored, changes>>

(* A condition tells the user; the tenant is requeued.                     *)
ValidationFails ==
  /\ stored # None
  /\ \/ aws = None /\ ~Creatable(stored)
     \/ aws # None /\ detectChanges = "spec" /\ ~validateSpec(stored)
  /\ UNCHANGED vars

InSync ==
  /\ stored # None /\ aws # None
  /\ detectChanges = "none"
  /\ observed' = TRUE
  /\ UNCHANGED <<row, tmpl, stored, aws, changes>>

(* The certificate was issued and some domain is not active yet.  An ARN   *)
(* the spec already has is overwritten.                                    *)
AttachCertificate ==
  /\ stored # None /\ aws # None
  /\ detectChanges = "none"
  /\ stored.mcr # None
  /\ stored' = [stored EXCEPT !.cust = [First(@, NoCust) EXCEPT !.cert = ManagedArn]]
  /\ observed' = (observed /\ stored' = stored)
  /\ UNCHANGED <<row, tmpl, aws, changes>>

Change == changes < MaxChanges /\ changes' = changes + 1

EditRow ==
  Change /\ row' \in Rows /\ UNCHANGED <<tmpl, stored, observed, aws>>

EditTemplate ==
  Change /\ tmpl' \in Templates /\ UNCHANGED <<row, stored, observed, aws>>

(* The configurations rows and templates ask for.                          *)
Configurations ==
  LET mapped == {mapDynamoItem(x) : x \in Rows} \ {None}
      specs  == UNION {buildTenantSpec(t, i) : t \in Templates, i \in mapped}
  IN  UNION {Answers(spec) : spec \in {x \in specs : Admissible(x)}}

(* Somebody else gives the tenant a configuration another row would have.  *)
ExternalUpdate ==
  /\ Change
  /\ aws # None
  /\ aws' \in Configurations
  /\ UNCHANGED <<row, tmpl, stored, observed>>

Push == reconcileCreate \/ reconcileUpdate

Next ==
  \/ Sync \/ NothingWritten \/ Push \/ ValidationFails \/ InSync
  \/ AttachCertificate
  \/ EditRow \/ EditTemplate \/ ExternalUpdate

Spec == Init /\ [][Next]_vars

(* Both controllers come back: the source polls, the tenant is requeued.   *)
FairSpec == Spec /\ WF_vars(Sync) /\ WF_vars(Push)

-----------------------------------------------------------------------------
(* A stored spec is one the API server accepts, with its TTL, and has      *)
(* customizations only if one of them is set (a nil and an empty value are *)
(* not the same to customizationsMatch); AWS lists hold no duplicate.      *)
TypeOK ==
  /\ stored # None =>
       /\ Admissible(stored)
       /\ stored.domains # <<>>
       /\ stored.cust # NoCust
       /\ stored.dns # None => stored.dns.ttl # None
  /\ aws # None =>
       /\ Len(aws.domains) = Cardinality(ToSet(aws.domains))
       /\ aws.group # None

(* An optional field as the set of its values.                             *)
Given(rec, field) == IF rec = None \/ rec[field] = None THEN {} ELSE {rec[field]}
ArnOf(acl) == Given(acl, "arn") \ {""}

SameAcl(a, b) ==
  IF a = None \/ b = None THEN a = b ELSE a.action = b.action /\ ArnOf(a) = ArnOf(b)

(* The controllers' comparisons against what they are to decide.  The      *)
(* lists as sets, in every field the operator sends.                       *)
Serves(dt, spec) ==
  /\ dt.enabled = spec.enabled
  /\ spec.group \in {None, dt.group}
  /\ ToSet(dt.domains) = ToSet(spec.domains)
  /\ ToSet(dt.parameters) = ToSet(spec.parameters)
  /\ SameAcl(Part(dt.cust, "acl"), Part(spec.cust, "acl"))
  /\ Part(dt.cust, "cert") = Part(spec.cust, "cert")
  /\ LET g == Part(dt.cust, "geo")
         h == Part(spec.cust, "geo")
     IN  IF g = None \/ h = None THEN g = h
         ELSE g.type = h.type /\ ToSet(g.locations) = ToSet(h.locations)

(* specMatchesAWS says yes exactly when AWS has the spec's configuration:  *)
(* no difference is missed and no order of a list counts as one            *)
(* (change_detection.go compares lengths and membership).                  *)
MatchIsExact ==
  stored # None /\ aws # None => (specMatchesAWS(stored, aws) <=> Serves(aws, stored))

(* Field by field, lists as sets, but for a certificate the row does not   *)
(* name: it was attached by the tenant controller, or kept as if it were.  *)
SameSpec(a, b) ==
  /\ Serves([a EXCEPT !.cust = IF b.mcr # None /\ Part(b.cust, "cert") = None /\ @ # None
                               THEN [@ EXCEPT !.cert = None] ELSE @],
            b)
  /\ a.mcr = b.mcr /\ a.dns = b.dns /\ Part(a.cust, "acl") = Part(b.cust, "acl")
  /\ ToSet(a.tags) = ToSet(b.tags) \/ \E t \in ToSet(b.tags) : t.value = None

(* tenantSpecEqual says yes only to a stored spec that has what the row    *)
(* and the template ask for, so that no edit of either is skipped.  Two    *)
(* exceptions: tagsEqual takes a missing key for a tag without a value,    *)
(* and parametersEqual for an empty value, which the API server would      *)
(* reject.                                                                 *)
EqualMeansSame ==
  stored # None =>
    \A spec \in Desired :
      tenantSpecEqual(stored, spec) =>
        SameSpec(stored, spec) \/ \E p \in ToSet(spec.parameters) : p.value = ""

(* An update settles: the row that caused it causes no second one.  A row  *)
(* that turns DNS on and names no TTL is excepted, for the API server      *)
(* fills in the default that the row does not have.                        *)
UpdateSettles ==
  [][\A spec \in Desired :
       syncExistingTenant(spec) =>
         \/ tenantSpecEqual(stored', spec)
         \/ spec.dns # None /\ spec.dns.ttl = None]_vars

(* What is sent is what is compared: after a creation or an update the     *)
(* controller sees no drift in the answer.                                 *)
PushSettles == [][Push => specMatchesAWS(stored, aws')]_vars

(* A SAN covers a domain label by label; only its first label, in front of *)
(* others, may be a wildcard, for exactly one label.                       *)
Covers(san, domain) ==
  /\ Len(san) = Len(domain)
  /\ \A i \in DOMAIN san : san[i] = domain[i] \/ (i = 1 /\ san[1] = "*" /\ Len(san) > 1)

(* The pre-flight check of a creation passes exactly the specs whose       *)
(* effective certificate, the tenant's or else the distribution's, covers  *)
(* every domain: domainCoveredBySANs accepts neither the apex nor a deeper *)
(* subdomain under a wildcard.                                             *)
CoverageIsExact ==
  stored # None =>
    LET cert == First(Part(stored.cust, "cert"), Dist.cert)
    IN  validateCertificateSANs(stored) <=>
          (cert # None =>
             \A d \in ToSet(stored.domains) : \E san \in SANs[cert] : Covers(san, d))

(* The row's values before the template's.                                 *)
Either(own, fromTemplate) == IF own # {} THEN own ELSE fromTemplate

(* The row before the template, field by field.  Excepted is the           *)
(* certificate of the template (crd.md:140): the tenant goes without it.   *)
Wanted(i, t, dt) ==
  LET acl == Part(dt.cust, "acl")
      geo == Part(dt.cust, "geo")
  IN
  /\ ToSet(dt.domains) = i.domains
  /\ dt.enabled = (FALSE \notin Either(Given(i, "enabled"), Given(t, "enabled")))
  /\ Either(Given(i, "group"), Given(t, "group")) \subseteq {dt.group}
  /\ \/ i.arn # None /\ Part(dt.cust, "cert") = i.arn
     \/ i.arn = None /\ (Part(dt.cust, "cert") = None \/ t.mcr # None)
  /\ Given(acl, "action") = Either(Given(i, "action"), Given(t.acl, "action"))
  /\ ArnOf(acl) = Either(Given(i, "aclArn"), Given(t.acl, "arn")) \ {""}
  /\ Given(geo, "type") = Either(Given(i, "geoType"), Given(t.geo, "type"))
  /\ UNION {ToSet(l) : l \in Given(geo, "locations")} =
       Either(UNION Given(i, "locations"),
              UNION {ToSet(l) : l \in Given(t.geo, "locations")})
  /\ {<<p.name, p.value>> : p \in ToSet(dt.parameters)} =
       Either(UNION {{<<n, m[n]>> : n \in DOMAIN m} : m \in Given(i, "parameters")},
              {<<p.name, p.value>> : p \in ToSet(t.parameters)})

(* Once edits and external changes end, AWS serves what row and template   *)
(* ask for, unless the API server or a validation rejects it; of a row     *)
(* without domains nothing is left.  A template's certificate, which the   *)
(* documentation calls a default, is not among the fields: no handler      *)
(* reads it.                                                               *)
RowReachesAWS ==
  <>[](IF item = None THEN aws = None
       ELSE (\A spec \in Desired : Admissible(spec) /\ Creatable(spec))
              => aws # None /\ Wanted(item, tmpl, aws))
=============================================================================
