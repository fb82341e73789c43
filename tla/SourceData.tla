------------------------------ MODULE SourceData ------------------------------
(***************************************************************************)
(* The data of the TenantSource controller and its pure functions.         *)
(* `value' stands for the fields a tenant takes from its item or else from *)
(* the source's template (enabled, connection group, DNS, web ACL, geo     *)
(* restrictions, parameters, tags) or from the item alone (domains): they  *)
(* are built, compared and written alike.  Module FieldSync has them one   *)
(* by one.                                                                 *)
(***************************************************************************)
EXTENDS Naturals

CONSTANTS
  Names,    \* of tenants and of items
  Values,   \* of the plain fields
  None      \* nil

ASSUME SourceDataAssumption == None \notin Values /\ Values # {}

(* arn: the item names a certificate.                                      *)
ItemType == [value : Values \cup {None}, arn : BOOLEAN]
NoItem   == [value |-> None, arn |-> None]   \* also a row that cannot be mapped

(* configured: the provider is registered and has its section in the spec. *)
(* target: targetNamespace is the source's own, also by default, or        *)
(* another one.  The tenants of the model live in the source's own: in     *)
(* another none can be created.                                            *)
SourceSpecType ==
  [template : Values, managed : BOOLEAN, dryRun : BOOLEAN,
   target : {"own", "other"}, configured : BOOLEAN]

(* cert: customizations.certificate.  managed: managedCertificateRequest.  *)
TenantSpecType ==
  [value : Values, managed : BOOLEAN,
   cert : {"none", "explicit", "attached"}]

NoSpec ==
  [value |-> CHOOSE v \in Values : TRUE, managed |-> FALSE, cert |-> "none"]

(* Seeded fault: the template is not consulted.                            *)
BuildFromItem(s, item) ==
  [value   |-> item.value,
   managed |-> s.managed /\ ~item.arn,
   cert    |-> IF item.arn THEN "explicit" ELSE "none"]

(* Item before template; an explicit certificate before a managed one.     *)
buildTenantSpec(s, item) ==
  [value   |-> IF item.value # None THEN item.value ELSE s.template,
   managed |-> s.managed /\ ~item.arn,
   cert    |-> IF item.arn THEN "explicit" ELSE "none"]

(* Seeded fault: an attached certificate counts as a difference.           *)
CertificatesEqual(a, b) == a.cert = b.cert

(* a is the stored spec, b the desired one.                                *)
certificateFieldsEqual(a, b) ==
  \/ b.managed /\ b.cert = "none" /\ a.managed
  \/ a.cert = b.cert

(* Seeded fault: the certificate fields are not compared.                  *)
ValuesEqual(a, b) == a.value = b.value

tenantSpecEqual(a, b) ==
  a.value = b.value /\ a.managed = b.managed /\ certificateFieldsEqual(a, b)

(* The desired spec, with the stored certificate if it may be attached.    *)
applyManagedFields(dst, src) ==
  [src EXCEPT !.cert = IF src.managed /\ src.cert = "none" THEN dst.cert ELSE @]
=============================================================================
