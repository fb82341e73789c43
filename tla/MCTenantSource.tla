---------------------------- MODULE MCTenantSource ----------------------------
(***************************************************************************)
(* Instances of TenantSource for TLC.                                      *)
(***************************************************************************)
EXTENDS TenantSource

CONSTANTS n1, n2, v1, v2

(* An item that leaves all to the template, and one with a value and a     *)
(* certificate of its own.                                                 *)
Bare == [value |-> None, arn |-> FALSE]
Full == [value |-> v2, arn |-> TRUE]
MCItems == {Bare, Full}

(* One row, or two of which one is left alone.                             *)
MCTables == {[n \in Names |-> IF n = n1 THEN Bare ELSE i] : i \in {NoItem, Full}}

Base == [template |-> v1, managed |-> TRUE, dryRun |-> FALSE,
         target |-> "own", configured |-> TRUE]

Dry == [Base EXCEPT !.dryRun = TRUE]
MCFirstSpecs == {Base, Dry}

(* The template, the certificate, the mode, the namespace or the provider  *)
(* changes.                                                                *)
MCSourceSpecs ==
  {Base, [Base EXCEPT !.template = v2, !.managed = FALSE],
   Dry, [Base EXCEPT !.target = "other"],
   [Base EXCEPT !.configured = FALSE]}
=============================================================================
