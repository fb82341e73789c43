----------------------------- MODULE MCSharedZone -----------------------------
(***************************************************************************)
(* Two resources with one domain in common.                                *)
(***************************************************************************)
EXTENDS SharedZone

CONSTANTS d1, d2, g0, c0, t1, r1, r2

Managed(domains) ==
  [domains |-> domains, group |-> None, config |-> c0, enabled |-> TRUE,
   ttl |-> t1, managed |-> "none", cert |-> FALSE]

MCSpecs  == {Managed({d1}), Managed({d1, d2})}
MCSpecOf == [r \in Resources |->
               IF r = r1 THEN Managed({d1, d2}) ELSE Managed({d1})]
=============================================================================
