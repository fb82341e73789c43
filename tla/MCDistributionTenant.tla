------------------------- MODULE MCDistributionTenant -------------------------
(***************************************************************************)
(* Instances of DistributionTenant for TLC: the specs users write in each  *)
(* run.                                                                    *)
(***************************************************************************)
EXTENDS DistributionTenant

CONSTANTS d1, d2, g0, g1, c0, c1, bad, t1, t2

Plain(config) ==
  [domains |-> {d1}, group |-> None, config |-> config, enabled |-> TRUE,
   ttl |-> None, managed |-> "none", cert |-> FALSE]

(* The config changes, or the tenant is switched off.                      *)
ConfigSpecs == {Plain(c0), Plain(c1)}
PlainSpecs == {Plain(c0), Plain(c1), [Plain(c0) EXCEPT !.enabled = FALSE]}

(* The config changes to one the distribution rejects, the domain to one   *)
(* the certificate does not cover, or only the TTL, which is never sent.   *)
RejectableSpecs ==
  LET dns == [Plain(c0) EXCEPT !.ttl = t1] IN
  {dns, [dns EXCEPT !.ttl = t2], [dns EXCEPT !.config = bad],
   [dns EXCEPT !.domains = {d2}], Plain(bad)}

(* DNS is managed; the domains or the TTL change.                          *)
WithDNS(domains, ttl) == [Plain(c0) EXCEPT !.domains = domains, !.ttl = ttl]
DomainSpecs == {WithDNS({d1}, t1), WithDNS({d2}, t1)}
TTLSpecs    == {WithDNS({d1}, t1), WithDNS({d1}, t2)}

(* A managed certificate with managed DNS; connection group and TTL        *)
(* change, and the domains stay as they are.                               *)
ManagedSpecs ==
  LET managed == [WithDNS({d1}, t1) EXCEPT !.managed = "cloudfront"] IN
  {managed, [managed EXCEPT !.group = g1, !.ttl = t2]}
=============================================================================
