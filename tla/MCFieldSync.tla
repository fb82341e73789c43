----------------------------- MODULE MCFieldSync -----------------------------
(* Rows and templates that differ from a base in one or two fields.        *)
EXTENDS FieldSync

Apex == <<"ex">>
Sub  == <<"a", "ex">>
Deep == <<"b", "a", "ex">>

S(v)  == [S |-> v]
SS(v) == [SS |-> v]
M(v)  == [M |-> v]

Row ==
  [domains |-> S(Sub), enabled |-> None, group |-> None, arn |-> None,
   host |-> None, primary |-> None, provider |-> None, zone |-> None,
   ttl |-> None, action |-> None, aclArn |-> None, geoType |-> None,
   locations |-> None, parameters |-> None, tags |-> None]

MCRows ==
  {Row,
   [Row EXCEPT !.domains = SS({Sub, Apex}), !.parameters = M([q |-> S("2")])],
   [Row EXCEPT !.domains = SS({Deep}), !.arn = S("wild"), !.enabled = S("no")],
   [Row EXCEPT !.arn = S("wild"), !.group = S("g1"), !.action = S("disable")],
   [Row EXCEPT !.parameters = M([p |-> S("1"), q |-> SS({"2"})])],
   [Row EXCEPT !.parameters = M([p |-> S("1"), q |-> S("2")]),
               !.host = S("self-hosted")],
   [Row EXCEPT !.parameters = M([q |-> S("")])],
   [Row EXCEPT !.locations = SS({"US", "DE"})],
   [Row EXCEPT !.ttl = [N |-> "60"], !.geoType = S("blacklist"),
               !.aclArn = S("acl2")],
   [Row EXCEPT !.provider = S("route53"), !.zone = S("z1"), !.group = SS({"g1"}),
               !.tags = M([k |-> S("v")])],
   [Row EXCEPT !.domains = None]}

Template ==
  [enabled |-> None, group |-> None, mcr |-> None, dns |-> None, acl |-> None,
   cert |-> None, geo |-> None, parameters |-> <<>>, tags |-> <<>>]

P(name, value) == [name |-> name, value |-> value]

MCTemplates ==
  {[Template EXCEPT !.parameters = <<P("p", "1")>>, !.group = "g2",
                    !.cert = "wild"],
   [Template EXCEPT !.mcr = [host |-> "cloudfront", primary |-> None],
                    !.acl = [action |-> "disable", arn |-> ""],
                    !.parameters = <<P("p", "1"), P("r", "3")>>,
                    !.tags = <<P("k", None)>>],
   [Template EXCEPT !.dns = [provider |-> "route53", zone |-> "z1", ttl |-> "300"],
                    !.acl = [action |-> "override", arn |-> "acl1"],
                    !.geo = [type |-> "whitelist", locations |-> <<"US">>],
                    !.parameters = <<P("p", "1")>>,
                    !.tags = <<P("l", None)>>]}

MCDist == [cert |-> "dist", required |-> {"p"}]
MCSANs == [dist |-> {<<"*", "ex">>, Apex}, wild |-> {<<"*", "ex">>},
           managed |-> {Apex, Sub, Deep}]
=============================================================================
