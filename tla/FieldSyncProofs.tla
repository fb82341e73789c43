--------------------------- MODULE FieldSyncProofs ---------------------------
(***************************************************************************)
(* Proofs about FieldSync, for every table, every template, every          *)
(* certificate and any number of changes.  The code compares lists by      *)
(* length and one inclusion, and lists of names and values by length and   *)
(* one lookup per name.  Both decide equality only for lists without       *)
(* duplicates and for values that differ from what a missing name reads    *)
(* as; the invariant FieldInv says that the controllers only ever compare  *)
(* such lists.  The lemmas follow a value on its way: list comparison,     *)
(* attribute, item, desired spec, stored spec, answer.                     *)
(***************************************************************************)
EXTENDS FieldSync, FiniteSetTheorems, FunctionTheorems, TLAPS

(* A list without duplicates is as long as the set of its members.         *)
LEMMA ListCardinality ==
  ASSUME NEW S, NEW l \in ListOf(S)
  PROVE  /\ l \in Seq(S) /\ Len(l) \in Nat
         /\ IsFiniteSet(ToSet(l)) /\ Cardinality(ToSet(l)) = Len(l)
         /\ ToSet(l) \subseteq S
<1>1. /\ l \in Seq(S) /\ Len(l) \in Nat /\ DOMAIN l = 1..Len(l)
      /\ \A i, j \in 1..Len(l) : l[i] = l[j] => i = j
      /\ \A i \in 1..Len(l) : l[i] \in S
  BY DEF ListOf
<1>2. l \in Bijection(1..Len(l), ToSet(l))
  <2>1. l \in [1..Len(l) -> ToSet(l)]
    BY <1>1, SMTT(30) DEF ToSet
  <2>2. l \in Injection(1..Len(l), ToSet(l))
    BY <1>1, <2>1 DEF Injection, IsInjective
  <2>3. l \in Surjection(1..Len(l), ToSet(l))
    BY <1>1, <2>1 DEF Surjection, ToSet
  <2> QED BY <2>2, <2>3 DEF Bijection
<1>3. IsFiniteSet(1..Len(l)) /\ Cardinality(1..Len(l)) = Len(l)
  <2>1. 1 \in Int /\ Len(l) \in Int
    BY <1>1
  <2>2. IsFiniteSet(1..Len(l))
        /\ Cardinality(1..Len(l)) = IF 1 > Len(l) THEN 0 ELSE Len(l) - 1 + 1
    BY <2>1, FS_Interval
  <2> QED BY <1>1, <2>2
<1>4. IsFiniteSet(ToSet(l)) /\ Cardinality(ToSet(l)) = Cardinality(1..Len(l))
  BY <1>2, <1>3, FS_Bijection DEF ExistsBijection
<1> QED BY <1>1, <1>3, <1>4 DEF ToSet

(* The lists without duplicates that stringSliceEqual finds equal are      *)
(* those with the same members: equal lengths and one inclusion suffice.   *)
LEMMA SameMembers ==
  ASSUME NEW S, NEW T, NEW a \in ListOf(S), NEW b \in ListOf(T)
  PROVE  (Len(a) = Len(b) /\ ToSet(b) \subseteq ToSet(a)) <=> ToSet(a) = ToSet(b)
<1>1. /\ IsFiniteSet(ToSet(a)) /\ Cardinality(ToSet(a)) = Len(a)
      /\ IsFiniteSet(ToSet(b)) /\ Cardinality(ToSet(b)) = Len(b)
  BY ListCardinality
<1>2. ASSUME Len(a) = Len(b), ToSet(b) \subseteq ToSet(a)
      PROVE  ToSet(a) = ToSet(b)
  BY <1>1, <1>2, FS_Subset
<1> QED BY <1>1, <1>2

(* What a set read in any order gives: a list without duplicates of its    *)
(* members.                                                                *)
LEMMA AnyOrder ==
  ASSUME NEW S, IsFiniteSet(S), NEW l \in SetToSeqs(S)
  PROVE  /\ l \in ListOf(S) /\ ToSet(l) = S /\ Len(l) = Cardinality(S)
         /\ S # {} => l # <<>>
<1> DEFINE n == Cardinality(S)
<1>1. n \in Nat BY FS_CardinalityType
<1>2. l \in [1..n -> S] /\ \A i, j \in 1..n : i # j => l[i] # l[j]
  BY DEF SetToSeqs
<1>3. l \in Seq(S) /\ Len(l) = n /\ DOMAIN l = 1..n
  BY <1>1, <1>2
<1>4. l \in ListOf(S)
  BY <1>2, <1>3 DEF ListOf
<1>5. ToSet(l) \subseteq S /\ Cardinality(ToSet(l)) = n
  BY <1>3, <1>4, ListCardinality
<1>6. ToSet(l) = S
  BY <1>5, FS_Subset
<1>7. S # {} => n # 0
  BY FS_EmptySet
<1> QED BY <1>3, <1>4, <1>6, <1>7

(* A Go map made of entries with distinct names has the value of each.     *)
LEMMA ValueOfEntry ==
  ASSUME NEW V, NEW l \in EntriesOf(V), NEW absent, NEW i \in DOMAIN l
  PROVE  ValueOf(l, l[i].name, absent) = l[i].value
<1> DEFINE at == {k \in DOMAIN l : l[k].name = l[i].name}
<1>1. DOMAIN l = 1..Len(l) /\ Len(l) \in Nat
  BY DEF EntriesOf
<1>2. at = {i}
  BY DEF EntriesOf
<1>3. (CHOOSE k \in at : \A j \in at : j <= k) = i
  BY <1>1, <1>2
<1> QED BY <1>2, <1>3 DEF ValueOf

(* Of a name it does not have, a Go map has the zero value.                *)
LEMMA ValueOfMissing ==
  ASSUME NEW l, NEW name, NEW absent, \A i \in DOMAIN l : l[i].name # name
  PROVE  ValueOf(l, name, absent) = absent
BY DEF ValueOf

(* Entries with distinct names are a list without duplicates.              *)
LEMMA EntriesAreLists ==
  ASSUME NEW V, NEW l \in EntriesOf(V)
  PROVE  l \in ListOf([name : STRING, value : V])
BY DEF EntriesOf, ListOf

(* The comparison by name, and that no entry has the value absent.         *)
SameByName(a, b, absent) ==
  Len(a) = Len(b) /\ \A i \in DOMAIN b : ValueOf(a, b[i].name, absent) = b[i].value
NoEntryIs(b, absent) == \A e \in ToSet(b) : e.value # absent

(* Two lists of entries compared as the code compares them, by length and  *)
(* by the value of each name, agree exactly when they have the same        *)
(* entries; but a missing name counts as one with the value absent.        *)
LEMMA SameEntries ==
  ASSUME NEW V, NEW W, NEW a \in EntriesOf(V), NEW b \in EntriesOf(W), NEW absent,
         NoEntryIs(b, absent)
  PROVE  SameByName(a, b, absent) <=> ToSet(a) = ToSet(b)
<1>1. a \in ListOf([name : STRING, value : V]) /\ b \in ListOf([name : STRING, value : W])
  BY EntriesAreLists
<1>2. (Len(a) = Len(b) /\ ToSet(b) \subseteq ToSet(a)) <=> ToSet(a) = ToSet(b)
  BY <1>1, SameMembers
<1>3. /\ \A i \in DOMAIN a : a[i] \in [name : STRING, value : V]
      /\ \A i \in DOMAIN b : b[i] \in [name : STRING, value : W]
  <2> DEFINE A == [name : STRING, value : V]
             B == [name : STRING, value : W]
  <2>1. a \in Seq(A) /\ b \in Seq(B)
    BY DEF EntriesOf
  <2> HIDE DEF A, B
  <2>2. (\A i \in DOMAIN a : a[i] \in A) /\ (\A i \in DOMAIN b : b[i] \in B)
    BY <2>1
  <2> QED BY <2>2 DEF A, B
<1>6. \A i \in DOMAIN b : b[i] \in ToSet(b)
  BY DEF ToSet
<1>4. ASSUME \A i \in DOMAIN b : ValueOf(a, b[i].name, absent) = b[i].value
      PROVE  ToSet(b) \subseteq ToSet(a)
  <2>1. SUFFICES ASSUME NEW i \in DOMAIN b PROVE b[i] \in ToSet(a)
    BY DEF ToSet
  <2>2. ValueOf(a, b[i].name, absent) # absent
    BY <1>4, <1>6 DEF NoEntryIs
  <2>3. PICK j \in DOMAIN a : a[j].name = b[i].name
    BY <2>2, ValueOfMissing
  <2>4. a[j].value = b[i].value
    BY <1>4, <2>3, ValueOfEntry
  <2>5. a[j] = b[i]
    BY <1>3, <2>3, <2>4
  <2> QED BY <2>5 DEF ToSet
<1>5. ASSUME ToSet(b) \subseteq ToSet(a), NEW i \in DOMAIN b
      PROVE  ValueOf(a, b[i].name, absent) = b[i].value
  <2>1. PICK j \in DOMAIN a : a[j] = b[i]
    BY <1>5 DEF ToSet
  <2> QED BY <2>1, ValueOfEntry
<1> QED BY <1>2, <1>4, <1>5 DEF SameByName

(* domainCoveredBySANs on one name: the exact name, or a wildcard for the  *)
(* first label.                                                            *)
LEMMA NameCovers ==
  ASSUME NEW L, NEW san \in Seq(L), NEW d \in Seq(L), san # <<>>, d # <<>>
  PROVE  (san = d \/ (san[1] = "*" /\ Len(d) > 1 /\ Tail(d) = Tail(san)))
           <=> Covers(san, d)
<1>1. /\ Len(san) \in Nat /\ Len(san) > 0 /\ DOMAIN san = 1..Len(san)
      /\ Len(d) \in Nat /\ Len(d) > 0 /\ DOMAIN d = 1..Len(d)
  OBVIOUS
<1>2. /\ Tail(san) \in Seq(L) /\ Len(Tail(san)) = Len(san) - 1
      /\ \A i \in 1..Len(san) - 1 : Tail(san)[i] = san[i + 1]
  BY <1>1
<1>3. /\ Tail(d) \in Seq(L) /\ Len(Tail(d)) = Len(d) - 1
      /\ \A i \in 1..Len(d) - 1 : Tail(d)[i] = d[i + 1]
  BY <1>1
<1>4. ASSUME san = d PROVE Covers(san, d)
  BY <1>1, <1>4 DEF Covers
<1>5. ASSUME san[1] = "*", Len(d) > 1, Tail(d) = Tail(san)
      PROVE  Covers(san, d)
  <2>1. Len(san) = Len(d)
    <3>1. Len(Tail(san)) = Len(Tail(d))
      BY <1>5
    <3>2. Len(Tail(san)) = Len(san) - 1 /\ Len(Tail(d)) = Len(d) - 1
      BY <1>2, <1>3
    <3>3. Len(san) - 1 = Len(d) - 1
      BY <3>1, <3>2
    <3>4. \A m, n \in Nat : m - 1 = n - 1 => m = n
      OBVIOUS
    <3>5. Len(san) \in Nat /\ Len(d) \in Nat
      BY <1>1
    <3> QED BY ONLY <3>3, <3>4, <3>5, Zenon
  <2>2. ASSUME NEW i \in 1..Len(san), i # 1 PROVE san[i] = d[i]
    <3>1. i - 1 \in 1..Len(san) - 1 /\ (i - 1) + 1 = i
      BY <1>1, <2>2
    <3>2. Tail(san)[i - 1] = san[i] /\ Tail(d)[i - 1] = d[i]
      BY <1>2, <1>3, <2>1, <3>1
    <3> QED BY <1>5, <3>2
  <2> QED BY <1>1, <1>5, <2>1, <2>2 DEF Covers
<1>6. ASSUME Covers(san, d), san # d
      PROVE  san[1] = "*" /\ Len(d) > 1 /\ Tail(d) = Tail(san)
  <2>1. /\ Len(san) = Len(d)
        /\ \A i \in 1..Len(san) :
             san[i] = d[i] \/ (i = 1 /\ san[1] = "*" /\ Len(san) > 1)
    BY <1>1, <1>6 DEF Covers
  <2>2. PICK i \in 1..Len(san) : san[i] # d[i]
    BY <1>1, <1>6, <2>1
  <2>3. san[1] = "*" /\ Len(d) > 1
    BY <2>1, <2>2
  <2>4. \A k \in 1..Len(san) - 1 : Tail(san)[k] = Tail(d)[k]
    <3>1. SUFFICES ASSUME NEW k \in 1..Len(san) - 1 PROVE Tail(san)[k] = Tail(d)[k]
      OBVIOUS
    <3>2. k + 1 \in 1..Len(san) /\ k + 1 # 1
      BY <1>1
    <3>3. san[k + 1] = d[k + 1]
      BY <2>1, <3>2
    <3> QED BY <1>2, <1>3, <2>1, <3>3
  <2>5. Tail(san) = Tail(d)
    BY <1>1, <1>2, <1>3, <2>1, <2>4
  <2> QED BY <2>3, <2>5
<1> QED BY <1>4, <1>5, <1>6
-----------------------------------------------------------------------------
(* What the values are on the way from a row to CloudFront.                *)

ItemOK(i) ==
  /\ i.domains \subseteq Domain /\ IsFiniteSet(i.domains) /\ i.domains # {}
  /\ i.enabled \in Opt(BOOLEAN) /\ i.group \in Opt(STRING)
  /\ i.arn \in Opt(DOMAIN SANs)
  /\ i.host \in Opt(STRING) /\ i.primary \in Opt(Domain)
  /\ i.provider \in Opt(STRING) /\ i.zone \in Opt(STRING) /\ i.ttl \in Opt(STRING)
  /\ i.action \in Opt(STRING) /\ i.aclArn \in Opt(STRING)
  /\ i.geoType \in Opt(STRING)
  /\ i.locations # None => i.locations \subseteq STRING /\ IsFiniteSet(i.locations)
  /\ \A m \in {i.parameters, i.tags} :
       m # None =>
         /\ DOMAIN m \subseteq STRING /\ IsFiniteSet(DOMAIN m)
         /\ \A k \in DOMAIN m : m[k] \in STRING

SpecType ==
  [domains : ListOf(Domain), enabled : BOOLEAN, group : Opt(STRING),
   mcr : Opt(McrType), dns : Opt(DnsType), cust : Opt(CustType),
   parameters : EntriesOf(STRING), tags : EntriesOf(Opt(STRING))]

AnswerType ==
  [domains : ListOf(Domain), enabled : BOOLEAN, group : STRING,
   cust : Opt(CustType), parameters : EntriesOf(STRING)]

(* Empty customizations are customizations, and not nil.                   *)
LEMMA NoCustTyped == NoCust \in CustType /\ NoCust # None
BY NilAssumption DEF NoCust, CustType, Opt

(* A string attribute is one of its values, or not given.                  *)
LEMMA StringAttribute ==
  ASSUME NEW V, NEW av, AttributeOf(av, V)
  PROVE  getStringAttr(av) \in Opt(V \ {""})
<1>1. Attribute(av, "S") \in V \cup {None}
  BY DEF AttributeOf, Attribute
<1> QED BY <1>1 DEF getStringAttr, Opt

(* A set attribute is a finite set of its values and never empty.          *)
LEMMA SetAttribute ==
  ASSUME NEW V, NEW av, AttributeOf(av, V), getSetAttr(av) # None
  PROVE  /\ getSetAttr(av) \subseteq V /\ IsFiniteSet(getSetAttr(av))
         /\ getSetAttr(av) # {}
BY DEF AttributeOf, Attribute, getSetAttr

(* So are the domains, given as a string or as a set.                      *)
LEMMA DomainsAttribute ==
  ASSUME NEW V, NEW av, AttributeOf(av, V), getDomainsAttr(av) # None
  PROVE  /\ getDomainsAttr(av) \subseteq V /\ IsFiniteSet(getDomainsAttr(av))
         /\ getDomainsAttr(av) # {}
<1>1. CASE Attribute(av, "S") \in {None, <<>>}
  <2>1. getDomainsAttr(av) = getSetAttr(av)
    BY <1>1 DEF getDomainsAttr
  <2> QED BY <2>1, SetAttribute
<1>2. CASE Attribute(av, "S") \notin {None, <<>>}
  <2>1. getDomainsAttr(av) = {Attribute(av, "S")}
    BY <1>2 DEF getDomainsAttr
  <2>2. Attribute(av, "S") \in V
    BY <1>2 DEF AttributeOf, Attribute
  <2> QED BY <2>1, <2>2, FS_Singleton
<1> QED BY <1>1, <1>2

(* A map attribute keeps finitely many names, all with strings.            *)
LEMMA MapAttribute ==
  ASSUME NEW V, NEW av, AttributeOf(av, V), getMapStringAttr(av) # None
  PROVE  /\ DOMAIN getMapStringAttr(av) \subseteq STRING
         /\ IsFiniteSet(DOMAIN getMapStringAttr(av))
         /\ \A k \in DOMAIN getMapStringAttr(av) : getMapStringAttr(av)[k] \in STRING
<1> DEFINE m    == First(Attribute(av, "M"), <<>>)
           keys == {k \in DOMAIN m : "S" \in DOMAIN m[k]}
<1>1. keys # {} /\ getMapStringAttr(av) = [k \in keys |-> m[k].S]
  BY DEF getMapStringAttr
<1>2. Attribute(av, "M") # None
  BY <1>1 DEF First
<1>3. m = av.M /\ av # None /\ "M" \in DOMAIN av
  BY <1>2 DEF First, Attribute
<1>4. /\ DOMAIN m \subseteq STRING /\ IsFiniteSet(DOMAIN m)
      /\ \A k \in DOMAIN m : "S" \in DOMAIN m[k] => m[k].S \in STRING
  BY <1>3 DEF AttributeOf
<1>5. keys \subseteq DOMAIN m
  OBVIOUS
<1> HIDE DEF m
<1>6. IsFiniteSet(keys)
  BY <1>4, <1>5, FS_Subset
<1> QED BY <1>1, <1>4, <1>6

(* mapDynamoItem yields an item of the expected shape or skips the row.    *)
LEMMA MappedItem ==
  ASSUME NEW x \in Rows, mapDynamoItem(x) # None
  PROVE  ItemOK(mapDynamoItem(x))
<1> DEFINE i == mapDynamoItem(x)
<1>1. getDomainsAttr(x.domains) # None
  BY DEF mapDynamoItem
<1>2. /\ AttributeOf(x.domains, Domain) /\ AttributeOf(x.primary, Domain)
      /\ AttributeOf(x.arn, {""} \cup DOMAIN SANs)
      /\ \A f \in Fields : AttributeOf(x[f], STRING)
  BY TableAssumption
<1>3. /\ AttributeOf(x.enabled, STRING) /\ AttributeOf(x.group, STRING)
      /\ AttributeOf(x.host, STRING) /\ AttributeOf(x.provider, STRING)
      /\ AttributeOf(x.zone, STRING) /\ AttributeOf(x.ttl, STRING)
      /\ AttributeOf(x.action, STRING) /\ AttributeOf(x.aclArn, STRING)
      /\ AttributeOf(x.geoType, STRING) /\ AttributeOf(x.locations, STRING)
      /\ AttributeOf(x.parameters, STRING) /\ AttributeOf(x.tags, STRING)
  BY <1>2 DEF Fields
<1>4. i.domains = getDomainsAttr(x.domains) /\ i.enabled = getBoolAttr(x.enabled)
      /\ i.group = getStringAttr(x.group) /\ i.arn = getStringAttr(x.arn)
      /\ i.host = getStringAttr(x.host) /\ i.primary = getStringAttr(x.primary)
      /\ i.provider = getStringAttr(x.provider) /\ i.zone = getStringAttr(x.zone)
      /\ i.ttl = Attribute(x.ttl, "N") /\ i.action = getStringAttr(x.action)
      /\ i.aclArn = getStringAttr(x.aclArn) /\ i.geoType = getStringAttr(x.geoType)
      /\ i.locations = getSetAttr(x.locations)
      /\ i.parameters = getMapStringAttr(x.parameters)
      /\ i.tags = getMapStringAttr(x.tags)
  BY <1>1 DEF mapDynamoItem
<1> HIDE DEF i
<1>5. /\ i.domains \subseteq Domain /\ IsFiniteSet(i.domains) /\ i.domains # {}
  BY <1>1, <1>2, <1>4, DomainsAttribute
<1>6. i.enabled \in Opt(BOOLEAN)
  BY <1>3, <1>4 DEF getBoolAttr, AttributeOf, Attribute, Opt
<1>7. i.ttl \in Opt(STRING)
  BY <1>3, <1>4 DEF AttributeOf, Attribute, Opt
<1>8. \A av : AttributeOf(av, STRING) => getStringAttr(av) \in Opt(STRING)
  BY StringAttribute DEF Opt
<1>9. /\ i.group \in Opt(STRING) /\ i.host \in Opt(STRING)
      /\ i.provider \in Opt(STRING) /\ i.zone \in Opt(STRING)
      /\ i.action \in Opt(STRING) /\ i.aclArn \in Opt(STRING)
      /\ i.geoType \in Opt(STRING)
  BY <1>3, <1>4, <1>8
<1>10. i.arn \in Opt(DOMAIN SANs)
  <2>1. getStringAttr(x.arn) \in Opt(({""} \cup DOMAIN SANs) \ {""})
    BY <1>2, StringAttribute
  <2> QED BY <1>4, <2>1 DEF Opt
<1>11. i.primary \in Opt(Domain)
  <2>1. getStringAttr(x.primary) \in Opt(Domain \ {""})
    BY <1>2, StringAttribute
  <2> QED BY <1>4, <2>1 DEF Opt
<1>12. i.locations # None => i.locations \subseteq STRING /\ IsFiniteSet(i.locations)
  BY <1>3, <1>4, SetAttribute
<1>13. \A av : AttributeOf(av, STRING) /\ getMapStringAttr(av) # None =>
         /\ DOMAIN getMapStringAttr(av) \subseteq STRING
         /\ IsFiniteSet(DOMAIN getMapStringAttr(av))
         /\ \A k \in DOMAIN getMapStringAttr(av) : getMapStringAttr(av)[k] \in STRING
  BY MapAttribute
<1>14. \A m \in {i.parameters, i.tags} :
         m # None =>
           /\ DOMAIN m \subseteq STRING /\ IsFiniteSet(DOMAIN m)
           /\ \A k \in DOMAIN m : m[k] \in STRING
  BY <1>3, <1>4, <1>13
<1>15. ItemOK(i)
  BY <1>5, <1>6, <1>7, <1>9, <1>10, <1>11, <1>12, <1>14 DEF ItemOK
<1> QED BY <1>15 DEF i

(* The entries of a row's map, in any order, have distinct names.          *)
LEMMA MapEntries ==
  ASSUME NEW V, NEW m, DOMAIN m \subseteq STRING, IsFiniteSet(DOMAIN m),
         \A k \in DOMAIN m : m[k] \in V,
         NEW l \in SetToSeqs({[name |-> n, value |-> m[n]] : n \in DOMAIN m})
  PROVE  l \in EntriesOf(V)
<1> DEFINE E == {[name |-> n, value |-> m[n]] : n \in DOMAIN m}
           f == [n \in DOMAIN m |-> [name |-> n, value |-> m[n]]]
<1>1. f \in Surjection(DOMAIN m, E)
  BY DEF Surjection
<1>2. IsFiniteSet(E)
  BY <1>1, FS_Surjection
<1>3. l \in ListOf(E)
  BY <1>2, AnyOrder
<1>4. E \subseteq [name : STRING, value : V]
  OBVIOUS
<1>5. \A e, g \in E : e.name = g.name => e = g
  OBVIOUS
<1> HIDE DEF E
<1>6. /\ l \in Seq(E) /\ \A i \in DOMAIN l : l[i] \in E
      /\ \A i, j \in DOMAIN l : l[i] = l[j] => i = j
  BY <1>3 DEF ListOf
<1>7. l \in Seq([name : STRING, value : V])
  <2> DEFINE R == [name : STRING, value : V]
  <2>1. E \subseteq R BY <1>4
  <2> HIDE DEF R
  <2>2. l \in Seq(R) BY <1>6, <2>1
  <2> QED BY <2>2 DEF R
<1>8. \A i, j \in DOMAIN l : l[i].name = l[j].name => i = j
  BY <1>5, <1>6
<1> QED BY <1>7, <1>8 DEF EntriesOf

(* The row's entries, or else the template's, have distinct names.         *)
LEMMA BuiltEntries ==
  ASSUME NEW V, STRING \subseteq V, NEW own, NEW list \in EntriesOf(V),
         own # None => /\ DOMAIN own \subseteq STRING /\ IsFiniteSet(DOMAIN own)
                       /\ \A k \in DOMAIN own : own[k] \in STRING,
         NEW l \in buildEntries(own, list)
  PROVE  l \in EntriesOf(V)
<1>1. CASE own = None
  BY <1>1 DEF buildEntries
<1>2. CASE own # None
  <2>1. l \in SetToSeqs({[name |-> n, value |-> own[n]] : n \in DOMAIN own})
    BY <1>2 DEF buildEntries
  <2>2. \A k \in DOMAIN own : own[k] \in V
    BY <1>2
  <2> QED BY <1>2, <2>1, <2>2, MapEntries
<1> QED BY <1>1, <1>2

(* buildTenantSpec: what the desired specs look like.  Customizations are  *)
(* nil or hold something.                                                  *)
LEMMA BuiltSpec ==
  ASSUME NEW t \in TemplateType, NEW i, ItemOK(i), NEW s \in buildTenantSpec(t, i)
  PROVE  s \in SpecType /\ s.domains # <<>> /\ s.cust # NoCust
<1>1. PICK ds \in SetToSeqs(i.domains), ls \in Orders(i.locations),
           ps \in buildEntries(i.parameters, t.parameters),
           ts \in buildEntries(i.tags, t.tags) :
        s = SpecWith(t, i, ds, ls, ps, ts)
  BY DEF buildTenantSpec
<1>2. ds \in ListOf(Domain) /\ ds # <<>> /\ ds[1] \in Domain
  <2>1. /\ i.domains \subseteq Domain /\ IsFiniteSet(i.domains) /\ i.domains # {}
    BY DEF ItemOK
  <2>2. ds \in ListOf(i.domains) /\ ds # <<>>
    BY <2>1, AnyOrder
  <2>3. ds \in ListOf(Domain)
    BY <2>1, <2>2 DEF ListOf
  <2>4. ds \in Seq(Domain)
    BY <2>3, ListCardinality
  <2> QED BY <2>2, <2>3, <2>4
<1>3. ls = None \/ ls \in ListOf(STRING)
  <2>1. CASE i.locations = None
    BY <2>1 DEF Orders
  <2>2. CASE i.locations # None
    <3>1. i.locations \subseteq STRING /\ IsFiniteSet(i.locations)
      BY <2>2 DEF ItemOK
    <3>2. ls \in ListOf(i.locations)
      BY <2>2, <3>1, AnyOrder DEF Orders
    <3> QED BY <3>1, <3>2 DEF ListOf
  <2> QED BY <2>1, <2>2
<1>4. ps \in EntriesOf(STRING)
  <2>1. t.parameters \in EntriesOf(STRING)
    BY DEF TemplateType
  <2>2. i.parameters # None =>
          /\ DOMAIN i.parameters \subseteq STRING /\ IsFiniteSet(DOMAIN i.parameters)
          /\ \A k \in DOMAIN i.parameters : i.parameters[k] \in STRING
    BY DEF ItemOK
  <2> QED BY <2>1, <2>2, BuiltEntries
<1>5. ts \in EntriesOf(Opt(STRING))
  <2>1. t.tags \in EntriesOf(Opt(STRING)) /\ STRING \subseteq Opt(STRING)
    BY DEF TemplateType, Opt
  <2>2. i.tags # None =>
          /\ DOMAIN i.tags \subseteq STRING /\ IsFiniteSet(DOMAIN i.tags)
          /\ \A k \in DOMAIN i.tags : i.tags[k] \in STRING
    BY DEF ItemOK
  <2> QED BY <2>1, <2>2, BuiltEntries
<1>6. /\ t.enabled \in Opt(BOOLEAN) /\ t.group \in Opt(STRING)
      /\ t.mcr \in Opt(McrType) /\ t.dns \in Opt(DnsType)
      /\ t.acl \in Opt(AclType) /\ t.geo \in Opt(GeoType)
  BY DEF TemplateType
<1>7. /\ First(i.enabled, First(t.enabled, TRUE)) \in BOOLEAN
      /\ First(i.group, t.group) \in Opt(STRING)
  BY <1>6 DEF ItemOK, First, Opt
<1>8. buildCertificateFields(t, i, ds).mcr \in Opt(McrType)
  BY <1>2, <1>6 DEF ItemOK, buildCertificateFields, First, Opt, McrType
<1>9. buildCertificateFields(t, i, ds).cert \in Opt(DOMAIN SANs)
  BY DEF ItemOK, buildCertificateFields
<1>10. buildDNSFields(t, i) \in Opt(DnsType)
  BY <1>6 DEF ItemOK, buildDNSFields, First, Opt, DnsType
<1>11. buildWebAcl(t, i) \in Opt(AclType)
  BY <1>6 DEF ItemOK, buildWebAcl, First, Opt, AclType
<1>12. buildGeoRestrictions(t, i, ls) \in Opt(GeoType)
  <2>1. <<>> \in ListOf(STRING)
    BY DEF ListOf
  <2> QED BY <1>3, <1>6, <2>1 DEF ItemOK, buildGeoRestrictions, First, Opt, GeoType
<1>13. \A cert \in Opt(DOMAIN SANs) :
         /\ buildCustomizationFields(t, i, ls, cert) \in Opt(CustType)
         /\ buildCustomizationFields(t, i, ls, cert) # NoCust
  BY <1>11, <1>12, NoCustTyped, NilAssumption DEF buildCustomizationFields, CustType, Opt
<1>14. /\ s.domains \in ListOf(Domain) /\ s.domains # <<>> /\ s.enabled \in BOOLEAN
       /\ s.group \in Opt(STRING) /\ s.mcr \in Opt(McrType) /\ s.dns \in Opt(DnsType)
       /\ s.cust \in Opt(CustType) /\ s.cust # NoCust
       /\ s.parameters \in EntriesOf(STRING) /\ s.tags \in EntriesOf(Opt(STRING))
  BY <1>1, <1>2, <1>4, <1>5, <1>7, <1>8, <1>9, <1>10, <1>13 DEF SpecWith
<1> QED BY <1>1, <1>14 DEF SpecType, SpecWith

-----------------------------------------------------------------------------
(* What the two controllers write.                                         *)

(* A spec the API server has stored.                                       *)
StoredOK(s) ==
  /\ s \in SpecType /\ Admissible(s)
  /\ s.domains # <<>> /\ s.cust # NoCust
  /\ s.dns # None => s.dns.ttl # None

(* A tenant as CloudFront answers it.                                      *)
AnswerOK(a) ==
  /\ a \in AnswerType /\ a.cust # NoCust
  /\ \A p \in ToSet(a.parameters) : p.value # ""

(* The default TTL makes an admissible spec one that is stored.            *)
LEMMA DefaultsStored ==
  ASSUME NEW s \in SpecType, Admissible(s), s.domains # <<>>, s.cust # NoCust
  PROVE  StoredOK(WithDefaults(s))
<1>1. CASE s.dns = None
  BY <1>1 DEF StoredOK, WithDefaults
<1>2. CASE s.dns # None
  <2> DEFINE d == [s.dns EXCEPT !.ttl = First(@, DefaultTTL)]
             w == [s EXCEPT !.dns = d]
  <2>1. WithDefaults(s) = w
    BY <1>2 DEF WithDefaults
  <2>2. s.dns \in DnsType
    BY <1>2 DEF SpecType, Opt
  <2>3. /\ d \in DnsType /\ d.ttl # None
        /\ d.provider = s.dns.provider /\ d.zone = s.dns.zone
    BY <2>2, FieldSyncAssumption, NilAssumption DEF DnsType, First, Opt
  <2> HIDE DEF d
  <2>4. w \in SpecType
    BY <2>3 DEF SpecType, Opt
  <2>5. /\ w.domains = s.domains /\ w.cust = s.cust /\ w.parameters = s.parameters
        /\ w.dns = d
    BY DEF SpecType
  <2> HIDE DEF w
  <2>6. Admissible(w)
    BY <1>2, <2>3, <2>5 DEF Admissible
  <2> QED BY <2>1, <2>3, <2>4, <2>5, <2>6 DEF StoredOK
<1> QED BY <1>1, <1>2

(* The certificate kept by applyManagedFields, or attached by the tenant   *)
(* controller, gives customizations that hold something.                   *)
LEMMA WithCertificate ==
  ASSUME NEW cust \in Opt(CustType), NEW cert \in DOMAIN SANs
  PROVE  LET new == [First(cust, NoCust) EXCEPT !.cert = cert]
         IN  /\ new \in CustType /\ new # NoCust /\ new.cert = cert
             /\ new.acl = Part(cust, "acl") /\ new.geo = Part(cust, "geo")
<1>1. First(cust, NoCust) \in CustType
  BY DEF First, NoCust, CustType, Opt
<1>2. /\ First(cust, NoCust).acl = Part(cust, "acl")
      /\ First(cust, NoCust).geo = Part(cust, "geo")
  BY DEF First, NoCust, Part
<1>3. cert # None
  BY NilAssumption
<1> QED BY <1>1, <1>2, <1>3 DEF CustType, NoCust, Opt

(* applyManagedFields writes the desired spec, with at most a certificate  *)
(* added to it.                                                            *)
LEMMA ManagedFields ==
  ASSUME NEW dst \in SpecType, NEW src \in SpecType, src.cust # NoCust
  PROVE  /\ applyManagedFields(dst, src) \in SpecType
         /\ applyManagedFields(dst, src).cust # NoCust
         /\ \A f \in {"domains", "enabled", "group", "mcr", "dns", "parameters", "tags"} :
              applyManagedFields(dst, src)[f] = src[f]
         /\ Part(applyManagedFields(dst, src).cust, "acl") = Part(src.cust, "acl")
         /\ Part(applyManagedFields(dst, src).cust, "geo") = Part(src.cust, "geo")
         /\ \/ src.mcr # None /\ Part(src.cust, "cert") = None
            \/ Part(applyManagedFields(dst, src).cust, "cert") = Part(src.cust, "cert")
<1> DEFINE kept == src.mcr # None /\ Part(src.cust, "cert") = None
                                  /\ Part(dst.cust, "cert") # None
<1>1. CASE ~kept
  BY <1>1 DEF applyManagedFields
<1>2. CASE kept
  <2> DEFINE new == [First(src.cust, NoCust) EXCEPT !.cert = dst.cust.cert]
             w   == [src EXCEPT !.cust = new]
  <2>1. applyManagedFields(dst, src) = w
    BY <1>2 DEF applyManagedFields
  <2>2. dst.cust.cert \in DOMAIN SANs
    BY <1>2 DEF SpecType, CustType, Part, Opt
  <2>3. src.cust \in Opt(CustType)
    BY DEF SpecType
  <2>4. /\ new \in CustType /\ new # NoCust
        /\ new.acl = Part(src.cust, "acl") /\ new.geo = Part(src.cust, "geo")
    BY <2>2, <2>3, WithCertificate
  <2> HIDE DEF new
  <2>5. w \in SpecType /\ w.cust = new
        /\ \A f \in {"domains", "enabled", "group", "mcr", "dns", "parameters", "tags"} :
              w[f] = src[f]
    BY <2>4 DEF SpecType, Opt
  <2>6. new # None
    BY <2>4, NilAssumption
  <2> HIDE DEF w
  <2> QED BY <1>2, <2>1, <2>4, <2>5, <2>6 DEF Part
<1> QED BY <1>1, <1>2

(* CloudFront's answer to a creation or an update has all that was sent.   *)
LEMMA Answered ==
  ASSUME NEW s \in SpecType, Admissible(s), s.cust # NoCust, NEW a \in Answers(s)
  PROVE  AnswerOK(a) /\ Serves(a, s)
<1> DEFINE in == buildInput(s)
<1>1. /\ in.domains = s.domains /\ in.enabled = s.enabled /\ in.group = s.group
      /\ in.cust = s.cust /\ in.parameters = s.parameters
      /\ in = [domains |-> s.domains, enabled |-> s.enabled, group |-> s.group,
               cust |-> s.cust, parameters |-> s.parameters]
  <2>1. toAWSCustomizations(specToAWSCustomizations(s.cust)) = s.cust
    BY DEF SpecType, Opt, CustType, toAWSCustomizations, specToAWSCustomizations
  <2> QED BY <2>1 DEF buildInput
<1> HIDE DEF in
<1>2. PICK dt \in CloudFront(in) : a = toDistributionTenantOutput(dt)
  BY DEF Answers, in
<1>3. PICK ds \in SetToSeqs(ToSet(in.domains)), ps \in SetToSeqs(ToSet(in.parameters)) :
        dt = [domains |-> ds, enabled |-> in.enabled, group |-> First(in.group, DefaultGroup),
              cust |-> in.cust, parameters |-> ps]
  BY DEF CloudFront
<1>4. /\ s.domains \in ListOf(Domain) /\ s.parameters \in EntriesOf(STRING)
      /\ s.enabled \in BOOLEAN /\ s.group \in Opt(STRING) /\ s.cust \in Opt(CustType)
  BY DEF SpecType
<1>5. ds \in ListOf(Domain) /\ ToSet(ds) = ToSet(s.domains)
  <2>1. IsFiniteSet(ToSet(s.domains)) /\ ToSet(s.domains) \subseteq Domain
    BY <1>4, ListCardinality
  <2>2. ds \in ListOf(ToSet(s.domains)) /\ ToSet(ds) = ToSet(s.domains)
    BY <1>1, <2>1, AnyOrder
  <2> QED BY <2>1, <2>2 DEF ListOf
<1>6. ps \in EntriesOf(STRING) /\ ToSet(ps) = ToSet(s.parameters)
  <2> DEFINE R == [name : STRING, value : STRING]
  <2>1. s.parameters \in ListOf(R)
    BY <1>4, EntriesAreLists
  <2>2. IsFiniteSet(ToSet(s.parameters)) /\ ToSet(s.parameters) \subseteq R
    BY <2>1, ListCardinality
  <2>3. ps \in ListOf(ToSet(s.parameters)) /\ ToSet(ps) = ToSet(s.parameters)
    BY <1>1, <2>2, AnyOrder
  <2>4. \A e, g \in ToSet(s.parameters) : e.name = g.name => e = g
    BY <1>4 DEF EntriesOf, ToSet
  <2> HIDE DEF R
  <2>5. /\ ps \in Seq(R) /\ \A i \in DOMAIN ps : ps[i] \in ToSet(s.parameters)
        /\ \A i, j \in DOMAIN ps : ps[i] = ps[j] => i = j
    BY <2>2, <2>3 DEF ListOf
  <2>6. \A i, j \in DOMAIN ps : ps[i].name = ps[j].name => i = j
    BY <2>4, <2>5
  <2> QED BY <2>3, <2>5, <2>6 DEF EntriesOf, R
<1>7. dt = [domains |-> ds, enabled |-> s.enabled, group |-> First(s.group, DefaultGroup),
            cust |-> s.cust, parameters |-> ps]
  BY <1>1, <1>3
<1>8. fromAWSCustomizations(s.cust) = s.cust
  BY <1>4 DEF Opt, CustType, fromAWSCustomizations
<1>9. a = [domains |-> ds, enabled |-> s.enabled, group |-> First(s.group, DefaultGroup),
           cust |-> s.cust, parameters |-> ps]
  BY <1>2, <1>7, <1>8 DEF toDistributionTenantOutput
<1>10. First(s.group, DefaultGroup) \in STRING
       /\ s.group \in {None, First(s.group, DefaultGroup)}
  BY <1>4, FieldSyncAssumption DEF First, Opt
<1>11. a \in AnswerType
  BY <1>4, <1>5, <1>6, <1>9, <1>10 DEF AnswerType
<1>12. \A p \in ToSet(a.parameters) : p.value # ""
  BY <1>6, <1>9 DEF Admissible
<1>13. Serves(a, s)
  BY <1>5, <1>6, <1>9, <1>10 DEF Serves, SameAcl
<1> QED BY <1>9, <1>11, <1>12, <1>13 DEF AnswerOK

(* webAclMatch decides whether two web ACLs are the same.                  *)
LEMMA AclDecides ==
  ASSUME NEW g \in Opt(AclType), NEW h \in Opt(AclType)
  PROVE  webAclMatch(g, h) <=> SameAcl(h, g)
<1>1. CASE g = None \/ h = None
  BY <1>1 DEF webAclMatch, SameAcl
<1>2. CASE g # None /\ h # None
  <2>1. g.arn \in Opt(STRING) /\ h.arn \in Opt(STRING)
    BY <1>2 DEF Opt, AclType
  <2>2. ASSUME NEW acl \in {g, h}
        PROVE  ArnOf(acl) = IF First(acl.arn, "") = "" THEN {} ELSE {First(acl.arn, "")}
    BY <1>2, <2>1 DEF ArnOf, Given, First
  <2>3. First(g.arn, "") = First(h.arn, "") <=> ArnOf(g) = ArnOf(h)
    BY <2>2
  <2> QED BY <1>2, <2>3 DEF webAclMatch, SameAcl
<1> QED BY <1>1, <1>2

(* specMatchesAWS decides whether AWS serves the spec.                     *)
LEMMA MatchDecides ==
  ASSUME NEW s, StoredOK(s), NEW a, AnswerOK(a)
  PROVE  specMatchesAWS(s, a) <=> Serves(a, s)
<1>1. /\ s.domains \in ListOf(Domain) /\ a.domains \in ListOf(Domain)
      /\ s.parameters \in EntriesOf(STRING) /\ a.parameters \in EntriesOf(STRING)
      /\ s.cust \in Opt(CustType) /\ s.cust # NoCust
      /\ a.cust \in Opt(CustType) /\ a.cust # NoCust
  BY DEF StoredOK, AnswerOK, SpecType, AnswerType
<1>2. (Len(s.domains) = Len(a.domains) /\ ToSet(a.domains) \subseteq ToSet(s.domains))
        <=> ToSet(s.domains) = ToSet(a.domains)
  BY <1>1, SameMembers
<1>3. (/\ Len(s.parameters) = Len(a.parameters)
       /\ \A i \in DOMAIN a.parameters :
            ValueOf(s.parameters, a.parameters[i].name, "") = a.parameters[i].value)
        <=> ToSet(s.parameters) = ToSet(a.parameters)
  <2>1. NoEntryIs(a.parameters, "")
    BY DEF AnswerOK, NoEntryIs
  <2>2. SameByName(s.parameters, a.parameters, "")
          <=> ToSet(s.parameters) = ToSet(a.parameters)
    BY <1>1, <2>1, SameEntries
  <2> QED BY <2>2 DEF SameByName
<1>4. ASSUME NEW g \in GeoType, NEW h \in GeoType
      PROVE  (Len(g.locations) = Len(h.locations)
                /\ ToSet(h.locations) \subseteq ToSet(g.locations))
               <=> ToSet(h.locations) = ToSet(g.locations)
  <2>1. g.locations \in ListOf(STRING) /\ h.locations \in ListOf(STRING)
    BY DEF GeoType
  <2> QED BY <2>1, SameMembers
<1> DEFINE SameGeo(g, h) == IF g = None \/ h = None THEN g = h
                            ELSE g.type = h.type /\ ToSet(g.locations) = ToSet(h.locations)
           SameCust(c, d) == /\ SameAcl(Part(c, "acl"), Part(d, "acl"))
                             /\ Part(c, "cert") = Part(d, "cert")
                             /\ SameGeo(Part(c, "geo"), Part(d, "geo"))
<1>5. ASSUME NEW g \in Opt(GeoType), NEW h \in Opt(GeoType)
      PROVE  geoRestrictionsMatch(g, h) <=> SameGeo(h, g)
  BY <1>4 DEF geoRestrictionsMatch, Opt
<1>6. customizationsMatch(s.cust, a.cust) <=> SameCust(a.cust, s.cust)
  <2>1. CASE s.cust # None /\ a.cust # None
    <3>1. /\ s.cust.geo \in Opt(GeoType) /\ a.cust.geo \in Opt(GeoType)
          /\ s.cust.acl \in Opt(AclType) /\ a.cust.acl \in Opt(AclType)
      BY <1>1, <2>1 DEF Opt, CustType
    <3>2. geoRestrictionsMatch(s.cust.geo, a.cust.geo) <=> SameGeo(a.cust.geo, s.cust.geo)
      BY <1>5, <3>1
    <3>3. webAclMatch(s.cust.acl, a.cust.acl) <=> SameAcl(a.cust.acl, s.cust.acl)
      BY <3>1, AclDecides
    <3> HIDE DEF SameGeo
    <3> QED BY <2>1, <3>2, <3>3 DEF customizationsMatch, Part
  <2>2. ASSUME NEW c \in Opt(CustType), c # None, c # NoCust
        PROVE  Part(c, "acl") # None \/ Part(c, "cert") # None \/ Part(c, "geo") # None
    BY <2>2 DEF Opt, CustType, NoCust, Part
  <2>3. CASE s.cust = None /\ a.cust # None
    BY <1>1, <2>2, <2>3 DEF customizationsMatch, Part, SameAcl
  <2>4. CASE s.cust # None /\ a.cust = None
    BY <1>1, <2>2, <2>4 DEF customizationsMatch, Part, SameAcl
  <2>5. CASE s.cust = None /\ a.cust = None
    BY <2>5 DEF customizationsMatch, Part, SameAcl
  <2> QED BY <2>1, <2>3, <2>4, <2>5
<1>7. Serves(a, s) <=>
        /\ a.enabled = s.enabled
        /\ s.group \in {None, a.group}
        /\ ToSet(a.domains) = ToSet(s.domains)
        /\ ToSet(a.parameters) = ToSet(s.parameters)
        /\ SameCust(a.cust, s.cust)
  BY DEF Serves
<1> HIDE DEF SameCust
<1> QED BY <1>2, <1>3, <1>6, <1>7 DEF specMatchesAWS

(* What tenantSpecEqual says of two specs, field by field.                 *)
LEMMA EqualDecides ==
  ASSUME NEW a, StoredOK(a), NEW b \in SpecType, tenantSpecEqual(a, b),
         NoEntryIs(b.parameters, "")
  PROVE  SameSpec(a, b)
<1> DEFINE cut == b.mcr # None /\ Part(b.cust, "cert") = None /\ a.cust # None
           cc  == IF cut THEN [a.cust EXCEPT !.cert = None] ELSE a.cust
           c   == [a EXCEPT !.cust = cc]
<1>1. /\ a \in SpecType
      /\ a.domains \in ListOf(Domain) /\ b.domains \in ListOf(Domain)
      /\ a.parameters \in EntriesOf(STRING) /\ b.parameters \in EntriesOf(STRING)
      /\ a.tags \in EntriesOf(Opt(STRING)) /\ b.tags \in EntriesOf(Opt(STRING))
      /\ a.cust \in Opt(CustType) /\ b.cust \in Opt(CustType)
  BY DEF StoredOK, SpecType
<1>2. /\ Part(cc, "acl") = Part(a.cust, "acl") /\ Part(cc, "geo") = Part(a.cust, "geo")
      /\ Part(cc, "cert") = IF cut THEN None ELSE Part(a.cust, "cert")
  <2>1. CASE ~cut
    BY <2>1
  <2>2. CASE cut
    <3>1. a.cust \in CustType
      BY <1>1, <2>2 DEF Opt
    <3>2. /\ cc \in CustType /\ cc.acl = a.cust.acl /\ cc.geo = a.cust.geo
          /\ cc.cert = None
      BY <2>2, <3>1 DEF CustType, Opt
    <3> HIDE DEF cc
    <3> QED BY <2>2, <3>2, NilAssumption DEF Part
  <2> QED BY <2>1, <2>2
<1>3. /\ c.enabled = a.enabled /\ c.group = a.group /\ c.domains = a.domains
      /\ c.parameters = a.parameters /\ c.cust = cc
  BY <1>1 DEF SpecType
<1>4. /\ c.enabled = b.enabled /\ b.group \in {None, c.group}
      /\ Part(cc, "acl") = Part(b.cust, "acl")
  BY <1>2, <1>3 DEF tenantSpecEqual
<1>5. ToSet(c.domains) = ToSet(b.domains)
  <2>1. Len(a.domains) = Len(b.domains) /\ ToSet(b.domains) \subseteq ToSet(a.domains)
    BY DEF tenantSpecEqual, stringSliceEqual
  <2>2. ToSet(a.domains) = ToSet(b.domains)
    BY <1>1, <2>1, SameMembers
  <2> QED BY <1>3, <2>2
<1>6. ToSet(c.parameters) = ToSet(b.parameters)
  <2>1. SameByName(a.parameters, b.parameters, "")
    BY DEF tenantSpecEqual, parametersEqual, SameByName
  <2>2. ToSet(a.parameters) = ToSet(b.parameters)
    BY <1>1, <2>1, SameEntries
  <2> QED BY <1>3, <2>2
<1>7. Part(cc, "cert") = Part(b.cust, "cert")
  <2>1. certificateFieldsEqual(a, b)
    BY DEF tenantSpecEqual
  <2> QED BY <1>2, <2>1 DEF certificateFieldsEqual, Part
<1>8. LET g == Part(cc, "geo")
          h == Part(b.cust, "geo")
      IN  IF g = None \/ h = None THEN g = h
          ELSE g.type = h.type /\ ToSet(g.locations) = ToSet(h.locations)
  <2> DEFINE g == Part(a.cust, "geo")
             h == Part(b.cust, "geo")
  <2>1. g \in Opt(GeoType) /\ h \in Opt(GeoType)
    BY <1>1 DEF Opt, CustType, Part
  <2>2. \/ g = None /\ h = None
        \/ /\ g # None /\ h # None /\ g.type = h.type
           /\ Len(g.locations) = Len(h.locations)
           /\ ToSet(h.locations) \subseteq ToSet(g.locations)
    BY DEF tenantSpecEqual, geoRestrictionsEqual, stringSliceEqual
  <2> HIDE DEF g, h
  <2>3. ASSUME g # None, h # None
        PROVE  g.locations \in ListOf(STRING) /\ h.locations \in ListOf(STRING)
    BY <2>1, <2>3 DEF Opt, GeoType
  <2>4. IF g = None \/ h = None THEN g = h
        ELSE g.type = h.type /\ ToSet(g.locations) = ToSet(h.locations)
    BY <2>2, <2>3, SameMembers
  <2> QED BY <1>2, <2>4 DEF g, h
<1> HIDE DEF cc
<1>9. Serves(c, b)
  <2> HIDE DEF c
  <2>1. SameAcl(Part(cc, "acl"), Part(b.cust, "acl"))
    BY <1>4 DEF SameAcl
  <2> QED BY <1>3, <1>4, <1>5, <1>6, <1>7, <1>8, <2>1 DEF Serves
<1>10. ToSet(a.tags) = ToSet(b.tags) \/ \E t \in ToSet(b.tags) : t.value = None
  <2>1. SameByName(a.tags, b.tags, None)
    BY DEF tenantSpecEqual, tagsEqual, SameByName
  <2>2. ASSUME NoEntryIs(b.tags, None) PROVE ToSet(a.tags) = ToSet(b.tags)
    BY <1>1, <2>1, <2>2, SameEntries
  <2> QED BY <2>2 DEF NoEntryIs
<1>11. a.mcr = b.mcr /\ a.dns = b.dns
  BY DEF tenantSpecEqual
<1> QED BY <1>2, <1>4, <1>9, <1>10, <1>11 DEF SameSpec, cc

(* What an update writes is what the row asked for, to the comparison.     *)
LEMMA UpdateIsEqual ==
  ASSUME NEW dst, StoredOK(dst), NEW src \in SpecType, src.cust # NoCust,
         src.dns # None => src.dns.ttl # None
  PROVE  tenantSpecEqual(WithDefaults(applyManagedFields(dst, src)), src)
<1> DEFINE w == applyManagedFields(dst, src)
<1>1. /\ w \in SpecType
      /\ \A f \in {"domains", "enabled", "group", "mcr", "dns", "parameters", "tags"} :
           w[f] = src[f]
      /\ Part(w.cust, "acl") = Part(src.cust, "acl")
      /\ Part(w.cust, "geo") = Part(src.cust, "geo")
      /\ \/ src.mcr # None /\ Part(src.cust, "cert") = None
         \/ Part(w.cust, "cert") = Part(src.cust, "cert")
  BY ManagedFields DEF StoredOK
<1> HIDE DEF w
<1>2. /\ w.domains = src.domains /\ w.enabled = src.enabled /\ w.group = src.group
      /\ w.mcr = src.mcr /\ w.dns = src.dns /\ w.parameters = src.parameters
      /\ w.tags = src.tags
  BY <1>1
<1>3. WithDefaults(w) = w
  <2>1. CASE w.dns = None
    BY <2>1 DEF WithDefaults
  <2>2. CASE w.dns # None
    <3>1. w.dns \in DnsType /\ w.dns.ttl # None
      BY <1>1, <1>2, <2>2 DEF SpecType, Opt
    <3>2. [w.dns EXCEPT !.ttl = First(@, DefaultTTL)] = w.dns
      BY <3>1 DEF DnsType, First
    <3>3. WithDefaults(w) = [w EXCEPT !.dns = w.dns]
      BY <2>2, <3>2 DEF WithDefaults
    <3> QED BY <1>1, <3>3 DEF SpecType
  <2> QED BY <2>1, <2>2
<1>4. stringSliceEqual(w.domains, src.domains)
  BY <1>2 DEF stringSliceEqual
<1>5. certificateFieldsEqual(w, src)
  BY <1>1, <1>2 DEF certificateFieldsEqual
<1>6. geoRestrictionsEqual(w.cust, src.cust)
  BY <1>1 DEF geoRestrictionsEqual, stringSliceEqual
<1>7. src.parameters \in EntriesOf(STRING) /\ src.tags \in EntriesOf(Opt(STRING))
  BY DEF SpecType
<1>8. parametersEqual(w.parameters, src.parameters)
  BY <1>2, <1>7, ValueOfEntry DEF parametersEqual
<1>9. tagsEqual(w.tags, src.tags)
  BY <1>2, <1>7, ValueOfEntry DEF tagsEqual
<1>10. tenantSpecEqual(w, src)
  BY <1>1, <1>2, <1>4, <1>5, <1>6, <1>8, <1>9 DEF tenantSpecEqual
<1> QED BY <1>3, <1>10 DEF w

-----------------------------------------------------------------------------
(* The inductive invariant: a stored spec and an answer are always of the  *)
(* kind the lemmas above are about.                                        *)
FieldInv ==
  /\ row \in Rows /\ tmpl \in Templates
  /\ stored # None => StoredOK(stored)
  /\ aws # None => AnswerOK(aws)

(* The templates are what TableAssumption says.                            *)
LEMMA TemplatesTyped == \A t \in Templates : t \in TemplateType
BY TableAssumption

(* The specs a poll asks for.                                              *)
LEMMA DesiredSpecs ==
  ASSUME row \in Rows, tmpl \in Templates, NEW spec \in Desired
  PROVE  spec \in SpecType /\ spec.domains # <<>> /\ spec.cust # NoCust
<1>1. item # None /\ spec \in buildTenantSpec(tmpl, item)
  BY DEF Desired
<1>2. ItemOK(item)
  BY <1>1, MappedItem DEF item
<1>3. tmpl \in TemplateType
  BY TemplatesTyped
<1> QED BY <1>1, <1>2, <1>3, BuiltSpec

(* What another writer may give the tenant.                                *)
LEMMA ConfigurationsOK ==
  ASSUME NEW a \in Configurations
  PROVE  AnswerOK(a)
<1> DEFINE mapped == {mapDynamoItem(x) : x \in Rows} \ {None}
           specs  == UNION {buildTenantSpec(t, i) : t \in Templates, i \in mapped}
<1>1. PICK s \in specs : Admissible(s) /\ a \in Answers(s)
  BY DEF Configurations
<1>2. PICK t \in Templates, i \in mapped : s \in buildTenantSpec(t, i)
  OBVIOUS
<1>3. ItemOK(i)
  BY MappedItem
<1>4. t \in TemplateType
  BY TemplatesTyped
<1>5. s \in SpecType /\ s.cust # NoCust
  BY <1>2, <1>3, <1>4, BuiltSpec
<1> QED BY <1>1, <1>5, Answered

(* Every step keeps the invariant.                                         *)
LEMMA FieldInvStep == FieldInv /\ [Next]_vars => FieldInv'
<1> SUFFICES ASSUME FieldInv, [Next]_vars PROVE FieldInv'
  OBVIOUS
<1>1. CASE Prune
  BY <1>1 DEF FieldInv, Prune
<1>2. CASE syncNewTenant
  <2>1. PICK spec \in Desired : Admissible(spec) /\ stored' = WithDefaults(spec)
    BY <1>2 DEF syncNewTenant
  <2>2. spec \in SpecType /\ spec.domains # <<>> /\ spec.cust # NoCust
    BY DesiredSpecs DEF FieldInv
  <2>3. StoredOK(stored')
    BY <2>1, <2>2, DefaultsStored
  <2> QED BY <1>2, <2>3 DEF FieldInv, syncNewTenant
<1>3. ASSUME NEW spec \in Desired, syncExistingTenant(spec) PROVE FieldInv'
  <2> DEFINE w == applyManagedFields(stored, spec)
  <2>1. spec \in SpecType /\ spec.domains # <<>> /\ spec.cust # NoCust
    BY DesiredSpecs DEF FieldInv
  <2>2. stored # None /\ stored \in SpecType /\ Admissible(w) /\ stored' = WithDefaults(w)
    BY <1>3 DEF syncExistingTenant, FieldInv, StoredOK
  <2>3. w \in SpecType /\ w.cust # NoCust /\ w.domains = spec.domains
    BY <2>1, <2>2, ManagedFields
  <2> HIDE DEF w
  <2>4. StoredOK(stored')
    BY <2>1, <2>2, <2>3, DefaultsStored
  <2> QED BY <1>3, <2>4 DEF FieldInv, syncExistingTenant
<1>4. CASE NothingWritten
  BY <1>4 DEF NothingWritten, vars, FieldInv
<1>5. ASSUME stored # None, aws' \in Answers(stored), UNCHANGED <<row, tmpl, stored>>
      PROVE  FieldInv'
  <2>1. AnswerOK(aws')
    BY <1>5, Answered DEF FieldInv, StoredOK
  <2> QED BY <1>5, <2>1 DEF FieldInv
<1>6. CASE reconcileCreate
  BY <1>5, <1>6 DEF reconcileCreate
<1>7. CASE reconcileUpdate
  BY <1>5, <1>7 DEF reconcileUpdate
<1>8. CASE ValidationFails
  BY <1>8 DEF ValidationFails, vars, FieldInv
<1>9. CASE InSync
  BY <1>9 DEF InSync, FieldInv
<1>10. CASE AttachCertificate
  <2> DEFINE new == [First(stored.cust, NoCust) EXCEPT !.cert = ManagedArn]
  <2>1. stored' = [stored EXCEPT !.cust = new] /\ StoredOK(stored) /\ stored \in SpecType
    BY <1>10 DEF AttachCertificate, FieldInv, StoredOK
  <2>2. stored.cust \in Opt(CustType)
    BY <2>1 DEF SpecType
  <2>3. /\ new \in CustType /\ new # NoCust
        /\ new.acl = Part(stored.cust, "acl") /\ new.geo = Part(stored.cust, "geo")
    BY <2>2, FieldSyncAssumption, WithCertificate
  <2> HIDE DEF new
  <2>4. /\ stored' \in SpecType /\ stored'.cust = new /\ stored'.dns = stored.dns
        /\ stored'.domains = stored.domains /\ stored'.parameters = stored.parameters
    BY <2>1, <2>3 DEF SpecType, Opt
  <2>5. Admissible(stored')
    BY <2>1, <2>3, <2>4 DEF StoredOK, Admissible, Part
  <2>6. StoredOK(stored')
    BY <2>1, <2>3, <2>4, <2>5 DEF StoredOK
  <2> QED BY <1>10, <2>6 DEF FieldInv, AttachCertificate
<1>11. CASE EditRow
  BY <1>11 DEF EditRow, FieldInv
<1>12. CASE EditTemplate
  BY <1>12 DEF EditTemplate, FieldInv
<1>13. CASE ExternalUpdate
  BY <1>13, ConfigurationsOK DEF ExternalUpdate, FieldInv
<1>14. CASE UNCHANGED vars
  BY <1>14 DEF vars, FieldInv
<1> QED BY <1>1, <1>2, <1>3, <1>4, <1>6, <1>7, <1>8, <1>9, <1>10, <1>11, <1>12, <1>13,
           <1>14 DEF Next, Sync, Push

(* The invariant holds always.                                             *)
LEMMA FieldInvHolds == Spec => []FieldInv
<1>1. Init => FieldInv
  BY DEF Init, FieldInv
<1> QED BY <1>1, FieldInvStep, PTL DEF Spec

-----------------------------------------------------------------------------
(* Type correctness: a stored spec is one the API server accepts, with its *)
(* TTL and without empty customizations, and an answer's domains hold no   *)
(* duplicate.                                                              *)
THEOREM FieldTypeCorrect == Spec => []TypeOK
<1>1. FieldInv => TypeOK
  <2> SUFFICES ASSUME FieldInv PROVE TypeOK
    OBVIOUS
  <2>1. ASSUME aws # None
        PROVE  Len(aws.domains) = Cardinality(ToSet(aws.domains)) /\ aws.group # None
    <3>1. aws.domains \in ListOf(Domain) /\ aws.group \in STRING
      BY <2>1 DEF FieldInv, AnswerOK, AnswerType
    <3> QED BY <3>1, ListCardinality, NilAssumption
  <2> QED BY <2>1 DEF FieldInv, StoredOK, TypeOK
<1> QED BY <1>1, FieldInvHolds, PTL

(* The tenant controller's comparison is exact: specMatchesAWS answers yes *)
(* if and only if AWS serves the stored spec, in whatever order the lists  *)
(* come.                                                                   *)
THEOREM ComparisonExact == Spec => []MatchIsExact
<1>1. FieldInv => MatchIsExact
  BY MatchDecides DEF FieldInv, MatchIsExact
<1> QED BY <1>1, FieldInvHolds, PTL

(* The source's comparison overlooks nothing: a stored spec that           *)
(* tenantSpecEqual takes for the desired one is the desired one, apart     *)
(* from an attached certificate and from entries without a value.          *)
THEOREM NoEditOverlooked == Spec => []EqualMeansSame
<1>1. FieldInv => EqualMeansSame
  <2> SUFFICES ASSUME FieldInv, stored # None, NEW spec \in Desired,
                      tenantSpecEqual(stored, spec)
               PROVE  SameSpec(stored, spec) \/ \E p \in ToSet(spec.parameters) : p.value = ""
    BY DEF EqualMeansSame
  <2>1. spec \in SpecType
    BY DesiredSpecs DEF FieldInv
  <2>2. StoredOK(stored)
    BY DEF FieldInv
  <2>3. ASSUME NoEntryIs(spec.parameters, "") PROVE SameSpec(stored, spec)
    BY <2>1, <2>2, <2>3, EqualDecides
  <2> QED BY <2>3 DEF NoEntryIs
<1> QED BY <1>1, FieldInvHolds, PTL

(* An update of the stored spec settles: compared once more with the row   *)
(* that caused it, it is equal, unless the API server added a TTL.         *)
THEOREM UpdatesSettle == Spec => UpdateSettles
<1>1. FieldInv /\ [Next]_vars =>
        [\A spec \in Desired :
           syncExistingTenant(spec) =>
             \/ tenantSpecEqual(stored', spec)
             \/ spec.dns # None /\ spec.dns.ttl = None]_vars
  <2> SUFFICES ASSUME FieldInv, NEW spec \in Desired, syncExistingTenant(spec),
                      ~(spec.dns # None /\ spec.dns.ttl = None)
               PROVE  tenantSpecEqual(stored', spec)
    OBVIOUS
  <2>1. spec \in SpecType /\ spec.cust # NoCust
    BY DesiredSpecs DEF FieldInv
  <2>2. StoredOK(stored) /\ stored' = WithDefaults(applyManagedFields(stored, spec))
    BY DEF FieldInv, syncExistingTenant
  <2> QED BY <2>1, <2>2, UpdateIsEqual
<1> QED BY <1>1, FieldInvHolds, PTL DEF Spec, UpdateSettles

(* What is sent is what is compared: after a creation or an update the     *)
(* controller sees no drift in CloudFront's answer.                        *)
THEOREM PushesSettle == Spec => PushSettles
<1>1. FieldInv /\ [Next]_vars => [Push => specMatchesAWS(stored, aws')]_vars
  <2> SUFFICES ASSUME FieldInv, Push PROVE specMatchesAWS(stored, aws')
    OBVIOUS
  <2>1. StoredOK(stored) /\ aws' \in Answers(stored)
    BY DEF Push, reconcileCreate, reconcileUpdate, FieldInv
  <2>2. AnswerOK(aws') /\ Serves(aws', stored)
    BY <2>1, Answered DEF StoredOK
  <2> QED BY <2>1, <2>2, MatchDecides
<1> QED BY <1>1, FieldInvHolds, PTL DEF Spec, PushSettles

(* The pre-flight check of a creation passes exactly the specs whose       *)
(* effective certificate covers every domain, label by label.              *)
THEOREM PreflightExact == Spec => []CoverageIsExact
<1>1. FieldInv => CoverageIsExact
  <2> SUFFICES ASSUME FieldInv, stored # None PROVE CoverageIsExact
    BY DEF CoverageIsExact
  <2> DEFINE cert == First(Part(stored.cust, "cert"), Dist.cert)
  <2>1. cert \in Opt(DOMAIN SANs)
    <3>1. stored.cust \in Opt(CustType)
      BY DEF FieldInv, StoredOK, SpecType
    <3>2. Part(stored.cust, "cert") \in Opt(DOMAIN SANs)
      BY <3>1 DEF Part, Opt, CustType
    <3> QED BY <3>2, FieldSyncAssumption DEF First, Opt
  <2>2. \A d \in ToSet(stored.domains) : d \in Domain /\ d # <<>>
    <3>1. stored.domains \in ListOf(Domain) /\ Admissible(stored)
      BY DEF FieldInv, StoredOK, SpecType
    <3>2. ToSet(stored.domains) \subseteq Domain
      BY <3>1, ListCardinality
    <3> QED BY <3>1, <3>2 DEF Admissible
  <2> HIDE DEF cert
  <2>3. ASSUME cert # None, NEW d \in ToSet(stored.domains)
        PROVE  domainCoveredBySANs(d, SANs[cert]) <=> \E san \in SANs[cert] : Covers(san, d)
    <3>1. \A san \in SANs[cert] : san \in Domain /\ san # <<>>
      BY <2>1, <2>3, FieldSyncAssumption DEF Opt
    <3>2. ASSUME NEW san \in SANs[cert]
          PROVE  (san = d \/ (san[1] = "*" /\ Len(d) > 1 /\ Tail(d) = Tail(san)))
                   <=> Covers(san, d)
      <4> DEFINE L == STRING \ {""}
      <4>1. san \in Seq(L) /\ d \in Seq(L) /\ san # <<>> /\ d # <<>>
        BY <2>2, <3>1 DEF Domain
      <4> HIDE DEF L
      <4> QED BY <4>1, NameCovers
    <3> QED BY <3>2 DEF domainCoveredBySANs
  <2> QED BY <2>3 DEF CoverageIsExact, validateCertificateSANs, cert
<1> QED BY <1>1, FieldInvHolds, PTL
=============================================================================
