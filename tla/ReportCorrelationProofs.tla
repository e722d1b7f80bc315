----------------------- MODULE ReportCorrelationProofs -----------------------
(* Correlating findings, for any bundle, any files of rules and whatever the
   report rules find: the metadata of a collection agree, groups hold what was
   found, and correlations are reported for what the findings prove.        *)
EXTENDS ReportCorrelation, FiniteSetTheorems, WellFoundedInduction, NaturalsInduction, TLAPS

---------------------------------------------------------------------------
(* Sequences without repetition                                              *)

\* The elements of such a sequence are as many as it is long.
LEMMA CountedOnce ==
  ASSUME NEW S, NEW s \in Seq(S), Distinct(s)
  PROVE  IsFiniteSet(Elements(s)) /\ Cardinality(Elements(s)) = Len(s)
  <1> DEFINE n == Len(s)
             f == [i \in 1..n |-> s[i]]
  <1>1. n \in Nat /\ DOMAIN s = 1..n
    OBVIOUS
  <1>2. Elements(s) = {s[i] : i \in 1..n}
    BY <1>1 DEF Elements
  <1>3. \A i, j \in 1..n : s[i] = s[j] => i = j
    BY <1>1 DEF Distinct
  <1> HIDE DEF n
  <1>4. f \in Bijection(1..n, Elements(s))
    BY <1>2, <1>3 DEF Bijection, Injection, Surjection, IsInjective
  <1>5. ExistsBijection(1..n, Elements(s))
    BY <1>4 DEF ExistsBijection
  <1>6. Cardinality(Elements(s)) = n /\ IsFiniteSet(Elements(s))
    BY <1>1, <1>5, FS_CountingElements, FS_NatBijection
  <1> QED BY <1>6 DEF n

\* What ensure_unique_ids counts: entries with as many ids as there are entries
\* have different ids.
LEMMA UniqueIds ==
  ASSUME NEW entries, Len(entries) \in Nat, DOMAIN entries = 1..Len(entries), Unique(entries),
         NEW i \in DOMAIN entries, NEW j \in DOMAIN entries, entries[i].id = entries[j].id
  PROVE  i = j
  <1> DEFINE n == Len(entries)
             f == [k \in 1..n |-> entries[k].id]
             T == Ids(entries)
  <1>1. n \in Nat /\ DOMAIN entries = 1..n /\ T = {entries[k].id : k \in 1..n}
    BY DEF Ids
  <1>2. Cardinality(T) = n
    BY DEF Unique
  <1> HIDE DEF n, T
  <1>3. IsFiniteSet(1..n) /\ Cardinality(1..n) = n
    BY <1>1, FS_Interval
  <1>4. f \in Surjection(1..n, T)
    BY <1>1 DEF Surjection
  <1>5. f \in Injection(1..n, T)
    BY <1>2, <1>3, <1>4, FS_SurjSameCardinalityImpliesInj
  <1>6. f[i] = f[j]
    BY <1>1
  <1> QED BY <1>1, <1>5, <1>6 DEF Injection, IsInjective

---------------------------------------------------------------------------
(* The metadata of a collection                                              *)

IsList(list) == Len(list) \in Nat /\ DOMAIN list = 1..Len(list)

\* What a reference that was validated leads to.
LEMMA FoundOnce ==
  ASSUME NEW ref, NEW entries, IsList(entries), Unique(entries), Refers(ref, entries)
  PROVE  /\ \A x \in Found(entries, ref) : \E k \in DOMAIN entries : x = entries[k] /\ x.id = ref
         /\ ref # NoRef => Found(entries, ref) # {}
         /\ \A x \in Found(entries, ref) : Cardinality({i \in DOMAIN entries : entries[i].id = ref}) = 1
  <1> DEFINE same == {i \in DOMAIN entries : entries[i].id = ref}
  <1>1. \A x \in Found(entries, ref) : \E k \in DOMAIN entries : x = entries[k] /\ x.id = ref
    BY DEF Found
  <1>2. \A i, j \in same : i = j
    BY UniqueIds DEF IsList
  <1>3. ASSUME ref # NoRef PROVE Found(entries, ref) # {}
    <2>1. PICK k \in DOMAIN entries : entries[k].id = ref
      BY <1>3 DEF Refers, Ids
    <2>2. \A j \in 1..(k - 1) : entries[j].id # ref
      <3> SUFFICES ASSUME NEW j \in 1..(k - 1), entries[j].id = ref PROVE FALSE
        OBVIOUS
      <3>1. j \in DOMAIN entries /\ j # k
        BY DEF IsList
      <3> QED BY <1>2, <2>1, <3>1
    <2> QED BY <2>1, <2>2 DEF Found
  <1>4. ASSUME NEW x \in Found(entries, ref) PROVE Cardinality(same) = 1
    <2>1. PICK k \in same : TRUE
      BY <1>1, <1>4
    <2>2. same = {k}
      BY <1>2, <2>1
    <2> HIDE DEF same
    <2> QED BY <2>2, FS_Singleton
  <1> QED BY <1>1, <1>3, <1>4

Led(ref, found, entries) ==
  /\ ref # NoRef => found # {}
  /\ \A x \in found : Cardinality({i \in DOMAIN entries : entries[i].id = ref}) = 1

\* The metadata a collection of document d is given.
Agreeing(d, c, context) ==
  /\ Led(c.system, context.system, d.systems)
  /\ Led(c.network, context.network, d.networks)
  /\ Led(c.site, context.site, d.sites)
  /\ \A s \in context.system :
       /\ context.network = Found(d.networks, s.network)
       /\ context.site = Found(d.sites, s.site)
  /\ \A x \in context.system \cup context.network \cup {c} : Elements(x.orgs) \subseteq Ids(d.organizations)

LEMMA ContextsOfAccepted ==
  ASSUME NEW d, IsBundle(d), Accepted(d), NEW k \in DOMAIN d.collections,
         NEW c, c = d.collections[k], NEW context, context = ContextOf(d, c)
  PROVE  Agreeing(d, c, context)
  <1>1. IsList(d.systems) /\ IsList(d.networks) /\ IsList(d.sites)
    BY DEF IsBundle, IsList
  <1>2. Unique(d.systems) /\ Unique(d.networks) /\ Unique(d.sites)
    BY DEF Accepted
  <1>3. CollectionHolds(d, c)
    BY DEF Accepted
  <1>4. /\ context.system = Found(d.systems, c.system) /\ context.network = Found(d.networks, c.network)
        /\ context.site = Found(d.sites, c.site)
    BY DEF ContextOf
  <1>5. /\ Refers(c.system, d.systems) /\ Refers(c.network, d.networks) /\ Refers(c.site, d.sites)
        /\ Attributed(d, c)
        /\ \A j \in DOMAIN d.systems : d.systems[j].id = c.system =>
             d.systems[j].network = c.network /\ d.systems[j].site = c.site
    BY <1>3 DEF CollectionHolds
  <1>6. Led(c.system, context.system, d.systems)
    BY <1>1, <1>2, <1>4, <1>5, FoundOnce DEF Led
  <1>7. Led(c.network, context.network, d.networks)
    BY <1>1, <1>2, <1>4, <1>5, FoundOnce DEF Led
  <1>8. Led(c.site, context.site, d.sites)
    BY <1>1, <1>2, <1>4, <1>5, FoundOnce DEF Led
  <1>9. \A x \in context.system : \E j \in DOMAIN d.systems : x = d.systems[j] /\ x.id = c.system
    BY <1>1, <1>2, <1>4, <1>5, FoundOnce
  <1>10. \A x \in context.network : \E j \in DOMAIN d.networks : x = d.networks[j]
    BY <1>1, <1>2, <1>4, <1>5, FoundOnce
  <1>11. ASSUME NEW s \in context.system
         PROVE  context.network = Found(d.networks, s.network) /\ context.site = Found(d.sites, s.site)
    BY <1>4, <1>5, <1>9
  <1>12. ASSUME NEW x \in context.system \cup context.network \cup {c} PROVE Attributed(d, x)
    <2>1. CASE x \in context.system
      BY <1>9, <2>1 DEF Accepted, SystemHolds
    <2>2. CASE x \in context.network
      BY <1>10, <2>2 DEF Accepted, NetworkHolds
    <2> QED BY <1>5, <1>12, <2>1, <2>2
  <1>13. \A x \in context.system \cup context.network \cup {c} : Elements(x.orgs) \subseteq Ids(d.organizations)
    BY <1>12 DEF Attributed, Elements
  <1> QED BY <1>6, <1>7, <1>8, <1>11, <1>13 DEF Agreeing

---------------------------------------------------------------------------
(* Sequences that grow                                                       *)

LEMMA AppendedElements ==
  ASSUME NEW S, NEW s \in Seq(S), NEW x \in S
  PROVE  /\ Append(s, x) \in Seq(S) /\ Elements(Append(s, x)) = Elements(s) \cup {x}
         /\ Append(s, x) # <<>> /\ (s # <<>> => Append(s, x)[1] = s[1]) /\ (s = <<>> => Append(s, x)[1] = x)
         /\ Distinct(s) /\ x \notin Elements(s) => Distinct(Append(s, x))
  <1> DEFINE n == Len(s)
             t == Append(s, x)
  <1>1. n \in Nat /\ DOMAIN s = 1..n /\ t \in Seq(S) /\ DOMAIN t = 1..(n + 1) /\ t # <<>>
    OBVIOUS
  <1>2. t[n + 1] = x /\ \A k \in 1..n : t[k] = s[k]
    OBVIOUS
  <1>3. (s = <<>> => n = 0) /\ (s # <<>> => n > 0)
    OBVIOUS
  <1> HIDE DEF n, t
  <1>4. n + 1 \in 1..(n + 1) /\ \A k \in 1..(n + 1) : k \in 1..n \/ k = n + 1
    BY <1>1
  <1>5. \A k \in 1..n : k \in 1..(n + 1) /\ k # n + 1
    BY <1>1
  <1>6. Elements(t) = Elements(s) \cup {x}
    <2>1. ASSUME NEW e \in Elements(t) PROVE e \in Elements(s) \cup {x}
      BY <1>1, <1>2, <1>4, <2>1 DEF Elements
    <2>2. ASSUME NEW e \in Elements(s) \cup {x} PROVE e \in Elements(t)
      <3>1. CASE e = x
        BY <1>1, <1>2, <1>4, <3>1 DEF Elements
      <3>2. CASE e \in Elements(s)
        <4>1. PICK k \in 1..n : e = s[k]
          BY <1>1, <3>2 DEF Elements
        <4> QED BY <1>1, <1>2, <1>5, <4>1 DEF Elements
      <3> QED BY <2>2, <3>1, <3>2
    <2> QED BY <2>1, <2>2
  <1>7. (s # <<>> => t[1] = s[1]) /\ (s = <<>> => t[1] = x)
    <2>1. CASE s = <<>>
      <3>1. n + 1 = 1
        BY <1>3, <2>1
      <3> QED BY <1>2, <2>1, <3>1
    <2>2. CASE s # <<>>
      <3>1. 1 \in 1..n
        BY <1>1, <1>3, <2>2
      <3> QED BY <1>2, <2>2, <3>1
    <2> QED BY <2>1, <2>2
  <1>8. ASSUME Distinct(s), x \notin Elements(s) PROVE Distinct(t)
    <2>1. \A k \in 1..n : s[k] # x
      BY <1>1, <1>8 DEF Elements
    <2>2. \A j, k \in 1..n : s[j] = s[k] => j = k
      BY <1>1, <1>8 DEF Distinct
    <2> SUFFICES ASSUME NEW j \in 1..(n + 1), NEW k \in 1..(n + 1), t[j] = t[k] PROVE j = k
      BY <1>1 DEF Distinct
    <2> QED BY <1>2, <1>4, <2>1, <2>2
  <1> QED BY <1>1, <1>6, <1>7, <1>8 DEF t

LEMMA JoinedElements ==
  ASSUME NEW S, NEW s \in Seq(S), NEW t \in Seq(S)
  PROVE  /\ s \o t \in Seq(S) /\ Elements(s \o t) = Elements(s) \cup Elements(t)
         /\ Distinct(s) /\ Distinct(t) /\ Elements(s) \cap Elements(t) = {} => Distinct(s \o t)
  <1> DEFINE m == Len(s)
             n == Len(t)
             u == s \o t
  <1>1. m \in Nat /\ n \in Nat /\ DOMAIN s = 1..m /\ DOMAIN t = 1..n /\ u \in Seq(S) /\ DOMAIN u = 1..(m + n)
    OBVIOUS
  <1>2. \A k \in 1..(m + n) : u[k] = IF k <= m THEN s[k] ELSE t[k - m]
    OBVIOUS
  <1> HIDE DEF m, n, u
  <1>3. \A k \in 1..(m + n) : (k \in 1..m /\ u[k] = s[k]) \/ (k - m \in 1..n /\ u[k] = t[k - m])
    BY <1>1, <1>2
  <1>4. \A k \in 1..m : k \in 1..(m + n) /\ u[k] = s[k]
    BY <1>1, <1>2
  <1>5. \A k \in 1..n : k + m \in 1..(m + n) /\ u[k + m] = t[k]
    <2> SUFFICES ASSUME NEW k \in 1..n PROVE k + m \in 1..(m + n) /\ u[k + m] = t[k]
      OBVIOUS
    <2>1. k + m \in 1..(m + n) /\ ~(k + m <= m) /\ (k + m) - m = k
      BY <1>1
    <2> QED BY <1>2, <2>1
  <1>6. Elements(u) = Elements(s) \cup Elements(t)
    <2>1. ASSUME NEW e \in Elements(u) PROVE e \in Elements(s) \cup Elements(t)
      <3>1. PICK k \in 1..(m + n) : e = u[k]
        BY <1>1, <2>1 DEF Elements
      <3> QED BY <1>1, <1>3, <3>1 DEF Elements
    <2>2. ASSUME NEW e \in Elements(s) \cup Elements(t) PROVE e \in Elements(u)
      <3>1. CASE e \in Elements(s)
        BY <1>1, <1>4, <3>1 DEF Elements
      <3>2. CASE e \in Elements(t)
        BY <1>1, <1>5, <3>2 DEF Elements
      <3> QED BY <2>2, <3>1, <3>2
    <2> QED BY <2>1, <2>2
  <1>7. ASSUME Distinct(s), Distinct(t), Elements(s) \cap Elements(t) = {} PROVE Distinct(u)
    <2>1. \A j \in 1..m, k \in 1..n : s[j] # t[k]
      BY <1>1, <1>7 DEF Elements
    <2>2. (\A j, k \in 1..m : s[j] = s[k] => j = k) /\ (\A j, k \in 1..n : t[j] = t[k] => j = k)
      BY <1>1, <1>7 DEF Distinct
    <2> SUFFICES ASSUME NEW j \in 1..(m + n), NEW k \in 1..(m + n), u[j] = u[k] PROVE j = k
      BY <1>1 DEF Distinct
    <2>3. j \in Int /\ k \in Int /\ (j - m = k - m => j = k)
      BY <1>1
    <2> QED BY <1>3, <2>1, <2>2, <2>3
  <1> QED BY <1>1, <1>6, <1>7 DEF u

---------------------------------------------------------------------------
(* The types of the state                                                    *)

Rule == MessageRules \cup {NoMessageRule}
PropertySets == UNION {[D -> UNION {ValuesOf[n] : n \in Names}] : D \in SUBSET Names}
FindingSet == [rule: Reports, source: Rule, properties: PropertySets]
GroupSet == [findings: Seq(Nat), systems: SUBSET ValuesOf[System], inOrder: Seq(ValuesOf[System])]

\* What is loaded, and where the loops stand.
Typed ==
  /\ input \in Inputs
  /\ pc \in {"bundle", "rules", "refused", "parse", "analyze", "group", "correlate", "done"}
  /\ reports \in Seq(Reports) /\ correlations \in Seq(Correlations)
  /\ parsed \in Seq(Rule)
  /\ at[1] \in Nat \ {0} /\ at[2] \in Nat \ {0} /\ at = <<at[1], at[2]>>
  /\ findings \in Seq(FindingSet) /\ \A i \in 1..Len(findings) : FindingType(findings[i])
  /\ DOMAIN groups \subseteq Keys /\ \A k \in DOMAIN groups : groups[k] \in GroupSet
  /\ visited \subseteq DOMAIN groups

FileSet == [complete: BOOLEAN, reports: Seq(Reports), correlations: Seq(Correlations)]

LEMMA FileTyped ==
  ASSUME NEW fs \in Seq(FileSet), NEW k \in Nat \ {0}, k <= Len(fs)
  PROVE  fs[k].reports \in Seq(Reports) /\ fs[k].correlations \in Seq(Correlations)
  <1>1. fs[k] \in FileSet
    OBVIOUS
  <1> QED BY <1>1 DEF FileSet

LEMMA InputTyped ==
  ASSUME NEW i \in Inputs
  PROVE  /\ IsBundle(i.bundle) /\ IsFiles(i.files)
         /\ i.files \in Seq(FileSet)
         /\ IsList(i.bundle.collections)
         /\ \A k \in DOMAIN i.bundle.collections : i.bundle.collections[k].records \in Seq(Rule)
  BY CorrelationAssumption DEF CorrelationAssumption, IsFiles, IsBundle, IsList, Rule, FileSet

LEMMA NormalizedTyped ==
  ASSUME NEW o \in Outcomes
  PROVE  /\ Normalized(o) \in PropertySets /\ DOMAIN Normalized(o) \subseteq Names
         /\ \A n \in DOMAIN Normalized(o) : Normalized(o)[n] \in ValuesOf[n]
  <1> DEFINE D == DOMAIN o.plain \cup DOMAIN o.report
             p == Normalized(o)
  <1>1. /\ DOMAIN o.plain \subseteq Names /\ DOMAIN o.report \subseteq Names
        /\ \A n \in DOMAIN o.plain : o.plain[n] \in ValuesOf[n]
        /\ \A n \in DOMAIN o.report : o.report[n] \in ValuesOf[n]
    BY CorrelationAssumption DEF CorrelationAssumption
  <1>2. D \in SUBSET Names /\ DOMAIN p = D /\ p = [n \in D |-> p[n]]
    BY <1>1 DEF Normalized
  <1>3. \A n \in D : p[n] \in ValuesOf[n]
    BY <1>1 DEF Normalized
  <1> HIDE DEF p, D
  <1>4. p \in [D -> UNION {ValuesOf[n] : n \in Names}]
    BY <1>2, <1>3
  <1>5. p \in PropertySets
    BY <1>2, <1>4 DEF PropertySets
  <1> QED BY <1>2, <1>3, <1>5 DEF p

\* The key of a finding and its system.
LEMMA KeyTyped ==
  ASSUME NEW f, FindingType(f), HasKey(f)
  PROVE  KeyOf(f) \in Keys /\ f.properties[System] \in ValuesOf[System]
  BY DEF FindingType, HasKey, KeyOf, Keys

LEMMA NewFinding ==
  ASSUME NEW r \in Reports, NEW m \in Rule, NEW o \in Outcomes, DOMAIN Normalized(o) # {}, NEW f,
         f = [rule |-> r, source |-> m, properties |-> Normalized(o)]
  PROVE  f \in FindingSet /\ FindingType(f)
  BY NormalizedTyped DEF FindingSet, FindingType, Rule

LEMMA GrownTyped ==
  ASSUME NEW g \in GroupSet, NEW i \in Nat, FindingType(findings[i]), HasKey(findings[i])
  PROVE  Grown(g, i) \in GroupSet
  <1> DEFINE y == findings[i].properties[System]
  <1>1. y \in ValuesOf[System]
    BY KeyTyped
  <1>2. g.findings \in Seq(Nat) /\ g.systems \in SUBSET ValuesOf[System] /\ g.inOrder \in Seq(ValuesOf[System])
    BY DEF GroupSet
  <1> HIDE DEF y
  <1>3. Append(g.findings, i) \in Seq(Nat) /\ Append(g.inOrder, y) \in Seq(ValuesOf[System])
    BY <1>1, <1>2, AppendedElements
  <1> QED BY <1>1, <1>2, <1>3 DEF Grown, GroupSet, y

LEMMA TypedFirst == Init => Typed
  BY DEF Init, Typed

LEMMA TypedNext == Typed /\ [Next]_vars => Typed'
  <1> SUFFICES ASSUME Typed, [Next]_vars PROVE Typed'
    OBVIOUS
  <1>1. CASE LoadBundle \/ RefuseBundle \/ RefuseFile \/ Finish
    BY <1>1 DEF LoadBundle, RefuseBundle, RefuseFile, Finish, Typed, ruleset
  <1>2. CASE StartParsing \/ StartAnalysis \/ StartGroups \/ StartCorrelation
    BY <1>2 DEF StartParsing, StartAnalysis, StartGroups, StartCorrelation, Typed, ruleset
  <1>3. CASE ReadFile
    <2>1. files \in Seq(FileSet) /\ at[1] \in Nat \ {0} /\ at[1] <= Len(files)
      BY <1>3, InputTyped DEF ReadFile, Typed, files
    <2>2. files[at[1]].reports \in Seq(Reports) /\ files[at[1]].correlations \in Seq(Correlations)
      BY <2>1, FileTyped
    <2>3. reports' \in Seq(Reports) /\ correlations' \in Seq(Correlations)
      BY <1>3, <2>2 DEF ReadFile, Typed
    <2> QED BY <1>3, <2>3 DEF ReadFile, Typed
  <1>4. CASE ParseCollection
    <2>1. at[1] \in DOMAIN bundle.collections
      BY <1>4, InputTyped DEF ParseCollection, Typed, IsList, bundle
    <2>2. parsed' \in Seq(Rule)
      BY <1>4, <2>1, InputTyped DEF ParseCollection, Typed, bundle
    <2> QED BY <1>4, <2>2 DEF ParseCollection, Typed, ruleset
  <1>5. CASE NotBound
    BY <1>5 DEF NotBound, NextRule, Typed, ruleset
  <1>6. CASE Evaluate
    <2>1. rule \in Reports /\ result \in Rule
      BY <1>6 DEF Evaluate, Analyzing, Typed, rule, result
    <2>2. at' = NextRule /\ UNCHANGED <<input, pc, ruleset, contexts, parsed, groups, visited, correlated>>
      BY <1>6 DEF Evaluate
    <2>3. at'[1] \in Nat \ {0} /\ at'[2] \in Nat \ {0} /\ at' = <<at'[1], at'[2]>>
      BY <2>2 DEF NextRule, Typed
    <2>4. \/ findings' = findings
          \/ \E o \in Outcomes : DOMAIN Normalized(o) # {} /\
               findings' = Append(findings, [rule |-> rule, source |-> result, properties |-> Normalized(o)])
      BY <1>6 DEF Evaluate
    <2>5. findings' \in Seq(FindingSet) /\ \A i \in 1..Len(findings') : FindingType(findings'[i])
      <3>1. CASE findings' = findings
        BY <3>1 DEF Typed
      <3>2. CASE \E o \in Outcomes : DOMAIN Normalized(o) # {} /\
               findings' = Append(findings, [rule |-> rule, source |-> result, properties |-> Normalized(o)])
        <4>1. PICK f : f \in FindingSet /\ FindingType(f) /\ findings' = Append(findings, f)
          BY <2>1, <3>2, NewFinding
        <4>2. \A i \in 1..Len(findings') : findings'[i] = f \/ (i \in 1..Len(findings) /\ findings'[i] = findings[i])
          BY <4>1 DEF Typed
        <4> QED BY <4>1, <4>2 DEF Typed
      <3> QED BY <2>4, <3>1, <3>2
    <2> QED BY <2>2, <2>3, <2>5 DEF Typed, ruleset
  <1>7. CASE GroupFinding
    <2> DEFINE i == at[1]
               f == findings[i]
    <2>1. i \in 1..Len(findings) /\ i \in Nat /\ FindingType(f)
      BY <1>7 DEF GroupFinding, Typed
    <2>2. UNCHANGED <<input, pc, ruleset, contexts, parsed, findings, visited, correlated>> /\ at' = <<at[1] + 1, 1>>
      BY <1>7 DEF GroupFinding
    <2>3. groups' = IF HasKey(f) THEN [k \in DOMAIN groups \cup {KeyOf(f)} |->
                          IF k = KeyOf(f) THEN Grown(GroupOf(k), i) ELSE groups[k]] ELSE groups
      BY <1>7 DEF GroupFinding
    <2> HIDE DEF i
    <2>4. \A k : GroupOf(k) \in GroupSet
      <3>1. NoGroup \in GroupSet
        BY DEF NoGroup, GroupSet
      <3> QED BY <3>1 DEF GroupOf, Typed
    <2>5. HasKey(f) => KeyOf(f) \in Keys /\ \A k : Grown(GroupOf(k), i) \in GroupSet
      BY <2>1, <2>4, KeyTyped, GrownTyped
    <2> HIDE DEF f
    <2>6. /\ DOMAIN groups' \subseteq Keys /\ \A k \in DOMAIN groups' : groups'[k] \in GroupSet
          /\ DOMAIN groups \subseteq DOMAIN groups'
      BY <2>3, <2>5 DEF Typed
    <2> QED BY <2>2, <2>6 DEF Typed, ruleset
  <1>8. CASE Correlate
    BY <1>8 DEF Correlate, Remaining, Typed, ruleset
  <1>9. CASE NextCorrelation
    BY <1>9 DEF NextCorrelation, Typed, ruleset
  <1>10. CASE UNCHANGED vars
    BY <1>10 DEF vars, ruleset, Typed
  <1> QED BY <1>1, <1>2, <1>3, <1>4, <1>5, <1>6, <1>7, <1>8, <1>9, <1>10 DEF Next

---------------------------------------------------------------------------
(* The metadata of the collections that are parsed                           *)

ContextSet == {ContextOf(bundle, bundle.collections[k]) : k \in DOMAIN bundle.collections}

\* A collection is parsed only when the bundle was accepted, and has its context
\* from the bundle.
Metadata ==
  /\ pc \in {"bundle", "rules", "refused"} => contexts = <<>>
  /\ pc \notin {"bundle", "refused"} => Accepted(bundle)
  /\ pc = "parse" => Len(contexts) = at[1] - 1
  /\ contexts \in Seq(ContextSet) /\ Len(contexts) <= Len(bundle.collections)
  /\ \A k \in 1..Len(contexts) : contexts[k] = ContextOf(bundle, bundle.collections[k])

LEMMA MetadataKept == Typed /\ Metadata /\ [Next]_vars => Metadata'
  <1> SUFFICES ASSUME Typed, Metadata, [Next]_vars PROVE Metadata'
    OBVIOUS
  <1>1. CASE ParseCollection
    <2> DEFINE n == at[1]
               c == bundle.collections[n]
    <2>1. /\ n \in Nat \ {0} /\ n <= Len(bundle.collections) /\ IsList(bundle.collections)
          /\ Len(contexts) = n - 1 /\ Accepted(bundle)
      BY <1>1, InputTyped DEF ParseCollection, Typed, Metadata, bundle
    <2>2. /\ contexts' = Append(contexts, ContextOf(bundle, c)) /\ at'[1] = n + 1
          /\ UNCHANGED <<input, pc>> /\ pc = "parse"
      BY <1>1 DEF ParseCollection
    <2>3. bundle' = bundle /\ ContextSet' = ContextSet
      BY <2>2 DEF bundle, ContextSet
    <2>4. ContextOf(bundle, c) \in ContextSet /\ n \in 1..Len(bundle.collections)
      BY <2>1 DEF IsList, ContextSet
    <2> DEFINE x == ContextOf(bundle, c)
    <2> HIDE DEF n, x
    <2>5. /\ contexts' \in Seq(ContextSet) /\ Len(contexts') = n
          /\ contexts'[n] = x /\ \A k \in 1..(n - 1) : contexts'[k] = contexts[k]
      BY <2>1, <2>2, <2>4 DEF Metadata, x
    <2>6. \A k \in 1..n : k = n \/ k \in 1..(n - 1)
      BY <2>1
    <2>7. \A k \in 1..n : contexts'[k] = ContextOf(bundle, bundle.collections[k])
      BY <2>1, <2>5, <2>6 DEF Metadata, x
    <2>8. (n + 1) - 1 = n
      BY <2>1
    <2> QED BY <2>1, <2>2, <2>3, <2>5, <2>7, <2>8 DEF Metadata
  <1>2. ASSUME UNCHANGED <<input, contexts>>,
               pc' \in {"bundle", "rules", "refused"} => pc \in {"bundle", "rules", "refused"},
               pc' \notin {"bundle", "refused"} => pc \notin {"bundle", "refused"} \/ Accepted(bundle),
               pc' = "parse" => (pc = "parse" /\ at' = at) \/ (pc = "rules" /\ at' = <<1, 1>>)
        PROVE  Metadata'
    <2>1. bundle' = bundle /\ ContextSet' = ContextSet
      BY <1>2 DEF bundle, ContextSet
    <2>2. pc' = "parse" => Len(contexts) = at'[1] - 1
      BY <1>2 DEF Metadata
    <2> QED BY <1>2, <2>1, <2>2 DEF Metadata
  <1>3. CASE LoadBundle \/ RefuseBundle \/ ReadFile \/ RefuseFile \/ StartParsing \/ StartAnalysis
    BY <1>2, <1>3 DEF LoadBundle, RefuseBundle, ReadFile, RefuseFile, StartParsing, StartAnalysis
  <1>4. CASE NotBound \/ Evaluate \/ StartGroups
    BY <1>2, <1>4 DEF NotBound, Evaluate, StartGroups, Analyzing
  <1>5. CASE GroupFinding \/ StartCorrelation \/ Correlate \/ NextCorrelation \/ Finish
    BY <1>2, <1>5 DEF GroupFinding, StartCorrelation, Correlate, NextCorrelation, Finish, Correlating
  <1>6. CASE UNCHANGED vars
    BY <1>2, <1>6 DEF vars
  <1> QED BY <1>1, <1>3, <1>4, <1>5, <1>6 DEF Next

LEMMA TypeShown == Typed /\ Metadata /\ (\A i \in 1..Len(correlated) : correlated[i].rule \in Correlations /\ correlated[i].key \in Keys) => TypeOK
  BY DEF Typed, Metadata, TypeOK, GroupSet, Rule

\* A collection that is parsed gets the metadata it names, whatever the bundle
\* that was accepted refers to: never two entries to choose from, the network
\* and the site of its system, and nobody but declared organizations.
THEOREM ContextsAreRight == Spec => []ContextsAgree
  <1>1. Init => Metadata
    <2> SUFFICES ASSUME Init PROVE Metadata
      OBVIOUS
    <2>1. IsList(bundle.collections)
      BY InputTyped DEF Init, bundle
    <2> QED BY <2>1 DEF Init, Metadata, IsList
  <1>2. Typed /\ Metadata => ContextsAgree
    <2> SUFFICES ASSUME Typed, Metadata, NEW k \in DOMAIN contexts
                 PROVE  Agreeing(bundle, bundle.collections[k], contexts[k])
      BY DEF ContextsAgree, Agreeing, Led
    <2>1. k \in 1..Len(contexts) /\ IsBundle(bundle) /\ IsList(bundle.collections)
      BY InputTyped DEF Metadata, Typed, bundle
    <2>2. k \in DOMAIN bundle.collections
      BY <2>1 DEF Metadata, IsList
    <2>3. Accepted(bundle)
      BY <2>1 DEF Metadata
    <2> QED BY <2>1, <2>2, <2>3, ContextsOfAccepted DEF Metadata
  <1>3. Init /\ [][Next]_vars => [](Typed /\ Metadata)
    BY <1>1, TypedFirst, TypedNext, MetadataKept, PTL
  <1> QED BY <1>2, <1>3, PTL DEF Spec

---------------------------------------------------------------------------
(* The correlation rules of the files                                        *)

\* The rules of the first n files.
RulesOf(n) == {c \in Correlations : \E f \in 1..n : c \in Elements(files[f].correlations)}

RulesRead ==
  /\ Distinct(correlations)
  /\ pc = "bundle" => correlations = <<>> /\ at[1] = 1
  /\ pc = "rules" => at[1] <= Len(files) + 1 /\ Elements(correlations) = RulesOf(at[1] - 1)
  /\ pc \notin {"bundle", "rules", "refused"} => Elements(correlations) = RulesOf(Len(files))

LEMMA FileRulesDistinct ==
  ASSUME NEW fs, IsFiles(fs), NEW f \in DOMAIN fs
  PROVE  /\ Distinct(fs[f].correlations)
         /\ \A g \in DOMAIN fs : g # f => Elements(fs[g].correlations) \cap Elements(fs[f].correlations) = {}
  BY DEF IsFiles, Distinct, Elements

LEMMA RulesReadKept == Typed /\ RulesRead /\ [Next]_vars => RulesRead'
  <1> SUFFICES ASSUME Typed, RulesRead, [Next]_vars PROVE RulesRead'
    OBVIOUS
  <1>1. CASE ReadFile
    <2> DEFINE n == at[1]
               t == files[n].correlations
    <2>1. /\ n \in Nat \ {0} /\ n <= Len(files) /\ files \in Seq(FileSet) /\ IsFiles(files)
          /\ correlations \in Seq(Correlations)
      BY <1>1, InputTyped DEF ReadFile, Typed, files
    <2>2. /\ correlations' = correlations \o t /\ at'[1] = n + 1 /\ pc' = pc /\ pc = "rules" /\ files' = files
      BY <1>1 DEF ReadFile, files
    <2>3. t \in Seq(Correlations)
      BY <2>1, FileTyped
    <2>4. n \in DOMAIN files /\ \A f \in 1..(n - 1) : f \in DOMAIN files /\ f # n
      BY <2>1
    <2>5. Elements(correlations) = RulesOf(n - 1) /\ Distinct(correlations)
      BY <2>2 DEF RulesRead
    <2>6. Distinct(t) /\ Elements(correlations) \cap Elements(t) = {}
      BY <2>1, <2>4, <2>5, FileRulesDistinct DEF RulesOf
    <2> HIDE DEF t
    <2>7. Distinct(correlations') /\ Elements(correlations') = Elements(correlations) \cup Elements(t)
      BY <2>1, <2>2, <2>3, <2>5, <2>6, JoinedElements
    <2>8. Elements(t) \subseteq Correlations
      BY <2>3 DEF Elements
    <2> HIDE DEF n
    <2>9. \A f : f \in 1..n <=> f = n \/ f \in 1..(n - 1)
      BY <2>1
    <2>10. Elements(correlations') = RulesOf(n)
      BY <2>5, <2>7, <2>8, <2>9 DEF RulesOf, t
    <2>11. (n + 1) - 1 = n /\ n + 1 <= Len(files) + 1
      BY <2>1
    <2>12. PICK m : m = n
      OBVIOUS
    <2>13. RulesOf(m)' = RulesOf(m)
      BY <2>2 DEF RulesOf
    <2>14. at'[1] - 1 = m /\ Elements(correlations') = RulesOf(m)
      BY <2>2, <2>10, <2>11, <2>12
    <2> QED BY <2>2, <2>7, <2>11, <2>13, <2>14 DEF RulesRead
  <1>2. CASE StartParsing
    <2>1. /\ at[1] \in Nat \ {0} /\ at[1] > Len(files) /\ Len(files) \in Nat /\ pc = "rules" /\ pc' = "parse"
          /\ UNCHANGED <<input, correlations>>
      BY <1>2, InputTyped DEF StartParsing, Typed, ruleset, files
    <2>2. at[1] - 1 = Len(files)
      BY <2>1 DEF RulesRead
    <2>3. files' = files /\ \A m : RulesOf(m)' = RulesOf(m)
      BY <2>1 DEF files, RulesOf
    <2> QED BY <2>1, <2>2, <2>3 DEF RulesRead
  <1>3. CASE LoadBundle
    <2>1. /\ UNCHANGED <<input, correlations, at>> /\ pc = "bundle" /\ pc' = "rules" /\ files \in Seq(FileSet)
      BY <1>3, InputTyped DEF LoadBundle, ruleset, Typed, files
    <2>2. correlations = <<>> /\ at[1] = 1
      BY <2>1 DEF RulesRead
    <2>3. RulesOf(at[1] - 1)' = {} /\ Elements(correlations') = {} /\ 1 <= Len(files) + 1
      BY <2>1, <2>2 DEF RulesOf, Elements
    <2> QED BY <2>1, <2>2, <2>3 DEF RulesRead, files
  <1>4. ASSUME UNCHANGED <<input, correlations>>,
               pc' \in {"bundle", "rules"} => pc' = pc /\ at' = at,
               pc' \notin {"bundle", "rules", "refused"} => pc \notin {"bundle", "rules", "refused"}
        PROVE  RulesRead'
    <2>1. files' = files /\ \A m : RulesOf(m)' = RulesOf(m)
      BY <1>4 DEF files, RulesOf
    <2> QED BY <1>4, <2>1 DEF RulesRead
  <1>5. CASE RefuseBundle \/ RefuseFile \/ ParseCollection \/ StartAnalysis
    BY <1>4, <1>5 DEF RefuseBundle, RefuseFile, ParseCollection, StartAnalysis, ruleset
  <1>6. CASE NotBound \/ Evaluate \/ StartGroups
    BY <1>4, <1>6 DEF NotBound, Evaluate, StartGroups, Analyzing, ruleset
  <1>7. CASE GroupFinding \/ StartCorrelation \/ Correlate \/ NextCorrelation \/ Finish
    BY <1>4, <1>7 DEF GroupFinding, StartCorrelation, Correlate, NextCorrelation, Finish, Correlating, ruleset
  <1>8. CASE UNCHANGED vars
    BY <1>4, <1>8 DEF vars, ruleset
  <1> QED BY <1>1, <1>2, <1>3, <1>5, <1>6, <1>7, <1>8 DEF Next

---------------------------------------------------------------------------
(* What a group holds                                                        *)

\* Group g holds the findings of key k among the first n, and their systems.
GroupIs(g, k, n) ==
  /\ Elements(g.findings) = Evidence(k, n) /\ Increasing(g.findings)
  /\ g.systems = SystemsOf(Evidence(k, n))
  /\ Elements(g.inOrder) = g.systems /\ Distinct(g.inOrder)

Exact(n) ==
  \A k \in Keys :
    IF k \in DOMAIN groups THEN GroupIs(groups[k], k, n) /\ groups[k].findings # <<>> ELSE Evidence(k, n) = {}

Grouping ==
  /\ pc \notin {"group", "correlate", "done"} => groups = <<>>
  /\ pc \in {"group", "correlate"} => correlations # <<>>
  /\ pc = "group" => at[1] <= Len(findings) + 1 /\ Exact(at[1] - 1)
  /\ pc = "correlate" => Exact(Len(findings))
  /\ pc = "done" => IF correlations = <<>> THEN groups = <<>> ELSE Exact(Len(findings))

\* One more finding.
LEMMA EvidenceGrows ==
  ASSUME NEW k, NEW i \in Nat \ {0}
  PROVE  Evidence(k, i) = Evidence(k, i - 1) \cup
           (IF HasKey(findings[i]) /\ KeyOf(findings[i]) = k THEN {i} ELSE {})
  <1>1. \A j : j \in 1..i <=> j = i \/ j \in 1..(i - 1)
    OBVIOUS
  <1>2. \A j \in 1..(i - 1) : j # i
    OBVIOUS
  <1> QED BY <1>1, <1>2 DEF Evidence

LEMMA GrownIs ==
  ASSUME Typed, NEW i \in 1..Len(findings), HasKey(findings[i]), NEW k, k = KeyOf(findings[i]),
         NEW g \in GroupSet, GroupIs(g, k, i - 1)
  PROVE  GroupIs(Grown(g, i), k, i) /\ Grown(g, i).findings # <<>>
  <1> DEFINE y == findings[i].properties[System]
             E == Evidence(k, i - 1)
             h == Grown(g, i)
  <1>1. y \in ValuesOf[System] /\ i \in Nat \ {0}
    BY KeyTyped DEF Typed
  <1>2. g.findings \in Seq(Nat) /\ g.systems \in SUBSET ValuesOf[System] /\ g.inOrder \in Seq(ValuesOf[System])
    BY DEF GroupSet
  <1>3. Evidence(k, i) = E \cup {i}
    BY <1>1, EvidenceGrows
  <1>4. SystemsOf(Evidence(k, i)) = SystemsOf(E) \cup {y}
    BY <1>3 DEF SystemsOf
  <1>5. /\ Elements(g.findings) = E /\ Increasing(g.findings) /\ g.systems = SystemsOf(E)
        /\ Elements(g.inOrder) = g.systems /\ Distinct(g.inOrder)
    BY DEF GroupIs
  <1>6. /\ h.findings = Append(g.findings, i) /\ h.systems = g.systems \cup {y}
        /\ h.inOrder = IF y \in g.systems THEN g.inOrder ELSE Append(g.inOrder, y)
    BY DEF Grown
  <1>7. \A j \in E : j < i
    BY <1>1 DEF Evidence
  <1> HIDE DEF y, E, h
  <1>8. Elements(h.findings) = E \cup {i} /\ h.findings # <<>>
    <2>1. PICK s \in Seq(Nat) : s = g.findings
      BY <1>2
    <2>2. i \in Nat
      BY <1>1
    <2>3. Elements(Append(s, i)) = Elements(s) \cup {i} /\ Append(s, i) # <<>>
      BY <2>1, <2>2, AppendedElements
    <2> QED BY <1>5, <1>6, <2>1, <2>3
  <1>9. Increasing(h.findings)
    <2> DEFINE s == g.findings
               n == Len(s)
               t == Append(s, i)
    <2>1. /\ n \in Nat /\ DOMAIN s = 1..n /\ DOMAIN t = 1..(n + 1) /\ t[n + 1] = i
          /\ \A j \in 1..n : t[j] = s[j]
      BY <1>1, <1>2
    <2>2. \A j \in 1..n : s[j] < i
      BY <1>5, <1>7, <2>1 DEF Elements
    <2>3. \A a, b \in 1..n : a < b => s[a] < s[b]
      BY <1>5, <2>1 DEF Increasing
    <2>4. h.findings = t
      BY <1>6
    <2> HIDE DEF t, n, s
    <2> SUFFICES ASSUME NEW a \in 1..(n + 1), NEW b \in 1..(n + 1), a < b PROVE t[a] < t[b]
      BY <2>1, <2>4 DEF Increasing
    <2>5. a \in 1..n /\ (b = n + 1 \/ b \in 1..n)
      BY <2>1
    <2> QED BY <2>1, <2>2, <2>3, <2>5
  <1>10. Elements(h.inOrder) = h.systems /\ Distinct(h.inOrder)
    <2>1. CASE y \in g.systems
      BY <1>5, <1>6, <2>1
    <2>2. CASE y \notin g.systems
      BY <1>1, <1>2, <1>5, <1>6, <2>2, AppendedElements
    <2> QED BY <2>1, <2>2
  <1> QED BY <1>3, <1>4, <1>5, <1>6, <1>8, <1>9, <1>10 DEF GroupIs, h

LEMMA NoGroupIs == ASSUME NEW k, NEW n, Evidence(k, n) = {} PROVE NoGroup \in GroupSet /\ GroupIs(NoGroup, k, n)
  <1>1. NoGroup.findings = <<>> /\ NoGroup.systems = {} /\ NoGroup.inOrder = <<>>
    BY DEF NoGroup
  <1>2. Elements(<<>>) = {} /\ Distinct(<<>>) /\ Increasing(<<>>)
    BY DEF Elements, Distinct, Increasing
  <1>3. NoGroup \in GroupSet
    BY DEF NoGroup, GroupSet
  <1> QED BY <1>1, <1>2, <1>3 DEF GroupIs, SystemsOf

\* A step that leaves the findings as they are.
LEMMA SameEvidence ==
  ASSUME findings' = findings
  PROVE  \A k, n : /\ Evidence(k, n)' = Evidence(k, n)
                   /\ SystemsOf(Evidence(k, n))' = SystemsOf(Evidence(k, n))
  BY DEF Evidence, SystemsOf, HasKey, KeyOf

LEMMA SameGroups ==
  ASSUME findings' = findings, groups' = groups, NEW n, Exact(n) PROVE Exact(n)'
  BY SameEvidence DEF Exact, GroupIs

LEMMA GroupFindingExact ==
  ASSUME Typed, Typed', GroupFinding, NEW i, i = at[1], Exact(i - 1) PROVE Exact(i)'
  <1> DEFINE f == findings[i]
             key == KeyOf(f)
  <1>1. i \in 1..Len(findings) /\ i \in Nat \ {0} /\ FindingType(f) /\ findings' = findings
    <2>1. i \in Nat \ {0} /\ i <= Len(findings) /\ Len(findings) \in Nat /\ findings' = findings
      BY DEF GroupFinding, Typed
    <2>2. i \in 1..Len(findings)
      BY <2>1
    <2> QED BY <2>1, <2>2 DEF Typed
  <1>2. groups' = IF HasKey(f) THEN [k \in DOMAIN groups \cup {key} |->
                        IF k = key THEN Grown(GroupOf(k), i) ELSE groups[k]] ELSE groups
    BY DEF GroupFinding
  <1>3. HasKey(f) => key \in Keys
    BY <1>1, KeyTyped
  <1> HIDE DEF f, key
  <1> SUFFICES ASSUME NEW k \in Keys
               PROVE  IF k \in DOMAIN groups' THEN GroupIs(groups'[k], k, i) /\ groups'[k].findings # <<>>
                      ELSE Evidence(k, i) = {}
    BY <1>1, SameEvidence DEF Exact, GroupIs
  <1>4. IF k \in DOMAIN groups THEN GroupIs(groups[k], k, i - 1) /\ groups[k].findings # <<>>
        ELSE Evidence(k, i - 1) = {}
    BY DEF Exact
  <1>5. CASE HasKey(f) /\ k = key
    <2>1. k \in DOMAIN groups' /\ groups'[k] = Grown(GroupOf(k), i)
      BY <1>2, <1>5
    <2>2. GroupOf(k) \in GroupSet /\ GroupIs(GroupOf(k), k, i - 1)
      BY <1>4, NoGroupIs DEF GroupOf, Typed
    <2>3. GroupIs(Grown(GroupOf(k), i), k, i) /\ Grown(GroupOf(k), i).findings # <<>>
      BY <1>1, <1>5, <2>2, GrownIs DEF f, key
    <2> QED BY <2>1, <2>3
  <1>6. CASE ~(HasKey(f) /\ k = key)
    <2>1. Evidence(k, i) = Evidence(k, i - 1)
      <3>1. Evidence(k, i) = Evidence(k, i - 1) \cup
              (IF HasKey(findings[i]) /\ KeyOf(findings[i]) = k THEN {i} ELSE {})
        BY <1>1, EvidenceGrows
      <3>2. ~(HasKey(findings[i]) /\ KeyOf(findings[i]) = k)
        BY <1>6 DEF f, key
      <3> QED BY <3>1, <3>2
    <2>2. (k \in DOMAIN groups' <=> k \in DOMAIN groups) /\ (k \in DOMAIN groups => groups'[k] = groups[k])
      BY <1>2, <1>6
    <2> QED BY <1>4, <2>1, <2>2 DEF GroupIs
  <1> QED BY <1>5, <1>6

LEMMA GroupingKept == Typed /\ Typed' /\ Grouping /\ [Next]_vars => Grouping'
  <1> SUFFICES ASSUME Typed, Typed', Grouping, [Next]_vars PROVE Grouping'
    OBVIOUS
  <1>1. CASE GroupFinding
    <2>1. PICK i : i = at[1]
      OBVIOUS
    <2>2. i \in Nat \ {0} /\ i <= Len(findings) /\ Len(findings) \in Nat
      BY <1>1, <2>1 DEF GroupFinding, Typed
    <2>3. at'[1] = i + 1 /\ UNCHANGED <<pc, correlations, findings>> /\ pc = "group"
      BY <1>1, <2>1 DEF GroupFinding, ruleset
    <2>4. Exact(i - 1)
      BY <2>1, <2>3 DEF Grouping
    <2>5. Exact(i)'
      BY <1>1, <2>1, <2>4, GroupFindingExact
    <2>6. at'[1] - 1 = i /\ at'[1] <= Len(findings') + 1
      BY <2>2, <2>3
    <2> QED BY <2>3, <2>5, <2>6 DEF Grouping
  <1>2. CASE StartGroups
    <2>1. /\ pc' = IF correlations = <<>> THEN "done" ELSE "group"
          /\ at'[1] = 1 /\ UNCHANGED <<correlations, findings, groups>> /\ groups = <<>> /\ Len(findings) \in Nat
      BY <1>2 DEF StartGroups, ruleset, Grouping, Typed
    <2>2. \A k : Evidence(k, 0)' = {}
      BY DEF Evidence
    <2>3. Exact(0)'
      BY <2>1, <2>2 DEF Exact
    <2>4. at'[1] - 1 = 0 /\ at'[1] <= Len(findings') + 1
      BY <2>1
    <2> QED BY <2>1, <2>3, <2>4 DEF Grouping
  <1>3. CASE StartCorrelation
    <2>1. /\ pc = "group" /\ pc' = "correlate" /\ at[1] > Len(findings) /\ at[1] \in Nat /\ Len(findings) \in Nat
          /\ UNCHANGED <<correlations, findings, groups>>
      BY <1>3 DEF StartCorrelation, ruleset, Typed
    <2>2. at[1] - 1 = Len(findings) /\ Exact(at[1] - 1)
      BY <2>1 DEF Grouping
    <2>3. PICK n : n = Len(findings)
      OBVIOUS
    <2>4. Exact(n)'
      BY <2>1, <2>2, <2>3, SameGroups
    <2> QED BY <2>1, <2>3, <2>4 DEF Grouping
  <1>4. CASE Correlate \/ NextCorrelation \/ Finish
    <2>1. pc = "correlate" /\ pc' \in {"correlate", "done"} /\ UNCHANGED <<correlations, findings, groups>>
      BY <1>4 DEF Correlate, NextCorrelation, Finish, Correlating, ruleset
    <2>2. PICK n : n = Len(findings)
      OBVIOUS
    <2>3. Exact(n)' /\ correlations # <<>>
      BY <2>1, <2>2, SameGroups DEF Grouping
    <2> QED BY <2>1, <2>2, <2>3 DEF Grouping
  <1>5. CASE LoadBundle \/ RefuseBundle \/ ReadFile \/ RefuseFile \/ StartParsing
    BY <1>5 DEF LoadBundle, RefuseBundle, ReadFile, RefuseFile, StartParsing, Grouping
  <1>6. CASE ParseCollection \/ StartAnalysis \/ NotBound \/ Evaluate
    BY <1>6 DEF ParseCollection, StartAnalysis, NotBound, Evaluate, Analyzing, Grouping
  <1>7. CASE UNCHANGED vars
    <2>1. UNCHANGED <<pc, at, correlations, findings, groups>>
      BY <1>7 DEF vars, ruleset
    <2>2. PICK n : n = Len(findings)
      OBVIOUS
    <2>3. PICK m : m = at[1] - 1
      OBVIOUS
    <2>4. (Exact(n) => Exact(n)') /\ (Exact(m) => Exact(m)')
      BY <2>1, SameGroups
    <2> QED BY <2>1, <2>2, <2>3, <2>4 DEF Grouping
  <1> QED BY <1>1, <1>2, <1>3, <1>4, <1>5, <1>6, <1>7 DEF Next

\* A group holds the findings of its source and family, all of them in the
\* order they were found, and names each of their systems once, however many
\* findings there are and whatever properties they have.
THEOREM GroupsAreRight == Spec => []GroupsAreExact
  <1>1. Init => Grouping
    BY DEF Init, Grouping
  <1>2. Typed /\ Grouping => GroupsAreExact
    <2> SUFFICES ASSUME Typed, Grouping, NEW k \in Keys
                 PROVE  IF k \in DOMAIN groups
                        THEN GroupIs(groups[k], k, Grouped) /\ groups[k].findings # <<>>
                        ELSE correlations # <<>> => Evidence(k, Grouped) = {}
      BY DEF GroupsAreExact, GroupIs
    <2>1. CASE pc \notin {"group", "correlate", "done"} \/ (pc = "done" /\ correlations = <<>>)
      <3>1. groups = <<>> /\ (correlations # <<>> => Grouped = 0)
        BY <2>1 DEF Grouping, Grouped
      <3>2. Evidence(k, 0) = {}
        BY DEF Evidence
      <3> QED BY <3>1, <3>2
    <2>2. CASE pc = "group" \/ pc = "correlate" \/ (pc = "done" /\ correlations # <<>>)
      <3>1. Exact(Grouped)
        BY <2>2 DEF Grouping, Grouped
      <3> QED BY <3>1 DEF Exact
    <2> QED BY <2>1, <2>2
  <1>3. Init /\ [][Next]_vars => [](Typed /\ Grouping)
    BY <1>1, TypedFirst, TypedNext, GroupingKept, PTL
  <1> QED BY <1>2, <1>3, PTL DEF Spec

---------------------------------------------------------------------------
(* The sources of a group                                                    *)

LEMMA LeastNumber ==
  ASSUME NEW T, T \subseteq Nat, T # {} PROVE \E x \in T : \A y \in T : x <= y
  <1> DEFINE R == OpToRel(<, Nat)
  <1>1. IsWellFoundedOn(R, Nat)
    BY NatLessThanWellFounded
  <1>2. PICK x \in T : \A y \in T : ~(<<y, x>> \in R)
    <2> HIDE DEF R
    <2> QED BY <1>1, WFMin
  <1>3. \A a, b \in Nat : a < b => <<a, b>> \in R
    BY DEF OpToRel
  <1> HIDE DEF R
  <1>4. \A y \in T : ~(y < x)
    BY <1>2, <1>3
  <1> QED BY <1>2, <1>4

SourceAt(fs, j) == findings[fs[j]].source

\* F is the function Sources computes with, as far as m.
IsFirsts(F, fs, m) ==
  F = [i \in 0..m |->
        IF i = 0 THEN <<>>
        ELSE IF \E j \in 1..(i - 1) : findings[fs[j]].source = findings[fs[i]].source
             THEN F[i - 1]
             ELSE Append(F[i - 1], findings[fs[i]].source)]

LEMMA FirstsExist == \A fs : \A m \in Nat : \E F : IsFirsts(F, fs, m)
  <1> SUFFICES ASSUME NEW fs PROVE \A m \in Nat : \E F : IsFirsts(F, fs, m)
    OBVIOUS
  <1> DEFINE T == {m \in Nat : ~\E F : IsFirsts(F, fs, m)}
  <1> SUFFICES ASSUME T # {} PROVE FALSE
    OBVIOUS
  <1>1. PICK m \in T : \A y \in T : m <= y
    <2>1. T \subseteq Nat
      OBVIOUS
    <2> HIDE DEF T
    <2> QED BY <2>1, LeastNumber
  <1>2. m \in Nat /\ ~\E F : IsFirsts(F, fs, m)
    OBVIOUS
  <1>3. m # 0
    <2> SUFFICES ASSUME m = 0 PROVE FALSE
      OBVIOUS
    <2> DEFINE F == [i \in 0..0 |-> <<>>]
    <2>1. IsFirsts(F, fs, 0)
      BY DEF IsFirsts
    <2> QED BY <1>2, <2>1
  <1>4. m - 1 \in Nat /\ m - 1 \notin T
    BY <1>1, <1>2, <1>3
  <1>5. PICK F : IsFirsts(F, fs, m - 1)
    BY <1>4
  <1> DEFINE G == [i \in 0..m |-> IF i = 0 THEN <<>>
                     ELSE IF \E j \in 1..(i - 1) : findings[fs[j]].source = findings[fs[i]].source
                          THEN F[i - 1] ELSE Append(F[i - 1], findings[fs[i]].source)]
  <1>6. \A i \in 0..(m - 1) : G[i] = F[i]
    <2>1. \A i \in 0..(m - 1) : i \in 0..m
      BY <1>2
    <2> QED BY <1>5, <2>1 DEF IsFirsts
  <1>7. \A i \in 0..m : i # 0 => i - 1 \in 0..(m - 1)
    BY <1>2
  <1>8. IsFirsts(G, fs, m)
    BY <1>6, <1>7 DEF IsFirsts
  <1> QED BY <1>2, <1>8

\* The sources of findings are all theirs, each of them once, the first one first.
LEMMA SourcesRead ==
  ASSUME NEW fs \in Seq(Nat), \A j \in DOMAIN fs : SourceAt(fs, j) \in Rule
  PROVE  /\ Elements(Sources(fs)) = {SourceAt(fs, j) : j \in DOMAIN fs} /\ Distinct(Sources(fs))
         /\ fs # <<>> => Sources(fs)[1] = SourceAt(fs, 1)
  <1> DEFINE n == Len(fs)
             F == CHOOSE G : IsFirsts(G, fs, n)
             Right(i) == /\ F[i] \in Seq(Rule) /\ Elements(F[i]) = {SourceAt(fs, j) : j \in 1..i}
                         /\ Distinct(F[i])
                         /\ i # 0 => F[i] # <<>> /\ F[i][1] = SourceAt(fs, 1)
             T == {i \in 0..n : ~Right(i)}
  <1>1. n \in Nat /\ DOMAIN fs = 1..n /\ (fs # <<>> => n # 0)
    OBVIOUS
  <1>2. IsFirsts(F, fs, n)
    BY <1>1, FirstsExist
  <1>3. Sources(fs) = F[n]
    BY DEF Sources, IsFirsts
  <1> HIDE DEF F, n
  <1>4. F[0] = <<>>
    BY <1>1, <1>2 DEF IsFirsts
  <1>5. ASSUME NEW i \in 1..n
        PROVE  F[i] = IF \E j \in 1..(i - 1) : SourceAt(fs, j) = SourceAt(fs, i)
                      THEN F[i - 1] ELSE Append(F[i - 1], SourceAt(fs, i))
    <2>1. i \in 0..n /\ i # 0
      BY <1>1
    <2> QED BY <1>2, <2>1 DEF IsFirsts, SourceAt
  <1>6. T = {}
    <2> SUFFICES ASSUME T # {} PROVE FALSE
      OBVIOUS
    <2>1. T \subseteq Nat
      BY <1>1
    <2>2. PICK i \in T : \A y \in T : i <= y
      <3> HIDE DEF T
      <3> QED BY <2>1, LeastNumber
    <2>3. i \in 0..n /\ ~Right(i)
      OBVIOUS
    <2> HIDE DEF Right
    <2>4. i # 0
      <3>1. Elements(<<>>) = {} /\ Distinct(<<>>) /\ <<>> \in Seq(Rule)
        BY DEF Elements, Distinct
      <3>2. {SourceAt(fs, j) : j \in 1..0} = {}
        OBVIOUS
      <3>3. Right(0)
        BY <1>4, <3>1, <3>2 DEF Right
      <3> QED BY <2>3, <3>3
    <2>5. i \in 1..n /\ i - 1 \in 0..n /\ ~(i <= i - 1)
      BY <1>1, <2>3, <2>4
    <2>6. Right(i - 1)
      BY <2>2, <2>5
    <2> DEFINE s == F[i - 1]
               x == SourceAt(fs, i)
    <2>7. x \in Rule
      BY <1>1, <2>5
    <2>8. /\ s \in Seq(Rule) /\ Elements(s) = {SourceAt(fs, j) : j \in 1..(i - 1)} /\ Distinct(s)
          /\ i - 1 # 0 => s # <<>> /\ s[1] = SourceAt(fs, 1)
      BY <2>6 DEF Right
    <2>9. \A j : j \in 1..i <=> j = i \/ j \in 1..(i - 1)
      BY <2>5
    <2>10. F[i] = IF x \in Elements(s) THEN s ELSE Append(s, x)
      BY <1>5, <2>5, <2>8
    <2>11. {SourceAt(fs, j) : j \in 1..i} = Elements(s) \cup {x}
      BY <2>8, <2>9
    <2>12. s = <<>> => i = 1
      BY <2>5, <2>8
    <2>13. i = 1 => s = <<>>
      BY <1>4
    <2> HIDE DEF s
    <2>14. CASE x \in Elements(s)
      <3>1. s # <<>>
        BY <2>14 DEF Elements
      <3>2. i - 1 # 0
        BY <2>5, <2>13, <3>1
      <3>3. Right(i)
        BY <2>8, <2>10, <2>11, <2>14, <3>1, <3>2 DEF Right
      <3> QED BY <2>3, <3>3
    <2>15. CASE x \notin Elements(s)
      <3> HIDE DEF x
      <3>1. /\ Append(s, x) \in Seq(Rule) /\ Elements(Append(s, x)) = Elements(s) \cup {x}
            /\ Append(s, x) # <<>> /\ (s # <<>> => Append(s, x)[1] = s[1]) /\ (s = <<>> => Append(s, x)[1] = x)
            /\ Distinct(Append(s, x))
        BY <2>7, <2>8, <2>15, AppendedElements
      <3>2. F[i] = Append(s, x)
        BY <2>10, <2>15
      <3>3. F[i][1] = SourceAt(fs, 1)
        <4>1. CASE s = <<>>
          BY <2>12, <3>1, <3>2, <4>1 DEF x
        <4>2. CASE s # <<>>
          <5>1. i - 1 # 0
            BY <2>5, <2>13, <4>2
          <5> QED BY <2>8, <3>1, <3>2, <4>2, <5>1
        <4> QED BY <4>1, <4>2
      <3>4. Right(i)
        BY <2>11, <3>1, <3>2, <3>3 DEF Right
      <3> QED BY <2>3, <3>4
    <2> QED BY <2>14, <2>15
  <1>7. Right(n)
    <2>1. n \in 0..n
      BY <1>1
    <2> HIDE DEF Right
    <2> QED BY <1>6, <2>1
  <1> QED BY <1>1, <1>3, <1>7

---------------------------------------------------------------------------
(* What the correlation rules report                                         *)

\* What rule c reports for key.
Reported(c, key) ==
  [rule |-> c, key |-> key,
   source |-> findings[groups[key].findings[1]].source,
   systems |-> groups[key].inOrder,
   count |-> Cardinality(groups[key].systems),
   evidence |-> Len(groups[key].findings),
   sources |-> Sources(groups[key].findings)]
ReportSet == {Reported(c, key) : c \in Correlations, key \in Keys}

\* The rule at j was tried with key.
Tried(j, key) == j < at[1] \/ (j = at[1] /\ key \in visited)

\* What was tried and qualifies is reported once, and nothing else is.
OnlyQualified ==
  \A i \in 1..Len(correlated) : \E j \in 1..Len(correlations), key \in DOMAIN groups :
    Tried(j, key) /\ Qualifies(correlations[j], key) /\ correlated[i] = Reported(correlations[j], key)
AllQualified ==
  \A j \in 1..Len(correlations), key \in DOMAIN groups : Tried(j, key) /\ Qualifies(correlations[j], key) =>
    \E i \in 1..Len(correlated) : correlated[i].rule = correlations[j] /\ correlated[i].key = key
OnceListed ==
  \A i, j \in 1..Len(correlated) :
    correlated[i].rule = correlated[j].rule /\ correlated[i].key = correlated[j].key => i = j
Listed == correlated \in Seq(ReportSet) /\ OnlyQualified /\ AllQualified /\ OnceListed

Listing ==
  /\ pc \notin {"correlate", "done"} => correlated = <<>> /\ visited = {}
  /\ pc = "correlate" => at[1] <= Len(correlations) + 1
  /\ pc = "done" => at[1] = Len(correlations) + 1
  /\ pc \in {"correlate", "done"} => Listed

\* Before anything is tried, nothing is reported.
LEMMA NothingListed == (at[1] = 1 /\ visited = {} /\ correlated = <<>> => Listed)'
  <1> SUFFICES ASSUME at'[1] = 1, visited' = {}, correlated' = <<>> PROVE Listed'
    OBVIOUS
  <1>1. \A j \in 1..Len(correlations') : \A key : ~Tried(j, key)'
    BY DEF Tried
  <1>2. correlated' \in Seq(ReportSet') /\ Len(correlated') = 0
    OBVIOUS
  <1>3. 1..Len(correlated') = {}
    BY <1>2
  <1> QED BY <1>1, <1>2, <1>3 DEF Listed, OnlyQualified, AllQualified, OnceListed

\* What a group is reported with depends on the findings and the groups alone.
LEMMA SameReports ==
  ASSUME findings' = findings, groups' = groups
  PROVE  /\ \A c, key : Reported(c, key)' = Reported(c, key)
         /\ \A c, key : Qualifies(c, key)' = Qualifies(c, key)
         /\ ReportSet' = ReportSet
  <1>1. \A fs : Sources(fs)' = Sources(fs)
    BY DEF Sources
  <1>2. \A c, key : Reported(c, key)' = Reported(c, key)
    BY <1>1 DEF Reported
  <1> QED BY <1>2 DEF Qualifies, ReportSet

\* A rule is tried with one more key.
LEMMA CorrelateListed ==
  ASSUME Typed, RulesRead, Listed, Correlate PROVE Listed'
  <1> DEFINE j0 == at[1]
             c0 == correlations[j0]
  <1>1. /\ pc = "correlate" /\ j0 <= Len(correlations)
        /\ UNCHANGED <<at, correlations, findings, groups>>
    BY DEF Correlate, Correlating, ruleset
  <1>2. PICK k0 \in Remaining :
          /\ visited' = visited \cup {k0}
          /\ correlated' = IF ~Qualifies(c0, k0) THEN correlated ELSE Append(correlated, Reported(c0, k0))
    BY DEF Correlate, Reported
  <1>3. /\ k0 \in DOMAIN groups /\ k0 \notin visited /\ k0 \in Keys
    BY DEF Remaining, Typed
  <1>4. j0 \in 1..Len(correlations) /\ c0 \in Correlations /\ correlations \in Seq(Correlations)
    BY <1>1 DEF Typed
  <1>5. \A c, key : Reported(c, key)' = Reported(c, key) /\ Qualifies(c, key)' = Qualifies(c, key)
    BY <1>1, SameReports
  <1>6. ReportSet' = ReportSet
    BY <1>1, SameReports
  <1>7. \A j \in 1..Len(correlations) : \A key : Tried(j, key)' <=> Tried(j, key) \/ (j = j0 /\ key = k0)
    BY <1>1, <1>2 DEF Tried
  <1>8. ~Tried(j0, k0)
    BY <1>3, <1>4 DEF Tried
  <1>9. \A i \in 1..Len(correlated) : ~(correlated[i].rule = c0 /\ correlated[i].key = k0)
    <2> SUFFICES ASSUME NEW i \in 1..Len(correlated), correlated[i].rule = c0, correlated[i].key = k0 PROVE FALSE
      OBVIOUS
    <2>1. PICK j \in 1..Len(correlations), key \in DOMAIN groups :
            Tried(j, key) /\ correlated[i] = Reported(correlations[j], key)
      BY DEF Listed, OnlyQualified
    <2>2. correlations[j] = c0 /\ key = k0
      BY <2>1 DEF Reported
    <2>3. j = j0
      BY <1>4, <2>2 DEF RulesRead, Distinct
    <2> QED BY <1>8, <2>1, <2>2, <2>3
  <1> HIDE DEF c0, j0
  <1>10. PICK L : L = correlated
    OBVIOUS
  <1>11. PICK C : C = correlations
    OBVIOUS
  <1>12. PICK D : D = DOMAIN groups
    OBVIOUS
  <1>13. /\ L \in Seq(ReportSet) /\ Len(L) \in Nat
         /\ \A i \in 1..Len(L) : \E j \in 1..Len(C), key \in D :
              Tried(j, key) /\ Qualifies(C[j], key) /\ L[i] = Reported(C[j], key)
         /\ \A j \in 1..Len(C), key \in D : Tried(j, key) /\ Qualifies(C[j], key) =>
              \E i \in 1..Len(L) : L[i].rule = C[j] /\ L[i].key = key
         /\ \A i, j \in 1..Len(L) : L[i].rule = L[j].rule /\ L[i].key = L[j].key => i = j
    BY <1>10, <1>11, <1>12 DEF Listed, OnlyQualified, AllQualified, OnceListed
  <1> DEFINE Only(M) == \A i \in 1..Len(M) : \E j \in 1..Len(C), key \in D :
                          /\ Tried(j, key) \/ (j = j0 /\ key = k0)
                          /\ Qualifies(C[j], key) /\ M[i] = Reported(C[j], key)
             All(M) == \A j \in 1..Len(C), key \in D :
                         (Tried(j, key) \/ (j = j0 /\ key = k0)) /\ Qualifies(C[j], key) =>
                           \E i \in 1..Len(M) : M[i].rule = C[j] /\ M[i].key = key
             Once(M) == \A i, j \in 1..Len(M) : M[i].rule = M[j].rule /\ M[i].key = M[j].key => i = j
  <1>14. ASSUME NEW M, M = correlated', M \in Seq(ReportSet), Only(M), All(M), Once(M) PROVE Listed'
    <2>1. correlations' = C /\ (DOMAIN groups)' = D
      BY <1>1, <1>11, <1>12
    <2>2. OnlyQualified'
      BY <1>5, <1>7, <1>11, <1>14, <2>1 DEF OnlyQualified
    <2>3. AllQualified'
      BY <1>5, <1>7, <1>11, <1>14, <2>1 DEF AllQualified
    <2>4. OnceListed'
      BY <1>14 DEF OnceListed
    <2> HIDE DEF Only, All, Once
    <2> QED BY <1>6, <1>14, <2>2, <2>3, <2>4 DEF Listed
  <1>15. CASE ~Qualifies(c0, k0)
    <2>1. L = correlated'
      BY <1>2, <1>10, <1>15
    <2>2. ~Qualifies(C[j0], k0)
      BY <1>11, <1>15 DEF c0
    <2>3. Only(L)
      BY <1>13
    <2>4. All(L)
      BY <1>13, <2>2
    <2>5. Once(L)
      BY <1>13
    <2>6. L \in Seq(ReportSet)
      BY <1>13
    <2> HIDE DEF Only, All, Once
    <2> QED BY <1>14, <2>1, <2>3, <2>4, <2>5, <2>6
  <1>16. CASE Qualifies(c0, k0)
    <2> DEFINE r == Reported(c0, k0)
               n == Len(L)
               M == Append(L, r)
    <2>1. r \in ReportSet /\ r.rule = c0 /\ r.key = k0
      BY <1>3, <1>4 DEF ReportSet, Reported
    <2>2. M = correlated'
      BY <1>2, <1>10, <1>16
    <2> HIDE DEF r
    <2>3. /\ n \in Nat /\ M \in Seq(ReportSet) /\ Len(M) = n + 1 /\ M[n + 1] = r
          /\ \A i \in 1..n : M[i] = L[i]
      BY <1>13, <2>1
    <2> HIDE DEF M, n
    <2>4. n + 1 \in 1..(n + 1) /\ \A i : i \in 1..(n + 1) <=> i = n + 1 \/ i \in 1..n
      BY <2>3
    <2>5. j0 \in 1..Len(C) /\ k0 \in D /\ c0 = C[j0]
      BY <1>3, <1>4, <1>11, <1>12 DEF c0
    <2>6. \A i \in 1..n : ~(L[i].rule = c0 /\ L[i].key = k0)
      BY <1>9, <1>10 DEF n
    <2>7. Only(M)
      <3> SUFFICES ASSUME NEW i \in 1..(n + 1)
                   PROVE  \E j \in 1..Len(C), key \in D :
                            /\ Tried(j, key) \/ (j = j0 /\ key = k0)
                            /\ Qualifies(C[j], key) /\ M[i] = Reported(C[j], key)
        BY <2>3
      <3>1. CASE i = n + 1
        BY <1>16, <2>3, <2>5, <3>1 DEF r
      <3>2. CASE i \in 1..n
        BY <1>13, <2>3, <3>2 DEF n
      <3> QED BY <2>4, <3>1, <3>2
    <2>8. All(M)
      <3> SUFFICES ASSUME NEW j \in 1..Len(C), NEW key \in D,
                          Tried(j, key) \/ (j = j0 /\ key = k0), Qualifies(C[j], key)
                   PROVE  \E i \in 1..(n + 1) : M[i].rule = C[j] /\ M[i].key = key
        BY <2>3
      <3>1. CASE Tried(j, key)
        <4>1. PICK i \in 1..n : L[i].rule = C[j] /\ L[i].key = key
          BY <1>13, <3>1 DEF n
        <4> QED BY <2>3, <2>4, <4>1
      <3>2. CASE j = j0 /\ key = k0
        BY <2>1, <2>3, <2>4, <2>5, <3>2
      <3> QED BY <3>1, <3>2
    <2>9. Once(M)
      <3> SUFFICES ASSUME NEW i \in 1..(n + 1), NEW j \in 1..(n + 1), M[i].rule = M[j].rule, M[i].key = M[j].key
                   PROVE  i = j
        BY <2>3
      <3>1. \A a, b \in 1..n : L[a].rule = L[b].rule /\ L[a].key = L[b].key => a = b
        BY <1>13 DEF n
      <3> QED BY <2>1, <2>3, <2>4, <2>6, <3>1
    <2>10. M \in Seq(ReportSet)
      BY <2>3
    <2> HIDE DEF Only, All, Once
    <2> QED BY <1>14, <2>2, <2>7, <2>8, <2>9, <2>10
  <1> QED BY <1>15, <1>16

\* The list stays right while the same was tried.
LEMMA ListedStays ==
  ASSUME Listed, UNCHANGED <<correlations, findings, groups, correlated>>,
         \A j \in 1..Len(correlations), key \in DOMAIN groups : Tried(j, key)' <=> Tried(j, key)
  PROVE  Listed'
  <1>1. \A c, key : Reported(c, key)' = Reported(c, key) /\ Qualifies(c, key)' = Qualifies(c, key)
    BY SameReports
  <1>2. ReportSet' = ReportSet
    BY SameReports
  <1>3. PICK C : C = correlations
    OBVIOUS
  <1>4. PICK D : D = DOMAIN groups
    OBVIOUS
  <1>5. correlations' = C /\ (DOMAIN groups)' = D
    BY <1>3, <1>4
  <1>6. OnlyQualified'
    BY <1>1, <1>3, <1>4, <1>5 DEF Listed, OnlyQualified
  <1>7. AllQualified'
    BY <1>1, <1>3, <1>4, <1>5 DEF Listed, AllQualified
  <1>8. OnceListed'
    BY DEF Listed, OnceListed
  <1> QED BY <1>2, <1>6, <1>7, <1>8 DEF Listed

\* The next rule is taken up only when every key was tried with this one.
LEMMA NextCorrelationListed ==
  ASSUME Typed, Listed, NextCorrelation PROVE Listed'
  <1>1. /\ at'[1] = at[1] + 1 /\ at[1] \in Nat \ {0} /\ visited' = {} /\ DOMAIN groups = visited
        /\ UNCHANGED <<correlations, findings, groups, correlated>>
    BY DEF NextCorrelation, Remaining, Typed, ruleset
  <1>2. \A j \in 1..Len(correlations), key \in DOMAIN groups : Tried(j, key)' <=> Tried(j, key)
    <2> SUFFICES ASSUME NEW j \in 1..Len(correlations), NEW key \in DOMAIN groups
                 PROVE  Tried(j, key)' <=> Tried(j, key)
      OBVIOUS
    <2>1. Tried(j, key)' <=> j < at[1] + 1
      BY <1>1 DEF Tried
    <2>2. Tried(j, key) <=> j < at[1] \/ j = at[1]
      BY <1>1 DEF Tried
    <2>3. j \in Int
      OBVIOUS
    <2> QED BY <1>1, <2>1, <2>2, <2>3
  <1> QED BY <1>1, <1>2, ListedStays

LEMMA ListingKept == Typed /\ RulesRead /\ Listing /\ [Next]_vars => Listing'
  <1> SUFFICES ASSUME Typed, RulesRead, Listing, [Next]_vars PROVE Listing'
    OBVIOUS
  <1>1. CASE Correlate
    <2>1. pc = "correlate" /\ UNCHANGED <<pc, at, correlations>>
      BY <1>1 DEF Correlate, Correlating, ruleset
    <2>2. Listed'
      BY <1>1, <2>1, CorrelateListed DEF Listing
    <2> QED BY <2>1, <2>2 DEF Listing
  <1>2. CASE NextCorrelation
    <2>1. /\ pc = "correlate" /\ UNCHANGED <<pc, correlations>> /\ at'[1] = at[1] + 1
          /\ at[1] <= Len(correlations) /\ at[1] \in Nat /\ Len(correlations) \in Nat
      BY <1>2 DEF NextCorrelation, Correlating, ruleset, Typed
    <2>2. Listed'
      BY <1>2, <2>1, NextCorrelationListed DEF Listing
    <2> QED BY <2>1, <2>2 DEF Listing
  <1>3. ASSUME UNCHANGED <<at, correlations, findings, groups, visited, correlated>>, Listed PROVE Listed'
    <2>1. \A j, key : Tried(j, key)' <=> Tried(j, key)
      BY <1>3 DEF Tried
    <2> QED BY <1>3, <2>1, ListedStays
  <1>4. CASE Finish
    <2>1. /\ pc = "correlate" /\ pc' = "done" /\ at[1] > Len(correlations) /\ at[1] \in Nat /\ Len(correlations) \in Nat
          /\ UNCHANGED <<at, correlations, findings, groups, visited, correlated>>
      BY <1>4 DEF Finish, Correlating, Typed, ruleset
    <2>2. Listed'
      BY <1>3, <2>1 DEF Listing
    <2> QED BY <2>1, <2>2 DEF Listing
  <1>5. CASE UNCHANGED vars
    <2>1. UNCHANGED <<pc, at, correlations, findings, groups, visited, correlated>>
      BY <1>5 DEF vars, ruleset
    <2>2. Listed => Listed'
      BY <1>3, <2>1
    <2> QED BY <2>1, <2>2 DEF Listing
  <1>6. CASE StartGroups \/ StartCorrelation
    <2>1. /\ pc \notin {"correlate", "done"} /\ UNCHANGED <<correlations, visited, correlated>>
          /\ at'[1] = 1 /\ (pc' = "done" => correlations = <<>>) /\ Len(correlations) \in Nat
      BY <1>6 DEF StartGroups, StartCorrelation, Typed, ruleset
    <2>2. correlated' = <<>> /\ visited' = {}
      BY <2>1 DEF Listing
    <2>3. Listed'
      BY <2>1, <2>2, NothingListed
    <2>4. at'[1] <= Len(correlations') + 1 /\ (pc' = "done" => at'[1] = Len(correlations') + 1)
      BY <2>1
    <2> QED BY <2>2, <2>3, <2>4 DEF Listing
  <1>7. ASSUME pc \notin {"correlate", "done"}, pc' \notin {"correlate", "done"}, UNCHANGED <<visited, correlated>>
        PROVE  Listing'
    BY <1>7 DEF Listing
  <1>8. CASE LoadBundle \/ RefuseBundle \/ ReadFile \/ RefuseFile \/ StartParsing
    BY <1>7, <1>8 DEF LoadBundle, RefuseBundle, ReadFile, RefuseFile, StartParsing
  <1>9. CASE ParseCollection \/ StartAnalysis \/ NotBound \/ Evaluate \/ GroupFinding
    BY <1>7, <1>9 DEF ParseCollection, StartAnalysis, NotBound, Evaluate, Analyzing, GroupFinding
  <1> QED BY <1>1, <1>2, <1>4, <1>5, <1>6, <1>8, <1>9 DEF Next

\* A group that qualifies is one whose findings prove the correlation.
LEMMA QualifiesWhenProven ==
  ASSUME Typed, Exact(Len(findings)), NEW c, NEW key \in Keys
  PROVE  Proven(c, key) <=> key \in DOMAIN groups /\ Qualifies(c, key)
  <1> DEFINE E == Evidence(key, Len(findings))
             g == groups[key]
  <1>1. CASE key \in DOMAIN groups
    <2>1. g.systems = SystemsOf(E) /\ Elements(g.findings) = E /\ g.findings # <<>> /\ g.findings \in Seq(Nat)
      BY <1>1 DEF Exact, GroupIs, Typed, GroupSet
    <2> HIDE DEF E, g
    <2>2. g.findings[1] \in E
      <3>1. 1 \in DOMAIN g.findings
        BY <2>1
      <3> QED BY <2>1, <3>1 DEF Elements
    <2>3. SystemsOf(E) # {}
      BY <2>2 DEF SystemsOf
    <2> QED BY <1>1, <2>1, <2>3 DEF Proven, Qualifies, E, g
  <1>2. CASE key \notin DOMAIN groups
    <2>1. E = {}
      BY <1>2 DEF Exact
    <2>2. SystemsOf(E) = {}
      BY <2>1 DEF SystemsOf
    <2> QED BY <1>2, <2>2 DEF Proven
  <1> QED BY <1>1, <1>2

\* What is right about a report, and what is reported of a group that is exact.
ReportIs(r, evidence) ==
  /\ r.count = Len(r.systems) /\ Elements(r.systems) = SystemsOf(evidence)
  /\ r.evidence = Cardinality(evidence)
  /\ Elements(r.sources) = {findings[f].source : f \in evidence}
  /\ Distinct(r.sources) /\ r.source = r.sources[1]

LEMMA ReportedIs ==
  ASSUME Typed, NEW c, NEW key \in DOMAIN groups, NEW n \in Nat, n <= Len(findings),
         GroupIs(groups[key], key, n), groups[key].findings # <<>>
  PROVE  ReportIs(Reported(c, key), Evidence(key, n))
  <1> DEFINE g == groups[key]
             E == Evidence(key, n)
             r == Reported(c, key)
             fs == g.findings
  <1>1. /\ fs \in Seq(Nat) /\ g.inOrder \in Seq(ValuesOf[System])
        /\ Elements(fs) = E /\ Increasing(fs) /\ g.systems = SystemsOf(E)
        /\ Elements(g.inOrder) = g.systems /\ Distinct(g.inOrder) /\ fs # <<>>
    BY DEF GroupIs, Typed, GroupSet
  <1>2. /\ r.systems = g.inOrder /\ r.count = Cardinality(g.systems) /\ r.evidence = Len(fs)
        /\ r.sources = Sources(fs) /\ r.source = SourceAt(fs, 1)
    BY DEF Reported, SourceAt
  <1>3. \A i \in E : findings[i].source \in Rule
    <2>1. Len(findings) \in Nat /\ \A i \in 1..Len(findings) : findings[i].source \in Rule
      BY DEF Typed, FindingType, Rule
    <2> QED BY <2>1 DEF Evidence
  <1> HIDE DEF g, E, r
  <1>4. r.count = Len(r.systems)
    <2>1. PICK s \in Seq(ValuesOf[System]) : s = g.inOrder
      BY <1>1
    <2>2. Cardinality(Elements(s)) = Len(s)
      BY <1>1, <2>1, CountedOnce
    <2> QED BY <1>1, <1>2, <2>1, <2>2
  <1> HIDE DEF fs
  <1>5. Distinct(fs)
    <2>1. \A i, j \in DOMAIN fs : i \in Int /\ j \in Int /\ fs[i] \in Int /\ fs[j] \in Int
      BY <1>1
    <2>2. \A i, j \in DOMAIN fs : i < j => fs[i] < fs[j]
      BY <1>1 DEF Increasing
    <2> SUFFICES ASSUME NEW i \in DOMAIN fs, NEW j \in DOMAIN fs, fs[i] = fs[j] PROVE i = j
      BY DEF Distinct
    <2>3. i \in Int /\ j \in Int /\ fs[i] \in Int /\ fs[j] \in Int
      BY <2>1
    <2>4. ~(i < j) /\ ~(j < i)
      BY <2>2, <2>3
    <2> QED BY <2>3, <2>4
  <1>6. r.evidence = Cardinality(E)
    BY <1>1, <1>2, <1>5, CountedOnce
  <1>7. \A j \in DOMAIN fs : SourceAt(fs, j) \in Rule
    BY <1>1, <1>3 DEF SourceAt, Elements
  <1>8. /\ Elements(r.sources) = {SourceAt(fs, j) : j \in DOMAIN fs} /\ Distinct(r.sources)
        /\ r.source = r.sources[1]
    BY <1>1, <1>2, <1>7, SourcesRead
  <1>9. Elements(r.sources) = {findings[f].source : f \in E}
    BY <1>1, <1>8 DEF SourceAt, Elements
  <1> QED BY <1>1, <1>2, <1>4, <1>6, <1>8, <1>9 DEF ReportIs, r, E

\* The rules of all the files, and only they, are tried.
LEMMA LoadedAreRead ==
  ASSUME Typed, RulesRead, pc = "done" PROVE Elements(correlations) = Loaded
  <1>1. files \in Seq(FileSet) /\ Elements(correlations) = RulesOf(Len(files))
    BY InputTyped DEF RulesRead, Typed, files
  <1>2. DOMAIN files = 1..Len(files)
    BY <1>1
  <1>3. \A k \in DOMAIN files : Elements(files[k].correlations) \subseteq Correlations
    <2> SUFFICES ASSUME NEW k \in DOMAIN files PROVE Elements(files[k].correlations) \subseteq Correlations
      OBVIOUS
    <2>1. files[k].correlations \in Seq(Correlations)
      BY <1>1, FileTyped
    <2> QED BY <2>1 DEF Elements
  <1> QED BY <1>1, <1>2, <1>3 DEF RulesOf, Loaded

\* When the analysis is done every rule was tried with every key.
LEMMA AllTried ==
  ASSUME Typed, Listing, pc = "done", NEW j \in 1..Len(correlations), NEW key PROVE Tried(j, key)
  <1>1. at[1] = Len(correlations) + 1 /\ Len(correlations) \in Nat /\ j <= Len(correlations) /\ j \in Nat
    BY DEF Listing, Typed
  <1> QED BY <1>1 DEF Tried

Correlated == Typed /\ RulesRead /\ Grouping /\ Listing

LEMMA CorrelatedRight == Correlated => CorrelationsAreRight
  <1> SUFFICES ASSUME Typed, RulesRead, Grouping, Listing, pc = "done" PROVE CorrelationsAreRight
    BY DEF Correlated, CorrelationsAreRight
  <1>1. Elements(correlations) = Loaded /\ DOMAIN correlations = 1..Len(correlations)
    BY LoadedAreRead DEF Typed
  <1>2. /\ Listed /\ correlated \in Seq(ReportSet) /\ DOMAIN correlated = 1..Len(correlated)
    BY DEF Listing, Listed
  <1>3. /\ \A i \in DOMAIN correlated : \E j \in DOMAIN correlations, key \in DOMAIN groups :
             Qualifies(correlations[j], key) /\ correlated[i] = Reported(correlations[j], key)
        /\ \A i, j \in DOMAIN correlated :
             correlated[i].rule = correlated[j].rule /\ correlated[i].key = correlated[j].key => i = j
    <2>1. ASSUME NEW i \in DOMAIN correlated
          PROVE  \E j \in DOMAIN correlations, key \in DOMAIN groups :
                   Qualifies(correlations[j], key) /\ correlated[i] = Reported(correlations[j], key)
      <3>1. i \in 1..Len(correlated)
        BY <1>2
      <3>2. PICK j \in 1..Len(correlations), key \in DOMAIN groups :
              Qualifies(correlations[j], key) /\ correlated[i] = Reported(correlations[j], key)
        BY <1>2, <3>1 DEF Listed, OnlyQualified
      <3>3. j \in DOMAIN correlations
        BY <1>1
      <3> QED BY <3>2, <3>3
    <2>2. ASSUME NEW i \in DOMAIN correlated, NEW j \in DOMAIN correlated,
                 correlated[i].rule = correlated[j].rule, correlated[i].key = correlated[j].key
          PROVE  i = j
      <3>1. i \in 1..Len(correlated) /\ j \in 1..Len(correlated)
        BY <1>2
      <3> QED BY <1>2, <2>2, <3>1 DEF Listed, OnceListed
    <2> QED BY <2>1, <2>2
  <1>4. ASSUME NEW j \in DOMAIN correlations, NEW key \in DOMAIN groups, Qualifies(correlations[j], key)
        PROVE  \E i \in DOMAIN correlated : correlated[i].rule = correlations[j] /\ correlated[i].key = key
    <2>1. j \in 1..Len(correlations)
      BY <1>1
    <2>2. Tried(j, key)
      BY <2>1, AllTried
    <2>3. PICK i \in 1..Len(correlated) : correlated[i].rule = correlations[j] /\ correlated[i].key = key
      BY <1>2, <1>4, <2>1, <2>2 DEF Listed, AllQualified
    <2>4. i \in DOMAIN correlated
      BY <1>2
    <2> QED BY <2>3, <2>4
  <1>5. ASSUME NEW j \in DOMAIN correlations PROVE Exact(Len(findings))
    <2>1. correlations # <<>>
      BY <1>5
    <2> QED BY <2>1 DEF Grouping
  <1>6. DOMAIN groups \subseteq Keys
    BY DEF Typed
  <1>7. \A c, key : Reported(c, key).rule = c /\ Reported(c, key).key = key
    BY DEF Reported
  <1>8. ASSUME NEW c \in Loaded, NEW key \in Keys
        PROVE  Proven(c, key) <=> \E i \in DOMAIN correlated : correlated[i].rule = c /\ correlated[i].key = key
    <2>1. PICK j \in DOMAIN correlations : c = correlations[j]
      BY <1>1 DEF Elements
    <2>2. Proven(c, key) <=> key \in DOMAIN groups /\ Qualifies(c, key)
      BY <1>5, QualifiesWhenProven
    <2>3. ASSUME key \in DOMAIN groups, Qualifies(c, key)
          PROVE  \E i \in DOMAIN correlated : correlated[i].rule = c /\ correlated[i].key = key
      BY <1>4, <2>1, <2>3
    <2>4. ASSUME NEW i \in DOMAIN correlated, correlated[i].rule = c, correlated[i].key = key
          PROVE  key \in DOMAIN groups /\ Qualifies(c, key)
      BY <1>3, <1>7, <2>4
    <2> QED BY <2>2, <2>3, <2>4
  <1>9. ASSUME NEW i \in DOMAIN correlated
        PROVE  ReportIs(correlated[i], Evidence(correlated[i].key, Len(findings)))
    <2>1. PICK j \in DOMAIN correlations, key \in DOMAIN groups : correlated[i] = Reported(correlations[j], key)
      BY <1>3
    <2>2. GroupIs(groups[key], key, Len(findings)) /\ groups[key].findings # <<>>
      BY <1>5, <1>6 DEF Exact
    <2>3. Len(findings) \in Nat /\ Len(findings) <= Len(findings)
      BY DEF Typed
    <2> QED BY <1>7, <2>1, <2>2, <2>3, ReportedIs
  <1> QED BY <1>3, <1>8, <1>9 DEF CorrelationsAreRight, ReportIs

LEMMA CorrelatedFirst == Init => Correlated
  <1> SUFFICES ASSUME Init PROVE Correlated
    OBVIOUS
  <1>1. Typed
    BY TypedFirst
  <1>2. RulesRead
    BY DEF Init, RulesRead, Distinct
  <1> QED BY <1>1, <1>2 DEF Correlated, Init, Grouping, Listing

LEMMA CorrelatedNext == Correlated /\ [Next]_vars => Correlated'
  BY TypedNext, RulesReadKept, GroupingKept, ListingKept DEF Correlated

\* When the analysis is done, a correlation is reported for exactly what the
\* findings prove, once for a rule and a key, with the systems, the counts and
\* the sources behind it, whatever the files hold and the records are.
THEOREM CorrelationsReported == Spec => []CorrelationsAreRight
  <1>1. Correlated => CorrelationsAreRight
    BY CorrelatedRight
  <1> QED BY <1>1, CorrelatedFirst, CorrelatedNext, PTL DEF Spec

\* Every variable has its type, the groups and what is reported included.
THEOREM TypeCorrect == Spec => []TypeOK
  <1>1. Init => Metadata
    <2> SUFFICES ASSUME Init PROVE Metadata
      OBVIOUS
    <2>1. IsList(bundle.collections)
      BY InputTyped DEF Init, bundle
    <2> QED BY <2>1 DEF Init, Metadata, IsList
  <1>2. Correlated /\ Metadata => TypeOK
    <2> SUFFICES ASSUME Typed, Listing, Metadata PROVE TypeOK
      BY DEF Correlated
    <2>1. \A i \in 1..Len(correlated) : correlated[i].rule \in Correlations /\ correlated[i].key \in Keys
      <3>1. CASE pc \notin {"correlate", "done"}
        BY <3>1 DEF Listing
      <3>2. CASE pc \in {"correlate", "done"}
        BY <3>2 DEF Listing, Listed, ReportSet, Reported
      <3> QED BY <3>1, <3>2
    <2> QED BY <2>1, TypeShown
  <1>3. Typed /\ Metadata /\ [Next]_vars => Metadata'
    BY MetadataKept
  <1>4. Correlated => Typed
    BY DEF Correlated
  <1> QED BY <1>1, <1>2, <1>3, <1>4, CorrelatedFirst, CorrelatedNext, PTL DEF Spec

=============================================================================
