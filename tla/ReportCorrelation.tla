-------------------------- MODULE ReportCorrelation --------------------------
(* How the records of a bundle become reports.

   A program loads a bundle, the message rules (RuleLoading) and, file by file,
   the report and correlation rules.  IngestionPipeline::process then parses the
   collections of the bundle one after the other and hands the results of all of
   them to ReportAnalyzer::analyze.  The analyzer evaluates every report rule
   against every result, groups what it found by source address and attack
   family, and reports a group once more for every correlation rule whose systems
   it has.

   A record is abstracted to the message rule that takes it; what the
   expressions of a report rule give for it is a choice among Outcomes.  What is
   printed in the end is in ReportPrinting.                                  *)
EXTENDS Naturals, Sequences, FiniteSets, BundleLoading

CONSTANTS MessageRules,      \* ids of message rules
          NoMessageRule,     \* the id a result has that no rule took: empty
          Inputs,            \* what may be loaded: a bundle, and files of rules
          Reports,           \* the report rules of the files
          BindingsOf,        \* BindingsOf[r]: the message rules r is bound to
          Names,             \* names of report properties
          ValuesOf,          \* ValuesOf[n]: the values property n may have
          EarlyNames,        \* the names that sort before "report."
          Outcomes,          \* what a report rule may evaluate to
          Correlations,      \* the correlation rules of the files
          FamilyOf,          \* FamilyOf[c]: the attack family of c
          MinSystemsOf,      \* MinSystemsOf[c]: min_distinct_systems, if c has it
          RequiredOf,        \* RequiredOf[c]: the systems c asks for
          KeysBefore         \* KeysBefore[k]: the keys that sort before k

(* The properties of a group's key, and the one it counts.                    *)
SourceIp == "source.ip"
AttackFamily == "attack.family"
System == "system"
Keys == ValuesOf[SourceIp] \X ValuesOf[AttackFamily]

\* A rule has one place, in one file.
IsFiles(files) ==
  /\ files \in Seq([complete: BOOLEAN, reports: Seq(Reports), correlations: Seq(Correlations)])
  /\ \A f, g \in DOMAIN files :
       \A j \in DOMAIN files[f].correlations, k \in DOMAIN files[g].correlations :
         files[f].correlations[j] = files[g].correlations[k] => f = g /\ j = k

CorrelationAssumption ==
  /\ \A i \in Inputs :
       /\ IsBundle(i.bundle) /\ IsFiles(i.files)
       /\ \A k \in DOMAIN i.bundle.collections :
            i.bundle.collections[k].records \in Seq(MessageRules \cup {NoMessageRule})
  /\ NoMessageRule \notin MessageRules
  /\ BindingsOf \in [Reports -> SUBSET MessageRules]
  /\ {SourceIp, AttackFamily, System} \subseteq Names
  /\ EarlyNames \subseteq Names
  /\ \A o \in Outcomes :
       /\ o.failed \in BOOLEAN
       /\ DOMAIN o.plain \subseteq Names /\ DOMAIN o.report \subseteq Names
       /\ \A n \in DOMAIN o.plain : o.plain[n] \in ValuesOf[n]
       /\ \A n \in DOMAIN o.report : o.report[n] \in ValuesOf[n]
  /\ FamilyOf \in [Correlations -> ValuesOf[AttackFamily]]
  /\ DOMAIN MinSystemsOf \subseteq Correlations /\ \A c \in DOMAIN MinSystemsOf : MinSystemsOf[c] \in Nat
  /\ RequiredOf \in [Correlations -> SUBSET ValuesOf[System]]
  /\ KeysBefore \in [Keys -> SUBSET Keys]
  /\ \A k \in Keys : k \notin KeysBefore[k] /\ \A l \in KeysBefore[k] : KeysBefore[l] \subseteq KeysBefore[k]
  /\ \A k, l \in Keys : k # l => k \in KeysBefore[l] \/ l \in KeysBefore[k]
ASSUME CorrelationAssumption

VARIABLES input,       \* the bundle and the files of rules that are loaded
          pc,          \* "bundle", "rules", "parse", "analyze", "group",
                       \* "correlate" or "done", or "refused"
          reports,     \* the report rules, in the order they were loaded
          correlations, \* the correlation rules
          contexts,    \* per collection that is parsed, its metadata
          parsed,      \* all_parsed: the message rule of every result
          at,          \* where the loops stand: <<outer, inner>>
          findings,    \* the findings of the report rules
          groups,      \* Group per key of a finding
          visited,     \* the keys the correlation rule was tried with
          correlated   \* the findings of the correlation rules

ruleset == <<reports, correlations>>
vars == <<input, pc, ruleset, contexts, parsed, at, findings, groups, visited, correlated>>

Init ==
  /\ input \in Inputs
  /\ pc = "bundle" /\ reports = <<>> /\ correlations = <<>>
  /\ contexts = <<>> /\ parsed = <<>> /\ at = <<1, 1>>
  /\ findings = <<>> /\ groups = <<>> /\ visited = {} /\ correlated = <<>>

-----------------------------------------------------------------------------
(* The bundle and the rules                                                  *)

bundle == input.bundle
files == input.files

LoadBundle ==
  /\ pc = "bundle" /\ Accepted(bundle)
  /\ pc' = "rules"
  /\ UNCHANGED <<input, ruleset, contexts, parsed, at, findings, groups, visited, correlated>>

RefuseBundle ==
  /\ pc = "bundle" /\ ~Accepted(bundle)
  /\ pc' = "refused"
  /\ UNCHANGED <<input, ruleset, contexts, parsed, at, findings, groups, visited, correlated>>

ReadFile ==
  /\ pc = "rules" /\ at[1] <= Len(files) /\ files[at[1]].complete
  /\ reports' = reports \o files[at[1]].reports
  /\ correlations' = correlations \o files[at[1]].correlations
  /\ at' = <<at[1] + 1, 1>>
  /\ UNCHANGED <<input, pc, contexts, parsed, findings, groups, visited, correlated>>

\* A rule without a field it must have ends the program.
RefuseFile ==
  /\ pc = "rules" /\ at[1] <= Len(files) /\ ~files[at[1]].complete
  /\ pc' = "refused"
  /\ UNCHANGED <<input, ruleset, contexts, parsed, at, findings, groups, visited, correlated>>

StartParsing ==
  /\ pc = "rules" /\ at[1] > Len(files)
  /\ pc' = "parse" /\ at' = <<1, 1>>
  /\ UNCHANGED <<input, ruleset, contexts, parsed, findings, groups, visited, correlated>>

-----------------------------------------------------------------------------
(* The pipeline                                                              *)

ParseCollection ==
  /\ pc = "parse" /\ at[1] <= Len(bundle.collections)
  /\ LET c == bundle.collections[at[1]]
     IN /\ contexts' = Append(contexts, ContextOf(bundle, c))
        /\ parsed' = parsed \o c.records
  /\ at' = <<at[1] + 1, 1>>
  /\ UNCHANGED <<input, pc, ruleset, findings, groups, visited, correlated>>

StartAnalysis ==
  /\ pc = "parse" /\ at[1] > Len(bundle.collections)
  /\ pc' = "analyze" /\ at' = <<1, 1>>
  /\ UNCHANGED <<input, ruleset, contexts, parsed, findings, groups, visited, correlated>>

-----------------------------------------------------------------------------
(* Every report rule against every result                                    *)

result == parsed[at[1]]
NextRule == IF at[2] < Len(reports) THEN <<at[1], at[2] + 1>> ELSE <<at[1] + 1, 1>>
Analyzing == pc = "analyze" /\ at[1] <= Len(parsed) /\ at[2] <= Len(reports)
rule == reports[at[2]]

\* A rule without bindings is bound to every result, matched or not.
IsBound == BindingsOf[rule] = {} \/ result \in BindingsOf[rule]

\* normalize_report_property_name takes "report." off a name; of two names that
\* become one, the one the map holds later stays.
Normalized(o) ==
  [n \in DOMAIN o.plain \cup DOMAIN o.report |->
     IF n \in DOMAIN o.report /\ (n \in EarlyNames \/ n \notin DOMAIN o.plain)
     THEN o.report[n] ELSE o.plain[n]]

NotBound ==
  /\ Analyzing /\ ~IsBound
  /\ at' = NextRule
  /\ UNCHANGED <<input, pc, ruleset, contexts, parsed, findings, groups, visited, correlated>>

\* Mutant: a finding without properties is kept.
EvaluateEvenEmpty ==
  /\ Analyzing /\ IsBound
  /\ \E o \in Outcomes :
       findings' = IF o.failed THEN findings
                   ELSE Append(findings, [rule |-> rule, source |-> result,
                                          properties |-> Normalized(o)])
  /\ at' = NextRule
  /\ UNCHANGED <<input, pc, ruleset, contexts, parsed, groups, visited, correlated>>

\* One error of one expression, or no property at all, and there is no finding.
Evaluate ==
  /\ Analyzing /\ IsBound
  /\ \E o \in Outcomes :
       findings' = IF o.failed \/ DOMAIN Normalized(o) = {} THEN findings
                   ELSE Append(findings, [rule |-> rule, source |-> result,
                                          properties |-> Normalized(o)])
  /\ at' = NextRule
  /\ UNCHANGED <<input, pc, ruleset, contexts, parsed, groups, visited, correlated>>

StartGroups ==
  /\ pc = "analyze" /\ ~Analyzing
  /\ pc' = IF correlations = <<>> THEN "done" ELSE "group"
  /\ at' = <<1, 1>>
  /\ UNCHANGED <<input, ruleset, contexts, parsed, findings, groups, visited, correlated>>

-----------------------------------------------------------------------------
(* Groups of findings with one source and one family                         *)

HasKey(f) == {SourceIp, AttackFamily, System} \subseteq DOMAIN f.properties
KeyOf(f) == <<f.properties[SourceIp], f.properties[AttackFamily]>>

NoGroup == [findings |-> <<>>, systems |-> {}, inOrder |-> <<>>]
GroupOf(key) == IF key \in DOMAIN groups THEN groups[key] ELSE NoGroup

Grown(group, i) ==
  LET system == findings[i].properties[System]
  IN [findings |-> Append(group.findings, i),
      systems |-> group.systems \cup {system},
      inOrder |-> IF system \in group.systems THEN group.inOrder
                  ELSE Append(group.inOrder, system)]

GroupFinding ==
  /\ pc = "group" /\ at[1] <= Len(findings)
  /\ LET f == findings[at[1]]
     IN groups' = IF HasKey(f)
                  THEN [k \in DOMAIN groups \cup {KeyOf(f)} |->
                          IF k = KeyOf(f) THEN Grown(GroupOf(k), at[1]) ELSE groups[k]]
                  ELSE groups
  /\ at' = <<at[1] + 1, 1>>
  /\ UNCHANGED <<input, pc, ruleset, contexts, parsed, findings, visited, correlated>>

StartCorrelation ==
  /\ pc = "group" /\ at[1] > Len(findings)
  /\ pc' = "correlate" /\ at' = <<1, 1>>
  /\ UNCHANGED <<input, ruleset, contexts, parsed, findings, groups, visited, correlated>>

-----------------------------------------------------------------------------
(* Every correlation rule against every group, by key                        *)

Correlating == pc = "correlate" /\ at[1] <= Len(correlations)
Remaining == DOMAIN groups \ visited

MinSystems(c) == IF c \in DOMAIN MinSystemsOf THEN MinSystemsOf[c] ELSE 2

\* Mutant: findings are counted where systems are meant.
QualifiesByFindings(c, key) ==
  /\ key \in DOMAIN groups
  /\ key[2] = FamilyOf[c]
  /\ Len(groups[key].findings) >= MinSystems(c)
  /\ RequiredOf[c] \subseteq groups[key].systems

Qualifies(c, key) ==
  /\ key \in DOMAIN groups
  /\ key[2] = FamilyOf[c]
  /\ Cardinality(groups[key].systems) >= MinSystems(c)
  /\ RequiredOf[c] \subseteq groups[key].systems

\* The sources of the findings fs, each once, where it first occurs.
Sources(fs) ==
  LET Firsts[i \in 0..Len(fs)] ==
        IF i = 0 THEN <<>>
        ELSE IF \E j \in 1..(i - 1) : findings[fs[j]].source = findings[fs[i]].source
             THEN Firsts[i - 1]
             ELSE Append(Firsts[i - 1], findings[fs[i]].source)
  IN Firsts[Len(fs)]

Correlate ==
  /\ Correlating
  /\ \E key \in Remaining :
       /\ KeysBefore[key] \cap Remaining = {}
       /\ visited' = visited \cup {key}
       /\ correlated' = IF ~Qualifies(correlations[at[1]], key) THEN correlated
            ELSE Append(correlated,
                   [rule |-> correlations[at[1]], key |-> key,
                    source |-> findings[groups[key].findings[1]].source,
                    systems |-> groups[key].inOrder,
                    count |-> Cardinality(groups[key].systems),
                    evidence |-> Len(groups[key].findings),
                    sources |-> Sources(groups[key].findings)])
  /\ UNCHANGED <<input, pc, ruleset, contexts, parsed, at, findings, groups>>

NextCorrelation ==
  /\ Correlating /\ Remaining = {}
  /\ at' = <<at[1] + 1, 1>> /\ visited' = {}
  /\ UNCHANGED <<input, pc, ruleset, contexts, parsed, findings, groups, correlated>>

\* The reports are the findings and, after them, the correlated ones.
Finish ==
  /\ pc = "correlate" /\ ~Correlating
  /\ pc' = "done"
  /\ UNCHANGED <<input, ruleset, contexts, parsed, at, findings, groups, visited, correlated>>

Next ==
  \/ LoadBundle \/ RefuseBundle \/ ReadFile \/ RefuseFile \/ StartParsing
  \/ ParseCollection \/ StartAnalysis
  \/ NotBound \/ Evaluate \/ StartGroups
  \/ GroupFinding \/ StartCorrelation
  \/ Correlate \/ NextCorrelation \/ Finish

Spec == Init /\ [][Next]_vars

-----------------------------------------------------------------------------
(* Properties                                                                *)

FindingType(f) ==
  /\ f.rule \in Reports /\ f.source \in MessageRules \cup {NoMessageRule}
  /\ DOMAIN f.properties \subseteq Names /\ DOMAIN f.properties # {}
  /\ \A n \in DOMAIN f.properties : f.properties[n] \in ValuesOf[n]

\* Every variable has its type; a finding names a report rule and a
\* message rule and has a property.
TypeOK ==
  /\ reports \in Seq(Reports) /\ correlations \in Seq(Correlations)
  /\ pc \in {"bundle", "rules", "refused", "parse", "analyze", "group", "correlate", "done"}
  /\ Len(contexts) <= Len(bundle.collections)
  /\ parsed \in Seq(MessageRules \cup {NoMessageRule})
  /\ at \in (Nat \ {0}) \X (Nat \ {0})
  /\ \A i \in 1..Len(findings) : FindingType(findings[i])
  /\ DOMAIN groups \subseteq Keys
  /\ \A k \in DOMAIN groups : groups[k].systems \subseteq ValuesOf[System]
  /\ visited \subseteq DOMAIN groups
  /\ \A i \in 1..Len(correlated) :
       correlated[i].rule \in Correlations /\ correlated[i].key \in Keys

\* The findings of a key, among the first n.
Evidence(key, n) == {i \in 1..n : HasKey(findings[i]) /\ KeyOf(findings[i]) = key}
SystemsOf(is) == {findings[i].properties[System] : i \in is}
Increasing(s) == \A i, j \in DOMAIN s : i < j => s[i] < s[j]
Distinct(s) == \A i, j \in DOMAIN s : s[i] = s[j] => i = j
Elements(s) == {s[i] : i \in DOMAIN s}

Grouped == IF pc = "group" THEN at[1] - 1
           ELSE IF pc \in {"correlate", "done"} THEN Len(findings) ELSE 0

\* A group holds the findings of its key, all of them in their order, and names
\* each of their systems once; there is no group without a finding.
GroupsAreExact ==
  \A k \in Keys :
    IF k \in DOMAIN groups
    THEN /\ Elements(groups[k].findings) = Evidence(k, Grouped)
         /\ Increasing(groups[k].findings)
         /\ groups[k].systems = SystemsOf(Evidence(k, Grouped))
         /\ Elements(groups[k].inOrder) = groups[k].systems
         /\ Distinct(groups[k].inOrder)
         /\ groups[k].findings # <<>>
    ELSE correlations # <<>> => Evidence(k, Grouped) = {}

\* What a bundle proves: enough systems saw the family come from one source,
\* in whichever collections, the required ones among them.
Proven(c, key) ==
  LET systems == SystemsOf(Evidence(key, Len(findings)))
  IN /\ key[2] = FamilyOf[c] /\ systems # {}
     /\ Cardinality(systems) >= MinSystems(c) /\ RequiredOf[c] \subseteq systems

\* The correlation rules of all the files.
Loaded == UNION {Elements(files[k].correlations) : k \in DOMAIN files}

\* When the analysis is done, a correlation is reported for exactly what the
\* findings prove, once for a rule and a key, with the number of distinct systems
\* and of findings behind it, and with their sources, all of them and each once.
CorrelationsAreRight ==
  pc = "done" =>
    /\ \A c \in Loaded : \A key \in Keys :
         Proven(c, key) <=> \E i \in DOMAIN correlated :
                              correlated[i].rule = c /\ correlated[i].key = key
    /\ \A i, j \in DOMAIN correlated :
         correlated[i].rule = correlated[j].rule /\ correlated[i].key = correlated[j].key => i = j
    /\ \A i \in DOMAIN correlated :
         LET r == correlated[i]
             evidence == Evidence(r.key, Len(findings))
         IN /\ r.count = Len(r.systems) /\ Elements(r.systems) = SystemsOf(evidence)
            /\ r.evidence = Cardinality(evidence)
            /\ Elements(r.sources) = {findings[f].source : f \in evidence}
            /\ Distinct(r.sources) /\ r.source = r.sources[1]

\* A collection that is parsed has the metadata it names: an entry for every
\* reference, and never two to choose from; if it names a system, the network
\* and the site are the system's; and whoever the entries are attributed to is
\* an organization of the bundle.
ContextsAgree ==
  \A k \in DOMAIN contexts :
    LET c == bundle.collections[k]
        context == contexts[k]
        IsLed(ref, found, entries) ==
          /\ ref # NoRef => found # {}
          /\ \A x \in found : Cardinality({i \in DOMAIN entries : entries[i].id = ref}) = 1
    IN /\ IsLed(c.system, context.system, bundle.systems)
       /\ IsLed(c.network, context.network, bundle.networks)
       /\ IsLed(c.site, context.site, bundle.sites)
       /\ \A s \in context.system :
            /\ context.network = Found(bundle.networks, s.network)
            /\ context.site = Found(bundle.sites, s.site)
       /\ \A x \in context.system \cup context.network \cup {c} : Elements(x.orgs) \subseteq Ids(bundle.organizations)

=============================================================================
