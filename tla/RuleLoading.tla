---------------------------- MODULE RuleLoading ----------------------------
(* How the message rules of a ParserFramework come about.  load_rules reads the
   files of a directory in the order of their paths, twice: first the rulesets
   of all of them, then their message rules, whose sections name rulesets.
   Anything wrong in a file refuses them all.  A program may add rules of its
   own to those loaded (add_message_rule); those come with their sections
   bound, and theirs alone may bind a mixed section.

   A file is a record of the definitions it holds.  What the engines find in
   the message of an example is part of the example.                         *)
EXTENDS Naturals, Sequences, FiniteSets, PatternRewriting

CONSTANTS Inputs,     \* what may be loaded: files, and the rules added to them
          RuleOf,     \* RuleOf[r]: message rule r
          Sections,   \* the nodes of the section trees
          ChildrenOf, \* ChildrenOf[s]: the child sections, in order
          EngineOf,   \* EngineOf[s]: the parser of s, "mixed" or an engine
          Nameless,   \* the sections without an id, an extract and a ruleset
          RefersTo,   \* RefersTo[s]: the name of a ruleset, or NoRuleset
          Preset,     \* the rulesets of the sections of the added rules
          NoRuleset   \* a name that is missing, or empty

Engines == {"regex", "kv", "json"}

\* A section holds its children, and a rule its sections, as values: a section
\* has one place, in one tree.
TreesAssumption ==
  /\ ChildrenOf \in [Sections -> Seq(Sections)]
  /\ \A s, t \in Sections : \A j \in DOMAIN ChildrenOf[s], k \in DOMAIN ChildrenOf[t] :
       ChildrenOf[s][j] = ChildrenOf[t][k] => s = t /\ j = k
  /\ \A r \in DOMAIN RuleOf :
       LET roots == RuleOf[r].sections IN
         /\ roots \in Seq(Sections)
         /\ \A i, j \in DOMAIN roots : roots[i] = roots[j] => i = j
         /\ \A i \in DOMAIN roots : \A s \in Sections : \A k \in DOMAIN ChildrenOf[s] :
              ChildrenOf[s][k] # roots[i]
ASSUME TreesAssumption

VARIABLES input,  \* the files that are loaded and the rules added to them
          phase,  \* "rulesets", "messages", "loaded" or "refused"
          file,   \* the file that is read
          item,   \* the next definition in it
          known,  \* the rulesets read: name -> ruleset
          rules,  \* the message rules of the framework, in order
          bound   \* the rulesets of their sections

loading == <<input, phase, file, item, known, rules, bound>>

InitLoading ==
  /\ input \in Inputs
  /\ phase = "rulesets" /\ file = 1 /\ item = 1
  /\ known = <<>> /\ rules = <<>> /\ bound = <<>>

Items == IF phase = "rulesets" THEN input.files[file].rulesets
                               ELSE input.files[file].messages
Reading(p) == phase = p /\ file <= Len(input.files) /\ item <= Len(Items)
Entry == Items[item]

NextFile ==
  /\ phase \in {"rulesets", "messages"}
  /\ file <= Len(input.files) /\ item > Len(Items)
  /\ file' = file + 1 /\ item' = 1
  /\ UNCHANGED <<input, phase, known, rules, bound>>

Refuse ==
  /\ phase' = "refused"
  /\ UNCHANGED <<input, file, item, known, rules, bound>>

-----------------------------------------------------------------------------
(* Rulesets                                                                  *)

Agrees(found, expected) ==
  \A n \in DOMAIN expected : n \in DOMAIN found /\ found[n] = expected[n]

\* An example gives a message and what is expected of it; the properties matter
\* only to a ruleset that has some.
ExampleHolds(d, e) ==
  /\ e.given /\ ~e.fails
  /\ Agrees(e.tokens, e.expected) /\ \A n \in e.absent : n \notin DOMAIN e.tokens
  /\ d.assigns # {} => ~e.propertyFails /\ Agrees(e.properties, e.expectedProperties)

RulesetHolds(d) == d.kind \in Engines /\ \A k \in DOMAIN d.examples : ExampleHolds(d, d.examples[k])

\* Mutant: the first ruleset of a name is kept.
KnownOnce(d) ==
  [n \in DOMAIN known \cup {d.name} |-> IF n \in DOMAIN known THEN known[n] ELSE d]

KnownWith(d) ==
  [n \in DOMAIN known \cup {d.name} |-> IF n = d.name THEN d ELSE known[n]]

LoadRuleset ==
  /\ Reading("rulesets") /\ RulesetHolds(Entry)
  /\ known' = KnownWith(Entry) /\ item' = item + 1
  /\ UNCHANGED <<input, phase, file, rules, bound>>

RefuseRuleset == Reading("rulesets") /\ ~RulesetHolds(Entry) /\ Refuse

BeginMessages ==
  /\ phase = "rulesets" /\ file > Len(input.files)
  /\ phase' = "messages" /\ file' = 1
  /\ UNCHANGED <<input, item, known, rules, bound>>

-----------------------------------------------------------------------------
(* Message rules                                                             *)

HoldsChildren(S) == \A s \in S : \A k \in DOMAIN ChildrenOf[s] : ChildrenOf[s][k] \in S

\* A section and what is below it: the least set that has the section and the
\* children of its members.
Subtree ==
  [s \in Sections |->
     {t \in Sections : \A S \in SUBSET Sections : s \in S /\ HoldsChildren(S) => t \in S}]

\* All the sections of a message rule, at whatever depth.
AllSections(r) == UNION {Subtree[RuleOf[r].sections[k]] : k \in DOMAIN RuleOf[r].sections}

\* A section has a name; a mixed one needs children, and whatever ruleset it
\* refers to is ignored.
SectionBinds(s, id) ==
  /\ s \notin Nameless
  /\ IF EngineOf[s] = "mixed" THEN ChildrenOf[s] # <<>>
     ELSE /\ RefersTo[s] # NoRuleset /\ RefersTo[s] \in DOMAIN known
          /\ LET d == known[RefersTo[s]]
             IN d.kind = EngineOf[s] /\ (d.bindings = {} \/ id \in d.bindings)

\* The filters are tried in order up to the one that matches, and none of those
\* tried may fail.
IdentificationHolds(e) ==
  /\ e.given
  /\ \E k \in DOMAIN e.results :
       /\ e.results[k].matches /\ \A j \in 1..(k - 1) : ~e.results[j].matches
       /\ \A j \in 1..k : ~e.results[j].fails
       /\ Agrees(e.results[k].captures, e.expected)

MessageRuleHolds(r) ==
  /\ RuleOf[r].filters # <<>>
  /\ \A k \in DOMAIN RuleOf[r].filters : ~Normalized(RuleOf[r].filters[k]).fails
  /\ RuleOf[r].listsSections
  /\ \A s \in AllSections(r) : SectionBinds(s, RuleOf[r].id)
  /\ \A k \in DOMAIN RuleOf[r].examples : IdentificationHolds(RuleOf[r].examples[k])

Bindings(r) ==
  [s \in {t \in AllSections(r) : EngineOf[t] # "mixed"} |-> known[RefersTo[s]]]

Joined(f, g) == [x \in DOMAIN f \cup DOMAIN g |-> IF x \in DOMAIN f THEN f[x] ELSE g[x]]

LoadMessageRule ==
  /\ Reading("messages") /\ MessageRuleHolds(Entry)
  /\ rules' = Append(rules, Entry) /\ bound' = Joined(Bindings(Entry), bound)
  /\ item' = item + 1
  /\ UNCHANGED <<input, phase, file, known>>

RefuseMessageRule == Reading("messages") /\ ~MessageRuleHolds(Entry) /\ Refuse

\* The rules of the program come after those of the files, of which there is
\* one at least.
FinishLoading ==
  /\ phase = "messages" /\ file > Len(input.files) /\ rules # <<>>
  /\ phase' = "loaded"
  /\ rules' = rules \o input.added /\ bound' = Joined(bound, Preset)
  /\ UNCHANGED <<input, file, item, known>>

RefuseNoRules ==
  phase = "messages" /\ file > Len(input.files) /\ rules = <<>> /\ Refuse

Load ==
  \/ NextFile \/ LoadRuleset \/ RefuseRuleset \/ BeginMessages
  \/ LoadMessageRule \/ RefuseMessageRule \/ FinishLoading \/ RefuseNoRules

-----------------------------------------------------------------------------
(* Properties                                                                *)

\* The places of the definitions in the files, in the order they are read.
Places(kind) ==
  UNION {{<<f, k>> : k \in DOMAIN (input.files[f])[kind]} : f \in DOMAIN input.files}
Definition(kind, place) == ((input.files[place[1]])[kind])[place[2]]
Before(p, q) == p[1] < q[1] \/ (p[1] = q[1] /\ p[2] < q[2])

\* The ruleset a name stands for: the last in the files, wherever the rule
\* that refers to it stands.
Meant(name) ==
  {Definition("rulesets", p) : p \in
     {q \in Places("rulesets") :
        /\ Definition("rulesets", q).name = name
        /\ \A o \in Places("rulesets") :
             Definition("rulesets", o).name = name => o = q \/ Before(o, q)}}

\* A section names a ruleset, even where one has no name.
SectionIsWrong(s, id) ==
  \/ s \in Nameless
  \/ EngineOf[s] = "mixed" /\ ChildrenOf[s] = <<>>
  \/ /\ EngineOf[s] # "mixed"
     /\ \/ RefersTo[s] = NoRuleset
        \/ ~\E d \in Meant(RefersTo[s]) :
              d.kind = EngineOf[s] /\ (d.bindings # {} => id \in d.bindings)

RuleIsWrong(r) ==
  \/ RuleOf[r].filters = <<>>
  \/ \E k \in DOMAIN RuleOf[r].filters : NameIsOpen(RuleOf[r].filters[k])
  \/ ~RuleOf[r].listsSections
  \/ \E s \in AllSections(r) : SectionIsWrong(s, RuleOf[r].id)
  \/ \E k \in DOMAIN RuleOf[r].examples : ~IdentificationHolds(RuleOf[r].examples[k])

FilesAreWrong ==
  \/ Places("messages") = {}
  \/ \E p \in Places("rulesets") : ~RulesetHolds(Definition("rulesets", p))
  \/ \E p \in Places("messages") : RuleIsWrong(Definition("messages", p))

\* Whatever the files divide their definitions into, the framework gets all
\* their message rules or none: none when one definition anywhere is wrong, and
\* else every section gets the last ruleset of its name, from a file read
\* before or after its own.
LoadingFollowsFiles ==
  /\ phase = "refused" => FilesAreWrong
  /\ phase = "loaded" =>
       /\ ~FilesAreWrong
       /\ \A p \in Places("messages") :
            /\ \E k \in DOMAIN rules : rules[k] = Definition("messages", p)
            /\ \A s \in AllSections(Definition("messages", p)) :
                 EngineOf[s] # "mixed" => bound[s] \in Meant(RefersTo[s])

\* What the rewriting of a pattern keeps: each name has its group, and the
\* expression made for the group captures it alone.
KeepsGroups(p) ==
  LET filter == Normalized(p) IN
  /\ Len(filter.captures) = Cardinality(NamedGroups(p))
  /\ \A c \in DOMAIN filter.captures :
       \E i \in NamedGroups(p) :
         /\ filter.captures[c][1] = SubSeq(p, i + 3, NameEnd(p, i) - 1)
         /\ Cardinality({j \in NamedGroups(p) : j < i}) = c - 1
         /\ Rewritten(filter.out, filter.captures[c][2]) = [fails |-> FALSE, out |-> Only(p, i)]

\* A capture of a filter of a rule that was read is, in the expression the
\* engine makes for it, the one group that captures, and it is the group that
\* bears the name in the file.
CapturesKeepTheirGroup ==
  phase = "messages" =>
    \A r \in {rules[k] : k \in DOMAIN rules} : \A f \in DOMAIN RuleOf[r].filters :
      IsUsual(RuleOf[r].filters[f]) => KeepsGroups(RuleOf[r].filters[f])

=============================================================================
