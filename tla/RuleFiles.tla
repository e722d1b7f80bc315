------------------------------ MODULE RuleFiles ------------------------------
(* How the regex-parser reads a directory of rule files (RuleLoader::load_rules
   and YamlFile::readFile).

   A file describes tokens, patterns and anchors.  First every pattern is read,
   with what it inherits from the patterns above it; then the patterns are built
   in the order of their ids, and the Token objects of the rule come into being
   while that happens: a property only finds a token that a pattern built so far
   lists.  The first error ends the program: Exception::Generic is caught and
   reported, what the YAML library throws is not caught by anyone.

   A key of the file that is not there has the value Absent.                  *)
EXTENDS Naturals, Sequences, FiniteSets, SequencesExt

CONSTANTS Directories,  \* what the rules directory may hold: files in path order
          IdOrder,      \* the ids of patterns as std::map orders them
          Absent

IsList(s) == s \in Seq(Range(s))

\* A property without a name or a delimiter is taken for a dynamic one.
IsDynamic(pr) == Absent \in {pr.name, pr.delim}

Keys == {"id", "type", "extends", "match", "precedence", "anchor", "tokens", "asserts",
         "properties", "examples"}

\* Every id has a place in the order of std::map, what a property joins is a list
\* of tokens, and the regex of an anchor one of patterns: an empty one when the file
\* names none.
ASSUME DirectoriesAssumption ==
  /\ IsList(IdOrder)
  /\ \A d \in Directories :
       /\ IsList(d)
       /\ \A f \in Range(d) :
            /\ IsList(f.tokens) /\ IsList(f.anchors) /\ IsList(f.patterns)
            /\ \A p \in Range(f.patterns) :
                 /\ Keys \subseteq DOMAIN p
                 /\ p.id \in Range(IdOrder) \cup {Absent}
                 /\ IsList(p.tokens) /\ IsList(p.asserts)
                 /\ IsList(p.properties) /\ IsList(p.examples)
                 /\ \A pr \in Range(p.properties) : pr.reads = Absent => IsDynamic(pr)

VARIABLES
  directory,  \* the files of the rules directory
  stage,      \* "patterns", "build", "loaded", "refused", "aborted"
  file,       \* the file being read
  at,         \* the pattern of the file being read
  described,  \* RuleDesc::patterns: the patterns read so far, one for each id
  objects,    \* RuleDesc::tk_obj_map: the tokens that have an object
  built,      \* the patterns built so far
  rules       \* the rules of the files that are done

reading == <<directory, stage, file, at, described, objects, built, rules>>

File == directory[file]
Entry == File.patterns[at]

---------------------------------------------------------------------------
(* Looking things up: emplace keeps the first of several with one name        *)

Places(list, id) == {i \in DOMAIN list : list[i].id = id}
Has(list, id) == Places(list, id) # {}
First(list, id) == list[CHOOSE i \in Places(list, id) : \A j \in Places(list, id) : i <= j]

---------------------------------------------------------------------------
(* Reading a pattern                                                          *)

\* The patterns that the climb to the root meets.
Ancestors(p) ==
  LET climb[q \in {d.id : d \in Range(described)}] ==
        LET d == First(described, q)
        IN <<d>> \o (IF d.type = "root" THEN <<>> ELSE climb[d.extends])
  IN IF p.type = "root" THEN <<>> ELSE climb[p.extends]

\* What is appended on the way: the whole list of every ancestor, in which what
\* that ancestor inherited is contained already.
Inherited(key, p) == FlattenSeq([i \in DOMAIN Ancestors(p) |-> Ancestors(p)[i][key]]) \o p[key]

RootAnchor(p) == IF p.type = "root" THEN p.anchor ELSE Last(Ancestors(p)).anchor

\* A dynamic property must have an expression, of which the tokens it reads are
\* kept here.
Lacks(pr) == IsDynamic(pr) /\ pr.reads = Absent

LacksAKey(p) ==
  \/ Absent \in {p.id, p.type, p.match}
  \/ p.type = "root" /\ p.anchor = Absent
  \/ p.type = "extends" /\ p.extends = Absent

\* The file's own keys and those of its tokens are read before the patterns, those
\* of its anchors after them.  An anchor whose patterns are not there is read like
\* one with an empty list of them; its id stands for its name as well.
LacksAHeader == Absent \in {File.id} \cup {t.type : t \in Range(File.tokens)}
LacksAnAnchor == \E a \in Range(File.anchors) : a.id = Absent

Orphaned(p) == p.type = "extends" /\ ~Has(described, p.extends)

\* An example needs a message; what is expected of it is optional.
BadExample(p) == \E i \in DOMAIN p.examples : p.examples[i].message = Absent

\* Plausible bug: assertions are inherited like tokens.
DescribedAsserting(p) ==
  [p EXCEPT !.anchor = RootAnchor(p), !.tokens = Inherited("tokens", p),
            !.asserts = Inherited("asserts", p), !.properties = Inherited("properties", p)]

Described(p) ==
  [p EXCEPT !.anchor = RootAnchor(p), !.tokens = Inherited("tokens", p),
            !.properties = Inherited("properties", p)]

\* A second pattern with the id of an earlier one is dropped, but its examples
\* are added to those of the earlier one.
Kept(p) ==
  IF Has(described, p.id)
  THEN [i \in DOMAIN described |->
          IF described[i].id = p.id
          THEN [described[i] EXCEPT !.examples = @ \o p.examples]
          ELSE described[i]]
  ELSE Append(described, Described(p))

Stop(outcome) ==
  /\ stage' = outcome
  /\ UNCHANGED <<directory, file, at, described, objects, built, rules>>

InFile == stage = "patterns" /\ file <= Len(directory)
InPatterns == InFile /\ ~LacksAHeader /\ at <= Len(File.patterns)

\* A key that is not there.
AbortOnKey ==
  /\ \/ InFile /\ LacksAHeader
     \/ InPatterns /\ LacksAKey(Entry)
     \/ /\ InPatterns /\ Entry.type \in {"root", "extends"} /\ ~Orphaned(Entry)
        /\ \E i \in DOMAIN Entry.properties : Lacks(Entry.properties[i])
     \/ InFile /\ at > Len(File.patterns) /\ LacksAnAnchor
  /\ Stop("aborted")

RefusePattern ==
  /\ InPatterns
  /\ ~LacksAKey(Entry)
  /\ \/ Entry.type \notin {"root", "extends"}
     \/ Orphaned(Entry)
     \/ /\ \A i \in DOMAIN Entry.properties : ~Lacks(Entry.properties[i])
        /\ BadExample(Entry)
  /\ Stop("refused")

ReadPattern ==
  /\ InPatterns
  /\ ~LacksAKey(Entry) /\ Entry.type \in {"root", "extends"} /\ ~Orphaned(Entry)
  /\ \A i \in DOMAIN Entry.properties : ~Lacks(Entry.properties[i])
  /\ ~BadExample(Entry)
  /\ described' = Kept(Entry)
  /\ at' = at + 1
  /\ UNCHANGED <<directory, stage, file, objects, built, rules>>

\* The tokens were read before the patterns and the anchors after them; neither
\* is looked into before a pattern uses it.
EndPatterns ==
  /\ InFile /\ ~LacksAHeader /\ at > Len(File.patterns) /\ ~LacksAnAnchor
  /\ stage' = "build"
  /\ UNCHANGED <<directory, file, at, described, objects, built, rules>>

---------------------------------------------------------------------------
(* Building the patterns                                                      *)

Unbuilt == {d \in Range(described) : \A b \in built : b.id # d.id}
PlaceOf(id) == CHOOSE i \in DOMAIN IdOrder : IdOrder[i] = id
IsNext(d) == d \in Unbuilt /\ \A e \in Unbuilt : PlaceOf(d.id) <= PlaceOf(e.id)

NoAnchor(d) ==
  ~(Has(File.anchors, d.anchor) /\ First(File.anchors, d.anchor).regex # <<>>)

\* A token that has an object already is not looked at again.
Usable(t) == Has(File.tokens, t) /\ (t \in objects \/ First(File.tokens, t).type # "none")
BadToken(d) == d.tokens = <<>> \/ \E t \in Range(d.tokens) : ~Usable(t)

\* Plausible bug: the properties are built before the tokens of their pattern.
KnowsEarlier(d, t) == t \in objects

Knows(d, t) == t \in objects \cup Range(d.tokens)

\* A property of tokens, or the identifiers of a dynamic one.
BadProperty(d) ==
  \E i \in DOMAIN d.properties : \E t \in Range(d.properties[i].reads) : ~Knows(d, t)

BadMatchType(d) == d.match \notin {"sequential", "random"}

RefuseBuild ==
  /\ stage = "build"
  /\ \E d \in Unbuilt :
       IsNext(d) /\ (NoAnchor(d) \/ BadToken(d) \/ BadProperty(d) \/ BadMatchType(d))
  /\ Stop("refused")

\* The pattern as it is matched: of several assertions on one token the first
\* counts, those on a token it does not list none, and a property that names no
\* token is dropped.
Counts(asserts, i) == \A j \in 1..(i - 1) : asserts[j].token # asserts[i].token
Asserts(d) ==
  {d.asserts[i] : i \in {i \in DOMAIN d.asserts :
                           Counts(d.asserts, i) /\ d.asserts[i].token \in Range(d.tokens)}}

Pattern(d) ==
  [id |-> d.id, tokens |-> d.tokens, asserts |-> Asserts(d),
   anchor |-> First(File.anchors, d.anchor).regex,
   precedence |-> d.precedence, match |-> d.match,
   properties |-> FlattenSeq([i \in DOMAIN d.properties |->
                     IF IsDynamic(d.properties[i]) \/ d.properties[i].reads # <<>>
                     THEN <<d.properties[i]>> ELSE <<>>]),
   examples |-> d.examples]

BuildPattern ==
  /\ stage = "build"
  /\ \E d \in Unbuilt :
       /\ IsNext(d)
       /\ ~NoAnchor(d) /\ ~BadToken(d) /\ ~BadProperty(d) /\ ~BadMatchType(d)
       /\ built' = built \cup {Pattern(d)}
       /\ objects' = objects \cup Range(d.tokens)
  /\ UNCHANGED <<directory, stage, file, at, described, rules>>

---------------------------------------------------------------------------
(* The directory                                                              *)

ReadInit ==
  /\ directory \in Directories
  /\ stage = "patterns" /\ file = 1 /\ at = 1
  /\ described = <<>> /\ objects = {} /\ built = {} /\ rules = <<>>

\* A directory without rule files is an error of its own.
RefuseDirectory ==
  /\ stage = "patterns" /\ file > Len(directory)
  /\ Stop("refused")

FinishFile ==
  /\ stage = "build" /\ Unbuilt = {}
  /\ rules' = Append(rules, [id |-> File.id, patterns |-> built])
  /\ IF file < Len(directory)
     THEN stage' = "patterns" /\ file' = file + 1
     ELSE stage' = "loaded" /\ UNCHANGED file
  /\ at' = 1 /\ described' = <<>> /\ objects' = {} /\ built' = {}
  /\ UNCHANGED directory

Read ==
  \/ AbortOnKey \/ RefusePattern \/ ReadPattern \/ EndPatterns
  \/ RefuseBuild \/ BuildPattern \/ RefuseDirectory \/ FinishFile

---------------------------------------------------------------------------
(* Properties                                                                 *)

ReadingTypeOK ==
  /\ stage \in {"patterns", "build", "loaded", "refused", "aborted"}
  /\ file \in 1..(Len(directory) + 1) /\ at \in Nat \ {0}
  /\ Len(rules) = IF stage = "loaded" THEN Len(directory) ELSE file - 1
  /\ \A b \in built : Range(b.tokens) \subseteq objects

=============================================================================
