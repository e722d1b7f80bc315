----------------------------- MODULE RegexParser -----------------------------
(* The regex-parser program: it reads its rule files (RuleFiles), validates the
   examples in them against all rules (RuleValidation::validate_examples), and
   then matches the message of its command line, or the lines of log files, with
   the same rule and token objects (RuleMatching).

   RuleMatching's rules are constants; RulesOfFilesAssumption says that they are what
   the files of every readable directory describe.                            *)
EXTENDS RuleMatching, RuleFiles

CONSTANT Commands   \* which of -m and -l may be given: a set of sets of them

VARIABLES
  command,    \* which of -m and -l were given
  validated   \* how many examples have been validated

parser == <<command, validated>>
allVars == <<vars, reading, parser>>

---------------------------------------------------------------------------
(* Examples                                                                   *)

Loaded(r, k) == CHOOSE p \in rules[r].patterns : p.id = order[r][k]

\* The examples in the order in which they are validated: rule by rule, a rule's
\* patterns as they are sorted.
Examples ==
  FlattenSeq([r \in Rules |-> FlattenSeq([k \in DOMAIN order[r] |->
    LET p == Loaded(r, k)
    IN [e \in DOMAIN p.examples |-> [rule |-> r, pattern |-> k, example |-> p.examples[e]]]])])

Due == Examples[validated + 1]

\* What the tokens of a match read: a value that was captured from an earlier
\* message is a piece of freed memory, and is left out.
Texts(w) ==
  [t \in {t \in Tokens : w.values[t].message = number} |->
     message.fields[w.values[t].at].value]

ReadsStale(p, texts) ==
  \E pr \in Range(p.properties) : ~(Range(pr.reads) \subseteq DOMAIN texts)

\* Property::resolve: the values of its tokens.  The dynamic properties come
\* after the others and are set when the token they test has the value they ask
\* for; of two properties with one name the last is kept.
Emitted(p, texts) ==
  LET IsSet(pr) == ~IsDynamic(pr) \/ \A t \in Range(pr.reads) : texts[t] = pr.value
      Set == SelectSeq(p.properties, LAMBDA pr : ~IsDynamic(pr)) \o
             SelectSeq(p.properties, LAMBDA pr : IsDynamic(pr) /\ IsSet(pr))
      Value(pr) == IF IsDynamic(pr) THEN <<pr.value>>
                   ELSE [i \in DOMAIN pr.reads |-> texts[pr.reads[i]]]
      Name(pr) == IF IsDynamic(pr) THEN pr.sets ELSE pr.name
      Final(i) == \A j \in (i + 1)..Len(Set) : Name(Set[j]) # Name(Set[i])
  IN {[name |-> Name(Set[i]), value |-> Value(Set[i])] : i \in {i \in DOMAIN Set : Final(i)}}

\* validate_expected_tokens and validate_expected_properties.
Expected(p, texts, e) ==
  /\ \A x \in e.tokens : x.name \in Range(TokensOf[p.id]) /\ texts[x.name] = x.value
  /\ e.properties \subseteq Emitted(p, texts)
  /\ \A x \in Emitted(p, texts) : x.name \notin e.absent

\* What is expected of a stale value may or may not be found in it.
MayMeet(w, e) ==
  LET p == Loaded(w.rule, w.pattern) IN ReadsStale(p, Texts(w)) \/ Expected(p, Texts(w), e)
MayFail(w, e) ==
  LET p == Loaded(w.rule, w.pattern) IN ReadsStale(p, Texts(w)) \/ ~Expected(p, Texts(w), e)

\* One rule has matched the example, and it is the rule and the pattern, by their
\* ids, that declare it.
Claimed(w, x) ==
  /\ reports = {w}
  /\ rules[w.rule].id = rules[x.rule].id
  /\ order[w.rule][w.pattern] = order[x.rule][x.pattern]

---------------------------------------------------------------------------
(* Actions                                                                    *)

ParserInit ==
  /\ Init /\ ReadInit
  /\ command \in Commands
  /\ validated = 0

\* A command line without a message and without a log directory.
RefuseCommand ==
  /\ command = {} /\ stage = "patterns"
  /\ Stop("refused")
  /\ UNCHANGED <<vars, parser>>

ReadRules ==
  /\ command # {}
  /\ Read
  /\ UNCHANGED <<vars, parser>>

IsLoaded == stage = "loaded"

TakeExample ==
  /\ IsLoaded /\ pc = "idle" /\ validated < Len(Examples)
  /\ \E x \in {Due} : Receive /\ mode' = "example" /\ message' = x.example.message
  /\ UNCHANGED <<reading, parser>>

\* A message on the command line goes before the log directory.
TakeMessage ==
  /\ IsLoaded /\ pc = "idle" /\ validated = Len(Examples)
  /\ Receive /\ mode' = IF "-m" \in command THEN "single" ELSE "scan"
  /\ UNCHANGED <<reading, parser>>

Match ==
  /\ IsLoaded
  /\ \/ TryRule \/ StartPattern \/ RuleFails
     \/ UseRemembered \/ MatchToken \/ PatternFails \/ PatternMatches
  /\ UNCHANGED <<reading, parser>>

\* Plausible bug: the pattern that matched is not compared with the example's.
MatchAgainByAny ==
  /\ IsLoaded
  /\ Rematch
  /\ \E w \in reports : rules[w.rule].id = rules[Due.rule].id
  /\ waiting' = {Due.rule}
  /\ UNCHANGED <<reading, parser>>

\* The rule that declares the example matches it a second time.
MatchAgain ==
  /\ IsLoaded
  /\ Rematch
  /\ \E w \in reports : Claimed(w, Due)
  /\ waiting' = {Due.rule}
  /\ UNCHANGED <<reading, parser>>

AcceptExample ==
  /\ IsLoaded /\ mode = "again"
  /\ Finish
  /\ \E w \in reports : MayMeet(w, Due.example)
  /\ validated' = validated + 1
  /\ UNCHANGED <<reading, command>>

Reject ==
  /\ IsLoaded
  /\ RejectExample
  /\ \/ mode = "example" /\ \A w \in reports : ~Claimed(w, Due)
     \/ mode = "again" /\ \A w \in reports : MayFail(w, Due.example)
  /\ UNCHANGED <<reading, parser>>

FinishMessage ==
  /\ IsLoaded /\ mode \in {"single", "scan"}
  /\ Finish
  /\ UNCHANGED <<reading, parser>>

ParserNext ==
  \/ RefuseCommand \/ ReadRules \/ TakeExample \/ TakeMessage \/ Match
  \/ MatchAgain \/ AcceptExample \/ Reject \/ FinishMessage

ParserSpec == ParserInit /\ [][ParserNext]_allVars

---------------------------------------------------------------------------
(* Properties                                                                 *)

\* Type invariant of the program.
ParserTypeOK ==
  /\ TypeOK /\ ReadingTypeOK
  /\ command \in Commands
  /\ validated \in 0..number
  /\ stage # "loaded" => pc = "idle" /\ number = 0

\* The first pattern of a file with its id, which is the one that counts, and
\* the pattern above that another one extends.
IsFirst(f, i) == \A j \in 1..(i - 1) : f.patterns[j].id # f.patterns[i].id
ParentsIn(f, i) ==
  {j \in 1..(i - 1) : f.patterns[j].id = f.patterns[i].extends /\ IsFirst(f, j)}
Firsts(f) == {i \in DOMAIN f.patterns : IsFirst(f, i)}

Climbs(f, i) == f.patterns[i].type # "root" /\ ParentsIn(f, i) # {}
Up(f, i) == CHOOSE j \in ParentsIn(f, i) : TRUE

\* From every pattern of a file to its root.
PathsIn(f) ==
  LET path[i \in DOMAIN f.patterns] ==
        <<i>> \o IF Climbs(f, i) THEN path[Up(f, i)] ELSE <<>>
  IN path
RootIn(f, i) == f.patterns[Last(PathsIn(f)[i])]

\* The tokens that a pattern lists, by itself or by those above it, and the
\* tokens that its properties read.
TokensFor(f, i) == UNION {Range(f.patterns[j].tokens) : j \in Range(PathsIn(f)[i])}
ReadsFor(f, i) ==
  UNION {UNION {Range(pr.reads) : pr \in Range(f.patterns[j].properties)} :
           j \in Range(PathsIn(f)[i])}

HasItsKeys(f) ==
  /\ f.id # Absent
  /\ \A t \in Range(f.tokens) : t.type # Absent
  /\ \A a \in Range(f.anchors) : a.id # Absent

\* Every pattern must be readable, also one whose id is taken, ...
IsReadable(f, i) ==
  LET p == f.patterns[i]
  IN /\ Absent \notin {p.id, p.type, p.match}
     /\ \/ p.type = "root" /\ p.anchor # Absent
        \/ p.type = "extends" /\ p.extends # Absent /\ ParentsIn(f, i) # {}
     /\ \A e \in Range(p.examples) : e.message # Absent
     /\ \A pr \in Range(p.properties) : pr.reads # Absent

HasAnchor(f, id) == Has(f.anchors, id) /\ First(f.anchors, id).regex # <<>>
IsToken(f, t) == Has(f.tokens, t) /\ First(f.tokens, t).type # "none"

\* ... and one that counts must be complete.
IsComplete(f, i) ==
  /\ f.patterns[i].match \in {"sequential", "random"}
  /\ HasAnchor(f, RootIn(f, i).anchor)
  /\ TokensFor(f, i) # {} /\ \A t \in TokensFor(f, i) : IsToken(f, t)
  /\ ReadsFor(f, i) \subseteq
       UNION {TokensFor(f, j) : j \in {j \in Firsts(f) :
                PlaceOf(f.patterns[j].id) <= PlaceOf(f.patterns[i].id)}}

\* What makes a file readable, said without the order in which it is read - but
\* for one thing: the tokens of a property must be listed by its own pattern or
\* by one whose id is smaller.
WellFormed(f) ==
  /\ HasItsKeys(f)
  /\ \A i \in DOMAIN f.patterns : IsReadable(f, i)
  /\ \A i \in Firsts(f) : IsComplete(f, i)

\* What every pattern of a file lists under a key: what it inherits comes first,
\* from the nearest ancestor on the whole list of each.
ListsIn(f, key) ==
  LET list[i \in DOMAIN f.patterns] ==
        FlattenSeq([k \in 1..(Len(PathsIn(f)[i]) - 1) |-> list[PathsIn(f)[i][k + 1]]])
        \o f.patterns[i][key]
  IN list

AssertsFor(f, i) ==
  LET asserts == f.patterns[i].asserts
  IN {asserts[j] : j \in {j \in DOMAIN asserts :
                            Counts(asserts, j) /\ asserts[j].token \in TokensFor(f, i)}}

\* The pattern with an id, of those that a file describes.
Describes(f, i, id) ==
  /\ TokensOf[id] = ListsIn(f, "tokens")[i]
  /\ AnchorsOf[id] = First(f.anchors, RootIn(f, i).anchor).regex
  /\ Precedence[id] = f.patterns[i].precedence /\ MatchType[id] = f.patterns[i].match
  /\ AssertsFor(f, i) = {[token |-> t, value |-> AssertOf[id][t]] :
                           t \in {t \in TokensFor(f, i) : AssertOf[id][t] # NoAssert}}
  /\ ReadsOf[id] = ReadsFor(f, i)

\* The rules of RuleMatching are those that the files of a readable directory
\* describe: a pattern takes its root's anchor and no one else's assertions, and
\* of several patterns with one id the first counts.
ASSUME RulesOfFilesAssumption ==
  \A d \in Directories :
    d # <<>> /\ (\A i \in DOMAIN d : WellFormed(d[i])) =>
      /\ Len(d) = NumRules
      /\ \A r \in Rules :
           /\ PatternsOf[r] = {d[r].patterns[i].id : i \in Firsts(d[r])}
           /\ \A i \in Firsts(d[r]) : Describes(d[r], i, d[r].patterns[i].id)

\* The rules that are loaded are those.
RulesAgree ==
  /\ Len(rules) = NumRules
  /\ \A r \in Rules :
       /\ {p.id : p \in rules[r].patterns} = PatternsOf[r]
       /\ \A p \in rules[r].patterns :
            /\ p.tokens = TokensOf[p.id] /\ p.anchor = AnchorsOf[p.id]
            /\ p.precedence = Precedence[p.id] /\ p.match = MatchType[p.id]
            /\ p.asserts = {[token |-> t, value |-> AssertOf[p.id][t]] :
                              t \in {t \in Range(p.tokens) : AssertOf[p.id][t] # NoAssert}}
            /\ UNION {Range(pr.reads) : pr \in Range(p.properties)} = ReadsOf[p.id]

\* The program stops at a rules directory if and only if one of its files is not
\* well formed, whichever of its errors is met first, and what it has loaded is
\* what the files describe (YamlFile::readFile and the build functions).
FilesMeanTheirRules ==
  /\ stage = "loaded" /\ number = 0 =>
       /\ \A i \in DOMAIN directory : WellFormed(directory[i])
       /\ RulesAgree
  /\ stage \in {"refused", "aborted"} /\ command # {} =>
       directory = <<>> \/ \E i \in DOMAIN directory : ~WellFormed(directory[i])

\* An example that was accepted holds for the running program: when its message
\* is the message of the command line, its rule and its pattern report it, and no
\* other rule does, with the tokens and properties it expects - although other
\* messages have been matched since with the same tokens.
ExamplesStayTrue ==
  pc = "rule" /\ waiting = {} /\ mode = "single" =>
    \A x \in Range(Examples) : x.example.message = message =>
      \E w \in reports : Claimed(w, x) /\ MayMeet(w, x.example)

=============================================================================
