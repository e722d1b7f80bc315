# A model of parser-framework

TLA+ modules for the program in this repository: the container stack that accepts, claims and
processes log bundles, the C++ framework that parses the messages of a bundle and reports what it
finds, and the regex-parser subproject that matches whole rules. TLC checks each of them on small
instances; TLAPS proves the invariants that matter most for every value of the constants.

## 1. The system

| Component | State it keeps | Operations | Talks to |
| --- | --- | --- | --- |
| Ingest API (`stack/ingest_api`) | none but a request in flight | authenticate, validate, `find_one`, `insert_one`, reply | MongoDB |
| Parser worker (`stack/parser_worker`) | a drain cursor, a change stream, the claimed document | sync of the rule catalog, drain, watch, claim, run the parser, store two results, mark | MongoDB, parser process |
| Rule catalog (`stack/common/rule_catalog.py`) | documents of `analysis.rule_catalog` | discover files, merge, mark removed | file system, MongoDB |
| Results API (`stack/results_api`) | none | two reads by bundle id | MongoDB |
| MongoDB | `raw.log_bundles`, `analysis.parsed_outputs`, `analysis.reports`, the insert log | single-document updates, cursors, change streams | |
| Bundle loader (`IngestionBundle.cpp`) | none | validate the references of a bundle, find a collection's context, print a bundle | |
| Rule loader (`RuleLoader.cpp`) | the rule libraries | read rulesets and message rules, number the groups of filters, resolve sections, validate examples | the engines |
| ParserFramework (`ParserFramework.cpp`) | one `ParseResult` per message | filter, sections, rulesets, properties | the three engines |
| Engines (`Regex-`, `KV-`, `JSONParsingEngine.cpp`) | none | cut slices, find tokens | regex-parser, jsmn |
| DynamicPropertyEngine | none | bind tokens, evaluate expressions | the language below |
| Dynamic property language (regex-parser, `DynamicProperty*`) | the parser's stack | scan, parse, compile, evaluate an expression | |
| IngestionPipeline, ReportAnalyzer | the findings of one bundle, groups of them | parse all collections, evaluate report rules, correlate | ParserFramework |
| regex-parser rules (subproject) | `Token` objects that patterns share and that live as long as the process | read rule files, validate examples, match a message, scan log files | |
| jsmn (subproject) | the text, a token array, a path index | parse, find a key, insert, update | |
| JSONPath (jsmn, `jqpath.*`, `jsonpath.*`, `JQ.cpp`) | the state of a compiled path, rendered entries | compile a path by one of two grammars, look it up, compare what was found | |

A bundle travels through all of them: a client posts it, the API stores it as `pending`, a worker
learns of it from a drain or from the change stream, claims it with one conditional update, runs
the parser process (bundle loader, pipeline, framework, engines, analyzer), stores parser output
and report output, and marks the bundle `completed` or `failed`.

**What is hard here.** Several workers race for one bundle with stale cursors and replayed events.
A bundle can slip between the drain and the opening of the stream. A worker can die, or a call to
the database fail or succeed without a reply, between any two steps. Replicas synchronise the rule
catalog at the same time from files that change meanwhile. In the C++ code the hard part is shared
or accumulated state under nested loops: offsets added up over nested slices, loops over repeated
matches that must make progress, results of one section that the next one sees, and tokens shared
between patterns and between messages. `PROJECT.json` lists each hazard at its line.

**What makes each component correct.** API: one document per identifier, and replies that are
true. Worker: a bundle has one claimant, a completed bundle has its results, a failed one has a
cause, and what a worker knows of is claimed and marked. Catalog: it says what is on disk once the
syncs are over. Rule loader: what is loaded is what the files say,
whatever order they come in, and a capture means the group it named. Framework: positions, rulesets
and properties of a result describe the message. Property language: the checked-in tables read
what the grammar files say, and the value is the documented one. Bundle loader: what is accepted
has one context. Analyzer: a correlation is reported exactly when the findings prove it. Output: it
reads back as what was found. jsmn: the tokens are those of the text, the index is that of the
current text, a path leads to what its segments name, an edit keeps JSON what was JSON. Rule files:
they are refused exactly when something is wrong with them. Rule matching: what is reported belongs
to this message, nothing is missed, and an accepted example stays true.

## 2. The modules

| Module | Models | Read with |
| --- | --- | --- |
| `BundleLifecycle` | what the stack promises about one bundle, without saying who does it | README, Event Flow |
| `IngestStack` | API requests, workers, the collections, the insert log; every fault a step can meet | `app.py`, `worker.py`, `documents.py` |
| `RuleCatalog` | `sync_rule_catalog` of several workers over changing files | `rule_catalog.py` |
| `RuleLoading` | `load_rules`: the two passes over the files, every refusal, `add_message_rule` | `RuleLoader.cpp`, `ParserFramework.cpp` |
| `PatternRewriting` | the two walks that number and rewrite the groups of a filter | `RuleLoader.cpp`, `RegexParsingEngine.cpp` |
| `MessageParsing` | `ParserFramework::parse_message` and the engines | `ParserFramework.cpp`, `*ParsingEngine.cpp` |
| `PropertyLanguage` | `DynamicPropertyEngine::evaluate`, down to the tables of the generated scanner and parser | `DynamicPropertyEngine.cpp`, `DynamicPropertyLexer.cpp`, `DynamicPropertyParser.cpp`, `Compiler.cpp`, `BaseValue.cpp` |
| `PropertyGrammar` | the reference for it: the two grammar files, read as what they mean | `DynamicPropertyLexer.l`, `DynamicPropertyParser.y` |
| `BundleLoading` | the checks of `load_bundle`, the context of a collection | `IngestionBundle.cpp`, `IngestionPipeline.cpp` |
| `ReportCorrelation` | `load_rules`, `IngestionPipeline::process` and `ReportAnalyzer::analyze` | `IngestionPipeline.cpp`, `ReportAnalyzer.cpp` |
| `ReportPrinting` | the program with its output: which text a run of `ReportCorrelation` ends with | `IngestionPipeline.cpp`, `ReportAnalyzer.cpp` |
| `ReportRendering`, `OutputRendering` | the tree of dotted names; the JSON text that is printed, comma by comma, with its escapes | `ReportAnalyzer.cpp`, `ParserFramework.cpp`, `IngestionBundle.cpp`, `IngestionPipeline.cpp` |
| `OutputReading` | the reference for it: a reader of JSON, and what the text should say | |
| `RuleMatching` | `Rule::match` over shared tokens, for one message after another | `Rule.cpp`, `Pattern.cpp`, `Token.cpp` |
| `RuleFiles` | reading a directory of rule files, inheritance, the order patterns are built in | `YamlFile.cpp`, `YAML/RuleLoader.cpp` |
| `RegexParser` | the program: rule files, then examples, then the message or the log | `main.cpp`, `RuleValidator.cpp` |
| `JsonParser` | `jsmn_parser`: parse, the path index, `find_key_in_object`, the three edits | `jsmn.cpp` |
| `JsonPath` | the two path grammars, lookups and comparisons | `jqpath.*`, `jsonpath.*`, `JQ.cpp`, `path_*.c` |
| `IngestStackProofs`, `RuleCatalogProofs`, `RuleMatchingProofs`, `RegexParserProofs`, `MessageParsingProofs`, `ReportCorrelationProofs`, `JsonParserProofs`, `JsonPathProofs` | theorems and their proofs | the modules they extend |
| `MC*` | instances for TLC | the `.cfg` files |

`IngestStack` composes the API, the workers and the database, and instantiates `BundleLifecycle`
with `stage <- status`, `content <- bundle` and the two result collections: the refinement is the
property `ImplementsLifecycle`. `RegexParser` composes `RuleFiles` and `RuleMatching` and is proved
to implement the latter; `JsonPath` adds lookups to `JsonParser` and is proved to implement it.
`MessageParsing` starts from files by way of `RuleLoading` (and `PatternRewriting`);
`ReportCorrelation` starts from a bundle and rule files by way of `BundleLoading`; `ReportPrinting`
adds the text of `OutputRendering` it ends with. One process parses one bundle, and what the stack sees of it is its exit
and its output.

### IngestStack

`status`, `bundle`, `parsed` and `report` are the collections; `inserts` is the log a change stream
reads. A request is a `pc` with what it submitted; a worker is a `pc`, a `cursor`, a `stream`
position and the `document` it claimed. Every call of the database is one action that chooses what
the caller observes: the answer, an exception although the call took effect (`lost`), or an
exception instead of it (`failed`). pymongo retries writes and resumes streams by itself; the
faults that are left are those a caller sees. `KillWorker`, `KillApi` and `Restart` are the
container runtime's; a dead process loses its local state only. The parser's output is not looked
into: `documents.py` takes bundle id and collections from the echo of what was submitted, and this
is assumed of the parser.

### RuleCatalog

One worker's `sync_rule_catalog` is a sequence of steps per file: list a root, `stat`, read, find
the existing documents, merge each of them, mark the missing ones. Files change, and workers die,
between any two of them. The `find` of the existing documents is one read: a catalog below 101
documents is one batch.

### RuleLoading and PatternRewriting

`load_rules` reads all files twice: `phase` is which of the passes runs, `file` and `item` where it
is. Rulesets go into one map, where a later one replaces an earlier one of its name; message rules
bind their sections to what is in the map, so that the pass order decides, not the file order
(`LoadingFollowsFiles`). Anything wrong ends in `refused`. `Normalized` and `Rewritten` are the two
walks over a pattern, character by character; `CapturesKeepTheirGroup` says that the group the
engine captures is the one whose name the loader took out. It is about patterns without character
classes and look-behinds, which the loader does not know: it takes `(?<=` for a name and counts a
parenthesis in a class. Nor is it about a named group that begins with `?`: without the name, the
two characters begin a group that does not capture.

### MessageParsing

`stack` is the call stack of `parse_section_slices`; a call carries the text it is cut from and the
offset of that text in the message. `EnterCaptured`, `EnterMissing` and `EnterWhole` are
`resolve_section_slices`; `NoLocator`, `LocateSlice` and `LocateNothing` are the loop of
`locate_slices`; `ParseRegex`, `ParseKv`, `ParseJson`, `OpenChild` and `NextSlice` are
`dispatch_section`; the two `Leave` actions are the end of `parse_section_slices`, with
`record_matched_rule_id` and the evaluation of the properties. An expression may find any piece of
the text from its offset on, or a group that takes no part in the match, whose offset is the
distance from the null address (`Unset`). The value of a property is abstracted to the section that
computed it and to how many tokens it saw.

### PropertyLanguage and PropertyGrammar

An expression is a sequence of characters. `Step` and `Run` are the automaton over the checked-in
tables (`yy_accept`, `yy_ec`, `yy_meta`, `yy_base`, `yy_def`, `yy_nxt`, `yy_chk`, indexed from 0 as they
are in the source), with the longest match and its back-up; `Shift` and `Reduce` are the loop of
bison's skeleton over `yypact`, `yytable`, `yycheck` and the rest. `Compile` looks up all
identifiers, also those of the branch that is not taken; `Evaluate` computes with values that are
integers of bounded width or strings. An `int` that was never written is one of `Garbage`; a
division by zero raises SIGFPE and ends the program (`killed`).

`PropertyGrammar` says the same without tables: which rule matches which text, and what the
productions mean for a sequence of symbols. `ScannerFollowsRules` and `ParserFollowsGrammar` compare
the two, `MeaningIsKept` compares the outcome with the documented one.
An `int` of a token is read as `Numbers.h` does it: `Bases` are the answers that `is_number` may give,
one for every text but `0`, where it reads on behind the end and the answer is a choice, and `Read` is
`to_int`. `MeaningIsKept` is about texts without a leading zero, for which it does not matter what is
behind them; section 6 says what becomes of the others.

### ReportCorrelation, BundleLoading and the output

The checks of `load_bundle` and of `load_rules` come first, in the order of the code, and the first
that fails ends the program. The loops of `analyze` and `correlate_findings` are actions per
(result, rule), per finding and per (correlation rule, key). The map of groups is walked in the order
of its keys: `KeysBefore` is that order and `visited` how far the walk is. What the expressions of a report rule
give is a choice among `Outcomes`; `Normalized` is what `report.` prefixes do to it. `Output` is
the text that is printed then: a sequence of lexemes, where a string is its characters between
quotes, with a backslash in front of those the code escapes; `Control` stands for the control
characters that it does not and writes as they are. `OutputReadsBack` reads it with the
reader of `OutputReading` and compares what it says with the bundle, the results and the reports;
if one of the strings has a `Control`, it says that the output is no JSON.

### RuleFiles, RuleMatching and RegexParser

`RuleFiles` reads one pattern after the other, with what it inherits from those above it, and then
builds them in the order of their ids; a key that is missing is `Absent`. `RuleMatching` matches:
`captured` holds what the shared `Token` objects have captured and `offset` how far the match of the
message is. `Rule::match` resets the tokens once, before the first pattern; a later pattern takes a
remembered token without searching for it (`UseRemembered`). Messages are headers, for the anchors,
and fields in order. The anchor cache `mMatched` is reset before each use and left out.
`RegexParser` says which message is next: each example twice, once by all rules and once by its
own (`MatchAgain`), then the message of `-m` or the lines of `-l`. What a report looks like
(`Emitted`) is there because examples are compared with it. Its properties say what a file means
without reading it: `WellFormed` and `Describes` know paths to the root where the code knows a map of
what it has read so far, and `FilesMeanTheirRules` compares the two. The rules of `RuleMatching` are
constants, of which `RulesOfFilesAssumption` says that the files describe them.

### JsonParser

A text is a sequence of lexemes; positions count lexemes, not characters, and blanks are left out.
`tokens`, `super` and `pos` are `m_tokens`, `m_toksuper` and `m_pos` (with 0 for -1 and positions
from 1). A bracket that closes is a walk of its own from token to token (`CloseContainer`, `WalkUp`,
`CloseHere`). An edit keeps the object (`edit.owner`) while a second parser reads first the fragment
and then the new text; `CommitEdit` is `swap_state`, and every way to fail gives the object back.
`frames` are the recursive calls of `render`. A path is the sequence of its labels, so that the
collisions of the code's hashes are left out. The caller's side of a search is `sought`: an update
takes the key that the last search has found.

`update_value_for_key` leaves the quotes of a string value where they are, whatever is put between
them; an update of a string therefore does not count as an edit that keeps JSON (`edit.valid`). A
fragment that is a number on its own is always refused, because strict mode wants a comma or a
bracket behind it.

### JsonPath

A path expression is a sequence of lexemes, which the parser's automaton (`JqRules`,
`JsonPathRules`) reads with the actions of its scanner (`Effects`). `path_parse_string` looks at the
first lexeme to choose the grammar; the JSON engine always takes `jsonpath`. `Lookup` is `get_path`
behind `ensure_paths`, the two comparisons are the operators of `JQ`; a comparison with a string
renders the entry, and an edit throws all entries away. The reference (`IsPath`, `LabelsOf`,
`Reached`) reads the expression and the text without the automaton and without tokens.

## 3. The runs

| Run | Instance | Shows |
| --- | --- | --- |
| `stack_safety` | 2 bundles, 2 payloads of which one is unparsable, 2 requests, 2 workers, a batch of 1, at most 2 faults of any kind (456 788 states) | the safety invariants and the refinement of `BundleLifecycle` |
| `stack_liveness` | the same with one payload and one fault, no lost reply (332 864 states) | what is covered is claimed, what is claimed is marked or lost to a fault |
| `stack_gap` | 1 worker, no fault | a violation: a bundle between drain and stream waits for ever |
| `stack_kill` | 1 worker, killed once | a violation: a claimed bundle stays in processing |
| `catalog_replicas` | 2 workers, 1 file, 3 edits, 2 deaths (872 617 states) | the catalog agrees with the disk once things are quiet, and what is removed has a date |
| `matching_reports` | 2 rules of 5 and 1 patterns from 2 files, every message of at most 3 fields as an example of every pattern, files with 6 things that are forgiven and 17 that are not, 2 messages of which the first may be an example (1 702 270 states) | files are refused when they should be, reports belong to the message, nothing is missed, examples stay true |
| `matching_order` | the same, 1 message | a violation: a sequential pattern matches fields out of order |
| `matching_reads` | the same, with a property over another pattern's token | a violation: it reads an earlier message |
| `parsing_sections` | rules from files in every order and with every fault, filters of up to 3 parts; messages of at most 2 letters through trees of depth 2 (539 176 states) | rules and groups as the files say; positions, termination of locators, recorded rulesets, properties |
| `property_expressions` | texts of at most 3 characters of a small alphabet, sequences of at most 4 words, comparisons over all pairs of 12 operands; an `int` of 8 bits (482 487 states) | the tables follow the grammar files, the value is the documented one |
| `json_documents` | all texts of at most 3 lexemes and longer JSON texts, some accepted without being JSON, 7 fragments, one edit; every path of up to 2 lexemes, 2 segments and a filter (248 640 states) | tokens, index, search, edits and paths agree with the text |
| `reports_bundle` | at most 3 records in one or two collections, at most 5 bindings of a report rule, 2 report rules, 2 correlation rules, 4 keys, and bundles whose references are wrong in every way (453 752 states) | contexts and correlations are exact, the output reads back unless a control character in it has no escape |

**Why the bounds are enough.** Two workers, two bundles and two faults give every pairwise race and
a fault during the recovery from another; a batch of one makes a cursor go stale between replies.
Three edits and two deaths are more than a half-done sync needs to meet a newer one. Two letters make a text
occur twice in a message, an empty slice at its end, and three slices of a repeated locator. Three
records give a system that is seen again after another one. A message behind an
example, or behind another message, meets tokens that validation, or the scan, has left behind. Three parts of a pattern put every kind of group inside and beside every other. Eight
bits overflow as thirty-two do; four words hold a whole operation on either side of another. A
property name that continues another one, in both orders, a value of the characters that are
escaped and one of a character that is not are what the output can get wrong. Texts of three lexemes are every pair of lexemes
with a third behind it, nested texts hold every kind of value in every kind of place, and one edit
is followed by every lookup and search.

**Deadlock.** Every `.cfg` turns the deadlock check off where the system comes to rest: no request
is left, the sync is over, the message or the bundle is processed.

**Fairness.** `stack_liveness` assumes weak fairness of every worker's next step, which covers its
restart: the operating system runs a runnable process and `docker-compose.yml` restarts a dead one.
Clients and faults are under no obligation. The fairness includes `RunParser`: the worker waits for
the parser without a timeout, so a parser that hangs is a worker that takes no step. All other
properties need no fairness.

**Findings.** The four violations are disagreements between a document and the code: `stack_gap`
and `stack_kill` (README, Event Flow, steps 4, 5 and 7), `matching_order` and `matching_reads`
(`subprojects/regex-parser/README.md`). `PROJECT.json` quotes the lines.

## 4. What is proved

**IngestStack** (`IngestStackProofs`, from `StackAssumption`). `TypeCorrect` first. The rest follows
from `WorkConsistent`, an invariant about what a worker holds between two calls of the database: a
document it claimed is in processing, no other worker holds it, and results it has not stored do
not exist. `SingleClaim` and `CompletedHasResults` are not inductive, because a step of one worker
can only be judged with what the other workers hold; `WorkConsistent` says it, and with it every
step of every worker preserves them (`ClaimedOnce`, `CompletedHasItsResults`,
`ResultsFollowTheClaim`, `FailedHasCause`, `RepliesTrue`). `StackImplementsLifecycle` proves the
refinement: every step is a step of `BundleLifecycle` or leaves its variables alone. `FewAbandoned`
compares the two sides of `AbandonedAreCounted` step by step: a bundle is only ever added to
`Abandoned` by a step that adds to `faults`, and one step adds one bundle at most, the one its
worker held or claimed. That `Abandoned` is finite is kept by the same induction.

**RuleMatching** (`RuleMatchingProofs`, from `RulesAssumption`). `TypeCorrect`, then
`ReportsJustified`: what is reported was captured in this message, because the reset before the
first pattern leaves no token of an earlier one. `NothingIsMissed` is the deepest result here: a
token that a failed pattern has left behind never costs a later pattern its match. Its inductive
invariant says that the search is never behind the leftmost embedding of the pattern's tokens, and
that every pattern tried before the current one has no match.

**RegexParser** (`RegexParserProofs`). `ParserMatches` proves that the program implements
`RuleMatching` (`ParserSpec => Spec`): reading files, validating examples and choosing the next
message are steps of the matching or leave it alone. The three results above hold of the program
with it (`ParserReportsJustified`, `ParserMissesNothing`, and `ParserTypeCorrect` with an invariant
of its own, `ReadingInv`, about the files that are read: there is a file while patterns are built,
and the tokens of every pattern that is built have an object). They speak of the rules of the
constants; that these are the rules that the program loads is `RulesAreRead`.

`RulesAreRead` is about files of any length and patterns that inherit over any number of levels. What a
file means is said without the order in which it is read: from every pattern a path leads up to its
root (`PathsIn`), and what is listed on the path is what the pattern lists (`ListsIn`); both are
recursive functions over the positions of the file, which exist and are unique because a pattern only
extends one above it (`PathsExist`, `ListingsExist`: smallest counterexamples again). What the program
does is another recursion, over the ids of the patterns it has kept, which ends for another reason;
that both climbs meet the same patterns is `AncestorsAre`. The inductive invariant, `FilesInv`, has
three parts. Of the file at hand, the patterns before `at` could all be read, and of those with one id
the first is kept, with what the path says (`IsRead`). While its patterns are built, those built are
complete, they are the ones with the smallest ids, and the tokens that have an object are theirs
(`IsBuilding`). The files before it are well formed, and their rules what they describe (`Means`). With
it, each error of the reading is one of the conjuncts of `WellFormed` (`ReadableMeans`,
`CompleteMeans`), so it does not matter which comes first. `DirectoriesAssumption` says what shape a
file has: lists, patterns with their keys, each possibly absent, and ids that have a place in the
order of `std::map`. `RulesOfFilesAssumption` connects the constants of the matching with those of the
reading: if all files of a directory are well formed, they describe the rules that are matched.

`ExamplesHold` relates two points of an execution that any number of messages separate. A run of a
rule on a message is written down as a relation of its own (`Goes`, from `Begun` until `Over`), which
looks at what this run has captured and not at what a token captured before. There is a run that
ends, and only one (`OneEnd`), by smallest counterexamples over the steps. `Running` ties the program
to it: the rule at hand stands where its run does, a rule that was tried has reported what its run
ends with, and a value that is not of the run was captured from another message, or when the same
message was matched by all rules (`IsHeld`). `Validating` then says that an accepted example is a
fact about the rules alone (`Accepted`): its rule's run on its message ends with its pattern and
what is expected, no other rule's does. Nothing of that is undone by later messages. A value that a
property reads although its pattern has not captured it is left out on both sides (`ReadsStale`).
That the examples are a list at all is proved from what the reading does
(`ListsInv`, `FlattenType`), for which every pattern of a file has a list of examples, which may be
empty (`DirectoriesAssumption`).

**JsonParser** (`JsonParserProofs`, from `LexemesAssumption`). `LinksSound`: the tokens form a
forest in which every token counts its parts, for texts that need not be JSON. The list itself is
inductive over the lexemes (`AddedOK`, by the cardinality of the parts); what makes it one over the
edits is that the object an edit is made on is kept with the same invariant (`OwnerOK`), and that
tokens lie inside of the text they are cut from (`Fits`), because an edit cuts the text at them.
`TypeCorrect` follows from the same invariant, `IInv`. `KeysAreFound`, for any text, needs to know
where the tokens lie, because the search jumps over what a token holds: `Nested` says that they are in
the order of the text, that what is open holds all that follows, `super` included, and what is closed
whatever starts in front of its end. The attempt showed that `SearchIsRight` had been stated too
strongly: in `{ } : "a"`, which is accepted, the string becomes a part of the object behind its
bracket, where the search does not come. The property says "between its brackets" now, and the run
has that text. `TextsAreParsed`, for texts of any length and depth, is an induction over the lexemes
that `parse` itself makes, one step at a time. Its invariant, `JsonInv`, says of a text that is JSON
that it has not failed, that the tokens so far are those of the positions so far (`IsReadUpTo`: the
numbers are counted by `NumberOf`, a bracket that is open has no lexeme of less depth behind it, one that
is closed is closed at the first such lexeme), and that `super` is what `Below` makes of the text in
front of the position alone: behind a colon the key, behind a comma the bracket around it, behind a
value what the value is below of. What the reference defines by depth and greatest position (`Inside`,
`Closer`, `NumberOf`) is taken there from lexeme to lexeme by `Depths`, `InsideNext` and `Numbers`, each
of which rests on a count that grows by one (`CountUpTo`) or a smallest number (`LeastNumber`). Every
branch that ends in an error is then one that `MayFollow` excludes (`NothingRefused`); that a key's
value may be a number needs the key to have no part yet (`KeyIsAlone`). The object an edit is made on
keeps its own invariant.

`TextsStayJson` says of texts of any length that an edit cuts them at the right places. All three
edits are one operation on texts, `Replaced`: the front, something of `k` lexemes in place of `n`, and the
back. `Surgery` is the lemma about it: if what is put in ends on the depth it begins on and stays above
it, then each position of the front and the back has its old depth (`ReplacedDepths`) and is inside of
the bracket it was inside of, moved along if it is behind (`ReplacedInside`); the text is JSON again if
each new lexeme may follow the one in front of it, if the first one behind may follow the last new one,
and if that one is a key exactly if it was one. That a JSON value fits into a place where a value may stand
is `ValueFits`; that the comma is there exactly if the container holds something is `InsertionIsJson`, for
an element (`ElementInserted`) and for a key with its value (`MemberInserted`). For an update the place is
that of the token behind the key, and that this is the key's value, whole and nothing else (`KeyAt`,
`ValueSpan`, `ValueReplaced`), follows from `JsonInv`: the tokens are those of the text. The invariants over
the steps are `FoundInv`, that the last search ended on a key of an object, which takes `FindInv`, and
`KeptInv`, that of the text kept, the fragment's result and the candidate each is JSON if all that went
into it was.

`EditsEndWhole` says of every edit that it is whole or has not happened: the copy of the parser that is
restored is the one that was made when the edit began, through the parse of the fragment and of the
candidate (`StartKeepsOwner`, `WholeSteps`), and over a text that is JSON only a fragment of another type
than was asked for is a reason to go back (`RefusedEnd`, by `NothingRefused` and `JsonInv`).

**JsonPath** (`JsonPathProofs`). `PathsLeaveParser` proves that a parser which is asked for paths
implements `JsonParser` (`PathSpec => Spec`), so that the results above hold with lookups between
parses and edits (`PathTypeCorrect`, `PathLinksSound`, `PathKeysAreFound`,
`PathTextsAreParsed`, `PathTextsStayJson`, `PathEditsEndWhole`). `AnswersStayGood` adds that the token a
lookup leads to is one of the text at hand until the path is closed: its invariant, `AnswerInv`,
says that while a path is open nothing is parsed or edited and the index is that of the text.

**RuleCatalog** (`RuleCatalogProofs`, from `CatalogAssumption`). `TypeCorrect`: `TypeOK` is inductive;
it holds `RemovalIsDated`, and with it what the two loops write has one shape. `QuietMatches` rests on
`LastWriter`: of every rule some worker's idea is fresh, which means that it has not looked for the
documents yet, has found the document as it still is, or has read what the document says. A step that
writes a document makes its own worker's idea fresh, a worker that starts over is fresh, and a merge
that writes nothing has found a document that agrees with its file. When all are done nothing is left
to visit, and so the fresh idea is what the catalog says. The argument needs no order of the writes
and no clock: a late replica may write older content, but then it has not read what is on disk.

**MessageParsing** (`MessageParsingProofs`, from `TreesAssumption`, `FilesAssumption` and
`SectionsAssumption`). Every result has an invariant of its own over the call stack, of any depth.
`TypeCorrect`: `Typed` says of every call what its slices are, and that a capture is a text of the
message, because `EnterCaptured` looks for it. `PositionsAreRight`: `Spelling` says of every slice of
every call, not of tokens only, that its offsets spell its text, for a slice becomes the text the
next call is cut from. `LocatorsEnd`: `Advancing` says that slices of a call do not overlap and that
there are no more of them than the locator has moved forward. `ExtractionIsRight`: the list is not
exact while sections are open, so `Recording` says what is still to be recorded (`Pending`: a section
on the stack that a call at or above it has matched); it needs `Nesting`, that the stack is a path in
the tree of a section of the rule. `PropertiesAreLate`: `Seeing` says that what is computed for a
section of the rule is computed when the section is left for good.

`FilesAreFollowed` is about loading, and holds for files in every order. `Following` says, of the
pass and the file at hand, which definitions have been read: the map has the last ruleset of each
name among those (`RulesetsRead`), and after the second pass has read a rule, its sections are bound
to what is `Meant`. That a definition is refused exactly when it is wrong needs `OpenNamesFail`: the
walk over a filter fails if and only if a group's name is not closed. The walk is a recursive function, and
there is no induction principle to cite for it; instead the walk is shown to exist for every length,
and the smallest place where a claim about it fails is led to a contradiction (`WalksExist`,
`WalkingNext`). The attempt showed that the property had been stated too strongly: a section without
a ruleset, whose file names none, is refused when some ruleset has an empty name. `SectionIsWrong`
says so now.

`CapturesAreTheirs` relates two walks over different texts: the loader's over the filter, and the
engine's over what the loader's puts out. The first counts the groups that the pattern has
(`Numbering`), and puts every character out that it does not skip (`NextOut`). `SameGroup` says that
at such a character both see a group begin or neither, for which what comes next in both texts must
be compared; then `Follower`, that the states of the two agree and that what the second has put out,
with the rest of the pattern rewritten (`Only`), is the whole, holds from one character to the next.
This attempt failed at first, too: `(?<n>?x)` becomes `(?x)` when the name is taken out, a
parenthesis that the engine does not count. `IsUsual` leaves such a pattern out now, and the run's
patterns include it.

**ReportCorrelation** (`ReportCorrelationProofs`, from `CorrelationAssumption`). `TypeCorrect`.
`ContextsAreRight`: a reference that was checked leads to one entry (`FoundOnce`), therefore to the
same one by way of the system and by way of the collection. `GroupsAreRight`: `Exact(n)` says of
every key that its group holds the findings of that key among the first n, in their order and with
their systems, each once. `CorrelationsReported`: `Listing` says that of what was tried, all that
qualifies is reported once and nothing else; which key is next is said by the sets of keys that sort
before a key (`KeysBefore`), a strict order by assumption. The list of a group's sources is a
recursive function again, treated as the walk is (`IsFirsts`).

Only model-checked: liveness and `ENABLED`, which are out of the prover's reach, and what is an
induction over data of any shape: that scanner and parser follow their grammars and an expression
keeps its meaning, that paths are compiled and lead where they should, and that the output reads back. An induction over the length of one list or text can be done by hand
with a smallest counterexample, as above; over syntax trees this was not tried.

## 5. What is not modelled

- The results API: it only reads.
- The message loader and `load_example_messages`: they read files into lists and keep nothing.
- The command line programs (of the regex-parser: argument parsing, the signal handler, the
  repetition of a scan in test mode, the compilation of a scan's expressions), the container
  scripts, benchmarks and fixtures. `RootPath` of the regex-parser is called by no program.
- Of jsmn: the copy to and from a file (`serialise`, `deserialise`), the growth of the token array,
  blanks, escapes within quoted labels, and the hash of a path: a path is its labels, collisions of
  hashes are left out, those of labels are not. An integer is too large for an `int`, never for a
  `long`. `render_number` is called by nobody.
- `MessageParsing` does not use `JsonParser`: a JSON section chooses among the outcomes it can have.
- Of the dynamic properties: the legacy classes `BoolExpression`, `Condition`, `Assignment` and
  `Variable`, which the compiled expressions replaced; the buffers, variants and message texts that
  are generated around the tables. A token whose text has a prefix `0x` or `0b` is a string there,
  because `bind_token` takes only digits for an int: no expression reads it as a number.
- Of the printed text: indentation and line breaks, and fields that nothing refers to. The control
  characters that are not escaped are one character, `Control`. Four copies of `escape_json_string` and two of
  the tree renderer are one definition each: they are the same code.
- Regular expressions, YAML and the JSON library of the loaders: what they find is an input.

## 6. What the code does that its documents do not say

Met while modelling; the model does as the code does, and no run is about it.

- Rule files: a pattern two levels below its root inherits the root's tokens twice, so that it counts
  as longer than it is and, with an assertion on one of them, matches no ordinary message. Of two
  patterns with one id the second is dropped, but its examples go to the first. A missing key ends
  the program with an exception that nothing catches. A property without tokens is dropped silently.
- Rule matching: examples are validated with the anchors of all patterns, a log scan checks none; an
  accepted example therefore only promises something for `-m`.
- Property language: integer literals are decimal only (`subprojects/regex-parser/README.md:324` says
  otherwise), but the token text `010` is octal. Behind a
  leading 0 that no `x` or `b` follows, `is_number` passes over a character unread
  (`Utils/Numbers.h:35`): `08` is octal and 0, and for the text `0` itself it passes the end and goes
  on in memory that belongs to no text, so that a condition on the number 0 may fail by what is
  there (the comment on it says that zero is returned only for what is no number). A division by
  zero ends the program. `5 - ("a" - 1)` reads an `int` nobody wrote. Of values of different types
  both `<=` and `>=` hold. An identifier that is unknown fails the expression in the branch that is
  not taken, too.
- Rule loader: sections of files that have the parser `mixed` never have a ruleset. What an example
  expects of properties is ignored if the ruleset has no dynamic properties.
- Bundle loader: an empty reference is not checked; the network of a collection may lie at another
  site than the collection's.
- Output: `escape_json_string` writes control characters other than five as they are
  (`ReportAnalyzer.cpp:63` and its three copies). With one in a bundle, written `\u001b` there, what is
  printed is no JSON, and `json.loads` in the worker (`parser_worker/worker.py:77`) fails.
- Output: a property `a.raw` beside a value `a` that also has children gives the key `raw` twice.
- jsmn: a colon behind a bracket that closes makes what follows a part of the closed container, in an
  accepted text that is not JSON; `find_key_in_object` does not look there.
- JSONPath: a filter has no effect on what is found. `[*]` and `[]` are a label that no element has,
  and `$` alone finds no container. A comparison with the path is false until one with a string has
  rendered the entry; single-quoted and numeric filter values never equal anything. The member
  `"[0]"` of an object and element 0 of an array are one path.

## 7. What is left

1. A catalog of several files below two roots, with report rules, as an instance of its own.
