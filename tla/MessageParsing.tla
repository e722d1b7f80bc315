--------------------------- MODULE MessageParsing ---------------------------
(* How ParserFramework, once its rules are loaded, turns one message into
   tokens, matched rule ids and dynamic properties.

   The first message rule with a filter that matches takes the message.  Its
   sections form trees: a section is cut out of the text of its parent by a
   locator expression, once or repeatedly, and is either parsed by an engine or
   holds child sections.  Every slice carries its text and its offset in the
   message, so that a token found in a slice of a slice still says where in the
   message it stands.  When all the slices of a section are parsed and one of
   them gave a token, the section's ruleset is recorded as matched and its
   dynamic properties are evaluated.

   What an expression finds in a text is a choice among the pieces of the
   text; a text is a sequence of letters, long enough for a piece to occur in
   it twice.  Sections are the nodes of the trees: a ruleset that two sections
   refer to is two nodes with one ruleset id.                               *)
EXTENDS Naturals, Sequences, FiniteSets, RuleLoading

CONSTANTS Letters,      \* what texts are made of
          Messages,     \* the messages that may arrive
          Ids,          \* ids of message rules and rulesets
          Names,        \* names of captures and of dynamic properties
          NoId,         \* the id of a section without a ruleset: empty
          NoName,       \* the extract name of a section without one: empty
          ExtractOf,    \* ExtractOf[s]: the capture a section of a rule is
          LocatorOf,    \* LocatorOf[s]: "none", "once" or "multiple"
          Unset         \* the address of a message less the null address

\* What rules and rulesets say, as far as parsing goes by it; an id may be empty.
IsRuleset(d) == d.id \in Ids \cup {NoId} /\ d.tokenRules \in Nat /\ d.assigns \subseteq Names
IsMessageRule(r) ==
  /\ r.id \in Ids \cup {NoId} /\ r.listsSections \in BOOLEAN
  /\ \A k \in DOMAIN r.filters :
       LET captured == Normalized(r.filters[k]).captures IN
       /\ IsPattern(r.filters[k])
       /\ \A c \in DOMAIN captured : captured[c][1] \in Names
IsFile(f) ==
  /\ f.messages \in Seq(DOMAIN RuleOf)
  /\ DOMAIN f.rulesets = 1..Len(f.rulesets) /\ Len(f.rulesets) \in Nat
  /\ \A k \in DOMAIN f.rulesets : IsRuleset(f.rulesets[k])

FilesAssumption ==
  /\ \A r \in DOMAIN RuleOf : IsMessageRule(RuleOf[r])
  /\ \A i \in Inputs :
       /\ DOMAIN i.files = 1..Len(i.files) /\ Len(i.files) \in Nat
       /\ \A f \in DOMAIN i.files : IsFile(i.files[f])
       /\ i.added \in Seq(DOMAIN RuleOf)
  /\ DOMAIN Preset \subseteq Sections /\ \A s \in DOMAIN Preset : IsRuleset(Preset[s])
ASSUME FilesAssumption

SectionsAssumption ==
  /\ Messages \subseteq Seq(Letters)
  /\ NoId \notin Ids /\ NoName \notin Names
  /\ EngineOf \in [Sections -> Engines \cup {"mixed", "other"}]
  /\ ExtractOf \in [Sections -> Names \cup {NoName}]
  /\ LocatorOf \in [Sections -> {"none", "once", "multiple"}]
  /\ Unset \in Nat /\ \A m \in Messages : Len(m) < Unset
ASSUME SectionsAssumption

VARIABLES message,    \* the text handed to parse_message
          rule,       \* the message rule that is tried or has matched
          pc,         \* "filter", "sections" or "done"
          captures,   \* what the filter captured: name -> text
          next,       \* the next section of the rule
          stack,      \* the calls of parse_section_slices, innermost first
          tokens,     \* ParseResult::tokens
          extraction, \* ParseResult::token_extraction
          properties, \* ParseResult::properties
          errors      \* the kinds of ParseResult::errors

result == <<tokens, extraction, properties>>
parsing == <<message, rule, pc, captures, next, stack, tokens, extraction,
             properties, errors>>
vars == <<loading, parsing>>

\* What a rule and a section are made of: the names its filters capture, and
\* what the ruleset bound to the section gives it.
SectionsOf(r) == RuleOf[rules[r]].sections
FiltersOf(r) ==
  LET filters == RuleOf[rules[r]].filters
      NamesIn(filter) == {filter.captures[k][1] : k \in DOMAIN filter.captures}
  IN {NamesIn(Normalized(filters[k])) : k \in DOMAIN filters}
RulesetOf(s) == IF s \in DOMAIN bound THEN bound[s].id ELSE NoId
TokenRulesOf(s) == IF s \in DOMAIN bound THEN bound[s].tokenRules ELSE 0
AssignsOf(s) == IF s \in DOMAIN bound THEN bound[s].assigns ELSE {}

-----------------------------------------------------------------------------
(* Texts and what expressions find in them                                   *)

Piece(text, i, j) == [from |-> i, to |-> j, text |-> SubSeq(text, i + 1, j)]

\* A group that takes no part in the match: a null piece, whose end is its
\* distance from the message.
UnsetPiece == [from |-> Unset, to |-> Unset, text |-> <<>>]

\* search_capture: the pieces an expression may capture from offset on.
Pieces(text, offset) ==
  {UnsetPiece} \cup UNION {{Piece(text, i, j) : j \in i..Len(text)} : i \in offset..Len(text)}

\* A piece of a text that starts at base in the message.
At(base, piece) ==
  [from |-> base + piece.from, to |-> base + piece.to, text |-> piece.text]

\* std::string::find: where a text first occurs in the message.
FirstAt(text) ==
  CHOOSE i \in 0..Len(message) :
    /\ SubSeq(message, i + 1, i + Len(text)) = text
    /\ \A j \in 0..(i - 1) : SubSeq(message, j + 1, j + Len(text)) # text

\* A call of parse_section_slices, with the loop of locate_slices before it.
Call(s, text, base) ==
  [section |-> s, text |-> text, base |-> base, offset |-> 0,
   locating |-> TRUE, slices |-> <<>>, slice |-> 1, child |-> 1,
   matched |-> FALSE]

top == Head(stack)
SetTop(call) == stack' = <<call>> \o Tail(stack)

\* Mutant: a section without a ruleset is recorded too.
WithIdEvenEmpty(ids, id) ==
  IF \E k \in DOMAIN ids : ids[k] = id THEN ids ELSE Append(ids, id)

\* record_matched_rule_id
WithId(ids, id) ==
  IF id = NoId \/ \E k \in DOMAIN ids : ids[k] = id THEN ids ELSE Append(ids, id)

Report(kind) == errors' = errors \cup {kind}
MayReport(kind) == errors' \in {errors, errors \cup {kind}}

Init ==
  /\ InitLoading
  /\ message \in Messages
  /\ rule = 1 /\ pc = "filter"
  /\ captures = <<>> /\ next = 1 /\ stack = <<>>
  /\ tokens = <<>> /\ extraction = <<>> /\ properties = <<>> /\ errors = {}

-----------------------------------------------------------------------------
(* The rule that takes the message                                           *)

RuleRejects ==
  /\ pc = "filter" /\ rule <= Len(rules)
  /\ rule' = rule + 1
  /\ MayReport("filter")
  /\ UNCHANGED <<message, pc, captures, next, stack, tokens, extraction, properties>>

\* A capture whose group does not exist ends the captures with an error, and
\* the message is matched with those bound before it.
RuleMatches ==
  /\ pc = "filter" /\ rule <= Len(rules)
  /\ \E names \in FiltersOf(rule) : \E set \in SUBSET names :
       /\ captures' \in [set -> {p.text : p \in Pieces(message, 0)}]
       /\ IF set = names THEN MayReport("filter") ELSE Report("filter")
  /\ pc' = "sections"
  /\ extraction' = WithId(<<>>, RuleOf[rules[rule]].id)
  /\ UNCHANGED <<message, rule, next, stack, tokens, properties>>

NoRuleMatches ==
  /\ pc = "filter" /\ rule > Len(rules)
  /\ pc' = "done"
  /\ Report("unmatched")
  /\ UNCHANGED <<message, rule, captures, next, stack, tokens, extraction, properties>>

-----------------------------------------------------------------------------
(* The sections of the rule, in order                                        *)

Section == SectionsOf(rule)[next]
Entering == pc = "sections" /\ stack = <<>> /\ next <= Len(SectionsOf(rule))

\* The captured text is all that is kept of a capture: its place in the
\* message is looked up by its first occurrence.
EnterCaptured ==
  /\ Entering /\ ExtractOf[Section] \in DOMAIN captures
  /\ LET text == captures[ExtractOf[Section]]
         slice == Piece(message, FirstAt(text), FirstAt(text) + Len(text))
     IN stack' = <<[Call(Section, message, 0) EXCEPT !.locating = FALSE,
                                                     !.slices = <<slice>>]>>
  /\ next' = next + 1
  /\ UNCHANGED <<message, rule, pc, captures, result, errors>>

EnterMissing ==
  /\ Entering /\ ExtractOf[Section] \notin DOMAIN captures \cup {NoName}
  /\ next' = next + 1
  /\ Report("section")
  /\ UNCHANGED <<message, rule, pc, captures, stack, result>>

EnterWhole ==
  /\ Entering /\ ExtractOf[Section] = NoName
  /\ stack' = <<Call(Section, message, 0)>>
  /\ next' = next + 1
  /\ UNCHANGED <<message, rule, pc, captures, result, errors>>

Finish ==
  /\ pc = "sections" /\ stack = <<>> /\ next > Len(SectionsOf(rule))
  /\ pc' = "done"
  /\ UNCHANGED <<message, rule, captures, next, stack, result, errors>>

-----------------------------------------------------------------------------
(* The slices of a section                                                   *)

Locating == stack # <<>> /\ top.locating
Locator == LocatorOf[top.section]

NoLocator ==
  /\ Locating /\ Locator = "none"
  /\ SetTop([top EXCEPT !.locating = FALSE,
               !.slices = <<At(top.base, Piece(top.text, 0, Len(top.text)))>>])
  /\ UNCHANGED <<message, rule, pc, captures, next, result, errors>>

\* An expression that finds no more ends the search; one that does not compile
\* fails before the first slice.
LocateNothing ==
  /\ Locating /\ Locator # "none"
  /\ SetTop([top EXCEPT !.locating = FALSE])
  /\ IF top.slices = <<>> THEN MayReport("locator") ELSE UNCHANGED errors
  /\ UNCHANGED <<message, rule, pc, captures, next, result>>

\* Mutant: a search that made no progress is repeated.
GoesOnWithoutProgress(piece) ==
  Locator = "multiple" /\ piece.to <= Len(top.text)

\* An empty slice at the offset makes no progress and is the last one.
GoesOn(piece) ==
  Locator = "multiple" /\ piece.to > top.offset /\ piece.to <= Len(top.text)

LocateSlice ==
  /\ Locating /\ Locator # "none"
  /\ \E piece \in Pieces(top.text, top.offset) :
       SetTop([top EXCEPT !.locating = GoesOn(piece), !.offset = piece.to,
                          !.slices = Append(@, At(top.base, piece))])
  /\ UNCHANGED <<message, rule, pc, captures, next, result, errors>>

-----------------------------------------------------------------------------
(* The engines                                                               *)

Parsing(engines) ==
  /\ stack # <<>> /\ ~top.locating /\ top.slice <= Len(top.slices)
  /\ EngineOf[top.section] \in engines
Slice == top.slices[top.slice]

\* Appends what an engine found in the slice, and goes on to the next slice
\* whether or not this one matched.
AddTokens(pieces) ==
  /\ tokens' = tokens \o
       [k \in 1..Len(pieces) |-> [section |-> top.section, text |-> pieces[k].text,
                                  from |-> Slice.from + pieces[k].from,
                                  to |-> Slice.from + pieces[k].to]]
  /\ SetTop([top EXCEPT !.slice = @ + 1, !.matched = @ \/ pieces # <<>>])

\* RegexParsingEngine: every token rule searches the slice from its start.
ParseRegex ==
  /\ Parsing({"regex"})
  /\ \E n \in 0..TokenRulesOf(top.section) :
       /\ \E pieces \in [1..n -> Pieces(Slice.text, 0)] : AddTokens(pieces)
       /\ IF n < TokenRulesOf(top.section) THEN MayReport("token") ELSE UNCHANGED errors
  /\ UNCHANGED <<message, rule, pc, captures, next, extraction, properties>>

\* The pairs of a text from left to right: a token is placed where its pair
\* stands, and its text is the value in it.
Pairs(text) ==
  LET placed == Pieces(text, 0) \ {UnsetPiece}
      In(pair) == {value \in placed : pair.from <= value.from /\ value.to <= pair.to}
  IN UNION {{[from |-> pair.from, to |-> pair.to, text |-> value.text] : value \in In(pair)} :
              pair \in {p \in placed : p.from < p.to}}

ParseKv ==
  /\ Parsing({"kv"})
  /\ \E n \in 0..Len(Slice.text) : \E pairs \in [1..n -> Pairs(Slice.text)] :
       /\ \A k \in 1..(n - 1) : pairs[k].to <= pairs[k + 1].from
       /\ AddTokens(pairs)
  /\ UNCHANGED <<message, rule, pc, captures, next, extraction, properties, errors>>

\* A slice that is not JSON, or that a match rule refuses, gives no token.
ParseJson ==
  /\ Parsing({"json"})
  /\ \E n \in 0..TokenRulesOf(top.section) :
       \E pieces \in [1..n -> Pieces(Slice.text, 0) \ {UnsetPiece}] : AddTokens(pieces)
  /\ MayReport("json")
  /\ UNCHANGED <<message, rule, pc, captures, next, extraction, properties>>

Children == ChildrenOf[top.section]

\* Mutant: the offset of the parent's slice is lost.
OpenChildAtOrigin ==
  /\ Parsing({"mixed"}) /\ top.child <= Len(Children)
  /\ stack' = <<Call(Children[top.child], Slice.text, 0),
                [top EXCEPT !.child = @ + 1]>> \o Tail(stack)
  /\ UNCHANGED <<message, rule, pc, captures, next, result, errors>>

\* A child section looks for its slices in the text of this slice.
OpenChild ==
  /\ Parsing({"mixed"}) /\ top.child <= Len(Children)
  /\ stack' = <<Call(Children[top.child], Slice.text, Slice.from),
                [top EXCEPT !.child = @ + 1]>> \o Tail(stack)
  /\ UNCHANGED <<message, rule, pc, captures, next, result, errors>>

NextSlice ==
  /\ Parsing({"mixed"}) /\ top.child > Len(Children)
  /\ SetTop([top EXCEPT !.slice = @ + 1, !.child = 1])
  /\ UNCHANGED <<message, rule, pc, captures, next, result, errors>>

-----------------------------------------------------------------------------
(* The end of a section                                                      *)

Finished == stack # <<>> /\ ~top.locating /\ top.slice > Len(top.slices)

\* Mutant: the last child decides whether the caller has matched.
ReturnLastChild ==
  stack' = IF Len(stack) = 1 THEN <<>>
           ELSE <<[stack[2] EXCEPT !.matched = top.matched]>> \o Tail(Tail(stack))

\* The caller goes on with its next child, matched if this section is.
Return ==
  stack' = IF Len(stack) = 1 THEN <<>>
           ELSE <<[stack[2] EXCEPT !.matched = @ \/ top.matched]>> \o Tail(Tail(stack))

LeaveUnmatched ==
  /\ Finished /\ ~top.matched
  /\ Return
  /\ UNCHANGED <<message, rule, pc, captures, next, result, errors>>

\* Mutant: the tokens are bound before the section is parsed.
ValueBoundEarly(s) ==
  [section |-> s, seen |-> Cardinality({k \in DOMAIN tokens : tokens[k].section # s})]

\* What the expressions of s assign is computed from the tokens so far.
Value(s) == [section |-> s, seen |-> Len(tokens)]

\* map::insert: a property that is there already keeps its value.
Inserted(names, value) ==
  [n \in DOMAIN properties \cup names |->
     IF n \in DOMAIN properties THEN properties[n] ELSE value]

LeaveMatched ==
  /\ Finished /\ top.matched
  /\ extraction' = WithId(extraction, RulesetOf(top.section))
  /\ \E names \in SUBSET AssignsOf(top.section) :
       /\ properties' = Inserted(names, Value(top.section))
       /\ IF AssignsOf(top.section) = {} THEN UNCHANGED errors ELSE MayReport("property")
  /\ Return
  /\ UNCHANGED <<message, rule, pc, captures, next, tokens>>

-----------------------------------------------------------------------------
Parse ==
  \/ RuleRejects \/ RuleMatches \/ NoRuleMatches
  \/ EnterCaptured \/ EnterMissing \/ EnterWhole \/ Finish
  \/ NoLocator \/ LocateNothing \/ LocateSlice
  \/ ParseRegex \/ ParseKv \/ ParseJson
  \/ OpenChild \/ NextSlice
  \/ LeaveUnmatched \/ LeaveMatched

Next ==
  \/ Load /\ UNCHANGED parsing
  \/ phase = "loaded" /\ Parse /\ UNCHANGED loading

Spec == Init /\ [][Next]_vars

-----------------------------------------------------------------------------
(* Properties                                                                *)

Texts == Seq(Letters)
PieceType == [from: Nat, to: Nat, text: Texts]
CallType ==
  [section: Sections, text: Texts, base: Nat, offset: Nat, locating: BOOLEAN,
   slices: Seq(PieceType), slice: Nat \ {0}, child: Nat \ {0}, matched: BOOLEAN]

\* Every variable has its type; the stack holds calls with their slices, and
\* the rule has a number while its sections are parsed.
TypeOK ==
  /\ phase \in {"rulesets", "messages", "loaded", "refused"}
  /\ file \in 1..(Len(input.files) + 1) /\ item \in Nat \ {0}
  /\ rules \in Seq(DOMAIN RuleOf) /\ DOMAIN bound \subseteq Sections
  /\ message \in Messages
  /\ rule \in 1..(Len(rules) + 1)
  /\ pc \in {"filter", "sections", "done"}
  /\ pc = "sections" => rule \in 1..Len(rules)
  /\ DOMAIN captures \subseteq Names
  /\ \A n \in DOMAIN captures : captures[n] \in Texts
  /\ next \in Nat \ {0}
  /\ stack \in Seq(CallType)
  /\ tokens \in Seq([section: Sections, from: Nat, to: Nat, text: Texts])
  /\ extraction \in Seq(Ids)
  /\ DOMAIN properties \subseteq Names
  /\ \A n \in DOMAIN properties : properties[n] \in [section: Sections, seen: Nat]
  /\ errors \subseteq {"filter", "unmatched", "section", "locator", "token", "json", "property"}

\* The text between two offsets of the message.
Spelled(from, to) == SubSeq(message, from + 1, to)

\* However deep the section a token was found in, and wherever its text was
\* captured or located, the offsets in the report spell the token's text in the
\* message; the offsets of a key-value token enclose it.
PositionsSpellTheText ==
  \A k \in DOMAIN tokens :
    LET t == tokens[k] IN
      IF EngineOf[t.section] = "kv"
      THEN \E i, j \in t.from..t.to : i <= j /\ Spelled(i, j) = t.text
      ELSE Spelled(t.from, t.to) = t.text

\* A repeated locator reads no letter of its text twice, and it ends: it finds
\* at most one slice more than the text has letters.
LocatorsAdvance ==
  \A d \in DOMAIN stack :
    LET call == stack[d] IN
      /\ \A i, j \in DOMAIN call.slices : i < j => call.slices[i].to <= call.slices[j].from
      /\ Len(call.slices) <= Len(call.text) + 1

\* A section has matched when a token was found in it or below it.
HasTokens(s) == \E k \in DOMAIN tokens : tokens[k].section \in Subtree[s]

\* When a message is done, its list of rule ids names its message rule and the
\* rulesets that gave it a token, all of them, no other, and each once.
ExtractionIsExact ==
  pc = "done" /\ rule <= Len(rules) =>
    /\ \A id \in Ids :
         (\E k \in DOMAIN extraction : extraction[k] = id) <=>
         (id = RuleOf[rules[rule]].id \/ \E s \in Sections : RulesetOf(s) = id /\ HasTokens(s))
    /\ \A j, k \in DOMAIN extraction : extraction[j] = extraction[k] => j = k

\* Dynamic properties are computed for a section that has matched, and those of
\* a section of the rule only when all that the section finds has been found.
PropertiesSeeTheirSection ==
  \A n \in DOMAIN properties :
    LET s == properties[n].section
        Own == {k \in DOMAIN tokens : tokens[k].section \in Subtree[s]}
    IN /\ \E k \in Own : k <= properties[n].seen
       /\ (\E i \in DOMAIN SectionsOf(rule) : SectionsOf(rule)[i] = s)
            => \A k \in Own : k <= properties[n].seen

=============================================================================
