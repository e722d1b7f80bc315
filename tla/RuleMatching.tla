---------------------------- MODULE RuleMatching ----------------------------
(* How the regex-parser subproject finds the pattern of a message.

   A rule holds patterns, the most specific first, and the patterns of one rule
   share their Token objects: what a pattern that failed has captured is still
   there when the next pattern is tried, and is taken without a second search
   (Token::match).  Rule::match resets the tokens before the first pattern and
   only then.  The messages of one process are matched one after the other
   against the same objects: first the examples of the rules, which the loader
   validates, then the one message of the command line or the lines of the log
   files, whose rules the anchor scan selects.

   A message is abstracted to its header, the anchor expressions that occur in
   it, and to its fields in the order of the text; a token's expression matches
   exactly the fields of that name, an asserted one those that also have the
   asserted value.                                                          *)
EXTENDS Naturals, Sequences, FiniteSets

CONSTANTS NumRules,     \* rules are numbered in the order their files were read
          Patterns,     \* the patterns of all rules
          Tokens,       \* names of tokens, local to a rule
          Values,       \* values of fields
          Anchors,      \* anchor expressions
          PatternsOf,   \* PatternsOf[r]: the patterns of rule r
          TokensOf,     \* TokensOf[p]: the token list, what p inherits first
          AssertOf,     \* AssertOf[p][t]: the value p asserts of t, or NoAssert
          AnchorsOf,    \* AnchorsOf[p]: the anchor expressions of p, in order
          Precedence,   \* Precedence[p]: the lower is tried first
          MatchType,    \* MatchType[p]: "sequential" or "random"
          ReadsOf,      \* ReadsOf[p]: the tokens the properties of p read
          NoAssert,
          Messages,     \* the messages that may arrive
          MaxMessages   \* bound: examples and messages of one process

Rules == 1..NumRules
Fields == [name: Tokens, value: Values]

ASSUME RulesAssumption ==
  /\ NumRules \in Nat
  /\ PatternsOf \in [Rules -> SUBSET Patterns]
  /\ \A r \in Rules : IsFiniteSet(PatternsOf[r])
  /\ NoAssert \notin Values
  /\ TokensOf \in [Patterns -> Seq(Tokens)]
  /\ AssertOf \in [Patterns -> [Tokens -> Values \cup {NoAssert}]]
  /\ AnchorsOf \in [Patterns -> Seq(Anchors)]
  /\ Precedence \in [Patterns -> Nat]
  /\ MatchType \in [Patterns -> {"sequential", "random"}]
  /\ ReadsOf \in [Patterns -> SUBSET Tokens]
  /\ Messages \subseteq [header: Seq(Anchors), fields: Seq(Fields)]
  /\ MaxMessages \in Nat

VARIABLES
  order,     \* order[r]: the patterns of r as sort_patterns left them
  mode,      \* "example", "again", "single" or "scan": who matches the message
  number,    \* how many messages this process has seen
  message,   \* the current one
  pc,        \* "idle", "rule", "pattern", "token", "rejected"
  waiting,   \* rules still to be tried for this message
  rule,      \* the rule being tried
  pattern,   \* position in order[rule] of the pattern being tried
  token,     \* position in its token list
  offset,    \* Match::mOffset: how many fields lie behind the last capture
  matched,   \* matched[r][t]: Token::mMatched
  captured,  \* captured[r][t]: the message and field Regex::mResult points to
  reports    \* what the rules reported for this message

vars == <<order, mode, number, message, pc, waiting, rule, pattern, token,
          offset, matched, captured, reports>>

---------------------------------------------------------------------------
(* Helpers                                                                 *)

NoMessage == [header |-> <<>>, fields |-> <<>>]
Nowhere == [message |-> 0, at |-> 0]

\* sort_patterns: more tokens first, then the lower precedence.
Before(p, q) ==
  IF Len(TokensOf[p]) # Len(TokensOf[q]) THEN Len(TokensOf[p]) > Len(TokensOf[q])
                                         ELSE Precedence[p] < Precedence[q]

\* Plausible bug: the comparison of sort_patterns is the wrong way round.
ReversedOrders(r) ==
  LET n == Cardinality(PatternsOf[r])
  IN {o \in [1..n -> PatternsOf[r]] :
        \A i, j \in 1..n : i < j => o[i] # o[j] /\ ~Before(o[i], o[j])}

\* The patterns come out of the map by their ids and the sort is not stable:
\* patterns that compare equal may be in either order.
SortedOrders(r) ==
  LET n == Cardinality(PatternsOf[r])
  IN {o \in [1..n -> PatternsOf[r]] :
        \A i, j \in 1..n : i < j => o[i] # o[j] /\ ~Before(o[j], o[i])}

Increasing(f, n) == \A i, j \in 1..n : i < j => f[i] < f[j]

\* AnchorPattern::match: every expression of the anchor, one behind the other
\* in a sequential pattern.
Anchored(p, m) ==
  LET a == AnchorsOf[p] IN
  \E f \in [1..Len(a) -> 1..Len(m.header)] :
    /\ \A i \in 1..Len(a) : m.header[f[i]] = a[i]
    /\ MatchType[p] = "sequential" => Increasing(f, Len(a))

\* The expression get_anchor_regex_pattern joins for the scan: always in order,
\* and one that is repeated at once is written once.
ScanHit(p, m) ==
  LET a == AnchorsOf[p] IN
  \E f \in [1..Len(a) -> 1..Len(m.header)] :
    /\ \A i \in 1..Len(a) : m.header[f[i]] = a[i]
    /\ \A i \in 1..(Len(a) - 1) :
         IF a[i] = a[i+1] THEN f[i] <= f[i+1] ELSE f[i] < f[i+1]

Current == order[rule][pattern]
CurrentToken == TokensOf[Current][token]
Asserted == AssertOf[Current][CurrentToken]

\* Where a search for token t, with value a if one is asserted, may end.
Candidates(t, a, from) ==
  {i \in 1..Len(message.fields) :
     /\ i > from
     /\ message.fields[i].name = t
     /\ a # NoAssert => message.fields[i].value = a}

\* Match::data or Match::raw: a random search always starts at the front.
SearchFrom == IF MatchType[Current] = "sequential" THEN offset ELSE 0

---------------------------------------------------------------------------
(* Actions                                                                 *)

Init ==
  /\ order \in {o \in [Rules -> UNION {SortedOrders(r) : r \in Rules}] :
                  \A r \in Rules : o[r] \in SortedOrders(r)}
  /\ mode = "example" /\ number = 0 /\ message = NoMessage
  /\ pc = "idle" /\ waiting = {}
  /\ rule = 1 /\ pattern = 1 /\ token = 1 /\ offset = 0
  /\ matched = [r \in Rules |-> [t \in Tokens |-> FALSE]]
  /\ captured = [r \in Rules |-> [t \in Tokens |-> Nowhere]]
  /\ reports = {}

\* The loader validates examples; then main parses one message, or scans lines.
NextModes == CASE mode \in {"example", "again"} -> {"example", "single", "scan"}
               [] mode = "scan"               -> {"scan"}
               [] OTHER                       -> {}

\* collect_matches and parse_message try every rule; a line of a log file goes
\* to the rules whose anchors the scan found.
Selected(how, m) ==
  IF how = "scan" THEN {r \in Rules : \E p \in PatternsOf[r] : ScanHit(p, m)}
                  ELSE Rules

Receive ==
  /\ pc = "idle" /\ number < MaxMessages
  /\ \E how \in NextModes, m \in Messages :
       /\ mode' = how
       /\ message' = m
       /\ waiting' = Selected(how, m)
  /\ number' = number + 1
  /\ pc' = "rule"
  /\ UNCHANGED <<order, rule, pattern, token, offset, matched, captured, reports>>

\* The rules of a scan are reported in the order in which their anchors end.
MayBeNext(r) == mode = "scan" \/ \A s \in waiting : r <= s

\* Plausible bug: Rule::match does not reset the tokens.
ClearedNever(r) == matched

\* Rule::match, up to the loop: reset() clears the tokens of all patterns.
Cleared(r) == [matched EXCEPT ![r] = [t \in Tokens |-> FALSE]]

TryRule ==
  /\ pc = "rule"
  /\ \E r \in waiting :
       /\ MayBeNext(r)
       /\ rule' = r
       /\ waiting' = waiting \ {r}
       /\ matched' = Cleared(r)
  /\ pattern' = 1
  /\ pc' = "pattern"
  /\ UNCHANGED <<order, mode, number, message, token, offset, captured, reports>>

\* Plausible bug: Match::reset is forgotten between two patterns.
StartPatternKeepingOffset ==
  /\ pc = "pattern" /\ pattern <= Len(order[rule])
  /\ UNCHANGED offset
  /\ IF mode = "scan" \/ Anchored(Current, message)
     THEN pc' = "token" /\ token' = 1 /\ UNCHANGED pattern
     ELSE pattern' = pattern + 1 /\ UNCHANGED <<pc, token>>
  /\ UNCHANGED <<order, mode, number, message, waiting, rule, matched, captured, reports>>

\* Pattern::match, up to the loop.  Only the scan leaves the anchor unchecked.
StartPattern ==
  /\ pc = "pattern" /\ pattern <= Len(order[rule])
  /\ offset' = 0
  /\ IF mode = "scan" \/ Anchored(Current, message)
     THEN pc' = "token" /\ token' = 1 /\ UNCHANGED pattern
     ELSE pattern' = pattern + 1 /\ UNCHANGED <<pc, token>>
  /\ UNCHANGED <<order, mode, number, message, waiting, rule, matched, captured, reports>>

\* Rule::match ends without a pattern.
RuleFails ==
  /\ pc = "pattern" /\ pattern > Len(order[rule])
  /\ pc' = "rule"
  /\ UNCHANGED <<order, mode, number, message, waiting, rule, pattern, token,
                 offset, matched, captured, reports>>

\* Token::match: a token that an earlier pattern has matched is not searched for
\* again.  One with an assertion always is, by Regex::match(m, assert).
Remembered == matched[rule][CurrentToken] /\ Asserted = NoAssert

UseRemembered ==
  /\ pc = "token" /\ token <= Len(TokensOf[Current])
  /\ Remembered
  /\ token' = token + 1
  /\ UNCHANGED <<order, mode, number, message, pc, waiting, rule, pattern, offset,
                 matched, captured, reports>>

\* The search finds the first field behind the offset, which moves behind it.
MatchToken ==
  /\ pc = "token" /\ token <= Len(TokensOf[Current])
  /\ ~Remembered
  /\ \E i \in Candidates(CurrentToken, Asserted, SearchFrom) :
       /\ \A j \in Candidates(CurrentToken, Asserted, SearchFrom) : i <= j
       /\ captured' = [captured EXCEPT ![rule][CurrentToken] =
                         [message |-> number, at |-> i]]
       /\ offset' = i
  /\ matched' = [matched EXCEPT ![rule][CurrentToken] = TRUE]
  /\ token' = token + 1
  /\ UNCHANGED <<order, mode, number, message, pc, waiting, rule, pattern, reports>>

\* A token that is not found ends the pattern.  What the others captured stays.
PatternFails ==
  /\ pc = "token" /\ token <= Len(TokensOf[Current])
  /\ ~Remembered
  /\ Candidates(CurrentToken, Asserted, SearchFrom) = {}
  /\ matched' = [matched EXCEPT ![rule][CurrentToken] = FALSE]
  /\ offset' = 0
  /\ pattern' = pattern + 1
  /\ pc' = "pattern"
  /\ UNCHANGED <<order, mode, number, message, waiting, rule, token, captured, reports>>

\* The pattern matches: the rule reports it with the values its tokens and its
\* properties read now.  Only parse_message stops at the first rule.
PatternMatches ==
  /\ pc = "token" /\ token > Len(TokensOf[Current])
  /\ reports' = reports \cup
       {[rule |-> rule, pattern |-> pattern, values |-> captured[rule]]}
  /\ waiting' = IF mode = "single" THEN {} ELSE waiting
  /\ pc' = "rule"
  /\ UNCHANGED <<order, mode, number, message, rule, pattern, token, offset,
                 matched, captured>>

\* An example that one rule has matched is matched again, by one rule only, to
\* look at the values.
Rematch ==
  /\ pc = "rule" /\ waiting = {} /\ mode = "example"
  /\ \E w \in reports : reports = {w}
  /\ \E r \in Rules : waiting' = {r}
  /\ mode' = "again"
  /\ reports' = {}
  /\ UNCHANGED <<order, number, message, pc, rule, pattern, token, offset, matched, captured>>

\* The message is done with.
Finish ==
  /\ pc = "rule" /\ waiting = {}
  /\ mode # "example"
  /\ mode = "again" => reports # {}
  /\ pc' = "idle"
  /\ message' = NoMessage /\ reports' = {}
  /\ UNCHANGED <<order, mode, number, waiting, rule, pattern, token, offset,
                 matched, captured>>

\* validate_examples throws: no match, several, or not what was expected.
RejectExample ==
  /\ pc = "rule" /\ waiting = {} /\ mode \in {"example", "again"}
  /\ pc' = "rejected"
  /\ UNCHANGED <<order, mode, number, message, waiting, rule, pattern, token,
                 offset, matched, captured, reports>>

Next ==
  \/ Receive \/ TryRule \/ StartPattern \/ RuleFails
  \/ UseRemembered \/ MatchToken \/ PatternFails \/ PatternMatches
  \/ Rematch \/ Finish \/ RejectExample

Spec == Init /\ [][Next]_vars

---------------------------------------------------------------------------
(* Properties                                                              *)

Captures == [message: 0..MaxMessages, at: Nat]

\* Type invariant: the current pattern and token exist while they are used, and
\* a search never starts behind the end of the message (Match::data).
TypeOK ==
  /\ order \in [Rules -> Seq(Patterns)]
  /\ mode \in {"example", "again", "single", "scan"}
  /\ number \in 0..MaxMessages
  /\ message \in Messages \cup {NoMessage}
  /\ pc \in {"idle", "rule", "pattern", "token", "rejected"}
  /\ waiting \subseteq Rules
  /\ pattern \in Nat \ {0} /\ token \in Nat \ {0} /\ offset \in Nat
  /\ matched \in [Rules -> [Tokens -> BOOLEAN]]
  /\ captured \in [Rules -> [Tokens -> Captures]]
  /\ reports \subseteq [rule: Rules, pattern: Nat, values: [Tokens -> Captures]]
  /\ pc \in {"pattern", "token"} => rule \in Rules /\ pattern <= Len(order[rule]) + 1
  /\ pc = "token" => /\ pattern <= Len(order[rule])
                     /\ token <= Len(TokensOf[Current]) + 1
                     /\ offset <= Len(message.fields)

\* Value c of token t, read by pattern p, was captured from the current message,
\* from a field of that token, with the value p asserts of it.
GoodCapture(p, t, c) ==
  /\ c.message = number
  /\ c.at \in DOMAIN message.fields
  /\ message.fields[c.at].name = t
  /\ AssertOf[p][t] # NoAssert => message.fields[c.at].value = AssertOf[p][t]

\* What a rule reports for a message was found in that message: every token of
\* the pattern, with the asserted value, although the Token objects are shared
\* by the patterns of the rule and reused for every message (Token::mMatched).
ReportsAreJustified ==
  \A w \in reports : w.pattern \in DOMAIN order[w.rule] /\
    LET p == order[w.rule][w.pattern] IN
    \A i \in DOMAIN TokensOf[p] : GoodCapture(p, TokensOf[p][i], w.values[TokensOf[p][i]])

\* Where the tokens of p may lie in the message, searched for without memory.
Embeddings(p) ==
  {f \in [DOMAIN TokensOf[p] -> DOMAIN message.fields] :
     /\ \A i \in DOMAIN TokensOf[p] :
          /\ message.fields[f[i]].name = TokensOf[p][i]
          /\ AssertOf[p][TokensOf[p][i]] # NoAssert =>
               message.fields[f[i]].value = AssertOf[p][TokensOf[p][i]]
     /\ MatchType[p] = "sequential" => Increasing(f, Len(TokensOf[p]))}

Eligible(p) == (mode = "scan" \/ Anchored(p, message)) /\ Embeddings(p) # {}

\* What earlier patterns left in the shared tokens never costs a match: if some
\* pattern of a tried rule fits the message, that rule reports it or a pattern
\* that is to be preferred - or an earlier rule does, when the first one wins.
NothingMissed ==
  pc = "rule" /\ waiting = {} /\ mode # "again" =>
    \A r \in Selected(mode, message) : \A k \in DOMAIN order[r] :
      Eligible(order[r][k]) =>
        \E w \in reports :
          \/ w.rule = r /\ ~Before(order[r][k], order[r][w.pattern])
          \/ mode = "single" /\ w.rule < r

\* README.md:100 of the subproject: the tokens of a sequential pattern are
\* evaluated in the order they are declared, and a token in front of one that is
\* declared earlier would cause the pattern to fail.
SequentialInOrder ==
  \A w \in reports :
    LET p == order[w.rule][w.pattern] IN
    MatchType[p] = "sequential" =>
      \A i, j \in DOMAIN TokensOf[p] :
        i < j /\ TokensOf[p][i] # TokensOf[p][j] =>
          w.values[TokensOf[p][i]].at < w.values[TokensOf[p][j]].at

\* README.md of the subproject: properties are evaluated after a pattern has
\* matched and after token values have been extracted - from this message.
PropertiesReadThisMessage ==
  \A w \in reports :
    \A t \in ReadsOf[order[w.rule][w.pattern]] : w.values[t].message = number

=============================================================================
