-------------------------- MODULE RuleMatchingProofs --------------------------
(* Theorems about RuleMatching, for any rules, patterns and messages: what is
   reported was found in the message, and the memory of the shared tokens never
   costs a match.                                                            *)
EXTENDS RuleMatching, FiniteSetTheorems, TLAPS

---------------------------------------------------------------------------
(* The inductive invariant                                                 *)

\* The patterns stay as they were sorted.
Sorted ==
  \A r \in Rules : \A i, j \in DOMAIN order[r] : i < j => ~Before(order[r][j], order[r][i])

\* A token that is marked as matched was captured from the current message, and
\* those the current pattern is done with also have the asserted values.
Found(t, c) ==
  /\ c.message = number
  /\ c.at \in DOMAIN message.fields
  /\ message.fields[c.at].name = t

TokensAreCurrent ==
  /\ pc \in {"pattern", "token"} =>
       \A t \in Tokens : matched[rule][t] => Found(t, captured[rule][t])
  /\ pc = "token" =>
       \A i \in 1..(token - 1) :
         GoodCapture(Current, TokensOf[Current][i], captured[rule][TokensOf[Current][i]])

\* Between two messages there are no reports.
IdleIsClean == pc = "idle" => reports = {}

\* A search without memory would never be behind the one with memory.
NeverBehind ==
  pc = "token" /\ MatchType[Current] = "sequential" =>
    \A f \in Embeddings(Current) : offset <= IF token = 1 THEN 0 ELSE f[token - 1]

\* The patterns in front of the current one do not fit.
OthersDoNotFit ==
  pc \in {"pattern", "token"} =>
    \A k \in 1..(pattern - 1) : ~Eligible(order[rule][k])

\* Rule r is answered for: it, or an earlier rule where the first one wins,
\* reports the first pattern that fits or one in front of it.
Covered(r) ==
  \A k \in DOMAIN order[r] : Eligible(order[r][k]) =>
    \E w \in reports : \/ w.rule = r /\ w.pattern \in 1..k
                       \/ mode = "single" /\ w.rule < r

AllCovered ==
  /\ waiting \subseteq Selected(mode, message)
  /\ pc = "rule" => \A r \in Selected(mode, message) \ waiting : Covered(r)
  /\ pc \in {"pattern", "token"} =>
       /\ \A r \in Selected(mode, message) \ (waiting \cup {rule}) : Covered(r)
       /\ mode = "single" => \A s \in waiting : rule < s

\* When an example is matched again, only its own rule is asked.
RulesAreCovered == mode # "again" => AllCovered

---------------------------------------------------------------------------
(* Types                                                                   *)

LEMMA SelectedType ==
  ASSUME NEW how, NEW m PROVE Selected(how, m) \subseteq Rules
  BY DEF Selected

\* The sorted patterns of a rule form a sequence of its patterns.
LEMMA OrderType ==
  ASSUME NEW r \in Rules, NEW o \in SortedOrders(r)
  PROVE  /\ o \in Seq(Patterns)
         /\ \A i, j \in DOMAIN o : i < j => ~Before(o[j], o[i])
  <1>1. Cardinality(PatternsOf[r]) \in Nat
    BY FS_CardinalityType, RulesAssumption
  <1>2. PatternsOf[r] \subseteq Patterns
    BY RulesAssumption
  <1>3. o \in [1..Cardinality(PatternsOf[r]) -> Patterns]
    BY <1>2 DEF SortedOrders
  <1>4. o \in Seq(Patterns)
    BY <1>1, <1>3
  <1>5. \A i, j \in DOMAIN o : i < j => ~Before(o[j], o[i])
    BY <1>3 DEF SortedOrders
  <1> QED BY <1>4, <1>5

\* The current pattern and its token list, while there is one.
LEMMA CurrentType ==
  ASSUME TypeOK, pc \in {"pattern", "token"}, pattern <= Len(order[rule])
  PROVE  Current \in Patterns /\ TokensOf[Current] \in Seq(Tokens)
         /\ pattern \in DOMAIN order[rule] /\ rule \in Rules
  BY RulesAssumption DEF TypeOK, Current

LEMMA TokenType ==
  ASSUME TypeOK, pc = "token", token <= Len(TokensOf[Current])
  PROVE  /\ Current \in Patterns /\ rule \in Rules
         /\ TokensOf[Current] \in Seq(Tokens)
         /\ token \in DOMAIN TokensOf[Current]
         /\ CurrentToken \in Tokens
         /\ Asserted = AssertOf[Current][CurrentToken]
         /\ CurrentToken = TokensOf[Current][token]
  BY CurrentType DEF TypeOK, CurrentToken, Asserted

\* The fields of the current message.
LEMMA MessageType ==
  ASSUME TypeOK
  PROVE  message.fields \in Seq(Fields) /\ Len(message.fields) \in Nat
  <1>1. CASE message \in Messages
    <2>1. message \in [header: Seq(Anchors), fields: Seq(Fields)]
      BY <1>1, RulesAssumption
    <2>2. message.fields \in Seq(Fields)
      BY <2>1
    <2> QED BY <2>2
  <1>2. CASE message = NoMessage
    <2>1. message.fields = <<>>
      BY <1>2 DEF NoMessage
    <2> QED BY <2>1
  <1> QED BY <1>1, <1>2 DEF TypeOK

LEMMA InitTypeOK == Init => TypeOK /\ Sorted
  <1> SUFFICES ASSUME Init PROVE TypeOK /\ Sorted OBVIOUS
  <1>1. /\ order \in [Rules -> Seq(Patterns)]
        /\ \A r \in Rules : \A i, j \in DOMAIN order[r] : i < j => ~Before(order[r][j], order[r][i])
    <2>1. \A r \in Rules : order[r] \in SortedOrders(r)
      BY DEF Init
    <2>2. \A r \in Rules : order[r] \in Seq(Patterns)
      BY <2>1, OrderType
    <2>3. order = [r \in Rules |-> order[r]]
      BY DEF Init
    <2> QED BY <2>1, <2>2, <2>3, OrderType
  <1>2. MaxMessages \in Nat
    BY RulesAssumption
  <1> QED BY <1>1, <1>2 DEF Init, TypeOK, Sorted, Captures, Nowhere

\* A record of fields stays one of the types the invariant names.
LEMMA NextTypeOK == TypeOK /\ [Next]_vars => TypeOK'
  <1> SUFFICES ASSUME TypeOK, [Next]_vars PROVE TypeOK' OBVIOUS
  <1> USE RulesAssumption
  <1>1. CASE Receive
    <2>1. PICK how \in NextModes, m \in Messages :
            mode' = how /\ message' = m /\ waiting' = Selected(how, m)
      BY <1>1 DEF Receive
    <2>2. how \in {"example", "again", "single", "scan"}
      BY DEF NextModes
    <2>3. waiting' \subseteq Rules
      BY <2>1, SelectedType
    <2> QED BY <1>1, <2>1, <2>2, <2>3 DEF Receive, TypeOK
  <1>2. CASE TryRule
    <2>1. PICK r \in waiting : rule' = r /\ waiting' = waiting \ {r} /\ matched' = Cleared(r)
      BY <1>2 DEF TryRule
    <2>2. r \in Rules /\ Len(order[r]) \in Nat
      BY DEF TypeOK
    <2>3. matched' \in [Rules -> [Tokens -> BOOLEAN]]
      BY <2>1, <2>2 DEF Cleared, TypeOK
    <2> QED BY <1>2, <2>1, <2>2, <2>3 DEF TryRule, TypeOK
  <1>3. CASE StartPattern
    <2>1. /\ pattern \in DOMAIN order[rule] /\ rule \in Rules
          /\ Len(TokensOf[Current]) \in Nat
      BY <1>3, CurrentType DEF StartPattern
    <2>2. Len(message.fields) \in Nat
      BY MessageType
    <2>5. /\ pc = "pattern" /\ offset' = 0
          /\ UNCHANGED <<order, mode, number, message, waiting, rule, matched, captured, reports>>
      BY <1>3 DEF StartPattern
    <2>3. CASE pc' = "token" /\ token' = 1 /\ pattern' = pattern
      <3>1. Current' = Current
        BY <1>3, <2>3 DEF StartPattern, Current
      <3>2. pattern' <= Len(order'[rule']) /\ token' <= Len(TokensOf[Current']) + 1
        <4>1. Len(TokensOf[Current']) \in Nat /\ token' = 1
          BY <2>1, <2>3, <3>1
        <4>2. pattern <= Len(order[rule])
          BY <1>3 DEF StartPattern
        <4>3. pattern' <= Len(order'[rule'])
          BY <2>3, <2>5, <4>2
        <4> QED BY <4>1, <4>3
      <3>3. offset' <= Len(message'.fields)
        BY <2>2, <2>5
      <3>4. pattern' \in Nat \ {0} /\ token' \in Nat \ {0} /\ offset' \in Nat /\ rule' \in Rules
        BY <2>1, <2>3, <2>5 DEF TypeOK
      <3>5. /\ order' \in [Rules -> Seq(Patterns)]
            /\ mode' \in {"example", "again", "single", "scan"}
            /\ number' \in 0..MaxMessages
            /\ message' \in Messages \cup {NoMessage}
            /\ waiting' \subseteq Rules
            /\ matched' \in [Rules -> [Tokens -> BOOLEAN]]
            /\ captured' \in [Rules -> [Tokens -> Captures]]
            /\ reports' \subseteq [rule: Rules, pattern: Nat, values: [Tokens -> Captures]]
        BY <2>5 DEF TypeOK
      <3>6. pc' \in {"idle", "rule", "pattern", "token", "rejected"}
        BY <2>3
      <3>7. pc' \in {"pattern", "token"} => rule' \in Rules /\ pattern' <= Len(order'[rule']) + 1
        BY <2>1, <2>3, <2>5 DEF TypeOK
      <3>8. pc' = "token" => /\ pattern' <= Len(order'[rule'])
                             /\ token' <= Len(TokensOf[Current']) + 1
                             /\ offset' <= Len(message'.fields)
        BY <3>2, <3>3
      <3> QED BY <3>4, <3>5, <3>6, <3>7, <3>8, Zenon DEF TypeOK
    <2>4. CASE pattern' = pattern + 1 /\ pc' = pc /\ token' = token
      <3>1. pattern' \in Nat \ {0} /\ pattern' <= Len(order'[rule']) + 1
        BY <2>1, <2>4, <2>5 DEF TypeOK
      <3> QED BY <2>1, <2>4, <2>5, <3>1 DEF TypeOK
    <2> QED BY <1>3, <2>3, <2>4 DEF StartPattern
  <1>4. CASE RuleFails
    BY <1>4 DEF RuleFails, TypeOK
  <1>5. CASE UseRemembered
    <2>1. Len(TokensOf[Current]) \in Nat /\ Current' = Current
      BY <1>5, TokenType DEF UseRemembered, Current
    <2>2. token' \in Nat \ {0} /\ token' <= Len(TokensOf[Current]) + 1
      BY <1>5, <2>1 DEF UseRemembered, TypeOK
    <2>3. token' <= Len(TokensOf[Current']) + 1
      BY <2>1, <2>2
    <2> QED BY <1>5, <2>2, <2>3 DEF UseRemembered, TypeOK
  <1>6. CASE MatchToken
    <2>1. Len(TokensOf[Current]) \in Nat /\ Current' = Current /\ CurrentToken \in Tokens /\ rule \in Rules
      BY <1>6, TokenType DEF MatchToken, Current
    <2>2. PICK i \in Candidates(CurrentToken, Asserted, SearchFrom) :
            /\ captured' = [captured EXCEPT ![rule][CurrentToken] = [message |-> number, at |-> i]]
            /\ offset' = i
      BY <1>6 DEF MatchToken
    <2>3. i \in 1..Len(message.fields)
      BY DEF Candidates
    <2>4. [message |-> number, at |-> i] \in Captures
      BY <2>3, MessageType DEF Captures, TypeOK
    <2>5. captured' \in [Rules -> [Tokens -> Captures]]
      BY <2>1, <2>2, <2>4 DEF TypeOK
    <2>6. matched' \in [Rules -> [Tokens -> BOOLEAN]]
      BY <1>6, <2>1 DEF MatchToken, TypeOK
    <2>7. offset' \in Nat /\ offset' <= Len(message.fields)
      BY <2>2, <2>3, MessageType
    <2>8. token' \in Nat \ {0} /\ token' <= Len(TokensOf[Current]) + 1
      BY <1>6, <2>1 DEF MatchToken, TypeOK
    <2>9. token' <= Len(TokensOf[Current']) + 1
      BY <2>1, <2>8
    <2> QED BY <1>6, <2>5, <2>6, <2>7, <2>8, <2>9 DEF MatchToken, TypeOK
  <1>7. CASE PatternFails
    <2>1. CurrentToken \in Tokens /\ rule \in Rules
      BY <1>7, TokenType DEF PatternFails
    <2>2. matched' \in [Rules -> [Tokens -> BOOLEAN]]
      BY <1>7, <2>1 DEF PatternFails, TypeOK
    <2>3. pattern' \in Nat \ {0} /\ pattern' <= Len(order[rule]) + 1
      <3>1. order[rule] \in Seq(Patterns) /\ pattern <= Len(order[rule])
        BY <1>7, <2>1 DEF PatternFails, TypeOK
      <3>2. pattern' = pattern + 1 /\ pattern \in Nat
        BY <1>7 DEF PatternFails, TypeOK
      <3> QED BY <3>1, <3>2
    <2> QED BY <1>7, <2>1, <2>2, <2>3 DEF PatternFails, TypeOK
  <1>8. CASE PatternMatches
    <2>1. reports' \subseteq [rule: Rules, pattern: Nat, values: [Tokens -> Captures]]
      <3>1. rule \in Rules /\ pattern \in Nat /\ captured[rule] \in [Tokens -> Captures]
        BY <1>8 DEF PatternMatches, TypeOK
      <3>2. [rule |-> rule, pattern |-> pattern, values |-> captured[rule]]
              \in [rule: Rules, pattern: Nat, values: [Tokens -> Captures]]
        BY <3>1
      <3>3. reports' = reports \cup
              {[rule |-> rule, pattern |-> pattern, values |-> captured[rule]]}
        BY <1>8 DEF PatternMatches
      <3>4. reports \subseteq [rule: Rules, pattern: Nat, values: [Tokens -> Captures]]
        BY DEF TypeOK
      <3> QED BY <3>2, <3>3, <3>4
    <2>2. waiting' \subseteq Rules
      BY <1>8 DEF PatternMatches, TypeOK
    <2> QED BY <1>8, <2>1, <2>2 DEF PatternMatches, TypeOK
  <1>9. CASE Finish
    BY <1>9 DEF Finish, TypeOK
  <1>10. CASE RejectExample
    BY <1>10 DEF RejectExample, TypeOK
  <1>12. CASE Rematch
    BY <1>12 DEF Rematch, TypeOK
  <1>11. CASE UNCHANGED vars
    <2>1. Current' = Current
      BY <1>11 DEF vars, Current
    <2> QED BY <1>11, <2>1 DEF vars, TypeOK
  <1> QED BY <1>1, <1>2, <1>3, <1>4, <1>5, <1>6, <1>7, <1>8, <1>9, <1>10, <1>11, <1>12 DEF Next

\* Every reachable state is well typed: the current pattern and token exist, and
\* no search starts behind the end of the message.
THEOREM TypeCorrect == Spec => []TypeOK
  <1>1. Init => TypeOK
    BY InitTypeOK
  <1> QED BY <1>1, NextTypeOK, PTL DEF Spec

---------------------------------------------------------------------------
(* What is reported was found in the message                               *)

LEMMA SortedStep == Sorted /\ [Next]_vars => Sorted'
  BY DEF Sorted, Next, vars, Receive, TryRule, StartPattern, RuleFails, UseRemembered,
         MatchToken, PatternFails, PatternMatches, Rematch, Finish, RejectExample

LEMMA TokensStep ==
  TypeOK /\ TokensAreCurrent /\ [Next]_vars => TokensAreCurrent'
  <1> SUFFICES ASSUME TypeOK, TokensAreCurrent, [Next]_vars PROVE TokensAreCurrent'
    OBVIOUS
  <1>1. CASE Receive
    BY <1>1 DEF Receive, TokensAreCurrent
  <1>2. CASE TryRule
    <2>1. PICK r \in waiting : rule' = r /\ matched' = Cleared(r)
      BY <1>2 DEF TryRule
    <2>2. \A t \in Tokens : ~matched'[rule'][t]
      BY <2>1 DEF Cleared, TypeOK
    <2> QED BY <1>2, <2>2 DEF TryRule, TokensAreCurrent
  <1>3. CASE StartPattern
    <2>1. \A t \in Tokens : matched[rule][t] => Found(t, captured[rule][t])
      BY <1>3 DEF StartPattern, TokensAreCurrent
    <2>2. pc' = "token" => 1..(token' - 1) = {}
      BY <1>3 DEF StartPattern
    <2> QED BY <1>3, <2>1, <2>2 DEF StartPattern, TokensAreCurrent, Found
  <1>4. CASE RuleFails
    BY <1>4 DEF RuleFails, TokensAreCurrent
  <1>5. CASE UseRemembered
    <2>1. /\ CurrentToken \in Tokens /\ token \in DOMAIN TokensOf[Current]
          /\ CurrentToken = TokensOf[Current][token] /\ Current' = Current
          /\ Asserted = AssertOf[Current][CurrentToken]
      BY <1>5, TokenType DEF UseRemembered, Current
    <2>2. GoodCapture(Current, CurrentToken, captured[rule][CurrentToken])
      BY <1>5, <2>1 DEF UseRemembered, Remembered, TokensAreCurrent, Found, GoodCapture
    <2>3. \A i \in 1..(token' - 1) : i \in 1..(token - 1) \/ i = token
      BY <1>5 DEF UseRemembered, TypeOK
    <2>4. \A i \in 1..(token' - 1) :
            GoodCapture(Current, TokensOf[Current][i], captured[rule][TokensOf[Current][i]])
      BY <1>5, <2>1, <2>2, <2>3 DEF UseRemembered, TokensAreCurrent
    <2>5. \A t \in Tokens : matched[rule][t] => Found(t, captured[rule][t])
      BY <1>5 DEF UseRemembered, TokensAreCurrent
    <2> QED BY <1>5, <2>1, <2>4, <2>5 DEF UseRemembered, TokensAreCurrent, GoodCapture, Found
  <1>6. CASE MatchToken
    <2>1. /\ CurrentToken \in Tokens /\ token \in DOMAIN TokensOf[Current]
          /\ CurrentToken = TokensOf[Current][token] /\ Current' = Current
          /\ Asserted = AssertOf[Current][CurrentToken]
          /\ TokensOf[Current] \in Seq(Tokens)
          /\ rule \in Rules
      BY <1>6, TokenType DEF MatchToken, Current
    <2>2. PICK i \in Candidates(CurrentToken, Asserted, SearchFrom) :
            captured' = [captured EXCEPT ![rule][CurrentToken] = [message |-> number, at |-> i]]
      BY <1>6 DEF MatchToken
    <2> DEFINE c == [message |-> number, at |-> i]
    <2>3. /\ \A t \in Tokens : captured'[rule][t] = IF t = CurrentToken THEN c ELSE captured[rule][t]
          /\ \A t \in Tokens : matched'[rule][t] <=> (t = CurrentToken \/ matched[rule][t])
      BY <1>6, <2>1, <2>2 DEF MatchToken, TypeOK
    <2>4. GoodCapture(Current, CurrentToken, c)
      BY <2>1, <2>2, MessageType DEF Candidates, GoodCapture
    <2>5. \A t \in Tokens : matched'[rule][t] => Found(t, captured'[rule][t])
      <3>1. Found(CurrentToken, c)
        BY <2>4 DEF Found, GoodCapture
      <3>2. \A t \in Tokens : matched[rule][t] => Found(t, captured[rule][t])
        BY <1>6 DEF MatchToken, TokensAreCurrent
      <3> QED BY <2>3, <3>1, <3>2
    <2>6. \A k \in 1..(token' - 1) : (k \in 1..(token - 1) \/ k = token) /\ k \in DOMAIN TokensOf[Current]
      BY <1>6, <2>1 DEF MatchToken, TypeOK
    <2>7. \A k \in 1..(token' - 1) :
            GoodCapture(Current, TokensOf[Current][k], captured'[rule][TokensOf[Current][k]])
      <3> TAKE k \in 1..(token' - 1)
      <3>1. TokensOf[Current][k] \in Tokens
        BY <2>1, <2>6
      <3>2. CASE TokensOf[Current][k] = CurrentToken
        BY <2>3, <2>4, <3>1, <3>2
      <3>3. CASE TokensOf[Current][k] # CurrentToken
        BY <1>6, <2>1, <2>3, <2>6, <3>1, <3>3 DEF MatchToken, TokensAreCurrent
      <3> QED BY <3>2, <3>3
    <2> QED BY <1>6, <2>1, <2>5, <2>7 DEF MatchToken, TokensAreCurrent, GoodCapture, Found
  <1>7. CASE PatternFails
    <2>1. CurrentToken \in Tokens /\ rule \in Rules
      BY <1>7, TokenType DEF PatternFails
    <2>2. \A t \in Tokens : matched'[rule][t] => matched[rule][t]
      BY <1>7, <2>1 DEF PatternFails, TypeOK
    <2> QED BY <1>7, <2>2 DEF PatternFails, TokensAreCurrent, Found
  <1>8. CASE PatternMatches
    BY <1>8 DEF PatternMatches, TokensAreCurrent
  <1>9. CASE Finish
    BY <1>9 DEF Finish, TokensAreCurrent
  <1>10. CASE RejectExample
    BY <1>10 DEF RejectExample, TokensAreCurrent
  <1>12. CASE Rematch
    BY <1>12 DEF Rematch, TokensAreCurrent
  <1>11. CASE UNCHANGED vars
    BY <1>11 DEF vars, TokensAreCurrent, GoodCapture, Found, Current
  <1> QED BY <1>1, <1>2, <1>3, <1>4, <1>5, <1>6, <1>7, <1>8, <1>9, <1>10, <1>11, <1>12 DEF Next

LEMMA ReportsStep ==
  TypeOK /\ TokensAreCurrent /\ IdleIsClean /\ ReportsAreJustified /\ [Next]_vars
    => IdleIsClean' /\ ReportsAreJustified'
  <1> SUFFICES ASSUME TypeOK, TokensAreCurrent, IdleIsClean, ReportsAreJustified, [Next]_vars
               PROVE  IdleIsClean' /\ ReportsAreJustified'
    OBVIOUS
  <1>1. CASE Receive
    BY <1>1 DEF Receive, IdleIsClean, ReportsAreJustified
  <1>2. CASE PatternMatches
    <2>1. /\ Current \in Patterns /\ pattern \in DOMAIN order[rule]
          /\ TokensOf[Current] \in Seq(Tokens)
      BY <1>2, CurrentType DEF PatternMatches, TypeOK
    <2>2. \A i \in DOMAIN TokensOf[Current] : i \in 1..(token - 1)
      BY <1>2, <2>1 DEF PatternMatches, TypeOK
    <2>3. \A i \in DOMAIN TokensOf[Current] :
            GoodCapture(Current, TokensOf[Current][i], captured[rule][TokensOf[Current][i]])
      BY <1>2, <2>2 DEF PatternMatches, TokensAreCurrent
    <2> DEFINE new == [rule |-> rule, pattern |-> pattern, values |-> captured[rule]]
    <2>4. reports' = reports \cup {new} /\ pc' = "rule"
          /\ UNCHANGED <<order, message, number>>
      BY <1>2 DEF PatternMatches
    <2>5. ASSUME NEW w \in reports'
          PROVE  /\ w.pattern \in DOMAIN order[w.rule]
                 /\ \A i \in DOMAIN TokensOf[order[w.rule][w.pattern]] :
                      GoodCapture(order[w.rule][w.pattern],
                                  TokensOf[order[w.rule][w.pattern]][i],
                                  w.values[TokensOf[order[w.rule][w.pattern]][i]])
      <3>1. CASE w = new
        BY <2>1, <2>3, <3>1 DEF Current
      <3>2. CASE w \in reports
        BY <3>2 DEF ReportsAreJustified
      <3> QED BY <2>4, <3>1, <3>2
    <2>6. IdleIsClean'
      BY <2>4 DEF IdleIsClean
    <2>7. ReportsAreJustified'
      <3> SUFFICES ASSUME NEW w \in reports'
                   PROVE  /\ w.pattern \in DOMAIN order'[w.rule]
                          /\ \A i \in DOMAIN TokensOf[order'[w.rule][w.pattern]] :
                               GoodCapture(order[w.rule][w.pattern],
                                           TokensOf[order[w.rule][w.pattern]][i],
                                           w.values[TokensOf[order[w.rule][w.pattern]][i]])'
        BY DEF ReportsAreJustified
      <3> QED BY <2>4, <2>5 DEF GoodCapture
    <2> QED BY <2>6, <2>7
  <1>3. CASE Finish \/ Rematch
    BY <1>3 DEF Finish, Rematch, IdleIsClean, ReportsAreJustified
  <1>4. CASE /\ pc' # "idle" \/ pc' = pc
             /\ UNCHANGED <<order, number, message, reports>>
    BY <1>4 DEF IdleIsClean, ReportsAreJustified, GoodCapture
  <1>5. TryRule \/ StartPattern \/ RuleFails \/ UseRemembered \/ MatchToken \/ PatternFails
        \/ RejectExample \/ UNCHANGED vars
        => (pc' # "idle" \/ pc' = pc) /\ UNCHANGED <<order, number, message, reports>>
    BY DEF TryRule, StartPattern, RuleFails, UseRemembered, MatchToken, PatternFails,
           RejectExample, vars
  <1> QED BY <1>1, <1>2, <1>3, <1>4, <1>5 DEF Next

\* What a rule reports for a message was found in that message, at fields of the
\* right names and with the asserted values.
THEOREM ReportsJustified == Spec => []ReportsAreJustified
  <1> DEFINE Inv == TypeOK /\ TokensAreCurrent /\ IdleIsClean /\ ReportsAreJustified
  <1>1. Init => Inv
    BY InitTypeOK DEF Init, TokensAreCurrent, IdleIsClean, ReportsAreJustified
  <1>2. Inv /\ [Next]_vars => Inv'
    BY NextTypeOK, TokensStep, ReportsStep
  <1> QED BY <1>1, <1>2, PTL DEF Spec

---------------------------------------------------------------------------
(* Nothing is missed                                                       *)

\* A place where the current token may lie, if one fits, is a candidate of the
\* search, which is never behind it.
LEMMA EmbeddingIsCandidate ==
  ASSUME TypeOK, NeverBehind, pc = "token", token <= Len(TokensOf[Current]),
         NEW f \in Embeddings(Current)
  PROVE  /\ f[token] \in Candidates(CurrentToken, Asserted, SearchFrom)
         /\ MatchType[Current] = "sequential" => f[token] \in Nat /\ offset <= f[token]
  <1>1. /\ CurrentToken \in Tokens /\ token \in DOMAIN TokensOf[Current]
        /\ CurrentToken = TokensOf[Current][token]
        /\ Asserted = AssertOf[Current][CurrentToken]
        /\ TokensOf[Current] \in Seq(Tokens)
    BY TokenType
  <1>2. /\ f \in [DOMAIN TokensOf[Current] -> DOMAIN message.fields]
        /\ DOMAIN message.fields = 1..Len(message.fields) /\ Len(message.fields) \in Nat
        /\ DOMAIN TokensOf[Current] = 1..Len(TokensOf[Current])
    BY <1>1, MessageType DEF Embeddings
  <1>3. /\ f[token] \in 1..Len(message.fields)
        /\ message.fields[f[token]].name = CurrentToken
        /\ Asserted # NoAssert => message.fields[f[token]].value = Asserted
    BY <1>1, <1>2 DEF Embeddings
  <1>4. CASE MatchType[Current] = "sequential"
    <2>1. offset < f[token]
      <3>1. CASE token = 1
        BY <1>3, <1>4, <3>1 DEF NeverBehind, TypeOK
      <3>2. CASE token # 1
        <4>1. token - 1 \in DOMAIN TokensOf[Current] /\ token - 1 < token
          BY <1>1, <1>2, <3>2 DEF TypeOK
        <4>2. f[token - 1] < f[token]
          BY <1>1, <1>2, <1>4, <4>1 DEF Embeddings, Increasing
        <4>3. offset <= f[token - 1]
          BY <1>4, <3>2 DEF NeverBehind
        <4>4. f[token - 1] \in Nat
          BY <1>2, <4>1
        <4>5. offset \in Nat
          BY DEF TypeOK
        <4> QED BY <1>3, <4>2, <4>3, <4>4, <4>5
      <3> QED BY <3>1, <3>2
    <2> QED BY <1>3, <1>4, <2>1 DEF Candidates, SearchFrom, TypeOK
  <1>5. CASE MatchType[Current] # "sequential"
    BY <1>3, <1>5 DEF Candidates, SearchFrom
  <1> QED BY <1>4, <1>5

\* No search falls behind the one without memory: what the token was found at,
\* or was remembered from, never lies behind a place that fits.
LEMMA NeverBehindStep ==
  TypeOK /\ NeverBehind /\ [Next]_vars => NeverBehind'
  <1> SUFFICES ASSUME TypeOK, NeverBehind, [Next]_vars PROVE NeverBehind'
    OBVIOUS
  <1>1. CASE StartPattern
    BY <1>1 DEF StartPattern, NeverBehind
  <1>2. CASE UseRemembered
    <2>1. pc' = "token" /\ Current' = Current /\ offset' = offset /\ token' = token + 1
          /\ message' = message /\ pc = "token" /\ token <= Len(TokensOf[Current])
      BY <1>2 DEF UseRemembered, Current
    <2>2. ASSUME MatchType[Current] = "sequential", NEW f \in Embeddings(Current)
          PROVE  offset' <= IF token' = 1 THEN 0 ELSE f[token' - 1]
      BY <2>1, <2>2, EmbeddingIsCandidate DEF TypeOK
    <2>3. Embeddings(Current)' = Embeddings(Current)
      BY <2>1 DEF Embeddings
    <2> QED BY <2>1, <2>2, <2>3 DEF NeverBehind
  <1>3. CASE MatchToken
    <2>1. pc' = "token" /\ Current' = Current /\ token' = token + 1
          /\ message' = message /\ pc = "token" /\ token <= Len(TokensOf[Current])
      BY <1>3 DEF MatchToken, Current
    <2>2. ASSUME MatchType[Current] = "sequential", NEW f \in Embeddings(Current)
          PROVE  offset' <= IF token' = 1 THEN 0 ELSE f[token' - 1]
      <3>1. f[token] \in Candidates(CurrentToken, Asserted, SearchFrom)
        BY <2>1, EmbeddingIsCandidate
      <3>2. offset' <= f[token]
        BY <1>3, <3>1 DEF MatchToken
      <3> QED BY <2>1, <3>2 DEF TypeOK
    <2>3. Embeddings(Current)' = Embeddings(Current)
      BY <2>1 DEF Embeddings
    <2> QED BY <2>1, <2>2, <2>3 DEF NeverBehind
  <1>4. CASE UNCHANGED vars
    <2>1. UNCHANGED <<pc, token, offset>> /\ Current' = Current /\ message' = message
      BY <1>4 DEF vars, Current
    <2>2. Embeddings(Current)' = Embeddings(Current)
      BY <2>1 DEF Embeddings
    <2> QED BY <2>1, <2>2 DEF NeverBehind
  <1>5. CASE Receive \/ TryRule \/ RuleFails \/ PatternFails \/ PatternMatches
             \/ Rematch \/ Finish \/ RejectExample
    BY <1>5 DEF Receive, TryRule, RuleFails, PatternFails, PatternMatches, Rematch, Finish,
                RejectExample, NeverBehind
  <1> QED BY <1>1, <1>2, <1>3, <1>4, <1>5 DEF Next

\* Whether a pattern fits depends on the message and on who matches it.
LEMMA EligibleStays ==
  ASSUME UNCHANGED <<mode, message>>, NEW p
  PROVE  Eligible(p)' <=> Eligible(p)
  <1>1. Anchored(p, message)' <=> Anchored(p, message)
    BY DEF Anchored
  <1>2. Embeddings(p)' = Embeddings(p)
    BY DEF Embeddings
  <1> QED BY <1>1, <1>2 DEF Eligible

\* A pattern is left behind only if it does not fit.
LEMMA OthersStep ==
  TypeOK /\ NeverBehind /\ OthersDoNotFit /\ [Next]_vars => OthersDoNotFit'
  <1> SUFFICES ASSUME TypeOK, NeverBehind, OthersDoNotFit, [Next]_vars PROVE OthersDoNotFit'
    OBVIOUS
  <1>1. CASE TryRule
    BY <1>1 DEF TryRule, OthersDoNotFit
  <1>2. ASSUME pc \in {"pattern", "token"}, ~Eligible(Current), pattern' = pattern + 1,
               UNCHANGED <<order, mode, message, rule>>
        PROVE  OthersDoNotFit'
    <2>1. \A k \in 1..(pattern' - 1) : k \in 1..(pattern - 1) \/ k = pattern
      BY <1>2 DEF TypeOK
    <2>2. \A k \in 1..(pattern' - 1) : ~Eligible(order[rule][k])
      BY <1>2, <2>1 DEF OthersDoNotFit, Current
    <2>3. \A k \in 1..(pattern' - 1) : ~Eligible(order[rule][k])'
      BY <1>2, <2>2, EligibleStays
    <2> QED BY <2>3 DEF OthersDoNotFit
  <1>3. ASSUME pc \in {"pattern", "token"}, UNCHANGED <<order, mode, message, rule, pattern>>
        PROVE  OthersDoNotFit'
    <2>1. \A k \in 1..(pattern' - 1) : ~Eligible(order[rule][k])'
      BY <1>3, EligibleStays DEF OthersDoNotFit
    <2> QED BY <2>1 DEF OthersDoNotFit
  <1>4. CASE StartPattern
    <2>1. pc = "pattern" /\ UNCHANGED <<order, mode, message, rule>>
      BY <1>4 DEF StartPattern
    <2>2. \/ pattern' = pattern
          \/ pattern' = pattern + 1 /\ ~Eligible(Current)
      BY <1>4 DEF StartPattern, Eligible
    <2> QED BY <1>2, <1>3, <2>1, <2>2
  <1>5. CASE PatternFails
    <2>1. Embeddings(Current) = {}
      BY <1>5, EmbeddingIsCandidate DEF PatternFails
    <2>2. ~Eligible(Current)
      BY <2>1 DEF Eligible
    <2> QED BY <1>2, <1>5, <2>2 DEF PatternFails
  <1>6. CASE UseRemembered \/ MatchToken
    BY <1>3, <1>6 DEF UseRemembered, MatchToken
  <1>7. CASE Receive \/ RuleFails \/ PatternMatches \/ Rematch \/ Finish \/ RejectExample
    BY <1>7 DEF Receive, RuleFails, PatternMatches, Rematch, Finish, RejectExample, OthersDoNotFit
  <1>8. CASE UNCHANGED vars
    BY <1>3, <1>8 DEF vars, OthersDoNotFit
  <1> QED BY <1>1, <1>4, <1>5, <1>6, <1>7, <1>8 DEF Next

\* A covered rule stays covered while the message is the same one.
LEMMA CoveredStays ==
  ASSUME NEW r, Covered(r), reports \subseteq reports', UNCHANGED <<order, mode, message>>
  PROVE  Covered(r)'
  BY EligibleStays DEF Covered

LEMMA CoveredStep ==
  TypeOK /\ OthersDoNotFit /\ AllCovered /\ [Next]_vars /\ ~Receive /\ ~Rematch
    => AllCovered'
  <1> SUFFICES ASSUME TypeOK, OthersDoNotFit, AllCovered, [Next]_vars, ~Receive, ~Rematch
               PROVE  AllCovered'
    OBVIOUS
  <1> DEFINE chosen == Selected(mode, message)
  <1>2. ASSUME UNCHANGED <<order, mode, message>> PROVE Selected(mode, message)' = chosen
    BY <1>2 DEF Selected
  <1>3. CASE TryRule
    <2>1. PICK r \in waiting : MayBeNext(r) /\ rule' = r /\ waiting' = waiting \ {r}
      BY <1>3 DEF TryRule
    <2>2. pc = "rule" /\ pc' = "pattern" /\ UNCHANGED <<order, mode, message, reports>>
      BY <1>3 DEF TryRule
    <2>3. waiting' \cup {rule'} = waiting /\ waiting' \subseteq chosen
      BY <2>1 DEF AllCovered
    <2>4. \A s \in chosen \ waiting : Covered(s)'
      BY <2>2, CoveredStays DEF AllCovered
    <2>5. mode = "single" => \A s \in waiting' : rule' < s
      BY <2>1 DEF MayBeNext, TypeOK, Rules
    <2> QED BY <1>2, <2>2, <2>3, <2>4, <2>5 DEF AllCovered
  <1>4. CASE RuleFails
    <2>1. /\ pc = "pattern" /\ pc' = "rule"
          /\ UNCHANGED <<order, mode, message, reports, waiting, rule>>
      BY <1>4 DEF RuleFails
    <2>2. Covered(rule)
      <3>1. order[rule] \in Seq(Patterns) /\ pattern > Len(order[rule])
        BY <1>4, <2>1 DEF RuleFails, TypeOK
      <3>2. \A k \in DOMAIN order[rule] : k \in 1..(pattern - 1)
        BY <3>1 DEF TypeOK
      <3> QED BY <2>1, <3>2 DEF Covered, OthersDoNotFit
    <2>3. \A s \in chosen \ waiting : Covered(s)'
      BY <2>1, <2>2, CoveredStays DEF AllCovered
    <2> QED BY <1>2, <2>1, <2>3 DEF AllCovered
  <1>5. CASE PatternMatches
    <2> DEFINE new == [rule |-> rule, pattern |-> pattern, values |-> captured[rule]]
    <2>1. /\ pc = "token" /\ pc' = "rule" /\ reports' = reports \cup {new}
          /\ waiting' = IF mode = "single" THEN {} ELSE waiting
          /\ UNCHANGED <<order, mode, message>>
      BY <1>5 DEF PatternMatches
    <2>2. order[rule] \in Seq(Patterns) /\ pattern \in Nat \ {0}
      BY <2>1 DEF TypeOK
    <2>3. \A k \in DOMAIN order[rule] : k \in 1..(pattern - 1) \/ pattern \in 1..k
      BY <2>2
    <2>4. Covered(rule)'
      <3>1. ASSUME NEW k \in DOMAIN order[rule], Eligible(order[rule][k])
            PROVE  \E w \in reports' : w.rule = rule /\ w.pattern \in 1..k
        <4>1. pattern \in 1..k
          BY <2>1, <2>3, <3>1 DEF OthersDoNotFit
        <4>2. new \in reports' /\ new.rule = rule /\ new.pattern = pattern
          BY <2>1
        <4> QED BY <4>1, <4>2
      <3>2. UNCHANGED <<order, mode, message, rule>>
        BY <1>5 DEF PatternMatches
      <3> QED BY <3>1, <3>2, EligibleStays DEF Covered
    <2>5. ASSUME mode = "single", NEW s \in waiting PROVE Covered(s)'
      <3>1. rule < s /\ new \in reports' /\ new.rule = rule
        BY <2>1, <2>5 DEF AllCovered
      <3> QED BY <2>1, <2>5, <3>1 DEF Covered
    <2>6. \A s \in chosen \ (waiting \cup {rule}) : Covered(s)'
      BY <2>1, CoveredStays DEF AllCovered
    <2>7. rule' = rule
      BY <1>5 DEF PatternMatches
    <2>8. \A s \in chosen \ waiting' : Covered(s)'
      <3> TAKE s \in chosen \ waiting'
      <3>1. CASE s = rule
        BY <2>4, <2>7, <3>1 DEF Covered
      <3>2. CASE s \in waiting
        BY <2>1, <2>5, <3>2
      <3>3. CASE s \notin waiting \cup {rule}
        BY <2>6, <3>3
      <3> QED BY <3>1, <3>2, <3>3
    <2> QED BY <1>2, <2>1, <2>8 DEF AllCovered
  <1>6. CASE Finish
    <2>1. waiting = {} /\ waiting' = {} /\ pc' = "idle"
      BY <1>6 DEF Finish
    <2> QED BY <2>1 DEF AllCovered
  <1>7. CASE RejectExample
    BY <1>2, <1>7 DEF RejectExample, AllCovered
  <1>8. ASSUME pc \in {"pattern", "token"}, pc' \in {"pattern", "token"},
               UNCHANGED <<order, mode, message, reports, waiting, rule>>
        PROVE  AllCovered'
    <2>1. \A s \in chosen \ (waiting \cup {rule}) : Covered(s)'
      BY <1>8, CoveredStays DEF AllCovered
    <2> QED BY <1>2, <1>8, <2>1 DEF AllCovered
  <1>9. CASE StartPattern \/ UseRemembered \/ MatchToken \/ PatternFails
    BY <1>8, <1>9 DEF StartPattern, UseRemembered, MatchToken, PatternFails
  <1>10. CASE UNCHANGED vars
    <2>1. UNCHANGED <<order, mode, message, reports, waiting, rule, pc>>
      BY <1>10 DEF vars
    <2>2. \A s : Covered(s) => Covered(s)'
      BY <2>1, CoveredStays
    <2> QED BY <1>2, <2>1, <2>2 DEF AllCovered
  <1> QED BY <1>3, <1>4, <1>5, <1>6, <1>7, <1>9, <1>10 DEF Next

\* A message starts with every selected rule waiting, and an example that is
\* matched again is not asked of them all.
LEMMA RulesStep ==
  TypeOK /\ OthersDoNotFit /\ RulesAreCovered /\ [Next]_vars => RulesAreCovered'
  <1> SUFFICES ASSUME TypeOK, OthersDoNotFit, RulesAreCovered, [Next]_vars
               PROVE  RulesAreCovered'
    OBVIOUS
  <1>1. CASE Receive
    <2>1. waiting' = Selected(mode', message') /\ pc' = "rule"
      BY <1>1 DEF Receive
    <2>2. Selected(mode, message)' = Selected(mode', message')
      BY DEF Selected
    <2> QED BY <2>1, <2>2 DEF RulesAreCovered, AllCovered
  <1>2. CASE Rematch
    BY <1>2 DEF Rematch, RulesAreCovered
  <1>3. CASE ~Receive /\ ~Rematch
    <2>1. mode' = mode
      BY <1>3 DEF Next, vars, TryRule, StartPattern, RuleFails, UseRemembered,
                  MatchToken, PatternFails, PatternMatches, Finish, RejectExample
    <2> QED BY <1>3, <2>1, CoveredStep DEF RulesAreCovered
  <1> QED BY <1>1, <1>2, <1>3

\* Of two patterns of a rule the one in front is to be preferred.
LEMMA FrontIsPreferred ==
  ASSUME TypeOK, Sorted, NEW r \in Rules, NEW k \in DOMAIN order[r], NEW w \in 1..k
  PROVE  ~Before(order[r][k], order[r][w])
  <1>1. order[r] \in Seq(Patterns) /\ DOMAIN order[r] = 1..Len(order[r])
    BY DEF TypeOK
  <1>2. w \in DOMAIN order[r] /\ k \in Nat /\ w \in Nat
    BY <1>1
  <1>3. CASE w = k
    <2>1. order[r][k] \in Patterns
      BY <1>1
    <2>2. Precedence[order[r][k]] \in Nat
      BY <2>1, RulesAssumption
    <2> QED BY <1>3, <2>2 DEF Before
  <1>4. CASE w < k
    BY <1>2, <1>4 DEF Sorted
  <1> QED BY <1>2, <1>3, <1>4

\* The memory of the shared tokens never costs a match: when all rules have been
\* tried, every rule with a pattern that fits reports that pattern or one that
\* is to be preferred, or an earlier rule has won.
THEOREM NothingIsMissed == Spec => []NothingMissed
  <1> DEFINE Inv == TypeOK /\ Sorted /\ NeverBehind /\ OthersDoNotFit /\ RulesAreCovered
  <1>1. Init => Inv
    <2> SUFFICES ASSUME Init PROVE Inv OBVIOUS
    <2>1. pc = "idle" /\ waiting = {}
      BY DEF Init
    <2> QED BY <2>1, InitTypeOK DEF NeverBehind, OthersDoNotFit, RulesAreCovered, AllCovered
  <1>2. Inv /\ [Next]_vars => Inv'
    BY NextTypeOK, SortedStep, NeverBehindStep, OthersStep, RulesStep
  <1>3. Inv => NothingMissed
    <2> SUFFICES ASSUME Inv, pc = "rule", waiting = {}, mode # "again",
                        NEW r \in Selected(mode, message), NEW k \in DOMAIN order[r],
                        Eligible(order[r][k])
                 PROVE  \E w \in reports :
                          \/ w.rule = r /\ ~Before(order[r][k], order[r][w.pattern])
                          \/ mode = "single" /\ w.rule < r
      BY DEF NothingMissed
    <2>1. r \in Rules
      BY SelectedType
    <2>2. PICK w \in reports : \/ w.rule = r /\ w.pattern \in 1..k
                               \/ mode = "single" /\ w.rule < r
      BY DEF RulesAreCovered, AllCovered, Covered
    <2>3. w.pattern \in 1..k => ~Before(order[r][k], order[r][w.pattern])
      BY <2>1, FrontIsPreferred
    <2> QED BY <2>2, <2>3
  <1> QED BY <1>1, <1>2, <1>3, PTL DEF Spec

=============================================================================
