-------------------------- MODULE RegexParserProofs --------------------------
(* The program that reads rule files and validates examples matches messages as
   RuleMatching says, so what is proved of the matching holds in the program.  *)
EXTENDS RegexParser, RuleMatchingProofs, WellFoundedInduction, NaturalsInduction

\* A step of the program matches, or leaves the matching alone.
LEMMA ParserStep == [ParserNext]_allVars => [Next]_vars
  <1> SUFFICES ASSUME [ParserNext]_allVars PROVE [Next]_vars OBVIOUS
  <1>1. CASE RefuseCommand
    BY <1>1 DEF RefuseCommand
  <1>2. CASE ReadRules
    BY <1>2 DEF ReadRules
  <1>3. CASE TakeExample
    BY <1>3 DEF TakeExample, Next
  <1>4. CASE TakeMessage
    BY <1>4 DEF TakeMessage, Next
  <1>5. CASE Match
    BY <1>5 DEF Match, Next
  <1>6. CASE MatchAgain
    BY <1>6 DEF MatchAgain, Next
  <1>7. CASE AcceptExample
    BY <1>7 DEF AcceptExample, Next
  <1>8. CASE Reject
    BY <1>8 DEF Reject, Next
  <1>9. CASE FinishMessage
    BY <1>9 DEF FinishMessage, Next
  <1>10. CASE UNCHANGED allVars
    BY <1>10 DEF allVars
  <1> QED BY <1>1, <1>2, <1>3, <1>4, <1>5, <1>6, <1>7, <1>8, <1>9, <1>10 DEF ParserNext

\* The program implements RuleMatching: its examples and messages are among those
\* that may arrive there, in whatever order the files and the command line give.
THEOREM ParserMatches == ParserSpec => Spec
  <1>1. ParserInit => Init
    BY DEF ParserInit
  <1> QED BY <1>1, ParserStep, PTL DEF ParserSpec, Spec

\* In the program, too, whatever was validated before, a report holds only what
\* was found in its own message.
THEOREM ParserReportsJustified == ParserSpec => []ReportsAreJustified
  BY ParserMatches, ReportsJustified, PTL

\* And no memory of the tokens, from examples or messages, costs a match.
THEOREM ParserMissesNothing == ParserSpec => []NothingMissed
  BY ParserMatches, NothingIsMissed, PTL

---------------------------------------------------------------------------
(* Types                                                                       *)

\* What keeps the reading of files typed: there is a file while one is built.
ReadingInv ==
  /\ ReadingTypeOK
  /\ directory \in Directories
  /\ stage = "build" => file <= Len(directory)
  /\ \E S : rules \in Seq(S)

LEMMA ReadStep == ReadingInv /\ Read => ReadingInv'
  <1> SUFFICES ASSUME ReadingInv, Read PROVE ReadingInv'
    OBVIOUS
  <1> USE DEF ReadingInv, ReadingTypeOK
  <1>0. Len(directory) \in Nat /\ file \in Nat /\ at \in Nat
    BY DirectoriesAssumption
  <1>1. ASSUME NEW outcome \in {"refused", "aborted"}, stage # "loaded", Stop(outcome)
        PROVE  ReadingInv'
    BY <1>1 DEF Stop
  <1>2. CASE AbortOnKey
    BY <1>1, <1>2 DEF AbortOnKey, InFile, InPatterns
  <1>3. CASE RefusePattern
    BY <1>1, <1>3 DEF RefusePattern, InFile, InPatterns
  <1>4. CASE ReadPattern
    BY <1>0, <1>4 DEF ReadPattern, InFile, InPatterns
  <1>5. CASE EndPatterns
    BY <1>0, <1>5 DEF EndPatterns, InFile
  <1>6. CASE RefuseBuild
    BY <1>1, <1>6 DEF RefuseBuild
  <1>7. CASE BuildPattern
    <2>1. PICK d \in Unbuilt : /\ built' = built \cup {Pattern(d)}
                               /\ objects' = objects \cup Range(d.tokens)
      BY <1>7 DEF BuildPattern
    <2>2. Pattern(d).tokens = d.tokens
      BY DEF Pattern
    <2>3. \A b \in built' : Range(b.tokens) \subseteq objects'
      BY <2>1, <2>2
    <2> QED BY <1>7, <2>3 DEF BuildPattern
  <1>8. CASE RefuseDirectory
    BY <1>1, <1>8 DEF RefuseDirectory
  <1>9. CASE FinishFile
    <2>1. PICK S : rules \in Seq(S)
      OBVIOUS
    <2> DEFINE new == [id |-> File.id, patterns |-> built]
    <2>2. rules' = Append(rules, new) /\ stage = "build" /\ built' = {} /\ at' = 1
          /\ directory' = directory
      BY <1>9 DEF FinishFile
    <2>3. rules \in Seq(S \cup {new})
      BY <2>1
    <2>4. rules' \in Seq(S \cup {new}) /\ Len(rules') = file
      BY <1>0, <2>2, <2>3
    <2>5. \/ file < Len(directory) /\ stage' = "patterns" /\ file' = file + 1
          \/ file = Len(directory) /\ stage' = "loaded" /\ file' = file
      BY <1>0, <1>9 DEF FinishFile
    <2> QED BY <1>0, <2>2, <2>4, <2>5
  <1> QED BY <1>2, <1>3, <1>4, <1>5, <1>6, <1>7, <1>8, <1>9 DEF Read

\* Every message taken counts for at most one example, and the one at hand has
\* not been counted yet.
CountInv ==
  /\ command \in Commands
  /\ validated \in 0..number
  /\ stage # "loaded" => pc = "idle" /\ number = 0
  /\ pc # "idle" /\ mode \in {"example", "again"} => validated < number

LEMMA CountStep ==
  TypeOK /\ CountInv /\ [ParserNext]_allVars => CountInv'
  <1> SUFFICES ASSUME TypeOK, CountInv, [ParserNext]_allVars PROVE CountInv'
    OBVIOUS
  <1>0. number \in Nat /\ validated \in Nat
    BY RulesAssumption DEF CountInv, TypeOK
  <1> USE DEF CountInv
  <1>1. CASE RefuseCommand
    BY <1>1 DEF RefuseCommand, Stop, vars, parser
  <1>2. CASE ReadRules
    <2>1. stage # "loaded"
      BY <1>2 DEF ReadRules, Read, AbortOnKey, RefusePattern, ReadPattern, EndPatterns,
                  RefuseBuild, BuildPattern, RefuseDirectory, FinishFile, InFile, InPatterns
    <2> QED BY <1>2, <2>1 DEF ReadRules, vars, parser
  <1>3. CASE TakeExample
    <2>1. number' = number + 1 /\ pc' = "rule" /\ mode' = "example"
      BY <1>3 DEF TakeExample, Receive
    <2>2. stage' = "loaded" /\ command' = command /\ validated' = validated
      BY <1>3 DEF TakeExample, IsLoaded, reading, parser
    <2> QED BY <1>0, <2>1, <2>2
  <1>4. CASE TakeMessage
    <2>1. number' = number + 1 /\ pc' = "rule" /\ mode' \in {"single", "scan"}
      BY <1>4 DEF TakeMessage, Receive
    <2>2. stage' = "loaded" /\ command' = command /\ validated' = validated
      BY <1>4 DEF TakeMessage, IsLoaded, reading, parser
    <2> QED BY <1>0, <2>1, <2>2
  <1>5. CASE Match
    <2>1. pc # "idle" /\ number' = number /\ mode' = mode
      BY <1>5 DEF Match, TryRule, StartPattern, RuleFails, UseRemembered, MatchToken,
                  PatternFails, PatternMatches
    <2>2. stage' = "loaded" /\ command' = command /\ validated' = validated
      BY <1>5 DEF Match, IsLoaded, reading, parser
    <2> QED BY <2>1, <2>2
  <1>6. CASE MatchAgain
    <2>1. pc # "idle" /\ number' = number /\ mode = "example"
      BY <1>6 DEF MatchAgain, Rematch
    <2>2. stage' = "loaded" /\ command' = command /\ validated' = validated
      BY <1>6 DEF MatchAgain, IsLoaded, reading, parser
    <2> QED BY <2>1, <2>2
  <1>7. CASE AcceptExample
    <2>1. pc # "idle" /\ pc' = "idle" /\ number' = number /\ mode = "again"
      BY <1>7 DEF AcceptExample, Finish
    <2>2. stage' = "loaded" /\ command' = command /\ validated' = validated + 1
      BY <1>7 DEF AcceptExample, IsLoaded, reading
    <2> QED BY <1>0, <2>1, <2>2
  <1>8. CASE Reject
    <2>1. pc # "idle" /\ number' = number /\ mode' = mode
      BY <1>8 DEF Reject, RejectExample
    <2>2. stage' = "loaded" /\ command' = command /\ validated' = validated
      BY <1>8 DEF Reject, IsLoaded, reading, parser
    <2> QED BY <2>1, <2>2
  <1>9. CASE FinishMessage
    <2>1. pc' = "idle" /\ number' = number
      BY <1>9 DEF FinishMessage, Finish
    <2>2. stage' = "loaded" /\ command' = command /\ validated' = validated
      BY <1>9 DEF FinishMessage, IsLoaded, reading, parser
    <2> QED BY <2>1, <2>2
  <1>10. CASE UNCHANGED allVars
    BY <1>10 DEF allVars, vars, reading, parser
  <1> QED BY <1>1, <1>2, <1>3, <1>4, <1>5, <1>6, <1>7, <1>8, <1>9, <1>10 DEF ParserNext

LEMMA InitRead == ParserInit => ReadingInv /\ CountInv
  <1> SUFFICES ASSUME ParserInit PROVE ReadingInv /\ CountInv OBVIOUS
  <1>1. ReadingInv
    <2>1. Len(directory) \in Nat /\ directory \in Directories
      BY DirectoriesAssumption DEF ParserInit, ReadInit
    <2>2. rules \in Seq({}) /\ Len(rules) = 0
      BY DEF ParserInit, ReadInit
    <2> QED BY <2>1, <2>2 DEF ParserInit, ReadInit, ReadingInv, ReadingTypeOK
  <1>2. CountInv
    BY DEF ParserInit, Init, ReadInit, CountInv
  <1> QED BY <1>1, <1>2

\* While files are read nothing is matched; every rule that is loaded has its
\* file, every token of a built pattern its object, and no example is counted
\* without a message.
THEOREM ParserTypeCorrect == ParserSpec => []ParserTypeOK
  <1> DEFINE Inv == TypeOK /\ ReadingInv /\ CountInv
  <1>1. ParserInit => Inv
    <2> SUFFICES ASSUME ParserInit PROVE Inv OBVIOUS
    <2>1. TypeOK
      BY InitTypeOK DEF ParserInit
    <2>2. ReadingInv /\ CountInv
      BY InitRead
    <2> QED BY <2>1, <2>2
  <1>2. Inv /\ [ParserNext]_allVars => Inv'
    <2> SUFFICES ASSUME Inv, [ParserNext]_allVars PROVE Inv' OBVIOUS
    <2>1. TypeOK'
      BY NextTypeOK, ParserStep
    <2>2. CountInv'
      BY CountStep
    <2>3. CASE ReadRules
      BY <2>1, <2>2, <2>3, ReadStep DEF ReadRules
    <2>4. CASE RefuseCommand
      BY <2>1, <2>2, <2>4 DEF RefuseCommand, Stop, ReadingInv, ReadingTypeOK
    <2>5. CASE UNCHANGED reading
      BY <2>1, <2>2, <2>5 DEF reading, ReadingInv, ReadingTypeOK
    <2> QED
      BY <2>3, <2>4, <2>5 DEF ParserNext, TakeExample, TakeMessage, Match, MatchAgain,
         AcceptExample, Reject, FinishMessage, allVars
  <1>3. Inv => ParserTypeOK
    BY DEF ReadingInv, CountInv, ParserTypeOK
  <1> QED BY <1>1, <1>2, <1>3, PTL DEF ParserSpec

---------------------------------------------------------------------------
(* One run of a rule                                                          *)

LEMMA LeastNumber ==
  ASSUME NEW T, T \subseteq Nat, T # {} PROVE \E x \in T : \A y \in T : x <= y
  <1> DEFINE R == OpToRel(<, Nat)
  <1>1. IsWellFoundedOn(R, Nat)
    BY NatLessThanWellFounded
  <1>2. PICK x \in T : \A y \in T : ~(<<y, x>> \in R)
    <2> HIDE DEF R
    <2> QED BY <1>1, WFMin
  <1>3. \A a, b \in Nat : a < b => <<a, b>> \in R
    BY DEF OpToRel
  <1> HIDE DEF R
  <1>4. \A y \in T : ~(y < x)
    BY <1>2, <1>3
  <1> QED BY <1>2, <1>4

\* Rule::match on message m, for a rule with its patterns in order o, and what
\* it captures; what the tokens have captured before does not count.
RunType ==
  [pc: {"pattern", "token"}, pattern: Nat \ {0}, token: Nat \ {0}, offset: Nat,
   matched: [Tokens -> BOOLEAN], at: [Tokens -> Nat]]

Begun ==
  [pc |-> "pattern", pattern |-> 1, token |-> 1, offset |-> 0,
   matched |-> [t \in Tokens |-> FALSE], at |-> [t \in Tokens |-> 0]]

PatternAt(o, c) == o[c.pattern]
TokenAt(o, c) == TokensOf[PatternAt(o, c)][c.token]
AssertAt(o, c) == AssertOf[PatternAt(o, c)][TokenAt(o, c)]
IsKept(o, c) == c.matched[TokenAt(o, c)] /\ AssertAt(o, c) = NoAssert
FieldsAt(o, m, c) ==
  {i \in 1..Len(m.fields) :
     /\ i > (IF MatchType[PatternAt(o, c)] = "sequential" THEN c.offset ELSE 0)
     /\ m.fields[i].name = TokenAt(o, c)
     /\ AssertAt(o, c) # NoAssert => m.fields[i].value = AssertAt(o, c)}

InPattern(o, c) == c.pc = "pattern" /\ c.pattern <= Len(o)
InToken(o, c) == c.pc = "token" /\ c.token <= Len(TokensOf[PatternAt(o, c)])
Over(o, c) == ~InPattern(o, c) /\ ~InToken(o, c)

IsAnchored(o, m, c, d) ==
  InPattern(o, c) /\ Anchored(PatternAt(o, c), m) /\ d = [c EXCEPT !.pc = "token"]
Skips(o, m, c, d) ==
  InPattern(o, c) /\ ~Anchored(PatternAt(o, c), m) /\ d = [c EXCEPT !.pattern = @ + 1]
Keeps(o, m, c, d) ==
  InToken(o, c) /\ IsKept(o, c) /\ d = [c EXCEPT !.token = @ + 1]
Finds(o, m, c, d) ==
  InToken(o, c) /\ ~IsKept(o, c) /\ \E i \in FieldsAt(o, m, c) :
    /\ \A j \in FieldsAt(o, m, c) : i <= j
    /\ d = [c EXCEPT !.offset = i, !.token = @ + 1, !.matched = [c.matched EXCEPT ![TokenAt(o, c)] = TRUE],
                     !.at = [c.at EXCEPT ![TokenAt(o, c)] = i]]
Misses(o, m, c, d) ==
  /\ InToken(o, c) /\ ~IsKept(o, c) /\ FieldsAt(o, m, c) = {}
  /\ d = [c EXCEPT !.pc = "pattern", !.pattern = @ + 1, !.token = 1, !.offset = 0,
                   !.matched = [c.matched EXCEPT ![TokenAt(o, c)] = FALSE]]
Goes(o, m, c, d) ==
  IsAnchored(o, m, c, d) \/ Skips(o, m, c, d) \/ Keeps(o, m, c, d) \/ Finds(o, m, c, d) \/ Misses(o, m, c, d)

LEMMA GoesOneWay ==
  ASSUME NEW o, NEW m, NEW c, NEW d, NEW e, Goes(o, m, c, d), Goes(o, m, c, e) PROVE d = e
  <1>1. ~(InPattern(o, c) /\ InToken(o, c))
    BY DEF InPattern, InToken
  <1>2. ASSUME NEW x, Finds(o, m, c, x), NEW y, Finds(o, m, c, y) PROVE x = y
    <2>1. PICK i \in FieldsAt(o, m, c) :
            /\ \A j \in FieldsAt(o, m, c) : i <= j
            /\ x = [c EXCEPT !.offset = i, !.token = @ + 1, !.matched = [c.matched EXCEPT ![TokenAt(o, c)] = TRUE],
                             !.at = [c.at EXCEPT ![TokenAt(o, c)] = i]]
      BY <1>2 DEF Finds
    <2>2. PICK k \in FieldsAt(o, m, c) :
            /\ \A j \in FieldsAt(o, m, c) : k <= j
            /\ y = [c EXCEPT !.offset = k, !.token = @ + 1, !.matched = [c.matched EXCEPT ![TokenAt(o, c)] = TRUE],
                             !.at = [c.at EXCEPT ![TokenAt(o, c)] = k]]
      BY <1>2 DEF Finds
    <2>3. i = k
      <3>1. FieldsAt(o, m, c) \subseteq Int
        BY DEF FieldsAt
      <3>2. i <= k /\ k <= i
        BY <2>1, <2>2
      <3> QED BY <3>1, <3>2
    <2> QED BY <2>1, <2>2, <2>3, Zenon
  <1>3. ASSUME NEW x, Finds(o, m, c, x) PROVE InToken(o, c) /\ ~IsKept(o, c) /\ FieldsAt(o, m, c) # {}
    BY <1>3 DEF Finds
  <1>4. CASE IsAnchored(o, m, c, d)
    <2>1. IsAnchored(o, m, c, e)
      BY <1>1, <1>3, <1>4 DEF Goes, IsAnchored, Skips, Keeps, Misses
    <2> QED BY <1>4, <2>1, Zenon DEF IsAnchored
  <1>5. CASE Skips(o, m, c, d)
    <2>1. Skips(o, m, c, e)
      BY <1>1, <1>3, <1>5 DEF Goes, IsAnchored, Skips, Keeps, Misses
    <2> QED BY <1>5, <2>1, Zenon DEF Skips
  <1>6. CASE Keeps(o, m, c, d)
    <2>1. Keeps(o, m, c, e)
      BY <1>1, <1>3, <1>6 DEF Goes, IsAnchored, Skips, Keeps, Misses
    <2> QED BY <1>6, <2>1, Zenon DEF Keeps
  <1>7. CASE Finds(o, m, c, d)
    <2>1. Finds(o, m, c, e)
      BY <1>1, <1>3, <1>7 DEF Goes, IsAnchored, Skips, Keeps, Misses
    <2> QED BY <1>2, <1>7, <2>1
  <1>8. CASE Misses(o, m, c, d)
    <2>1. Misses(o, m, c, e)
      BY <1>1, <1>3, <1>8 DEF Goes, IsAnchored, Skips, Keeps, Misses
    <2> QED BY <1>8, <2>1, Zenon DEF Misses
  <1> QED BY <1>4, <1>5, <1>6, <1>7, <1>8 DEF Goes

LEMMA OverStops ==
  ASSUME NEW o, NEW m, NEW c, Over(o, c), NEW d PROVE ~Goes(o, m, c, d)
  BY DEF Over, Goes, IsAnchored, Skips, Keeps, Finds, Misses

\* f is a run of n steps.
IsRun(o, m, f, n) == f[0] = Begun /\ \A i \in 0..(n - 1) : Goes(o, m, f[i], f[i + 1])
Reaches(o, m, c) == \E n \in Nat : \E f : IsRun(o, m, f, n) /\ f[n] = c

LEMMA ReachesFirst == ASSUME NEW o, NEW m PROVE Reaches(o, m, Begun)
  <1> DEFINE f == [i \in {0} |-> Begun]
  <1>1. IsRun(o, m, f, 0) /\ f[0] = Begun
    BY DEF IsRun
  <1> HIDE DEF f
  <1> QED BY <1>1 DEF Reaches

LEMMA ReachesNext ==
  ASSUME NEW o, NEW m, NEW c, Reaches(o, m, c), NEW d, Goes(o, m, c, d) PROVE Reaches(o, m, d)
  <1>1. PICK n \in Nat : \E f : IsRun(o, m, f, n) /\ f[n] = c
    BY DEF Reaches
  <1>2. PICK f : IsRun(o, m, f, n) /\ f[n] = c
    BY <1>1
  <1> DEFINE g == [i \in 0..(n + 1) |-> IF i = n + 1 THEN d ELSE f[i]]
  <1>3. g[n + 1] = d /\ \A i \in 0..n : g[i] = f[i]
    OBVIOUS
  <1> HIDE DEF g
  <1>4. g[0] = Begun
    BY <1>2, <1>3 DEF IsRun
  <1>5. ASSUME NEW i \in 0..n PROVE Goes(o, m, g[i], g[i + 1])
    <2>1. CASE i = n
      BY <1>2, <1>3, <2>1
    <2>2. CASE i # n
      <3>1. i \in 0..(n - 1) /\ i + 1 \in 0..n
        BY <2>2
      <3>2. Goes(o, m, f[i], f[i + 1])
        BY <1>2, <3>1 DEF IsRun
      <3> QED BY <1>3, <3>1, <3>2
    <2> QED BY <2>1, <2>2
  <1>6. n + 1 \in Nat /\ (n + 1) - 1 = n
    OBVIOUS
  <1>7. IsRun(o, m, g, n + 1)
    BY <1>4, <1>5, <1>6 DEF IsRun
  <1> QED BY <1>3, <1>6, <1>7 DEF Reaches

\* All runs of a rule on a message end alike.
LEMMA OneEnd ==
  ASSUME NEW o, NEW m, NEW c, NEW d, Reaches(o, m, c), Reaches(o, m, d), Over(o, c), Over(o, d)
  PROVE  c = d
  <1>1. PICK n \in Nat : \E f : IsRun(o, m, f, n) /\ f[n] = c
    BY DEF Reaches
  <1>2. PICK f : IsRun(o, m, f, n) /\ f[n] = c
    BY <1>1
  <1>3. PICK k \in Nat : \E g : IsRun(o, m, g, k) /\ g[k] = d
    BY DEF Reaches
  <1>4. PICK g : IsRun(o, m, g, k) /\ g[k] = d
    BY <1>3
  <1> DEFINE T == {i \in Nat : i <= n /\ i <= k /\ f[i] # g[i]}
  <1>5. T = {}
    <2> SUFFICES ASSUME T # {} PROVE FALSE
      OBVIOUS
    <2>1. PICK i \in T : \A j \in T : i <= j
      <3>1. T \subseteq Nat
        OBVIOUS
      <3> HIDE DEF T
      <3> QED BY <3>1, LeastNumber
    <2>2. i # 0
      BY <1>2, <1>4 DEF IsRun
    <2>3. i - 1 \in 0..(n - 1) /\ i - 1 \in 0..(k - 1) /\ (i - 1) + 1 = i /\ i - 1 \in Nat /\ ~(i <= i - 1)
          /\ i - 1 <= n /\ i - 1 <= k
      BY <2>2
    <2>4. f[i - 1] = g[i - 1]
      BY <2>1, <2>3
    <2>5. Goes(o, m, f[i - 1], f[i]) /\ Goes(o, m, g[i - 1], g[i])
      BY <1>2, <1>4, <2>3 DEF IsRun
    <2>6. f[i] = g[i]
      BY <2>4, <2>5, GoesOneWay
    <2> QED BY <2>6
  <1>6. \A i \in Nat : i <= n /\ i <= k => f[i] = g[i]
    BY <1>5
  <1>7. CASE n < k
    <2>1. n \in 0..(k - 1) /\ f[n] = g[n]
      BY <1>6, <1>7
    <2>2. Goes(o, m, g[n], g[n + 1])
      BY <1>4, <2>1 DEF IsRun
    <2> QED BY <1>2, <2>1, <2>2, OverStops
  <1>8. CASE k < n
    <2>1. k \in 0..(n - 1) /\ f[k] = g[k]
      BY <1>6, <1>8
    <2>2. Goes(o, m, f[k], f[k + 1])
      BY <1>2, <2>1 DEF IsRun
    <2> QED BY <1>4, <2>1, <2>2, OverStops
  <1>9. CASE n = k
    BY <1>2, <1>4, <1>6, <1>9
  <1> QED BY <1>7, <1>8, <1>9

---------------------------------------------------------------------------
(* A message, and the rules that were tried with it                           *)

Ended(o, m, c) == c \in RunType /\ Reaches(o, m, c) /\ Over(o, c)

\* The rule at hand stands where run c does.
Shown(c) ==
  /\ c \in RunType
  /\ c.pc = pc /\ c.pattern = pattern
  /\ c.token = (IF pc = "token" THEN token ELSE 1)
  /\ c.offset = (IF pc = "token" THEN offset ELSE 0)
  /\ c.matched = matched[rule]

\* Token t of rule r has captured what run c did.  What it did not, the token may
\* have captured from another message, or when the rule was tried before with
\* the message of an example.
IsHeld(r, c, t) ==
  IF c.at[t] # 0
  THEN captured[r][t] = [message |-> number, at |-> c.at[t]]
  ELSE captured[r][t].message = number =>
         mode = "again" /\ \E e : /\ Ended(order[r], message, e) /\ e.at[t] # 0
                                  /\ captured[r][t] = [message |-> number, at |-> e.at[t]]
Holds(r, c) == \A t \in Tokens : IsHeld(r, c, t)

IsSilent(r) == \A w \in reports : w.rule # r

\* Rule r has run as c did, and has reported it.
Result(r, c) ==
  /\ Ended(order[r], message, c) /\ Holds(r, c)
  /\ \A w \in reports : w.rule = r => c.pc = "token" /\ w.pattern = c.pattern /\ w.values = captured[r]
  /\ c.pc = "token" => ~IsSilent(r)

IsTried(r) == \E c : Result(r, c)
IsNew(r) == IsSilent(r) /\ Holds(r, Begun)
AtWork ==
  /\ rule \notin waiting /\ IsSilent(rule)
  /\ \E c : Reaches(order[rule], message, c) /\ Shown(c) /\ Holds(rule, c)

\* Where the rules stand with the message: only a scan is left out.
Trying ==
  /\ pc # "rule" => AtWork
  /\ \A w \in reports : IsTried(w.rule)
  /\ \A r \in waiting : IsNew(r)
  /\ mode = "example" \/ (mode = "single" /\ reports = {}) =>
       \A r \in Rules \ waiting : pc = "rule" \/ r # rule => IsTried(r)
  /\ mode = "single" /\ reports # {} => pc = "rule" /\ waiting = {} /\ \A v, w \in reports : v = w

NoneAhead == \A r \in Rules, t \in Tokens : captured[r][t].message <= number

Running ==
  /\ NoneAhead
  /\ pc = "idle" => reports = {}
  /\ pc \in {"rule", "pattern", "token"} /\ mode # "scan" => Trying

\* The first step of a run is its start.
LEMMA BegunType == Begun \in RunType
  BY DEF Begun, RunType

\* What holds of a rule holds as long as its tokens stay.
LEMMA HeldStays ==
  ASSUME UNCHANGED <<order, mode, number, message>>, NEW r, captured'[r] = captured[r], NEW c, Holds(r, c)
  PROVE  Holds(r, c)'
  BY DEF Holds, IsHeld

LEMMA NewStays ==
  ASSUME UNCHANGED <<order, mode, number, message>>, NEW r, captured'[r] = captured[r], IsNew(r), IsSilent(r)'
  PROVE  IsNew(r)'
  BY HeldStays DEF IsNew

LEMMA TriedStays ==
  ASSUME UNCHANGED <<order, mode, number, message>>, NEW r, captured'[r] = captured[r], IsTried(r),
         \A w \in reports' \cup reports : w.rule = r => (w \in reports <=> w \in reports')
  PROVE  IsTried(r)'
  <1>1. PICK c : Result(r, c)
    BY DEF IsTried
  <1>2. Holds(r, c)'
    BY <1>1, HeldStays DEF Result
  <1>3. Ended(order[r], message, c)'
    BY <1>1 DEF Result
  <1>4. \A w \in reports' : w.rule = r => c.pc = "token" /\ w.pattern = c.pattern /\ w.values = captured'[r]
    BY <1>1 DEF Result
  <1>5. c.pc = "token" => ~IsSilent(r)'
    BY <1>1 DEF Result, IsSilent
  <1>6. Result(r, c)'
    BY <1>2, <1>3, <1>4, <1>5 DEF Result
  <1> QED BY <1>6 DEF IsTried

\* A step of the rule at hand.
LEMMA WorkGoesOn ==
  ASSUME AtWork, UNCHANGED <<order, message, rule, waiting, reports>>,
         NEW c, Reaches(order[rule], message, c), NEW d, Goes(order[rule], message, c, d),
         Shown(d)', Holds(rule, d)'
  PROVE  AtWork'
  <1>1. Reaches(order[rule], message, d)
    BY ReachesNext
  <1>2. Reaches(order[rule], message, d)'
    BY <1>1
  <1>3. rule' \notin waiting' /\ IsSilent(rule)'
    BY DEF AtWork, IsSilent
  <1> QED BY <1>2, <1>3 DEF AtWork

LEMMA StartGoesOn ==
  ASSUME TypeOK, AtWork, mode # "scan", StartPattern
  PROVE  AtWork'
  <1>1. PICK c : Reaches(order[rule], message, c) /\ Shown(c) /\ Holds(rule, c)
    BY DEF AtWork
  <1>2. InPattern(order[rule], c) /\ PatternAt(order[rule], c) = Current
    BY <1>1 DEF Shown, InPattern, PatternAt, Current, StartPattern
  <1>3. UNCHANGED <<order, message, rule, waiting, reports, captured, mode, number, matched>> /\ pc = "pattern"
    BY DEF StartPattern
  <1>4. CASE Anchored(Current, message)
    <2>1. PICK d : d = [c EXCEPT !.pc = "token"]
      OBVIOUS
    <2>2. d \in RunType /\ d.pc = "token" /\ d.pattern = c.pattern /\ d.token = c.token /\ d.offset = c.offset
          /\ d.matched = c.matched /\ d.at = c.at
      BY <1>1, <2>1 DEF Shown, RunType
    <2>3. Goes(order[rule], message, c, d)
      BY <1>2, <1>4, <2>1 DEF Goes, IsAnchored
    <2>4. pc' = "token" /\ token' = 1 /\ pattern' = pattern /\ offset' = 0
      BY <1>4 DEF StartPattern
    <2>5. Shown(d)'
      BY <1>1, <1>3, <2>2, <2>4 DEF Shown
    <2>6. Holds(rule, c)'
      BY <1>1, <1>3, HeldStays
    <2>7. Holds(rule, d)'
      BY <2>2, <2>6 DEF Holds, IsHeld
    <2> QED BY <1>1, <1>3, <2>3, <2>5, <2>7, WorkGoesOn
  <1>5. CASE ~Anchored(Current, message)
    <2>1. PICK d : d = [c EXCEPT !.pattern = @ + 1]
      OBVIOUS
    <2>2. d \in RunType /\ d.pc = c.pc /\ d.pattern = c.pattern + 1 /\ d.token = c.token /\ d.offset = c.offset
          /\ d.matched = c.matched /\ d.at = c.at
      BY <1>1, <2>1 DEF Shown, RunType
    <2>3. Goes(order[rule], message, c, d)
      BY <1>2, <1>5, <2>1 DEF Goes, Skips
    <2>4. pc' = "pattern" /\ pattern' = pattern + 1
      BY <1>3, <1>5 DEF StartPattern
    <2>5. Shown(d)'
      BY <1>1, <1>3, <2>2, <2>4 DEF Shown
    <2>6. Holds(rule, c)'
      BY <1>1, <1>3, HeldStays
    <2>7. Holds(rule, d)'
      BY <2>2, <2>6 DEF Holds, IsHeld
    <2> QED BY <1>1, <1>3, <2>3, <2>5, <2>7, WorkGoesOn
  <1> QED BY <1>4, <1>5

\* The token at hand, in a run that stands where the rule does.
LEMMA TokenShown ==
  ASSUME TypeOK, pc = "token", token <= Len(TokensOf[Current]), NEW c, Shown(c)
  PROVE  /\ InToken(order[rule], c)
         /\ PatternAt(order[rule], c) = Current /\ TokenAt(order[rule], c) = CurrentToken
         /\ AssertAt(order[rule], c) = Asserted
         /\ IsKept(order[rule], c) <=> Remembered
         /\ FieldsAt(order[rule], message, c) = Candidates(CurrentToken, Asserted, SearchFrom)
  <1>1. PatternAt(order[rule], c) = Current
    BY DEF Shown, PatternAt, Current
  <1>2. c.token = token /\ c.offset = offset /\ c.matched = matched[rule] /\ c.pc = "token"
    BY DEF Shown
  <1>3. TokenAt(order[rule], c) = CurrentToken
    BY <1>1, <1>2 DEF TokenAt, CurrentToken
  <1>4. AssertAt(order[rule], c) = Asserted
    BY <1>1, <1>3 DEF AssertAt, Asserted
  <1>5. IsKept(order[rule], c) <=> Remembered
    BY <1>2, <1>3, <1>4 DEF IsKept, Remembered
  <1>6. FieldsAt(order[rule], message, c) = Candidates(CurrentToken, Asserted, SearchFrom)
    BY <1>1, <1>2, <1>3, <1>4, Zenon DEF FieldsAt, Candidates, SearchFrom
  <1> QED BY <1>1, <1>2, <1>3, <1>4, <1>5, <1>6 DEF InToken

LEMMA RememberedGoesOn ==
  ASSUME TypeOK, AtWork, mode # "scan", UseRemembered
  PROVE  AtWork'
  <1>1. PICK c : Reaches(order[rule], message, c) /\ Shown(c) /\ Holds(rule, c)
    BY DEF AtWork
  <1>2. pc = "token" /\ token <= Len(TokensOf[Current]) /\ Remembered
    BY DEF UseRemembered
  <1>3. UNCHANGED <<order, message, rule, waiting, reports, captured, mode, number, matched, pc, pattern, offset>>
        /\ token' = token + 1
    BY DEF UseRemembered
  <1>4. PICK d : d = [c EXCEPT !.token = @ + 1]
    OBVIOUS
  <1>5. d \in RunType /\ d.pc = c.pc /\ d.pattern = c.pattern /\ d.token = c.token + 1 /\ d.offset = c.offset
        /\ d.matched = c.matched /\ d.at = c.at
    BY <1>1, <1>4 DEF Shown, RunType
  <1>6. Goes(order[rule], message, c, d)
    BY <1>1, <1>2, <1>4, TokenShown DEF Goes, Keeps
  <1>7. Shown(d)'
    BY <1>1, <1>2, <1>3, <1>5 DEF Shown
  <1>8. Holds(rule, c)'
    BY <1>1, <1>3, HeldStays
  <1>9. Holds(rule, d)'
    BY <1>5, <1>8 DEF Holds, IsHeld
  <1> QED BY <1>1, <1>3, <1>6, <1>7, <1>9, WorkGoesOn

LEMMA FoundGoesOn ==
  ASSUME TypeOK, AtWork, mode # "scan", MatchToken
  PROVE  AtWork'
  <1>1. PICK c : Reaches(order[rule], message, c) /\ Shown(c) /\ Holds(rule, c)
    BY DEF AtWork
  <1>2. pc = "token" /\ token <= Len(TokensOf[Current]) /\ ~Remembered
    BY DEF MatchToken
  <1>3. CurrentToken \in Tokens /\ rule \in Rules
    BY <1>2, TokenType
  <1>4. UNCHANGED <<order, message, rule, waiting, reports, mode, number, pc, pattern>> /\ token' = token + 1
        /\ matched' = [matched EXCEPT ![rule][CurrentToken] = TRUE]
    BY DEF MatchToken
  <1>5. PICK t : t = CurrentToken
    OBVIOUS
  <1>6. PICK i \in Candidates(CurrentToken, Asserted, SearchFrom) :
          /\ \A j \in Candidates(CurrentToken, Asserted, SearchFrom) : i <= j
          /\ captured' = [captured EXCEPT ![rule][CurrentToken] = [message |-> number, at |-> i]]
          /\ offset' = i
    BY DEF MatchToken
  <1>7. i \in Nat \ {0}
    BY <1>6, MessageType DEF Candidates
  <1>8. PICK d : d = [c EXCEPT !.offset = i, !.token = @ + 1, !.matched = [c.matched EXCEPT ![t] = TRUE],
                               !.at = [c.at EXCEPT ![t] = i]]
    OBVIOUS
  <1>9. c \in RunType
    BY <1>1 DEF Shown
  <1>10. d.pc = c.pc /\ d.pattern = c.pattern /\ d.token = c.token + 1 /\ d.offset = i
         /\ d.matched = [c.matched EXCEPT ![t] = TRUE] /\ d.at = [c.at EXCEPT ![t] = i]
    BY <1>8, <1>9 DEF RunType
  <1>11. d \in RunType
    <2>1. PICK x : x = [c.matched EXCEPT ![t] = TRUE]
      OBVIOUS
    <2>2. PICK y : y = [c.at EXCEPT ![t] = i]
      OBVIOUS
    <2>3. c.matched \in [Tokens -> BOOLEAN] /\ c.at \in [Tokens -> Nat]
      BY <1>9 DEF RunType
    <2>4. x \in [Tokens -> BOOLEAN] /\ y \in [Tokens -> Nat]
      BY <1>7, <2>1, <2>2, <2>3
    <2>5. d = [pc |-> c.pc, pattern |-> c.pattern, token |-> c.token + 1, offset |-> i, matched |-> x, at |-> y]
      BY <1>8, <1>9, <2>1, <2>2 DEF RunType
    <2>6. c.pc \in {"pattern", "token"} /\ c.pattern \in Nat \ {0} /\ c.token + 1 \in Nat \ {0}
      BY <1>9 DEF RunType
    <2> QED BY <1>7, <2>4, <2>5, <2>6 DEF RunType
  <1>12. Goes(order[rule], message, c, d)
    <2>1. InToken(order[rule], c) /\ TokenAt(order[rule], c) = t /\ ~IsKept(order[rule], c)
          /\ FieldsAt(order[rule], message, c) = Candidates(CurrentToken, Asserted, SearchFrom)
      BY <1>1, <1>2, <1>5, TokenShown
    <2>2. i \in FieldsAt(order[rule], message, c) /\ \A j \in FieldsAt(order[rule], message, c) : i <= j
      BY <1>6, <2>1
    <2>3. Finds(order[rule], message, c, d)
      BY <1>8, <2>1, <2>2 DEF Finds
    <2> QED BY <2>3 DEF Goes
  <1>13. Shown(d)'
    <2>1. matched'[rule] = [matched[rule] EXCEPT ![t] = TRUE]
      BY <1>3, <1>4, <1>5 DEF TypeOK
    <2> QED BY <1>1, <1>2, <1>4, <1>6, <1>10, <1>11, <2>1 DEF Shown
  <1>14. Holds(rule, d)'
    <2>1. captured'[rule] = [captured[rule] EXCEPT ![t] = [message |-> number, at |-> i]]
      BY <1>3, <1>5, <1>6 DEF TypeOK
    <2>2. captured[rule] \in [Tokens -> Captures] /\ c.at \in [Tokens -> Nat]
      BY <1>3, <1>9 DEF TypeOK, RunType
    <2> SUFFICES ASSUME NEW u \in Tokens PROVE IsHeld(rule, d, u)'
      BY DEF Holds
    <2>3. CASE u = t
      <3>1. d.at[u] = i /\ captured'[rule][u] = [message |-> number, at |-> i]
        BY <1>3, <1>5, <1>10, <2>1, <2>2, <2>3
      <3> QED BY <1>4, <1>7, <3>1 DEF IsHeld
    <2>4. CASE u # t
      <3>1. d.at[u] = c.at[u] /\ captured'[rule][u] = captured[rule][u]
        BY <1>3, <1>5, <1>10, <2>1, <2>2, <2>4
      <3>2. IsHeld(rule, c, u)
        BY <1>1 DEF Holds
      <3> QED BY <1>4, <3>1, <3>2 DEF IsHeld
    <2> QED BY <2>3, <2>4
  <1> QED BY <1>1, <1>4, <1>12, <1>13, <1>14, WorkGoesOn

LEMMA MissGoesOn ==
  ASSUME TypeOK, AtWork, mode # "scan", PatternFails
  PROVE  AtWork'
  <1>1. PICK c : Reaches(order[rule], message, c) /\ Shown(c) /\ Holds(rule, c)
    BY DEF AtWork
  <1>2. pc = "token" /\ token <= Len(TokensOf[Current]) /\ ~Remembered
        /\ Candidates(CurrentToken, Asserted, SearchFrom) = {}
    BY DEF PatternFails
  <1>3. CurrentToken \in Tokens /\ rule \in Rules
    BY <1>2, TokenType
  <1>4. UNCHANGED <<order, message, rule, waiting, reports, mode, number, captured>> /\ pattern' = pattern + 1
        /\ pc' = "pattern" /\ matched' = [matched EXCEPT ![rule][CurrentToken] = FALSE]
    BY DEF PatternFails
  <1>5. PICK t : t = CurrentToken
    OBVIOUS
  <1>6. PICK d : d = [c EXCEPT !.pc = "pattern", !.pattern = @ + 1, !.token = 1, !.offset = 0,
                               !.matched = [c.matched EXCEPT ![t] = FALSE]]
    OBVIOUS
  <1>7. c \in RunType
    BY <1>1 DEF Shown
  <1>8. d.pc = "pattern" /\ d.pattern = c.pattern + 1 /\ d.token = 1 /\ d.offset = 0
        /\ d.matched = [c.matched EXCEPT ![t] = FALSE] /\ d.at = c.at
    BY <1>6, <1>7 DEF RunType
  <1>9. d \in RunType
    <2>1. PICK x : x = [c.matched EXCEPT ![t] = FALSE]
      OBVIOUS
    <2>2. x \in [Tokens -> BOOLEAN]
      <3>1. c.matched \in [Tokens -> BOOLEAN]
        BY <1>7 DEF RunType
      <3> QED BY <2>1, <3>1
    <2>3. d = [pc |-> "pattern", pattern |-> c.pattern + 1, token |-> 1, offset |-> 0, matched |-> x, at |-> c.at]
      BY <1>6, <1>7, <2>1 DEF RunType
    <2>4. c.pattern + 1 \in Nat \ {0} /\ c.at \in [Tokens -> Nat]
      BY <1>7 DEF RunType
    <2> QED BY <2>2, <2>3, <2>4 DEF RunType
  <1>10. Goes(order[rule], message, c, d)
    <2>1. InToken(order[rule], c) /\ TokenAt(order[rule], c) = t /\ ~IsKept(order[rule], c)
          /\ FieldsAt(order[rule], message, c) = {}
      BY <1>1, <1>2, <1>5, TokenShown
    <2>2. Misses(order[rule], message, c, d)
      BY <1>6, <2>1 DEF Misses
    <2> QED BY <2>2 DEF Goes
  <1>11. Shown(d)'
    <2>1. matched'[rule] = [matched[rule] EXCEPT ![t] = FALSE]
      BY <1>3, <1>4, <1>5 DEF TypeOK
    <2> QED BY <1>1, <1>4, <1>8, <1>9, <2>1 DEF Shown
  <1>12. Holds(rule, c)'
    BY <1>1, <1>4, HeldStays
  <1>13. Holds(rule, d)'
    BY <1>8, <1>12 DEF Holds, IsHeld
  <1> QED BY <1>1, <1>4, <1>10, <1>11, <1>13, WorkGoesOn

\* The first rule and every other one starts without its tokens.
LEMMA TryStarts ==
  ASSUME TypeOK, Trying, TryRule, mode # "scan"
  PROVE  Trying'
  <1>1. pc = "rule" /\ pattern' = 1 /\ pc' = "pattern"
        /\ UNCHANGED <<order, mode, number, message, token, offset, captured, reports>>
    BY DEF TryRule
  <1>2. PICK r \in waiting : rule' = r /\ waiting' = waiting \ {r} /\ matched' = Cleared(r)
    BY DEF TryRule
  <1>3. r \in Rules /\ IsNew(r)
    BY <1>2 DEF TypeOK, Trying
  <1>4. Holds(r, Begun)' /\ IsSilent(r)'
    <2>1. Holds(r, Begun) /\ IsSilent(r)
      BY <1>3 DEF IsNew
    <2> QED BY <1>1, <2>1, HeldStays DEF IsSilent
  <1>5. Shown(Begun)'
    <2>1. matched'[r] = [t \in Tokens |-> FALSE]
      BY <1>2, <1>3 DEF Cleared, TypeOK
    <2> QED BY <1>1, <1>2, <2>1, BegunType DEF Shown, Begun
  <1>6. Reaches(order[rule], message, Begun)'
    BY ReachesFirst
  <1>7. AtWork'
    <2>1. rule' \notin waiting'
      BY <1>2
    <2>2. IsSilent(rule)' /\ Holds(rule, Begun)'
      BY <1>2, <1>4 DEF IsSilent, Holds, IsHeld
    <2> QED BY <1>5, <1>6, <2>1, <2>2 DEF AtWork
  <1>8. \A s \in Rules : IsTried(s) => IsTried(s)'
    BY <1>1, TriedStays
  <1>9. \A w \in reports' : IsTried(w.rule)'
    <2>1. \A w \in reports : w.rule \in Rules /\ IsTried(w.rule)
      BY DEF Trying, TypeOK
    <2> QED BY <1>1, <1>8, <2>1
  <1>10. \A s \in waiting' : IsNew(s)'
    <2> SUFFICES ASSUME NEW s \in waiting' PROVE IsNew(s)'
      OBVIOUS
    <2>1. IsNew(s)
      BY <1>2 DEF Trying
    <2>2. IsSilent(s)'
      BY <1>1, <2>1 DEF IsNew, IsSilent
    <2> QED BY <1>1, <2>1, <2>2, NewStays
  <1>11. mode' = "example" \/ (mode' = "single" /\ reports' = {}) =>
           \A s \in Rules \ waiting' : pc' = "rule" \/ s # rule' => IsTried(s)'
    <2> SUFFICES ASSUME mode = "example" \/ (mode = "single" /\ reports = {}), NEW s \in Rules \ waiting', s # r
                 PROVE  IsTried(s)'
      BY <1>1, <1>2
    <2>1. IsTried(s)
      BY <1>1, <1>2 DEF Trying
    <2> QED BY <1>8, <2>1
  <1>12. ~(mode = "single" /\ reports # {})
    BY <1>2 DEF Trying
  <1> QED BY <1>1, <1>7, <1>9, <1>10, <1>11, <1>12 DEF Trying

LEMMA OthersStay ==
  ASSUME TypeOK, Trying, mode # "scan", pc \in {"pattern", "token"}, pc' \in {"pattern", "token"},
         UNCHANGED <<order, mode, number, message, rule, waiting, reports>>,
         \A r \in Rules : r # rule => captured'[r] = captured[r], AtWork'
  PROVE  Trying'
  <1>1. rule \notin waiting /\ IsSilent(rule)
    BY DEF Trying, AtWork
  <1>2. ASSUME NEW r \in Rules, r # rule, IsTried(r) PROVE IsTried(r)'
    BY <1>2, TriedStays
  <1>3. \A w \in reports' : IsTried(w.rule)'
    <2> SUFFICES ASSUME NEW w \in reports PROVE IsTried(w.rule)'
      OBVIOUS
    <2>1. w.rule \in Rules /\ IsTried(w.rule) /\ w.rule # rule
      BY <1>1 DEF Trying, TypeOK, IsSilent
    <2> QED BY <1>2, <2>1
  <1>4. \A r \in waiting' : IsNew(r)'
    <2> SUFFICES ASSUME NEW r \in waiting PROVE IsNew(r)'
      OBVIOUS
    <2>1. r \in Rules /\ r # rule /\ IsNew(r)
      BY <1>1 DEF Trying, TypeOK
    <2>2. IsSilent(r)'
      BY <2>1 DEF IsNew, IsSilent
    <2> QED BY <2>1, <2>2, NewStays
  <1>5. mode' = "example" \/ (mode' = "single" /\ reports' = {}) =>
          \A r \in Rules \ waiting' : pc' = "rule" \/ r # rule' => IsTried(r)'
    <2> SUFFICES ASSUME mode = "example" \/ (mode = "single" /\ reports = {}), NEW r \in Rules \ waiting, r # rule
                 PROVE  IsTried(r)'
      OBVIOUS
    <2>1. IsTried(r)
      BY DEF Trying
    <2> QED BY <1>2, <2>1
  <1>6. ~(mode = "single" /\ reports # {})
    BY DEF Trying
  <1> QED BY <1>3, <1>4, <1>5, <1>6 DEF Trying

WorkStep == StartPattern \/ UseRemembered \/ MatchToken \/ PatternFails

LEMMA WorkKept ==
  ASSUME TypeOK, Trying, mode # "scan", WorkStep
  PROVE  Trying'
  <1>1. pc \in {"pattern", "token"} /\ pc' \in {"pattern", "token"}
    BY DEF WorkStep, StartPattern, UseRemembered, MatchToken, PatternFails
  <1>2. UNCHANGED <<order, mode, number, message, rule, waiting, reports>>
    BY DEF WorkStep, StartPattern, UseRemembered, MatchToken, PatternFails
  <1>3. \A r \in Rules : r # rule => captured'[r] = captured[r]
    <2>1. CASE MatchToken
      <3>1. PICK i : captured' = [captured EXCEPT ![rule][CurrentToken] = [message |-> number, at |-> i]]
        BY <2>1 DEF MatchToken
      <3> QED BY <3>1 DEF TypeOK
    <2>2. CASE ~MatchToken
      BY <2>2 DEF WorkStep, StartPattern, UseRemembered, PatternFails
    <2> QED BY <2>1, <2>2
  <1>4. AtWork
    BY <1>1 DEF Trying
  <1>5. AtWork'
    BY <1>4, StartGoesOn, RememberedGoesOn, FoundGoesOn, MissGoesOn DEF WorkStep
  <1> QED BY <1>1, <1>2, <1>3, <1>5, OthersStay

\* A rule that is left is done with, and reports the pattern it stopped at.
LEMMA FailKept ==
  ASSUME TypeOK, Trying, mode # "scan", RuleFails
  PROVE  Trying'
  <1>1. pc = "pattern" /\ pattern > Len(order[rule]) /\ pc' = "rule"
        /\ UNCHANGED <<order, mode, number, message, waiting, rule, captured, reports>>
    BY DEF RuleFails
  <1>2. AtWork
    BY <1>1 DEF Trying
  <1>3. PICK c : Reaches(order[rule], message, c) /\ Shown(c) /\ Holds(rule, c)
    BY <1>2 DEF AtWork
  <1>4. Ended(order[rule], message, c)
    <2>1. c \in RunType /\ c.pc = "pattern" /\ c.pattern = pattern
      BY <1>1, <1>3 DEF Shown
    <2>2. rule \in Rules /\ Len(order[rule]) \in Nat
      BY <1>1 DEF TypeOK
    <2>3. Over(order[rule], c)
      BY <1>1, <2>1, <2>2 DEF Over, InPattern, InToken, TypeOK
    <2> QED BY <1>3, <2>1, <2>3 DEF Ended
  <1>5. IsTried(rule)'
    <2>1. Holds(rule, c)'
      BY <1>1, <1>3, HeldStays
    <2>2. Ended(order[rule], message, c)'
      BY <1>1, <1>4
    <2>3. IsSilent(rule)' /\ c.pc = "pattern"
      BY <1>1, <1>2, <1>3 DEF AtWork, IsSilent, Shown
    <2>4. Result(rule, c)'
      BY <2>1, <2>2, <2>3 DEF Result, IsSilent
    <2> QED BY <2>4 DEF IsTried
  <1>6. ASSUME NEW r \in Rules, r = rule \/ IsTried(r) PROVE IsTried(r)'
    <2>1. CASE r = rule
      BY <1>1, <1>5, <2>1 DEF IsTried, Result, Holds, IsHeld, IsSilent
    <2>2. CASE r # rule
      BY <1>1, <1>6, <2>2, TriedStays
    <2> QED BY <2>1, <2>2
  <1>7. \A w \in reports' : IsTried(w.rule)'
    BY <1>1, <1>6 DEF Trying, TypeOK
  <1>8. \A r \in waiting' : IsNew(r)'
    <2> SUFFICES ASSUME NEW r \in waiting PROVE IsNew(r)'
      BY <1>1
    <2>1. IsNew(r)
      BY DEF Trying
    <2>2. IsSilent(r)'
      BY <1>1, <2>1 DEF IsNew, IsSilent
    <2> QED BY <1>1, <2>1, <2>2, NewStays
  <1>9. mode' = "example" \/ (mode' = "single" /\ reports' = {}) => \A r \in Rules \ waiting' : IsTried(r)'
    <2> SUFFICES ASSUME mode = "example" \/ (mode = "single" /\ reports = {}), NEW r \in Rules \ waiting
                 PROVE  IsTried(r)'
      BY <1>1
    <2>1. r = rule \/ IsTried(r)
      BY DEF Trying
    <2> QED BY <1>6, <2>1
  <1>10. ~(mode = "single" /\ reports # {})
    BY <1>1 DEF Trying
  <1> QED BY <1>1, <1>7, <1>8, <1>9, <1>10 DEF Trying

LEMMA MatchKept ==
  ASSUME TypeOK, Trying, mode # "scan", PatternMatches
  PROVE  Trying'
  <1> DEFINE new == [rule |-> rule, pattern |-> pattern, values |-> captured[rule]]
  <1>1. pc = "token" /\ token > Len(TokensOf[Current]) /\ pc' = "rule" /\ reports' = reports \cup {new}
        /\ waiting' = (IF mode = "single" THEN {} ELSE waiting)
        /\ UNCHANGED <<order, mode, number, message, rule, captured>>
    BY DEF PatternMatches
  <1>2. AtWork
    BY <1>1 DEF Trying
  <1>3. PICK c : Reaches(order[rule], message, c) /\ Shown(c) /\ Holds(rule, c)
    BY <1>2 DEF AtWork
  <1>4. c \in RunType /\ c.pc = "token" /\ c.pattern = pattern /\ c.token = token
    BY <1>1, <1>3 DEF Shown
  <1>5. Ended(order[rule], message, c)
    <2>1. PatternAt(order[rule], c) = Current /\ Len(TokensOf[Current]) \in Nat /\ token \in Nat
      BY <1>1, <1>4, CurrentType DEF PatternAt, Current, TypeOK
    <2>2. Over(order[rule], c)
      BY <1>1, <1>4, <2>1 DEF Over, InPattern, InToken
    <2> QED BY <1>3, <1>4, <2>2 DEF Ended
  <1>6. new.rule = rule /\ new.pattern = pattern /\ new.values = captured[rule]
    OBVIOUS
  <1> HIDE DEF new
  <1>7. IsTried(rule)'
    <2>1. Holds(rule, c)'
      BY <1>1, <1>3, HeldStays
    <2>2. Ended(order[rule], message, c)'
      BY <1>1, <1>5
    <2>3. \A w \in reports' : w.rule = rule => w = new
      BY <1>1, <1>2 DEF AtWork, IsSilent
    <2>4. ~IsSilent(rule)'
      BY <1>1, <1>6 DEF IsSilent
    <2>5. Result(rule, c)'
      BY <1>1, <1>4, <1>6, <2>1, <2>2, <2>3, <2>4 DEF Result
    <2> QED BY <2>5 DEF IsTried
  <1>8. ASSUME NEW r \in Rules, r = rule \/ IsTried(r) PROVE IsTried(r)'
    <2>1. CASE r = rule
      BY <1>1, <1>7, <2>1 DEF IsTried, Result, Holds, IsHeld, IsSilent
    <2>2. CASE r # rule
      BY <1>1, <1>6, <1>8, <2>2, TriedStays
    <2> QED BY <2>1, <2>2
  <1>9. \A w \in reports' : IsTried(w.rule)'
    <2> SUFFICES ASSUME NEW w \in reports' PROVE IsTried(w.rule)'
      OBVIOUS
    <2>1. CASE w = new
      BY <1>1, <1>6, <1>8, <2>1 DEF TypeOK
    <2>2. CASE w # new
      <3>1. w \in reports
        BY <1>1, <2>2
      <3> QED BY <1>8, <3>1 DEF Trying, TypeOK
    <2> QED BY <2>1, <2>2
  <1>10. \A r \in waiting' : IsNew(r)'
    <2> SUFFICES ASSUME NEW r \in waiting' PROVE IsNew(r)'
      OBVIOUS
    <2>1. r \in waiting
      BY <1>1
    <2>2. IsNew(r) /\ r # rule
      BY <1>2, <2>1 DEF Trying, AtWork
    <2>3. IsSilent(r)'
      BY <1>1, <1>6, <2>2 DEF IsNew, IsSilent
    <2> QED BY <1>1, <2>2, <2>3, NewStays
  <1>11. mode' = "example" \/ (mode' = "single" /\ reports' = {}) => \A r \in Rules \ waiting' : IsTried(r)'
    <2>1. reports' # {}
      BY <1>1
    <2> SUFFICES ASSUME mode = "example", NEW r \in Rules \ waiting' PROVE IsTried(r)'
      BY <1>1, <2>1
    <2>2. r \in Rules \ waiting
      BY <1>1
    <2>3. r = rule \/ IsTried(r)
      BY <2>2 DEF Trying
    <2> QED BY <1>8, <2>3
  <1>12. mode' = "single" => pc' = "rule" /\ waiting' = {} /\ \A v, w \in reports' : v = w
    <2> SUFFICES ASSUME mode = "single" PROVE waiting' = {} /\ reports' = {new}
      BY <1>1
    <2>1. reports = {}
      BY <1>1 DEF Trying
    <2> QED BY <1>1, <2>1
  <1> QED BY <1>1, <1>9, <1>10, <1>11, <1>12 DEF Trying

\* A message that arrives is new to every token.
LEMMA ReceiveKept ==
  ASSUME TypeOK, Running, Receive PROVE Running'
  <1>1. pc = "idle" /\ pc' = "rule" /\ number' = number + 1 /\ mode' \in {"example", "single", "scan"}
        /\ waiting' = Selected(mode', message') /\ UNCHANGED <<captured, reports>>
    BY DEF Receive, NextModes
  <1>2. reports = {} /\ NoneAhead
    BY <1>1 DEF Running
  <1>3. number \in Nat
    BY RulesAssumption DEF TypeOK
  <1>4. \A r \in Rules, t \in Tokens : captured[r][t].message \in Nat
    BY RulesAssumption DEF TypeOK, Captures
  <1>5. NoneAhead'
    BY <1>1, <1>2, <1>3, <1>4 DEF NoneAhead
  <1>6. ASSUME mode' # "scan" PROVE Trying'
    <2>1. waiting' = Rules
      BY <1>1, <1>6 DEF Selected
    <2>2. ASSUME NEW r \in Rules PROVE IsNew(r)'
      <3>1. \A t \in Tokens : captured'[r][t].message # number'
        BY <1>1, <1>2, <1>3, <1>4, <2>2 DEF NoneAhead
      <3>2. Holds(r, Begun)'
        BY <3>1 DEF Holds, IsHeld, Begun
      <3>3. IsSilent(r)'
        BY <1>1, <1>2 DEF IsSilent
      <3> QED BY <3>2, <3>3 DEF IsNew
    <2> QED BY <1>1, <1>2, <2>1, <2>2 DEF Trying
  <1> QED BY <1>1, <1>5, <1>6 DEF Running

\* Matched again, a token may hold what it captured when all rules were tried.
LEMMA RematchKept ==
  ASSUME TypeOK, Trying, Rematch PROVE Trying'
  <1>1. pc = "rule" /\ waiting = {} /\ mode = "example" /\ mode' = "again" /\ reports' = {}
        /\ UNCHANGED <<order, number, message, pc, captured>>
    BY DEF Rematch
  <1>2. PICK r \in Rules : waiting' = {r}
    BY DEF Rematch
  <1>3. IsTried(r)
    BY <1>1, <1>2 DEF Trying
  <1>4. PICK c : Result(r, c)
    BY <1>3 DEF IsTried
  <1>5. c \in RunType /\ Ended(order[r], message, c) /\ Holds(r, c)
    BY <1>4 DEF Result, Ended
  <1>6. ASSUME NEW t \in Tokens PROVE IsHeld(r, Begun, t)'
    <2>1. Begun.at[t] = 0
      BY DEF Begun
    <2>2. IsHeld(r, c, t)
      BY <1>5 DEF Holds
    <2>3. CASE c.at[t] # 0
      <3>1. captured'[r][t] = [message |-> number', at |-> c.at[t]]
        BY <1>1, <2>2, <2>3 DEF IsHeld
      <3>2. Ended(order'[r], message', c)
        BY <1>1, <1>5
      <3> QED BY <1>1, <2>1, <2>3, <3>1, <3>2 DEF IsHeld
    <2>4. CASE c.at[t] = 0
      <3>1. captured'[r][t].message # number'
        BY <1>1, <2>2, <2>4 DEF IsHeld
      <3> QED BY <2>1, <3>1 DEF IsHeld
    <2> QED BY <2>3, <2>4
  <1>7. IsNew(r)'
    BY <1>1, <1>6 DEF IsNew, IsSilent, Holds
  <1> QED BY <1>1, <1>2, <1>7 DEF Trying

LEMMA NoneAheadKept ==
  ASSUME TypeOK, NoneAhead, UNCHANGED number, UNCHANGED captured \/ MatchToken
  PROVE  NoneAhead'
  <1>1. CASE UNCHANGED captured
    BY <1>1 DEF NoneAhead
  <1>2. CASE MatchToken
    <2>1. PICK i : captured' = [captured EXCEPT ![rule][CurrentToken] = [message |-> number, at |-> i]]
      BY <1>2 DEF MatchToken
    <2>2. number \in Nat
      BY RulesAssumption DEF TypeOK
    <2> SUFFICES ASSUME NEW r \in Rules, NEW t \in Tokens PROVE captured'[r][t].message <= number
      BY DEF NoneAhead
    <2>3. captured'[r][t] = captured[r][t] \/ captured'[r][t] = [message |-> number, at |-> i]
      BY <2>1 DEF TypeOK
    <2>4. captured[r][t].message <= number
      BY DEF NoneAhead
    <2> QED BY <2>2, <2>3, <2>4
  <1> QED BY <1>1, <1>2

LEMMA RunningStep == TypeOK /\ Running /\ [Next]_vars => Running'
  <1> SUFFICES ASSUME TypeOK, Running, [Next]_vars PROVE Running'
    OBVIOUS
  <1>1. CASE Receive
    BY <1>1, ReceiveKept
  <1>2. CASE TryRule
    <2>1. pc = "rule" /\ pc' = "pattern" /\ UNCHANGED <<mode, number, captured>>
      BY <1>2 DEF TryRule
    <2>2. mode # "scan" => Trying'
      BY <1>2, <2>1, TryStarts DEF Running
    <2> QED BY <2>1, <2>2, NoneAheadKept DEF Running
  <1>3. CASE WorkStep
    <2>1. pc \in {"pattern", "token"} /\ pc' \in {"pattern", "token"} /\ UNCHANGED <<mode, number>>
          /\ (UNCHANGED captured \/ MatchToken)
      BY <1>3 DEF WorkStep, StartPattern, UseRemembered, MatchToken, PatternFails
    <2>2. mode # "scan" => Trying'
      BY <1>3, <2>1, WorkKept DEF Running
    <2> QED BY <2>1, <2>2, NoneAheadKept DEF Running
  <1>4. CASE RuleFails
    <2>1. pc = "pattern" /\ pc' = "rule" /\ UNCHANGED <<mode, number, captured>>
      BY <1>4 DEF RuleFails
    <2>2. mode # "scan" => Trying'
      BY <1>4, <2>1, FailKept DEF Running
    <2> QED BY <2>1, <2>2, NoneAheadKept DEF Running
  <1>5. CASE PatternMatches
    <2>1. pc = "token" /\ pc' = "rule" /\ UNCHANGED <<mode, number, captured>>
      BY <1>5 DEF PatternMatches
    <2>2. mode # "scan" => Trying'
      BY <1>5, <2>1, MatchKept DEF Running
    <2> QED BY <2>1, <2>2, NoneAheadKept DEF Running
  <1>6. CASE Rematch
    <2>1. pc = "rule" /\ pc' = "rule" /\ mode = "example" /\ UNCHANGED <<number, captured>>
      BY <1>6 DEF Rematch
    <2>2. Trying'
      BY <1>6, <2>1, RematchKept DEF Running
    <2> QED BY <2>1, <2>2, NoneAheadKept DEF Running
  <1>7. CASE Finish
    <2>1. pc' = "idle" /\ reports' = {} /\ UNCHANGED <<number, captured>>
      BY <1>7 DEF Finish
    <2> QED BY <2>1, NoneAheadKept DEF Running
  <1>8. CASE RejectExample
    <2>1. pc' = "rejected" /\ UNCHANGED <<number, captured>>
      BY <1>8 DEF RejectExample
    <2> QED BY <2>1, NoneAheadKept DEF Running
  <1>9. CASE UNCHANGED vars
    <2>1. UNCHANGED <<order, mode, number, message, pc, waiting, rule, pattern, token, offset, matched, captured, reports>>
      BY <1>9 DEF vars
    <2>2. ASSUME Trying PROVE Trying'
      <3>1. \A r : IsTried(r) => IsTried(r)'
        BY <2>1, TriedStays
      <3>2. \A r : IsNew(r) => IsNew(r)'
        BY <2>1, NewStays DEF IsNew, IsSilent
      <3>3. AtWork => AtWork'
        <4> SUFFICES ASSUME AtWork PROVE AtWork'
          OBVIOUS
        <4>1. PICK c : Reaches(order[rule], message, c) /\ Shown(c) /\ Holds(rule, c)
          BY DEF AtWork
        <4>2. Holds(rule, c)'
          BY <2>1, <4>1, HeldStays
        <4>3. Shown(c)'
          BY <2>1, <4>1 DEF Shown
        <4>4. Reaches(order[rule], message, c)'
          BY <2>1, <4>1
        <4>5. rule' \notin waiting' /\ IsSilent(rule)'
          BY <2>1 DEF AtWork, IsSilent
        <4> QED BY <4>2, <4>3, <4>4, <4>5 DEF AtWork
      <3> QED BY <2>1, <2>2, <3>1, <3>2, <3>3 DEF Trying
    <2>3. NoneAhead'
      BY <2>1, NoneAheadKept DEF Running
    <2> QED BY <2>1, <2>2, <2>3 DEF Running
  <1> QED BY <1>1, <1>2, <1>3, <1>4, <1>5, <1>6, <1>7, <1>8, <1>9 DEF Next, WorkStep

---------------------------------------------------------------------------
(* The examples                                                               *)

TextsOf(m, c) == [t \in {t \in Tokens : c.at[t] # 0} |-> m.fields[c.at[t]].value]

\* What a report says is said by the run of its rule alone.
LEMMA ReportOfRun ==
  ASSUME TypeOK, NEW w \in reports, NEW c, Result(w.rule, c)
  PROVE  c.pc = "token" /\ w.pattern = c.pattern /\ Texts(w) = TextsOf(message, c)
  <1>1. /\ Ended(order[w.rule], message, c) /\ Holds(w.rule, c)
        /\ c.pc = "token" /\ w.pattern = c.pattern /\ w.values = captured[w.rule]
    BY DEF Result
  <1>2. ASSUME NEW t \in Tokens
        PROVE  IF c.at[t] # 0 THEN w.values[t].message = number /\ w.values[t].at = c.at[t]
                              ELSE w.values[t].message # number
    <2>1. IsHeld(w.rule, c, t)
      BY <1>1 DEF Holds
    <2>2. CASE c.at[t] # 0
      BY <1>1, <2>1, <2>2 DEF IsHeld
    <2>3. CASE c.at[t] = 0
      <3> SUFFICES ASSUME captured[w.rule][t].message = number PROVE FALSE
        BY <1>1, <2>3
      <3>1. PICK e : Ended(order[w.rule], message, e) /\ e.at[t] # 0
        BY <2>1, <2>3 DEF IsHeld
      <3>2. e = c
        BY <1>1, <3>1, OneEnd DEF Ended
      <3> QED BY <2>3, <3>1, <3>2
    <2> QED BY <2>2, <2>3
  <1>3. {t \in Tokens : w.values[t].message = number} = {t \in Tokens : c.at[t] # 0}
    BY <1>2
  <1>4. Texts(w) = TextsOf(message, c)
    <2> DEFINE D == {t \in Tokens : c.at[t] # 0}
    <2>1. \A t \in D : message.fields[w.values[t].at].value = message.fields[c.at[t]].value
      BY <1>2
    <2> QED BY <1>3, <2>1 DEF Texts, TextsOf
  <1> QED BY <1>1, <1>4

\* Example x holds of the rules, whatever else is matched: on its message its
\* rule ends with its pattern and what is expected, and no other rule matches.
Meets(p, texts, e) == ReadsStale(p, texts) \/ Expected(p, texts, e)
OnlyRule(q, m) == \A r \in Rules : r # q => \A c : Ended(order[r], m, c) => c.pc # "token"
Accepted(x) ==
  /\ x.rule \in Rules
  /\ OnlyRule(x.rule, x.example.message)
  /\ \E c : /\ Ended(order[x.rule], x.example.message, c) /\ c.pc = "token"
            /\ order[x.rule][c.pattern] = order[x.rule][x.pattern]
            /\ Meets(Loaded(x.rule, c.pattern), TextsOf(x.example.message, c), x.example)

\* While the example is matched again.
OnlyClaimant ==
  \E q \in Rules : /\ OnlyRule(q, message)
                   /\ \E c : /\ Ended(order[q], message, c) /\ c.pc = "token"
                             /\ order[q][c.pattern] = order[Due.rule][Due.pattern]
MatchingAgain ==
  /\ Due.rule \in Rules /\ waiting \subseteq {Due.rule}
  /\ pc # "rule" => rule = Due.rule
  /\ \A w \in reports : w.rule = Due.rule
  /\ OnlyClaimant

AllAccepted == \A x : (\E i \in 1..validated : x = Examples[i]) => Accepted(x)

IsActive == pc \in {"rule", "pattern", "token"}
Validating ==
  /\ IsActive /\ mode \in {"example", "again"} => validated < Len(Examples) /\ message = Due.example.message
  /\ IsActive /\ mode = "again" => MatchingAgain
  /\ mode \in {"single", "scan"} => IsLoaded /\ validated = Len(Examples)
  /\ IsLoaded => AllAccepted

LEMMA SameExamples ==
  ASSUME UNCHANGED <<order, rules>>
  PROVE  /\ Examples' = Examples
         /\ \A x : Accepted(x) => Accepted(x)'
         /\ UNCHANGED validated => Due' = Due /\ (AllAccepted => AllAccepted')
  <1>1. \A r, k : Loaded(r, k)' = Loaded(r, k)
    BY DEF Loaded
  <1>2. Examples' = Examples
    BY DEF Examples, Loaded
  <1>3. \A q, m : OnlyRule(q, m) => OnlyRule(q, m)'
    BY DEF OnlyRule
  <1>4. ASSUME NEW x, Accepted(x) PROVE Accepted(x)'
    <2>1. PICK c : /\ Ended(order[x.rule], x.example.message, c) /\ c.pc = "token"
                   /\ order[x.rule][c.pattern] = order[x.rule][x.pattern]
                   /\ Meets(Loaded(x.rule, c.pattern), TextsOf(x.example.message, c), x.example)
      BY <1>4 DEF Accepted
    <2>2. x.rule \in Rules /\ OnlyRule(x.rule, x.example.message)'
      BY <1>3, <1>4 DEF Accepted
    <2>3. Meets(Loaded(x.rule, c.pattern), TextsOf(x.example.message, c), x.example)'
      BY <1>1, <2>1
    <2>4. Ended(order'[x.rule], x.example.message, c) /\ order'[x.rule][c.pattern] = order'[x.rule][x.pattern]
      BY <2>1
    <2> QED BY <2>1, <2>2, <2>3, <2>4 DEF Accepted
  <1>5. UNCHANGED validated => Due' = Due
    BY <1>2 DEF Due
  <1>6. UNCHANGED validated => (AllAccepted => AllAccepted')
    BY <1>2, <1>4 DEF AllAccepted
  <1> QED BY <1>2, <1>4, <1>5, <1>6

\* An example that is accepted holds.
LEMMA AcceptedHolds ==
  ASSUME TypeOK, Running, Validating, AcceptExample
  PROVE  Accepted(Due)
  <1>1. pc = "rule" /\ mode = "again" /\ \E w \in reports : MayMeet(w, Due.example)
    BY DEF AcceptExample, Finish
  <1>2. PICK x : x = Due
    OBVIOUS
  <1>3. PICK w \in reports : MayMeet(w, x.example)
    BY <1>1, <1>2
  <1>4. message = x.example.message /\ x.rule \in Rules /\ w.rule = x.rule
    BY <1>1, <1>2 DEF Validating, MatchingAgain, IsActive
  <1>5. PICK c : Result(x.rule, c)
    BY <1>1, <1>4 DEF Running, Trying, IsTried
  <1>6. c.pc = "token" /\ w.pattern = c.pattern /\ Texts(w) = TextsOf(message, c)
    BY <1>4, <1>5, ReportOfRun
  <1>7. Ended(order[x.rule], message, c)
    BY <1>5 DEF Result
  <1>8. OnlyClaimant
    BY <1>1 DEF Validating, MatchingAgain, IsActive
  <1>9. PICK q \in Rules : /\ OnlyRule(q, message)
                           /\ \E d : /\ Ended(order[q], message, d) /\ d.pc = "token"
                                     /\ order[q][d.pattern] = order[x.rule][x.pattern]
    BY <1>2, <1>8 DEF OnlyClaimant
  <1>10. q = x.rule
    BY <1>4, <1>6, <1>7, <1>9 DEF OnlyRule
  <1>11. PICK d : Ended(order[q], message, d) /\ order[q][d.pattern] = order[x.rule][x.pattern]
    BY <1>9
  <1>12. d = c
    BY <1>7, <1>10, <1>11, OneEnd DEF Ended
  <1>13. Meets(Loaded(x.rule, c.pattern), TextsOf(message, c), x.example)
    BY <1>3, <1>4, <1>6 DEF MayMeet, Meets
  <1>14. Accepted(x)
    BY <1>4, <1>6, <1>7, <1>9, <1>10, <1>11, <1>12, <1>13 DEF Accepted
  <1> QED BY <1>2, <1>14

\* And the program reports it when its message comes again.
LEMMA AcceptedIsReported ==
  ASSUME TypeOK, Running, pc = "rule", waiting = {}, mode = "single",
         NEW x, Accepted(x), x.example.message = message
  PROVE  \E w \in reports : Claimed(w, x) /\ MayMeet(w, x.example)
  <1>1. PICK c : /\ Ended(order[x.rule], message, c) /\ c.pc = "token"
                 /\ order[x.rule][c.pattern] = order[x.rule][x.pattern]
                 /\ Meets(Loaded(x.rule, c.pattern), TextsOf(message, c), x.example)
    BY DEF Accepted
  <1>2. x.rule \in Rules /\ OnlyRule(x.rule, message)
    BY DEF Accepted
  <1>3. Trying
    BY DEF Running
  <1>4. reports # {}
    <2> SUFFICES ASSUME reports = {} PROVE FALSE
      OBVIOUS
    <2>1. PICK d : Result(x.rule, d)
      BY <1>2, <1>3 DEF Trying, IsTried
    <2>2. d = c
      BY <1>1, <2>1, OneEnd DEF Result, Ended
    <2> QED BY <1>1, <2>1, <2>2 DEF Result, IsSilent
  <1>5. PICK w : reports = {w}
    <2>1. PICK w \in reports : TRUE
      BY <1>4
    <2>2. \A v \in reports : v = w
      BY <1>3, <1>4, <2>1 DEF Trying
    <2> QED BY <2>1, <2>2
  <1>6. PICK d : Result(w.rule, d)
    BY <1>3, <1>5 DEF Trying, IsTried
  <1>7. d.pc = "token" /\ w.pattern = d.pattern /\ Texts(w) = TextsOf(message, d)
    BY <1>5, <1>6, ReportOfRun
  <1>8. Ended(order[w.rule], message, d)
    BY <1>6 DEF Result
  <1>9. w.rule = x.rule
    <2>1. w.rule \in Rules
      BY <1>5 DEF TypeOK
    <2> QED BY <1>2, <1>7, <1>8, <2>1 DEF OnlyRule
  <1>10. d = c
    BY <1>1, <1>8, <1>9, OneEnd DEF Ended
  <1>11. Claimed(w, x)
    BY <1>1, <1>5, <1>7, <1>9, <1>10 DEF Claimed
  <1>12. MayMeet(w, x.example)
    BY <1>1, <1>7, <1>9, <1>10 DEF MayMeet, Meets
  <1> QED BY <1>5, <1>11, <1>12

\* A step of the matching, while the example at hand stays.
LEMMA ActiveStays ==
  ASSUME Validating, IsLoaded, IsLoaded', IsActive, mode' = mode,
         UNCHANGED <<order, rules, message, validated>>,
         mode = "again" => MatchingAgain'
  PROVE  Validating'
  <1>1. Examples' = Examples /\ Due' = Due
    BY SameExamples
  <1>4. AllAccepted'
    BY SameExamples DEF Validating
  <1>5. mode \in {"example", "again"} => validated' < Len(Examples') /\ message' = Due'.example.message
    BY <1>1 DEF Validating
  <1>6. mode \in {"single", "scan"} => validated' = Len(Examples')
    BY <1>1 DEF Validating
  <1> QED BY <1>4, <1>5, <1>6 DEF Validating

LEMMA OnlyClaimantStays ==
  ASSUME UNCHANGED <<order, rules, validated, message>>, OnlyClaimant
  PROVE  OnlyClaimant'
  <1>1. PICK x : x = Due
    OBVIOUS
  <1>2. Due' = x
    BY <1>1, SameExamples
  <1>3. PICK m : m = message
    OBVIOUS
  <1>4. PICK q \in Rules : /\ OnlyRule(q, m)
                           /\ \E c : /\ Ended(order[q], m, c) /\ c.pc = "token"
                                     /\ order[q][c.pattern] = order[x.rule][x.pattern]
    BY <1>1, <1>3 DEF OnlyClaimant
  <1>5. OnlyRule(q, m)'
    BY <1>4 DEF OnlyRule
  <1>6. \E c : /\ Ended(order'[q], m, c) /\ c.pc = "token"
               /\ order'[q][c.pattern] = order'[x.rule][x.pattern]
    BY <1>4
  <1> QED BY <1>2, <1>3, <1>5, <1>6 DEF OnlyClaimant

LEMMA MatchStays ==
  ASSUME TypeOK, Validating, Match PROVE Validating'
  <1>1. IsLoaded /\ UNCHANGED <<reading, parser>>
    BY DEF Match
  <1>2. IsActive /\ IsLoaded' /\ mode' = mode /\ UNCHANGED <<order, rules, message, validated>>
    BY <1>1 DEF Match, TryRule, StartPattern, RuleFails, UseRemembered, MatchToken, PatternFails, PatternMatches,
             IsActive, IsLoaded, reading, parser
  <1>3. ASSUME mode = "again" PROVE MatchingAgain'
    <2>1. PICK q : q = Due.rule
      OBVIOUS
    <2>2. Due'.rule = q
      BY <1>2, <2>1, SameExamples
    <2>3. q \in Rules /\ waiting \subseteq {q} /\ (pc # "rule" => rule = q) /\ \A w \in reports : w.rule = q
      BY <1>2, <1>3, <2>1 DEF Validating, MatchingAgain
    <2>4. OnlyClaimant'
      BY <1>2, <1>3, OnlyClaimantStays DEF Validating, MatchingAgain
    <2>5. waiting' \subseteq {q} /\ (pc' # "rule" => rule' = q) /\ \A w \in reports' : w.rule = q
      <3>1. CASE TryRule
        BY <2>3, <3>1 DEF TryRule
      <3>2. CASE StartPattern \/ RuleFails \/ UseRemembered \/ MatchToken \/ PatternFails
        BY <2>3, <3>2 DEF StartPattern, RuleFails, UseRemembered, MatchToken, PatternFails
      <3>3. CASE PatternMatches
        <4>1. pc = "token" /\ pc' = "rule" /\ waiting' \subseteq waiting
              /\ reports' = reports \cup {[rule |-> rule, pattern |-> pattern, values |-> captured[rule]]}
          BY <3>3 DEF PatternMatches
        <4> QED BY <2>3, <4>1
      <3> QED BY <3>1, <3>2, <3>3 DEF Match
    <2> QED BY <2>2, <2>3, <2>4, <2>5 DEF MatchingAgain
  <1> QED BY <1>1, <1>2, <1>3, ActiveStays

LEMMA MatchAgainStays ==
  ASSUME TypeOK, Running, Validating, MatchAgain PROVE Validating'
  <1>1. pc = "rule" /\ pc' = "rule" /\ waiting = {} /\ mode = "example" /\ mode' = "again" /\ reports' = {}
        /\ UNCHANGED <<order, rules, message, validated>> /\ IsLoaded /\ IsLoaded'
    BY DEF MatchAgain, Rematch, IsLoaded, reading, parser
  <1>2. PICK x : x = Due
    OBVIOUS
  <1>3. PICK w \in reports : Claimed(w, x)
    BY <1>2 DEF MatchAgain
  <1>4. reports = {w} /\ order[w.rule][w.pattern] = order[x.rule][x.pattern]
    BY <1>3 DEF Claimed
  <1>5. \A r \in Rules : IsTried(r)
    BY <1>1 DEF Running, Trying
  <1>6. w.rule \in Rules
    BY <1>3 DEF TypeOK
  <1>7. PICK c : Result(w.rule, c)
    BY <1>5, <1>6 DEF IsTried
  <1>8. Ended(order[w.rule], message, c) /\ c.pc = "token" /\ w.pattern = c.pattern
    BY <1>3, <1>7 DEF Result
  <1>9. OnlyRule(w.rule, message)
    <2> SUFFICES ASSUME NEW r \in Rules, r # w.rule, NEW d, Ended(order[r], message, d) PROVE d.pc # "token"
      BY DEF OnlyRule
    <2>1. PICK e : Result(r, e)
      BY <1>5 DEF IsTried
    <2>2. e = d
      BY <2>1, OneEnd DEF Result, Ended
    <2>3. IsSilent(r)
      BY <1>4 DEF IsSilent
    <2> QED BY <2>1, <2>2, <2>3 DEF Result
  <1>10. OnlyClaimant
    BY <1>2, <1>4, <1>6, <1>8, <1>9 DEF OnlyClaimant
  <1>11. OnlyClaimant'
    BY <1>1, <1>10, OnlyClaimantStays
  <1>12. x.rule \in Rules /\ waiting' = {x.rule}
    BY <1>2 DEF MatchAgain, Rematch
  <1>13. Examples' = Examples /\ Due' = x
    BY <1>1, <1>2, SameExamples
  <1>14. MatchingAgain'
    BY <1>1, <1>11, <1>12, <1>13 DEF MatchingAgain
  <1>15. AllAccepted'
    BY <1>1, SameExamples DEF Validating
  <1>16. validated' < Len(Examples') /\ message' = Due'.example.message
    BY <1>1, <1>2, <1>13 DEF Validating, IsActive
  <1> QED BY <1>1, <1>14, <1>15, <1>16 DEF Validating

LEMMA AcceptStays ==
  ASSUME TypeOK, Running, Validating, validated \in Nat, AcceptExample PROVE Validating'
  <1>1. pc' = "idle" /\ mode' = "again" /\ validated' = validated + 1 /\ IsLoaded
        /\ UNCHANGED <<order, rules>>
    BY DEF AcceptExample, Finish, reading
  <1>2. Examples' = Examples /\ \A y : Accepted(y) => Accepted(y)'
    BY <1>1, SameExamples
  <1>3. Accepted(Examples[validated + 1])
    BY AcceptedHolds DEF Due
  <1>4. ASSUME NEW x, NEW i \in 1..validated', x = Examples'[i] PROVE Accepted(x)'
    <2>1. i \in 1..validated \/ i = validated + 1
      BY <1>1
    <2>2. Accepted(x)
      BY <1>1, <1>2, <1>3, <1>4, <2>1 DEF Validating, AllAccepted
    <2> QED BY <1>2, <2>2
  <1>5. AllAccepted'
    BY <1>4 DEF AllAccepted
  <1> QED BY <1>1, <1>5 DEF Validating, IsActive

\* A message is taken, or ends.
LEMMA OthersKeep ==
  ASSUME Validating, IsLoaded, IsLoaded', UNCHANGED <<order, rules, validated>>,
         IsActive' /\ mode' \in {"example", "again"} =>
           validated < Len(Examples) /\ message' = Due.example.message /\ mode' # "again",
         mode' \in {"single", "scan"} => validated = Len(Examples)
  PROVE  Validating'
  <1>1. Examples' = Examples /\ Due' = Due
    BY SameExamples
  <1>2. AllAccepted'
    BY SameExamples DEF Validating
  <1>3. IsActive' /\ mode' \in {"example", "again"} =>
          validated' < Len(Examples') /\ message' = Due'.example.message
    BY <1>1
  <1>4. ~(IsActive' /\ mode' = "again")
    OBVIOUS
  <1>5. mode' \in {"single", "scan"} => IsLoaded' /\ validated' = Len(Examples')
    BY <1>1
  <1> QED BY <1>2, <1>3, <1>4, <1>5 DEF Validating

LEMMA ValidatingStep ==
  TypeOK /\ CountInv /\ Running /\ Validating /\ [ParserNext]_allVars => Validating'
  <1> SUFFICES ASSUME TypeOK, CountInv, Running, Validating, [ParserNext]_allVars PROVE Validating'
    OBVIOUS
  <1>0. validated \in Nat
    BY RulesAssumption DEF TypeOK, CountInv
  <1>1. ASSUME stage # "loaded", UNCHANGED <<vars, parser>> PROVE Validating'
    <2>1. pc' = "idle" /\ validated' = 0 /\ mode' \notin {"single", "scan"}
      BY <1>1 DEF CountInv, Validating, IsLoaded, vars, parser
    <2>2. AllAccepted'
      BY <2>1 DEF AllAccepted
    <2> QED BY <2>1, <2>2 DEF Validating, IsActive
  <1>2. CASE RefuseCommand
    BY <1>1, <1>2 DEF RefuseCommand
  <1>3. CASE ReadRules
    <2>1. stage # "loaded"
      BY <1>3 DEF ReadRules, Read, AbortOnKey, RefusePattern, ReadPattern, EndPatterns,
                  RefuseBuild, BuildPattern, RefuseDirectory, FinishFile, InFile, InPatterns
    <2> QED BY <1>1, <1>3, <2>1 DEF ReadRules
  <1>4. CASE TakeExample
    <2>1. IsLoaded /\ IsLoaded' /\ UNCHANGED <<order, rules, validated>> /\ validated < Len(Examples)
          /\ mode' = "example" /\ message' = Due.example.message
      BY <1>4 DEF TakeExample, Receive, IsLoaded, reading, parser
    <2> QED BY <2>1, OthersKeep
  <1>5. CASE TakeMessage
    <2>1. IsLoaded /\ IsLoaded' /\ UNCHANGED <<order, rules, validated>> /\ validated = Len(Examples)
          /\ mode' \in {"single", "scan"}
      BY <1>5 DEF TakeMessage, Receive, IsLoaded, reading, parser
    <2> QED BY <2>1, OthersKeep
  <1>6. CASE Match
    BY <1>6, MatchStays
  <1>7. CASE MatchAgain
    BY <1>7, MatchAgainStays
  <1>8. CASE AcceptExample
    BY <1>0, <1>8, AcceptStays
  <1>9. CASE Reject
    <2>1. IsLoaded /\ IsLoaded' /\ UNCHANGED <<order, rules, validated>> /\ pc' = "rejected"
          /\ mode \in {"example", "again"} /\ mode' = mode
      BY <1>9 DEF Reject, RejectExample, IsLoaded, reading, parser
    <2> QED BY <2>1, OthersKeep DEF IsActive
  <1>10. CASE FinishMessage
    <2>1. IsLoaded /\ IsLoaded' /\ UNCHANGED <<order, rules, validated>> /\ pc' = "idle"
          /\ mode \in {"single", "scan"} /\ mode' = mode
      BY <1>10 DEF FinishMessage, Finish, IsLoaded, reading, parser
    <2>2. validated = Len(Examples)
      BY <2>1 DEF Validating
    <2> QED BY <2>1, <2>2, OthersKeep DEF IsActive
  <1>11. CASE UNCHANGED allVars
    <2>1. UNCHANGED <<order, mode, message, pc, waiting, rule, reports, rules, stage, validated>>
      BY <1>11 DEF allVars, vars, reading, parser
    <2>2. CASE ~IsLoaded
      BY <1>1, <1>11, <2>2 DEF IsLoaded, allVars
    <2>3. CASE IsLoaded /\ ~IsActive
      <3>1. ~IsActive' /\ IsLoaded' /\ mode' = mode
        BY <2>1, <2>3 DEF IsActive, IsLoaded
      <3>2. mode' \in {"single", "scan"} => validated = Len(Examples)
        BY <3>1 DEF Validating
      <3> QED BY <2>1, <2>3, <3>1, <3>2, OthersKeep
    <2>4. CASE IsLoaded /\ IsActive
      <3>1. ASSUME mode = "again" PROVE MatchingAgain'
        <4>1. MatchingAgain
          BY <2>4, <3>1 DEF Validating
        <4>2. OnlyClaimant'
          BY <2>1, <4>1, OnlyClaimantStays DEF MatchingAgain
        <4>3. Due' = Due
          BY <2>1, SameExamples
        <4> QED BY <2>1, <4>1, <4>2, <4>3 DEF MatchingAgain
      <3>2. IsLoaded'
        BY <2>1, <2>4 DEF IsLoaded
      <3> QED BY <2>1, <2>4, <3>1, <3>2, ActiveStays
    <2> QED BY <2>2, <2>3, <2>4
  <1> QED BY <1>2, <1>3, <1>4, <1>5, <1>6, <1>7, <1>8, <1>9, <1>10, <1>11 DEF ParserNext

---------------------------------------------------------------------------
(* The lists of examples                                                      *)

\* The patterns that were read and built have lists of examples.
IsLists(S) == \A d \in S : "examples" \in DOMAIN d /\ IsList(d.examples)
ListsInv ==
  /\ \E S : described \in Seq(S) /\ IsLists(S)
  /\ IsLists(built)
  /\ \A i \in 1..Len(rules) : IsLists(rules[i].patterns)

LEMMA ListOf == ASSUME NEW S, NEW s \in Seq(S) PROVE IsList(s)
  BY DEF IsList, Range

LEMMA ListsJoin == ASSUME NEW s, NEW t, IsList(s), IsList(t) PROVE IsList(s \o t)
  <1> DEFINE S == Range(s) \cup Range(t)
  <1>1. s \in Seq(S) /\ t \in Seq(S)
    BY DEF IsList
  <1>2. s \o t \in Seq(S)
    BY <1>1
  <1> QED BY <1>2, ListOf

LEMMA KeptLists ==
  ASSUME NEW S, described \in Seq(S), IsLists(S), NEW p, "examples" \in DOMAIN p, IsList(p.examples)
  PROVE  \E T : Kept(p) \in Seq(T) /\ IsLists(T)
  <1>1. CASE Has(described, p.id)
    <2> DEFINE New(i) == IF described[i].id = p.id
                         THEN [described[i] EXCEPT !.examples = @ \o p.examples]
                         ELSE described[i]
               T == {New(i) : i \in DOMAIN described}
    <2>1. Kept(p) = [i \in DOMAIN described |-> New(i)]
      BY <1>1 DEF Kept
    <2>2. Kept(p) \in Seq(T)
      BY <2>1
    <2>3. ASSUME NEW i \in DOMAIN described
          PROVE  "examples" \in DOMAIN New(i) /\ IsList(New(i).examples)
      <3>1. "examples" \in DOMAIN described[i] /\ IsList(described[i].examples)
        BY DEF IsLists
      <3>2. CASE described[i].id = p.id
        <4>1. New(i) = [described[i] EXCEPT !.examples = described[i].examples \o p.examples]
          BY <3>2
        <4>2. "examples" \in DOMAIN New(i) /\ New(i).examples = described[i].examples \o p.examples
          BY <3>1, <4>1
        <4> QED BY <3>1, <4>2, ListsJoin
      <3> QED BY <3>1, <3>2
    <2> QED BY <2>2, <2>3 DEF IsLists
  <1>2. CASE ~Has(described, p.id)
    <2>1. PICK d : d = Described(p)
      OBVIOUS
    <2>2. "examples" \in DOMAIN d /\ d.examples = p.examples
      BY <2>1 DEF Described
    <2>3. Kept(p) = Append(described, d)
      BY <1>2, <2>1 DEF Kept
    <2>4. Kept(p) \in Seq(S \cup {d}) /\ IsLists(S \cup {d})
      BY <2>2, <2>3 DEF IsLists
    <2> QED BY <2>4
  <1> QED BY <1>1, <1>2

LEMMA ListsStep == ReadingInv /\ ListsInv /\ Read => ListsInv'
  <1> SUFFICES ASSUME ReadingInv, ListsInv, Read PROVE ListsInv'
    OBVIOUS
  <1>1. CASE UNCHANGED <<described, built, rules>>
    BY <1>1 DEF ListsInv
  <1>2. CASE ReadPattern
    <2>1. PICK p : p = Entry
      OBVIOUS
    <2>2. "examples" \in DOMAIN p /\ IsList(p.examples)
      <3>1. File \in Range(directory)
        <4>1. file \in DOMAIN directory
          BY <1>2, DirectoriesAssumption DEF ReadPattern, InPatterns, InFile, ReadingInv, ReadingTypeOK, IsList
        <4> QED BY <4>1 DEF File, Range
      <3>2. p \in Range(File.patterns)
        <4>1. IsList(File.patterns)
          BY <3>1, DirectoriesAssumption DEF ReadingInv
        <4>2. at \in DOMAIN File.patterns
          BY <1>2, <4>1 DEF ReadPattern, InPatterns, ReadingInv, ReadingTypeOK, IsList
        <4> QED BY <2>1, <4>2 DEF Entry, Range
      <3> QED BY <3>1, <3>2, DirectoriesAssumption DEF ReadingInv, Keys
    <2>3. PICK S : described \in Seq(S) /\ IsLists(S)
      BY DEF ListsInv
    <2>4. \E T : Kept(p) \in Seq(T) /\ IsLists(T)
      BY <2>2, <2>3, KeptLists
    <2>5. described' = Kept(p) /\ UNCHANGED <<built, rules>>
      BY <1>2, <2>1 DEF ReadPattern
    <2> QED BY <2>4, <2>5 DEF ListsInv
  <1>3. CASE BuildPattern
    <2>1. PICK d \in Unbuilt : built' = built \cup {Pattern(d)}
      BY <1>3 DEF BuildPattern
    <2>2. d \in Range(described)
      BY DEF Unbuilt
    <2>3. "examples" \in DOMAIN d /\ IsList(d.examples)
      BY <2>2 DEF ListsInv, IsLists, Range
    <2>4. PICK b : b = Pattern(d)
      OBVIOUS
    <2>5. "examples" \in DOMAIN b /\ b.examples = d.examples
      BY <2>4 DEF Pattern
    <2>6. IsLists(built')
      BY <2>1, <2>3, <2>4, <2>5 DEF ListsInv, IsLists
    <2>7. UNCHANGED <<described, rules>>
      BY <1>3 DEF BuildPattern
    <2> QED BY <2>6, <2>7 DEF ListsInv
  <1>4. CASE FinishFile
    <2>1. PICK new : new = [id |-> File.id, patterns |-> built]
      OBVIOUS
    <2>2. rules' = Append(rules, new) /\ built' = {} /\ described' = <<>>
      BY <1>4, <2>1 DEF FinishFile
    <2>3. PICK S : rules \in Seq(S)
      BY DEF ReadingInv
    <2>4. Len(rules') = Len(rules) + 1 /\ rules'[Len(rules) + 1] = new
          /\ \A i \in 1..Len(rules) : rules'[i] = rules[i]
      BY <2>2, <2>3
    <2>5. Len(rules) \in Nat
      BY <2>3
    <2>6. ASSUME NEW i \in 1..Len(rules') PROVE IsLists(rules'[i].patterns)
      <3>1. CASE i \in 1..Len(rules)
        BY <2>4, <3>1 DEF ListsInv
      <3>2. CASE i = Len(rules) + 1
        BY <2>1, <2>4, <3>2 DEF ListsInv
      <3> QED BY <2>4, <2>5, <3>1, <3>2
    <2>7. described' \in Seq({}) /\ IsLists({}) /\ IsLists(built')
      BY <2>2 DEF IsLists
    <2> QED BY <2>6, <2>7 DEF ListsInv
  <1> QED BY <1>1, <1>2, <1>3, <1>4 DEF Read, AbortOnKey, RefusePattern, EndPatterns, RefuseBuild,
             RefuseDirectory, Stop

\* F is the function FlattenSeq computes with, as far as m.
IsFlattening(F, ss, m) == F = [i \in 1..m |-> IF i = 1 THEN ss[i] ELSE F[i - 1] \o ss[i]]

LEMMA FlatteningExists == \A ss : \A m \in Nat : \E F : IsFlattening(F, ss, m)
  <1> SUFFICES ASSUME NEW ss PROVE \A m \in Nat : \E F : IsFlattening(F, ss, m)
    OBVIOUS
  <1> DEFINE T == {m \in Nat : ~\E F : IsFlattening(F, ss, m)}
  <1> SUFFICES ASSUME T # {} PROVE FALSE
    OBVIOUS
  <1>1. PICK m \in T : \A y \in T : m <= y
    <2>1. T \subseteq Nat
      OBVIOUS
    <2> HIDE DEF T
    <2> QED BY <2>1, LeastNumber
  <1>2. m \in Nat /\ ~\E F : IsFlattening(F, ss, m)
    OBVIOUS
  <1>3. m # 0
    <2> SUFFICES ASSUME m = 0 PROVE FALSE
      OBVIOUS
    <2> DEFINE F == [i \in 1..0 |-> <<>>]
    <2>1. IsFlattening(F, ss, 0)
      BY DEF IsFlattening
    <2> QED BY <1>2, <2>1
  <1>4. m - 1 \in Nat /\ m - 1 \notin T
    BY <1>1, <1>2, <1>3
  <1>5. PICK F : IsFlattening(F, ss, m - 1)
    BY <1>4
  <1> DEFINE G == [i \in 1..m |-> IF i = 1 THEN ss[i] ELSE F[i - 1] \o ss[i]]
  <1>6. \A i \in 1..(m - 1) : G[i] = F[i]
    <2>1. \A i \in 1..(m - 1) : i \in 1..m
      BY <1>2
    <2> QED BY <1>5, <2>1 DEF IsFlattening
  <1>7. \A i \in 1..m : i # 1 => i - 1 \in 1..(m - 1)
    BY <1>2
  <1>8. IsFlattening(G, ss, m)
    BY <1>6, <1>7 DEF IsFlattening
  <1> QED BY <1>2, <1>8

LEMMA FlattenType ==
  ASSUME NEW S, NEW ss \in Seq(Seq(S)) PROVE FlattenSeq(ss) \in Seq(S)
  <1> DEFINE n == Len(ss)
  <1>1. n \in Nat /\ \A i \in 1..n : ss[i] \in Seq(S)
    OBVIOUS
  <1>2. CASE n = 0
    <2>1. ss = <<>>
      BY <1>2
    <2> QED BY <1>2, <2>1 DEF FlattenSeq
  <1>3. CASE n # 0
    <2> DEFINE F == CHOOSE F : IsFlattening(F, ss, n)
    <2>1. IsFlattening(F, ss, n)
      BY <1>1, FlatteningExists
    <2>2. FlattenSeq(ss) = F[n]
      BY <1>3 DEF FlattenSeq, IsFlattening
    <2> HIDE DEF F, n
    <2>3. \A i \in 1..n : F[i] = IF i = 1 THEN ss[i] ELSE F[i - 1] \o ss[i]
      BY <2>1 DEF IsFlattening
    <2> DEFINE T == {i \in 1..n : F[i] \notin Seq(S)}
    <2>4. T = {}
      <3> SUFFICES ASSUME T # {} PROVE FALSE
        OBVIOUS
      <3>1. T \subseteq Nat
        BY <1>1
      <3>2. PICK i \in T : \A y \in T : i <= y
        <4> HIDE DEF T
        <4> QED BY <3>1, LeastNumber
      <3>3. i \in 1..n /\ F[i] \notin Seq(S)
        OBVIOUS
      <3>4. i # 1
        BY <1>1, <2>3, <3>3
      <3>5. i - 1 \in 1..n /\ F[i - 1] \in Seq(S)
        BY <1>1, <3>2, <3>3, <3>4
      <3>6. F[i] = F[i - 1] \o ss[i]
        BY <2>3, <3>3, <3>4
      <3>7. ss[i] \in Seq(S)
        BY <1>1, <3>3
      <3> QED BY <3>3, <3>5, <3>6, <3>7
    <2>5. n \in 1..n
      BY <1>1, <1>3
    <2> QED BY <2>2, <2>4, <2>5
  <1> QED BY <1>2, <1>3

\* A rule tries patterns of its own, and its file has described them.
OrderInv == \A r \in Rules : \A k \in DOMAIN order[r] : order[r][k] \in PatternsOf[r]
LoadedInv ==
  IsLoaded => /\ Len(rules) = NumRules
              /\ \A r \in Rules : {p.id : p \in rules[r].patterns} = PatternsOf[r]

LEMMA ExamplesListed ==
  ASSUME TypeOK, ListsInv, OrderInv, LoadedInv, IsLoaded PROVE IsList(Examples)
  <1> DEFINE E == UNION {Range(Loaded(r, k).examples) : r \in Rules, k \in Nat}
             X == [rule : Rules, pattern : Nat, example : E]
             Some(r, k) == [e \in DOMAIN Loaded(r, k).examples |->
                              [rule |-> r, pattern |-> k, example |-> Loaded(r, k).examples[e]]]
             Of(r) == [k \in DOMAIN order[r] |-> Some(r, k)]
  <1>1. ASSUME NEW r \in Rules, NEW k \in DOMAIN order[r] PROVE Some(r, k) \in Seq(X)
    <2>1. k \in Nat
      BY DEF TypeOK
    <2>2. PICK p : p = Loaded(r, k)
      OBVIOUS
    <2>3. p \in rules[r].patterns
      <3>1. \E q \in rules[r].patterns : q.id = order[r][k]
        BY DEF OrderInv, LoadedInv
      <3> QED BY <2>2, <3>1 DEF Loaded
    <2>4. IsList(p.examples)
      <3>1. r \in 1..Len(rules)
        BY DEF LoadedInv, Rules
      <3> QED BY <2>3, <3>1 DEF ListsInv, IsLists
    <2>5. Range(p.examples) \subseteq E
      BY <2>1, <2>2
    <2> HIDE DEF E
    <2>6. DOMAIN p.examples = 1..Len(p.examples) /\ Len(p.examples) \in Nat
      BY <2>4 DEF IsList
    <2>7. Some(r, k) = [e \in 1..Len(p.examples) |-> [rule |-> r, pattern |-> k, example |-> p.examples[e]]]
      BY <2>2, <2>6
    <2>8. \A e \in DOMAIN p.examples : p.examples[e] \in E
      BY <2>5 DEF Range
    <2>9. \A e \in 1..Len(p.examples) : [rule |-> r, pattern |-> k, example |-> p.examples[e]] \in X
      BY <2>1, <2>6, <2>8
    <2> HIDE DEF X
    <2>10. PICK s : s = [e \in 1..Len(p.examples) |-> [rule |-> r, pattern |-> k, example |-> p.examples[e]]]
      OBVIOUS
    <2>11. \A e \in 1..Len(p.examples) : s[e] \in X
      BY <2>9, <2>10
    <2>12. DOMAIN s = 1..Len(p.examples) /\ s = [e \in 1..Len(p.examples) |-> s[e]]
      BY <2>10
    <2>13. s \in Seq(X)
      BY <2>6, <2>11, <2>12
    <2> HIDE DEF Some
    <2> QED BY <2>7, <2>10, <2>13
  <1> HIDE DEF X, Some
  <1>2. ASSUME NEW r \in Rules PROVE FlattenSeq(Of(r)) \in Seq(X)
    <2>1. DOMAIN order[r] = 1..Len(order[r]) /\ Len(order[r]) \in Nat
      BY DEF TypeOK
    <2>2. \A k \in 1..Len(order[r]) : Some(r, k) \in Seq(X)
      BY <1>1, <2>1
    <2>3. Of(r) = [k \in 1..Len(order[r]) |-> Some(r, k)]
      BY <2>1
    <2>4. Of(r) \in Seq(Seq(X))
      BY <2>1, <2>2, <2>3
    <2> QED BY <2>4, FlattenType
  <1>3. [r \in Rules |-> FlattenSeq(Of(r))] \in Seq(Seq(X))
    BY <1>2, RulesAssumption DEF Rules
  <1>4. Examples = FlattenSeq([r \in Rules |-> FlattenSeq(Of(r))])
    BY DEF Examples, Some
  <1>5. Examples \in Seq(X)
    BY <1>3, <1>4, FlattenType
  <1> QED BY <1>5, ListOf

LEMMA InitRunning == ParserInit => Running /\ Validating
  <1> SUFFICES ASSUME ParserInit PROVE Running /\ Validating
    OBVIOUS
  <1>1. NoneAhead
    BY DEF ParserInit, Init, NoneAhead, Nowhere
  <1>2. Running
    BY <1>1 DEF ParserInit, Init, Running
  <1>3. Validating
    BY DEF ParserInit, Init, ReadInit, Validating, IsActive, IsLoaded
  <1> QED BY <1>2, <1>3

LEMMA InitOrder == Init => OrderInv
  BY DEF Init, SortedOrders, OrderInv

LEMMA OrderStays == OrderInv /\ [Next]_vars => OrderInv'
  <1> SUFFICES ASSUME OrderInv, [Next]_vars PROVE OrderInv'
    OBVIOUS
  <1>1. order' = order
    BY DEF Next, vars, Receive, TryRule, StartPattern, RuleFails, UseRemembered, MatchToken,
           PatternFails, PatternMatches, Rematch, Finish, RejectExample
  <1> QED BY <1>1 DEF OrderInv

LEMMA LoadedStep ==
  CountInv /\ LoadedInv /\ FilesMeanTheirRules' /\ [ParserNext]_allVars => LoadedInv'
  <1> SUFFICES ASSUME CountInv, LoadedInv, FilesMeanTheirRules', [ParserNext]_allVars PROVE LoadedInv'
    OBVIOUS
  <1>1. CASE UNCHANGED reading
    BY <1>1 DEF reading, LoadedInv, IsLoaded
  <1>2. ASSUME stage # "loaded", UNCHANGED vars PROVE LoadedInv'
    <2>1. number' = 0
      BY <1>2 DEF CountInv, vars
    <2>2. IsLoaded' => RulesAgree'
      BY <2>1 DEF FilesMeanTheirRules, IsLoaded
    <2> QED BY <2>2 DEF RulesAgree, LoadedInv
  <1>3. CASE RefuseCommand
    BY <1>2, <1>3 DEF RefuseCommand
  <1>4. CASE ReadRules
    <2>1. stage # "loaded"
      BY <1>4 DEF ReadRules, Read, AbortOnKey, RefusePattern, ReadPattern, EndPatterns,
                  RefuseBuild, BuildPattern, RefuseDirectory, FinishFile, InFile, InPatterns
    <2> QED BY <1>2, <1>4, <2>1 DEF ReadRules
  <1> QED BY <1>1, <1>3, <1>4 DEF ParserNext, TakeExample, TakeMessage, Match, MatchAgain,
         AcceptExample, Reject, FinishMessage, allVars

LEMMA TrueExamples ==
  TypeOK /\ ListsInv /\ OrderInv /\ LoadedInv /\ Running /\ Validating => ExamplesStayTrue
  <1> SUFFICES ASSUME TypeOK, ListsInv, OrderInv, LoadedInv, Running, Validating,
                      pc = "rule", waiting = {}, mode = "single",
                      NEW x \in Range(Examples), x.example.message = message
               PROVE  \E w \in reports : Claimed(w, x) /\ MayMeet(w, x.example)
    BY DEF ExamplesStayTrue
  <1>1. IsLoaded /\ validated = Len(Examples) /\ AllAccepted
    BY DEF Validating
  <1>2. IsList(Examples)
    BY <1>1, ExamplesListed
  <1>3. PICK i \in DOMAIN Examples : x = Examples[i]
    BY DEF Range
  <1>4. i \in 1..validated
    BY <1>1, <1>2, <1>3 DEF IsList
  <1>5. Accepted(x)
    BY <1>1, <1>3, <1>4 DEF AllAccepted
  <1> QED BY <1>5, AcceptedIsReported

---------------------------------------------------------------------------
(* What a file means                                                          *)

\* F holds the paths of the first m patterns.
IsPaths(F, f, m) == F = [i \in 1..m |-> <<i>> \o IF Climbs(f, i) THEN F[Up(f, i)] ELSE <<>>]

LEMMA UpIsAbove ==
  ASSUME NEW f, NEW i \in Nat, Climbs(f, i)
  PROVE  /\ Up(f, i) \in 1..(i - 1) /\ Up(f, i) \in ParentsIn(f, i) /\ IsFirst(f, Up(f, i))
         /\ f.patterns[Up(f, i)].id = f.patterns[i].extends
  <1>1. Up(f, i) \in ParentsIn(f, i)
    BY DEF Climbs, Up
  <1> QED BY <1>1 DEF ParentsIn

LEMMA PathsExist == \A f : \A m \in Nat : \E F : IsPaths(F, f, m)
  <1> SUFFICES ASSUME NEW f PROVE \A m \in Nat : \E F : IsPaths(F, f, m)
    OBVIOUS
  <1> DEFINE T == {m \in Nat : ~\E F : IsPaths(F, f, m)}
  <1> SUFFICES ASSUME T # {} PROVE FALSE
    OBVIOUS
  <1>1. PICK m \in T : \A y \in T : m <= y
    <2>1. T \subseteq Nat
      OBVIOUS
    <2> HIDE DEF T
    <2> QED BY <2>1, LeastNumber
  <1>2. m \in Nat /\ ~\E F : IsPaths(F, f, m)
    OBVIOUS
  <1>3. m # 0
    <2> SUFFICES ASSUME m = 0 PROVE FALSE
      OBVIOUS
    <2> DEFINE F == [i \in 1..0 |-> <<>>]
    <2>1. IsPaths(F, f, 0)
      BY DEF IsPaths
    <2> QED BY <1>2, <2>1
  <1>4. m - 1 \in Nat /\ m - 1 \notin T
    BY <1>1, <1>2, <1>3
  <1>5. PICK F : IsPaths(F, f, m - 1)
    BY <1>4
  <1> DEFINE G == [i \in 1..m |-> <<i>> \o IF Climbs(f, i) THEN F[Up(f, i)] ELSE <<>>]
  <1>6. \A i \in 1..(m - 1) : G[i] = F[i]
    <2>1. \A i \in 1..(m - 1) : i \in 1..m
      BY <1>2
    <2> QED BY <1>5, <2>1 DEF IsPaths
  <1>7. \A i \in 1..m : Climbs(f, i) => G[Up(f, i)] = F[Up(f, i)]
    <2> TAKE i \in 1..m
    <2> SUFFICES ASSUME Climbs(f, i) PROVE G[Up(f, i)] = F[Up(f, i)]
      OBVIOUS
    <2>1. i \in Nat
      BY <1>2
    <2>2. Up(f, i) \in 1..(i - 1)
      BY <2>1, UpIsAbove
    <2>3. Up(f, i) \in 1..(m - 1)
      BY <1>2, <2>2
    <2> HIDE DEF G
    <2> QED BY <1>6, <2>3
  <1>8. IsPaths(G, f, m)
    <2>1. \A i \in 1..m : G[i] = <<i>> \o IF Climbs(f, i) THEN G[Up(f, i)] ELSE <<>>
      BY <1>7
    <2>2. PICK H : H = [i \in 1..m |-> <<i>> \o IF Climbs(f, i) THEN G[Up(f, i)] ELSE <<>>]
      OBVIOUS
    <2>3. \A i \in 1..m : G[i] = H[i]
      BY <2>1, <2>2
    <2>4. G = H
      BY <2>2, <2>3
    <2> HIDE DEF G
    <2> QED BY <2>2, <2>4 DEF IsPaths
  <1> QED BY <1>2, <1>8

\* A path is that of the pattern above, if there is one.
LEMMA PathIs ==
  ASSUME NEW f, IsList(f.patterns), NEW i \in DOMAIN f.patterns
  PROVE  PathsIn(f)[i] = <<i>> \o IF Climbs(f, i) THEN PathsIn(f)[Up(f, i)] ELSE <<>>
  <1> DEFINE n == Len(f.patterns)
  <1>1. n \in Nat /\ DOMAIN f.patterns = 1..n
    BY DEF IsList
  <1> DEFINE F == CHOOSE F : IsPaths(F, f, n)
  <1>2. IsPaths(F, f, n)
    BY <1>1, PathsExist
  <1>3. PathsIn(f) = F
    BY <1>1 DEF PathsIn, IsPaths
  <1> HIDE DEF F, n
  <1> QED BY <1>1, <1>2, <1>3 DEF IsPaths

\* A path starts at its pattern and goes up to a pattern that does not climb; the
\* path of every pattern on it is the rest of it.
IsPathOf(f, i, w) ==
  /\ w \in Seq(1..i) /\ Len(w) \in Nat \ {0} /\ w[1] = i
  /\ \A k \in 2..Len(w) : w[k] \in 1..(i - 1) /\ IsFirst(f, w[k])
  /\ ~Climbs(f, w[Len(w)])
  /\ \A k \in 1..Len(w) : /\ Range(PathsIn(f)[w[k]]) \subseteq Range(w)
                          /\ Last(PathsIn(f)[w[k]]) = w[Len(w)]

LEMMA SingleRange == ASSUME NEW x PROVE <<x>> \in Seq({x}) /\ Len(<<x>>) = 1 /\ Range(<<x>>) = {x}
  BY DEF Range

LEMMA SeqWidens == ASSUME NEW S, NEW T, S \subseteq T, NEW s \in Seq(S) PROVE s \in Seq(T)
  OBVIOUS

LEMMA ConsParts ==
  ASSUME NEW S, NEW x \in S, NEW v \in Seq(S)
  PROVE  /\ <<x>> \o v \in Seq(S) /\ Len(<<x>> \o v) = Len(v) + 1
         /\ (<<x>> \o v)[1] = x /\ \A k \in 1..Len(v) : (<<x>> \o v)[k + 1] = v[k]
         /\ Range(<<x>> \o v) = {x} \cup Range(v)
  <1>1. PICK w \in Seq(S) : w = <<x>> \o v
    <2>1. <<x>> \in Seq(S)
      OBVIOUS
    <2>2. <<x>> \o v \in Seq(S)
      BY <2>1
    <2> QED BY <2>2
  <1>2. Len(v) \in Nat /\ Len(w) = Len(v) + 1 /\ w[1] = x
    BY <1>1
  <1>3. \A k \in 1..Len(v) : w[k + 1] = v[k]
    BY <1>1, <1>2
  <1>4. DOMAIN w = 1..(Len(v) + 1) /\ DOMAIN v = 1..Len(v)
    BY <1>2
  <1>5. \A k \in DOMAIN w : k = 1 \/ \E j \in 1..Len(v) : k = j + 1
    <2> TAKE k \in DOMAIN w
    <2>1. k = 1 \/ (k - 1 \in 1..Len(v) /\ k = (k - 1) + 1)
      BY <1>2, <1>4
    <2> QED BY <2>1
  <1>6. \A j \in 1..Len(v) : j + 1 \in DOMAIN w
    BY <1>2, <1>4
  <1>7. Range(w) = {x} \cup Range(v)
    <2>1. \A y \in Range(w) : y \in {x} \cup Range(v)
      BY <1>2, <1>3, <1>4, <1>5 DEF Range
    <2>2. \A y \in Range(v) : y \in Range(w)
      BY <1>3, <1>4, <1>6 DEF Range
    <2>3. x \in Range(w)
      <3>1. 1 \in DOMAIN w
        BY <1>2, <1>4
      <3> QED BY <1>2, <3>1 DEF Range
    <2> QED BY <2>1, <2>2, <2>3
  <1> QED BY <1>1, <1>2, <1>3, <1>7

LEMMA PathParts ==
  ASSUME NEW f, IsList(f.patterns)
  PROVE  \A i \in DOMAIN f.patterns : IsPathOf(f, i, PathsIn(f)[i])
  <1> DEFINE T == {i \in DOMAIN f.patterns : ~IsPathOf(f, i, PathsIn(f)[i])}
  <1>0. DOMAIN f.patterns = 1..Len(f.patterns) /\ Len(f.patterns) \in Nat
    BY DEF IsList
  <1> SUFFICES ASSUME T # {} PROVE FALSE
    OBVIOUS
  <1>1. PICK i \in T : \A y \in T : i <= y
    <2>1. T \subseteq Nat
      BY <1>0
    <2> HIDE DEF T
    <2> QED BY <2>1, LeastNumber
  <1>2. i \in DOMAIN f.patterns /\ i \in Nat /\ i >= 1 /\ i <= Len(f.patterns)
    BY <1>0
  <1>3. PICK w : w = PathsIn(f)[i]
    OBVIOUS
  <1>4. w = <<i>> \o IF Climbs(f, i) THEN PathsIn(f)[Up(f, i)] ELSE <<>>
    BY <1>2, <1>3, PathIs
  <1>5. CASE ~Climbs(f, i)
    <2>1. w = <<i>>
      BY <1>4, <1>5
    <2>2. Len(w) = 1 /\ w[1] = i /\ w \in Seq(1..i) /\ Range(w) = {i}
      BY <1>2, <2>1, SingleRange
    <2>3. \A k \in 1..Len(w) : k = 1
      BY <2>2
    <2>4. \A k \in 1..Len(w) : PathsIn(f)[w[k]] = w
      BY <1>3, <2>2, <2>3
    <2>5. Last(w) = w[Len(w)]
      BY DEF Last
    <2>6. ~Climbs(f, w[Len(w)])
      BY <1>5, <2>2
    <2>7. \A k \in 2..Len(w) : FALSE
      BY <2>2
    <2>8. IsPathOf(f, i, w)
      BY <2>2, <2>4, <2>5, <2>6, <2>7 DEF IsPathOf
    <2> QED BY <1>3, <2>8
  <1>6. CASE Climbs(f, i)
    <2>1. PICK u : u = Up(f, i)
      OBVIOUS
    <2>2. u \in 1..(i - 1) /\ IsFirst(f, u)
      BY <1>2, <1>6, <2>1, UpIsAbove
    <2>3. u \in DOMAIN f.patterns /\ u \notin T
      BY <1>0, <1>1, <1>2, <2>2
    <2>4. PICK v : v = PathsIn(f)[u]
      OBVIOUS
    <2>5. IsPathOf(f, u, v)
      BY <2>3, <2>4
    <2> DEFINE n == Len(v)
    <2>6. v \in Seq(1..u) /\ n \in Nat \ {0} /\ v[1] = u
      BY <2>5 DEF IsPathOf
    <2>7. v \in Seq(1..i) /\ i \in 1..i
      <3>1. 1..u \subseteq 1..i
        BY <1>2, <2>2
      <3>2. v \in Seq(1..i)
        BY <2>6, <3>1, SeqWidens
      <3> QED BY <1>2, <3>2
    <2>8. w = <<i>> \o v
      BY <1>4, <1>6, <2>1, <2>4
    <2>9. /\ w \in Seq(1..i) /\ Len(w) = n + 1 /\ w[1] = i
          /\ \A k \in 1..n : w[k + 1] = v[k]
          /\ Range(w) = {i} \cup Range(v)
      <3>1. PICK S : S = 1..i
        OBVIOUS
      <3>2. i \in S /\ v \in Seq(S)
        BY <2>7, <3>1
      <3> HIDE DEF n, T
      <3>3. /\ w \in Seq(S) /\ Len(w) = Len(v) + 1 /\ w[1] = i
            /\ \A k \in 1..Len(v) : w[k + 1] = v[k]
            /\ Range(w) = {i} \cup Range(v)
        BY <2>8, <3>2, ConsParts
      <3> QED BY <3>1, <3>3 DEF n
    <2> HIDE DEF n, T
    <2>10. \A k \in 2..Len(w) : k - 1 \in 1..n /\ w[k] = v[k - 1]
      <3> TAKE k \in 2..Len(w)
      <3>1. k - 1 \in 1..n /\ (k - 1) + 1 = k
        BY <2>6, <2>9
      <3> QED BY <2>9, <3>1
    <2>11. w[Len(w)] = v[n]
      <3>1. Len(w) \in 2..Len(w) /\ Len(w) - 1 = n
        BY <2>6, <2>9
      <3> QED BY <2>10, <3>1
    <2>12. Last(w) = v[n]
      BY <2>11 DEF Last
    <2>13. \A k \in 2..Len(w) : w[k] \in 1..(i - 1) /\ IsFirst(f, w[k])
      <3> TAKE k \in 2..Len(w)
      <3>1. PICK j \in 1..n : j = k - 1 /\ w[k] = v[j]
        BY <2>10
      <3>2. CASE j = 1
        BY <2>2, <2>6, <3>1, <3>2
      <3>3. CASE j # 1
        <4>1. j \in 2..n
          BY <2>6, <3>1, <3>3
        <4>2. v[j] \in 1..(u - 1) /\ IsFirst(f, v[j])
          BY <2>5, <4>1 DEF IsPathOf, n
        <4> QED BY <1>2, <2>2, <3>1, <4>2
      <3> QED BY <3>2, <3>3
    <2>14. ~Climbs(f, w[Len(w)])
      BY <2>5, <2>11 DEF IsPathOf, n
    <2>15. \A k \in 1..Len(w) : /\ Range(PathsIn(f)[w[k]]) \subseteq Range(w)
                                /\ Last(PathsIn(f)[w[k]]) = w[Len(w)]
      <3> TAKE k \in 1..Len(w)
      <3>1. CASE k = 1
        BY <1>3, <2>9, <2>11, <2>12, <3>1
      <3>2. CASE k # 1
        <4>1. k \in 2..Len(w)
          BY <2>6, <2>9, <3>2
        <4>2. PICK j \in 1..n : w[k] = v[j]
          BY <2>10, <4>1
        <4>3. Range(PathsIn(f)[v[j]]) \subseteq Range(v) /\ Last(PathsIn(f)[v[j]]) = v[n]
          BY <2>5 DEF IsPathOf, n
        <4> QED BY <2>9, <2>11, <4>2, <4>3
      <3> QED BY <3>1, <3>2
    <2>16. Len(w) \in Nat \ {0}
      BY <2>6, <2>9
    <2>17. IsPathOf(f, i, w)
      BY <2>9, <2>13, <2>14, <2>15, <2>16 DEF IsPathOf
    <2> QED BY <1>1, <1>3, <2>17 DEF T
  <1> QED BY <1>5, <1>6

---------------------------------------------------------------------------
(* What a pattern lists                                                       *)

LEMMA CatParts ==
  ASSUME NEW S, NEW s \in Seq(S), NEW t \in Seq(S)
  PROVE  s \o t \in Seq(S) /\ Range(s \o t) = Range(s) \cup Range(t)
  <1>1. PICK w \in Seq(S) : w = s \o t
    <2>1. s \o t \in Seq(S)
      OBVIOUS
    <2> QED BY <2>1
  <1>2. /\ Len(s) \in Nat /\ DOMAIN s = 1..Len(s) /\ Len(t) \in Nat /\ DOMAIN t = 1..Len(t)
        /\ Len(w) = Len(s) + Len(t) /\ DOMAIN w = 1..Len(w)
    BY <1>1
  <1>3. \A k \in DOMAIN s : k \in DOMAIN w /\ w[k] = s[k]
    BY <1>1, <1>2
  <1>4. \A k \in DOMAIN t : k + Len(s) \in DOMAIN w /\ w[k + Len(s)] = t[k]
    BY <1>1, <1>2
  <1>5. \A k \in DOMAIN w : k \in DOMAIN s \/ \E j \in DOMAIN t : k = j + Len(s)
    <2> TAKE k \in DOMAIN w
    <2>1. CASE k <= Len(s)
      BY <1>2, <2>1
    <2>2. CASE ~(k <= Len(s))
      <3>1. k - Len(s) \in DOMAIN t /\ k = (k - Len(s)) + Len(s)
        BY <1>2, <2>2
      <3> QED BY <3>1
    <2> QED BY <2>1, <2>2
  <1>6. Range(w) = Range(s) \cup Range(t)
    <2>1. \A y \in Range(w) : y \in Range(s) \cup Range(t)
      <3> TAKE y \in Range(w)
      <3>1. PICK k \in DOMAIN w : y = w[k]
        BY DEF Range
      <3>2. CASE k \in DOMAIN s
        BY <1>3, <3>1, <3>2 DEF Range
      <3>3. ASSUME NEW j \in DOMAIN t, k = j + Len(s) PROVE y \in Range(t)
        BY <1>4, <3>1, <3>3 DEF Range
      <3> QED BY <1>5, <3>2, <3>3
    <2>2. \A y \in Range(s) : y \in Range(w)
      BY <1>3 DEF Range
    <2>3. \A y \in Range(t) : y \in Range(w)
      BY <1>4 DEF Range
    <2> QED BY <2>1, <2>2, <2>3
  <1> QED BY <1>1, <1>6

LEMMA FlattenRange ==
  ASSUME NEW S, NEW ss \in Seq(Seq(S))
  PROVE  Range(FlattenSeq(ss)) = UNION {Range(ss[k]) : k \in 1..Len(ss)}
  <1> DEFINE n == Len(ss)
  <1>1. n \in Nat /\ \A i \in 1..n : ss[i] \in Seq(S)
    OBVIOUS
  <1>2. CASE n = 0
    <2>1. ss = <<>>
      BY <1>2
    <2>2. FlattenSeq(ss) = <<>>
      BY <1>2, <2>1 DEF FlattenSeq
    <2>3. DOMAIN FlattenSeq(ss) = {}
      BY <2>2
    <2>4. 1..Len(ss) = {}
      BY <1>2
    <2> QED BY <2>3, <2>4 DEF Range
  <1>3. CASE n # 0
    <2> DEFINE F == CHOOSE F : IsFlattening(F, ss, n)
               U(i) == UNION {Range(ss[k]) : k \in 1..i}
    <2>1. IsFlattening(F, ss, n)
      BY <1>1, FlatteningExists
    <2>2. FlattenSeq(ss) = F[n]
      BY <1>3 DEF FlattenSeq, IsFlattening
    <2> HIDE DEF F, n
    <2>3. \A i \in 1..n : F[i] = IF i = 1 THEN ss[i] ELSE F[i - 1] \o ss[i]
      BY <2>1 DEF IsFlattening
    <2> DEFINE T == {i \in 1..n : ~(F[i] \in Seq(S) /\ Range(F[i]) = U(i))}
    <2>4. T = {}
      <3> SUFFICES ASSUME T # {} PROVE FALSE
        OBVIOUS
      <3>1. T \subseteq Nat
        BY <1>1
      <3>2. PICK i \in T : \A y \in T : i <= y
        <4> HIDE DEF T
        <4> QED BY <3>1, LeastNumber
      <3>3. i \in 1..n /\ ~(F[i] \in Seq(S) /\ Range(F[i]) = U(i))
        OBVIOUS
      <3>4. i # 1
        <4> SUFFICES ASSUME i = 1 PROVE FALSE
          OBVIOUS
        <4>1. F[i] = ss[1] /\ ss[1] \in Seq(S)
          BY <1>1, <2>3, <3>3
        <4>2. 1..i = {1}
          OBVIOUS
        <4>3. U(i) = Range(ss[1])
          BY <4>2
        <4> QED BY <3>3, <4>1, <4>3
      <3>5. i - 1 \in 1..n /\ F[i - 1] \in Seq(S) /\ Range(F[i - 1]) = U(i - 1)
        <4>1. i - 1 \in 1..n /\ ~(i <= i - 1)
          BY <1>1, <3>3, <3>4
        <4>2. i - 1 \notin T
          <5> HIDE DEF T
          <5> QED BY <3>2, <4>1
        <4> QED BY <4>1, <4>2
      <3>6. F[i] = F[i - 1] \o ss[i]
        BY <2>3, <3>3, <3>4
      <3>7. ss[i] \in Seq(S)
        BY <1>1, <3>3
      <3>8. F[i] \in Seq(S) /\ Range(F[i]) = U(i - 1) \cup Range(ss[i])
        <4>1. PICK s \in Seq(S) : s = F[i - 1]
          BY <3>5
        <4>2. PICK t \in Seq(S) : t = ss[i]
          BY <3>7
        <4>3. s \o t \in Seq(S) /\ Range(s \o t) = Range(s) \cup Range(t)
          BY CatParts
        <4> HIDE DEF U, T
        <4> QED BY <3>5, <3>6, <4>1, <4>2, <4>3
      <3>9. U(i) = U(i - 1) \cup Range(ss[i])
        <4>1. 1..i = (1..(i - 1)) \cup {i}
          BY <1>1, <3>3
        <4> QED BY <4>1
      <3> HIDE DEF U, T
      <3> QED BY <3>3, <3>8, <3>9
    <2>5. n \in 1..n
      BY <1>1, <1>3
    <2>6. Range(F[n]) = U(n)
      BY <2>4, <2>5
    <2> QED BY <2>2, <2>6 DEF n
  <1> QED BY <1>2, <1>3
\* What the first m patterns list.
IsListing(F, f, key, m) ==
  F = [i \in 1..m |->
         FlattenSeq([k \in 1..(Len(PathsIn(f)[i]) - 1) |-> F[PathsIn(f)[i][k + 1]]])
         \o f.patterns[i][key]]

LEMMA ListingsExist ==
  ASSUME NEW f, IsList(f.patterns), NEW key
  PROVE  \A m \in Nat : m <= Len(f.patterns) => \E F : IsListing(F, f, key, m)
  <1> DEFINE T == {m \in Nat : m <= Len(f.patterns) /\ ~\E F : IsListing(F, f, key, m)}
  <1>0. Len(f.patterns) \in Nat /\ DOMAIN f.patterns = 1..Len(f.patterns)
    BY DEF IsList
  <1> SUFFICES ASSUME T # {} PROVE FALSE
    OBVIOUS
  <1>1. PICK m \in T : \A y \in T : m <= y
    <2>1. T \subseteq Nat
      OBVIOUS
    <2> HIDE DEF T
    <2> QED BY <2>1, LeastNumber
  <1>2. m \in Nat /\ m <= Len(f.patterns) /\ ~\E F : IsListing(F, f, key, m)
    OBVIOUS
  <1>3. m # 0
    <2> SUFFICES ASSUME m = 0 PROVE FALSE
      OBVIOUS
    <2> DEFINE F == [i \in 1..0 |-> <<>>]
    <2> HIDE DEF T
    <2>1. IsListing(F, f, key, 0)
      <3>1. \A i \in 1..0 : FALSE
        OBVIOUS
      <3> QED BY <3>1, Zenon DEF IsListing
    <2> QED BY <1>2, <2>1
  <1>4. m - 1 \in Nat /\ m - 1 <= Len(f.patterns) /\ m - 1 \notin T
    <2>1. m - 1 \in Nat /\ m - 1 <= Len(f.patterns) /\ ~(m <= m - 1)
      BY <1>0, <1>2, <1>3
    <2> HIDE DEF T
    <2> QED BY <1>1, <2>1
  <1>5. PICK F : IsListing(F, f, key, m - 1)
    BY <1>4
  <1> HIDE DEF T
  <1> DEFINE Of(H, i) == [k \in 1..(Len(PathsIn(f)[i]) - 1) |-> H[PathsIn(f)[i][k + 1]]]
             G == [i \in 1..m |-> FlattenSeq(Of(F, i)) \o f.patterns[i][key]]
  <1>6. \A i \in 1..(m - 1) : G[i] = F[i]
    <2>1. \A i \in 1..(m - 1) : i \in 1..m
      BY <1>2
    <2>2. \A i \in 1..(m - 1) : F[i] = FlattenSeq(Of(F, i)) \o f.patterns[i][key]
      BY <1>5 DEF IsListing
    <2> QED BY <2>1, <2>2
  <1> HIDE DEF G
  <1>7. ASSUME NEW i \in 1..m PROVE Of(G, i) = Of(F, i)
    <2>1. i \in DOMAIN f.patterns
      BY <1>0, <1>2
    <2>2. PICK w : w = PathsIn(f)[i]
      OBVIOUS
    <2>3. IsPathOf(f, i, w)
      BY <2>1, <2>2, PathParts
    <2>4. ASSUME NEW k \in 1..(Len(w) - 1) PROVE G[w[k + 1]] = F[w[k + 1]]
      <3>1. k + 1 \in 2..Len(w)
        BY <2>3 DEF IsPathOf
      <3>2. w[k + 1] \in 1..(i - 1)
        BY <2>3, <3>1 DEF IsPathOf
      <3>3. w[k + 1] \in 1..(m - 1)
        BY <1>2, <3>2
      <3> QED BY <1>6, <3>3
    <2> QED BY <2>2, <2>4
  <1> DEFINE H == [i \in 1..m |-> FlattenSeq(Of(G, i)) \o f.patterns[i][key]]
  <1>8. \A i \in 1..m : G[i] = H[i]
    <2> HIDE DEF Of
    <2> QED BY <1>7 DEF G
  <1>9. G = H
    <2>1. G = [i \in 1..m |-> G[i]] /\ H = [i \in 1..m |-> H[i]]
      BY DEF G
    <2> HIDE DEF H
    <2> QED BY <1>8, <2>1
  <1>10. IsListing(G, f, key, m)
    BY <1>9 DEF IsListing
  <1> QED BY <1>2, <1>10

\* The list of a pattern: those of its ancestors, and its own.
LEMMA ListIs ==
  ASSUME NEW f, IsList(f.patterns), NEW key, NEW i \in DOMAIN f.patterns
  PROVE  ListsIn(f, key)[i] =
           FlattenSeq([k \in 1..(Len(PathsIn(f)[i]) - 1) |-> ListsIn(f, key)[PathsIn(f)[i][k + 1]]])
           \o f.patterns[i][key]
  <1> DEFINE n == Len(f.patterns)
  <1>1. n \in Nat /\ DOMAIN f.patterns = 1..n
    BY DEF IsList
  <1> DEFINE F == CHOOSE F : IsListing(F, f, key, n)
  <1>2. IsListing(F, f, key, n)
    <2>1. n <= Len(f.patterns)
      BY <1>1
    <2> QED BY <1>1, <2>1, ListingsExist
  <1>3. ListsIn(f, key) = F
    BY <1>1 DEF ListsIn, IsListing
  <1> HIDE DEF F, n
  <1> QED BY <1>1, <1>2, <1>3 DEF IsListing

Lists(f, key) == \A j \in DOMAIN f.patterns : IsList(f.patterns[j][key])
Listed(f, key) == UNION {Range(f.patterns[j][key]) : j \in DOMAIN f.patterns}
OnPath(f, key, i) == UNION {Range(f.patterns[j][key]) : j \in Range(PathsIn(f)[i])}

LEMMA ListParts ==
  ASSUME NEW f, IsList(f.patterns), NEW key, Lists(f, key)
  PROVE  \A i \in DOMAIN f.patterns :
           /\ ListsIn(f, key)[i] \in Seq(Listed(f, key))
           /\ Range(ListsIn(f, key)[i]) = OnPath(f, key, i)
  <1> DEFINE L == ListsIn(f, key)
             S == Listed(f, key)
             T == {i \in DOMAIN f.patterns : ~(L[i] \in Seq(S) /\ Range(L[i]) = OnPath(f, key, i))}
  <1>0. DOMAIN f.patterns = 1..Len(f.patterns) /\ Len(f.patterns) \in Nat
    BY DEF IsList
  <1> SUFFICES ASSUME T # {} PROVE FALSE
    OBVIOUS
  <1>1. PICK i \in T : \A y \in T : i <= y
    <2>1. T \subseteq Nat
      BY <1>0
    <2> HIDE DEF T
    <2> QED BY <2>1, LeastNumber
  <1>2. i \in DOMAIN f.patterns /\ i \in 1..Len(f.patterns) /\ i \in Nat
    BY <1>0
  <1>3. PICK w : w = PathsIn(f)[i]
    OBVIOUS
  <1>4. IsPathOf(f, i, w)
    BY <1>2, <1>3, PathParts
  <1>5. Len(w) \in Nat \ {0} /\ DOMAIN w = 1..Len(w) /\ w \in Seq(1..i) /\ w[1] = i
    BY <1>4 DEF IsPathOf
  <1> HIDE DEF L, S
  <1>6. ASSUME NEW j \in DOMAIN f.patterns, j < i
        PROVE  L[j] \in Seq(S) /\ Range(L[j]) = OnPath(f, key, j)
    <2>1. j \notin T
      <3>1. ~(i <= j)
        BY <1>0, <1>2, <1>6
      <3> HIDE DEF T
      <3> QED BY <1>1, <3>1
    <2> QED BY <1>6, <2>1
  <1>7. \A k \in 1..(Len(w) - 1) : k + 1 \in 2..Len(w) /\ k + 1 \in DOMAIN w
                                    /\ w[k + 1] \in DOMAIN f.patterns /\ w[k + 1] < i
    <2> TAKE k \in 1..(Len(w) - 1)
    <2>1. k + 1 \in 2..Len(w) /\ k + 1 \in DOMAIN w
      BY <1>5
    <2>2. w[k + 1] \in 1..(i - 1)
      BY <1>4, <2>1 DEF IsPathOf
    <2> QED BY <1>0, <1>2, <2>1, <2>2
  <1> DEFINE ss == [k \in 1..(Len(w) - 1) |-> L[w[k + 1]]]
             own == f.patterns[i][key]
  <1>8. ss \in Seq(Seq(S)) /\ Len(ss) = Len(w) - 1
    <2>1. \A k \in 1..(Len(w) - 1) : L[w[k + 1]] \in Seq(S)
      BY <1>6, <1>7
    <2>2. Len(w) - 1 \in Nat
      BY <1>5
    <2> QED BY <2>1, <2>2
  <1>9. own \in Seq(S) /\ Range(own) \subseteq S
    <2>1. IsList(own)
      BY <1>2 DEF Lists
    <2>2. Range(own) \subseteq S
      BY <1>2 DEF S, Listed
    <2> HIDE DEF own
    <2>3. own \in Seq(S)
      BY <2>1, <2>2, SeqWidens DEF IsList
    <2> QED BY <2>2, <2>3
  <1>10. L[i] = FlattenSeq(ss) \o own
    BY <1>2, <1>3, ListIs DEF L
  <1> HIDE DEF ss, own
  <1>11. PICK s \in Seq(S) : s = FlattenSeq(ss) /\ Range(s) = UNION {Range(ss[k]) : k \in 1..Len(ss)}
    BY <1>8, FlattenType, FlattenRange
  <1>12. PICK t \in Seq(S) : t = own
    BY <1>9
  <1>13. L[i] \in Seq(S) /\ Range(L[i]) = Range(s) \cup Range(t)
    <2>1. s \o t \in Seq(S) /\ Range(s \o t) = Range(s) \cup Range(t)
      BY CatParts
    <2> HIDE DEF T
    <2> QED BY <1>10, <1>11, <1>12, <2>1
  <1>14. \A k \in 1..(Len(w) - 1) : /\ Range(ss[k]) = OnPath(f, key, w[k + 1])
                                    /\ Range(PathsIn(f)[w[k + 1]]) \subseteq Range(w)
    <2> TAKE k \in 1..(Len(w) - 1)
    <2>1. k + 1 \in 1..Len(w)
      BY <1>5
    <2>2. Range(PathsIn(f)[w[k + 1]]) \subseteq Range(w)
      BY <1>4, <2>1 DEF IsPathOf
    <2>3. ss[k] = L[w[k + 1]]
      BY DEF ss
    <2> QED BY <1>6, <1>7, <2>2, <2>3
  <1>15. \A y \in Range(L[i]) : y \in OnPath(f, key, i)
    <2> TAKE y \in Range(L[i])
    <2>1. CASE y \in Range(s)
      <3>1. PICK k \in 1..(Len(w) - 1) : y \in Range(ss[k])
        BY <1>8, <1>11, <2>1
      <3>2. y \in OnPath(f, key, w[k + 1])
        BY <1>14, <3>1
      <3>3. PICK j \in Range(PathsIn(f)[w[k + 1]]) : y \in Range(f.patterns[j][key])
        BY <3>2 DEF OnPath
      <3>4. j \in Range(w)
        BY <1>14, <3>3
      <3> QED BY <1>3, <3>3, <3>4 DEF OnPath
    <2>2. CASE y \in Range(t)
      <3>1. i \in Range(w)
        <4>1. 1 \in DOMAIN w
          BY <1>5
        <4> QED BY <1>5, <4>1 DEF Range
      <3> QED BY <1>3, <1>12, <2>2, <3>1 DEF OnPath, own
    <2> QED BY <1>13, <2>1, <2>2
  <1>16. \A y \in OnPath(f, key, i) : y \in Range(L[i])
    <2> TAKE y \in OnPath(f, key, i)
    <2>1. PICK j \in Range(w) : y \in Range(f.patterns[j][key])
      BY <1>3 DEF OnPath
    <2>2. PICK k \in DOMAIN w : j = w[k]
      BY DEF Range
    <2>3. CASE k = 1
      BY <1>5, <1>12, <1>13, <2>1, <2>2, <2>3 DEF own
    <2>4. CASE k # 1
      <3>1. PICK l \in 1..(Len(w) - 1) : l = k - 1 /\ k = l + 1
        <4>1. k - 1 \in 1..(Len(w) - 1) /\ k = (k - 1) + 1
          BY <1>5, <2>4
        <4> QED BY <4>1
      <3>2. j \in DOMAIN f.patterns
        BY <1>7, <2>2, <3>1
      <3>3. j \in Range(PathsIn(f)[j])
        <4>1. PICK v : v = PathsIn(f)[j]
          OBVIOUS
        <4>2. IsPathOf(f, j, v)
          BY <3>2, <4>1, PathParts
        <4>3. 1 \in DOMAIN v /\ v[1] = j
          BY <4>2 DEF IsPathOf
        <4> QED BY <4>1, <4>3 DEF Range
      <3>4. y \in OnPath(f, key, j)
        BY <2>1, <3>3 DEF OnPath
      <3>5. y \in Range(ss[l])
        BY <1>14, <2>2, <3>1, <3>4
      <3>6. y \in Range(s)
        BY <1>8, <1>11, <3>5
      <3> QED BY <1>13, <3>6
    <2> QED BY <2>3, <2>4
  <1>17. Range(L[i]) = OnPath(f, key, i)
    BY <1>15, <1>16
  <1> QED BY <1>1, <1>13, <1>17 DEF T, L, S

---------------------------------------------------------------------------
(* Looking things up                                                          *)

LEMMA FirstIs ==
  ASSUME NEW list, DOMAIN list \subseteq Nat, NEW id, Has(list, id)
  PROVE  /\ First(list, id) \in Range(list) /\ First(list, id).id = id
         /\ \E i \in DOMAIN list : First(list, id) = list[i] /\ list[i].id = id
  <1> DEFINE P == Places(list, id)
  <1>1. P \subseteq Nat /\ P # {}
    BY DEF Places, Has
  <1>2. \E i \in P : \A j \in P : i <= j
    <2> HIDE DEF P
    <2> QED BY <1>1, LeastNumber
  <1>3. PICK i \in P : First(list, id) = list[i]
    BY <1>2 DEF First
  <1> QED BY <1>3 DEF Places, Range

\* When no two have the same id, the first with the id of one is that one.
OneEach(list) == \A i, j \in DOMAIN list : list[i].id = list[j].id => i = j

LEMMA FirstOfOne ==
  ASSUME NEW list, DOMAIN list \subseteq Nat, OneEach(list), NEW d \in Range(list)
  PROVE  Has(list, d.id) /\ First(list, d.id) = d
  <1>1. PICK i \in DOMAIN list : d = list[i]
    BY DEF Range
  <1>2. Has(list, d.id)
    BY <1>1 DEF Has, Places
  <1>3. PICK j \in DOMAIN list : First(list, d.id) = list[j] /\ list[j].id = d.id
    BY <1>2, FirstIs
  <1>4. i = j
    BY <1>1, <1>3 DEF OneEach
  <1> QED BY <1>1, <1>2, <1>3, <1>4

---------------------------------------------------------------------------
(* Reading a file                                                             *)

IsFile(f) ==
  /\ IsList(f.tokens) /\ IsList(f.anchors) /\ IsList(f.patterns)
  /\ \A p \in Range(f.patterns) :
       /\ Keys \subseteq DOMAIN p
       /\ p.id \in Range(IdOrder) \cup {Absent}
       /\ IsList(p.tokens) /\ IsList(p.asserts)
       /\ IsList(p.properties) /\ IsList(p.examples)
       /\ \A pr \in Range(p.properties) : pr.reads = Absent => IsDynamic(pr)

\* d is what was read of pattern i.
Stands(f, d, i) ==
  /\ Keys \subseteq DOMAIN d /\ IsList(d.examples)
  /\ \A key \in {"id", "type", "extends", "match", "precedence", "asserts"} : d[key] = f.patterns[i][key]
  /\ \A key \in {"tokens", "properties"} : d[key] = ListsIn(f, key)[i]
  /\ d.anchor = RootIn(f, i).anchor

\* The first n patterns of a file have been read: all of them could be, and one is
\* kept for every id.
IsRead(f, n) ==
  /\ \A i \in 1..n : IsReadable(f, i)
  /\ IsList(described) /\ OneEach(described)
  /\ \A d \in Range(described) : \E i \in 1..n : IsFirst(f, i) /\ Stands(f, d, i)
  /\ \A i \in 1..n : IsFirst(f, i) => \E d \in Range(described) : Stands(f, d, i)

LEMMA FirstOfId ==
  ASSUME NEW f, NEW n \in Nat, NEW i \in 1..n
  PROVE  \E j \in 1..i : IsFirst(f, j) /\ f.patterns[j].id = f.patterns[i].id
  <1> DEFINE T == {j \in 1..i : f.patterns[j].id = f.patterns[i].id}
  <1>1. T \subseteq Nat /\ T # {}
    OBVIOUS
  <1>2. PICK j \in T : \A k \in T : j <= k
    <2> HIDE DEF T
    <2> QED BY <1>1, LeastNumber
  <1>3. \A k \in 1..(j - 1) : k \notin T /\ k \in 1..i
    <2> TAKE k \in 1..(j - 1)
    <2>1. ~(j <= k) /\ k \in 1..i
      OBVIOUS
    <2> HIDE DEF T
    <2> QED BY <1>2, <2>1
  <1>4. IsFirst(f, j)
    BY <1>3 DEF IsFirst
  <1> QED BY <1>4

LEMMA ReadHas ==
  ASSUME NEW f, NEW n \in Nat, IsRead(f, n), NEW q
  PROVE  Has(described, q) <=> \E i \in 1..n : f.patterns[i].id = q
  <1>1. DOMAIN described \subseteq Nat
    BY DEF IsRead, IsList
  <1>2. ASSUME Has(described, q) PROVE \E i \in 1..n : f.patterns[i].id = q
    <2>1. PICK d \in Range(described) : d.id = q
      BY <1>1, <1>2, FirstIs
    <2>2. PICK i \in 1..n : Stands(f, d, i)
      BY DEF IsRead
    <2>3. d.id = f.patterns[i].id
      BY <2>2 DEF Stands
    <2> QED BY <2>1, <2>3
  <1>3. ASSUME NEW i \in 1..n, f.patterns[i].id = q PROVE Has(described, q)
    <2>1. PICK j \in 1..i : IsFirst(f, j) /\ f.patterns[j].id = q
      BY <1>3, FirstOfId
    <2>2. PICK d \in Range(described) : Stands(f, d, j)
      BY <2>1 DEF IsRead
    <2>3. d.id = q
      BY <2>1, <2>2 DEF Stands
    <2> QED BY <1>1, <2>3, FirstOfOne DEF IsRead
  <1> QED BY <1>2, <1>3

LEMMA ReadFirst ==
  ASSUME NEW f, NEW n \in Nat, IsRead(f, n), NEW i \in 1..n, IsFirst(f, i)
  PROVE  /\ First(described, f.patterns[i].id) \in Range(described)
         /\ Stands(f, First(described, f.patterns[i].id), i)
  <1>1. DOMAIN described \subseteq Nat
    BY DEF IsRead, IsList
  <1>2. PICK d \in Range(described) : Stands(f, d, i)
    BY DEF IsRead
  <1>3. d.id = f.patterns[i].id
    BY <1>2 DEF Stands
  <1>4. First(described, d.id) = d
    BY <1>1, FirstOfOne DEF IsRead
  <1> QED BY <1>2, <1>3, <1>4

\* What was read of the patterns on a path.
Entries(f, i) ==
  [k \in 1..Len(PathsIn(f)[i]) |-> First(described, f.patterns[PathsIn(f)[i][k]].id)]
IsClimb(F) ==
  F = [q \in {d.id : d \in Range(described)} |->
         LET d == First(described, q)
         IN <<d>> \o (IF d.type = "root" THEN <<>> ELSE F[d.extends])]

LEMMA EntriesIs ==
  ASSUME NEW f, IsList(f.patterns), NEW i \in DOMAIN f.patterns
  PROVE  Entries(f, i) = <<First(described, f.patterns[i].id)>>
                         \o IF Climbs(f, i) THEN Entries(f, Up(f, i)) ELSE <<>>
  <1> DEFINE E(k) == First(described, f.patterns[k].id)
             S == {E(k) : k \in DOMAIN f.patterns}
  <1>0. DOMAIN f.patterns = 1..Len(f.patterns) /\ Len(f.patterns) \in Nat
    BY DEF IsList
  <1>1. PICK w : w = PathsIn(f)[i]
    OBVIOUS
  <1>2. IsPathOf(f, i, w)
    BY <1>1, PathParts
  <1>3. w = <<i>> \o IF Climbs(f, i) THEN PathsIn(f)[Up(f, i)] ELSE <<>>
    BY <1>1, PathIs
  <1> HIDE DEF E
  <1>4. Entries(f, i) = [k \in 1..Len(w) |-> E(w[k])]
    BY <1>1 DEF Entries, E
  <1>5. CASE ~Climbs(f, i)
    <2>1. w = <<i>>
      BY <1>3, <1>5
    <2>2. [k \in 1..Len(w) |-> E(w[k])] = <<E(i)>>
      BY <2>1
    <2> QED BY <1>4, <1>5, <2>2 DEF E
  <1>6. CASE Climbs(f, i)
    <2>1. PICK u : u = Up(f, i)
      OBVIOUS
    <2>2. u \in DOMAIN f.patterns
      BY <1>0, <1>6, <2>1, UpIsAbove
    <2>3. PICK v : v = PathsIn(f)[u]
      OBVIOUS
    <2>4. v \in Seq(1..u) /\ Len(v) \in Nat
      BY <2>2, <2>3, PathParts DEF IsPathOf
    <2>5. v \in Seq(DOMAIN f.patterns)
      <3>1. 1..u \subseteq DOMAIN f.patterns
        BY <1>0, <2>2
      <3> QED BY <2>4, <3>1, SeqWidens
    <2>6. w = <<i>> \o v
      BY <1>3, <1>6, <2>1, <2>3
    <2>7. Len(w) = Len(v) + 1 /\ w[1] = i /\ \A k \in 1..Len(v) : w[k + 1] = v[k]
      BY <2>5, <2>6, ConsParts
    <2>8. Entries(f, u) = [k \in 1..Len(v) |-> E(v[k])]
      BY <2>3 DEF Entries, E
    <2>9. PICK t \in Seq(S) : t = Entries(f, u) /\ Len(t) = Len(v) /\ \A k \in 1..Len(v) : t[k] = E(v[k])
      <3>1. \A k \in 1..Len(v) : v[k] \in DOMAIN f.patterns
        BY <2>5
      <3>2. \A k \in 1..Len(v) : E(v[k]) \in S
        BY <3>1
      <3> HIDE DEF S
      <3>3. [k \in 1..Len(v) |-> E(v[k])] \in Seq(S)
        BY <2>4, <3>2
      <3> QED BY <2>4, <2>8, <3>3
    <2>10. PICK e \in S : e = E(i)
      OBVIOUS
    <2>11. <<e>> \o t \in Seq(S) /\ Len(<<e>> \o t) = Len(t) + 1 /\ (<<e>> \o t)[1] = e
           /\ \A k \in 1..Len(t) : (<<e>> \o t)[k + 1] = t[k]
      BY ConsParts
    <2> HIDE DEF S
    <2>12. PICK s \in Seq(S) : s = <<e>> \o t
      BY <2>11
    <2>13. PICK r : r = [k \in 1..Len(w) |-> E(w[k])]
      OBVIOUS
    <2>14. \A k \in 1..Len(w) : s[k] = r[k]
      <3> TAKE k \in 1..Len(w)
      <3>1. CASE k = 1
        BY <2>7, <2>10, <2>11, <2>12, <2>13, <3>1
      <3>2. CASE k # 1
        <4>1. PICK j \in 1..Len(v) : k = j + 1
          <5>1. k - 1 \in 1..Len(v) /\ k = (k - 1) + 1
            BY <2>4, <2>7, <3>2
          <5> QED BY <5>1
        <4>2. s[k] = t[j]
          BY <2>9, <2>11, <2>12, <4>1
        <4>3. r[k] = E(v[j])
          BY <2>7, <2>13, <4>1
        <4> QED BY <2>9, <4>2, <4>3
      <3> QED BY <3>1, <3>2
    <2>15. s = r
      <3>1. Len(s) = Len(w)
        BY <2>7, <2>9, <2>11, <2>12
      <3>2. DOMAIN s = 1..Len(w) /\ s = [k \in 1..Len(w) |-> s[k]]
        BY <3>1
      <3>3. DOMAIN r = 1..Len(w) /\ r = [k \in 1..Len(w) |-> r[k]]
        BY <2>13
      <3> QED BY <2>14, <3>2, <3>3
    <2>16. <<E(i)>> \o Entries(f, u) = r
      BY <2>9, <2>10, <2>12, <2>15
    <2> QED BY <1>4, <1>6, <2>1, <2>13, <2>16 DEF E
  <1> QED BY <1>5, <1>6

LEMMA FirstsDiffer ==
  ASSUME NEW f, NEW i \in Nat, NEW j \in Nat, i >= 1, j >= 1, IsFirst(f, i), IsFirst(f, j),
         f.patterns[i].id = f.patterns[j].id
  PROVE  i = j
  <1>1. CASE i < j
    <2>1. i \in 1..(j - 1)
      BY <1>1
    <2> QED BY <2>1 DEF IsFirst
  <1>2. CASE j < i
    <2>1. j \in 1..(i - 1)
      BY <1>2
    <2> QED BY <2>1 DEF IsFirst
  <1> QED BY <1>1, <1>2

\* The climb from a pattern that was read goes along its path.
IsEntry(f, i, d) ==
  /\ f.patterns[i].id \in {e.id : e \in Range(described)}
  /\ Entries(f, i) = <<d>> \o IF d.type = "root" THEN <<>> ELSE Entries(f, Up(f, i))
  /\ d.type # "root" => /\ Up(f, i) \in 1..(i - 1) /\ IsFirst(f, Up(f, i))
                        /\ f.patterns[Up(f, i)].id = d.extends

LEMMA EntryClimbs ==
  ASSUME NEW f, IsList(f.patterns), NEW n \in Nat, n <= Len(f.patterns), IsRead(f, n),
         NEW i \in 1..n, IsFirst(f, i)
  PROVE  IsEntry(f, i, First(described, f.patterns[i].id))
  <1> DEFINE d == First(described, f.patterns[i].id)
  <1>0. i \in Nat /\ i \in DOMAIN f.patterns
    BY DEF IsList
  <1>1. d \in Range(described) /\ Stands(f, d, i)
    BY ReadFirst
  <1> HIDE DEF d
  <1>2. d.id = f.patterns[i].id /\ d.type = f.patterns[i].type /\ d.extends = f.patterns[i].extends
    BY <1>1 DEF Stands
  <1>3. IsReadable(f, i)
    BY DEF IsRead
  <1>4. Climbs(f, i) <=> d.type # "root"
    BY <1>2, <1>3 DEF IsReadable, Climbs
  <1>5. Entries(f, i) = <<d>> \o IF Climbs(f, i) THEN Entries(f, Up(f, i)) ELSE <<>>
    BY <1>0, EntriesIs DEF d
  <1>6. ASSUME Climbs(f, i) PROVE /\ Up(f, i) \in 1..(i - 1) /\ IsFirst(f, Up(f, i))
                                  /\ f.patterns[Up(f, i)].id = d.extends
    BY <1>0, <1>2, <1>6, UpIsAbove
  <1>7. f.patterns[i].id \in {e.id : e \in Range(described)}
    BY <1>1, <1>2
  <1>8. IsEntry(f, i, d)
    BY <1>4, <1>5, <1>6, <1>7 DEF IsEntry
  <1> QED BY <1>8 DEF d

LEMMA ClimbExists ==
  ASSUME NEW f, IsList(f.patterns), NEW n \in Nat, n <= Len(f.patterns), IsRead(f, n)
  PROVE  \E F : IsClimb(F)
  <1> DEFINE Ids == {d.id : d \in Range(described)}
             Ix(q) == CHOOSE i \in 1..n : IsFirst(f, i) /\ f.patterns[i].id = q
             G == [q \in Ids |-> Entries(f, Ix(q))]
             V(q) == <<First(described, q)>> \o
                     (IF First(described, q).type = "root" THEN <<>>
                      ELSE G[First(described, q).extends])
             H == [q \in Ids |-> V(q)]
  <1>1. ASSUME NEW i \in 1..n, IsFirst(f, i)
        PROVE  f.patterns[i].id \in Ids /\ Ix(f.patterns[i].id) = i
    <2>1. f.patterns[i].id \in Ids
      BY <1>1, EntryClimbs DEF IsEntry
    <2>2. PICK q : q = f.patterns[i].id
      OBVIOUS
    <2>3. Ix(q) \in 1..n /\ IsFirst(f, Ix(q)) /\ f.patterns[Ix(q)].id = q
      BY <1>1, <2>2
    <2>4. PICK j \in 1..n : j = Ix(q)
      BY <2>3
    <2> HIDE DEF Ix, Ids
    <2>5. j = i
      BY <1>1, <2>2, <2>3, <2>4, FirstsDiffer
    <2> QED BY <2>1, <2>2, <2>4, <2>5
  <1>2. ASSUME NEW q \in Ids PROVE \E i \in 1..n : IsFirst(f, i) /\ f.patterns[i].id = q
    <2>1. PICK d \in Range(described) : d.id = q
      OBVIOUS
    <2>2. PICK i \in 1..n : IsFirst(f, i) /\ Stands(f, d, i)
      BY DEF IsRead
    <2> QED BY <2>1, <2>2 DEF Stands
  <1> HIDE DEF Ix, Ids
  <1>3. ASSUME NEW q \in Ids PROVE G[q] = H[q]
    <2>1. PICK i \in 1..n : IsFirst(f, i) /\ f.patterns[i].id = q
      BY <1>2
    <2>2. Ix(q) = i
      BY <1>1, <2>1
    <2>3. G[q] = Entries(f, i)
      BY <2>2
    <2>4. PICK d : d = First(described, q)
      OBVIOUS
    <2> HIDE DEF G
    <2>5. /\ Entries(f, i) = <<d>> \o IF d.type = "root" THEN <<>> ELSE Entries(f, Up(f, i))
          /\ d.type # "root" => /\ Up(f, i) \in 1..(i - 1) /\ IsFirst(f, Up(f, i))
                                /\ f.patterns[Up(f, i)].id = d.extends
      BY <2>1, <2>4, EntryClimbs DEF IsEntry
    <2>6. H[q] = <<d>> \o (IF d.type = "root" THEN <<>> ELSE G[d.extends])
      BY <2>4
    <2>7. ASSUME d.type # "root" PROVE G[d.extends] = Entries(f, Up(f, i))
      <3>1. PICK u \in 1..n : u = Up(f, i) /\ IsFirst(f, u) /\ f.patterns[u].id = d.extends
        BY <2>5, <2>7
      <3>2. d.extends \in Ids /\ Ix(d.extends) = u
        BY <1>1, <3>1
      <3> QED BY <3>1, <3>2 DEF G
    <2> HIDE DEF H
    <2> QED BY <2>3, <2>5, <2>6, <2>7
  <1>4. G = H
    <2>1. DOMAIN G = Ids /\ DOMAIN H = Ids /\ G = [q \in Ids |-> G[q]] /\ H = [q \in Ids |-> H[q]]
      OBVIOUS
    <2> HIDE DEF G, H
    <2> QED BY <1>3, <2>1
  <1>5. IsClimb(G)
    <2> HIDE DEF G
    <2> QED BY <1>4 DEF IsClimb, Ids
  <1> QED BY <1>5

LEMMA ClimbIs ==
  ASSUME NEW f, IsList(f.patterns), NEW n \in Nat, n <= Len(f.patterns), IsRead(f, n),
         NEW F, IsClimb(F)
  PROVE  \A i \in 1..n : IsFirst(f, i) => F[f.patterns[i].id] = Entries(f, i)
  <1> DEFINE T == {i \in 1..n : IsFirst(f, i) /\ F[f.patterns[i].id] # Entries(f, i)}
  <1> SUFFICES ASSUME T # {} PROVE FALSE
    OBVIOUS
  <1>1. PICK i \in T : \A y \in T : i <= y
    <2>1. T \subseteq Nat
      OBVIOUS
    <2> HIDE DEF T
    <2> QED BY <2>1, LeastNumber
  <1>2. i \in 1..n /\ IsFirst(f, i) /\ F[f.patterns[i].id] # Entries(f, i)
    OBVIOUS
  <1> HIDE DEF T
  <1>3. PICK q : q = f.patterns[i].id
    OBVIOUS
  <1>4. PICK d : d = First(described, q)
    OBVIOUS
  <1>5. /\ q \in {e.id : e \in Range(described)}
        /\ Entries(f, i) = <<d>> \o IF d.type = "root" THEN <<>> ELSE Entries(f, Up(f, i))
        /\ d.type # "root" => /\ Up(f, i) \in 1..(i - 1) /\ IsFirst(f, Up(f, i))
                              /\ f.patterns[Up(f, i)].id = d.extends
    BY <1>2, <1>3, <1>4, EntryClimbs DEF IsEntry
  <1>6. F[q] = <<d>> \o (IF d.type = "root" THEN <<>> ELSE F[d.extends])
    BY <1>4, <1>5 DEF IsClimb
  <1>7. ASSUME d.type # "root" PROVE F[d.extends] = Entries(f, Up(f, i))
    <2>1. PICK u \in 1..n : u = Up(f, i) /\ IsFirst(f, u) /\ f.patterns[u].id = d.extends /\ u < i
      BY <1>2, <1>5, <1>7
    <2>2. u \notin T
      <3>1. ~(i <= u)
        BY <1>2, <2>1
      <3> QED BY <1>1, <3>1
    <2> QED BY <2>1, <2>2 DEF T
  <1> QED BY <1>2, <1>3, <1>5, <1>6, <1>7

\* The ancestors of the next pattern.
LEMMA AncestorsAre ==
  ASSUME NEW f, IsList(f.patterns), NEW n \in Nat, n < Len(f.patterns), IsRead(f, n),
         f.patterns[n + 1].type # "root", Has(described, f.patterns[n + 1].extends)
  PROVE  /\ Climbs(f, n + 1) /\ Up(f, n + 1) \in 1..n /\ IsFirst(f, Up(f, n + 1))
         /\ Ancestors(f.patterns[n + 1]) = Entries(f, Up(f, n + 1))
  <1>0. PICK p : p = f.patterns[n + 1]
    OBVIOUS
  <1>1. PICK i \in 1..n : f.patterns[i].id = p.extends
    BY <1>0, ReadHas
  <1>2. PICK j \in 1..i : IsFirst(f, j) /\ f.patterns[j].id = p.extends
    BY <1>1, FirstOfId
  <1>3. j \in ParentsIn(f, n + 1)
    BY <1>0, <1>2 DEF ParentsIn
  <1>4. Climbs(f, n + 1)
    BY <1>0, <1>3 DEF Climbs
  <1>5. PICK u : u = Up(f, n + 1)
    OBVIOUS
  <1>6. u \in 1..n /\ IsFirst(f, u) /\ f.patterns[u].id = p.extends
    <2>1. n + 1 \in Nat /\ (n + 1) - 1 = n
      OBVIOUS
    <2> QED BY <1>0, <1>4, <1>5, <2>1, UpIsAbove
  <1> DEFINE F == CHOOSE F : IsClimb(F)
  <1>7. n <= Len(f.patterns)
    BY DEF IsList
  <1>8. IsClimb(F)
    BY <1>7, ClimbExists
  <1>9. Ancestors(p) = F[p.extends]
    BY <1>0 DEF Ancestors, IsClimb
  <1> HIDE DEF F
  <1>10. F[p.extends] = Entries(f, u)
    BY <1>6, <1>7, <1>8, ClimbIs
  <1> QED BY <1>0, <1>4, <1>5, <1>6, <1>9, <1>10

\* What the next pattern inherits is what it has by its path.
LEMMA InheritedIs ==
  ASSUME NEW f, IsFile(f), NEW n \in Nat, n < Len(f.patterns), IsRead(f, n),
         f.patterns[n + 1].type = "root" \/ Has(described, f.patterns[n + 1].extends)
  PROVE  /\ \A key \in {"tokens", "properties"} :
              Inherited(key, f.patterns[n + 1]) = ListsIn(f, key)[n + 1]
         /\ RootAnchor(f.patterns[n + 1]) = RootIn(f, n + 1).anchor
  <1>0. IsList(f.patterns) /\ n + 1 \in DOMAIN f.patterns
    BY DEF IsFile, IsList
  <1>1. PICK p : p = f.patterns[n + 1]
    OBVIOUS
  <1>2. PICK w : w = PathsIn(f)[n + 1]
    OBVIOUS
  <1>3. w = <<n + 1>> \o IF Climbs(f, n + 1) THEN PathsIn(f)[Up(f, n + 1)] ELSE <<>>
    BY <1>0, <1>2, PathIs
  <1>4. CASE p.type = "root"
    <2>1. w = <<n + 1>>
      BY <1>1, <1>3, <1>4 DEF Climbs
    <2>2. Len(w) = 1 /\ Last(w) = n + 1
      BY <2>1 DEF Last
    <2>3. Ancestors(p) = <<>>
      BY <1>4 DEF Ancestors
    <2>4. RootAnchor(p) = RootIn(f, n + 1).anchor
      BY <1>1, <1>2, <1>4, <2>2 DEF RootAnchor, RootIn
    <2>5. ASSUME NEW key \in {"tokens", "properties"} PROVE Inherited(key, p) = ListsIn(f, key)[n + 1]
      <3>1. [k \in 1..(Len(w) - 1) |-> ListsIn(f, key)[w[k + 1]]] = <<>>
        BY <2>2
      <3>2. [k \in DOMAIN Ancestors(p) |-> Ancestors(p)[k][key]] = <<>>
        BY <2>3
      <3>3. ListsIn(f, key)[n + 1] = FlattenSeq(<<>>) \o p[key]
        <4>1. ListsIn(f, key)[n + 1] =
                FlattenSeq([k \in 1..(Len(w) - 1) |-> ListsIn(f, key)[w[k + 1]]]) \o p[key]
          BY <1>0, <1>1, <1>2, ListIs
        <4> QED BY <3>1, <4>1
      <3> QED BY <3>2, <3>3 DEF Inherited
    <2> QED BY <1>1, <2>4, <2>5
  <1>5. CASE p.type # "root"
    <2>0. f.patterns[n + 1].type # "root" /\ Has(described, f.patterns[n + 1].extends)
      BY <1>1, <1>5
    <2>1. PICK u \in 1..n : /\ u = Up(f, n + 1) /\ Climbs(f, n + 1) /\ IsFirst(f, u)
                            /\ Ancestors(p) = Entries(f, u)
      BY <1>0, <1>1, <2>0, AncestorsAre
    <2>2. u \in DOMAIN f.patterns
      BY <1>0 DEF IsList
    <2>3. PICK v : v = PathsIn(f)[u]
      OBVIOUS
    <2>4. IsPathOf(f, u, v)
      BY <1>0, <2>2, <2>3, PathParts
    <2>5. Len(v) \in Nat \ {0} /\ v \in Seq(1..u) /\ v[1] = u
      BY <2>4 DEF IsPathOf
    <2>6. v \in Seq(DOMAIN f.patterns)
      <3>1. 1..u \subseteq DOMAIN f.patterns
        BY <1>0, <2>2 DEF IsList
      <3> QED BY <2>5, <3>1, SeqWidens
    <2>7. w = <<n + 1>> \o v
      BY <1>3, <2>1, <2>3
    <2>8. Len(w) = Len(v) + 1 /\ \A k \in 1..Len(v) : w[k + 1] = v[k]
      BY <1>0, <2>6, <2>7, ConsParts
    <2>9. ASSUME NEW k \in 1..Len(v)
          PROVE  v[k] \in 1..n /\ IsFirst(f, v[k]) /\ Stands(f, First(described, f.patterns[v[k]].id), v[k])
      <3>1. IsFirst(f, v[k])
        <4>1. CASE k = 1
          BY <2>1, <2>5, <4>1
        <4>2. CASE k # 1
          <5>1. k \in 2..Len(v)
            BY <2>5, <4>2
          <5> QED BY <2>4, <5>1 DEF IsPathOf
        <4> QED BY <4>1, <4>2
      <3>2. v[k] \in 1..n
        <4>1. v[k] \in 1..u
          BY <2>5
        <4> QED BY <4>1
      <3> QED BY <3>1, <3>2, ReadFirst
    <2>10. PICK A : A = Ancestors(p)
      OBVIOUS
    <2>11. A = [k \in 1..Len(v) |-> First(described, f.patterns[v[k]].id)]
      BY <2>1, <2>3, <2>10 DEF Entries
    <2>12. DOMAIN A = 1..Len(v) /\ Len(A) = Len(v)
      BY <2>5, <2>11
    <2>13. ASSUME NEW key \in {"tokens", "properties"} PROVE Inherited(key, p) = ListsIn(f, key)[n + 1]
      <3>1. \A k \in 1..Len(v) : A[k][key] = ListsIn(f, key)[w[k + 1]]
        BY <2>8, <2>9, <2>11 DEF Stands
      <3>2. [k \in DOMAIN A |-> A[k][key]] = [k \in 1..Len(v) |-> ListsIn(f, key)[w[k + 1]]]
        BY <2>12, <3>1
      <3>3. Len(w) - 1 = Len(v)
        BY <2>5, <2>8
      <3>4. [k \in DOMAIN A |-> A[k][key]] = [k \in 1..(Len(w) - 1) |-> ListsIn(f, key)[w[k + 1]]]
        BY <3>2, <3>3
      <3>5. ListsIn(f, key)[n + 1] =
              FlattenSeq([k \in 1..(Len(w) - 1) |-> ListsIn(f, key)[w[k + 1]]]) \o p[key]
        BY <1>0, <1>1, <1>2, ListIs
      <3> QED BY <2>10, <3>4, <3>5 DEF Inherited
    <2>14. RootAnchor(p) = RootIn(f, n + 1).anchor
      <3>1. RootAnchor(p) = A[Len(v)].anchor
        BY <1>5, <2>10, <2>12 DEF RootAnchor, Last
      <3>2. PICK r : r = v[Len(v)]
        OBVIOUS
      <3>3. Len(v) \in 1..Len(v)
        BY <2>5
      <3>4. A[Len(v)].anchor = RootIn(f, r).anchor
        BY <2>9, <2>11, <3>2, <3>3 DEF Stands
      <3>5. Last(PathsIn(f)[r]) = r
        BY <2>4, <3>2, <3>3 DEF IsPathOf
      <3>6. Last(w) = r
        <4>1. Len(w) = Len(v) + 1 /\ w[Len(v) + 1] = v[Len(v)]
          BY <2>8, <3>3
        <4> QED BY <3>2, <4>1 DEF Last
      <3> QED BY <1>2, <3>1, <3>4, <3>5, <3>6 DEF RootIn
    <2> QED BY <1>1, <2>13, <2>14
  <1> QED BY <1>4, <1>5

\* The next pattern is read without an error exactly if it is readable.
CanBeRead(p) ==
  /\ ~LacksAKey(p) /\ p.type \in {"root", "extends"} /\ ~Orphaned(p)
  /\ \A i \in DOMAIN p.properties : ~Lacks(p.properties[i])
  /\ ~BadExample(p)

LEMMA ReadableMeans ==
  ASSUME NEW f, IsFile(f), NEW n \in Nat, n < Len(f.patterns), IsRead(f, n)
  PROVE  IsReadable(f, n + 1) <=> CanBeRead(f.patterns[n + 1])
  <1>0. IsList(f.patterns) /\ n + 1 \in DOMAIN f.patterns
    BY DEF IsFile, IsList
  <1>1. PICK p : p = f.patterns[n + 1]
    OBVIOUS
  <1>2. p \in Range(f.patterns)
    BY <1>0, <1>1 DEF Range
  <1>3. ParentsIn(f, n + 1) # {} <=> Has(described, p.extends)
    <2>1. (n + 1) - 1 = n
      OBVIOUS
    <2>2. ASSUME NEW j \in ParentsIn(f, n + 1) PROVE Has(described, p.extends)
      <3>1. j \in 1..n /\ f.patterns[j].id = p.extends
        BY <1>1, <2>1 DEF ParentsIn
      <3> QED BY <3>1, ReadHas
    <2>3. ASSUME Has(described, p.extends) PROVE ParentsIn(f, n + 1) # {}
      <3>1. PICK i \in 1..n : f.patterns[i].id = p.extends
        BY <2>3, ReadHas
      <3>2. PICK j \in 1..i : IsFirst(f, j) /\ f.patterns[j].id = p.extends
        BY <3>1, FirstOfId
      <3>3. j \in 1..n
        OBVIOUS
      <3> QED BY <1>1, <2>1, <3>2, <3>3 DEF ParentsIn
    <2> QED BY <2>2, <2>3
  <1>4. (\A e \in Range(p.examples) : e.message # Absent) <=> ~BadExample(p)
    BY DEF BadExample, Range
  <1>5. (\A pr \in Range(p.properties) : pr.reads # Absent)
        <=> \A i \in DOMAIN p.properties : ~Lacks(p.properties[i])
    <2>1. \A pr \in Range(p.properties) : pr.reads = Absent => IsDynamic(pr)
      BY <1>2 DEF IsFile
    <2>2. \A pr \in Range(p.properties) : pr.reads # Absent <=> ~Lacks(pr)
      BY <2>1 DEF Lacks
    <2>3. \A i \in DOMAIN p.properties : p.properties[i] \in Range(p.properties)
      BY DEF Range
    <2>4. \A pr \in Range(p.properties) : \E i \in DOMAIN p.properties : pr = p.properties[i]
      BY DEF Range
    <2> QED BY <2>2, <2>3, <2>4
  <1>6. (/\ Absent \notin {p.id, p.type, p.match}
         /\ \/ p.type = "root" /\ p.anchor # Absent
            \/ p.type = "extends" /\ p.extends # Absent /\ ParentsIn(f, n + 1) # {})
        <=> ~LacksAKey(p) /\ p.type \in {"root", "extends"} /\ ~Orphaned(p)
    BY <1>3 DEF LacksAKey, Orphaned
  <1> QED BY <1>1, <1>4, <1>5, <1>6 DEF IsReadable, CanBeRead

LEMMA KeepsOne ==
  ASSUME NEW f, IsFile(f), NEW n \in Nat, n < Len(f.patterns), IsRead(f, n),
         CanBeRead(f.patterns[n + 1]), Has(described, f.patterns[n + 1].id),
         described' = Kept(f.patterns[n + 1])
  PROVE  IsRead(f, n + 1)'
  <1>0. IsList(f.patterns) /\ n + 1 \in DOMAIN f.patterns
    BY DEF IsFile, IsList
  <1>1. PICK p : p = f.patterns[n + 1]
    OBVIOUS
  <1>2. p \in Range(f.patterns)
    BY <1>0, <1>1 DEF Range
  <1> DEFINE New(d) == IF d.id = p.id THEN [d EXCEPT !.examples = @ \o p.examples] ELSE d
  <1>3. described' = [i \in DOMAIN described |-> New(described[i])]
    BY <1>1 DEF Kept
  <1>4. Len(described) \in Nat /\ DOMAIN described = 1..Len(described)
    BY DEF IsRead, IsList
  <1>5. ASSUME NEW d, NEW i, Stands(f, d, i) PROVE Stands(f, New(d), i) /\ New(d).id = d.id
    <2>1. CASE d.id = p.id
      <3>1. New(d) = [d EXCEPT !.examples = d.examples \o p.examples]
        BY <2>1
      <3>2. Keys \subseteq DOMAIN d /\ DOMAIN New(d) = DOMAIN d
        BY <1>5, <3>1 DEF Stands
      <3>3. \A key \in Keys \ {"examples"} : New(d)[key] = d[key]
        BY <3>1, <3>2
      <3>4. New(d).examples = d.examples \o p.examples
        BY <3>1, <3>2 DEF Keys
      <3> HIDE DEF New
      <3>5. IsList(New(d).examples)
        BY <1>2, <1>5, <3>4, ListsJoin DEF IsFile, Stands
      <3>6. /\ \A key \in {"id", "type", "extends", "match", "precedence", "asserts"} : New(d)[key] = d[key]
            /\ \A key \in {"tokens", "properties"} : New(d)[key] = d[key]
            /\ New(d).anchor = d.anchor /\ New(d).id = d.id
        BY <3>3 DEF Keys
      <3> QED BY <1>5, <3>2, <3>5, <3>6 DEF Stands
    <2>2. CASE d.id # p.id
      BY <1>5, <2>2
    <2> QED BY <2>1, <2>2
  <1>6. \A d \in Range(described) : \E i \in 1..n : IsFirst(f, i) /\ Stands(f, d, i)
    BY DEF IsRead
  <1> HIDE DEF New
  <1>7. \A i \in DOMAIN described : described'[i] = New(described[i]) /\ described'[i].id = described[i].id
    <2> TAKE i \in DOMAIN described
    <2>1. described[i] \in Range(described)
      BY DEF Range
    <2>2. described'[i] = New(described[i])
      BY <1>3
    <2> QED BY <1>5, <1>6, <2>1, <2>2
  <1>8. DOMAIN described' = DOMAIN described /\ IsList(described')
    <2>1. PICK s : s = described'
      OBVIOUS
    <2>2. s = [i \in 1..Len(described) |-> New(described[i])]
      BY <1>3, <1>4, <2>1
    <2>3. DOMAIN s = 1..Len(described) /\ \A i \in 1..Len(described) : s[i] \in Range(s)
      BY <2>2 DEF Range
    <2>4. s = [i \in 1..Len(described) |-> s[i]]
      BY <2>2
    <2>5. s \in Seq(Range(s))
      BY <1>4, <2>3, <2>4
    <2> QED BY <1>4, <2>1, <2>3, <2>5 DEF IsList
  <1>9. OneEach(described)'
    BY <1>7, <1>8 DEF OneEach, IsRead
  <1>10. \A i \in 1..(n + 1) : IsReadable(f, i)
    <2>1. IsReadable(f, n + 1)
      BY ReadableMeans
    <2>2. \A i \in 1..(n + 1) : i \in 1..n \/ i = n + 1
      OBVIOUS
    <2> QED BY <2>1, <2>2 DEF IsRead
  <1>11. ASSUME NEW d \in Range(described') PROVE \E i \in 1..(n + 1) : IsFirst(f, i) /\ Stands(f, d, i)
    <2>1. PICK k \in DOMAIN described : d = New(described[k]) /\ described[k] \in Range(described)
      BY <1>7, <1>8 DEF Range
    <2>2. PICK i \in 1..n : IsFirst(f, i) /\ Stands(f, described[k], i)
      BY <1>6, <2>1
    <2>3. i \in 1..(n + 1)
      OBVIOUS
    <2> QED BY <1>5, <2>1, <2>2, <2>3
  <1>12. ASSUME NEW i \in 1..(n + 1), IsFirst(f, i) PROVE \E d \in Range(described') : Stands(f, d, i)
    <2>1. i # n + 1
      <3> SUFFICES ASSUME i = n + 1 PROVE FALSE
        OBVIOUS
      <3>1. PICK j \in 1..n : f.patterns[j].id = p.id
        BY <1>1, ReadHas
      <3>2. j \in 1..(i - 1)
        OBVIOUS
      <3> QED BY <1>1, <1>12, <3>1, <3>2 DEF IsFirst
    <2>2. i \in 1..n
      BY <2>1
    <2>3. PICK d \in Range(described) : Stands(f, d, i)
      BY <1>12, <2>2 DEF IsRead
    <2>4. PICK k \in DOMAIN described : d = described[k]
      BY DEF Range
    <2>5. New(d) \in Range(described')
      BY <1>7, <1>8, <2>4 DEF Range
    <2> QED BY <1>5, <2>3, <2>5
  <1>13. IsList(described)' /\ OneEach(described)'
    BY <1>8, <1>9
  <1> QED BY <1>10, <1>11, <1>12, <1>13 DEF IsRead

LEMMA ReadsOne ==
  ASSUME NEW f, IsFile(f), NEW n \in Nat, n < Len(f.patterns), IsRead(f, n),
         CanBeRead(f.patterns[n + 1]), ~Has(described, f.patterns[n + 1].id),
         described' = Kept(f.patterns[n + 1])
  PROVE  IsRead(f, n + 1)'
  <1>0. IsList(f.patterns) /\ n + 1 \in DOMAIN f.patterns
    BY DEF IsFile, IsList
  <1>1. PICK p : p = f.patterns[n + 1]
    OBVIOUS
  <1>2. p \in Range(f.patterns)
    BY <1>0, <1>1 DEF Range
  <1>3. PICK new : new = Described(p)
    OBVIOUS
  <1>4. described' = Append(described, new)
    BY <1>1, <1>3 DEF Kept
  <1>5. Keys \subseteq DOMAIN p /\ IsList(p.examples)
    BY <1>2 DEF IsFile
  <1>6. /\ DOMAIN new = DOMAIN p
        /\ new.anchor = RootAnchor(p) /\ new.tokens = Inherited("tokens", p)
        /\ new.properties = Inherited("properties", p)
        /\ \A key \in Keys \ {"anchor", "tokens", "properties"} : new[key] = p[key]
    <2>1. new = [p EXCEPT !.anchor = RootAnchor(p), !.tokens = Inherited("tokens", p),
                          !.properties = Inherited("properties", p)]
      BY <1>3 DEF Described
    <2> QED BY <1>5, <2>1 DEF Keys
  <1>7. Stands(f, new, n + 1)
    <2>1. p.type = "root" \/ Has(described, p.extends)
      BY <1>1 DEF CanBeRead, Orphaned
    <2>2. /\ \A key \in {"tokens", "properties"} : Inherited(key, p) = ListsIn(f, key)[n + 1]
          /\ RootAnchor(p) = RootIn(f, n + 1).anchor
      BY <1>1, <2>1, InheritedIs
    <2>3. \A key \in {"id", "type", "extends", "match", "precedence", "asserts"} : new[key] = p[key]
      BY <1>6 DEF Keys
    <2>4. new.examples = p.examples
      BY <1>6 DEF Keys
    <2> QED BY <1>1, <1>5, <1>6, <2>2, <2>3, <2>4 DEF Stands
  <1>8. PICK S : S = Range(described) \cup {new}
    OBVIOUS
  <1>9. described \in Seq(S)
    BY <1>8, SeqWidens DEF IsRead, IsList
  <1>10. PICK s \in Seq(S) : s = described' /\ s = Append(described, new)
    BY <1>4, <1>8, <1>9
  <1> DEFINE m == Len(described)
  <1>11. m \in Nat /\ DOMAIN described = 1..m /\ Len(s) = m + 1 /\ DOMAIN s = 1..(m + 1)
         /\ s[m + 1] = new /\ \A k \in 1..m : s[k] = described[k]
    BY <1>9, <1>10
  <1> HIDE DEF m
  <1>12. Range(s) = Range(described) \cup {new}
    <2>1. \A k \in 1..(m + 1) : k \in 1..m \/ k = m + 1
      BY <1>11
    <2>2. m + 1 \in 1..(m + 1) /\ \A k \in 1..m : k \in 1..(m + 1)
      BY <1>11
    <2> QED BY <1>11, <2>1, <2>2 DEF Range
  <1>13. IsFirst(f, n + 1)
    <2>1. \A j \in 1..n : f.patterns[j].id # p.id
      BY <1>1, ReadHas
    <2>2. (n + 1) - 1 = n
      OBVIOUS
    <2> QED BY <1>1, <2>1, <2>2 DEF IsFirst
  <1>14. new.id = p.id
    BY <1>6 DEF Keys
  <1>15. \A d \in Range(described) : d.id # p.id
    <2> SUFFICES ASSUME NEW d \in Range(described), d.id = p.id PROVE FALSE
      OBVIOUS
    <2>1. PICK k \in DOMAIN described : d = described[k]
      BY DEF Range
    <2> QED BY <1>1, <2>1 DEF Has, Places
  <1>16. OneEach(s)
    <2> SUFFICES ASSUME NEW i \in DOMAIN s, NEW j \in DOMAIN s, s[i].id = s[j].id PROVE i = j
      BY DEF OneEach
    <2>1. \A k \in 1..m : described[k].id # p.id
      BY <1>11, <1>15 DEF Range
    <2>2. i \in 1..m \/ i = m + 1
      BY <1>11
    <2>3. j \in 1..m \/ j = m + 1
      BY <1>11
    <2>4. CASE i \in 1..m /\ j \in 1..m
      BY <1>11, <2>4 DEF IsRead, OneEach
    <2> QED BY <1>11, <1>14, <2>1, <2>2, <2>3, <2>4
  <1>17. IsList(s)
    <2>1. Range(s) = S
      BY <1>8, <1>12
    <2> QED BY <2>1 DEF IsList
  <1>18. \A i \in 1..(n + 1) : IsReadable(f, i)
    <2>1. IsReadable(f, n + 1)
      BY ReadableMeans
    <2>2. \A i \in 1..(n + 1) : i \in 1..n \/ i = n + 1
      OBVIOUS
    <2> QED BY <2>1, <2>2 DEF IsRead
  <1>19. ASSUME NEW d \in Range(s) PROVE \E i \in 1..(n + 1) : IsFirst(f, i) /\ Stands(f, d, i)
    <2>1. CASE d \in Range(described)
      <3>1. PICK i \in 1..n : IsFirst(f, i) /\ Stands(f, d, i)
        BY <2>1 DEF IsRead
      <3>2. i \in 1..(n + 1)
        OBVIOUS
      <3> QED BY <3>1, <3>2
    <2>2. CASE d = new
      <3>1. n + 1 \in 1..(n + 1)
        OBVIOUS
      <3> QED BY <1>7, <1>13, <2>2, <3>1
    <2> QED BY <1>12, <2>1, <2>2
  <1>20. ASSUME NEW i \in 1..(n + 1), IsFirst(f, i) PROVE \E d \in Range(s) : Stands(f, d, i)
    <2>1. CASE i \in 1..n
      <3>1. PICK d \in Range(described) : Stands(f, d, i)
        BY <1>20, <2>1 DEF IsRead
      <3> QED BY <1>12, <3>1
    <2>2. CASE i = n + 1
      BY <1>7, <1>12, <2>2
    <2>3. i \in 1..n \/ i = n + 1
      OBVIOUS
    <2> QED BY <2>1, <2>2, <2>3
  <1>21. s = described'
    BY <1>10
  <1> QED BY <1>16, <1>17, <1>18, <1>19, <1>20, <1>21 DEF IsRead

---------------------------------------------------------------------------
(* Building the patterns of a file                                            *)

IsBuilt(d) == \E b \in built : b.id = d.id

\* The patterns that are built: those with the smallest ids, and all complete.
IsBuilding(f) ==
  /\ File = f /\ IsRead(f, Len(f.patterns))
  /\ \A b \in built : \E d \in Range(described) : b = Pattern(d)
  /\ objects = UNION {Range(d.tokens) : d \in {d \in Range(described) : IsBuilt(d)}}
  /\ \A d, e \in Range(described) : IsBuilt(d) /\ PlaceOf(e.id) <= PlaceOf(d.id) => IsBuilt(e)
  /\ \A d \in Range(described) : \A i \in Firsts(f) : IsBuilt(d) /\ Stands(f, d, i) => IsComplete(f, i)

LEMMA OwnId ==
  ASSUME NEW q, q \in Range(IdOrder)
  PROVE  PlaceOf(q) \in Nat /\ PlaceOf(q) \in DOMAIN IdOrder /\ IdOrder[PlaceOf(q)] = q
  <1>1. \E i \in DOMAIN IdOrder : IdOrder[i] = q
    BY DEF Range
  <1>2. PlaceOf(q) \in DOMAIN IdOrder /\ IdOrder[PlaceOf(q)] = q
    BY <1>1 DEF PlaceOf
  <1>3. DOMAIN IdOrder \subseteq Nat
    BY DirectoriesAssumption DEF IsList
  <1> QED BY <1>2, <1>3

LEMMA FirstIndex ==
  ASSUME NEW f, IsFile(f), NEW i \in Firsts(f)
  PROVE  i \in 1..Len(f.patterns) /\ i \in DOMAIN f.patterns /\ i \in Nat /\ IsFirst(f, i) /\ Len(f.patterns) \in Nat
  <1>1. i \in DOMAIN f.patterns /\ IsFirst(f, i)
    BY DEF Firsts
  <1>2. Len(f.patterns) \in Nat /\ DOMAIN f.patterns = 1..Len(f.patterns)
    BY DEF IsFile, IsList
  <1> QED BY <1>1, <1>2

\* Every pattern that was read stands for one of the file, and has an id in order.
LEMMA DescribedIds ==
  ASSUME NEW f, IsFile(f), IsRead(f, Len(f.patterns)), NEW d \in Range(described)
  PROVE  /\ \E i \in Firsts(f) : Stands(f, d, i)
         /\ d.id \in Range(IdOrder)
  <1>1. PICK i \in 1..Len(f.patterns) : IsFirst(f, i) /\ Stands(f, d, i)
    BY DEF IsRead
  <1>2. i \in DOMAIN f.patterns
    BY DEF IsFile, IsList
  <1>3. f.patterns[i] \in Range(f.patterns)
    BY <1>2 DEF Range
  <1>4. d.id = f.patterns[i].id
    BY <1>1 DEF Stands
  <1>5. IsReadable(f, i)
    BY DEF IsRead
  <1>6. f.patterns[i].id # Absent
    BY <1>5 DEF IsReadable
  <1>7. d.id \in Range(IdOrder)
    BY <1>3, <1>4, <1>6 DEF IsFile
  <1> QED BY <1>1, <1>2, <1>7 DEF Firsts

LEMMA SamePlace ==
  ASSUME NEW f, IsFile(f), IsRead(f, Len(f.patterns)),
         NEW d \in Range(described), NEW e \in Range(described), PlaceOf(d.id) = PlaceOf(e.id)
  PROVE  d = e
  <1>1. d.id \in Range(IdOrder) /\ e.id \in Range(IdOrder)
    BY DescribedIds
  <1>2. d.id = e.id
    <2>1. PICK q : q = d.id
      OBVIOUS
    <2>2. PICK r : r = e.id
      OBVIOUS
    <2>3. IdOrder[PlaceOf(q)] = q /\ IdOrder[PlaceOf(r)] = r
      BY <1>1, <2>1, <2>2, OwnId
    <2> QED BY <2>1, <2>2, <2>3
  <1>3. DOMAIN described \subseteq Nat /\ OneEach(described)
    <2>1. IsList(described) /\ OneEach(described)
      BY DEF IsRead
    <2> QED BY <2>1 DEF IsList
  <1>4. First(described, d.id) = d
    BY <1>3, FirstOfOne
  <1>5. First(described, e.id) = e
    BY <1>3, FirstOfOne
  <1> QED BY <1>2, <1>4, <1>5

\* The tokens and the properties of what was read.
LEMMA StandsFor ==
  ASSUME NEW f, IsFile(f), NEW i \in Firsts(f), NEW d, Stands(f, d, i)
  PROVE  /\ Range(d.tokens) = TokensFor(f, i) /\ (d.tokens = <<>> <=> TokensFor(f, i) = {})
         /\ UNION {Range(pr.reads) : pr \in Range(d.properties)} = ReadsFor(f, i)
         /\ \E S : d.tokens \in Seq(S) /\ d.properties \in Seq(S)
         /\ d.id = f.patterns[i].id /\ d.match = f.patterns[i].match
  <1>0. IsList(f.patterns) /\ i \in DOMAIN f.patterns
    BY DEF IsFile, Firsts
  <1>1. Lists(f, "tokens") /\ Lists(f, "properties")
    BY DEF IsFile, Lists, Range
  <1>2. d.tokens = ListsIn(f, "tokens")[i] /\ d.properties = ListsIn(f, "properties")[i]
    BY DEF Stands
  <1>3. d.tokens \in Seq(Listed(f, "tokens")) /\ Range(d.tokens) = OnPath(f, "tokens", i)
    BY <1>0, <1>1, <1>2, ListParts
  <1>4. d.properties \in Seq(Listed(f, "properties")) /\ Range(d.properties) = OnPath(f, "properties", i)
    BY <1>0, <1>1, <1>2, ListParts
  <1>5. Range(d.tokens) = TokensFor(f, i)
    BY <1>3 DEF OnPath, TokensFor
  <1>6. d.tokens = <<>> <=> Range(d.tokens) = {}
    <2>1. PICK s \in Seq(Listed(f, "tokens")) : s = d.tokens
      BY <1>3
    <2>2. Len(s) \in Nat /\ DOMAIN s = 1..Len(s)
      OBVIOUS
    <2>3. s = <<>> => Range(s) = {}
      <3>1. DOMAIN <<>> = {}
        OBVIOUS
      <3> QED BY <3>1 DEF Range
    <2>4. ASSUME s # <<>> PROVE Range(s) # {}
      <3>1. Len(s) # 0
        BY <2>4
      <3>2. 1 \in DOMAIN s
        BY <2>2, <3>1
      <3> QED BY <3>2 DEF Range
    <2> QED BY <2>1, <2>3, <2>4
  <1>7. UNION {Range(pr.reads) : pr \in Range(d.properties)} = ReadsFor(f, i)
    <2> DEFINE U == UNION {Range(pr.reads) : pr \in OnPath(f, "properties", i)}
    <2>1. \A t \in U : t \in ReadsFor(f, i)
      BY DEF OnPath, ReadsFor
    <2>2. \A t \in ReadsFor(f, i) : t \in U
      BY DEF OnPath, ReadsFor
    <2> QED BY <1>4, <2>1, <2>2
  <1>8. d.tokens \in Seq(Listed(f, "tokens") \cup Listed(f, "properties"))
    <2>1. PICK S : S = Listed(f, "tokens") \cup Listed(f, "properties")
      OBVIOUS
    <2>2. Listed(f, "tokens") \subseteq S
      BY <2>1
    <2> QED BY <1>3, <2>1, <2>2, SeqWidens
  <1>9. d.properties \in Seq(Listed(f, "tokens") \cup Listed(f, "properties"))
    <2>1. PICK S : S = Listed(f, "tokens") \cup Listed(f, "properties")
      OBVIOUS
    <2>2. Listed(f, "properties") \subseteq S
      BY <2>1
    <2> QED BY <1>4, <2>1, <2>2, SeqWidens
  <1>10. d.id = f.patterns[i].id /\ d.match = f.patterns[i].match
    BY DEF Stands
  <1> QED BY <1>5, <1>6, <1>7, <1>8, <1>9, <1>10

\* The tokens that have an object are tokens of the file.
LEMMA ObjectsAreTokens ==
  ASSUME NEW f, IsFile(f), IsBuilding(f), NEW t \in objects
  PROVE  IsToken(f, t)
  <1>1. PICK d \in Range(described) : IsBuilt(d) /\ t \in Range(d.tokens)
    BY DEF IsBuilding
  <1>2. PICK i \in Firsts(f) : Stands(f, d, i)
    BY DescribedIds DEF IsBuilding
  <1>3. IsComplete(f, i)
    BY <1>1, <1>2 DEF IsBuilding
  <1>4. t \in TokensFor(f, i)
    BY <1>1, <1>2, StandsFor
  <1> QED BY <1>3, <1>4 DEF IsComplete

\* When a pattern is built, those with smaller ids are, and no others.
LEMMA BuiltBefore ==
  ASSUME NEW f, IsFile(f), IsBuilding(f), NEW d, IsNext(d), NEW e \in Range(described)
  PROVE  IsBuilt(e) \/ e = d <=> PlaceOf(e.id) <= PlaceOf(d.id)
  <1>1. d \in Range(described) /\ ~IsBuilt(d)
    BY DEF IsNext, Unbuilt, IsBuilt
  <1>2. PICK m \in Nat : m = PlaceOf(d.id)
    BY <1>1, DescribedIds, OwnId DEF IsBuilding
  <1>3. PICK n \in Nat : n = PlaceOf(e.id)
    BY DescribedIds, OwnId DEF IsBuilding
  <1>4. IsBuilt(e) => n <= m
    <2> SUFFICES ASSUME IsBuilt(e), ~(n <= m) PROVE FALSE
      OBVIOUS
    <2>1. m <= n
      OBVIOUS
    <2>2. PlaceOf(d.id) <= PlaceOf(e.id)
      BY <1>2, <1>3, <2>1
    <2> QED BY <1>1, <2>2 DEF IsBuilding
  <1>5. e = d => n <= m
    BY <1>2, <1>3
  <1>6. n <= m => IsBuilt(e) \/ e = d
    <2> SUFFICES ASSUME n <= m, ~IsBuilt(e) PROVE e = d
      OBVIOUS
    <2>1. e \in Unbuilt
      BY DEF Unbuilt, IsBuilt
    <2>2. PlaceOf(d.id) <= PlaceOf(e.id)
      BY <2>1 DEF IsNext
    <2>3. m = n
      BY <1>2, <1>3, <2>2
    <2>4. PlaceOf(d.id) = PlaceOf(e.id)
      BY <1>2, <1>3, <2>3
    <2>5. IsRead(f, Len(f.patterns))
      BY DEF IsBuilding
    <2> QED BY <1>1, <2>4, <2>5, SamePlace
  <1> QED BY <1>2, <1>3, <1>4, <1>5, <1>6

\* What a property may read: the tokens of its own pattern and of those with
\* smaller ids.
Readable(f, i) ==
  UNION {TokensFor(f, j) : j \in {j \in Firsts(f) : PlaceOf(f.patterns[j].id) <= PlaceOf(f.patterns[i].id)}}

LEMMA KnownTokens ==
  ASSUME NEW f, IsFile(f), IsBuilding(f), NEW d, IsNext(d), NEW i \in Firsts(f), Stands(f, d, i)
  PROVE  objects \cup Range(d.tokens) = Readable(f, i)
  <1>0. d.id = f.patterns[i].id /\ d \in Range(described)
    BY DEF Stands, IsNext, Unbuilt
  <1>1. ASSUME NEW t \in objects \cup Range(d.tokens) PROVE t \in Readable(f, i)
    <2>1. PICK e \in Range(described) : (IsBuilt(e) \/ e = d) /\ t \in Range(e.tokens)
      BY <1>0 DEF IsBuilding
    <2>2. PlaceOf(e.id) <= PlaceOf(d.id)
      BY <2>1, BuiltBefore
    <2>3. PICK j \in Firsts(f) : Stands(f, e, j)
      BY DescribedIds DEF IsBuilding
    <2>4. t \in TokensFor(f, j) /\ e.id = f.patterns[j].id
      BY <2>1, <2>3, StandsFor
    <2> QED BY <1>0, <2>2, <2>4 DEF Readable
  <1>2. ASSUME NEW t \in Readable(f, i) PROVE t \in objects \cup Range(d.tokens)
    <2>1. PICK j \in Firsts(f) : /\ PlaceOf(f.patterns[j].id) <= PlaceOf(f.patterns[i].id)
                                 /\ t \in TokensFor(f, j)
      BY DEF Readable
    <2>2. PICK e \in Range(described) : Stands(f, e, j)
      BY FirstIndex DEF IsBuilding, IsRead
    <2>3. t \in Range(e.tokens) /\ e.id = f.patterns[j].id
      BY <2>1, <2>2, StandsFor
    <2>4. PlaceOf(e.id) <= PlaceOf(d.id)
      BY <1>0, <2>1, <2>3
    <2>5. IsBuilt(e) \/ e = d
      BY <2>4, BuiltBefore
    <2> QED BY <2>3, <2>5 DEF IsBuilding
  <1> QED BY <1>1, <1>2

\* A pattern is built without an error exactly if it is complete.
LEMMA CompleteMeans ==
  ASSUME NEW f, IsFile(f), IsBuilding(f), NEW d, IsNext(d), NEW i \in Firsts(f), Stands(f, d, i)
  PROVE  IsComplete(f, i) <=> ~NoAnchor(d) /\ ~BadToken(d) /\ ~BadProperty(d) /\ ~BadMatchType(d)
  <1>0. File = f
    BY DEF IsBuilding
  <1>1. HasAnchor(f, RootIn(f, i).anchor) <=> ~NoAnchor(d)
    BY <1>0 DEF HasAnchor, NoAnchor, Stands
  <1>2. /\ Range(d.tokens) = TokensFor(f, i) /\ (d.tokens = <<>> <=> TokensFor(f, i) = {})
        /\ UNION {Range(pr.reads) : pr \in Range(d.properties)} = ReadsFor(f, i)
        /\ d.match = f.patterns[i].match
    BY StandsFor
  <1>3. TokensFor(f, i) # {} /\ (\A t \in TokensFor(f, i) : IsToken(f, t)) <=> ~BadToken(d)
    <2>1. \A t : Usable(t) <=> IsToken(f, t)
      <3> TAKE t
      <3>1. t \in objects => IsToken(f, t)
        BY ObjectsAreTokens
      <3> QED BY <1>0, <3>1 DEF Usable, IsToken
    <2> QED BY <1>2, <2>1 DEF BadToken
  <1>4. ReadsFor(f, i) \subseteq Readable(f, i) <=> ~BadProperty(d)
    <2>1. Readable(f, i) = objects \cup Range(d.tokens)
      BY KnownTokens
    <2>2. BadProperty(d) <=> \E pr \in Range(d.properties) : \E t \in Range(pr.reads) : ~Knows(d, t)
      BY DEF BadProperty, Range
    <2>3. BadProperty(d) <=> \E t \in ReadsFor(f, i) : ~Knows(d, t)
      BY <1>2, <2>2
    <2> QED BY <2>1, <2>3 DEF Knows
  <1>5. f.patterns[i].match \in {"sequential", "random"} <=> ~BadMatchType(d)
    BY <1>2 DEF BadMatchType
  <1> QED BY <1>1, <1>3, <1>4, <1>5 DEF IsComplete, Readable

\* Building the next pattern, which is complete, keeps all of this.
LEMMA BuildsOne ==
  ASSUME NEW f, IsFile(f), IsBuilding(f), NEW d, IsNext(d),
         ~NoAnchor(d), ~BadToken(d), ~BadProperty(d), ~BadMatchType(d),
         built' = built \cup {Pattern(d)}, objects' = objects \cup Range(d.tokens),
         UNCHANGED <<directory, file, described>>
  PROVE  IsBuilding(f)'
  <1>0. File' = f /\ File = f /\ described' = described
    BY DEF IsBuilding, File
  <1>1. d \in Range(described) /\ ~IsBuilt(d)
    BY DEF IsNext, Unbuilt, IsBuilt
  <1>2. IsRead(f, Len(f.patterns)) /\ IsRead(f, Len(f.patterns))'
    BY <1>0 DEF IsBuilding, IsRead, OneEach, IsList
  <1>3. \A e : Pattern(e)' = Pattern(e) /\ Pattern(e).id = e.id
    BY <1>0 DEF Pattern, Asserts
  <1>4. ASSUME NEW e \in Range(described) PROVE IsBuilt(e)' <=> IsBuilt(e) \/ e = d
    <2>1. IsBuilt(e)' <=> IsBuilt(e) \/ e.id = d.id
      BY <1>3 DEF IsBuilt
    <2>2. e.id = d.id => e = d
      BY <1>1, <1>2, SamePlace
    <2> QED BY <2>1, <2>2
  <1>5. \A b \in built' : \E e \in Range(described) : b = Pattern(e)
    BY <1>1 DEF IsBuilding
  <1>6. objects' = UNION {Range(e.tokens) : e \in {e \in Range(described) : IsBuilt(e)'}}
    <2> DEFINE O(S) == UNION {Range(e.tokens) : e \in S}
               B == {e \in Range(described) : IsBuilt(e)}
               C == {e \in Range(described) : IsBuilt(e)'}
    <2>1. C = B \cup {d}
      BY <1>1, <1>4
    <2>2. objects' = O(B) \cup Range(d.tokens)
      BY DEF IsBuilding
    <2> HIDE DEF B, C
    <2>3. O(B \cup {d}) = O(B) \cup Range(d.tokens)
      OBVIOUS
    <2>4. objects' = O(C)
      BY <2>1, <2>2, <2>3
    <2> QED BY <2>4 DEF C
  <1>7. ASSUME NEW e \in Range(described), NEW g \in Range(described),
               IsBuilt(e)', PlaceOf(g.id) <= PlaceOf(e.id)
        PROVE  IsBuilt(g)'
    <2>1. CASE IsBuilt(e)
      <3>1. IsBuilt(g)
        BY <1>7, <2>1 DEF IsBuilding
      <3> QED BY <1>4, <3>1
    <2>2. CASE e = d
      <3>1. IsBuilt(g) \/ g = d
        BY <1>7, <2>2, BuiltBefore
      <3> QED BY <1>4, <3>1
    <2> QED BY <1>4, <1>7, <2>1, <2>2
  <1>8. ASSUME NEW e \in Range(described), NEW i \in Firsts(f), IsBuilt(e)', Stands(f, e, i)
        PROVE  IsComplete(f, i)
    <2>1. CASE IsBuilt(e)
      BY <1>8, <2>1 DEF IsBuilding
    <2>2. CASE e = d
      <3>1. Stands(f, d, i)
        BY <1>8, <2>2
      <3> QED BY <3>1, CompleteMeans
    <2> QED BY <1>4, <1>8, <2>1, <2>2
  <1>9. \A b \in built' : \E e \in Range(described') : b = Pattern(e)'
    BY <1>0, <1>3, <1>5
  <1> QED BY <1>0, <1>2, <1>6, <1>7, <1>8, <1>9 DEF IsBuilding

---------------------------------------------------------------------------
(* The patterns that a file describes                                         *)

\* p is what a file describes as its pattern i.
IsPatternOf(f, i, p) ==
  /\ p.id = f.patterns[i].id
  /\ p.tokens = ListsIn(f, "tokens")[i] /\ Range(p.tokens) = TokensFor(f, i)
  /\ p.anchor = First(f.anchors, RootIn(f, i).anchor).regex
  /\ p.precedence = f.patterns[i].precedence /\ p.match = f.patterns[i].match
  /\ p.asserts = AssertsFor(f, i)
  /\ UNION {Range(pr.reads) : pr \in Range(p.properties)} = ReadsFor(f, i)

Means(f, P) ==
  /\ {p.id : p \in P} = {f.patterns[i].id : i \in Firsts(f)}
  /\ \A p \in P : \E i \in Firsts(f) : IsPatternOf(f, i, p)

\* Leaving out the properties that read nothing leaves out no token.
LEMMA KeepsReads ==
  ASSUME NEW S, NEW s \in Seq(S)
  PROVE  UNION {Range(pr.reads) : pr \in Range(FlattenSeq([i \in DOMAIN s |->
                   IF IsDynamic(s[i]) \/ s[i].reads # <<>> THEN <<s[i]>> ELSE <<>>]))}
           = UNION {Range(pr.reads) : pr \in Range(s)}
  <1> DEFINE Keep(x) == IsDynamic(x) \/ x.reads # <<>>
             One(i) == IF Keep(s[i]) THEN <<s[i]>> ELSE <<>>
             ss == [i \in DOMAIN s |-> One(i)]
  <1>0. \A x : ~Keep(x) => Range(x.reads) = {}
    <2>1. Range(<<>>) = {}
      BY DEF Range
    <2> QED BY <2>1
  <1> HIDE DEF Keep
  <1>1. Len(s) \in Nat /\ DOMAIN s = 1..Len(s) /\ \A i \in 1..Len(s) : s[i] \in S
    OBVIOUS
  <1>2. ASSUME NEW i \in 1..Len(s)
        PROVE  One(i) \in Seq(S) /\ Range(One(i)) = IF Keep(s[i]) THEN {s[i]} ELSE {}
    <2>1. CASE Keep(s[i])
      <3>1. <<s[i]>> \in Seq(S) /\ Range(<<s[i]>>) = {s[i]}
        BY <1>1, SingleRange
      <3> QED BY <2>1, <3>1
    <2>2. CASE ~Keep(s[i])
      <3>1. Range(<<>>) = {}
        BY DEF Range
      <3> QED BY <2>2, <3>1
    <2> QED BY <2>1, <2>2
  <1> HIDE DEF One
  <1>3. ss \in Seq(Seq(S)) /\ Len(ss) = Len(s) /\ \A i \in 1..Len(s) : ss[i] = One(i)
    BY <1>1, <1>2
  <1>4. Range(FlattenSeq(ss)) = UNION {Range(ss[k]) : k \in 1..Len(ss)}
    BY <1>3, FlattenRange
  <1> HIDE DEF ss
  <1>5. \A x : x \in Range(FlattenSeq(ss)) <=> \E i \in 1..Len(s) : x = s[i] /\ Keep(s[i])
    <2> TAKE x
    <2>1. x \in Range(FlattenSeq(ss)) <=> \E i \in 1..Len(s) : x \in Range(One(i))
      BY <1>3, <1>4
    <2> QED BY <1>2, <2>1
  <1>6. \A x : x \in Range(s) <=> \E i \in 1..Len(s) : x = s[i]
    BY <1>1 DEF Range
  <1>7. \A x \in Range(FlattenSeq(ss)) : x \in Range(s)
    BY <1>5, <1>6
  <1>8. \A x \in Range(s) : x \in Range(FlattenSeq(ss)) \/ Range(x.reads) = {}
    BY <1>0, <1>5, <1>6
  <1>9. UNION {Range(pr.reads) : pr \in Range(FlattenSeq(ss))} = UNION {Range(pr.reads) : pr \in Range(s)}
    BY <1>7, <1>8
  <1> QED BY <1>9 DEF ss, One, Keep

\* A pattern that is built is what the file describes.
LEMMA PatternMeans ==
  ASSUME NEW f, IsFile(f), File = f, NEW i \in Firsts(f), NEW d, Stands(f, d, i)
  PROVE  IsPatternOf(f, i, Pattern(d))
  <1>1. PICK p : p = Pattern(d)
    OBVIOUS
  <1>2. /\ p.id = d.id /\ p.tokens = d.tokens /\ p.asserts = Asserts(d)
        /\ p.anchor = First(f.anchors, d.anchor).regex
        /\ p.precedence = d.precedence /\ p.match = d.match
        /\ p.properties = FlattenSeq([k \in DOMAIN d.properties |->
                            IF IsDynamic(d.properties[k]) \/ d.properties[k].reads # <<>>
                            THEN <<d.properties[k]>> ELSE <<>>])
    BY <1>1 DEF Pattern
  <1>3. /\ d.id = f.patterns[i].id /\ d.match = f.patterns[i].match
        /\ d.precedence = f.patterns[i].precedence /\ d.asserts = f.patterns[i].asserts
        /\ d.tokens = ListsIn(f, "tokens")[i] /\ d.anchor = RootIn(f, i).anchor
    BY DEF Stands
  <1>4. Range(d.tokens) = TokensFor(f, i)
        /\ UNION {Range(pr.reads) : pr \in Range(d.properties)} = ReadsFor(f, i)
    BY StandsFor
  <1>5. UNION {Range(pr.reads) : pr \in Range(p.properties)} = ReadsFor(f, i)
    <2>1. PICK S : d.properties \in Seq(S)
      BY StandsFor
    <2>2. UNION {Range(pr.reads) : pr \in Range(p.properties)}
            = UNION {Range(pr.reads) : pr \in Range(d.properties)}
      BY <1>2, <2>1, KeepsReads
    <2> QED BY <1>4, <2>2
  <1>6. p.asserts = AssertsFor(f, i)
    BY <1>2, <1>3, <1>4 DEF Asserts, AssertsFor
  <1> QED BY <1>1, <1>2, <1>3, <1>4, <1>5, <1>6 DEF IsPatternOf

\* When all patterns are built the file is what it should be, and so are they.
LEMMA AllBuilt ==
  ASSUME NEW f, IsFile(f), IsBuilding(f), HasItsKeys(f), Unbuilt = {}
  PROVE  WellFormed(f) /\ Means(f, built)
  <1>1. \A d \in Range(described) : IsBuilt(d)
    BY DEF Unbuilt, IsBuilt
  <1>2. ASSUME NEW i \in Firsts(f) PROVE \E d \in Range(described) : Stands(f, d, i) /\ IsBuilt(d)
    <2>1. \E d \in Range(described) : Stands(f, d, i)
      BY FirstIndex DEF IsBuilding, IsRead
    <2> QED BY <1>1, <2>1
  <1>3. \A i \in Firsts(f) : IsComplete(f, i)
    BY <1>2 DEF IsBuilding
  <1>4. \A i \in DOMAIN f.patterns : IsReadable(f, i)
    <2>1. DOMAIN f.patterns = 1..Len(f.patterns)
      BY DEF IsFile, IsList
    <2>2. IsRead(f, Len(f.patterns))
      BY DEF IsBuilding
    <2> QED BY <2>1, <2>2 DEF IsRead
  <1>5. ASSUME NEW p \in built PROVE \E i \in Firsts(f) : IsPatternOf(f, i, p)
    <2>1. PICK d \in Range(described) : p = Pattern(d)
      BY DEF IsBuilding
    <2>2. PICK i \in Firsts(f) : Stands(f, d, i)
      BY DescribedIds DEF IsBuilding
    <2> QED BY <2>1, <2>2, PatternMeans DEF IsBuilding
  <1>6. ASSUME NEW i \in Firsts(f) PROVE \E p \in built : p.id = f.patterns[i].id
    <2>1. PICK d \in Range(described) : Stands(f, d, i) /\ IsBuilt(d)
      BY <1>2
    <2> QED BY <2>1 DEF IsBuilt, Stands
  <1>7. {p.id : p \in built} = {f.patterns[i].id : i \in Firsts(f)}
    <2>1. \A p \in built : \E i \in Firsts(f) : p.id = f.patterns[i].id
      BY <1>5 DEF IsPatternOf
    <2> QED BY <1>6, <2>1
  <1> QED BY <1>3, <1>4, <1>5, <1>7 DEF WellFormed, Means

---------------------------------------------------------------------------
(* Reading the files of a directory                                           *)

\* Before a file is read.
Empty == at = 1 /\ described = <<>> /\ objects = {} /\ built = {}

\* Of the file at hand as many patterns have been read as at says, and when they
\* are built the file has had all its keys; the files before it are well formed
\* and their rules are what they describe.  The program only stops for a reason.
FilesInv ==
  /\ stage = "patterns" /\ file <= Len(directory) =>
       at - 1 <= Len(File.patterns) /\ IsRead(File, at - 1) /\ built = {} /\ objects = {}
  /\ stage = "build" => HasItsKeys(File) /\ IsBuilding(File)
  /\ \A k \in 1..Len(rules) : WellFormed(directory[k]) /\ Means(directory[k], rules[k].patterns)
  /\ directory # <<>> => file <= Len(directory)
  /\ stage = "loaded" => directory # <<>>
  /\ stage \in {"refused", "aborted"} /\ command # {} =>
       directory = <<>> \/ \E i \in DOMAIN directory : ~WellFormed(directory[i])

LEMMA NothingRead ==
  ASSUME NEW f PROVE described = <<>> => IsRead(f, 0)
  <1> SUFFICES ASSUME described = <<>> PROVE IsRead(f, 0)
    OBVIOUS
  <1>1. Range(described) = {} /\ DOMAIN described = {}
    BY DEF Range
  <1>2. IsList(described) /\ OneEach(described)
    BY <1>1 DEF IsList, OneEach
  <1> QED BY <1>1, <1>2 DEF IsRead

LEMMA DirectoryFile ==
  ASSUME ReadingInv, file <= Len(directory)
  PROVE  /\ file \in DOMAIN directory /\ File \in Range(directory) /\ IsFile(File)
         /\ Len(File.patterns) \in Nat /\ DOMAIN File.patterns = 1..Len(File.patterns)
  <1>1. directory \in Directories /\ file \in Nat \ {0}
    BY DirectoriesAssumption, SMTT(30) DEF ReadingInv, ReadingTypeOK, IsList
  <1>2. file \in DOMAIN directory
    BY <1>1, DirectoriesAssumption DEF IsList
  <1>3. File \in Range(directory)
    BY <1>2 DEF File, Range
  <1>4. IsFile(File)
    BY <1>1, <1>3, DirectoriesAssumption DEF IsFile
  <1> QED BY <1>2, <1>3, <1>4 DEF IsFile, IsList

LEMMA InitFiles == ParserInit => FilesInv
  <1> SUFFICES ASSUME ParserInit PROVE FilesInv
    OBVIOUS
  <1>0. ReadInit /\ ReadingInv
    BY InitRead DEF ParserInit
  <1> USE DEF ReadInit
  <1>1. at - 1 = 0 /\ Len(rules) = 0
    BY <1>0
  <1>2. file <= Len(directory) => at - 1 <= Len(File.patterns)
    BY <1>0, <1>1, DirectoryFile
  <1>3. IsRead(File, at - 1)
    BY <1>0, <1>1, NothingRead
  <1>4. directory # <<>> => file <= Len(directory)
    <2>1. PICK s \in Seq(Range(directory)) : s = directory
      BY <1>0, DirectoriesAssumption DEF IsList
    <2>2. s # <<>> => Len(s) >= 1
      OBVIOUS
    <2> QED BY <1>0, <2>1, <2>2
  <1> QED BY <1>0, <1>1, <1>2, <1>3, <1>4 DEF FilesInv

\* The program stops at a file that is not well formed.
LEMMA StopsAtFile ==
  ASSUME ReadingInv, FilesInv, stage \in {"patterns", "build"}, file <= Len(directory),
         ~WellFormed(File), NEW outcome \in {"refused", "aborted"}, Stop(outcome), UNCHANGED command
  PROVE  FilesInv'
  <1>1. file \in DOMAIN directory
    BY DirectoryFile
  <1>2. \E i \in DOMAIN directory : ~WellFormed(directory[i])
    BY <1>1 DEF File
  <1>3. /\ stage' = outcome /\ directory' = directory /\ file' = file /\ rules' = rules
    BY DEF Stop
  <1>4. \A k \in 1..Len(rules) : WellFormed(directory[k]) /\ Means(directory[k], rules[k].patterns)
    BY DEF FilesInv
  <1>5. directory # <<>> => file <= Len(directory)
    BY DEF FilesInv
  <1>6. stage' \notin {"patterns", "build", "loaded"}
    BY <1>3
  <1> QED BY <1>2, <1>3, <1>4, <1>5, <1>6 DEF FilesInv

LEMMA StopsAtPattern ==
  ASSUME ReadingInv, FilesInv, InPatterns, ~CanBeRead(Entry)
  PROVE  file <= Len(directory) /\ ~WellFormed(File)
  <1>1. PICK f : f = File
    OBVIOUS
  <1>2. PICK n : n = at - 1
    OBVIOUS
  <1>3. file <= Len(directory) /\ stage = "patterns" /\ at <= Len(f.patterns)
    BY <1>1 DEF InPatterns, InFile
  <1>4. IsFile(f) /\ Len(f.patterns) \in Nat /\ DOMAIN f.patterns = 1..Len(f.patterns)
    BY <1>1, <1>3, DirectoryFile
  <1>5. n \in Nat /\ n + 1 = at /\ n < Len(f.patterns) /\ at \in DOMAIN f.patterns
    BY <1>2, <1>3, <1>4 DEF ReadingInv, ReadingTypeOK
  <1>6. IsRead(f, n)
    BY <1>1, <1>2, <1>3 DEF FilesInv
  <1>7. ~CanBeRead(f.patterns[n + 1])
    BY <1>1, <1>5 DEF Entry
  <1>8. ~IsReadable(f, n + 1)
    BY <1>4, <1>5, <1>6, <1>7, ReadableMeans
  <1> QED BY <1>1, <1>3, <1>5, <1>8 DEF WellFormed

LEMMA StopsAtBuild ==
  ASSUME ReadingInv, FilesInv, stage = "build", NEW d, IsNext(d),
         NoAnchor(d) \/ BadToken(d) \/ BadProperty(d) \/ BadMatchType(d)
  PROVE  ~WellFormed(File)
  <1>1. PICK f : f = File
    OBVIOUS
  <1>2. IsFile(f)
    BY <1>1, DirectoryFile DEF ReadingInv
  <1>3. IsBuilding(f)
    BY <1>1 DEF FilesInv
  <1>4. d \in Range(described)
    BY DEF IsNext, Unbuilt
  <1>5. PICK i \in Firsts(f) : Stands(f, d, i)
    BY <1>2, <1>3, <1>4, DescribedIds DEF IsBuilding
  <1>6. ~IsComplete(f, i)
    BY <1>2, <1>3, <1>5, CompleteMeans
  <1> QED BY <1>1, <1>6 DEF WellFormed

LEMMA ReadPatternKeeps ==
  ASSUME ReadingInv, FilesInv, ReadPattern, UNCHANGED command
  PROVE  FilesInv'
  <1>1. PICK f : f = File
    OBVIOUS
  <1>2. PICK n : n = at - 1
    OBVIOUS
  <1>3. file <= Len(directory) /\ stage = "patterns" /\ at <= Len(f.patterns)
    BY <1>1 DEF ReadPattern, InPatterns, InFile
  <1>4. IsFile(f) /\ Len(f.patterns) \in Nat
    BY <1>1, <1>3, DirectoryFile
  <1>5. n \in Nat /\ n + 1 = at /\ n < Len(f.patterns) /\ at' = at + 1 /\ at' - 1 = n + 1
    BY <1>2, <1>3, <1>4 DEF ReadingInv, ReadingTypeOK, ReadPattern
  <1>6. IsRead(f, n) /\ built = {} /\ objects = {}
    BY <1>1, <1>2, <1>3 DEF FilesInv
  <1>7. CanBeRead(f.patterns[n + 1]) /\ described' = Kept(f.patterns[n + 1])
    BY <1>1, <1>5 DEF ReadPattern, CanBeRead, Entry
  <1>8. IsRead(f, n + 1)'
    BY <1>4, <1>5, <1>6, <1>7, KeepsOne, ReadsOne
  <1>9. UNCHANGED <<directory, stage, file, objects, built, rules>> /\ File' = f
    BY <1>1 DEF ReadPattern, File
  <1>10. at' - 1 <= Len(File'.patterns) /\ IsRead(File, at - 1)'
    BY <1>5, <1>8, <1>9
  <1>11. \A k \in 1..Len(rules) : WellFormed(directory[k]) /\ Means(directory[k], rules[k].patterns)
    BY DEF FilesInv
  <1>12. directory # <<>> => file <= Len(directory)
    BY DEF FilesInv
  <1> QED BY <1>3, <1>6, <1>9, <1>10, <1>11, <1>12 DEF FilesInv

LEMMA EndPatternsKeeps ==
  ASSUME ReadingInv, FilesInv, EndPatterns, UNCHANGED command
  PROVE  FilesInv'
  <1>1. PICK f : f = File
    OBVIOUS
  <1>2. PICK n : n = at - 1
    OBVIOUS
  <1>3. /\ file <= Len(directory) /\ stage = "patterns" /\ at > Len(f.patterns)
        /\ ~LacksAHeader /\ ~LacksAnAnchor
    BY <1>1 DEF EndPatterns, InFile
  <1>4. IsFile(f) /\ Len(f.patterns) \in Nat
    BY <1>1, <1>3, DirectoryFile
  <1>5. n <= Len(f.patterns) /\ IsRead(f, n) /\ built = {} /\ objects = {}
    BY <1>1, <1>2, <1>3 DEF FilesInv
  <1>6. n = Len(f.patterns)
    BY <1>2, <1>3, <1>4, <1>5 DEF ReadingInv, ReadingTypeOK
  <1>7. HasItsKeys(f)
    BY <1>1, <1>3 DEF HasItsKeys, LacksAHeader, LacksAnAnchor
  <1>8. UNCHANGED <<directory, file, at, described, objects, built, rules>> /\ stage' = "build" /\ File' = f
    BY <1>1 DEF EndPatterns, File
  <1>9. IsRead(f, n)'
    BY <1>5, <1>8 DEF IsRead, OneEach, IsList
  <1>10. \A d : ~IsBuilt(d)'
    BY <1>5, <1>8 DEF IsBuilt
  <1>11. objects' = UNION {Range(d.tokens) : d \in {d \in Range(described') : IsBuilt(d)'}}
    BY <1>5, <1>8, <1>10
  <1>12. IsBuilding(f)'
    BY <1>5, <1>6, <1>8, <1>9, <1>10, <1>11 DEF IsBuilding
  <1>13. \A k \in 1..Len(rules) : WellFormed(directory[k]) /\ Means(directory[k], rules[k].patterns)
    BY DEF FilesInv
  <1>14. directory # <<>> => file <= Len(directory)
    BY DEF FilesInv
  <1> QED BY <1>7, <1>8, <1>12, <1>13, <1>14 DEF FilesInv

LEMMA BuildPatternKeeps ==
  ASSUME ReadingInv, FilesInv, BuildPattern, UNCHANGED command
  PROVE  FilesInv'
  <1>1. PICK f : f = File
    OBVIOUS
  <1>2. PICK d \in Unbuilt : /\ IsNext(d) /\ ~NoAnchor(d) /\ ~BadToken(d) /\ ~BadProperty(d) /\ ~BadMatchType(d)
                             /\ built' = built \cup {Pattern(d)}
                             /\ objects' = objects \cup Range(d.tokens)
    BY DEF BuildPattern
  <1>3. stage = "build" /\ UNCHANGED <<directory, stage, file, at, described, rules>>
    BY DEF BuildPattern
  <1>4. IsFile(f)
    BY <1>1, <1>3, DirectoryFile DEF ReadingInv
  <1>5. IsBuilding(f) /\ HasItsKeys(f)
    BY <1>1, <1>3 DEF FilesInv
  <1>6. IsBuilding(f)'
    BY <1>2, <1>3, <1>4, <1>5, BuildsOne
  <1>7. File' = f
    BY <1>1, <1>3 DEF File
  <1>8. \A k \in 1..Len(rules) : WellFormed(directory[k]) /\ Means(directory[k], rules[k].patterns)
    BY DEF FilesInv
  <1>9. directory # <<>> => file <= Len(directory)
    BY DEF FilesInv
  <1> QED BY <1>3, <1>5, <1>6, <1>7, <1>8, <1>9 DEF FilesInv

LEMMA FinishFileKeeps ==
  ASSUME ReadingInv, FilesInv, FinishFile, UNCHANGED command
  PROVE  FilesInv'
  <1>1. PICK f : f = File
    OBVIOUS
  <1>2. PICK new : new = [id |-> File.id, patterns |-> built]
    OBVIOUS
  <1>3. /\ stage = "build" /\ Unbuilt = {} /\ rules' = Append(rules, new)
        /\ at' = 1 /\ described' = <<>> /\ objects' = {} /\ built' = {} /\ directory' = directory
    BY <1>2 DEF FinishFile
  <1>4. /\ IsFile(f) /\ file \in DOMAIN directory /\ file <= Len(directory)
        /\ directory \in Directories /\ Len(rules) = file - 1 /\ file \in Nat \ {0}
        /\ Len(directory) \in Nat
    <2>1. file <= Len(directory) /\ directory \in Directories
      BY <1>3 DEF ReadingInv
    <2>2. IsFile(f) /\ file \in DOMAIN directory
      BY <1>1, <2>1, DirectoryFile
    <2>3. Len(directory) \in Nat
      BY <2>1, DirectoriesAssumption DEF IsList
    <2>4. Len(rules) = file - 1 /\ file \in Nat \ {0}
      BY <1>3, <2>3 DEF ReadingInv, ReadingTypeOK
    <2> QED BY <2>1, <2>2, <2>3, <2>4
  <1>5. WellFormed(f) /\ Means(f, built)
    BY <1>1, <1>3, <1>4, AllBuilt DEF FilesInv
  <1>6. PICK S : rules \in Seq(S)
    BY DEF ReadingInv
  <1>7. Len(rules') = file /\ rules'[file] = new /\ \A k \in 1..(file - 1) : rules'[k] = rules[k]
    <2>1. PICK s : s = rules
      OBVIOUS
    <2>2. s \in Seq(S \cup {new}) /\ new \in S \cup {new} /\ Len(s) \in Nat /\ Len(s) + 1 = file
      BY <1>4, <1>6, <2>1
    <2>3. /\ Len(Append(s, new)) = Len(s) + 1 /\ Append(s, new)[Len(s) + 1] = new
          /\ \A k \in 1..Len(s) : Append(s, new)[k] = s[k]
      BY <2>2
    <2>4. rules' = Append(s, new) /\ file - 1 = Len(s)
      BY <1>3, <1>4, <2>1, <2>2
    <2> QED BY <2>1, <2>2, <2>3, <2>4
  <1>8. ASSUME NEW k \in 1..Len(rules')
        PROVE  WellFormed(directory'[k]) /\ Means(directory'[k], rules'[k].patterns)
    <2>1. CASE k = file
      BY <1>1, <1>2, <1>3, <1>5, <1>7, <2>1 DEF File
    <2>2. CASE k # file
      <3>1. k \in 1..(file - 1)
        BY <1>4, <1>7, <2>2
      <3>2. k \in 1..Len(rules)
        BY <1>4, <3>1
      <3>3. WellFormed(directory[k]) /\ Means(directory[k], rules[k].patterns)
        BY <3>2 DEF FilesInv
      <3> QED BY <1>3, <1>7, <3>1, <3>3
    <2> QED BY <2>1, <2>2
  <1>9. stage' \in {"patterns", "loaded"} /\ (stage' = "loaded" => file' = file)
        /\ (stage' = "patterns" => file' = file + 1 /\ file < Len(directory))
    BY DEF FinishFile
  <1>10. file' <= Len(directory')
    BY <1>3, <1>4, <1>9
  <1>11. directory' # <<>>
    BY <1>3, <1>4
  <1>12. stage' = "patterns" => at' - 1 <= Len(File'.patterns) /\ IsRead(File, at - 1)'
    <2> SUFFICES ASSUME stage' = "patterns" PROVE at' - 1 <= Len(File'.patterns) /\ IsRead(File, at - 1)'
      OBVIOUS
    <2>1. File' \in Range(directory)
      <3>1. file' \in DOMAIN directory
        BY <1>4, <1>9, DirectoriesAssumption DEF IsList
      <3> QED BY <1>3, <3>1 DEF File, Range
    <2>2. Len(File'.patterns) \in Nat
      BY <1>4, <2>1, DirectoriesAssumption DEF IsList
    <2>3. PICK g : g = File'
      OBVIOUS
    <2>4. IsRead(g, 0)'
      <3>1. Range(described') = {} /\ DOMAIN described' = {}
        BY <1>3 DEF Range
      <3>2. IsList(described)' /\ OneEach(described)'
        BY <1>3, <3>1 DEF IsList, OneEach
      <3> QED BY <3>1, <3>2 DEF IsRead
    <2>5. at' - 1 = 0
      BY <1>3
    <2> QED BY <2>2, <2>3, <2>4, <2>5
  <1> QED BY <1>3, <1>8, <1>9, <1>10, <1>11, <1>12 DEF FilesInv

LEMMA FilesStay == FilesInv /\ UNCHANGED <<reading, command>> => FilesInv'
  <1> SUFFICES ASSUME FilesInv, UNCHANGED <<reading, command>> PROVE FilesInv'
    OBVIOUS
  <1>1. UNCHANGED <<directory, stage, file, at, described, objects, built, rules, command>>
    BY DEF reading
  <1>2. PICK f : f = File /\ f = File'
    BY <1>1 DEF File
  <1>3. ASSUME NEW n, IsRead(f, n) PROVE IsRead(f, n)'
    BY <1>1, <1>3 DEF IsRead, IsList, OneEach
  <1>4. ASSUME IsBuilding(f) PROVE IsBuilding(f)'
    <2>1. \A d : (IsBuilt(d)' <=> IsBuilt(d)) /\ Pattern(d)' = Pattern(d)
      BY <1>1, <1>2 DEF IsBuilt, Pattern, Asserts
    <2>2. IsRead(f, Len(f.patterns))'
      BY <1>3, <1>4 DEF IsBuilding
    <2> QED BY <1>1, <1>2, <1>4, <2>1, <2>2 DEF IsBuilding
  <1>5. stage' = "patterns" /\ file' <= Len(directory') =>
          at' - 1 <= Len(File'.patterns) /\ IsRead(File, at - 1)' /\ built' = {} /\ objects' = {}
    <2> SUFFICES ASSUME stage' = "patterns" /\ file' <= Len(directory')
                 PROVE  at' - 1 <= Len(File'.patterns) /\ IsRead(File, at - 1)' /\ built' = {} /\ objects' = {}
      OBVIOUS
    <2>1. PICK n : n = at - 1 /\ n = at' - 1
      BY <1>1
    <2>2. n <= Len(f.patterns) /\ IsRead(f, n) /\ built = {} /\ objects = {}
      BY <1>1, <1>2, <2>1 DEF FilesInv
    <2>3. IsRead(f, n)'
      BY <1>3, <2>2
    <2> QED BY <1>1, <1>2, <2>1, <2>2, <2>3
  <1>6. stage' = "build" => HasItsKeys(File') /\ IsBuilding(File)'
    <2> SUFFICES ASSUME stage' = "build" PROVE HasItsKeys(File') /\ IsBuilding(File)'
      OBVIOUS
    <2>1. HasItsKeys(f) /\ IsBuilding(f)
      BY <1>1, <1>2 DEF FilesInv
    <2> QED BY <1>2, <1>4, <2>1
  <1>7. /\ \A k \in 1..Len(rules) : WellFormed(directory[k]) /\ Means(directory[k], rules[k].patterns)
        /\ directory # <<>> => file <= Len(directory)
        /\ stage = "loaded" => directory # <<>>
        /\ stage \in {"refused", "aborted"} /\ command # {} =>
             directory = <<>> \/ \E i \in DOMAIN directory : ~WellFormed(directory[i])
    BY DEF FilesInv
  <1> QED BY <1>1, <1>5, <1>6, <1>7 DEF FilesInv

\* Stopping for another reason than a file of the directory.
LEMMA StopsWithout ==
  ASSUME FilesInv, NEW outcome \in {"refused", "aborted"}, Stop(outcome), UNCHANGED command,
         directory = <<>> \/ command = {}
  PROVE  FilesInv'
  <1>1. /\ stage' = outcome /\ directory' = directory /\ file' = file /\ rules' = rules
    BY DEF Stop
  <1>2. \A k \in 1..Len(rules) : WellFormed(directory[k]) /\ Means(directory[k], rules[k].patterns)
    BY DEF FilesInv
  <1>3. directory # <<>> => file <= Len(directory)
    BY DEF FilesInv
  <1>4. stage' \notin {"patterns", "build", "loaded"}
    BY <1>1
  <1> QED BY <1>1, <1>2, <1>3, <1>4 DEF FilesInv

LEMMA ReadKeeps == ReadingInv /\ FilesInv /\ Read /\ UNCHANGED command => FilesInv'
  <1> SUFFICES ASSUME ReadingInv, FilesInv, Read, UNCHANGED command PROVE FilesInv'
    OBVIOUS
  <1>1. CASE AbortOnKey
    <2>1. Stop("aborted") /\ InFile
      BY <1>1 DEF AbortOnKey, InPatterns
    <2>2. ~WellFormed(File)
      <3>1. CASE LacksAHeader
        BY <3>1 DEF LacksAHeader, WellFormed, HasItsKeys
      <3>2. CASE InPatterns /\ LacksAKey(Entry)
        BY <3>2, StopsAtPattern DEF CanBeRead
      <3>3. CASE InPatterns /\ \E i \in DOMAIN Entry.properties : Lacks(Entry.properties[i])
        BY <3>3, StopsAtPattern DEF CanBeRead
      <3>4. CASE LacksAnAnchor
        BY <3>4 DEF LacksAnAnchor, WellFormed, HasItsKeys
      <3> QED BY <1>1, <3>1, <3>2, <3>3, <3>4 DEF AbortOnKey
    <2> QED BY <2>1, <2>2, StopsAtFile DEF InFile
  <1>2. CASE RefusePattern
    <2>1. Stop("refused") /\ InPatterns
      BY <1>2 DEF RefusePattern
    <2>2. ~CanBeRead(Entry)
      BY <1>2 DEF RefusePattern, CanBeRead
    <2> QED BY <2>1, <2>2, StopsAtPattern, StopsAtFile DEF InPatterns, InFile
  <1>3. CASE ReadPattern
    BY <1>3, ReadPatternKeeps
  <1>4. CASE EndPatterns
    BY <1>4, EndPatternsKeeps
  <1>5. CASE RefuseBuild
    <2>1. PICK d : IsNext(d) /\ (NoAnchor(d) \/ BadToken(d) \/ BadProperty(d) \/ BadMatchType(d))
      BY <1>5 DEF RefuseBuild
    <2>2. stage = "build" /\ Stop("refused") /\ file <= Len(directory)
      BY <1>5 DEF RefuseBuild, ReadingInv
    <2> QED BY <2>1, <2>2, StopsAtBuild, StopsAtFile
  <1>6. CASE BuildPattern
    BY <1>6, BuildPatternKeeps
  <1>7. CASE RefuseDirectory
    <2>1. file > Len(directory) /\ Stop("refused")
      BY <1>7 DEF RefuseDirectory
    <2>2. directory = <<>>
      <3>1. file \in Nat /\ Len(directory) \in Nat
        BY DirectoriesAssumption DEF ReadingInv, ReadingTypeOK, IsList
      <3>2. ~(file <= Len(directory))
        BY <2>1, <3>1
      <3> QED BY <3>2 DEF FilesInv
    <2> QED BY <2>1, <2>2, StopsWithout
  <1>8. CASE FinishFile
    BY <1>8, FinishFileKeeps
  <1> QED BY <1>1, <1>2, <1>3, <1>4, <1>5, <1>6, <1>7, <1>8 DEF Read

LEMMA FilesStep == ReadingInv /\ FilesInv /\ [ParserNext]_allVars => FilesInv'
  <1> SUFFICES ASSUME ReadingInv, FilesInv, [ParserNext]_allVars PROVE FilesInv'
    OBVIOUS
  <1>1. CASE UNCHANGED <<reading, command>>
    BY <1>1, FilesStay
  <1>2. CASE RefuseCommand
    BY <1>2, StopsWithout DEF RefuseCommand, parser
  <1>3. CASE ReadRules
    BY <1>3, ReadKeeps DEF ReadRules, parser
  <1> QED BY <1>1, <1>2, <1>3 DEF ParserNext, allVars, parser, TakeExample, TakeMessage, Match,
             MatchAgain, AcceptExample, Reject, FinishMessage

\* What FilesInv says of the rules that are loaded makes them those of the matching.
LEMMA LoadedRulesAgree ==
  ASSUME ReadingInv, FilesInv, stage = "loaded"
  PROVE  (\A i \in DOMAIN directory : WellFormed(directory[i])) /\ RulesAgree
  <1>1. directory \in Directories /\ directory # <<>> /\ Len(rules) = Len(directory)
    BY DEF ReadingInv, ReadingTypeOK, FilesInv
  <1>2. DOMAIN directory = 1..Len(directory) /\ Len(directory) \in Nat
    BY <1>1, DirectoriesAssumption DEF IsList
  <1>3. \A i \in DOMAIN directory : WellFormed(directory[i]) /\ Means(directory[i], rules[i].patterns)
    BY <1>1, <1>2 DEF FilesInv
  <1>4. /\ Len(directory) = NumRules
        /\ \A r \in Rules :
             /\ PatternsOf[r] = {directory[r].patterns[i].id : i \in Firsts(directory[r])}
             /\ \A i \in Firsts(directory[r]) : Describes(directory[r], i, directory[r].patterns[i].id)
    BY <1>1, <1>3, RulesOfFilesAssumption
  <1>5. Rules = DOMAIN directory
    BY <1>2, <1>4 DEF Rules
  <1>6. ASSUME NEW r \in Rules, NEW p \in rules[r].patterns
        PROVE  /\ p.tokens = TokensOf[p.id] /\ p.anchor = AnchorsOf[p.id]
               /\ p.precedence = Precedence[p.id] /\ p.match = MatchType[p.id]
               /\ p.asserts = {[token |-> t, value |-> AssertOf[p.id][t]] :
                                 t \in {t \in Range(p.tokens) : AssertOf[p.id][t] # NoAssert}}
               /\ UNION {Range(pr.reads) : pr \in Range(p.properties)} = ReadsOf[p.id]
    <2>1. PICK f : f = directory[r]
      OBVIOUS
    <2>2. PICK i \in Firsts(f) : IsPatternOf(f, i, p)
      BY <1>3, <1>5, <2>1 DEF Means
    <2>3. Describes(f, i, p.id)
      <3>1. Describes(f, i, f.patterns[i].id) /\ f.patterns[i].id = p.id
        BY <1>4, <2>1, <2>2 DEF IsPatternOf
      <3> QED BY <3>1
    <2> QED BY <2>2, <2>3 DEF Describes, IsPatternOf
  <1>7. \A r \in Rules : {p.id : p \in rules[r].patterns} = PatternsOf[r]
    BY <1>3, <1>4, <1>5 DEF Means
  <1> QED BY <1>1, <1>3, <1>4, <1>6, <1>7 DEF RulesAgree

\* The program stops at a rules directory exactly if one of its files is not well
\* formed, whichever error it meets first, and the rules it loads are what the
\* files describe: inherited tokens and properties in their order, the root's
\* anchor, no one else's assertions, and the first of several with one id.
THEOREM RulesAreRead == ParserSpec => []FilesMeanTheirRules
  <1> DEFINE Inv == ReadingInv /\ FilesInv
  <1>1. ParserInit => Inv
    BY InitRead, InitFiles
  <1>2. Inv /\ [ParserNext]_allVars => Inv'
    <2> SUFFICES ASSUME ReadingInv, FilesInv, [ParserNext]_allVars PROVE Inv'
      OBVIOUS
    <2>1. FilesInv'
      BY FilesStep
    <2>2. ReadingInv'
      <3>1. CASE UNCHANGED reading
        BY <3>1 DEF reading, ReadingInv, ReadingTypeOK
      <3>2. CASE Read
        BY <3>2, ReadStep
      <3>3. CASE RefuseCommand
        BY <3>3 DEF RefuseCommand, Stop, ReadingInv, ReadingTypeOK
      <3> QED BY <3>1, <3>2, <3>3 DEF ParserNext, allVars, ReadRules, TakeExample, TakeMessage, Match,
             MatchAgain, AcceptExample, Reject, FinishMessage
    <2> QED BY <2>1, <2>2
  <1>3. Inv => FilesMeanTheirRules
    <2> SUFFICES ASSUME ReadingInv, FilesInv PROVE FilesMeanTheirRules
      OBVIOUS
    <2>1. stage = "loaded" => (\A i \in DOMAIN directory : WellFormed(directory[i])) /\ RulesAgree
      BY LoadedRulesAgree
    <2>2. stage \in {"refused", "aborted"} /\ command # {} =>
            directory = <<>> \/ \E i \in DOMAIN directory : ~WellFormed(directory[i])
      BY DEF FilesInv
    <2> QED BY <2>1, <2>2 DEF FilesMeanTheirRules
  <1> QED BY <1>1, <1>2, <1>3, PTL DEF ParserSpec

---------------------------------------------------------------------------
(* Accepted examples                                                           *)

\* An example that was accepted holds for the running program: its rules are those
\* of the files, and a rule runs the same way whenever it meets a message, whatever
\* its tokens still hold (Rule::match, RuleValidation::validate_examples).
THEOREM ExamplesHold == ParserSpec => []ExamplesStayTrue
  <1> DEFINE Inv == /\ TypeOK /\ ReadingInv /\ CountInv
                    /\ Running /\ Validating
                    /\ ListsInv /\ OrderInv /\ LoadedInv
  <1>1. ParserInit => Inv
    <2> SUFFICES ASSUME ParserInit PROVE Inv OBVIOUS
    <2>1. TypeOK /\ OrderInv
      BY InitTypeOK, InitOrder DEF ParserInit
    <2>2. ReadingInv /\ CountInv
      BY InitRead
    <2>3. ListsInv
      <3>1. described \in Seq({}) /\ Len(rules) = 0
        BY DEF ParserInit, ReadInit
      <3> QED BY <3>1 DEF ParserInit, ReadInit, ListsInv, IsLists
    <2>4. LoadedInv
      BY DEF ParserInit, ReadInit, LoadedInv, IsLoaded
    <2> QED BY <2>1, <2>2, <2>3, <2>4, InitRunning
  <1>2. Inv /\ FilesMeanTheirRules' /\ [ParserNext]_allVars => Inv'
    <2> SUFFICES ASSUME Inv, FilesMeanTheirRules', [ParserNext]_allVars PROVE Inv' OBVIOUS
    <2>1. TypeOK' /\ OrderInv'
      BY NextTypeOK, OrderStays, ParserStep
    <2>2. CountInv' /\ LoadedInv'
      BY CountStep, LoadedStep
    <2>3. Running'
      BY RunningStep, ParserStep
    <2>4. Validating'
      BY ValidatingStep
    <2>5. ReadingInv' /\ ListsInv'
      <3>1. CASE ReadRules
        BY <3>1, ReadStep, ListsStep DEF ReadRules
      <3>2. CASE RefuseCommand
        BY <3>2 DEF RefuseCommand, Stop, ReadingInv, ReadingTypeOK, ListsInv
      <3>3. CASE UNCHANGED reading
        BY <3>3 DEF reading, ReadingInv, ReadingTypeOK, ListsInv
      <3> QED
        BY <3>1, <3>2, <3>3 DEF ParserNext, TakeExample, TakeMessage, Match, MatchAgain,
           AcceptExample, Reject, FinishMessage, allVars
    <2> QED BY <2>1, <2>2, <2>3, <2>4, <2>5
  <1>3. Inv => ExamplesStayTrue
    BY TrueExamples
  <1> QED BY <1>1, <1>2, <1>3, RulesAreRead, PTL DEF ParserSpec

=============================================================================
