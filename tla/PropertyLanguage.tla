-------------------------- MODULE PropertyLanguage --------------------------
(* DynamicPropertyEngine::evaluate: the expressions of a ruleset, one after the
   other, against the tokens of a parsed section.

   An expression is read by a flex scanner and a bison parser that are checked
   in as generated sources.  Their tables are part of the program, so that they
   are here as they are there: the scanner is a run of its automaton, the
   parser a stack of states.  A parsed expression is compiled, which looks up
   every identifier, and then evaluated; whatever it throws is one error, and
   the next expression is tried.

   A text is a sequence of characters, written as strings of length one.      *)
EXTENDS PropertyGrammar

CONSTANTS Inputs,     \* pairs: expressions (texts), and what was parsed
          Alphabet,   \* the characters, in the order of their codes
          IntMax,     \* the largest int
          Garbage     \* what an int that was never written may hold

LanguageAssumption ==
  /\ IntMax \in Nat \ {0}
  /\ Garbage # {} /\ Garbage \subseteq (-IntMax - 1)..IntMax
ASSUME LanguageAssumption

VARIABLES expressions, \* the texts to evaluate
          result,      \* ParseResult: tokens, properties, metadata
          next,        \* the number of the expression in hand
          phase,       \* "parse", "compile", "evaluate", "done" or "killed"
          position,    \* how much of the expression is scanned
          yyla,        \* the lookahead: a sequence of at most one symbol
          yystack,     \* the parser's stack, top first
          properties,  \* what the expressions have assigned: name -> text
          errors       \* per failed expression, why

parser == <<position, yyla, yystack>>
vars == <<expressions, result, next, phase, parser, properties, errors>>

text == expressions[next]

-----------------------------------------------------------------------------
(* The scanner.  Tables are indexed from 0, as in the source.                *)

yy_accept ==
  << 0,  0,  0, 26, 24,  1,  1, 24, 24, 19, 20, 17, 15, 16, 18, 22,
    12, 14, 13, 24, 23, 23, 23, 23, 23, 23,  1,  8,  0, 21,  0, 22,
     9,  7, 10, 11, 23, 23, 23,  2,  6, 23,  5, 23, 23,  4,  3,  0>>

\* The class of a character; those the table does not name are of class 1.
yy_ec(c) ==
  CASE c \in {" ", "\t", "\r"} -> 2 [] c = "\n" -> 3
    [] c \in {"0", "1", "2", "3", "4", "5", "6", "7", "8", "9"} -> 13
    [] c \in {"$", "."} -> 6
    [] c = "!" -> 4 [] c = "\"" -> 5 [] c = "(" -> 7 [] c = ")" -> 8 [] c = "*" -> 9
    [] c = "+" -> 10 [] c = "-" -> 11 [] c = "/" -> 12 [] c = "<" -> 14 [] c = "=" -> 15
    [] c = ">" -> 16 [] c = "?" -> 17 [] c = "\\" -> 19 [] c = "a" -> 20 [] c = "d" -> 21
    [] c = "e" -> 22 [] c = "f" -> 23 [] c = "h" -> 24 [] c = "i" -> 25 [] c = "l" -> 26
    [] c = "n" -> 27 [] c = "o" -> 28 [] c = "r" -> 29 [] c = "s" -> 30 [] c = "t" -> 31
    [] c \in {"b", "c", "g", "j", "k", "m", "p", "q", "u", "v", "w", "x", "y", "z", "_"} \cup
             {"A", "B", "C", "D", "E", "F", "G", "H", "I", "J", "K", "L", "M",
              "N", "O", "P", "Q", "R", "S", "T", "U", "V", "W", "X", "Y", "Z"} -> 18
    [] OTHER -> 1

yy_meta ==
  <<0, 1, 1, 1, 1, 1, 2, 1, 1, 1, 1, 1, 1, 2, 1, 1, 1, 1, 2, 1, 2, 2, 2, 2, 2, 2, 2, 2, 2, 2, 2, 2>>

yy_base ==
  << 0,  0,  0, 63, 64, 30, 32, 47, 31, 64, 64, 64, 64, 64, 64, 48, 45,
    44, 43, 42,  0, 29, 26, 28, 20, 24, 35, 64, 34, 64, 44, 33, 64, 64,
    64, 64,  0, 24, 14,  0,  0, 21,  0, 20, 14,  0,  0, 64, 53, 38>>

yy_def ==
  << 0, 47,  1, 47, 47, 47, 47, 47, 48, 47, 47, 47, 47, 47, 47, 47, 47,
    47, 47, 47, 49, 49, 49, 49, 49, 49, 47, 47, 48, 47, 48, 47, 47, 47,
    47, 47, 49, 49, 49, 49, 49, 49, 49, 49, 49, 49, 49,  0, 47, 47>>

yy_nxt ==
  << 0,  4,  5,  6,  7,  8,  4,  9, 10, 11, 12, 13, 14, 15, 16, 17, 18, 19, 20,  4, 21, 20,
    22, 20, 20, 23, 20, 20, 24, 20, 20, 25, 26, 26, 26, 26, 29, 26, 26, 29, 36, 46, 45, 44,
    43, 42, 31, 47, 41, 40, 30, 39, 38, 30, 28, 28, 37, 35, 34, 33, 32, 31, 27, 47,  3>>
  \o [k \in 1..31 |-> 47]

yy_chk ==
  << 0,  1,  1,  1,  1,  1,  1,  1,  1,  1,  1,  1,  1,  1,  1,  1,  1,  1,  1,  1,  1,  1,
     1,  1,  1,  1,  1,  1,  1,  1,  1,  1,  5,  5,  6,  6,  8, 26, 26, 28, 49, 44, 43, 41,
    38, 37, 31, 30, 25, 24,  8, 23, 22, 28, 48, 48, 21, 19, 18, 17, 16, 15,  7,  3>>
  \o [k \in 1..32 |-> 47]

\* Mutant: the class is kept when a template takes over.
RECURSIVE StepWithoutMeta(_, _)
StepWithoutMeta(state, class) ==
  IF yy_chk[yy_base[state + 1] + class + 1] = state
  THEN yy_nxt[yy_base[state + 1] + class + 1]
  ELSE StepWithoutMeta(yy_def[state + 1], IF yy_def[state + 1] >= 49 THEN 1 ELSE class)

\* The automaton's step: a state that has no entry of its own for the class
\* takes that of its default state.
RECURSIVE Step(_, _)
Step(state, class) ==
  IF yy_chk[yy_base[state + 1] + class + 1] = state
  THEN yy_nxt[yy_base[state + 1] + class + 1]
  ELSE Step(yy_def[state + 1],
            IF yy_def[state + 1] >= 48 THEN yy_meta[class + 1] ELSE class)

\* The run from a state at an offset, with the last accepting state and where
\* it was left.  State 47 is the end of every run.
RECURSIVE Run(_, _, _)
Run(state, at, last) ==
  LET best == IF yy_accept[state + 1] # 0 THEN [rule |-> yy_accept[state + 1], to |-> at]
              ELSE last
      after == IF at = Len(text) THEN 47 ELSE Step(state, yy_ec(text[at + 1]))
  IN IF after = 47 THEN best ELSE Run(after, at + 1, best)

MatchFrom(at) == Run(1, at, [rule |-> 0, to |-> at])
Match == MatchFrom(position)

Upper == Digits \o <<"A", "B", "C", "D", "E", "F">>
Lower == Digits \o <<"a", "b", "c", "d", "e", "f">>

IsDigit(c, base) == \E d \in 1..base : c \in {Upper[d], Lower[d]}
DigitOf(c) == (CHOOSE d \in 1..16 : c \in {Upper[d], Lower[d]}) - 1

\* What a sequence of digits means in a base; anything beyond IntMax is beyond.
RECURSIVE Numeral(_, _)
Numeral(digits, base) ==
  IF digits = <<>> THEN 0
  ELSE Numeral(SubSeq(digits, 1, Len(digits) - 1), base) * base + DigitOf(digits[Len(digits)])

\* unescape_string, of the text between the quotes.
RECURSIVE Unescaped(_)
Unescaped(s) ==
  IF s = <<>> THEN <<>>
  ELSE IF s[1] = "\\" /\ Len(s) > 1
  THEN <<IF s[2] = "n" THEN "\n" ELSE IF s[2] = "t" THEN "\t" ELSE s[2]>>
       \o Unescaped(SubSeq(s, 3, Len(s)))
  ELSE <<s[1]>> \o Unescaped(Tail(s))

\* The bison numbers of the scanner's rules 2 to 23.
Kinds == <<0, 3, 4, 5, 6, 7, 8, 9, 11, 13, 14, 10, 12, 15, 16, 17, 18, 19, 20, 21, 23, 24, 22>>
Symbol(rule, lexeme) ==
  [kind |-> Kinds[rule],
   value |-> CASE Kinds[rule] = String -> Unescaped(SubSeq(lexeme, 2, Len(lexeme) - 1))
               [] Kinds[rule] = Number -> Numeral(lexeme, 10)
               [] Kinds[rule] = Ident  -> lexeme
               [] OTHER -> Kinds[rule]]

-----------------------------------------------------------------------------
(* The parser.                                                               *)

yypact ==
  <<5, 14, 13, 14, -8, -8, -8, 11, 24, 40, -8, 16, 26, -8, -8, 33, -7, 18, 14, 14,
    19, 19, 19, 19, 19, 19, 19, 19, 19, 19, 19, -8, -8, 44, 43, -8, 40, -8, 19, 34,
    34, 34, 34, 34, 34, 34, 26, 26, -8, -8, 19, 18, 18, -8, -5, 34, 49, -8>>
yypact_ninf == -8

yydefact ==
  <<0, 0, 0, 0, 27, 28, 29, 0, 8, 9, 11, 0, 21, 24, 1, 0, 0, 0, 0, 0,
    0, 0, 0, 0, 0, 0, 0, 0, 0, 0, 0, 13, 30, 0, 3, 5, 10, 12, 0, 14,
    15, 16, 17, 18, 19, 20, 22, 23, 25, 26, 0, 0, 0, 2, 0, 7, 4, 6>>

yypgoto == <<-8, -8, -8, 7, 8, 58, -8, 45, 46, -3, 25, 27>>
yydefgoto == <<-1, 2, 53, 34, 35, 7, 8, 9, 10, 11, 12, 13>>

yytable ==
  <<16, 20, 21, 22, 23, 24, 25, 26, 1, 27, 28, 27, 28, 14, 32, 17, 32, 39, 40, 41,
    42, 43, 44, 45, 20, 21, 22, 23, 24, 25, 26, 18, 27, 28, 3, 54, 4, 5, 6, 38,
    33, 4, 5, 6, 29, 30, 19, 55, 51, 52, 27, 28, 46, 47, 31, 52, 48, 49, 56, 50,
    57, 15, 0, 36, 0, 37>>

yycheck ==
  <<3, 8, 9, 10, 11, 12, 13, 14, 3, 16, 17, 16, 17, 0, 21, 4, 21, 20, 21, 22,
    23, 24, 25, 26, 8, 9, 10, 11, 12, 13, 14, 7, 16, 17, 20, 38, 22, 23, 24, 20,
    22, 22, 23, 24, 18, 19, 6, 50, 5, 6, 16, 17, 27, 28, 21, 6, 29, 30, 51, 15,
    52, 3, -1, 18, -1, 19>>
yylast == 65
yyfinal == 14
yyntokens == 25

yyr1 == <<0, 25, 26, 27, 27, 28, 28, 29, 30, 31, 31, 32, 32, 33, 33, 33, 33, 33, 33, 33, 33,
          34, 34, 34, 35, 35, 35, 36, 36, 36, 36>>
yyr2 == <<0, 2, 5, 0, 2, 1, 3, 3, 1, 1, 3, 1, 3, 3, 3, 3, 3, 3, 3, 3, 3,
          1, 3, 3, 1, 3, 3, 1, 1, 1, 3>>

state == yystack[1].state

\* Where a nonterminal leads from a state below it.
yy_lr_goto_state(below, symbol) ==
  LET yyr == yypgoto[symbol - yyntokens + 1] + below
  IN IF yyr \in 0..yylast /\ yycheck[yyr + 1] = below THEN yytable[yyr + 1]
     ELSE yydefgoto[symbol - yyntokens + 1]

\* What the tables say of the lookahead: an entry of yytable, a state or the
\* negated number of a rule, or the default, which is the number of no rule.
Default == -31
Lookup ==
  LET yyn == yypact[state + 1] + yyla[1].kind
  IN IF yyn \in 0..yylast /\ yycheck[yyn + 1] = yyla[1].kind THEN yytable[yyn + 1]
     ELSE Default

\* Mutant: the operands change places.
NodeSwapped(op, lhs, rhs) == [op |-> op, lhs |-> rhs, rhs |-> lhs]

\* A comparison, a conjunction or an arithmetic operation, by its operator.
Node(op, lhs, rhs) == [op |-> op, lhs |-> lhs, rhs |-> rhs]

\* The semantic action of a rule on the values of its right-hand side.
Built(rule, v) ==
  CASE rule = 2 -> [condition |-> v[2], then |-> v[4], else |-> v[5]]
    [] rule = 3 -> <<>>
    [] rule = 5 -> <<v[1]>>
    [] rule = 6 -> Append(v[1], v[3])
    [] rule = 7 -> [target |-> v[1], expr |-> v[3]]
    [] rule \in {10, 12, 22, 23, 25, 26} \cup 14..20 -> Node(v[2], v[1], v[3])
    [] rule \in {4, 13, 30} -> v[2]
    [] rule = 27 -> [ident |-> v[1]]
    [] rule = 28 -> [string |-> v[1]]
    [] rule = 29 -> [number |-> v[1]]
    [] OTHER -> v[1]

Push(symbolState, value, stack) == <<[state |-> symbolState, value |-> value]>> \o stack

Bottom == Push(0, <<>>, <<>>)

\* Mutant: the scanner goes on where it stood in the expression before.
StartParserInPlace(n) ==
  /\ next' = n /\ phase' = IF n > Len(expressions) THEN "done" ELSE "parse"
  /\ yyla' = <<>> /\ yystack' = Bottom
  /\ UNCHANGED position

\* The parser of the expression with a number; the last one ends the loop.
StartParser(n) ==
  /\ next' = n /\ phase' = IF n > Len(expressions) THEN "done" ELSE "parse"
  /\ position' = 0 /\ yyla' = <<>> /\ yystack' = Bottom

Init ==
  /\ \E input \in Inputs : expressions = input.expressions /\ result = input.result
  /\ next = 1 /\ phase = IF expressions = <<>> THEN "done" ELSE "parse"
  /\ position = 0 /\ yyla = <<>> /\ yystack = Bottom
  /\ properties = <<>> /\ errors = <<>>

\* The catch in evaluate: the expression is an error, and the next one's turn.
Fail(why) ==
  /\ errors' = Append(errors, [expression |-> next, why |-> why])
  /\ StartParser(next + 1)
  /\ UNCHANGED <<expressions, result, properties>>

Parsing == phase = "parse" /\ state # yyfinal
NeedsSymbol == Parsing /\ yypact[state + 1] # yypact_ninf /\ yyla = <<>>

ScanSpace ==
  /\ NeedsSymbol /\ position < Len(text) /\ Match.rule = 1
  /\ position' = Match.to
  /\ UNCHANGED <<expressions, result, next, phase, yyla, yystack, properties, errors>>

ScanSymbol ==
  /\ NeedsSymbol /\ position < Len(text) /\ Match.rule \in 2..23
  /\ LET symbol == Symbol(Match.rule, SubSeq(text, position + 1, Match.to)) IN
       IF symbol.kind = Number /\ symbol.value > IntMax THEN Fail("range")
       ELSE /\ yyla' = <<symbol>> /\ position' = Match.to
            /\ UNCHANGED <<expressions, result, next, phase, yystack, properties, errors>>

ScanEnd ==
  /\ NeedsSymbol /\ position = Len(text)
  /\ yyla' = <<[kind |-> 0, value |-> 0]>>
  /\ UNCHANGED <<expressions, result, next, phase, position, yystack, properties, errors>>

\* No state shifts the error token, so that the first error empties the stack.
ScanError ==
  /\ NeedsSymbol /\ position < Len(text) /\ Match.rule = 24
  /\ Fail("character")

Decides == Parsing /\ (yypact[state + 1] = yypact_ninf \/ yyla # <<>>)
Decision == IF yypact[state + 1] = yypact_ninf THEN Default ELSE Lookup

Shift ==
  /\ Decides /\ Decision > 0
  /\ yystack' = Push(Decision, yyla[1].value, yystack) /\ yyla' = <<>>
  /\ UNCHANGED <<expressions, result, next, phase, position, properties, errors>>

Rule == IF Decision = Default THEN yydefact[state + 1] ELSE -Decision

Reduce ==
  /\ Decides /\ Decision <= 0 /\ Rule # 0
  /\ LET yylen == yyr2[Rule + 1]
         below == SubSeq(yystack, yylen + 1, Len(yystack))
         values == [k \in 1..yylen |-> yystack[yylen + 1 - k].value]
     IN yystack' = Push(yy_lr_goto_state(below[1].state, yyr1[Rule + 1]),
                        Built(Rule, values), below)
  /\ UNCHANGED <<expressions, result, next, phase, position, yyla, properties, errors>>

Refuses == Decides /\ Decision <= 0 /\ Rule = 0
SyntaxError == Refuses /\ Fail("syntax")

Accept ==
  /\ phase = "parse" /\ state = yyfinal
  /\ phase' = "compile"
  /\ UNCHANGED <<expressions, result, next, parser, properties, errors>>

-----------------------------------------------------------------------------
(* Values                                                                    *)

Min(a, b) == IF a < b THEN a ELSE b

\* An int of IntMax values: what does not fit is cut off.
Wrapped(n) == ((n + IntMax + 1) % (2 * IntMax + 2)) - (IntMax + 1)

\* bind_token: a text of digits is an int, any other a string; the pattern of a
\* string stops at a newline and then captures nothing.
TokenValue(s) ==
  [type |-> IF IsDigits(s) THEN "int" ELSE "string", token |-> TRUE, int |-> -1,
   text |-> IF \E k \in DOMAIN s : s[k] = "\n" THEN <<>> ELSE s]
StringValue(s) == [type |-> "string", token |-> FALSE, int |-> 0, text |-> s]
IntValue(n) == [type |-> "int", token |-> FALSE, int |-> Wrapped(n), text |-> <<>>]

\* BaseValue(): its int is not written.
NoneValue(garbage) == [type |-> "none", token |-> FALSE, int |-> garbage, text |-> <<>>]

\* Numbers::is_number, where it is defined.  After a leading 0 stands an x, a b
\* or a character that is passed over unread; in the rest an 8 or 9 makes an
\* octal number a decimal one and is no reason to refuse a binary one.
Base(s) ==
  LET prefix == IF s = <<>> \/ s[1] # "0" THEN 10
                ELSE IF s[2] \in {"x", "X"} THEN 16
                ELSE IF s[2] \in {"b", "B"} THEN 2 ELSE 8
      rest == IF prefix = 10 THEN s ELSE SubSeq(s, 3, Len(s))
      Passes(c) == CASE prefix = 16 -> IsDigit(c, 16)
                     [] prefix = 2  -> c \in {"0", "1", "8", "9"}
                     [] OTHER       -> IsDigit(c, 10)
  IN IF \E k \in DOMAIN rest : ~Passes(rest[k]) THEN 0
     ELSE IF prefix = 8 /\ \E k \in DOMAIN rest : rest[k] \in {"8", "9"} THEN 10 ELSE prefix

\* The answers is_number may give.  What it passes over in "0" is the end of the
\* text: it reads on in memory that was never written.
Bases(s) == IF s = <<"0">> THEN {0, 8, 10} ELSE {Base(s)}

\* Numbers::to_int reads as many digits as there are in the base: "08" and "0z" are 0.
Read(s, base) ==
  LET figures == IF base \in {2, 16} THEN SubSeq(s, 3, Len(s)) ELSE s
      lengths == {n \in 0..Len(figures) : \A k \in 1..n : IsDigit(figures[k], base)}
  IN Wrapped(Numeral(SubSeq(figures, 1, Largest(lengths)), base))

\* as_int throws when the answer is 0; the other answers read the same int.
MayThrow(v) == v.token /\ 0 \in Bases(v.text)
HasInt(v) == v.token => Bases(v.text) # {0}
AsInt(v) == IF v.token THEN Read(v.text, CHOOSE base \in Bases(v.text) : base # 0) ELSE v.int

RECURSIVE Decimal(_)
Decimal(n) ==
  IF n < 0 THEN <<"-">> \o Decimal(-n)
  ELSE IF n < 10 THEN <<Digits[n + 1]>> ELSE Append(Decimal(n \div 10), Digits[(n % 10) + 1])

AsString(v) == IF v.type = "int" /\ ~v.token THEN Decimal(v.int) ELSE v.text

CodeOf(c) == CHOOSE k \in DOMAIN Alphabet : Alphabet[k] = c
TextLess(s, t) ==
  \E n \in 0..Min(Len(s), Len(t)) :
    /\ SubSeq(s, 1, n) = SubSeq(t, 1, n)
    /\ n < Len(t) /\ (n = Len(s) \/ CodeOf(s[n + 1]) < CodeOf(t[n + 1]))

Equal(v, w) ==
  /\ v.type = w.type /\ v.type # "none"
  /\ IF v.type = "int" THEN AsInt(v) = AsInt(w) ELSE AsString(v) = AsString(w)

Less(v, w) ==
  /\ v.type = w.type
  /\ IF v.type = "int" THEN AsInt(v) < AsInt(w) ELSE TextLess(AsString(v), AsString(w))

Contains(v, w) ==
  /\ v.type = "string" /\ w.type = "string"
  /\ \E k \in 0..(Len(v.text) - Len(w.text)) : SubSeq(v.text, k + 1, k + Len(w.text)) = w.text

\* The comparison operators, by their bison numbers.
Compare(op, v, w) ==
  CASE op = 8  -> Equal(v, w)
    [] op = 9  -> ~Equal(v, w)
    [] op = 10 -> Less(v, w)
    [] op = 11 -> ~Less(w, v)
    [] op = 12 -> Less(w, v)
    [] op = 13 -> ~Less(v, w)
    [] op = 14 -> Contains(v, w)

\* A quotient is cut off towards zero.
Quotient(n, d) ==
  LET Abs(x) == IF x < 0 THEN -x ELSE x
      q == Abs(n) \div Abs(d)
  IN IF (n < 0) = (d < 0) THEN q ELSE -q

\* An exception, or the signal of a division that the processor refuses.
Failure(why) == [type |-> why, token |-> FALSE, int |-> 0, text |-> <<>>]
Fails(v) == v.type \in {"throws", "killed"}

\* Both operands are read before an operator is applied to their ints: what
\* comes of it when one of them may throw.
Thrown(v, w) == IF MayThrow(v) \/ MayThrow(w) THEN {Failure("throws")} ELSE {}
HaveInts(v, w) == HasInt(v) /\ HasInt(w)

\* The operators on two ints.
Calculated(op, n, d) ==
  IF op = 19 /\ (d = 0 \/ (d = -1 /\ n = -IntMax - 1)) THEN Failure("killed")
  ELSE IntValue(CASE op = 16 -> n + d [] op = 17 -> n - d
                  [] op = 18 -> n * d [] op = 19 -> Quotient(n, d))

\* The arithmetic operators.  The left operand decides: what is not an int has
\* no difference, product or quotient, and then the result is not written.
Arithmetic(op, v, w) ==
  IF op = 16 /\ ~(v.type = "int" /\ w.type = "int") THEN {StringValue(AsString(v) \o AsString(w))}
  ELSE IF v.type # "int" THEN {NoneValue(g) : g \in Garbage}
  ELSE Thrown(v, w) \cup IF HaveInts(v, w) THEN {Calculated(op, AsInt(v), AsInt(w))} ELSE {}

-----------------------------------------------------------------------------
(* Compilation and evaluation                                                *)

Named(n) == {k \in DOMAIN result.tokens : result.tokens[k][1] = n}

\* Mutant: the first of two tokens with one name stays.
FirstNamed(n) == CHOOSE k \in Named(n) : \A j \in Named(n) : k <= j

\* A later token of a name replaces an earlier one.
LastNamed(n) == CHOOSE k \in Named(n) : \A j \in Named(n) : j <= k

\* build_token_map: tokens, then properties, then metadata.
TokenMap ==
  [n \in {t[1] : t \in {result.tokens[k] : k \in DOMAIN result.tokens}}
           \cup DOMAIN result.properties \cup DOMAIN result.metadata |->
     TokenValue(IF n \in DOMAIN result.metadata THEN result.metadata[n]
                ELSE IF n \in DOMAIN result.properties THEN result.properties[n]
                ELSE result.tokens[LastNamed(n)][2])]

RECURSIVE Identifiers(_)
Identifiers(x) ==
  IF "ident" \in DOMAIN x THEN {x.ident}
  ELSE IF "op" \in DOMAIN x THEN Identifiers(x.lhs) \cup Identifiers(x.rhs)
  ELSE {}

\* The values an expression may have.
RECURSIVE Values(_)
Values(x) ==
  IF "ident" \in DOMAIN x THEN {TokenMap[x.ident]}
  ELSE IF "string" \in DOMAIN x THEN {StringValue(x.string)}
  ELSE IF "number" \in DOMAIN x THEN {IntValue(x.number)}
  ELSE UNION {IF Fails(v) THEN {v}
              ELSE UNION {IF Fails(w) THEN {w} ELSE Arithmetic(x.op, v, w) : w \in Values(x.rhs)}
              : v \in Values(x.lhs)}

\* Values of one type are compared, and ints are read for it.
Compared(op, v, w) ==
  LET ints == v.type = "int" /\ w.type = "int"
      Answer == IF Compare(op, v, w) THEN "true" ELSE "false"
  IN IF ints THEN {f.type : f \in Thrown(v, w)} \cup IF HaveInts(v, w) THEN {Answer} ELSE {}
     ELSE {Answer}

\* "and" (6) goes on after true, "or" (7) after false; the right-hand side is
\* not evaluated when the left-hand side decides.
GoesOn(op) == IF op = 6 THEN "true" ELSE "false"

RECURSIVE Truths(_)
Truths(x) ==
  IF x.op \in {6, 7}
  THEN UNION {IF t = GoesOn(x.op) THEN Truths(x.rhs) ELSE {t} : t \in Truths(x.lhs)}
  ELSE UNION {UNION {IF Fails(v) THEN {v.type} ELSE IF Fails(w) THEN {w.type}
                     ELSE Compared(x.op, v, w) : w \in Values(x.rhs)}
              : v \in Values(x.lhs)}

\* The tree of the accepted expression, below the end symbol.
ast == yystack[2].value

Exprs(branch) == {branch[k].expr : k \in DOMAIN branch}

Compiled == {ast.condition} \cup Exprs(ast.then) \cup Exprs(ast.else)

\* Every identifier of the condition and of both branches must be known.
Compile ==
  /\ phase = "compile"
  /\ IF \A x \in Compiled : Identifiers(x) \subseteq DOMAIN TokenMap
     THEN /\ phase' = "evaluate"
          /\ UNCHANGED <<expressions, result, next, parser, properties, errors>>
     ELSE Fail("unknown")

Killed ==
  /\ phase' = "killed"
  /\ UNCHANGED <<expressions, result, next, parser, properties, errors>>

\* Later assignments to a name replace earlier ones.
RECURSIVE Assigned(_, _, _)
Assigned(map, branch, values) ==
  IF branch = <<>> THEN map
  ELSE LET n == branch[1].target
       IN Assigned([m \in DOMAIN map \cup {n} |-> IF m = n THEN AsString(values[1]) ELSE map[m]],
                   Tail(branch), Tail(values))

\* The condition, and then the assignments of one branch; they become
\* properties when the last of them has its value.
Evaluate ==
  /\ phase = "evaluate"
  /\ \E truth \in Truths(ast.condition) :
       IF truth = "killed" THEN Killed
       ELSE IF truth = "throws" THEN Fail("number")
       ELSE LET branch == IF truth = "true" THEN ast.then ELSE ast.else
                All == UNION {Values(branch[k].expr) : k \in DOMAIN branch}
            IN \E values \in [DOMAIN branch -> All] :
                 /\ \A k \in DOMAIN branch : values[k] \in Values(branch[k].expr)
                 /\ LET failed == {k \in DOMAIN branch : Fails(values[k])} IN
                      IF failed = {}
                      THEN /\ properties' = Assigned(properties, branch, values)
                           /\ StartParser(next + 1)
                           /\ UNCHANGED <<expressions, result, errors>>
                      ELSE LET first == CHOOSE k \in failed : \A j \in failed : k <= j
                           IN IF values[first].type = "killed" THEN Killed ELSE Fail("number")

Next ==
  \/ ScanSpace \/ ScanSymbol \/ ScanEnd \/ ScanError
  \/ Shift \/ Reduce \/ SyntaxError \/ Accept
  \/ Compile \/ Evaluate

Spec == Init /\ [][Next]_vars

-----------------------------------------------------------------------------
(* Properties                                                                *)

\* Every variable has its type: the stack has one state of the tables above its
\* bottom for every symbol it holds, and a failed expression is an error once.
TypeOK ==
  /\ next \in 1..(Len(expressions) + 1)
  /\ phase \in {"parse", "compile", "evaluate", "done", "killed"}
  /\ (phase = "done") = (next = Len(expressions) + 1)
  /\ phase # "done" => position \in 0..Len(text)
  /\ Len(yyla) <= 1 /\ \A k \in DOMAIN yyla : yyla[k].kind \in 0..(yyntokens - 1)
  /\ yystack # <<>> /\ \A k \in DOMAIN yystack : yystack[k].state \in 0..57
  /\ \A k \in DOMAIN errors :
       /\ errors[k].expression < next
       /\ errors[k].why \in {"character", "range", "syntax", "unknown", "number"}
       /\ \A j \in 1..(k - 1) : errors[j].expression < errors[k].expression

\* Wherever the scanner stands, the generated automaton takes the longest text
\* that a rule of the scanner file matches, and of the rules that match it the
\* first: a keyword is an identifier when a letter follows.
ScannerFollowsRules ==
  phase = "parse" /\ yyla = <<>> /\ position < Len(text) =>
    LET Ends(rule) == {to \in (position + 1)..Len(text) :
                         Matches(rule, SubSeq(text, position + 1, to))}
        longest == Largest(UNION {Ends(rule) : rule \in 1..24})
    IN /\ Match.to = longest
       /\ longest \in Ends(Match.rule)
       /\ \A rule \in 1..(Match.rule - 1) : longest \notin Ends(rule)

\* The symbols of a text from an offset on; a character of no rule is kind 2.
RECURSIVE Symbols(_)
Symbols(at) ==
  IF at = Len(text) THEN <<>>
  ELSE LET match == MatchFrom(at)
           lexeme == SubSeq(text, at + 1, match.to)
       IN (CASE match.rule = 1 -> <<>>
             [] match.rule = 24 -> <<[kind |-> 2, value |-> 2]>>
             [] OTHER -> <<Symbol(match.rule, lexeme)>>) \o Symbols(match.to)

\* The generated parser accepts exactly what the grammar file describes, and
\* builds the tree of its precedences and associations: no symbol is lost and
\* none is grouped otherwise, and a text that is refused part of the way has no
\* reading as a whole.
ParserFollowsGrammar ==
  /\ phase = "compile" => Conditional(Symbols(0)) = {ast}
  /\ Parsing /\ Refuses => Conditional(Symbols(0)) = {}

\* What a value is by the documentation: a text, and an int if it is one.
Written(s) == [text |-> s, ints |-> IF IsDigits(s) THEN {Numeral(s, 10)} ELSE {}]

Reading(n) ==
  IF n \in DOMAIN result.metadata THEN result.metadata[n]
  ELSE IF n \in DOMAIN result.properties THEN result.properties[n]
  ELSE LET k == Largest(Named(n)) IN result.tokens[k][2]

\* The meanings of an expression, as a set of at most one: none when an int
\* leaves its range, a divisor is zero, a text has no difference, or a token is
\* written with a leading zero, "0" itself among them, or a newline.
RECURSIVE Meanings(_)
Meanings(x) ==
  LET Sum(i, j) == IF x.op = 16 THEN i + j ELSE IF x.op = 17 THEN i - j
                   ELSE IF x.op = 18 THEN i * j
                   ELSE CHOOSE q \in -IntMax..IntMax :
                          \E r \in -IntMax..IntMax :
                            /\ i = q * j + r /\ r * r < j * j /\ r * i >= 0
      Both(l, r) == {Sum(i, j) : i \in l.ints, j \in r.ints \ IF x.op = 19 THEN {0} ELSE {}}
  IN CASE "ident" \in DOMAIN x ->
            {Written(s) : s \in {t \in {Reading(x.ident)} :
               /\ \A k \in DOMAIN t : t[k] # "\n"
               /\ IsDigits(t) => t[1] # "0" /\ Numeral(t, 10) <= IntMax}}
       [] "string" \in DOMAIN x -> {[text |-> x.string, ints |-> {}]}
       [] "number" \in DOMAIN x -> {[text |-> Decimal(x.number), ints |-> {x.number}]}
       [] OTHER ->
            UNION {
              {[text |-> Decimal(n), ints |-> {n}] : n \in Both(l, r) \cap ((-IntMax - 1)..IntMax)}
              \cup IF x.op = 16 /\ (l.ints = {} \/ r.ints = {})
                   THEN {[text |-> l.text \o r.text, ints |-> {}]} ELSE {}
              : l \in Meanings(x.lhs), r \in Meanings(x.rhs)}

\* How two meanings compare: values of different kinds have no order.
Order(l, r) ==
  IF (l.ints = {}) # (r.ints = {}) THEN "none"
  ELSE IF l = r THEN "equal"
  ELSE IF \/ \E i \in l.ints, j \in r.ints : i < j
          \/ l.ints = {} /\ TextLess(l.text, r.text) THEN "less" ELSE "greater"

Agrees(op, order) ==
  order \in CASE op = 8 -> {"equal"} [] op = 9 -> {"less", "greater", "none"}
              [] op = 10 -> {"less"} [] op = 11 -> {"less", "equal", "none"}
              [] op = 12 -> {"greater"} [] op = 13 -> {"greater", "equal", "none"}

\* Whether a condition holds, as a set of at most one truth value.
RECURSIVE Holds(_)
Holds(x) ==
  CASE x.op = 6 -> {l /\ r : l \in Holds(x.lhs), r \in Holds(x.rhs)}
    [] x.op = 7 -> {l \/ r : l \in Holds(x.lhs), r \in Holds(x.rhs)}
    [] x.op = 14 -> {\E k \in 0..Len(l.text) : \E j \in k..Len(l.text) :
                       SubSeq(l.text, k + 1, j) = r.text /\ l.ints = {} /\ r.ints = {} :
                       l \in Meanings(x.lhs), r \in Meanings(x.rhs)}
    [] OTHER -> {Agrees(x.op, Order(l, r)) : l \in Meanings(x.lhs), r \in Meanings(x.rhs)}

\* An expression whose parts have a meaning evaluates to it, and to nothing
\* else: precedence of metadata over properties over the last token of a name,
\* ints and texts told apart, and the tokens' own texts kept.  A condition that
\* has a meaning is that, whichever of its parts are evaluated.
MeaningIsKept ==
  phase = "evaluate" =>
    /\ \A holds \in Holds(ast.condition) :
         Truths(ast.condition) = {IF holds THEN "true" ELSE "false"}
    /\ \A x \in Exprs(ast.then) \cup Exprs(ast.else) : \A m \in Meanings(x) :
         {AsString(v) : v \in Values(x)} = {m.text}

=============================================================================
