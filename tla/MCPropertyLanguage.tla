------------------------- MODULE MCPropertyLanguage -------------------------
(* Expressions for the scanner, the parser and the evaluation: every short text
   over the characters that the scanner's rules tell apart, every short sequence
   of words where an operand, a condition or a branch is due, and every
   comparison of a set of operands, each against tokens, properties and metadata
   that share names.                                                         *)
EXTENDS PropertyLanguage

CONSTANTS MaxText,    \* bound: characters of a text for the scanner
          MaxWords    \* bound: words of a sequence for the parser

Characters(s) == [k \in 1..Len(s) |-> SubSeq(s, k, k)]

MCAlphabet ==
  Characters("\t\n\r !\"$()*+-./0123456789<=>?ABCDEFGHIJKLMNOPQRSTUVWXYZ\\_abcdefghijklmnopqrstuvwxyz~")

\* A token that comes twice, one that a property and the metadata override.
Shared ==
  [tokens |-> <<<<"a", "1">>, <<"b", "x">>, <<"n", "12">>, <<"a", "2">>, <<"m", "3">>>>,
   properties |-> [m |-> "4", p |-> "x"], metadata |-> [m |-> "5"]]
\* Octal digits, a text of two lines, and an empty one.
Unusual ==
  [tokens |-> <<<<"a", "010">>, <<"b", "x\ny">>, <<"n", "">>, <<"m", "0">>>>,
   properties |-> <<>>, metadata |-> <<>>]
\* Texts after a leading zero: is_number passes over one character unread.
Zeros ==
  [tokens |-> <<<<"a", "08">>, <<"b", "0z">>, <<"n", "0x1F">>, <<"m", "018">>>>,
   properties |-> <<>>, metadata |-> <<>>]

Name(n) == Characters(n)
Spelled(r) ==
  LET Map(f) == [n \in {Name(k) : k \in DOMAIN f} |->
                   Characters(f[CHOOSE k \in DOMAIN f : Name(k) = n])]
  IN [tokens |-> [k \in DOMAIN r.tokens |-> <<Name(r.tokens[k][1]), Characters(r.tokens[k][2])>>],
      properties |-> Map(r.properties), metadata |-> Map(r.metadata)]

Tried(texts, results) ==
  {[expressions |-> <<Characters(t)>>, result |-> Spelled(r)] : t \in texts, r \in results}

Short ==
  {[expressions |-> <<s>>, result |-> Spelled(Shared)] :
     s \in UNION {[1..n -> {"i", "f", "0", ".", "=", "<", "?", "\"", "\\", " ", "\n"}] :
                    n \in 0..MaxText}}

\* Sequences of words, each with a space after it.
RECURSIVE Phrases(_, _)
Phrases(words, n) ==
  {""} \cup IF n = 0 THEN {} ELSE {p \o w \o " " : p \in Phrases(words, n - 1), w \in words}

Operations == {"if a == 1 then x = " \o v : v \in Phrases({"a", "\"s\"", "-", "*", "(", ")"}, MaxWords)}
Conditions ==
  {"if " \o c \o "then x = a" : c \in Phrases({"a == 2", "b < m", "and", "or", "(", ")"}, MaxWords)}
Branches == {"if a == 2 then " \o b : b \in Phrases({"x = a", "y = 1", "and", "else", "if"}, MaxWords)}

Operands == {"a", "b", "n", "m", "2", "\"x\"", "n - 14", "n * n", "n / m", "b + a", "(b - 1)", "1 - b"}
Comparisons ==
  {"if " \o l \o op \o r \o " then z = " \o l \o " and x.y = " \o r \o " else z = m - (" \o l \o ")" :
     l \in Operands, r \in Operands, op \in {" == ", " != ", "<", " <= ", ">", ">=", "?="}}

Structured ==
  {"if(a==2or b==\"y\"and n>m)then x=a-1-1*2+m and x=\"\\n\\t\\\"\\q\" else y=a",
   "if ((a) + 1 == 3) and not == 1 then x = 1", "if a == 0128 then x = 1", "if a == 128 then x = 1",
   "if p == b or q == 1 then iff = then1 + b", "if a == 2 or m / 0 == 1 then x = 1 else x = 2 / (m - m)",
   "ifa == 1 then x = 1", "if a = 1 then x = 1", "if a == 2 then x = unknown else x = 1",
   "if a == 1 then x = 1 else x = unknown", "if a == 2 then x = 6 / 4 - 7 / 2 and x = x"}

\* Two expressions: the first one fails in one of the ways there are, or not.
Pairs ==
  {[expressions |-> <<Characters(t), Characters("if a == 2 then x = a else x = b")>>,
    result |-> Spelled(Shared)] :
     t \in Structured \cup {"", "?", "if a == 2 then x = 1 - \"q\"", "if a - b == 1 then x = a",
                            "if a == 2 then x = m and y = 7"}}

MCInputs ==
  Short \cup Pairs
  \cup Tried(Operations \cup Conditions \cup Branches, {Shared})
  \cup Tried(Comparisons \cup Structured, {Shared, Unusual, Zeros})
  \cup {[expressions |-> <<>>, result |-> Spelled(Shared)]}

=============================================================================
