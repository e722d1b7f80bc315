---------------------------- MODULE MCRegexParser ----------------------------
(* Two rules, read from two files.  Rule 1 has a base pattern, two patterns that
   extend it with different assertions, one that extends it with a field and one
   that extends one of these; rule 2 has a random pattern with two anchors.  The
   directories differ in what the loader forgives, in what it does not, and in
   their examples.                                                            *)
EXTENDS RegexParser

CONSTANTS MaxFields,  \* bound: fields of a message
          BaseReads   \* the tokens the base pattern's property joins

\* The rules, as they should be loaded.
MCPatternsOf == <<{"base", "accepted", "rejected", "longer", "deep"}, {"loose"}>>
MCPatterns == {"base", "accepted", "rejected", "longer", "deep", "loose"}
MCTokensOf ==
  [base |-> <<"a", "b">>, accepted |-> <<"a", "b", "c">>, rejected |-> <<"a", "b", "c">>,
   longer |-> <<"a", "b", "c">>, deep |-> <<"a", "b", "c", "a", "b">>, loose |-> <<"b", "a">>]
MCAnchorsOf == [p \in MCPatterns |-> IF p = "loose" THEN <<"h", "k">> ELSE <<"h">>]
MCPrecedence == [base |-> 100, accepted |-> 10, rejected |-> 10, longer |-> 20,
                 deep |-> 10, loose |-> 10]
MCMatchType == [p \in MCPatterns |-> IF p = "loose" THEN "random" ELSE "sequential"]
MCAssertOf ==
  [p \in MCPatterns |-> [t \in Tokens |->
     CASE t = "a" /\ p = "accepted" -> "yes"
       [] t = "a" /\ p = "rejected" -> "no"
       [] t = "b" /\ p = "deep" -> "no"
       [] OTHER -> NoAssert]]
MCReadsOf ==
  [p \in MCPatterns |-> IF p = "loose" THEN {"a", "b"} ELSE {"a"} \cup Range(BaseReads)]
\* A token that only the longer patterns list.
OwnReads == <<"a", "b">>
OtherReads == <<"a", "c">>
MCIdOrder == <<"accepted", "base", "deep", "longer", "loose", "rejected">>

MCFields == [name: {"a"}, value: {"yes", "no"}] \cup [name: {"b", "c"}, value: {"yes"}]
MCMessages ==
  [header: {<<>>, <<"h">>, <<"k", "h">>, <<"h", "k">>},
   fields: UNION {[1..n -> MCFields] : n \in 0..MaxFields}]

---------------------------------------------------------------------------
(* The files                                                                  *)

Plain == [id |-> "", type |-> "extends", anchor |-> Absent, extends |-> "base",
          tokens |-> <<>>, asserts |-> <<>>, properties |-> <<>>, examples |-> <<>>,
          precedence |-> 10, match |-> "sequential"]
Joined(n, r) == [name |-> n, delim |-> "", reads |-> r, sets |-> Absent, value |-> Absent]
Conditional(n, t, v) ==
  [name |-> Absent, delim |-> Absent, reads |-> <<t>>, sets |-> n, value |-> v]

Base == [Plain EXCEPT !.id = "base", !.type = "root", !.anchor = "A", !.tokens = <<"a", "b">>,
                      !.properties = <<Joined("p", BaseReads)>>, !.precedence = 100]
Accepted == [Plain EXCEPT !.id = "accepted", !.tokens = <<"c">>,
                          !.asserts = <<[token |-> "a", value |-> "yes"]>>,
                          !.properties = <<Conditional("d", "a", "yes")>>]
Rejected == [Plain EXCEPT !.id = "rejected", !.tokens = <<"c">>,
                          !.asserts = <<[token |-> "a", value |-> "no"]>>]
Longer == [Plain EXCEPT !.id = "longer", !.tokens = <<"c">>, !.precedence = 20]
Deep == [Plain EXCEPT !.id = "deep", !.extends = "rejected",
                      !.asserts = <<[token |-> "b", value |-> "no"]>>]
Loose == [Plain EXCEPT !.id = "loose", !.type = "root", !.anchor = "A", !.match = "random",
                       !.tokens = <<"b", "a">>, !.properties = <<Joined("p", <<"b", "a">>)>>]

Declared(t) == [id |-> t, type |-> "string"]
File1 == [id |-> "one", tokens |-> <<Declared("a"), Declared("b"), Declared("c")>>,
          patterns |-> <<Base, Accepted, Rejected, Longer, Deep>>,
          anchors |-> <<[id |-> "A", regex |-> <<"h">>]>>]
File2 == [id |-> "two", tokens |-> <<Declared("b"), Declared("a")>>, patterns |-> <<Loose>>,
          anchors |-> <<[id |-> "A", regex |-> <<"h", "k">>]>>]

Example(m) == [message |-> m, tokens |-> {}, properties |-> {}, absent |-> {}]
Line(h, f) == [header |-> h, fields |-> f]
A(v) == [name |-> "a", value |-> v]
Field(n) == [name |-> n, value |-> "yes"]

\* File 1 with pattern i changed.
With(i, p) == [File1 EXCEPT !.patterns[i] = p]

\* What the loader forgives: the rules are the same.
Forgiven ==
  {File1,
   [File1 EXCEPT !.tokens = Append(@, [id |-> "a", type |-> "none"])],
   [File1 EXCEPT !.anchors = @ \o <<[id |-> "A", regex |-> <<>>], [id |-> "B", regex |-> <<>>]>>],
   [File1 EXCEPT !.patterns = Append(@, [Base EXCEPT !.tokens = <<"b">>])],
   [File1 EXCEPT !.patterns =
      Append(@, [Base EXCEPT !.examples = <<Example(Line(<<"h">>, <<A("no"), Field("b")>>))>>])],
   With(2, [Accepted EXCEPT !.asserts = @ \o <<[token |-> "a", value |-> "no"],
                                               [token |-> "z", value |-> "no"]>>]),
   With(4, [Longer EXCEPT !.properties = <<Joined("q", <<>>)>>])}

\* What it does not.
Unreadable ==
  {[File1 EXCEPT !.id = Absent],
   [File1 EXCEPT !.tokens[3].type = Absent],
   [File1 EXCEPT !.tokens[3].type = "none"],
   [File1 EXCEPT !.tokens = SubSeq(@, 1, 2)],
   [File1 EXCEPT !.anchors[1].id = Absent],
   [File1 EXCEPT !.anchors[1].regex = <<>>],
   [File1 EXCEPT !.anchors[1].id = "B"],
   [File1 EXCEPT !.patterns = <<Accepted, Base>>],
   With(1, [Base EXCEPT !.anchor = Absent]),
   With(1, [Base EXCEPT !.type = "other"]),
   With(1, [Base EXCEPT !.properties = <<Joined("p", <<"z">>)>>]),
   With(2, [Accepted EXCEPT !.tokens = <<>>, !.properties = <<Joined("p", <<"c">>)>>]),
   With(3, [Rejected EXCEPT !.extends = "rejected"]),
   With(3, [Rejected EXCEPT !.match = Absent]),
   With(4, [Longer EXCEPT !.match = "any"]),
   With(4, [Longer EXCEPT !.properties = <<[Joined(Absent, <<>>) EXCEPT !.reads = Absent]>>]),
   With(5, [Deep EXCEPT !.examples = <<Example(Absent)>>])}

\* An example that nothing matches ends the program when everything is loaded.
Unmatched == [File2 EXCEPT !.patterns[1].examples = <<Example(Line(<<>>, <<>>))>>]

\* One example of any message, for any pattern ...
Exemplified ==
  {<<With(i, [File1.patterns[i] EXCEPT !.examples = <<Example(m)>>]), File2>> :
     i \in 1..5, m \in MCMessages} \cup
  {<<File1, [File2 EXCEPT !.patterns[1].examples = <<Example(m)>>]>> : m \in MCMessages}

\* ... and examples of messages that match, with what they may expect.
Expectations ==
  [message: {Line(<<"h">>, <<A("yes"), Field("b"), Field("c")>>)},
   tokens: {{}, {[name |-> "a", value |-> "yes"]}, {[name |-> "a", value |-> "no"]},
            {[name |-> "z", value |-> "yes"]}},
   properties: {{}, {[name |-> "p", value |-> <<"yes", "yes">>], [name |-> "d", value |-> <<"yes">>]},
                {[name |-> "p", value |-> <<"yes">>]}},
   absent: {{}, {"q"}, {"d"}}]

MCCommands == {{}, {"-l"}, {"-m", "-l"}}

MCDirectories ==
  {<<>>, <<File1, File2>>} \cup Exemplified \cup
  {<<f, Unmatched>> : f \in Forgiven \cup Unreadable} \cup
  {<<With(2, [Accepted EXCEPT !.examples = <<e>>]), File2>> : e \in Expectations} \cup
  {<<File1, [File2 EXCEPT !.patterns[1].tokens = <<"c">>]>>}

=============================================================================
