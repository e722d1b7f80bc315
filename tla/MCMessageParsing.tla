------------------------- MODULE MCMessageParsing -------------------------
(* Rule 1 is loaded from files and cuts the message into a captured fragment
   with a key-value and a located regex section, and a JSON section that refers
   to the ruleset of the key-value section once more under another name.  Rule
   2 is added by the program: it captures nothing and repeats a section that
   locates another.  The other rules are there for what loading makes of them;
   the filters of rules 3 and 13 are all the patterns of up to three parts.  *)
EXTENDS MessageParsing

CONSTANTS MaxLength     \* bound: letters of a message

\* The letters are interchangeable, so that a message starts with "a".
MCMessages == {m \in UNION {[1..n -> Letters] : n \in 0..MaxLength} :
                 m # <<>> => m[1] = "a"}

MCNoName == <<>>

MCSections == {"fragment", "pairs", "tags", "whole", "outer", "inner", "word", "empty", "strange",
               "blank", "letter"}
MCChildrenOf == [s \in MCSections |-> CASE s = "fragment" -> <<"pairs", "tags">>
                                        [] s = "outer" -> <<"inner">>
                                        [] s = "blank" -> <<"letter">>
                                        [] OTHER -> <<>>]
MCEngineOf == [fragment |-> "mixed", pairs |-> "kv", tags |-> "regex",
               whole |-> "json", outer |-> "mixed", inner |-> "regex", word |-> "regex",
               empty |-> "mixed", strange |-> "other", blank |-> "mixed", letter |-> "regex"]
MCExtractOf == [s \in MCSections |-> IF s = "fragment" THEN <<"b">> ELSE MCNoName]
MCLocatorOf == [fragment |-> "none", pairs |-> "none", tags |-> "once",
                whole |-> "none", outer |-> "multiple", inner |-> "once", word |-> "none",
                empty |-> "none", strange |-> "none", blank |-> "none", letter |-> "none"]
MCRefersTo == [fragment |-> NoRuleset, pairs |-> "keys", tags |-> "tags",
               whole |-> "values", outer |-> NoRuleset, inner |-> NoRuleset, word |-> "tags",
               empty |-> NoRuleset, strange |-> "keys", blank |-> NoRuleset,
               letter |-> "tags"]

\* Rulesets and what may be wrong with them; Later replaces Tags.
Keys == [name |-> "keys", id |-> "set1", kind |-> "kv", bindings |-> {"rule1"},
         tokenRules |-> 0, assigns |-> {}, examples |-> <<>>]
Values == [Keys EXCEPT !.name = "values", !.kind = "json", !.tokenRules = 1,
                       !.assigns = {<<"q">>}, !.bindings = {}]
Example == [given |-> TRUE, fails |-> FALSE, tokens |-> [t |-> "a"],
            expected |-> [t |-> "a"], absent |-> {}, propertyFails |-> FALSE,
            properties |-> <<>>, expectedProperties |-> <<>>]
Tags == [Values EXCEPT !.name = "tags", !.id = "set2", !.kind = "regex",
                       !.assigns = {<<"p">>}, !.examples = <<Example>>]
Later == [Tags EXCEPT !.id = "set1", !.assigns = {}]
WrongRulesets ==
  {[Keys EXCEPT !.kind = "xml"]} \cup
  {[Tags EXCEPT !.examples = <<Example, e>>] : e \in
     {[Example EXCEPT !.given = FALSE], [Example EXCEPT !.fails = TRUE],
      [Example EXCEPT !.expected = [t |-> "b"]], [Example EXCEPT !.absent = {"t"}],
      [Example EXCEPT !.propertyFails = TRUE]}}

\* All the patterns of up to three of these parts, less those with an open name;
\* to both walks, what closes a group is a letter like "a".
Parts == <<<<"(">>, <<"(", "?", "<", "a", ">">>, <<"(", "?", "<", "b", ">">>,
           <<"(", "?", "<", "=">>, <<"(", "?", ":">>, <<"\\">>, <<"[">>, <<"?">>, <<"a">>, <<>>>>
PatternAt(k) ==
  Parts[(k % 10) + 1] \o Parts[((k \div 10) % 10) + 1] \o Parts[((k \div 100) % 10) + 1]
SomePatterns == SelectSeq([k \in 1..500 |-> PatternAt(k)], LAMBDA p : ~NameIsOpen(p))
OtherPatterns == SelectSeq([k \in 1..500 |-> PatternAt(500 + k)], LAMBDA p : ~NameIsOpen(p))
Body == <<"(", "?", "<", "b", ">", "a", ")">>
Broken == <<"(", "?", "<", "b">>

Identified == [given |-> TRUE, expected |-> <<>>,
               results |-> <<[matches |-> FALSE, fails |-> FALSE, captures |-> <<>>],
                             [matches |-> TRUE, fails |-> FALSE, captures |-> <<>>]>>]
Whole == [id |-> "rule1", filters |-> <<Body>>, sections |-> <<"fragment", "whole">>,
          listsSections |-> TRUE, examples |-> <<Identified>>]
MCRuleOf ==
  <<Whole,
    [Whole EXCEPT !.id = "rule2", !.filters = <<<<"a">>>>, !.sections = <<"outer">>],
    [Whole EXCEPT !.filters = SomePatterns],
    [Whole EXCEPT !.sections = <<"word">>],
    [Whole EXCEPT !.filters = <<>>],
    [Whole EXCEPT !.filters = <<Body, Broken>>],
    [Whole EXCEPT !.sections = <<"whole", "empty">>],
    [Whole EXCEPT !.sections = <<"strange">>],
    [Whole EXCEPT !.id = "rule2", !.sections = <<"fragment">>],
    [Whole EXCEPT !.examples = <<[Identified EXCEPT !.results[1].fails = TRUE]>>],
    [Whole EXCEPT !.examples = <<[Identified EXCEPT !.results[2].matches = FALSE]>>],
    [Whole EXCEPT !.examples = <<[Identified EXCEPT !.expected = [b |-> "a"]]>>],
    [Whole EXCEPT !.filters = OtherPatterns],
    [Whole EXCEPT !.sections = <<"blank">>],
    [Whole EXCEPT !.sections = <<>>, !.listsSections = FALSE]>>

\* The names of properties and of groups; the loader takes an expression that
\* looks behind for a group with a name, up to the end of the next one's.
MCNames ==
  {<<c>> : c \in {"a", "b", "p", "q"}} \cup
  {<<"=">> \o Parts[k] \o <<"(", "?", "<", c>> : k \in DOMAIN Parts, c \in {"a", "b"}}

MCPreset == [outer |-> [Values EXCEPT !.assigns = {<<"p">>}],
             inner |-> [Tags EXCEPT !.assigns = {<<"q">>}]]

\* Rule 1 is in a file before that of its rulesets; the ruleset of rule 4 is in
\* two files, before and after its own; and the rest are wrong in one way each,
\* one of them for a section without a ruleset where a ruleset has no name.
File(sets, messages) == [rulesets |-> sets, messages |-> messages]
Sets == <<Keys, Values, Tags>>
MCInputs ==
  {[files |-> <<File(<<>>, <<1>>), File(Sets, <<>>)>>, added |-> <<2>>]} \cup
  {[files |-> files, added |-> <<>>] : files \in
     {<<File(<<Later>>, <<4>>), File(<<Tags>>, <<>>)>>,
      <<File(<<Tags>>, <<4>>), File(<<Later>>, <<>>)>>,
      <<File(<<[Tags EXCEPT !.name = NoRuleset]>>, <<2>>)>>,
      <<>>, <<File(Sets, <<>>)>>, <<File(<<Keys, Values>>, <<1>>)>>} \cup
     {<<File(Sets, <<3, 13, r>>)>> : r \in (5..12) \cup {14, 15}} \cup
     {<<File(Sets, <<1>>), File(<<d>>, <<>>)>> : d \in WrongRulesets}}

=============================================================================
