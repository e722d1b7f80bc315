-------------------------------- MODULE JsonPath --------------------------------
(* Paths into a JSON text: the two grammars a path expression is compiled by, the
   lookup of the compiled path in the index of JsonParser, and the comparisons of
   what was found.

   An expression is a sequence of lexemes, its blanks left out.  A compiled path
   is identified by its labels and its depth, where the code hashes the labels.  *)
EXTENDS JsonParser

CONSTANTS Callers,   \* who reads a text
          Reads,     \* Reads[c]: the texts that caller c may have
          Asks,      \* Asks[c]: what it may ask of them, [by, expression]
          IntBound   \* an int is in -IntBound..(IntBound - 1)

VARIABLES
  caller,    \* who reads the text at hand
  query,     \* the path that was compiled last, until it is closed
  rendered   \* the entries of m_paths that have become strings

pathVars == <<pc, text, pos, tokens, super, walk, edit, edits, sound, paths, dirty,
              frames, at, sought, caller, query, rendered>>

---------------------------------------------------------------------------
(* The compilers                                                           *)

\* What a parser does at a lexeme: <<where it is, the lexeme, where it goes>>.
CommonRules ==
  {<<"path", ".", "dot">>, <<"dot", "label", "path">>,
   <<"path", "[", "open">>, <<"open", "int", "index">>, <<"index", "]", "path">>,
   <<"path", "!=", "filter">>, <<"filter", "int", "end">>, <<"filter", "float", "end">>,
   <<"filter", "quoted", "end">>}

\* jqpath: one segment at least.
JqRules ==
  CommonRules \cup
  {<<"start", ".", "dot">>, <<"start", "[", "open">>, <<"open", "]", "path">>,
   <<"path", "=", "filter">>}

\* jsonpath: below a root, with strings in either kind of quotes.
JsonPathRules ==
  CommonRules \cup
  {<<"start", "$", "path">>, <<"open", "*", "star">>, <<"star", "]", "path">>,
   <<"open", "quoted", "member">>, <<"open", "apostrophed", "member">>,
   <<"member", "]", "path">>, <<"path", "==", "filter">>,
   <<"filter", "apostrophed", "end">>}

\* path_parse_string looks at the first lexeme; the JSON engine does not.
Grammar(a) ==
  IF a.by = "engine" \/ (a.expression # <<>> /\ a.expression[1].is = "$")
  THEN "jsonpath" ELSE "jq"

Rules(g) == IF g = "jq" THEN JqRules ELSE JsonPathRules

\* atoi: a number too large for an int comes out as another one.
AtoI(n) == ((n + IntBound) % (2 * IntBound)) - IntBound

NoLexeme == [is |-> "none", of |-> ""]

\* path_parse_state_reset.
Reset == [at |-> "start", labels |-> <<>>, depth |-> 0, op |-> "none", last |-> NoLexeme,
          value |-> NoLexeme]

\* The label that is added where a bracket closes; a wildcard is a label like others.
BracketLabel(s) ==
  CASE s.at = "index"  -> Subscript[AtoI(s.last.of)]
    [] s.at = "member" -> s.last.of
    [] OTHER           -> "[]"

\* Plausible bug: the depth counts the names alone.
DepthOfNames(s, x) == IF x.is = "." THEN s.depth + 1 ELSE s.depth

Deeper(s, x) == IF x.is \in {".", "]"} THEN s.depth + 1 ELSE s.depth

\* The scanner's actions at lexeme x, and the parser's behind it.
Effects(s, x) ==
  [s EXCEPT !.labels = CASE x.is = "label" -> Append(@, x.of)
                         [] x.is = "]"     -> Append(@, BracketLabel(s))
                         [] OTHER          -> @,
            !.depth  = Deeper(s, x),
            !.op     = CASE x.is \in {"=", "=="} -> "equals"
                         [] x.is = "!="          -> "differs"
                         [] OTHER                -> @,
            !.last   = x,
            !.value  = CASE s.at # "filter" -> @
                         [] x.is = "int"    -> [x EXCEPT !.of = AtoI(@)]
                         [] OTHER           -> x]

Read(g, s, x) ==
  LET to == {r[3] : r \in {q \in Rules(g) : q[1] = s.at /\ q[2] = x.is}} IN
  IF to = {} THEN [s EXCEPT !.at = "error"]
  ELSE [Effects(s, x) EXCEPT !.at = CHOOSE t \in to : TRUE]

\* jqpath_parse_string and jsonpath_parse_string.
Compiled(a) ==
  LET x == a.expression
      f[n \in 0..Len(x)] == IF n = 0 THEN Reset ELSE Read(Grammar(a), f[n - 1], x[n])
  IN f[Len(x)]

IsAccepted(s) == s.at \in {"path", "end"}

---------------------------------------------------------------------------
(* Lookup and comparisons                                                  *)

NoQuery == [open |-> FALSE]

\* The filter of a path has no part in what it finds.
Found(s) ==
  IF IsAccepted(s) /\ s.depth = Len(s.labels) /\ s.labels \in DOMAIN paths
  THEN paths[s.labels] ELSE 0

\* Plausible bug: the index is taken as it is.
IsReadyAsItIs == pc = "idle"

\* Behind ensure_paths.
IsReady == pc = "idle" /\ ~dirty

\* get_path with a path compiled for it; not between a search and the edit it is
\* for, which a lookup has no part in.
Lookup ==
  /\ IsReady /\ ~query.open /\ sought = NoSearch
  /\ \E a \in Asks[caller] :
       LET s == Compiled(a) IN
       query' = [open |-> TRUE, ask |-> a, path |-> s, answer |-> Found(s),
                 with |-> "none", says |-> "nothing"]
  /\ UNCHANGED <<vars, caller, rendered>>

MayCompare == pc = "idle" /\ query.open /\ query.answer # 0 /\ query.says = "nothing"

Content(i) == text[tokens[i].start]

YesNo(b) == IF b THEN "yes" ELSE "no"

\* The operators give their answer.
Answer(operand, is) ==
  query' = [open |-> TRUE, ask |-> query.ask, path |-> query.path,
            answer |-> query.answer, with |-> operand, says |-> is]

\* The tokens behind the array's, as many as it has parts.
Listed(i) == {i + k : k \in 1..tokens[i].size}

\* JQ::operator==(const char *), with n in its quotes: a string becomes one of
\* the entry, to be compared with from then on.
CompareText ==
  /\ MayCompare
  /\ \E n \in Names :
       LET i == query.answer
           type == tokens[i].type
           is == CASE type = "string" -> YesNo(Content(i) = n)
                   [] type = "array"  -> YesNo(\E j \in Listed(i) : /\ tokens[j].type = "string"
                                                                    /\ Content(j) = n)
                   [] type = "object" -> "throws"
                   [] OTHER           -> "no"
       IN /\ Answer(n, is)
          /\ rendered' = IF type = "string" THEN rendered \cup {query.path.labels} ELSE rendered
  /\ UNCHANGED <<vars, caller>>

\* JQ::operator==(jqpath &): the filter's value, if the entry has one of its type.
FilterHolds ==
  /\ query.path.op = "equals"
  /\ query.path.value.is = "quoted"
  /\ query.path.labels \in rendered
  /\ query.path.value.of = Content(query.answer)

ComparePath ==
  /\ MayCompare
  /\ Answer("path", YesNo(FilterHolds))
  /\ UNCHANGED <<vars, caller, rendered>>

\* jqpath_close_path.
ClosePath ==
  /\ query.open
  /\ query' = NoQuery
  /\ UNCHANGED <<vars, caller, rendered>>

\* What the parser does itself; the entries go with the index.
ParserStep ==
  /\ Next
  /\ query' = NoQuery
  /\ rendered' = IF dirty' THEN {} ELSE rendered
  /\ UNCHANGED caller

PathInit ==
  /\ Init
  /\ caller \in Callers /\ text \in Reads[caller]
  /\ query = NoQuery /\ rendered = {}

PathNext == ParserStep \/ Lookup \/ CompareText \/ ComparePath \/ ClosePath

PathSpec == PathInit /\ [][PathNext]_pathVars

---------------------------------------------------------------------------
(* The reference: which expressions are paths, and to what they lead       *)

Smallest(S) == CHOOSE p \in S : \A q \in S : p <= q

SegmentStarts(x) == {p \in DOMAIN x : x[p].is \in {".", "["}}

\* Where the filter starts, behind the end if there is none.
FilterStart(x) == Smallest({p \in DOMAIN x : x[p].is \in {"=", "==", "!="}} \cup {Len(x) + 1})

Kinds(x, from, to) == [k \in 1..(to - from) |-> x[from + k - 1].is]

Segments(g) ==
  {<<".", "label">>, <<"[", "int", "]">>} \cup
  IF g = "jq" THEN {<<"[", "]">>}
  ELSE {<<"[", "*", "]">>, <<"[", "quoted", "]">>, <<"[", "apostrophed", "]">>}

Filters(g) ==
  {<<>>} \cup ({IF g = "jq" THEN "=" ELSE "==", "!="}
               \X ({"int", "float", "quoted"} \cup IF g = "jq" THEN {} ELSE {"apostrophed"}))

\* A root if the grammar has one, segments, and at most one filter at the end.
IsPath(g, x) ==
  LET bounds == SegmentStarts(x) \cup {FilterStart(x)}
      first == IF g = "jq" THEN 1 ELSE 2
  IN /\ g = "jsonpath" => x # <<>> /\ x[1].is = "$"
     /\ g = "jq" => SegmentStarts(x) # {}
     /\ Smallest(bounds) = first
     /\ \A p \in SegmentStarts(x) :
          /\ p < FilterStart(x)
          /\ Kinds(x, p, Smallest({q \in bounds : q > p})) \in Segments(g)
     /\ Kinds(x, FilterStart(x), Len(x) + 1) \in Filters(g)

\* Every number in it is an int.
IsInRange(x) == \A p \in DOMAIN x : x[p].is = "int" => x[p].of < IntBound

\* The labels of a path, one for each segment: the name or number in it.
LabelsOf(x) ==
  LET starts == SegmentStarts(x)
      start(k) == CHOOSE p \in starts : Cardinality({q \in starts : q <= p}) = k
      label(e) == CASE e.is = "int" -> Subscript[e.of]
                    [] e.is \in {"label", "quoted", "apostrophed"} -> e.of
                    [] OTHER -> "[]"
  IN [k \in 1..Cardinality(starts) |-> label(x[start(k) + 1])]

\* The label of the value at position p of text t in its container.
LabelIn(t, p) ==
  IF t[p - 1] = ":" THEN t[p - 2]
  ELSE Subscript[Cardinality({q \in 1..(p - 1) : StartsValue(t[q]) /\ Inside(t, q) = Inside(t, p)})]

\* Where the values are that labels lead to, from the outermost one down.
Reached(t, labels) ==
  LET f[k \in 0..Len(labels)] ==
        IF k = 0 THEN {1}
        ELSE {p \in 2..Len(t) : /\ StartsValue(t[p]) /\ ~IsKey(t, p)
                                /\ Inside(t, p) \in f[k - 1]
                                /\ LabelIn(t, p) = labels[k]}
  IN f[Len(labels)]

---------------------------------------------------------------------------
(* Properties                                                              *)

Asked == query.ask.expression

\* An expression is compiled if and only if it is made of whole segments and at
\* most one filter, and the path has the label of each segment in order, the depth
\* the index counts with, and the filter's operator and value (jqpath.y and
\* jsonpath.y behind jqpath.l and jsonpath.l, whose actions run at each lexeme).
PathsAreCompiled ==
  query.open =>
    LET s == query.path  x == Asked  f == FilterStart(x) IN
    /\ IsAccepted(s) <=> IsPath(Grammar(query.ask), x)
    /\ IsAccepted(s) /\ IsInRange(x) =>
         /\ s.labels = LabelsOf(x) /\ s.depth = Len(s.labels)
         /\ IF f > Len(x) THEN s.op = "none" /\ s.value = NoLexeme
            ELSE /\ s.op = IF x[f].is = "!=" THEN "differs" ELSE "equals"
                 /\ s.value = x[f + 1]

IsListOfAtoms(i) == \A j \in Listed(i) : ~IsContainer(tokens[j])

\* In a JSON text as it is now, edits included, a path finds the first value its
\* segments lead to, and nothing only if there is none - or if it is the root and
\* a container, which has no entry.  What was found equals a string if it is that
\* string, or an array of values with that string among them; it equals its path
\* if a comparison with a string came first and the filter says so (testJQPathJSMN,
\* testJSONPathJSMN).
LookupsFollowTheText ==
  pc = "idle" /\ query.open /\ IsAccepted(query.path) /\ IsInRange(Asked) /\ IsJson(text) =>
    LET labels == LabelsOf(Asked)
        there == IF labels = <<>> /\ text[1] \in Opening THEN {} ELSE Reached(text, labels)
        i == query.answer
    IN /\ i = 0 <=> there = {}
       /\ i # 0 => tokens[i].start = Smallest(there)
       /\ i # 0 /\ query.says # "nothing" =>
            LET value == text[Smallest(there)] IN
            CASE query.with = "path" ->
                   query.says = "yes" <=>
                     /\ Kinds(Asked, FilterStart(Asked), Len(Asked) + 1) \in {<<"=", "quoted">>, <<"==", "quoted">>}
                     /\ Asked[Len(Asked)].of = value
                     /\ labels \in rendered
              [] value = "{" -> query.says = "throws"
              [] value = "[" -> IsListOfAtoms(i) =>
                                  (query.says = "yes" <=>
                                     \E p \in 1..Len(text) : /\ Inside(text, p) = Smallest(there)
                                                             /\ text[p] = query.with)
              [] OTHER -> query.says = YesNo(value = query.with)
=============================================================================
