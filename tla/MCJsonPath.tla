------------------------------ MODULE MCJsonPath ------------------------------
(***************************************************************************)
(* An instance of JsonPath for TLC.  Its texts are all short ones, JSON or *)
(* not, and JSON texts that nest three deep; some are asked for paths.     *)
(***************************************************************************)
EXTENDS JsonPath, TLC

\* The string "a", the empty one, what 1 becomes in quotes, and a string that looks
\* like a subscript.
MCNames == {"a", "empty", "one", "[0]"}
MCInQuotes == [p \in {"1"} |-> "one"]

MCSubscript == [i \in -IntBound..9 |->
  CASE i = -2 -> "[-2]" [] i = -1 -> "[-1]" [] i = 0 -> "[0]" [] i = 1 -> "[1]"
    [] i = 2 -> "[2]" [] OTHER -> "[n]"]

Alphabet == Opening \cup Closing \cup {":", ",", "a", "empty", "1", Odd}

\* Every text of up to three lexemes.
Short == UNION {[1..n -> Alphabet] : n \in 0..3}

Arrays(vs) == {<<"[", "]">>} \cup {<<"[">> \o v \o <<"]">> : v \in vs}
Lists(us, vs) == {<<"[">> \o u \o <<",">> \o v \o <<"]">> : u \in us, v \in vs}
Member(n, v) == <<n, ":">> \o v
Members(ns, vs) == {Member(n, v) : n \in ns, v \in vs}
Objects(ms) == {<<"{", "}">>} \cup {<<"{">> \o m \o <<"}">> : m \in ms}
Pairs(ms, ns) == {<<"{">> \o m \o <<",">> \o n \o <<"}">> : m \in ms, n \in ns}

Atoms == {<<"a">>, <<"1">>}
AllAtoms == Atoms \cup {<<"empty">>}
Simple == Arrays(AllAtoms) \cup Objects(Members({"a"}, AllAtoms))
Longer == Simple \cup Lists(Atoms, Atoms)
          \cup Pairs(Members({"a"}, Atoms), Members({"a", "empty"}, {<<"1">>}))
Deep == Arrays(Longer) \cup Objects(Members({"a"}, Longer))
        \cup Lists(Simple, Atoms) \cup Pairs(Members({"a"}, Simple), Members({"a"}, {<<"a">>}))

\* What is accepted and is not JSON: a key with two values, a bracket too many, a
\* member without a value, a string below an object that is closed.
Sloppy == {<<"{", "a", ":", "a", "a", "}">>, <<"{", "}", ":", "}">>,
           <<"{", "a", ":", "1", ",", "a", "}">>, <<"{", "}", ":", "a">>}

\* A key that looks like a subscript, or is there twice: paths that collide.
Colliding == {<<"{", "a", ":", "[", "a", "]", ",", "a", ":", "{", "[0]", ":", "1", "}", "}">>,
              <<"{", "a", ":", "{", "[0]", ":", "1", "}", ",", "a", ":", "[", "a", "]", "}">>,
              <<"{", "a", ":", "1", ",", "a", ":", "[", "1", ",", "a", "]", "}">>}

MCTexts == Short \cup Colliding \cup Sloppy \cup Longer \cup Deep \cup Objects(Members({"a"}, Arrays(Objects(Members({"a"}, Atoms)))))

MCFragments ==
  {[type |-> "string", text |-> <<"a">>],
   [type |-> "primitive", text |-> <<"1">>],
   [type |-> "object", text |-> <<"{", "a", ":", "1", "}">>],
   [type |-> "object", text |-> <<"{">>],
   [type |-> "array", text |-> <<"[", "]">>],
   [type |-> "array", text |-> <<"a">>],
   [type |-> "string", text |-> <<"a", ",", "a">>]}

---------------------------------------------------------------------------
(* What is asked                                                           *)

Mark(c) == <<[is |-> c, of |-> ""]>>
Label == <<[is |-> "label", of |-> "a"]>>
Quoted(n) == <<[is |-> "quoted", of |-> n]>>
Apostrophed == <<[is |-> "apostrophed", of |-> "a"]>>
Number(n) == <<[is |-> "int", of |-> n]>>
Float == <<[is |-> "float", of |-> "1.5"]>>

LexemesOfPaths ==
  {Mark(c) : c \in {".", "[", "]", "=", "==", "!=", "$", "*", "odd"}}
  \cup {Label, Quoted("a"), Apostrophed, Number(0), Float}

MCSegments ==
  {Mark(".") \o Label, Mark("[") \o Mark("]"), Mark("[") \o Mark("*") \o Mark("]")}
  \cup {Mark("[") \o x \o Mark("]") : x \in {Number(0), Number(1), Number(2 * IntBound), Quoted("[0]"), Apostrophed}}

MCFilters ==
  {o \o v : o \in {Mark("="), Mark("=="), Mark("!=")}, v \in {Number(1), Float, Quoted("a"), Apostrophed}}

Roots == {<<>>, Mark("$")}

\* Up to two segments below a root or not, with a filter or not.
Bodies == {<<>>} \cup MCSegments \cup {s \o r : s \in MCSegments, r \in MCSegments}
Plain == {r \o b : r \in Roots, b \in Bodies}
Filtered == {r \o b \o f : r \in Roots, b \in {<<>>} \cup MCSegments, f \in MCFilters}

\* One lexeme too few or one too many.
Without(x, p) == SubSeq(x, 1, p - 1) \o SubSeq(x, p + 1, Len(x))
With(x, p, e) == SubSeq(x, 1, p) \o e \o SubSeq(x, p + 1, Len(x))
Sample == {Mark("$") \o Mark(".") \o Label \o Mark("[") \o Number(1) \o Mark("]") \o Mark("==") \o Quoted("a"),
           Mark(".") \o Label \o Mark("[") \o Mark("]") \o Mark("=") \o Quoted("a")}
Near == UNION {{Without(x, p) : p \in DOMAIN x} : x \in Sample}
        \cup UNION {{With(x, p, e) : p \in 0..Len(x), e \in LexemesOfPaths} : x \in Sample}

ShortPaths == {<<>>} \cup LexemesOfPaths \cup {x \o y : x \in LexemesOfPaths, y \in LexemesOfPaths}

Ask(by, xs) == [by : {by}, expression : xs]
AllAsks == Ask("path", ShortPaths \cup Plain \cup Filtered \cup Near) \cup Ask("engine", ShortPaths)

Root == Mark("$")
A == Mark(".") \o Label
At(n) == Mark("[") \o Number(n) \o Mark("]")
Is(o, v) == Mark(o) \o v

SomeAsks ==
  Ask("path", {A, A \o A, A \o At(1), At(0), At(0) \o A, A \o Is("=", Quoted("a")),
               At(0) \o Is("=", Quoted("a")), A \o At(0) \o Is("!=", Quoted("a"))})
  \cup Ask("engine", {Root, Root \o A \o At(0) \o A, Root \o A \o At(0),
                      Root \o A \o Is("==", Apostrophed), Root \o At(1)})

\* A caller who asks nothing, one who asks everything of a string on its own, and
\* one who asks what the texts may have an answer to.
MCCallers == {"quiet", "thorough", "usual"}
MCReads == [c \in MCCallers |->
  CASE c = "quiet" -> MCTexts [] c = "thorough" -> {<<"a">>}
    [] OTHER -> Colliding \cup Lists(Arrays({<<"a">>}), Atoms) \cup {<<"a">>}]
MCAsks == [c \in MCCallers |->
  CASE c = "quiet" -> {} [] c = "thorough" -> AllAsks [] OTHER -> SomeAsks]
=============================================================================
