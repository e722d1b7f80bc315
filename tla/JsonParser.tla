------------------------------ MODULE JsonParser ------------------------------
(* jsmn_parser: the tokenizer the JSON engine reads a section with, the index of
   paths it builds on demand, the search for a key and the edits that splice a
   fragment into the text and parse the result again.

   A text is a sequence of lexemes: a bracket, a colon, a comma, a string in its
   quotes, a number or literal, or a character no JSON text has outside of
   strings.  Positions count lexemes; blanks are left out.  A path is kept as the
   sequence of its labels, where the code keeps a hash of them.               *)
EXTENDS Integers, Sequences, FiniteSets

CONSTANTS Names,       \* contents of strings
          EmptyName,   \* the content of ""
          Primitives,  \* numbers and literals
          Odd,         \* a character that starts no lexeme
          Texts,       \* what a parser is created with
          Fragments,   \* values for an edit: [type, text]
          InQuotes,    \* InQuotes[p]: the string with the characters of p
          Subscript,   \* Subscript[i]: the label of element i, the characters "[i]"
          MaxEdits     \* bound: edits of a parser

Opening == {"{", "["}
Closing == {"}", "]"}
Lexemes == Opening \cup Closing \cup {":", ","} \cup Names \cup Primitives \cup {Odd}
Types == {"object", "array", "string", "primitive"}

ASSUME LexemesAssumption ==
  /\ EmptyName \in Names
  /\ Names \cap (Opening \cup Closing \cup {":", ","} \cup Primitives \cup {Odd}) = {}
  /\ Primitives \cap (Opening \cup Closing \cup {":", ","} \cup {Odd}) = {}
  /\ Odd \notin Opening \cup Closing \cup {":", ","}
  /\ Texts \subseteq Seq(Lexemes)
  /\ Fragments \subseteq [type: Types, text: Seq(Lexemes)]
  /\ InQuotes \in [Primitives -> Names]
  /\ MaxEdits \in Nat

VARIABLES
  pc,      \* "parse", "close", "idle", "failed", "render", "find"
  text,    \* m_js of the parser at work
  pos,     \* m_pos
  tokens,  \* m_tokens up to m_token_next
  super,   \* m_toksuper, 0 for -1
  walk,    \* parse, '}': the token whose end is looked for
  edit,    \* the edit under way: which parser is at work, and for whom
  edits,   \* how many edits the parser has had
  sound,   \* auxiliary: the text was JSON, and so was all that was put into it
  paths,   \* m_paths: path -> token
  dirty,   \* m_paths_dirty
  frames,  \* the calls of render, the innermost last
  at,      \* render's token, or find_key_in_object's i
  sought   \* the last search: the object, the name and the answer; whatever the
           \* caller does next but update_value_for_key has no use for it

parser == <<text, pos, tokens, super>>
index == <<paths, dirty, frames>>
vars == <<pc, text, pos, tokens, super, walk, edit, edits, sound, paths, dirty,
          frames, at, sought>>

NoEdit == [stage |-> "none"]
NoSearch == [object |-> 0, name |-> EmptyName, answer |-> 0]
NoPaths == [p \in {} |-> 0]

TypeOfBracket == [c \in Opening \cup Closing |-> IF c \in {"{", "}"} THEN "object" ELSE "array"]
IsContainer(t) == t.type \in {"object", "array"}

---------------------------------------------------------------------------
(* The reference: which texts are JSON, and what their tokens are.  A number on
   its own is not accepted, as strict mode wants a comma or bracket behind it. *)

\* How many brackets are open behind position p.
Depth(t, p) == Cardinality({q \in 1..p : t[q] \in Opening})
               - Cardinality({q \in 1..p : t[q] \in Closing})

\* The bracket that position p is directly inside of, 0 at the top: the last one
\* that opens at the depth of the lexemes around p.
Inside(t, p) ==
  LET depth == Depth(t, p - 1)
      outer == {q \in 1..(p - 1) : t[q] \in Opening /\ Depth(t, q) = depth}
  IN IF outer = {} THEN 0 ELSE CHOOSE q \in outer : \A r \in outer : r <= q

Closer(t, p) == CHOOSE q \in p..Len(t) :
                  Depth(t, q) < Depth(t, p) /\ \A r \in p..(q - 1) : Depth(t, r) >= Depth(t, p)

InObject(t, p) == Inside(t, p) # 0 /\ t[Inside(t, p)] = "{"
IsKey(t, p) == t[p] \in Names /\ InObject(t, p) /\ t[p - 1] \in {"{", ","}
StartsValue(c) == c \in Opening \cup Names \cup Primitives

\* Lexeme p may follow the one in front of it.
MayFollow(t, p) ==
  LET c == t[p]
      before == t[p - 1]
      valueBefore == before \in Closing \cup Names \cup Primitives /\ ~IsKey(t, p - 1)
  IN CASE c \in Closing -> /\ valueBefore \/ before \in Opening
                           /\ TypeOfBracket[c] = TypeOfBracket[t[Inside(t, p)]]
       [] c = ","       -> valueBefore /\ Inside(t, p) # 0
       [] c = ":"       -> before \in Names /\ IsKey(t, p - 1)
       [] OTHER         -> IF InObject(t, p) /\ before # ":" THEN c \in Names /\ before \in {"{", ","}
                           ELSE StartsValue(c) /\ before \in {"[", ",", ":"}

IsJson(t) ==
  /\ t # <<>>
  /\ \A p \in 1..Len(t) : t[p] \in Lexemes \ {Odd} /\ Depth(t, p) >= 0
  /\ Depth(t, Len(t)) = 0
  /\ t[1] \in Opening \cup Names
  /\ \A p \in 2..Len(t) : Inside(t, p) # 0 /\ MayFollow(t, p)

\* A value that may stand in a JSON text.
IsValue(t) == IsJson(t) \/ (Len(t) = 1 /\ t[1] \in Primitives)

---------------------------------------------------------------------------
(* parse: one action for a lexeme                                          *)

Init ==
  /\ pc = "parse"
  /\ text \in Texts /\ pos = 1 /\ tokens = <<>> /\ super = 0 /\ walk = 0
  /\ edit = NoEdit /\ edits = 0
  /\ sound = IsJson(text)
  /\ paths = NoPaths /\ dirty = TRUE /\ frames = <<>> /\ at = 0
  /\ sought = NoSearch

Reading(lexemes) == pc = "parse" /\ pos <= Len(text) /\ text[pos] \in lexemes

\* jsmn_alloc_token and jsmn_fill_token; the token above has one part more.
NewToken(type, from, to) ==
  [type |-> type, start |-> from, end |-> to, size |-> 0, parent |-> super]

\* Plausible bug: the token above is not told of its new part.
AddedUncounted(t) == Append(tokens, t)

Added(t) ==
  Append(IF super = 0 THEN tokens ELSE [tokens EXCEPT ![super].size = @ + 1], t)

\* In strict mode an object or array cannot become a key.
MayOpen == ~(super # 0 /\ tokens[super].type = "object")

OpenContainer ==
  /\ Reading(Opening) /\ MayOpen
  /\ tokens' = Added(NewToken(TypeOfBracket[text[pos]], pos, 0))
  /\ super' = Len(tokens) + 1
  /\ pos' = pos + 1
  /\ UNCHANGED <<pc, text, walk, edit, edits, sound, index, at, sought>>

\* A bracket that closes: look for the token that is still open, from the last
\* one upwards.
CloseContainer ==
  /\ Reading(Closing) /\ tokens # <<>>
  /\ pc' = "close" /\ walk' = Len(tokens)
  /\ UNCHANGED <<parser, edit, edits, sound, index, at, sought>>

Closes == tokens[walk].type = TypeOfBracket[text[pos]]

WalkUp ==
  /\ pc = "close" /\ tokens[walk].end # 0 /\ tokens[walk].parent # 0
  /\ walk' = tokens[walk].parent
  /\ UNCHANGED <<pc, parser, edit, edits, sound, index, at, sought>>

CloseHere ==
  /\ pc = "close" /\ tokens[walk].end = 0 /\ Closes
  /\ tokens' = [tokens EXCEPT ![walk].end = pos + 1]
  /\ super' = tokens[walk].parent
  /\ pc' = "parse" /\ pos' = pos + 1 /\ walk' = 0
  /\ UNCHANGED <<text, edit, edits, sound, index, at, sought>>

\* Nothing is open, but the outermost token would fit: the bracket is ignored.
CloseNothing ==
  /\ pc = "close" /\ tokens[walk].end # 0 /\ tokens[walk].parent = 0
  /\ Closes /\ super # 0
  /\ pc' = "parse" /\ pos' = pos + 1 /\ walk' = 0
  /\ UNCHANGED <<text, tokens, super, edit, edits, sound, index, at, sought>>

\* jsmn_parse_string.
EndOfString(p) == IF text[p] = EmptyName THEN p ELSE p + 1

ReadString ==
  /\ Reading(Names)
  /\ tokens' = Added(NewToken("string", pos, EndOfString(pos)))
  /\ pos' = pos + 1
  /\ UNCHANGED <<pc, text, super, walk, edit, edits, sound, index, at, sought>>

\* Primitives must not be keys, nor second values of a key.
MayBePrimitive ==
  ~(super # 0 /\ \/ tokens[super].type = "object"
                 \/ tokens[super].type = "string" /\ tokens[super].size # 0)

\* jsmn_parse_primitive takes everything up to a comma or a closing bracket.
PrimitiveEnds == {q \in pos..Len(text) : text[q] \in Closing \cup {","}}

ReadPrimitive ==
  /\ Reading(Primitives) /\ MayBePrimitive
  /\ \E q \in PrimitiveEnds :
       /\ \A r \in PrimitiveEnds : q <= r
       /\ tokens' = Added(NewToken("primitive", pos, q))
       /\ pos' = q
  /\ UNCHANGED <<pc, text, super, walk, edit, edits, sound, index, at, sought>>

ReadColon ==
  /\ Reading({":"})
  /\ super' = Len(tokens)
  /\ pos' = pos + 1
  /\ UNCHANGED <<pc, text, tokens, walk, edit, edits, sound, index, at, sought>>

\* Plausible bug: what follows a comma stays below the key in front of it.
AfterCommaBelowKey == super

\* A comma behind the value of a key goes back to the object.
AfterComma ==
  IF super # 0 /\ ~IsContainer(tokens[super]) THEN tokens[super].parent ELSE super

ReadComma ==
  /\ Reading({","})
  /\ super' = AfterComma
  /\ pos' = pos + 1
  /\ UNCHANGED <<pc, text, tokens, walk, edit, edits, sound, index, at, sought>>

AllClosed == \A i \in DOMAIN tokens : tokens[i].end # 0

\* JSMN_ERROR_INVAL and JSMN_ERROR_PART.
Errs ==
  \/ Reading(Opening) /\ ~MayOpen
  \/ Reading(Closing) /\ tokens = <<>>
  \/ Reading(Primitives) /\ (~MayBePrimitive \/ PrimitiveEnds = {})
  \/ Reading({Odd})
  \/ pc = "parse" /\ pos > Len(text) /\ ~AllClosed
  \/ pc = "close" /\ tokens[walk].end = 0 /\ ~Closes
  \/ /\ pc = "close" /\ tokens[walk].end # 0 /\ tokens[walk].parent = 0
     /\ ~Closes \/ super = 0

\* Plausible bug: the text that failed stays.
BackToOwnerInTheNewText ==
  /\ text' = text /\ pos' = edit.owner.pos
  /\ tokens' = edit.owner.tokens /\ super' = edit.owner.super
  /\ edit' = NoEdit
  /\ pc' = "idle"

\* The object itself is what it was before the edit.
BackToOwner ==
  /\ text' = edit.owner.text /\ pos' = edit.owner.pos
  /\ tokens' = edit.owner.tokens /\ super' = edit.owner.super
  /\ edit' = NoEdit
  /\ pc' = "idle"

\* A parser that fails is not used again; an edit that fails changes nothing.
ParseFails ==
  /\ Errs
  /\ walk' = 0
  /\ IF edit.stage = "none"
     THEN pc' = "failed" /\ UNCHANGED <<parser, edit>>
     ELSE BackToOwner
  /\ UNCHANGED <<edits, sound, index, at, sought>>

Parsed == pc = "parse" /\ pos > Len(text) /\ AllClosed

FinishParse ==
  /\ Parsed /\ edit.stage = "none"
  /\ pc' = "idle"
  /\ dirty' = TRUE
  /\ UNCHANGED <<parser, walk, edit, edits, sound, paths, frames, at, sought>>

---------------------------------------------------------------------------
(* Edits: a fragment is parsed by a parser of its own, then the new text   *)

\* A parser for text t starts; the edited one is kept.
StartParser(t, e) ==
  /\ text' = t /\ pos' = 1 /\ tokens' = <<>> /\ super' = 0
  /\ edit' = e
  /\ pc' = "parse"

Owner == [text |-> text, pos |-> pos, tokens |-> tokens, super |-> super]

Edit(stage, type, new, valid) ==
  [stage |-> stage, type |-> type, new |-> new, valid |-> valid, owner |-> Owner]

\* Plausible bug: the comma is there or not whatever the container holds.
InsertedWithoutComma(o, new) ==
  SubSeq(text, 1, tokens[o].start) \o new \o SubSeq(text, tokens[o].start + 1, Len(text))

\* build_insert_candidate: behind the bracket, with a comma if there was a part.
Inserted(o, new) ==
  SubSeq(text, 1, tokens[o].start) \o new
  \o (IF tokens[o].size = 0 THEN <<>> ELSE <<",">>)
  \o SubSeq(text, tokens[o].start + 1, Len(text))

MayEdit == pc = "idle" /\ edits < MaxEdits

\* inster_kv_into_obj and insert_value_in_list, up to the parse of the fragment.
Insert(type, prefix) ==
  \E o \in DOMAIN tokens, f \in Fragments :
    /\ tokens[o].type = type
    /\ f.text # <<>>
    /\ StartParser(f.text, Edit("fragment", f.type, Inserted(o, prefix \o f.text), IsValue(f.text)))

InsertMember ==
  /\ MayEdit
  /\ \E n \in Names : Insert("object", <<n, ":">>)
  /\ edits' = edits + 1 /\ sought' = NoSearch
  /\ UNCHANGED <<walk, sound, index, at>>

InsertElement ==
  /\ MayEdit
  /\ Insert("array", <<>>)
  /\ edits' = edits + 1 /\ sought' = NoSearch
  /\ UNCHANGED <<walk, sound, index, at>>

\* update_value_for_key replaces what lies between start and end of the token
\* behind the key: of a string only the content, its quotes stay.
Spliced(old, f) ==
  IF tokens[old].type # "string"
  THEN SubSeq(text, 1, tokens[old].start - 1) \o f \o SubSeq(text, tokens[old].end, Len(text))
  ELSE SubSeq(text, 1, tokens[old].start - 1)
       \o (CASE f[1] = EmptyName    -> <<EmptyName, EmptyName>>
             [] f[1] \in Primitives -> <<InQuotes[f[1]]>>
             [] OTHER               -> <<EmptyName, Odd, EmptyName>>)
       \o SubSeq(text, tokens[old].start + 1, Len(text))

\* The caller has searched for the key.  In place of a string only fragments of
\* one lexeme are tried.
UpdateValue ==
  /\ MayEdit /\ sought.answer # 0 /\ sought.answer < Len(tokens)
  /\ \E f \in Fragments :
       LET old == sought.answer + 1 IN
       /\ tokens[old].type = "string" => Len(f.text) = 1 /\ f.text[1] \in Names \cup Primitives
       /\ StartParser(Spliced(old, f.text),
                      Edit("candidate", f.type, <<>>, IsValue(f.text) /\ tokens[old].type # "string"))
  /\ edits' = edits + 1 /\ sought' = NoSearch
  /\ UNCHANGED <<walk, sound, index, at>>

\* validate_json_fragment: the fragment parses and starts with the type.
FragmentIsGood == tokens # <<>> /\ tokens[1].type = edit.type

AcceptFragment ==
  /\ Parsed /\ edit.stage = "fragment" /\ FragmentIsGood
  /\ StartParser(edit.new, [edit EXCEPT !.stage = "candidate"])
  /\ UNCHANGED <<walk, edits, sound, index, at, sought>>

RejectFragment ==
  /\ Parsed /\ edit.stage = "fragment" /\ ~FragmentIsGood
  /\ BackToOwner
  /\ UNCHANGED <<walk, edits, sound, index, at, sought>>

\* Plausible bug: the index of the old text is kept.
NewIndexKept == UNCHANGED <<paths, dirty>>

\* swap_state takes the new parser's index, which is yet to be built.
NewIndex == paths' = NoPaths /\ dirty' = TRUE

CommitEdit ==
  /\ Parsed /\ edit.stage = "candidate"
  /\ pc' = "idle" /\ edit' = NoEdit
  /\ sound' = (sound /\ edit.valid)
  /\ NewIndex
  /\ UNCHANGED <<parser, walk, edits, frames, at, sought>>

---------------------------------------------------------------------------
(* render: the index of paths                                              *)

\* The labels of a part: a key that looks like a subscript is one.
Key(i) == text[tokens[i].start]
Element(i) == Subscript[i]

\* Plausible bug: of two equal paths the last one counts.
EmplacedAnew(p, i) == [q \in DOMAIN paths \cup {p} |-> IF q = p THEN i ELSE paths[q]]

\* A path that is there already keeps its token.
Emplaced(p, i) ==
  IF p \in DOMAIN paths THEN paths ELSE [q \in DOMAIN paths \cup {p} |-> IF q = p THEN i ELSE paths[q]]

Frame(i, p) == [token |-> i, path |-> p, next |-> 0]

\* get_path builds the index if it is not current.
StartRender ==
  /\ pc = "idle" /\ dirty
  /\ IF tokens # <<>> /\ IsContainer(tokens[1])
     THEN pc' = "render" /\ frames' = <<Frame(1, <<>>)>> /\ at' = 2 /\ paths' = NoPaths
          /\ UNCHANGED dirty
     ELSE paths' = [p \in (IF tokens = <<>> THEN {} ELSE {<<>>}) |-> 1] /\ dirty' = FALSE
          /\ UNCHANGED <<pc, frames, at>>
  /\ sought' = NoSearch
  /\ UNCHANGED <<parser, walk, edit, edits, sound>>

Top == frames[Len(frames)]
InFrame == pc = "render" /\ at <= Len(tokens) /\ tokens[at].start < tokens[Top.token].end
IsPart == tokens[at].parent = Top.token

\* A part with path p and value v: a container is entered.
Visit(p, v, next) ==
  LET below == [frames EXCEPT ![Len(frames)].next = next] IN
  /\ paths' = Emplaced(p, v)
  /\ frames' = IF IsContainer(tokens[v]) THEN Append(below, Frame(v, p)) ELSE below
  /\ at' = v + 1
  /\ UNCHANGED <<pc, parser, walk, edit, edits, sound, dirty, sought>>

RenderMember ==
  /\ InFrame /\ IsPart /\ tokens[Top.token].type = "object"
  /\ tokens[at].type = "string" /\ at < Len(tokens)
  /\ Visit(Append(Top.path, Key(at)), at + 1, Top.next)

RenderElement ==
  /\ InFrame /\ IsPart /\ tokens[Top.token].type = "array"
  /\ Visit(Append(Top.path, Element(Top.next)), at, Top.next + 1)

RenderSkip ==
  /\ InFrame /\ ~IsPart
  /\ at' = at + 1
  /\ UNCHANGED <<pc, parser, walk, edit, edits, sound, index, sought>>

RenderReturn ==
  /\ pc = "render" /\ ~InFrame
  /\ frames' = SubSeq(frames, 1, Len(frames) - 1)
  /\ IF Len(frames) = 1 THEN pc' = "idle" /\ dirty' = FALSE /\ at' = 0 ELSE UNCHANGED <<pc, dirty, at>>
  /\ UNCHANGED <<parser, walk, edit, edits, sound, paths, sought>>

\* A key without a value throws; the index stays to be built.
RenderThrows ==
  /\ InFrame /\ IsPart /\ tokens[Top.token].type = "object"
  /\ tokens[at].type # "string" \/ at = Len(tokens)
  /\ pc' = "idle" /\ frames' = <<>> /\ at' = 0
  /\ UNCHANGED <<parser, walk, edit, edits, sound, paths, dirty, sought>>

---------------------------------------------------------------------------
(* find_key_in_object                                                      *)

StartFind ==
  /\ pc = "idle"
  /\ \E o \in DOMAIN tokens, n \in Names :
       /\ tokens[o].type = "object"
       /\ sought' = [object |-> o, name |-> n, answer |-> 0]
       /\ at' = o + 1
  /\ pc' = "find"
  /\ UNCHANGED <<parser, walk, edit, edits, sound, index>>

InSearch == pc = "find" /\ at <= Len(tokens) /\ tokens[at].start < tokens[sought.object].end

\* Plausible bug: values are compared as well as keys.
IsSoughtAnywhere == tokens[at].type = "string" /\ text[tokens[at].start] = sought.name

\* Parts of an object are strings; a container's text is never a name.
IsSought ==
  /\ tokens[at].parent = sought.object
  /\ tokens[at].type = "string" /\ text[tokens[at].start] = sought.name

FindKey ==
  /\ InSearch /\ IsSought
  /\ sought' = [sought EXCEPT !.answer = at]
  /\ pc' = "idle" /\ at' = 0
  /\ UNCHANGED <<parser, walk, edit, edits, sound, index>>

\* On to the first token behind this one: at an empty string that is this one.
FindNext ==
  /\ InSearch /\ ~IsSought
  /\ \E j \in at..(Len(tokens) + 1) :
       /\ \A i \in at..(j - 1) : tokens[i].start < tokens[at].end
       /\ j <= Len(tokens) => tokens[j].start >= tokens[at].end
       /\ at' = j
  /\ UNCHANGED <<pc, parser, walk, edit, edits, sound, index, sought>>

FindNothing ==
  /\ pc = "find" /\ ~InSearch
  /\ pc' = "idle" /\ at' = 0
  /\ UNCHANGED <<parser, walk, edit, edits, sound, index, sought>>

Next ==
  \/ OpenContainer \/ CloseContainer \/ WalkUp \/ CloseHere \/ CloseNothing
  \/ ReadString \/ ReadPrimitive \/ ReadColon \/ ReadComma
  \/ ParseFails \/ FinishParse
  \/ InsertMember \/ InsertElement \/ UpdateValue
  \/ AcceptFragment \/ RejectFragment \/ CommitEdit
  \/ StartRender \/ RenderMember \/ RenderElement \/ RenderSkip \/ RenderReturn \/ RenderThrows
  \/ StartFind \/ FindKey \/ FindNext \/ FindNothing

Spec == Init /\ [][Next]_vars

---------------------------------------------------------------------------
(* Properties                                                              *)

\* The parser at work is the object itself, and its text was accepted.
Quiet == pc \in {"idle", "render", "find"}

\* Type invariant: every token, bracket and frame that is used exists.
TypeOK ==
  /\ pc \in {"parse", "close", "idle", "failed", "render", "find"}
  /\ text \in Seq(Lexemes) /\ pos \in 1..(Len(text) + 1)
  /\ tokens \in Seq([type: Types, start: Nat, end: Nat, size: Nat, parent: Nat])
  /\ super \in 0..Len(tokens)
  /\ pc = "close" => walk \in DOMAIN tokens /\ pos <= Len(text) /\ text[pos] \in Closing
  /\ edit.stage \in {"none", "fragment", "candidate"}
  /\ edits \in 0..MaxEdits /\ sound \in BOOLEAN /\ dirty \in BOOLEAN
  /\ \A p \in DOMAIN paths : Quiet => paths[p] \in DOMAIN tokens
  /\ \A k \in DOMAIN frames : frames[k].token \in DOMAIN tokens
  /\ pc = "render" => frames # <<>>
  /\ sought.object # 0 /\ Quiet => sought.object \in DOMAIN tokens
  /\ sought.answer # 0 /\ Quiet => sought.answer \in DOMAIN tokens

\* Whatever the text, accepted or not, the tokens form a forest: a parent is
\* older than its parts and counts them, and the parts of an object are strings,
\* so that render never meets an "unexpected object child token type".
LinksAreSound ==
  /\ \A i \in DOMAIN tokens :
       /\ tokens[i].parent < i
       /\ tokens[i].size = Cardinality({j \in DOMAIN tokens : tokens[j].parent = i})
       /\ tokens[i].parent # 0 /\ tokens[tokens[i].parent].type = "object" =>
            tokens[i].type = "string"

Starts(t) == {p \in 1..Len(t) : StartsValue(t[p])}
NumberOf(t, p) == Cardinality({q \in Starts(t) : q <= p})
ParentOf(t, p) == IF p > 1 /\ t[p - 1] = ":" THEN NumberOf(t, p - 2)
                  ELSE IF Inside(t, p) = 0 THEN 0 ELSE NumberOf(t, Inside(t, p))

\* A JSON text is never refused, and its tokens are its values and keys in order,
\* each with its extent, its parent - of a value, its key - and its parts.
JsonIsParsed ==
  /\ pc = "failed" => ~IsJson(text)
  /\ pc = "idle" /\ IsJson(text) =>
       /\ Len(tokens) = Cardinality(Starts(text))
       /\ \A p \in Starts(text) :
            tokens[NumberOf(text, p)] =
              [type   |-> CASE text[p] \in Opening -> TypeOfBracket[text[p]]
                            [] text[p] \in Names   -> "string"
                            [] OTHER               -> "primitive",
               start  |-> p,
               end    |-> CASE text[p] \in Opening -> Closer(text, p) + 1
                            [] text[p] \in Names   -> EndOfString(p)
                            [] OTHER               -> p + 1,
               size   |-> Cardinality({q \in Starts(text) : ParentOf(text, q) = NumberOf(text, p)}),
               parent |-> ParentOf(text, p)]

\* The path of every token, by its parents.
PathOf ==
  LET f[i \in DOMAIN tokens] ==
        LET up == tokens[i].parent IN
        IF up = 0 THEN <<>>
        ELSE IF tokens[up].type = "string" THEN Append(f[tokens[up].parent], Key(up))
        ELSE Append(f[up], Element(Cardinality({j \in 1..(i - 1) : tokens[j].parent = up})))
  IN f

\* The tokens that have a path: values, but not the outermost container.
HavePaths == {i \in DOMAIN tokens :
                IF tokens[i].parent = 0 THEN ~IsContainer(tokens[i])
                                        ELSE tokens[tokens[i].parent].type # "object"}

\* A current index holds the paths of the text as it is now, all of them and no
\* others; of equal paths, which a repeated key leads to, it holds the first.
PathsAreRight ==
  pc = "idle" /\ ~dirty /\ IsJson(text) =>
    /\ DOMAIN paths = {PathOf[i] : i \in HavePaths}
    /\ \A p \in DOMAIN paths :
         /\ paths[p] \in HavePaths /\ PathOf[paths[p]] = p
         /\ \A i \in HavePaths : PathOf[i] = p => paths[p] <= i

\* A JSON text stays one, whatever JSON values are inserted into it or put in
\* place of its containers, numbers and literals, and whatever edits fail.
EditsStayJson == pc = "idle" /\ sound => IsJson(text)

\* How an edit may end: refused, with the parser and its index as they were when
\* it began, and only over a text that is not JSON or a fragment that is not of
\* the type that was asked for; or kept, when all of the new text was parsed.
EndsRefused ==
  /\ Owner' = edit.owner /\ UNCHANGED index
  /\ IsJson(text) => edit.stage = "fragment" /\ tokens[1].type # edit.type
EndsKept == edit.stage = "candidate" /\ Parsed /\ UNCHANGED parser /\ dirty'

\* An edit changes everything or nothing: what it goes back to is the parser as it
\* was when the edit began, through the parse of the fragment and of the new text,
\* and nothing but an edit changes the text (testInvalidInsertDoesNotMutateObject,
\* testInvalidUpdateDoesNotMutateObject).
EditStep ==
  /\ edit.stage = "none" /\ edit'.stage = "none" => text' = text
  /\ edit'.stage # "none" =>
       edit'.owner = (IF edit.stage = "none" THEN Owner ELSE edit.owner) /\ UNCHANGED index
  /\ edit.stage # "none" /\ edit'.stage = "none" => EndsRefused \/ EndsKept

EditsAreAllOrNothing == [][EditStep]_vars

\* find_key_in_object, where it ends, answers with the first key of that name
\* that is the object's own, and with none only if there is none.  What a colon
\* behind its bracket hangs below an object, in a text that is not JSON, is none
\* of its keys.
SearchIsRight ==
  LET named == {i \in DOMAIN tokens : /\ tokens[i].parent = sought.object
                                      /\ tokens[i].start < tokens[sought.object].end
                                      /\ text[tokens[i].start] = sought.name}
  IN pc = "idle" /\ sought.object # 0 =>
       IF named = {} THEN sought.answer = 0
       ELSE sought.answer \in named /\ \A i \in named : sought.answer <= i
=============================================================================
