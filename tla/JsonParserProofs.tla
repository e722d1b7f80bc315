--------------------------- MODULE JsonParserProofs ---------------------------
(* Theorems about JsonParser, for any texts, names and fragments: the variables
   have their types, the links between the tokens are sound in whatever state a
   text that need not be JSON leaves the parser, a search finds its key, a text
   that is JSON is read as what it is, and an edit of it leaves it JSON.      *)
EXTENDS JsonParser, FiniteSetTheorems, WellFoundedInduction, NaturalsInduction, TLAPS

---------------------------------------------------------------------------
(* The inductive invariant                                                 *)

Token == [type: Types, start: Nat, end: Nat, size: Nat, parent: Nat]

\* The links of any list of tokens: LinksAreSound of those of an owner, too.
PartsOf(ts, i) == {j \in DOMAIN ts : ts[j].parent = i}

Linked(ts) ==
  \A i \in DOMAIN ts :
    /\ ts[i].parent < i
    /\ ts[i].size = Cardinality(PartsOf(ts, i))
    /\ ts[i].parent # 0 /\ ts[ts[i].parent].type = "object" => ts[i].type = "string"

\* Tokens lie inside of the text.
Fits(ts, t) ==
  \A i \in DOMAIN ts : ts[i].start \in 1..Len(t) /\ ts[i].end \in 0..(Len(t) + 1)

ParserOK(t, p, ts, s) ==
  /\ t \in Seq(Lexemes) /\ p \in 1..(Len(t) + 1)
  /\ ts \in Seq(Token) /\ s \in 0..Len(ts)
  /\ Linked(ts) /\ Fits(ts, t)

Closed(ts) == \A i \in DOMAIN ts : ts[i].end # 0

\* What an edit keeps of the object it is made on.
OwnerOK(o) ==
  /\ o \in [text: Seq(Lexemes), pos: Nat, tokens: Seq(Token), super: Nat]
  /\ ParserOK(o.text, o.pos, o.tokens, o.super)
  /\ Closed(o.tokens)

EditOK(e) ==
  /\ e \in [stage: {"fragment", "candidate"}, type: Types, new: Seq(Lexemes),
            valid: BOOLEAN, owner: {e.owner}]
  /\ OwnerOK(e.owner)

Parsing == pc \in {"parse", "close", "failed"}

PcInv ==
  /\ pc \in {"parse", "close", "idle", "failed", "render", "find"}
  /\ pc = "close" => walk \in DOMAIN tokens /\ pos <= Len(text) /\ text[pos] \in Closing
  /\ Quiet => Closed(tokens)
  /\ edits \in 0..MaxEdits /\ sound \in BOOLEAN /\ dirty \in BOOLEAN

ParserInv == ParserOK(text, pos, tokens, super)

EditInv == edit = NoEdit \/ (EditOK(edit) /\ pc \in {"parse", "close"})

\* The index belongs to the tokens of the object, not to those of an edit.
OwnTokens == IF edit.stage = "none" THEN tokens ELSE edit.owner.tokens

Labels == Lexemes \cup {Subscript[i] : i \in Nat}

IndexInv ==
  /\ \A p \in DOMAIN paths : paths[p] \in DOMAIN OwnTokens
  /\ frames \in Seq([token: Nat, path: Seq(Labels), next: Nat])
  /\ \A k \in DOMAIN frames : frames[k].token \in DOMAIN tokens
  /\ pc = "render" <=> frames # <<>>

SearchInv ==
  /\ at \in Nat
  /\ pc \in {"render", "find"} => at >= 1
  /\ sought \in [object: Nat, name: Names, answer: Nat]
  /\ sought.object \in 0..Len(tokens) /\ sought.answer \in 0..Len(tokens)
  /\ pc = "find" => sought.object # 0
  /\ Parsing => sought = NoSearch

IInv == PcInv /\ ParserInv /\ EditInv /\ IndexInv /\ SearchInv

---------------------------------------------------------------------------
(* A token more, and a token that ends                                     *)

LEMMA TokenType ==
  ASSUME NEW t \in Token
  PROVE  /\ t.type \in Types /\ t.start \in Nat /\ t.end \in Nat
         /\ t.size \in Nat /\ t.parent \in Nat
  BY DEF Token

LEMMA TokensType ==
  ASSUME NEW ts \in Seq(Token)
  PROVE  /\ Len(ts) \in Nat /\ DOMAIN ts = 1..Len(ts)
         /\ \A i \in DOMAIN ts :
              /\ ts[i] \in Token
              /\ ts[i].type \in Types /\ ts[i].start \in Nat /\ ts[i].end \in Nat
              /\ ts[i].size \in Nat /\ ts[i].parent \in Nat
  BY TokenType

\* One part more, or an end: nothing else of the token changes.
LEMMA TokenChanged ==
  ASSUME NEW t \in Token, NEW n \in Nat
  PROVE  /\ [t EXCEPT !.size = @ + 1] \in Token /\ [t EXCEPT !.end = n] \in Token
         /\ [t EXCEPT !.size = @ + 1].type = t.type /\ [t EXCEPT !.end = n].type = t.type
         /\ [t EXCEPT !.size = @ + 1].start = t.start /\ [t EXCEPT !.end = n].start = t.start
         /\ [t EXCEPT !.size = @ + 1].end = t.end /\ [t EXCEPT !.end = n].end = n
         /\ [t EXCEPT !.size = @ + 1].size = t.size + 1 /\ [t EXCEPT !.end = n].size = t.size
         /\ [t EXCEPT !.size = @ + 1].parent = t.parent /\ [t EXCEPT !.end = n].parent = t.parent
  BY DEF Token

\* The parts of a token in the list with one more: the new token is a part of
\* the one above it and has no parts.
LEMMA PartsAfterAppend ==
  ASSUME NEW ts \in Seq(Token), Linked(ts), NEW s \in 0..Len(ts),
         NEW us \in Seq(Token), Len(us) = Len(ts) + 1, us[Len(us)].parent = s,
         \A j \in DOMAIN ts : us[j].parent = ts[j].parent
  PROVE  /\ PartsOf(us, Len(us)) = {}
         /\ \A i \in DOMAIN ts :
              Cardinality(PartsOf(us, i)) =
                IF i = s THEN Cardinality(PartsOf(ts, i)) + 1 ELSE Cardinality(PartsOf(ts, i))
  <1>0. /\ Len(ts) \in Nat /\ DOMAIN ts = 1..Len(ts)
        /\ DOMAIN us = DOMAIN ts \cup {Len(us)} /\ Len(us) \notin DOMAIN ts
        /\ \A j \in DOMAIN ts : ts[j].parent \in Nat
    BY TokensType
  <1>1. PartsOf(us, Len(us)) = {}
    <2>1. \A j \in DOMAIN ts : us[j].parent # Len(us)
      BY <1>0 DEF Linked
    <2> QED BY <1>0, <2>1 DEF PartsOf
  <1>2. ASSUME NEW i \in DOMAIN ts
        PROVE  Cardinality(PartsOf(us, i)) =
                 IF i = s THEN Cardinality(PartsOf(ts, i)) + 1 ELSE Cardinality(PartsOf(ts, i))
    <2>1. IsFiniteSet(PartsOf(ts, i)) /\ Len(us) \notin PartsOf(ts, i)
      <3>1. IsFiniteSet(1..Len(ts))
        <4>1. 1 \in Int /\ Len(ts) \in Int
          BY <1>0
        <4> QED BY <4>1, FS_Interval
      <3>2. PartsOf(ts, i) \subseteq 1..Len(ts)
        BY <1>0 DEF PartsOf
      <3> QED BY <1>0, <3>1, <3>2, FS_Subset
    <2>2. PartsOf(us, i) = IF i = s THEN PartsOf(ts, i) \cup {Len(us)} ELSE PartsOf(ts, i)
      BY <1>0 DEF PartsOf
    <2> QED BY <2>1, <2>2, FS_AddElement
  <1> QED BY <1>1, <1>2

LEMMA AddedOK ==
  ASSUME ParserInv, NEW t \in Token, t.size = 0, t.parent = super,
         t.start \in 1..Len(text), t.end \in 0..(Len(text) + 1),
         super # 0 /\ tokens[super].type = "object" => t.type = "string",
         NEW p \in 1..(Len(text) + 1), NEW s \in 0..(Len(tokens) + 1)
  PROVE  ParserOK(text, p, Added(t), s) /\ Len(Added(t)) = Len(tokens) + 1
  <1> DEFINE before == IF super = 0 THEN tokens ELSE [tokens EXCEPT ![super].size = @ + 1]
             after == Added(t)
  <1>1. /\ tokens \in Seq(Token) /\ super \in 0..Len(tokens) /\ text \in Seq(Lexemes)
        /\ Linked(tokens) /\ Fits(tokens, text)
        /\ Len(tokens) \in Nat /\ DOMAIN tokens = 1..Len(tokens)
        /\ \A i \in DOMAIN tokens : tokens[i] \in Token /\ tokens[i].parent \in Nat
                                  /\ tokens[i].size \in Nat
    BY TokensType DEF ParserInv, ParserOK
  <1>2. /\ before \in Seq(Token) /\ Len(before) = Len(tokens)
        /\ \A i \in DOMAIN tokens :
             /\ before[i].parent = tokens[i].parent /\ before[i].type = tokens[i].type
             /\ before[i].start = tokens[i].start /\ before[i].end = tokens[i].end
             /\ before[i].size = IF i = super THEN tokens[i].size + 1 ELSE tokens[i].size
    <2>1. CASE super = 0
      BY <1>1, <2>1
    <2>2. CASE super # 0
      <3>1. super \in DOMAIN tokens
        BY <1>1, <2>2
      <3> DEFINE u == [tokens[super] EXCEPT !.size = @ + 1]
      <3>2. before = [tokens EXCEPT ![super] = u]
        BY <2>2
      <3>3. /\ u \in Token /\ u.parent = tokens[super].parent /\ u.type = tokens[super].type
            /\ u.start = tokens[super].start /\ u.end = tokens[super].end
            /\ u.size = tokens[super].size + 1
        BY <1>1, <3>1, TokenChanged
      <3> HIDE DEF before, u
      <3> QED BY <1>1, <3>1, <3>2, <3>3, SMTT(30)
    <2> QED BY <2>1, <2>2
  <1>3. /\ after \in Seq(Token) /\ Len(after) = Len(tokens) + 1
        /\ after[Len(after)] = t
        /\ \A i \in DOMAIN tokens : after[i] = before[i]
    BY <1>2 DEF Added
  <1>4. DOMAIN after = DOMAIN tokens \cup {Len(after)}
    BY <1>1, <1>3
  <1>5. Fits(after, text)
    BY <1>1, <1>2, <1>3, <1>4 DEF Fits, ParserInv, ParserOK
  <1>6. Linked(after)
    <2>1. /\ PartsOf(after, Len(after)) = {}
          /\ \A i \in DOMAIN tokens :
               Cardinality(PartsOf(after, i)) =
                 IF i = super THEN Cardinality(PartsOf(tokens, i)) + 1
                 ELSE Cardinality(PartsOf(tokens, i))
      <3>1. \A j \in DOMAIN tokens : after[j].parent = tokens[j].parent
        BY <1>2, <1>3
      <3>2. after[Len(after)].parent = super
        BY <1>3
      <3> HIDE DEF after, before
      <3>3. /\ tokens \in Seq(Token) /\ Linked(tokens) /\ super \in 0..Len(tokens)
            /\ after \in Seq(Token) /\ Len(after) = Len(tokens) + 1
        BY <1>1, <1>3
      <3> QED BY <3>1, <3>2, <3>3, PartsAfterAppend, SMTT(30)
    <2> HIDE DEF after, before
    <2>2. ASSUME NEW i \in DOMAIN after
          PROVE  after[i].parent < i /\ after[i].size = Cardinality(PartsOf(after, i))
      <3>1. CASE i = Len(after)
        <4>1. after[i].parent = super /\ after[i].size = 0
          BY <1>3, <3>1
        <4>2. super < i
          BY <1>1, <1>3, <3>1
        <4>3. Cardinality(PartsOf(after, i)) = 0
          BY <2>1, <3>1, FS_EmptySet
        <4> QED BY <4>1, <4>2, <4>3
      <3>2. CASE i \in DOMAIN tokens
        <4>1. tokens[i].parent < i /\ tokens[i].size = Cardinality(PartsOf(tokens, i))
          BY <1>1, <3>2 DEF Linked
        <4>2. /\ after[i].parent = tokens[i].parent
              /\ after[i].size = IF i = super THEN tokens[i].size + 1 ELSE tokens[i].size
          BY <1>2, <1>3, <3>2
        <4>3. Cardinality(PartsOf(after, i)) =
                IF i = super THEN Cardinality(PartsOf(tokens, i)) + 1
                ELSE Cardinality(PartsOf(tokens, i))
          BY <2>1, <3>2
        <4> QED BY <4>1, <4>2, <4>3
      <3> QED BY <1>4, <3>1, <3>2
    <2>3. ASSUME NEW i \in DOMAIN after,
                 after[i].parent # 0, after[after[i].parent].type = "object"
          PROVE  after[i].type = "string"
      <3>1. after[i].parent \in DOMAIN tokens
        <4>1. after[i].parent \in Nat /\ after[i].parent < i /\ i \in 1..Len(after)
          BY <1>3, <2>2, TokensType
        <4> QED BY <1>1, <1>3, <2>3, <4>1
      <3>2. tokens[after[i].parent].type = "object"
        BY <1>2, <1>3, <2>3, <3>1
      <3>3. CASE i = Len(after)
        BY <1>1, <1>3, <2>3, <3>2, <3>3
      <3>4. CASE i \in DOMAIN tokens
        <4>1. after[i].parent = tokens[i].parent /\ after[i].type = tokens[i].type
          BY <1>2, <1>3, <3>4
        <4>2. tokens[i].parent # 0 /\ tokens[tokens[i].parent].type = "object"
          BY <2>3, <3>2, <4>1
        <4> QED BY <1>1, <3>4, <4>1, <4>2 DEF Linked
      <3> QED BY <1>4, <3>3, <3>4
    <2> QED BY <2>2, <2>3 DEF Linked
  <1> QED BY <1>1, <1>3, <1>5, <1>6 DEF ParserOK

\* Closing a token changes no link.
LEMMA EndedOK ==
  ASSUME ParserInv, NEW w \in DOMAIN tokens, NEW e \in 1..(Len(text) + 1),
         NEW p \in 1..(Len(text) + 1)
  PROVE  ParserOK(text, p, [tokens EXCEPT ![w].end = e], tokens[w].parent)
  <1> DEFINE after == [tokens EXCEPT ![w].end = e]
  <1>1. /\ tokens \in Seq(Token) /\ text \in Seq(Lexemes)
        /\ Linked(tokens) /\ Fits(tokens, text)
        /\ Len(tokens) \in Nat /\ DOMAIN tokens = 1..Len(tokens)
        /\ \A i \in DOMAIN tokens : tokens[i] \in Token /\ tokens[i].parent \in Nat
                                  /\ tokens[i].size \in Nat
    BY TokensType DEF ParserInv, ParserOK
  <1>2. tokens[w].parent \in 0..Len(tokens)
    BY <1>1 DEF Linked
  <1>3. /\ after \in Seq(Token) /\ Len(after) = Len(tokens)
        /\ \A i \in DOMAIN tokens :
             /\ after[i].parent = tokens[i].parent /\ after[i].type = tokens[i].type
             /\ after[i].start = tokens[i].start /\ after[i].size = tokens[i].size
             /\ after[i].end = IF i = w THEN e ELSE tokens[i].end
    <2>1. e \in Nat
      BY <1>1
    <2> DEFINE u == [tokens[w] EXCEPT !.end = e]
    <2>2. after = [tokens EXCEPT ![w] = u]
      OBVIOUS
    <2>3. /\ u \in Token /\ u.parent = tokens[w].parent /\ u.type = tokens[w].type
          /\ u.start = tokens[w].start /\ u.end = e /\ u.size = tokens[w].size
      BY <1>1, <2>1, TokenChanged, ZenonT(30)
    <2> HIDE DEF after, u
    <2> QED BY <1>1, <2>2, <2>3
  <1> HIDE DEF after
  <1>4. DOMAIN after = DOMAIN tokens
    BY <1>1, <1>3
  <1>5. Fits(after, text)
    BY <1>1, <1>3, <1>4 DEF Fits
  <1>6. \A i \in DOMAIN tokens : PartsOf(after, i) = PartsOf(tokens, i)
    BY <1>3, <1>4 DEF PartsOf
  <1>7. ASSUME NEW i \in DOMAIN tokens, after[i].parent # 0,
               after[after[i].parent].type = "object"
        PROVE  after[i].type = "string"
    <2>1. tokens[i].parent \in DOMAIN tokens
      BY <1>1, <1>3, <1>7 DEF Linked
    <2>2. /\ after[i].parent = tokens[i].parent /\ after[i].type = tokens[i].type
          /\ after[tokens[i].parent].type = tokens[tokens[i].parent].type
      BY <1>3, <2>1
    <2>3. tokens[i].parent # 0 /\ tokens[tokens[i].parent].type = "object"
      BY <1>7, <2>2
    <2> QED BY <1>1, <2>2, <2>3 DEF Linked
  <1>8. Linked(after)
    BY <1>1, <1>3, <1>4, <1>6, <1>7 DEF Linked
  <1> QED BY <1>1, <1>2, <1>3, <1>5, <1>8 DEF ParserOK, after
---------------------------------------------------------------------------
(* parse                                                                   *)

LEMMA LexemeTypes ==
  /\ Opening \subseteq Lexemes /\ Closing \subseteq Lexemes /\ {":", ",", Odd} \subseteq Lexemes
  /\ Names \subseteq Lexemes /\ Primitives \subseteq Lexemes
  /\ EmptyName \in Names
  /\ \A c \in Opening \cup Closing : TypeOfBracket[c] \in {"object", "array"}
  BY LexemesAssumption DEF Lexemes, TypeOfBracket

LEMMA IsJsonType == \A t : IsJson(t) \in BOOLEAN /\ IsValue(t) \in BOOLEAN
  BY DEF IsJson, IsValue

LEMMA ParserFacts ==
  ASSUME ParserInv
  PROVE  /\ text \in Seq(Lexemes) /\ Len(text) \in Nat /\ pos \in 1..(Len(text) + 1)
         /\ tokens \in Seq(Token) /\ Len(tokens) \in Nat /\ DOMAIN tokens = 1..Len(tokens)
         /\ super \in 0..Len(tokens)
         /\ \A i \in DOMAIN tokens :
              /\ tokens[i].start \in 1..Len(text) /\ tokens[i].end \in 0..(Len(text) + 1)
              /\ tokens[i].parent \in 0..Len(tokens) /\ tokens[i].parent < i
              /\ tokens[i].size \in Nat
  <1>1. tokens \in Seq(Token) /\ Linked(tokens) /\ Fits(tokens, text)
    BY DEF ParserInv, ParserOK
  <1>2. ASSUME NEW i \in DOMAIN tokens
        PROVE  /\ tokens[i].start \in 1..Len(text) /\ tokens[i].end \in 0..(Len(text) + 1)
               /\ tokens[i].parent \in 0..Len(tokens) /\ tokens[i].parent < i
               /\ tokens[i].size \in Nat
    <2>1. tokens[i].parent \in Nat /\ tokens[i].size \in Nat /\ i \in 1..Len(tokens)
          /\ Len(tokens) \in Nat
      BY <1>1, TokensType
    <2> QED BY <1>1, <2>1 DEF Linked, Fits
  <1> QED BY <1>1, <1>2, TokensType DEF ParserInv, ParserOK

\* A step of parse that keeps the tokens it has.
LEMMA ReadingStep ==
  ASSUME IInv, pc \in {"parse", "close"}, pc' \in {"parse", "close"}, ParserInv',
         pc' = "close" => walk' \in DOMAIN tokens' /\ pos' <= Len(text') /\ text'[pos'] \in Closing,
         Len(tokens') >= Len(tokens),
         UNCHANGED <<text, edit, edits, sound, index, at, sought>>
  PROVE  IInv'
  <1>1. /\ Len(tokens) \in Nat /\ DOMAIN tokens = 1..Len(tokens)
        /\ Len(tokens') \in Nat /\ DOMAIN tokens' = 1..Len(tokens')
    BY TokensType DEF IInv, ParserInv, ParserOK
  <1>2. PcInv'
    BY DEF IInv, PcInv, Quiet, index
  <1>3. EditInv'
    BY DEF IInv, EditInv
  <1>4. IndexInv'
    <2>1. frames = <<>> /\ frames' = <<>> /\ paths' = paths /\ edit' = edit
      BY DEF IInv, IndexInv, index
    <2>2. \A p \in DOMAIN paths : paths[p] \in DOMAIN OwnTokens'
      BY <1>1, <2>1 DEF IInv, IndexInv, OwnTokens
    <2> QED BY <2>1, <2>2 DEF IndexInv
  <1>5. SearchInv'
    BY <1>1 DEF IInv, SearchInv, Parsing
  <1> QED BY <1>2, <1>3, <1>4, <1>5 DEF IInv

LEMMA ReadingSteps ==
  ASSUME IInv,
         \/ OpenContainer \/ CloseContainer \/ WalkUp \/ CloseHere \/ CloseNothing
         \/ ReadString \/ ReadPrimitive \/ ReadColon \/ ReadComma
  PROVE  IInv'
  <1> USE DEF Reading
  <1>1. ParserInv /\ PcInv
    BY DEF IInv
  <1>2. CASE OpenContainer
    <2> DEFINE t == NewToken(TypeOfBracket[text[pos]], pos, 0)
    <2>0. /\ pos \in 1..Len(text) /\ super \in Nat
          /\ TypeOfBracket[text[pos]] \in Types
          /\ ~(super # 0 /\ tokens[super].type = "object")
      <3>1. text[pos] \in Opening /\ pos <= Len(text)
        BY <1>2 DEF OpenContainer
      <3>2. TypeOfBracket[text[pos]] \in Types
        BY <3>1, LexemeTypes DEF Types
      <3> QED BY <1>1, <1>2, <3>1, <3>2, ParserFacts DEF OpenContainer, MayOpen
    <2>1. /\ t \in Token /\ t.size = 0 /\ t.parent = super /\ t.start = pos /\ t.end = 0
          /\ ~(super # 0 /\ tokens[super].type = "object")
          /\ pos \in 1..Len(text)
      BY <2>0 DEF NewToken, Token
    <2>2. tokens' = Added(t) /\ super' = Len(tokens) + 1 /\ pos' = pos + 1 /\ text' = text
      BY <1>2 DEF OpenContainer
    <2> HIDE DEF t
    <2>3. pos + 1 \in 1..(Len(text) + 1) /\ Len(tokens) + 1 \in 0..(Len(tokens) + 1)
          /\ t.end \in 0..(Len(text) + 1)
      BY <1>1, <2>1, ParserFacts
    <2>4. ParserOK(text, pos + 1, Added(t), Len(tokens) + 1) /\ Len(Added(t)) = Len(tokens) + 1
      BY <1>1, <2>1, <2>3, AddedOK
    <2>5. ParserInv' /\ Len(tokens') >= Len(tokens)
      BY <1>1, <2>2, <2>4, ParserFacts DEF ParserInv
    <2> QED BY <1>2, <2>5, ReadingStep DEF OpenContainer
  <1>3. CASE CloseContainer
    <2>1. ParserInv' /\ Len(tokens') >= Len(tokens) /\ Len(tokens) \in DOMAIN tokens
      BY <1>1, <1>3, ParserFacts DEF CloseContainer, ParserInv, parser
    <2> QED BY <1>3, <2>1, ReadingStep DEF CloseContainer, parser
  <1>4. CASE WalkUp
    <2>1. ParserInv' /\ Len(tokens') >= Len(tokens)
      BY <1>1, <1>4, ParserFacts DEF WalkUp, ParserInv, parser
    <2>2. walk' \in DOMAIN tokens' /\ pos' <= Len(text') /\ text'[pos'] \in Closing
      BY <1>1, <1>4, ParserFacts DEF WalkUp, PcInv, parser
    <2> QED BY <1>4, <2>1, <2>2, ReadingStep DEF WalkUp, parser
  <1>5. CASE CloseHere
    <2>1. walk \in DOMAIN tokens /\ pos \in 1..Len(text) /\ pos + 1 \in 1..(Len(text) + 1)
      BY <1>1, <1>5, ParserFacts DEF CloseHere, PcInv
    <2>2. ParserOK(text, pos + 1, [tokens EXCEPT ![walk].end = pos + 1], tokens[walk].parent)
      BY <1>1, <2>1, EndedOK
    <2>3. Len(tokens') = Len(tokens)
      BY <1>1, <1>5, ParserFacts DEF CloseHere
    <2>4. ParserInv' /\ Len(tokens') >= Len(tokens)
      BY <1>1, <1>5, <2>2, <2>3, ParserFacts DEF CloseHere, ParserInv
    <2> QED BY <1>5, <2>4, ReadingStep DEF CloseHere
  <1>6. CASE CloseNothing
    <2>1. ParserInv' /\ Len(tokens') >= Len(tokens)
      BY <1>1, <1>6, ParserFacts DEF CloseNothing, PcInv, ParserInv, ParserOK
    <2> QED BY <1>6, <2>1, ReadingStep DEF CloseNothing
  <1>7. CASE ReadString
    <2> DEFINE t == NewToken("string", pos, EndOfString(pos))
    <2>1. /\ t \in Token /\ t.size = 0 /\ t.parent = super /\ t.start = pos /\ t.type = "string"
          /\ t.end \in 0..(Len(text) + 1) /\ pos \in 1..Len(text)
      BY <1>1, <1>7, ParserFacts DEF ReadString, NewToken, EndOfString, Token, Types
    <2>2. tokens' = Added(t) /\ super' = super /\ pos' = pos + 1 /\ text' = text
      BY <1>7 DEF ReadString
    <2> HIDE DEF t
    <2>3. pos + 1 \in 1..(Len(text) + 1) /\ super \in 0..(Len(tokens) + 1)
      BY <1>1, <2>1, ParserFacts
    <2>4. ParserOK(text, pos + 1, Added(t), super) /\ Len(Added(t)) = Len(tokens) + 1
      BY <1>1, <2>1, <2>3, AddedOK
    <2>5. ParserInv' /\ Len(tokens') >= Len(tokens)
      BY <1>1, <2>2, <2>4, ParserFacts DEF ParserInv
    <2> QED BY <1>7, <2>5, ReadingStep DEF ReadString
  <1>8. CASE ReadPrimitive
    <2>1. PICK q \in PrimitiveEnds : tokens' = Added(NewToken("primitive", pos, q)) /\ pos' = q
      BY <1>8 DEF ReadPrimitive
    <2> DEFINE t == NewToken("primitive", pos, q)
    <2>2. q \in pos..Len(text) /\ pos \in 1..Len(text)
      <3>1. pos <= Len(text) /\ q \in pos..Len(text)
        BY <1>8 DEF PrimitiveEnds, ReadPrimitive
      <3> QED BY <1>1, <3>1, ParserFacts
    <2>3. /\ t \in Token /\ t.size = 0 /\ t.parent = super /\ t.start = pos
          /\ ~(super # 0 /\ tokens[super].type = "object")
          /\ t.end \in 0..(Len(text) + 1)
      BY <1>1, <1>8, <2>2, ParserFacts DEF ReadPrimitive, MayBePrimitive, NewToken, Token, Types
    <2>4. tokens' = Added(t)
      BY <2>1
    <2> HIDE DEF t
    <2>5. q \in 1..(Len(text) + 1) /\ super \in 0..(Len(tokens) + 1)
      BY <1>1, <2>2, ParserFacts
    <2>6. ParserOK(text, q, Added(t), super) /\ Len(Added(t)) = Len(tokens) + 1
      BY <1>1, <2>2, <2>3, <2>5, AddedOK
    <2>7. ParserInv' /\ Len(tokens') >= Len(tokens)
      BY <1>1, <1>8, <2>1, <2>4, <2>6, ParserFacts DEF ParserInv, ReadPrimitive
    <2> QED BY <1>8, <2>7, ReadingStep DEF ReadPrimitive
  <1>9. CASE ReadColon
    <2>1. ParserInv' /\ Len(tokens') >= Len(tokens)
      BY <1>1, <1>9, ParserFacts DEF ReadColon, ParserInv, ParserOK
    <2> QED BY <1>9, <2>1, ReadingStep DEF ReadColon
  <1>10. CASE ReadComma
    <2>1. AfterComma \in 0..Len(tokens)
      BY <1>1, ParserFacts DEF AfterComma
    <2>2. /\ super' \in 0..Len(tokens) /\ tokens' = tokens /\ text' = text
          /\ pos' \in 1..(Len(text) + 1)
      <3>1. super' = AfterComma /\ tokens' = tokens /\ text' = text /\ pos' = pos + 1
            /\ pos <= Len(text)
        BY <1>10 DEF ReadComma
      <3> QED BY <1>1, <2>1, <3>1, ParserFacts
    <2>3. ParserInv' /\ Len(tokens') >= Len(tokens)
      BY <1>1, <2>2, ParserFacts DEF ParserInv, ParserOK
    <2> QED BY <1>10, <2>3, ReadingStep DEF ReadComma
  <1> QED BY <1>2, <1>3, <1>4, <1>5, <1>6, <1>7, <1>8, <1>9, <1>10
---------------------------------------------------------------------------
(* Edits                                                                   *)

\* What an edit keeps of the object is the object, all of whose tokens are closed.
LEMMA OwnerFacts ==
  ASSUME PcInv, ParserInv, Quiet PROVE OwnerOK(Owner)
  BY ParserFacts DEF PcInv, OwnerOK, Owner, ParserInv

\* A new parser at work on a text, with no tokens yet.
LEMMA StartParserStep ==
  ASSUME IInv, NEW t \in Seq(Lexemes), NEW e, EditOK(e), StartParser(t, e),
         DOMAIN e.owner.tokens = DOMAIN OwnTokens, pc # "render", sought' = NoSearch,
         edits' \in 0..MaxEdits, UNCHANGED <<walk, sound, index, at>>
  PROVE  IInv'
  <1>1. /\ text' = t /\ pos' = 1 /\ tokens' = <<>> /\ super' = 0 /\ edit' = e /\ pc' = "parse"
        /\ sound' = sound /\ dirty' = dirty /\ paths' = paths /\ frames' = frames /\ at' = at
    BY DEF StartParser, index
  <1>2. ParserInv'
    BY <1>1 DEF ParserInv, ParserOK, Linked, Fits
  <1>3. PcInv' /\ EditInv'
    BY <1>1 DEF IInv, PcInv, EditInv, Quiet
  <1>4. e.stage # "none"
    BY DEF EditOK
  <1>5. IndexInv'
    <2>1. frames = <<>>
      BY DEF IInv, IndexInv
    <2>2. \A p \in DOMAIN paths : paths[p] \in DOMAIN e.owner.tokens
      BY DEF IInv, IndexInv
    <2>3. OwnTokens' = e.owner.tokens
      BY <1>1, <1>4 DEF OwnTokens
    <2> QED BY <1>1, <2>1, <2>2, <2>3 DEF IndexInv
  <1>6. SearchInv'
    <2>1. sought' \in [object: Nat, name: Names, answer: Nat]
          /\ sought'.object = 0 /\ sought'.answer = 0
      BY LexemeTypes DEF NoSearch
    <2>2. Len(tokens') = 0 /\ at' \in Nat /\ pc' = "parse"
      BY <1>1 DEF IInv, SearchInv
    <2> QED BY <2>1, <2>2 DEF SearchInv
  <1> QED BY <1>2, <1>3, <1>5, <1>6 DEF IInv

LEMMA FragmentType ==
  ASSUME NEW f \in Fragments PROVE f.type \in Types /\ f.text \in Seq(Lexemes)
  BY LexemesAssumption

LEMMA EditType ==
  ASSUME PcInv, ParserInv, Quiet, NEW stage \in {"fragment", "candidate"}, NEW type \in Types,
         NEW new \in Seq(Lexemes), NEW valid \in BOOLEAN
  PROVE  EditOK(Edit(stage, type, new, valid)) /\ Edit(stage, type, new, valid).owner = Owner
  BY OwnerFacts DEF EditOK, Edit

\* The parts of the text in front of and behind a position.
LEMMA PartOfText ==
  ASSUME NEW t \in Seq(Lexemes), NEW a \in 1..(Len(t) + 1), NEW b \in 0..Len(t)
  PROVE  SubSeq(t, a, b) \in Seq(Lexemes)
  OBVIOUS

LEMMA OneLexeme == ASSUME NEW c \in Lexemes PROVE <<c>> \in Seq(Lexemes)
  OBVIOUS

LEMMA InsertedType ==
  ASSUME ParserInv, NEW o \in DOMAIN tokens, NEW new \in Seq(Lexemes)
  PROVE  Inserted(o, new) \in Seq(Lexemes)
  <1>1. /\ SubSeq(text, 1, tokens[o].start) \in Seq(Lexemes)
        /\ SubSeq(text, tokens[o].start + 1, Len(text)) \in Seq(Lexemes)
    BY ParserFacts, PartOfText
  <1> DEFINE comma == IF tokens[o].size = 0 THEN <<>> ELSE <<",">>
  <1>2. comma \in Seq(Lexemes)
    <2>1. "," \in Lexemes
      BY LexemeTypes
    <2>2. <<>> \in Seq(Lexemes)
      OBVIOUS
    <2>3. <<",">> \in Seq(Lexemes)
      BY <2>1, OneLexeme
    <2> QED BY <2>2, <2>3, Zenon
  <1>3. Inserted(o, new) = SubSeq(text, 1, tokens[o].start) \o new \o comma
                           \o SubSeq(text, tokens[o].start + 1, Len(text))
    BY DEF Inserted
  <1> HIDE DEF comma
  <1> QED BY <1>1, <1>2, <1>3

LEMMA SplicedType ==
  ASSUME PcInv, ParserInv, Quiet, NEW old \in DOMAIN tokens, NEW f \in Seq(Lexemes),
         tokens[old].type = "string" => Len(f) = 1
  PROVE  Spliced(old, f) \in Seq(Lexemes)
  <1>1. tokens[old].end \in 1..(Len(text) + 1) /\ tokens[old].start \in 1..Len(text)
    BY ParserFacts DEF PcInv, Closed
  <1>2. CASE tokens[old].type # "string"
    <2>1. /\ SubSeq(text, 1, tokens[old].start - 1) \in Seq(Lexemes)
          /\ SubSeq(text, tokens[old].end, Len(text)) \in Seq(Lexemes)
      BY <1>1, ParserFacts, PartOfText
    <2> QED BY <1>2, <2>1 DEF Spliced
  <1>3. CASE tokens[old].type = "string"
    <2> DEFINE middle == CASE f[1] = EmptyName    -> <<EmptyName, EmptyName>>
                           [] f[1] \in Primitives -> <<InQuotes[f[1]]>>
                           [] OTHER               -> <<EmptyName, Odd, EmptyName>>
    <2>1. /\ SubSeq(text, 1, tokens[old].start - 1) \in Seq(Lexemes)
          /\ SubSeq(text, tokens[old].start + 1, Len(text)) \in Seq(Lexemes)
      BY <1>1, ParserFacts, PartOfText, SMTT(30)
    <2>2. middle \in Seq(Lexemes)
      <3>1. f[1] \in Primitives => InQuotes[f[1]] \in Lexemes
        BY LexemesAssumption, LexemeTypes
      <3>2. EmptyName \in Lexemes /\ Odd \in Lexemes
        BY LexemeTypes
      <3> QED BY <3>1, <3>2
    <2>3. Spliced(old, f) = SubSeq(text, 1, tokens[old].start - 1) \o middle
                            \o SubSeq(text, tokens[old].start + 1, Len(text))
      BY <1>3 DEF Spliced
    <2> HIDE DEF middle
    <2> QED BY <2>1, <2>2, <2>3
  <1> QED BY <1>2, <1>3
LEMMA EditSteps ==
  ASSUME IInv, InsertMember \/ InsertElement \/ UpdateValue \/ AcceptFragment
  PROVE  IInv'
  <1>1. ParserInv /\ PcInv /\ MaxEdits \in Nat
    BY LexemesAssumption DEF IInv
  <1>2. MayEdit => /\ edit.stage = "none" /\ Quiet /\ pc # "render" /\ edits + 1 \in 0..MaxEdits
    BY <1>1 DEF IInv, PcInv, EditInv, MayEdit, NoEdit, Quiet
  <1>3. ASSUME MayEdit, NEW type, NEW prefix \in Seq(Lexemes), Insert(type, prefix),
               edits' = edits + 1, sought' = NoSearch, UNCHANGED <<walk, sound, index, at>>
        PROVE  IInv'
    <2>1. PICK o \in DOMAIN tokens, f \in Fragments :
            StartParser(f.text, Edit("fragment", f.type, Inserted(o, prefix \o f.text), IsValue(f.text)))
      BY <1>3 DEF Insert
    <2> DEFINE e == Edit("fragment", f.type, Inserted(o, prefix \o f.text), IsValue(f.text))
    <2>2. f.type \in Types /\ f.text \in Seq(Lexemes)
      BY FragmentType
    <2>3. prefix \o f.text \in Seq(Lexemes)
      BY <1>3, <2>2
    <2>4. Inserted(o, prefix \o f.text) \in Seq(Lexemes) /\ IsValue(f.text) \in BOOLEAN
      BY <1>1, <2>3, InsertedType, IsJsonType
    <2>5. EditOK(e) /\ e.owner = Owner
      BY <1>1, <1>2, <1>3, <2>2, <2>4, EditType
    <2>6. StartParser(f.text, e)
      BY <2>1
    <2> HIDE DEF e
    <2>7. DOMAIN e.owner.tokens = DOMAIN OwnTokens
      BY <1>2, <1>3, <2>5 DEF Owner, OwnTokens
    <2> QED BY <1>2, <1>3, <2>2, <2>5, <2>6, <2>7, StartParserStep
  <1>4. CASE InsertMember
    <2>1. PICK n \in Names : Insert("object", <<n, ":">>)
      BY <1>4 DEF InsertMember
    <2>2. <<n, ":">> \in Seq(Lexemes)
      <3>1. n \in Lexemes /\ ":" \in Lexemes
        BY LexemeTypes
      <3> QED BY <3>1
    <2> QED BY <1>3, <1>4, <2>1, <2>2 DEF InsertMember
  <1>5. CASE InsertElement
    <2>1. <<>> \in Seq(Lexemes)
      OBVIOUS
    <2> QED BY <1>3, <1>5, <2>1 DEF InsertElement
  <1>6. CASE UpdateValue
    <2> DEFINE old == sought.answer + 1
    <2>1. PICK f \in Fragments :
            /\ tokens[old].type = "string" => Len(f.text) = 1 /\ f.text[1] \in Names \cup Primitives
            /\ StartParser(Spliced(old, f.text),
                           Edit("candidate", f.type, <<>>, IsValue(f.text) /\ tokens[old].type # "string"))
      BY <1>6 DEF UpdateValue
    <2> DEFINE e == Edit("candidate", f.type, <<>>, IsValue(f.text) /\ tokens[old].type # "string")
    <2>2. old \in DOMAIN tokens
      BY <1>1, <1>6, ParserFacts DEF UpdateValue, IInv, SearchInv
    <2>3. f.type \in Types /\ f.text \in Seq(Lexemes) /\ <<>> \in Seq(Lexemes) /\ MayEdit
          /\ (IsValue(f.text) /\ tokens[old].type # "string") \in BOOLEAN
      BY <1>6, FragmentType DEF UpdateValue
    <2>4. EditOK(e) /\ e.owner = Owner
      BY <1>1, <1>2, <2>3, EditType
    <2>5. Spliced(old, f.text) \in Seq(Lexemes)
      BY <1>1, <1>2, <2>1, <2>2, <2>3, SplicedType
    <2>6. StartParser(Spliced(old, f.text), e)
      BY <2>1
    <2> HIDE DEF e, old
    <2>7. DOMAIN e.owner.tokens = DOMAIN OwnTokens
      BY <1>2, <2>3, <2>4 DEF Owner, OwnTokens
    <2> QED BY <1>2, <1>6, <2>3, <2>4, <2>5, <2>6, <2>7, StartParserStep DEF UpdateValue
  <1>7. CASE AcceptFragment
    <2> DEFINE e == [edit EXCEPT !.stage = "candidate"]
    <2>1. EditOK(edit) /\ edit.stage = "fragment" /\ pc = "parse"
      BY <1>7 DEF AcceptFragment, Parsed, IInv, EditInv, NoEdit
    <2>2. EditOK(e) /\ e.owner = edit.owner /\ edit.new \in Seq(Lexemes)
      BY <2>1 DEF EditOK
    <2>3. StartParser(edit.new, e)
      BY <1>7 DEF AcceptFragment
    <2> HIDE DEF e
    <2>4. DOMAIN e.owner.tokens = DOMAIN OwnTokens
      BY <2>1, <2>2 DEF OwnTokens
    <2>5. sought' = NoSearch /\ edits' \in 0..MaxEdits
      BY <1>7, <2>1 DEF AcceptFragment, IInv, SearchInv, PcInv, Parsing
    <2> QED BY <1>7, <2>1, <2>2, <2>3, <2>4, <2>5, StartParserStep DEF AcceptFragment
  <1> QED BY <1>4, <1>5, <1>6, <1>7

\* The end of an edit that changes nothing.
LEMMA BackStep ==
  ASSUME IInv, edit.stage # "none", BackToOwner,
         UNCHANGED <<edits, sound, index, at, sought>>
  PROVE  IInv'
  <1>1. EditOK(edit) /\ pc \in {"parse", "close"}
    BY DEF IInv, EditInv, NoEdit
  <1> DEFINE o == edit.owner
  <1>2. OwnerOK(o)
    BY <1>1 DEF EditOK
  <1>3. /\ text' = o.text /\ pos' = o.pos /\ tokens' = o.tokens /\ super' = o.super
        /\ edit' = NoEdit /\ pc' = "idle" /\ paths' = paths /\ frames' = frames /\ dirty' = dirty
    BY DEF BackToOwner, index
  <1>4. ParserInv'
    BY <1>2, <1>3 DEF OwnerOK, ParserInv
  <1>5. PcInv' /\ EditInv'
    BY <1>2, <1>3 DEF IInv, PcInv, EditInv, OwnerOK, Quiet
  <1>6. IndexInv'
    <2>1. frames = <<>> /\ OwnTokens = o.tokens /\ OwnTokens' = o.tokens
      BY <1>1, <1>3 DEF IInv, IndexInv, OwnTokens, NoEdit
    <2>2. \A p \in DOMAIN paths : paths[p] \in DOMAIN o.tokens
      BY <2>1 DEF IInv, IndexInv
    <2> QED BY <1>3, <2>1, <2>2 DEF IndexInv
  <1>7. SearchInv'
    <2>1. sought' = NoSearch /\ sought' = sought
      BY <1>1 DEF IInv, SearchInv, Parsing
    <2>2. Len(tokens') \in Nat
      BY <1>2, <1>3 DEF OwnerOK
    <2> QED BY <1>3, <2>1, <2>2 DEF IInv, SearchInv, Parsing, NoSearch
  <1> QED BY <1>4, <1>5, <1>6, <1>7 DEF IInv

LEMMA EndingSteps ==
  ASSUME IInv, ParseFails \/ FinishParse \/ RejectFragment \/ CommitEdit
  PROVE  IInv'
  <1>1. CASE ParseFails
    <2>1. CASE edit.stage = "none"
      <3>1. pc' = "failed" /\ UNCHANGED <<parser, edit, edits, sound, index, at, sought>>
        BY <1>1, <2>1 DEF ParseFails
      <3>2. pc \in {"parse", "close"}
        BY <1>1 DEF ParseFails, Errs, Reading
      <3>3. ParserInv' /\ PcInv'
        BY <3>1, <3>2 DEF IInv, ParserInv, PcInv, Quiet, parser, index
      <3>4. EditInv'
        BY <2>1, <3>1 DEF IInv, EditInv, EditOK
      <3>5. IndexInv'
        BY <3>1, <3>2 DEF IInv, IndexInv, OwnTokens, parser, index
      <3>6. SearchInv'
        BY <3>1, <3>2 DEF IInv, SearchInv, Parsing, parser
      <3> QED BY <3>3, <3>4, <3>5, <3>6 DEF IInv
    <2>2. CASE edit.stage # "none"
      BY <1>1, <2>2, BackStep DEF ParseFails
    <2> QED BY <2>1, <2>2
  <1>2. CASE FinishParse
    <2>1. /\ pc = "parse" /\ pc' = "idle" /\ edit.stage = "none" /\ AllClosed /\ dirty' = TRUE
          /\ UNCHANGED <<parser, edit, edits, sound, paths, frames, at, sought>>
      BY <1>2 DEF FinishParse, Parsed
    <2>2. ParserInv' /\ PcInv'
      BY <2>1 DEF IInv, ParserInv, PcInv, parser, AllClosed, Closed
    <2>3. EditInv'
      BY <2>1 DEF IInv, EditInv, EditOK
    <2>4. IndexInv'
      BY <2>1 DEF IInv, IndexInv, OwnTokens, parser
    <2>5. SearchInv'
      BY <2>1 DEF IInv, SearchInv, Parsing, parser
    <2> QED BY <2>2, <2>3, <2>4, <2>5 DEF IInv
  <1>3. CASE RejectFragment
    BY <1>3, BackStep DEF RejectFragment
  <1>4. CASE CommitEdit
    <2>1. /\ pc = "parse" /\ pc' = "idle" /\ edit.stage = "candidate" /\ AllClosed
          /\ edit' = NoEdit /\ sound' = (sound /\ edit.valid) /\ paths' = NoPaths /\ dirty' = TRUE
          /\ UNCHANGED <<parser, edits, frames, at, sought>>
      BY <1>4 DEF CommitEdit, Parsed, NewIndex
    <2>2. edit.valid \in BOOLEAN
      BY <2>1 DEF IInv, EditInv, EditOK, NoEdit
    <2>3. ParserInv' /\ PcInv' /\ EditInv'
      BY <2>1, <2>2 DEF IInv, ParserInv, PcInv, EditInv, parser, AllClosed, Closed
    <2>4. IndexInv'
      BY <2>1 DEF IInv, IndexInv, NoPaths, parser
    <2>5. SearchInv'
      BY <2>1 DEF IInv, SearchInv, Parsing, parser
    <2> QED BY <2>3, <2>4, <2>5 DEF IInv
  <1> QED BY <1>1, <1>2, <1>3, <1>4
---------------------------------------------------------------------------
(* The index and the search                                                *)

\* The parser and its edit rest while the index is built or searched.
LEMMA QuietStep ==
  ASSUME IInv, Quiet, Quiet', IndexInv', SearchInv', dirty' \in BOOLEAN,
         UNCHANGED <<parser, edit, edits, sound>>
  PROVE  IInv'
  <1>1. ParserInv' /\ PcInv'
    BY DEF IInv, ParserInv, PcInv, Quiet, parser
  <1>2. EditInv'
    BY DEF IInv, EditInv, Quiet, NoEdit
  <1> QED BY <1>1, <1>2 DEF IInv

LEMMA QuietFacts ==
  ASSUME IInv, Quiet
  PROVE  OwnTokens = tokens /\ sought \in [object: Nat, name: Names, answer: Nat]
  BY DEF IInv, EditInv, OwnTokens, NoEdit, Quiet, SearchInv

LEMMA LastOf ==
  ASSUME NEW S, NEW q \in Seq(S), q # <<>>
  PROVE  /\ Len(q) \in DOMAIN q /\ q[Len(q)] \in S
         /\ SubSeq(q, 1, Len(q) - 1) \in Seq(S)
         /\ Len(SubSeq(q, 1, Len(q) - 1)) = Len(q) - 1
         /\ \A k \in 1..(Len(q) - 1) : SubSeq(q, 1, Len(q) - 1)[k] = q[k]
         /\ DOMAIN SubSeq(q, 1, Len(q) - 1) = 1..(Len(q) - 1)
         /\ SubSeq(q, 1, Len(q) - 1) = <<>> <=> Len(q) = 1
  <1> DEFINE front == SubSeq(q, 1, Len(q) - 1)
  <1>1. Len(q) \in Nat /\ Len(q) >= 1 /\ DOMAIN q = 1..Len(q)
    OBVIOUS
  <1>2. q[Len(q)] \in S
    BY <1>1
  <1>3. /\ front \in Seq(S) /\ Len(front) = Len(q) - 1 /\ DOMAIN front = 1..(Len(q) - 1)
        /\ \A k \in 1..(Len(q) - 1) : front[k] = q[k]
    BY <1>1
  <1> HIDE DEF front
  <1>4. front = <<>> <=> Len(q) = 1
    BY <1>1, <1>3
  <1> QED BY <1>1, <1>2, <1>3, <1>4 DEF front

\* What render does with a part keeps the index within the tokens.
LEMMA VisitStep ==
  ASSUME IInv, pc = "render", NEW p \in Seq(Labels), NEW v \in DOMAIN tokens, NEW next \in Nat,
         Visit(p, v, next)
  PROVE  IInv'
  <1> DEFINE Frames == [token: Nat, path: Seq(Labels), next: Nat]
             below == [frames EXCEPT ![Len(frames)].next = next]
  <1>1. /\ paths' = Emplaced(p, v) /\ at' = v + 1
        /\ frames' = IF IsContainer(tokens[v]) THEN Append(below, Frame(v, p)) ELSE below
        /\ UNCHANGED <<pc, parser, walk, edit, edits, sound, dirty, sought>>
    BY DEF Visit
  <1>2. /\ frames \in Seq(Frames) /\ frames # <<>> /\ v \in Nat
        /\ \A k \in DOMAIN frames : frames[k].token \in DOMAIN tokens
    BY ParserFacts DEF IInv, IndexInv
  <1>3. /\ below \in Seq(Frames) /\ Len(below) = Len(frames) /\ below # <<>>
        /\ \A k \in DOMAIN below : below[k].token \in DOMAIN tokens
    <2>1. Len(frames) \in DOMAIN frames /\ frames[Len(frames)] \in Frames
      <3> HIDE DEF Frames
      <3> QED BY <1>2, LastOf
    <2> DEFINE u == [frames[Len(frames)] EXCEPT !.next = next]
    <2>2. u \in Frames /\ u.token = frames[Len(frames)].token
      BY <2>1
    <2>3. below = [frames EXCEPT ![Len(frames)] = u]
      OBVIOUS
    <2> HIDE DEF u, Frames, below
    <2> QED BY <1>2, <2>1, <2>2, <2>3
  <1>4. Frame(v, p) \in Frames /\ Frame(v, p).token = v
    BY <1>2 DEF Frame
  <1>5. /\ frames' \in Seq(Frames) /\ frames' # <<>>
        /\ \A k \in DOMAIN frames' : frames'[k].token \in DOMAIN tokens
    <2> DEFINE entered == Append(below, Frame(v, p))
    <2>1. /\ entered \in Seq(Frames) /\ entered # <<>>
          /\ \A k \in DOMAIN entered : entered[k].token \in DOMAIN tokens
      <3> HIDE DEF Frames, below
      <3> QED BY <1>3, <1>4
    <2>2. frames' = entered \/ frames' = below
      BY <1>1
    <2> HIDE DEF Frames, below, entered
    <2> QED BY <1>3, <2>1, <2>2
  <1>6. \A q \in DOMAIN paths' : paths'[q] \in DOMAIN tokens
    BY <1>1, QuietFacts DEF Emplaced, IInv, IndexInv, Quiet
  <1>7. IndexInv'
    BY <1>1, <1>5, <1>6, QuietFacts DEF IndexInv, OwnTokens, Quiet, parser
  <1>8. SearchInv'
    <2>1. tokens' = tokens /\ pc' = "render" /\ sought' = sought /\ at' \in Nat /\ at' >= 1
      BY <1>1, <1>2 DEF parser
    <2> QED BY <2>1 DEF IInv, SearchInv, Parsing
  <1> QED BY <1>1, <1>7, <1>8, QuietStep DEF IInv, PcInv, Quiet

LEMMA RenderSteps ==
  ASSUME IInv,
         StartRender \/ RenderMember \/ RenderElement \/ RenderSkip \/ RenderReturn \/ RenderThrows
  PROVE  IInv'
  <1> DEFINE Frames == [token: Nat, path: Seq(Labels), next: Nat]
  <1>1. /\ ParserInv /\ PcInv /\ Len(tokens) \in Nat /\ DOMAIN tokens = 1..Len(tokens)
        /\ frames \in Seq(Frames) /\ at \in Nat /\ (pc = "render" => at >= 1 /\ frames # <<>>)
    BY ParserFacts DEF IInv, IndexInv, SearchInv
  <1>2. ASSUME pc = "render"
        PROVE  Top \in Frames /\ Len(frames) \in DOMAIN frames
    <2> HIDE DEF Frames
    <2> QED BY <1>1, <1>2, LastOf DEF Top
  <1>3. ASSUME NEW i \in DOMAIN tokens PROVE Key(i) \in Labels
    <2>1. text[tokens[i].start] \in Lexemes
      BY <1>1, ParserFacts
    <2> QED BY <2>1 DEF Key, Labels
  <1>4. CASE StartRender
    <2>1. /\ pc = "idle" /\ UNCHANGED <<parser, walk, edit, edits, sound>> /\ sought' = NoSearch
          /\ Quiet /\ OwnTokens = tokens /\ frames = <<>>
      BY <1>4, QuietFacts DEF StartRender, Quiet, IInv, IndexInv
    <2>2. OwnTokens' = tokens
      BY <2>1 DEF OwnTokens, parser
    <2>3. NoSearch \in [object: Nat, name: Names, answer: Nat]
          /\ NoSearch.object = 0 /\ NoSearch.answer = 0
      BY LexemeTypes DEF NoSearch
    <2>4. CASE tokens # <<>> /\ IsContainer(tokens[1])
      <3>1. /\ pc' = "render" /\ frames' = <<Frame(1, <<>>)>> /\ at' = 2 /\ paths' = NoPaths
            /\ dirty' = dirty /\ 1 \in DOMAIN tokens
        BY <1>1, <1>4, <2>4 DEF StartRender
      <3>2. Frame(1, <<>>) \in Frames /\ Frame(1, <<>>).token = 1
        BY DEF Frame
      <3>3. frames' \in Seq(Frames) /\ frames' # <<>> /\ \A k \in DOMAIN frames' : frames'[k].token = 1
        <4> HIDE DEF Frames
        <4> QED BY <3>1, <3>2
      <3>4. IndexInv'
        BY <2>1, <2>2, <3>1, <3>3 DEF IndexInv, NoPaths, parser
      <3>5. SearchInv'
        BY <1>1, <2>1, <2>3, <3>1 DEF SearchInv, Parsing, parser
      <3> QED BY <1>1, <2>1, <3>1, <3>4, <3>5, QuietStep DEF PcInv, Quiet
    <2>5. CASE ~(tokens # <<>> /\ IsContainer(tokens[1]))
      <3>1. /\ pc' = "idle" /\ dirty' = FALSE /\ frames' = frames /\ at' = at
            /\ \A p \in DOMAIN paths' : paths'[p] \in DOMAIN tokens
        <4>1. /\ pc' = "idle" /\ dirty' = FALSE /\ frames' = frames /\ at' = at
              /\ paths' = [p \in (IF tokens = <<>> THEN {} ELSE {<<>>}) |-> 1]
          BY <1>4, <2>5 DEF StartRender
        <4>2. CASE tokens = <<>>
          BY <4>1, <4>2
        <4>3. CASE tokens # <<>>
          <5>1. 1 \in DOMAIN tokens
            BY <1>1, <4>3, ParserFacts
          <5> QED BY <4>1, <4>3, <5>1
        <4> QED BY <4>1, <4>2, <4>3
      <3>2. IndexInv'
        BY <2>1, <2>2, <3>1 DEF IndexInv, parser
      <3>3. SearchInv'
        BY <1>1, <2>1, <2>3, <3>1 DEF SearchInv, Parsing, parser
      <3> QED BY <2>1, <3>1, <3>2, <3>3, QuietStep DEF Quiet
    <2> QED BY <2>4, <2>5
  <1>5. CASE RenderMember
    <2>1. /\ pc = "render" /\ at + 1 \in DOMAIN tokens /\ at \in DOMAIN tokens
          /\ Visit(Append(Top.path, Key(at)), at + 1, Top.next)
      BY <1>1, <1>5 DEF RenderMember, InFrame
    <2>2. Append(Top.path, Key(at)) \in Seq(Labels) /\ Top.next \in Nat
      BY <1>2, <1>3, <2>1
    <2> QED BY <2>1, <2>2, VisitStep
  <1>6. CASE RenderElement
    <2>1. /\ pc = "render" /\ at \in DOMAIN tokens
          /\ Visit(Append(Top.path, Element(Top.next)), at, Top.next + 1)
      BY <1>1, <1>6 DEF RenderElement, InFrame
    <2>2. Top.next \in Nat /\ Top.path \in Seq(Labels)
      BY <1>2, <2>1
    <2>3. Element(Top.next) \in Labels
      BY <2>2 DEF Element, Labels
    <2>4. Append(Top.path, Element(Top.next)) \in Seq(Labels) /\ Top.next + 1 \in Nat
      BY <2>2, <2>3
    <2> QED BY <2>1, <2>4, VisitStep
  <1>7. CASE RenderSkip
    <2>1. /\ pc = "render" /\ pc' = pc /\ at' = at + 1
          /\ UNCHANGED <<parser, edit, edits, sound, index, sought>>
      BY <1>7 DEF RenderSkip, InFrame
    <2>2. IndexInv' /\ SearchInv'
      BY <2>1 DEF IInv, IndexInv, SearchInv, OwnTokens, Parsing, parser, index
    <2> QED BY <1>1, <2>1, <2>2, QuietStep DEF PcInv, Quiet, index
  <1>8. CASE RenderReturn
    <2>1. /\ pc = "render" /\ frames' = SubSeq(frames, 1, Len(frames) - 1)
          /\ UNCHANGED <<parser, edit, edits, sound, paths, sought>>
          /\ \/ Len(frames) = 1 /\ pc' = "idle" /\ dirty' = FALSE /\ at' = 0
             \/ Len(frames) # 1 /\ UNCHANGED <<pc, dirty, at>>
      BY <1>8 DEF RenderReturn
    <2>2. /\ frames' \in Seq(Frames) /\ Len(frames') = Len(frames) - 1
          /\ \A k \in DOMAIN frames' : k \in DOMAIN frames /\ frames'[k] = frames[k]
      <3> HIDE DEF Frames
      <3> QED BY <1>1, <2>1, LastOf
    <2>3. pc' = "render" <=> frames' # <<>>
      <3> HIDE DEF Frames
      <3> QED BY <1>1, <2>1, LastOf
    <2>4. IndexInv'
      BY <2>1, <2>2, <2>3 DEF IInv, IndexInv, OwnTokens, parser
    <2>5. SearchInv'
      BY <1>1, <2>1 DEF IInv, SearchInv, Parsing, parser
    <2> QED BY <1>1, <2>1, <2>4, <2>5, QuietStep DEF PcInv, Quiet
  <1>9. CASE RenderThrows
    <2>1. /\ pc = "render" /\ pc' = "idle" /\ frames' = <<>> /\ at' = 0
          /\ UNCHANGED <<parser, edit, edits, sound, paths, dirty, sought>>
      BY <1>9 DEF RenderThrows, InFrame
    <2>2. IndexInv' /\ SearchInv'
      BY <1>1, <2>1 DEF IInv, IndexInv, SearchInv, OwnTokens, Parsing, parser
    <2> QED BY <1>1, <2>1, <2>2, QuietStep DEF PcInv, Quiet
  <1> QED BY <1>4, <1>5, <1>6, <1>7, <1>8, <1>9

LEMMA FindSteps ==
  ASSUME IInv, StartFind \/ FindKey \/ FindNext \/ FindNothing
  PROVE  IInv'
  <1>1. /\ ParserInv /\ PcInv /\ Len(tokens) \in Nat /\ DOMAIN tokens = 1..Len(tokens)
        /\ at \in Nat
    BY ParserFacts DEF IInv, SearchInv
  <1>2. ASSUME UNCHANGED <<parser, edit, index>>, Quiet, pc # "render", pc' # "render" PROVE IndexInv'
    BY <1>2 DEF IInv, IndexInv, OwnTokens, parser, index
  <1>3. CASE StartFind
    <2>1. PICK o \in DOMAIN tokens, n \in Names :
            sought' = [object |-> o, name |-> n, answer |-> 0] /\ at' = o + 1
      BY <1>3 DEF StartFind
    <2>2. pc = "idle" /\ pc' = "find" /\ UNCHANGED <<parser, edit, edits, sound, index>>
      BY <1>3 DEF StartFind
    <2>3. SearchInv'
      BY <1>1, <2>1, <2>2 DEF SearchInv, Parsing, parser
    <2> QED BY <1>1, <1>2, <2>2, <2>3, QuietStep DEF PcInv, Quiet, index
  <1>4. CASE FindKey
    <2>1. /\ pc = "find" /\ pc' = "idle" /\ at \in DOMAIN tokens /\ at' = 0
          /\ sought' = [sought EXCEPT !.answer = at] /\ UNCHANGED <<parser, edit, edits, sound, index>>
      BY <1>1, <1>4 DEF FindKey, InSearch, IInv, SearchInv
    <2>2. SearchInv'
      BY <1>1, <2>1 DEF IInv, SearchInv, Parsing, parser
    <2> QED BY <1>1, <1>2, <2>1, <2>2, QuietStep DEF PcInv, Quiet, index
  <1>5. CASE FindNext
    <2>1. /\ pc = "find" /\ pc' = pc /\ UNCHANGED <<parser, edit, edits, sound, index, sought>>
          /\ \E j \in at..(Len(tokens) + 1) : at' = j
      BY <1>5 DEF FindNext, InSearch
    <2>2. SearchInv'
      BY <1>1, <2>1 DEF IInv, SearchInv, Parsing, parser
    <2> QED BY <1>1, <1>2, <2>1, <2>2, QuietStep DEF PcInv, Quiet, index
  <1>6. CASE FindNothing
    <2>1. /\ pc = "find" /\ pc' = "idle" /\ at' = 0
          /\ UNCHANGED <<parser, edit, edits, sound, index, sought>>
      BY <1>6 DEF FindNothing
    <2>2. SearchInv'
      BY <1>1, <2>1 DEF IInv, SearchInv, Parsing, parser
    <2> QED BY <1>1, <1>2, <2>1, <2>2, QuietStep DEF PcInv, Quiet, index
  <1> QED BY <1>3, <1>4, <1>5, <1>6

---------------------------------------------------------------------------
(* The theorems                                                            *)

LEMMA InitIInv == Init => IInv
  <1> SUFFICES ASSUME Init PROVE IInv OBVIOUS
  <1>1. text \in Seq(Lexemes) /\ MaxEdits \in Nat
    BY LexemesAssumption DEF Init
  <1>2. ParserInv
    BY <1>1 DEF Init, ParserInv, ParserOK, Linked, Fits
  <1>3. PcInv /\ EditInv
    BY <1>1, IsJsonType DEF Init, PcInv, EditInv, Quiet
  <1>4. IndexInv
    BY DEF Init, IndexInv, NoPaths
  <1>5. SearchInv
    <2>1. /\ sought \in [object: Nat, name: Names, answer: Nat] /\ sought = NoSearch
          /\ sought.object = 0 /\ sought.answer = 0
      BY LexemeTypes DEF Init, NoSearch
    <2>2. at = 0 /\ pc = "parse" /\ Len(tokens) = 0
      BY DEF Init
    <2> QED BY <2>1, <2>2 DEF SearchInv
  <1> QED BY <1>2, <1>3, <1>4, <1>5 DEF IInv

LEMMA NextIInv == IInv /\ [Next]_vars => IInv'
  <1> SUFFICES ASSUME IInv, [Next]_vars PROVE IInv' OBVIOUS
  <1>1. CASE UNCHANGED vars
    BY <1>1 DEF vars, IInv, PcInv, ParserInv, EditInv, IndexInv, SearchInv, OwnTokens, Quiet, Parsing
  <1>2. CASE Next
    BY <1>2, ReadingSteps, EditSteps, EndingSteps, RenderSteps, FindSteps DEF Next
  <1> QED BY <1>1, <1>2

LEMMA Invariance == Spec => []IInv
  BY InitIInv, NextIInv, PTL DEF Spec

\* Whatever the texts and the order of edits, lookups and searches: every token,
\* position and frame that the parser goes by exists.
THEOREM TypeCorrect == Spec => []TypeOK
  <1>1. IInv => TypeOK
    <2> SUFFICES ASSUME IInv PROVE TypeOK OBVIOUS
    <2>1. /\ text \in Seq(Lexemes) /\ pos \in 1..(Len(text) + 1)
          /\ tokens \in Seq([type: Types, start: Nat, end: Nat, size: Nat, parent: Nat])
          /\ super \in 0..Len(tokens) /\ Len(tokens) \in Nat /\ DOMAIN tokens = 1..Len(tokens)
      BY ParserFacts DEF IInv, Token
    <2>2. edit.stage \in {"none", "fragment", "candidate"}
      BY DEF IInv, EditInv, EditOK, NoEdit
    <2>3. Quiet => \A p \in DOMAIN paths : paths[p] \in DOMAIN tokens
      BY QuietFacts DEF IInv, IndexInv
    <2>4. /\ sought.object # 0 => sought.object \in DOMAIN tokens
          /\ sought.answer # 0 => sought.answer \in DOMAIN tokens
      BY <2>1 DEF IInv, SearchInv
    <2>5. /\ \A k \in DOMAIN frames : frames[k].token \in DOMAIN tokens
          /\ pc = "render" => frames # <<>>
      BY DEF IInv, IndexInv
    <2> QED BY <2>1, <2>2, <2>3, <2>4, <2>5 DEF TypeOK, IInv, PcInv
  <1> QED BY <1>1, Invariance, PTL

\* Whatever the texts: the tokens form a forest in which every token counts its
\* parts and the parts of objects are strings.
THEOREM LinksSound == Spec => []LinksAreSound
  <1>1. IInv => LinksAreSound
    BY DEF IInv, ParserInv, ParserOK, Linked, PartsOf, LinksAreSound
  <1> QED BY <1>1, Invariance, PTL
---------------------------------------------------------------------------
(* Where the tokens lie                                                    *)

\* A parser that is at position p below token s.  Tokens are in the order of
\* their text.  What is open is a bracket's and holds all that comes behind it,
\* s included; what is closed holds whatever starts in front of its end.
Nested(ts, s, p) ==
  /\ \A i \in DOMAIN ts : ts[i].start < p
  /\ \A i, j \in DOMAIN ts : i < j => ts[i].start < ts[j].start
  /\ \A i \in DOMAIN ts :
       IF ts[i].end = 0
       THEN /\ IsContainer(ts[i]) /\ s >= i
            /\ \A j \in DOMAIN ts : j > i => ts[j].parent >= i
       ELSE /\ ts[i].end <= p
            /\ \A j \in DOMAIN ts : j > i /\ ts[j].start < ts[i].end => ts[j].parent >= i

\* The walk for the end of a bracket does not leave what is open behind.
NestInv ==
  /\ Nested(tokens, super, pos)
  /\ edit.stage # "none" => Nested(edit.owner.tokens, edit.owner.super, edit.owner.pos)
  /\ pc = "close" => \A i \in DOMAIN tokens : tokens[i].end = 0 => i <= walk

\* The parts of the object searched that have the name.
Named ==
  {i \in DOMAIN tokens : /\ tokens[i].parent = sought.object
                         /\ tokens[i].start < tokens[sought.object].end
                         /\ text[tokens[i].start] = sought.name}

\* None of them is in front of the token the search is at.
FindInv ==
  /\ pc = "render" => sought = NoSearch
  /\ pc = "find" => /\ sought.answer = 0 /\ tokens[sought.object].type = "object"
                    /\ at > sought.object
                    /\ \A i \in Named : i >= at
  /\ SearchIsRight

LEMMA TokensLie ==
  ASSUME ParserInv
  PROVE  /\ Len(text) \in Nat /\ pos \in Nat
         /\ Len(tokens) \in Nat /\ DOMAIN tokens = 1..Len(tokens) /\ super \in Nat
         /\ \A i \in DOMAIN tokens :
              /\ i \in Nat /\ tokens[i].start \in Nat /\ tokens[i].end \in Nat
              /\ tokens[i].parent \in Nat
  <1>1. \A i \in 1..Len(tokens) : /\ i \in Nat /\ tokens[i].start \in Nat /\ tokens[i].end \in Nat
                                  /\ tokens[i].parent \in Nat
    BY TokensType DEF ParserInv, ParserOK
  <1> QED BY <1>1, ParserFacts

\* What a list with one token more has of the list it was.
LEMMA AddedFields ==
  ASSUME ParserInv, NEW t \in Token
  PROVE  /\ Len(Added(t)) = Len(tokens) + 1
         /\ DOMAIN Added(t) = DOMAIN tokens \cup {Len(tokens) + 1}
         /\ Added(t)[Len(tokens) + 1] = t
         /\ \A i \in DOMAIN tokens :
              /\ Added(t)[i].start = tokens[i].start /\ Added(t)[i].end = tokens[i].end
              /\ Added(t)[i].type = tokens[i].type /\ Added(t)[i].parent = tokens[i].parent
  <1> DEFINE before == IF super = 0 THEN tokens ELSE [tokens EXCEPT ![super].size = @ + 1]
             after == Added(t)
  <1>1. /\ tokens \in Seq(Token) /\ super \in 0..Len(tokens)
        /\ Len(tokens) \in Nat /\ DOMAIN tokens = 1..Len(tokens)
        /\ \A i \in DOMAIN tokens : tokens[i] \in Token
    BY TokensType DEF ParserInv, ParserOK
  <1>2. /\ before \in Seq(Token) /\ Len(before) = Len(tokens)
        /\ \A i \in DOMAIN tokens :
             /\ before[i].parent = tokens[i].parent /\ before[i].type = tokens[i].type
             /\ before[i].start = tokens[i].start /\ before[i].end = tokens[i].end
    <2>1. CASE super = 0
      BY <1>1, <2>1
    <2>2. CASE super # 0
      <3>1. super \in DOMAIN tokens
        BY <1>1, <2>2
      <3> DEFINE u == [tokens[super] EXCEPT !.size = @ + 1]
      <3>2. before = [tokens EXCEPT ![super] = u]
        BY <2>2
      <3>3. /\ u \in Token /\ u.parent = tokens[super].parent /\ u.type = tokens[super].type
            /\ u.start = tokens[super].start /\ u.end = tokens[super].end
        BY <1>1, <3>1, TokenChanged
      <3> HIDE DEF before, u
      <3> QED BY <1>1, <3>1, <3>2, <3>3, SMTT(30)
    <2> QED BY <2>1, <2>2
  <1>3. /\ after \in Seq(Token) /\ Len(after) = Len(tokens) + 1
        /\ after[Len(after)] = t
        /\ \A i \in DOMAIN tokens : after[i] = before[i]
    BY <1>2 DEF Added
  <1> HIDE DEF after, before
  <1>4. DOMAIN after = DOMAIN tokens \cup {Len(tokens) + 1}
    BY <1>1, <1>3
  <1> QED BY <1>2, <1>3, <1>4 DEF after

\* A token that starts at the position at hand, open or not, below the token that
\* the parser is below of.
LEMMA NestedAdded ==
  ASSUME ParserInv, Nested(tokens, super, pos), NEW t \in Token,
         t.start = pos, t.parent = super, NEW p \in Nat, p > pos, NEW s \in Nat,
         s = super \/ s = Len(tokens) + 1,
         t.end = 0 => IsContainer(t) /\ s = Len(tokens) + 1,
         t.end <= p
  PROVE  Nested(Added(t), s, p)
  <1> DEFINE n == Len(tokens) + 1
  <1>0. /\ pos \in Nat /\ Len(tokens) \in Nat /\ DOMAIN tokens = 1..Len(tokens) /\ super \in Nat
        /\ \A i \in DOMAIN tokens : /\ i \in Nat /\ tokens[i].start \in Nat
                                    /\ tokens[i].end \in Nat /\ tokens[i].parent \in Nat
        /\ super <= Len(tokens)
    BY TokensLie, ParserFacts
  <1>1. /\ \A i \in DOMAIN tokens : tokens[i].start < pos
        /\ \A i, j \in DOMAIN tokens : i < j => tokens[i].start < tokens[j].start
        /\ \A i \in DOMAIN tokens :
             /\ tokens[i].end = 0 => /\ IsContainer(tokens[i]) /\ super >= i
                                     /\ \A j \in DOMAIN tokens : j > i => tokens[j].parent >= i
             /\ tokens[i].end # 0 =>
                  /\ tokens[i].end <= pos
                  /\ \A j \in DOMAIN tokens : j > i /\ tokens[j].start < tokens[i].end =>
                                                tokens[j].parent >= i
    BY DEF Nested
  <1>2. t.start \in Nat /\ t.end \in Nat /\ t.parent \in Nat
    BY TokenType
  <1> DEFINE after == Added(t)
  <1>3. /\ DOMAIN after = DOMAIN tokens \cup {n} /\ after[n] = t
        /\ \A i \in DOMAIN tokens :
              /\ after[i].start = tokens[i].start /\ after[i].end = tokens[i].end
              /\ after[i].type = tokens[i].type /\ after[i].parent = tokens[i].parent
    BY AddedFields
  <1> HIDE DEF after
  <1>4. n \in Nat /\ n \notin DOMAIN tokens /\ \A i \in DOMAIN tokens : i < n
    BY <1>0
  <1> HIDE DEF n
  <1>5. \A i \in DOMAIN after : after[i].start < p
    BY <1>0, <1>1, <1>2, <1>3
  <1>6. \A i, j \in DOMAIN after : i < j => after[i].start < after[j].start
    BY <1>0, <1>1, <1>2, <1>3, <1>4
  <1>7. ASSUME NEW i \in DOMAIN after, after[i].end = 0
        PROVE  /\ IsContainer(after[i]) /\ s >= i
               /\ \A j \in DOMAIN after : j > i => after[j].parent >= i
    <2>1. CASE i = n
      <3>1. IsContainer(after[i]) /\ s = n
        BY <1>3, <1>7, <2>1 DEF n
      <3>2. \A j \in DOMAIN after : ~(j > i)
        BY <1>0, <1>3, <1>4, <2>1
      <3> QED BY <1>4, <2>1, <3>1, <3>2
    <2>2. CASE i \in DOMAIN tokens
      <3>1. tokens[i].end = 0 /\ IsContainer(after[i])
        BY <1>1, <1>3, <1>7, <2>2 DEF IsContainer
      <3>2. super >= i /\ s >= i
        BY <1>0, <1>1, <1>4, <2>2, <3>1 DEF n
      <3> QED BY <1>0, <1>1, <1>2, <1>3, <1>4, <2>2, <3>1, <3>2
    <2> QED BY <1>3, <2>1, <2>2
  <1>8. ASSUME NEW i \in DOMAIN after, after[i].end # 0
        PROVE  /\ after[i].end <= p
               /\ \A j \in DOMAIN after : j > i /\ after[j].start < after[i].end =>
                                            after[j].parent >= i
    <2>1. CASE i = n
      <3>1. \A j \in DOMAIN after : ~(j > i)
        BY <1>0, <1>3, <1>4, <2>1
      <3> QED BY <1>3, <2>1, <3>1
    <2>2. CASE i \in DOMAIN tokens
      <3>1. tokens[i].end <= pos /\ after[i].end = tokens[i].end
        BY <1>1, <1>3, <1>8, <2>2
      <3>2. ASSUME NEW j \in DOMAIN after, j > i, after[j].start < after[i].end
            PROVE  after[j].parent >= i
        <4>1. j # n
          BY <1>0, <1>2, <1>3, <2>2, <3>1, <3>2
        <4> QED BY <1>1, <1>3, <1>8, <2>2, <3>2, <4>1
      <3> QED BY <1>0, <2>2, <3>1, <3>2
    <2> QED BY <1>3, <2>1, <2>2
  <1>9. Nested(after, s, p)
    BY <1>5, <1>6, <1>7, <1>8 DEF Nested
  <1> QED BY <1>9 DEF after

\* The innermost open bracket is closed.
LEMMA NestedEnded ==
  ASSUME ParserInv, Nested(tokens, super, pos), NEW w \in DOMAIN tokens, tokens[w].end = 0,
         \A i \in DOMAIN tokens : tokens[i].end = 0 => i <= w
  PROVE  Nested([tokens EXCEPT ![w].end = pos + 1], tokens[w].parent, pos + 1)
  <1> DEFINE after == [tokens EXCEPT ![w].end = pos + 1]
  <1>0. /\ pos \in Nat /\ pos >= 1 /\ tokens \in Seq(Token)
        /\ Len(tokens) \in Nat /\ DOMAIN tokens = 1..Len(tokens)
        /\ \A i \in DOMAIN tokens : /\ i \in Nat /\ tokens[i].start \in Nat /\ tokens[i] \in Token
                                    /\ tokens[i].end \in Nat /\ tokens[i].parent \in Nat
    BY ParserFacts, TokensType
  <1>1. /\ \A i \in DOMAIN tokens : tokens[i].start < pos
        /\ \A i, j \in DOMAIN tokens : i < j => tokens[i].start < tokens[j].start
        /\ \A i \in DOMAIN tokens :
             /\ tokens[i].end = 0 => /\ IsContainer(tokens[i]) /\ super >= i
                                     /\ \A j \in DOMAIN tokens : j > i => tokens[j].parent >= i
             /\ tokens[i].end # 0 =>
                  /\ tokens[i].end <= pos
                  /\ \A j \in DOMAIN tokens : j > i /\ tokens[j].start < tokens[i].end =>
                                                tokens[j].parent >= i
    BY DEF Nested
  <1>2. /\ DOMAIN after = DOMAIN tokens
        /\ \A i \in DOMAIN tokens :
             /\ after[i].parent = tokens[i].parent /\ after[i].type = tokens[i].type
             /\ after[i].start = tokens[i].start
             /\ after[i].end = IF i = w THEN pos + 1 ELSE tokens[i].end
    <2> DEFINE e == pos + 1
               u == [tokens[w] EXCEPT !.end = e]
    <2>1. after = [tokens EXCEPT ![w] = u]
      OBVIOUS
    <2>2. e \in Nat
      BY <1>0
    <2>3. /\ u.parent = tokens[w].parent /\ u.type = tokens[w].type
          /\ u.start = tokens[w].start /\ u.end = e
      <3> HIDE DEF e
      <3> QED BY <1>0, <2>2, TokenChanged, ZenonT(30)
    <2> HIDE DEF after, u, e
    <2>4. after[w] = u /\ \A i \in DOMAIN tokens : i # w => after[i] = tokens[i]
      BY <1>0, <2>1
    <2>5. DOMAIN after = DOMAIN tokens
      BY <1>0, <2>1
    <2> QED BY <2>3, <2>4, <2>5 DEF e
  <1> HIDE DEF after
  <1>3. \A i \in DOMAIN after : after[i].start < pos + 1
    BY <1>0, <1>1, <1>2
  <1>4. \A i, j \in DOMAIN after : i < j => after[i].start < after[j].start
    BY <1>1, <1>2
  <1>5. ASSUME NEW i \in DOMAIN after, after[i].end = 0
        PROVE  /\ IsContainer(after[i]) /\ tokens[w].parent >= i
               /\ \A j \in DOMAIN after : j > i => after[j].parent >= i
    <2>1. i # w /\ tokens[i].end = 0 /\ i \in DOMAIN tokens
      BY <1>0, <1>2, <1>5
    <2>2. i <= w /\ i \in Nat /\ w \in Nat
      BY <1>0, <2>1
    <2>3. tokens[w].parent >= i /\ IsContainer(tokens[i])
      BY <1>1, <2>1, <2>2
    <2> QED BY <1>1, <1>2, <2>1, <2>3 DEF IsContainer
  <1>6. ASSUME NEW i \in DOMAIN after, after[i].end # 0
        PROVE  /\ after[i].end <= pos + 1
               /\ \A j \in DOMAIN after : j > i /\ after[j].start < after[i].end =>
                                            after[j].parent >= i
    <2>1. CASE i = w
      <3>1. after[i].end = pos + 1 /\ \A j \in DOMAIN tokens : j > i => tokens[j].parent >= i
        BY <1>1, <1>2, <2>1
      <3> QED BY <1>0, <1>2, <2>1, <3>1
    <2>2. CASE i # w
      <3>1. i \in DOMAIN tokens /\ after[i].end = tokens[i].end /\ tokens[i].end # 0
        BY <1>2, <1>6, <2>2
      <3>2. tokens[i].end <= pos
            /\ \A j \in DOMAIN tokens : j > i /\ tokens[j].start < tokens[i].end => tokens[j].parent >= i
        BY <1>1, <3>1
      <3>3. tokens[i].end <= pos + 1
        BY <1>0, <3>1, <3>2
      <3>4. ASSUME NEW j \in DOMAIN after, j > i, after[j].start < after[i].end
            PROVE  after[j].parent >= i
        <4>1. /\ j \in DOMAIN tokens /\ after[j].start = tokens[j].start
              /\ after[j].parent = tokens[j].parent
          BY <1>2
        <4> QED BY <3>1, <3>2, <3>4, <4>1
      <3> QED BY <3>1, <3>3, <3>4
    <2> QED BY <2>1, <2>2
  <1>7. Nested(after, tokens[w].parent, pos + 1)
    BY <1>3, <1>4, <1>5, <1>6 DEF Nested
  <1> QED BY <1>7 DEF after

\* Further on in the text, no higher up.
LEMMA NestedOn ==
  ASSUME ParserInv, Nested(tokens, super, pos), NEW s \in Nat,
         \A i \in DOMAIN tokens : tokens[i].end = 0 => s >= i
  PROVE  Nested(tokens, s, pos + 1)
  <1>1. /\ pos \in Nat /\ \A i \in DOMAIN tokens : tokens[i].start \in Nat /\ tokens[i].end \in Nat
    BY TokensLie
  <1>2. \A i \in DOMAIN tokens : tokens[i].start < pos + 1
    BY <1>1 DEF Nested
  <1>3. \A i \in DOMAIN tokens : tokens[i].end # 0 => tokens[i].end <= pos + 1
    BY <1>1 DEF Nested
  <1> QED BY <1>2, <1>3 DEF Nested

---------------------------------------------------------------------------
(* The tokens stay in the order of the text and within their brackets      *)

LEMMA NestParsing ==
  ASSUME IInv, NestInv,
         \/ OpenContainer \/ CloseContainer \/ WalkUp \/ CloseHere \/ CloseNothing
         \/ ReadString \/ ReadPrimitive \/ ReadColon \/ ReadComma
  PROVE  NestInv'
  <1> USE DEF Reading
  <1>0. /\ ParserInv /\ PcInv /\ Nested(tokens, super, pos)
        /\ Len(text) \in Nat /\ pos \in 1..(Len(text) + 1) /\ pos \in Nat
        /\ Len(tokens) \in Nat /\ DOMAIN tokens = 1..Len(tokens) /\ super \in Nat
        /\ \A i \in DOMAIN tokens : /\ i \in Nat /\ tokens[i].start \in Nat
                                    /\ tokens[i].end \in Nat /\ tokens[i].parent \in Nat
    BY TokensLie, ParserFacts DEF IInv, NestInv
  <1>1. \A i \in DOMAIN tokens : tokens[i].end = 0 => /\ IsContainer(tokens[i]) /\ super >= i
                                                      /\ \A j \in DOMAIN tokens : j > i => tokens[j].parent >= i
    BY <1>0 DEF Nested
  <1>2. ASSUME Nested(tokens', super', pos'), edit' = edit, pc' # "close" PROVE NestInv'
    BY <1>2 DEF NestInv
  <1>3. CASE OpenContainer
    <2> DEFINE t == NewToken(TypeOfBracket[text[pos]], pos, 0)
    <2>1. /\ t \in Token /\ t.start = pos /\ t.parent = super /\ t.end = 0 /\ IsContainer(t)
      <3>1. text[pos] \in Opening
        BY <1>3 DEF OpenContainer
      <3>2. TypeOfBracket[text[pos]] \in {"object", "array"}
        BY <3>1, LexemeTypes
      <3> QED BY <1>0, <3>2 DEF NewToken, Token, Types, IsContainer
    <2>2. tokens' = Added(t) /\ super' = Len(tokens) + 1 /\ pos' = pos + 1 /\ edit' = edit /\ pc' = "parse"
      BY <1>3 DEF OpenContainer
    <2> HIDE DEF t
    <2>3. pos + 1 \in Nat /\ pos + 1 > pos /\ Len(tokens) + 1 \in Nat /\ t.end <= pos + 1
      BY <1>0, <2>1
    <2>4. Nested(Added(t), Len(tokens) + 1, pos + 1)
      BY <1>0, <2>1, <2>3, NestedAdded
    <2> QED BY <1>2, <2>2, <2>4
  <1>4. CASE CloseContainer
    BY <1>0, <1>4 DEF CloseContainer, NestInv, parser
  <1>5. CASE WalkUp
    <2>1. /\ tokens[walk].end # 0 /\ walk' = tokens[walk].parent /\ UNCHANGED <<parser, edit>>
          /\ walk \in DOMAIN tokens /\ \A i \in DOMAIN tokens : tokens[i].end = 0 => i <= walk
      BY <1>0, <1>5 DEF WalkUp, PcInv, NestInv
    <2>2. \A i \in DOMAIN tokens : tokens[i].end = 0 => i <= tokens[walk].parent
      <3>1. ASSUME NEW i \in DOMAIN tokens, tokens[i].end = 0 PROVE i <= tokens[walk].parent
        <4>1. i # walk /\ i <= walk
          BY <2>1, <3>1
        <4>2. walk > i
          BY <1>0, <2>1, <4>1
        <4>3. tokens[walk].parent >= i
          BY <1>1, <2>1, <3>1, <4>2
        <4> QED BY <1>0, <2>1, <4>3
      <3> QED BY <3>1
    <2> QED BY <2>1, <2>2 DEF NestInv, parser
  <1>6. CASE CloseHere
    <2>1. /\ walk \in DOMAIN tokens /\ tokens[walk].end = 0
          /\ \A i \in DOMAIN tokens : tokens[i].end = 0 => i <= walk
      BY <1>0, <1>6 DEF CloseHere, PcInv, NestInv
    <2>2. Nested([tokens EXCEPT ![walk].end = pos + 1], tokens[walk].parent, pos + 1)
      BY <1>0, <2>1, NestedEnded
    <2> QED BY <1>2, <1>6, <2>2 DEF CloseHere
  <1>7. CASE CloseNothing
    <2>1. Nested(tokens, super, pos + 1)
      BY <1>0, <1>1, NestedOn
    <2> QED BY <1>2, <1>7, <2>1 DEF CloseNothing
  <1>8. CASE ReadString
    <2> DEFINE t == NewToken("string", pos, EndOfString(pos))
    <2>1. /\ t \in Token /\ t.start = pos /\ t.parent = super /\ t.end \in {pos, pos + 1}
      <3>1. EndOfString(pos) \in {pos, pos + 1} /\ EndOfString(pos) \in Nat
        BY <1>0 DEF EndOfString
      <3> QED BY <1>0, <3>1 DEF NewToken, Token, Types
    <2>2. tokens' = Added(t) /\ super' = super /\ pos' = pos + 1 /\ edit' = edit /\ pc' = "parse"
      BY <1>8 DEF ReadString
    <2> HIDE DEF t
    <2>3. pos + 1 \in Nat /\ pos + 1 > pos /\ t.end <= pos + 1 /\ t.end # 0
      BY <1>0, <2>1
    <2>4. Nested(Added(t), super, pos + 1)
      BY <1>0, <2>1, <2>3, NestedAdded
    <2> QED BY <1>2, <2>2, <2>4
  <1>9. CASE ReadPrimitive
    <2>1. PICK q \in PrimitiveEnds : tokens' = Added(NewToken("primitive", pos, q)) /\ pos' = q
      BY <1>9 DEF ReadPrimitive
    <2> DEFINE t == NewToken("primitive", pos, q)
    <2>2. q \in Nat /\ q > pos
      <3>1. q \in pos..Len(text) /\ text[q] \in Closing \cup {","} /\ text[pos] \in Primitives
        BY <1>9 DEF PrimitiveEnds, ReadPrimitive
      <3>2. q # pos
        BY <3>1, LexemesAssumption
      <3>3. pos \in Nat /\ Len(text) \in Nat
        BY <1>0
      <3>4. q \in Nat /\ q >= pos
        <4>1. q \in pos..Len(text)
          BY <3>1
        <4> QED BY <3>3, <4>1
      <3> QED BY <3>2, <3>3, <3>4
    <2>3. /\ t \in Token /\ t.start = pos /\ t.parent = super /\ t.end = q
      BY <1>0, <2>2 DEF NewToken, Token, Types
    <2>4. tokens' = Added(t) /\ pos' = q /\ super' = super /\ edit' = edit /\ pc' = "parse"
      BY <1>9, <2>1 DEF ReadPrimitive
    <2> HIDE DEF t
    <2>5. t.end <= q /\ t.end # 0
      BY <1>0, <2>2, <2>3
    <2>6. Nested(Added(t), super, q)
      BY <1>0, <2>2, <2>3, <2>5, NestedAdded
    <2> QED BY <1>2, <2>4, <2>6
  <1>10. CASE ReadColon
    <2>1. \A i \in DOMAIN tokens : tokens[i].end = 0 => Len(tokens) >= i
      BY <1>0
    <2>2. Nested(tokens, Len(tokens), pos + 1)
      BY <1>0, <2>1, NestedOn
    <2> QED BY <1>2, <1>10, <2>2 DEF ReadColon
  <1>11. CASE ReadComma
    <2>1. AfterComma \in Nat
      BY <1>0, ParserFacts DEF AfterComma
    <2>2. ASSUME NEW i \in DOMAIN tokens, tokens[i].end = 0 PROVE AfterComma >= i
      <3>1. IsContainer(tokens[i]) /\ super >= i
        BY <1>1, <2>2
      <3>2. CASE super # 0 /\ ~IsContainer(tokens[super])
        <4>1. super # i /\ super \in DOMAIN tokens
          BY <1>0, <3>1, <3>2, ParserFacts
        <4>2. super > i
          BY <1>0, <3>1, <4>1
        <4>3. tokens[super].parent >= i
          BY <1>1, <2>2, <4>1, <4>2
        <4> QED BY <3>2, <4>3 DEF AfterComma
      <3>3. CASE ~(super # 0 /\ ~IsContainer(tokens[super]))
        BY <3>1, <3>3 DEF AfterComma
      <3> QED BY <3>2, <3>3
    <2>3. Nested(tokens, AfterComma, pos + 1)
      BY <1>0, <2>1, <2>2, NestedOn
    <2> QED BY <1>2, <1>11, <2>3 DEF ReadComma
  <1> QED BY <1>3, <1>4, <1>5, <1>6, <1>7, <1>8, <1>9, <1>10, <1>11

LEMMA NestedNothing == ASSUME NEW s, NEW p PROVE Nested(<<>>, s, p)
  BY DEF Nested

\* What an edit keeps is nested as the object at rest is; what it parses starts anew.
LEMMA NestOther ==
  ASSUME IInv, NestInv,
         \/ ParseFails \/ FinishParse
         \/ InsertMember \/ InsertElement \/ UpdateValue
         \/ AcceptFragment \/ RejectFragment \/ CommitEdit
  PROVE  NestInv'
  <1>1. ASSUME BackToOwner, edit.stage # "none" PROVE NestInv'
    BY <1>1 DEF BackToOwner, NestInv, NoEdit
  <1>2. ASSUME UNCHANGED parser, pc' # "close", edit' \in {edit, NoEdit} PROVE NestInv'
    BY <1>2 DEF NestInv, NoEdit, parser
  <1>3. ASSUME NEW t, NEW e, StartParser(t, e), e.owner = Owner PROVE NestInv'
    <2>1. tokens' = <<>> /\ edit' = e /\ pc' = "parse" /\ super' = 0 /\ pos' = 1
      BY <1>3 DEF StartParser
    <2>2. Nested(tokens', super', pos')
      BY <2>1, NestedNothing
    <2>3. e.owner.tokens = tokens /\ e.owner.super = super /\ e.owner.pos = pos
      BY <1>3 DEF Owner
    <2> QED BY <2>1, <2>2, <2>3 DEF NestInv
  <1>4. CASE ParseFails
    BY <1>1, <1>2, <1>4 DEF ParseFails
  <1>5. CASE FinishParse
    BY <1>2, <1>5 DEF FinishParse
  <1>6. ASSUME NEW type, NEW prefix, Insert(type, prefix) PROVE NestInv'
    <2>1. PICK o \in DOMAIN tokens, f \in Fragments :
            StartParser(f.text, Edit("fragment", f.type, Inserted(o, prefix \o f.text), IsValue(f.text)))
      BY <1>6 DEF Insert
    <2> DEFINE e == Edit("fragment", f.type, Inserted(o, prefix \o f.text), IsValue(f.text))
    <2>2. e.owner = Owner
      BY DEF Edit
    <2>3. StartParser(f.text, e)
      BY <2>1
    <2> HIDE DEF e
    <2> QED BY <1>3, <2>2, <2>3
  <1>7. CASE InsertMember \/ InsertElement
    BY <1>6, <1>7 DEF InsertMember, InsertElement
  <1>8. CASE UpdateValue
    <2> DEFINE old == sought.answer + 1
    <2>1. PICK f \in Fragments :
            StartParser(Spliced(old, f.text),
                        Edit("candidate", f.type, <<>>, IsValue(f.text) /\ tokens[old].type # "string"))
      BY <1>8 DEF UpdateValue
    <2> DEFINE e == Edit("candidate", f.type, <<>>, IsValue(f.text) /\ tokens[old].type # "string")
    <2>2. e.owner = Owner
      BY DEF Edit
    <2>3. StartParser(Spliced(old, f.text), e)
      BY <2>1
    <2> HIDE DEF e, old
    <2> QED BY <1>3, <2>2, <2>3
  <1>9. CASE AcceptFragment
    <2> DEFINE e == [edit EXCEPT !.stage = "candidate"]
    <2>1. EditOK(edit) /\ edit.stage = "fragment"
      BY <1>9 DEF AcceptFragment, IInv, EditInv, NoEdit
    <2>2. e.owner = edit.owner /\ e.stage = "candidate"
      BY <2>1 DEF EditOK
    <2>3. StartParser(edit.new, e)
      BY <1>9 DEF AcceptFragment
    <2> HIDE DEF e
    <2>4. tokens' = <<>> /\ edit' = e /\ pc' = "parse"
      BY <2>3 DEF StartParser
    <2>5. Nested(tokens', super', pos')
      BY <2>4, NestedNothing
    <2> QED BY <2>1, <2>2, <2>4, <2>5 DEF NestInv
  <1>10. CASE RejectFragment
    BY <1>1, <1>10 DEF RejectFragment
  <1>11. CASE CommitEdit
    BY <1>2, <1>11 DEF CommitEdit
  <1> QED BY <1>4, <1>5, <1>7, <1>8, <1>9, <1>10, <1>11

---------------------------------------------------------------------------
(* The search                                                              *)

LEMMA SearchStated ==
  SearchIsRight <=>
    (pc = "idle" /\ sought.object # 0 =>
       IF Named = {} THEN sought.answer = 0
       ELSE sought.answer \in Named /\ \A i \in Named : sought.answer <= i)
  BY DEF SearchIsRight, Named

\* Nothing has been searched for.
LEMMA NothingSought ==
  ASSUME sought = NoSearch, pc # "find" PROVE FindInv
  BY SearchStated DEF FindInv, NoSearch

LEMMA NoSearchSteps ==
  ASSUME IInv, FindInv,
         \/ OpenContainer \/ CloseContainer \/ WalkUp \/ CloseHere \/ CloseNothing
         \/ ReadString \/ ReadPrimitive \/ ReadColon \/ ReadComma
         \/ ParseFails \/ FinishParse
         \/ InsertMember \/ InsertElement \/ UpdateValue
         \/ AcceptFragment \/ RejectFragment \/ CommitEdit
         \/ StartRender \/ RenderMember \/ RenderElement \/ RenderSkip \/ RenderReturn
         \/ RenderThrows
  PROVE  FindInv'
  <1> SUFFICES sought' = NoSearch /\ pc' # "find"
    <2>1. SearchIsRight' <=>
            (pc' = "idle" /\ sought'.object # 0 =>
               IF Named' = {} THEN sought'.answer = 0
               ELSE sought'.answer \in Named' /\ \A i \in Named' : sought'.answer <= i)
      BY DEF SearchIsRight, Named
    <2> QED BY <2>1 DEF FindInv, NoSearch
  <1>1. Parsing \/ pc = "render" => sought = NoSearch
    BY DEF IInv, SearchInv, FindInv
  <1>2. CASE \/ OpenContainer \/ CloseContainer \/ WalkUp \/ CloseHere \/ CloseNothing
             \/ ReadString \/ ReadPrimitive \/ ReadColon \/ ReadComma
    BY <1>1, <1>2 DEF OpenContainer, CloseContainer, WalkUp, CloseHere, CloseNothing, ReadString,
                      ReadPrimitive, ReadColon, ReadComma, Reading, Parsing
  <1>3. CASE ParseFails
    <2>1. pc \in {"parse", "close"} /\ sought' = sought
      BY <1>3 DEF ParseFails, Errs, Reading
    <2>2. pc' \in {"failed", "idle"}
      BY <1>3 DEF ParseFails, BackToOwner
    <2> QED BY <1>1, <2>1, <2>2 DEF Parsing
  <1>4. CASE FinishParse \/ RejectFragment \/ AcceptFragment \/ CommitEdit
    BY <1>1, <1>4 DEF FinishParse, RejectFragment, AcceptFragment, CommitEdit, Parsed, Parsing,
                      BackToOwner, StartParser
  <1>5. CASE InsertMember \/ InsertElement \/ UpdateValue
    BY <1>5 DEF InsertMember, InsertElement, UpdateValue, Insert, StartParser
  <1>6. CASE StartRender
    <2>1. sought' = NoSearch /\ pc' \in {"render", pc} /\ pc = "idle"
      BY <1>6 DEF StartRender
    <2> QED BY <2>1
  <1>7. CASE RenderMember \/ RenderElement \/ RenderSkip \/ RenderThrows
    BY <1>1, <1>7 DEF RenderMember, RenderElement, RenderSkip, RenderThrows, InFrame, Visit
  <1>8. CASE RenderReturn
    <2>1. sought' = sought /\ pc' \in {"idle", pc} /\ pc = "render"
      BY <1>8 DEF RenderReturn
    <2> QED BY <1>1, <2>1
  <1> QED BY <1>2, <1>3, <1>4, <1>5, <1>6, <1>7, <1>8

LEMMA SearchSteps ==
  ASSUME IInv, NestInv, FindInv, StartFind \/ FindKey \/ FindNext \/ FindNothing
  PROVE  FindInv'
  <1>0. /\ Len(tokens) \in Nat /\ DOMAIN tokens = 1..Len(tokens) /\ at \in Nat
        /\ sought.object \in Nat /\ sought \in [object: Nat, name: Names, answer: Nat]
        /\ \A i \in DOMAIN tokens : /\ i \in Nat /\ tokens[i].start \in Nat
                                    /\ tokens[i].end \in Nat /\ tokens[i].parent \in Nat
                                    /\ tokens[i].parent < i
    BY TokensLie, ParserFacts DEF IInv, SearchInv
  <1>1. \A i \in DOMAIN tokens :
          tokens[i].parent # 0 /\ tokens[tokens[i].parent].type = "object" => tokens[i].type = "string"
    BY DEF IInv, ParserInv, ParserOK, Linked
  <1>2. /\ \A i, j \in DOMAIN tokens : i < j => tokens[i].start < tokens[j].start
        /\ \A i, j \in DOMAIN tokens :
             tokens[i].end # 0 /\ j > i /\ tokens[j].start < tokens[i].end => tokens[j].parent >= i
    BY DEF NestInv, Nested
  <1>3. pc = "find" =>
          /\ sought.object \in DOMAIN tokens /\ sought.object # 0 /\ sought.answer = 0
          /\ tokens[sought.object].type = "object" /\ at > sought.object /\ at >= 1
          /\ \A i \in Named : i >= at
          /\ \A i \in DOMAIN tokens : tokens[i].end # 0
    BY <1>0 DEF IInv, SearchInv, FindInv, PcInv, Quiet, Closed
  <1>4. CASE StartFind
    <2>1. PICK o \in DOMAIN tokens, n \in Names :
            /\ tokens[o].type = "object"
            /\ sought' = [object |-> o, name |-> n, answer |-> 0] /\ at' = o + 1
      BY <1>4 DEF StartFind
    <2>2. pc' = "find" /\ tokens' = tokens
      BY <1>4 DEF StartFind, parser
    <2>3. sought'.object = o /\ sought'.answer = 0 /\ at' > o
      BY <1>0, <2>1
    <2>4. \A i \in Named' : i \in DOMAIN tokens /\ tokens[i].parent = o
      BY <2>2, <2>3 DEF Named
    <2>5. \A i \in Named' : i >= at'
      BY <1>0, <2>1, <2>4
    <2>6. SearchIsRight'
      BY <2>2 DEF SearchIsRight
    <2> QED BY <2>1, <2>2, <2>3, <2>5, <2>6 DEF FindInv
  <1>5. CASE FindKey
    <2>1. /\ pc = "find" /\ at <= Len(tokens) /\ tokens[at].start < tokens[sought.object].end
          /\ tokens[at].parent = sought.object /\ text[tokens[at].start] = sought.name
          /\ sought' = [sought EXCEPT !.answer = at] /\ pc' = "idle"
          /\ tokens' = tokens /\ text' = text
      BY <1>5 DEF FindKey, InSearch, IsSought, parser
    <2>2. sought'.object = sought.object /\ sought'.name = sought.name /\ sought'.answer = at
      BY <1>0, <2>1
    <2>3. Named' = Named
      BY <2>1, <2>2 DEF Named
    <2>4. at \in Named
      <3>1. at \in DOMAIN tokens
        BY <1>0, <1>3, <2>1
      <3> QED BY <2>1, <3>1 DEF Named
    <2>5. \A i \in Named : at <= i
      <3>1. \A i \in Named : i \in DOMAIN tokens
        BY DEF Named
      <3> QED BY <1>0, <1>3, <2>1, <3>1
    <2>6. SearchIsRight'
      BY <2>2, <2>3, <2>4, <2>5 DEF SearchIsRight, Named
    <2> QED BY <2>1, <2>6 DEF FindInv
  <1>6. CASE FindNext
    <2>1. PICK j \in at..(Len(tokens) + 1) :
            /\ \A i \in at..(j - 1) : tokens[i].start < tokens[at].end
            /\ at' = j
      BY <1>6 DEF FindNext
    <2>2. /\ pc = "find" /\ at <= Len(tokens) /\ ~IsSought
          /\ pc' = pc /\ tokens' = tokens /\ text' = text /\ sought' = sought
      BY <1>6 DEF FindNext, InSearch, parser
    <2>3. at \in DOMAIN tokens /\ j \in Nat /\ j >= at
      BY <1>0, <1>3, <2>1, <2>2
    <2>4. ASSUME NEW i \in Named PROVE i >= j
      <3>1. /\ i \in DOMAIN tokens /\ tokens[i].parent = sought.object
            /\ text[tokens[i].start] = sought.name /\ i >= at
        BY <1>3, <2>2 DEF Named
      <3>2. i # at
        <4>1. tokens[i].type = "string"
          BY <1>1, <1>3, <2>2, <3>1
        <4> QED BY <2>2, <3>1, <4>1 DEF IsSought
      <3>3. ASSUME i < j PROVE FALSE
        <4>1. i \in at..(j - 1) /\ i > at
          BY <1>0, <2>3, <3>1, <3>2, <3>3
        <4>2. tokens[i].start < tokens[at].end /\ tokens[at].end # 0
          BY <1>3, <2>1, <2>2, <2>3, <4>1
        <4>3. tokens[i].parent >= at
          BY <1>2, <2>3, <3>1, <4>1, <4>2
        <4> QED BY <1>0, <1>3, <2>2, <2>3, <3>1, <4>3
      <3> QED BY <1>0, <2>3, <3>1, <3>3
    <2>5. Named' = Named
      BY <2>2 DEF Named
    <2>6. SearchIsRight'
      BY <2>2 DEF SearchIsRight
    <2>7. at' > sought.object
      BY <1>0, <1>3, <2>1, <2>2, <2>3
    <2> QED BY <1>3, <2>1, <2>2, <2>4, <2>5, <2>6, <2>7 DEF FindInv
  <1>7. CASE FindNothing
    <2>1. /\ pc = "find" /\ pc' = "idle" /\ tokens' = tokens /\ text' = text /\ sought' = sought
          /\ ~(at <= Len(tokens) /\ tokens[at].start < tokens[sought.object].end)
      BY <1>7 DEF FindNothing, InSearch, parser
    <2>2. ASSUME NEW i \in Named PROVE FALSE
      <3>1. /\ i \in DOMAIN tokens /\ tokens[i].start < tokens[sought.object].end /\ i >= at
        BY <1>3, <2>1 DEF Named
      <3>2. at <= Len(tokens) /\ at \in DOMAIN tokens
        BY <1>0, <1>3, <2>1, <3>1
      <3>3. tokens[at].start <= tokens[i].start
        <4>1. CASE i = at
          BY <1>0, <3>1, <4>1
        <4>2. CASE i # at
          <5>1. at < i
            BY <1>0, <3>1, <3>2, <4>2
          <5>2. tokens[at].start < tokens[i].start
            BY <1>2, <3>1, <3>2, <5>1
          <5> QED BY <1>0, <3>1, <3>2, <5>2
        <4> QED BY <4>1, <4>2
      <3>4. tokens[at].start < tokens[sought.object].end
        <4>1. /\ tokens[at].start \in Nat /\ tokens[i].start \in Nat
              /\ tokens[sought.object].end \in Nat
          BY <1>0, <1>3, <2>1, <3>1, <3>2
        <4> QED BY <3>1, <3>3, <4>1
      <3> QED BY <2>1, <3>2, <3>4
    <2>3. Named' = {} /\ sought'.answer = 0
      <3>1. Named' = Named
        BY <2>1 DEF Named
      <3> QED BY <1>3, <2>1, <2>2, <3>1
    <2>4. SearchIsRight'
      BY <2>3 DEF SearchIsRight, Named
    <2> QED BY <2>1, <2>4 DEF FindInv
  <1> QED BY <1>4, <1>5, <1>6, <1>7

---------------------------------------------------------------------------
(* Keys are found                                                          *)

LEMMA SearchInvariant == IInv /\ NestInv /\ FindInv /\ [Next]_vars => NestInv' /\ FindInv'
  <1> SUFFICES ASSUME IInv, NestInv, FindInv, [Next]_vars PROVE NestInv' /\ FindInv'
    OBVIOUS
  <1>1. CASE UNCHANGED vars
    BY <1>1 DEF vars, NestInv, FindInv, SearchIsRight, Named
  <1>2. CASE \/ StartRender \/ RenderMember \/ RenderElement \/ RenderSkip \/ RenderReturn
             \/ RenderThrows \/ StartFind \/ FindKey \/ FindNext \/ FindNothing
    <2>1. UNCHANGED <<parser, edit>>
      BY <1>2 DEF StartRender, RenderMember, RenderElement, RenderSkip, RenderReturn, RenderThrows,
                  StartFind, FindKey, FindNext, FindNothing, Visit
    <2>2. Quiet
      BY <1>2 DEF StartRender, RenderMember, RenderElement, RenderSkip, RenderReturn, RenderThrows,
                  StartFind, FindKey, FindNext, FindNothing, InFrame, InSearch, Quiet
    <2>3. \A i \in DOMAIN tokens : tokens[i].end # 0
      BY <2>2 DEF IInv, PcInv, Closed
    <2>4. NestInv'
      BY <2>1, <2>3 DEF NestInv, parser
    <2> QED BY <1>2, <2>4, NoSearchSteps, SearchSteps
  <1>3. CASE ~(\/ StartRender \/ RenderMember \/ RenderElement \/ RenderSkip \/ RenderReturn
               \/ RenderThrows \/ StartFind \/ FindKey \/ FindNext \/ FindNothing)
             /\ Next
    BY <1>3, NestParsing, NestOther, NoSearchSteps DEF Next
  <1> QED BY <1>1, <1>2, <1>3

LEMMA AlwaysNested == Spec => [](NestInv /\ FindInv)
  <1>1. Init => NestInv /\ FindInv
    <2> SUFFICES ASSUME Init PROVE NestInv /\ FindInv
      OBVIOUS
    <2>1. NestInv
      BY NestedNothing DEF Init, NestInv, NoEdit
    <2>2. sought = NoSearch /\ pc = "parse"
      BY DEF Init
    <2> QED BY <2>1, <2>2, NothingSought
  <1> QED BY <1>1, Invariance, SearchInvariant, PTL DEF Spec

\* Whatever the text, JSON or not, and whatever the search and the edits before it:
\* where find_key_in_object ends, its answer is the first key of that name between
\* the object's brackets that is the object's own, and none only if there is none.
THEOREM KeysAreFound == Spec => []SearchIsRight
  <1>1. FindInv => SearchIsRight
    BY DEF FindInv
  <1> QED BY <1>1, AlwaysNested, PTL

---------------------------------------------------------------------------
(* Depths and brackets                                                     *)

LEMMA LeastNumber ==
  ASSUME NEW T, T \subseteq Nat, T # {} PROVE \E x \in T : \A y \in T : x <= y
  <1> DEFINE R == OpToRel(<, Nat)
  <1>1. IsWellFoundedOn(R, Nat)
    BY NatLessThanWellFounded
  <1>2. PICK x \in T : \A y \in T : ~(<<y, x>> \in R)
    <2> HIDE DEF R
    <2> QED BY <1>1, WFMin
  <1>3. \A a, b \in Nat : a < b => <<a, b>> \in R
    BY DEF OpToRel
  <1> HIDE DEF R
  <1>4. \A y \in T : ~(y < x)
    BY <1>2, <1>3
  <1> QED BY <1>2, <1>4

LEMMA LastNumber ==
  ASSUME NEW n \in Nat, NEW T, T \subseteq 0..n, T # {} PROVE \E x \in T : \A y \in T : y <= x
  <1> DEFINE U == {n - x : x \in T}
  <1>0. \A y \in T : y \in 0..n
    OBVIOUS
  <1>1. U \subseteq Nat /\ U # {}
    <2>1. \A y \in T : n - y \in Nat
      BY <1>0
    <2> QED BY <2>1
  <1>2. PICK u \in U : \A v \in U : u <= v
    <2> HIDE DEF U
    <2> QED BY <1>1, LeastNumber
  <1>3. PICK x \in T : u = n - x
    OBVIOUS
  <1>4. \A y \in T : n - x <= n - y
    BY <1>2, <1>3
  <1>5. \A y \in T : y \in Int /\ x \in Int
    BY <1>0
  <1> HIDE DEF U
  <1>6. \A y \in T : y <= x
    BY <1>4, <1>5
  <1> QED BY <1>6

\* How many positions of a kind there are up to a position.
UpTo(S, p) == Cardinality({q \in 1..p : q \in S})

LEMMA CountUpTo ==
  ASSUME NEW S, NEW p \in Nat
  PROVE  /\ UpTo(S, p) \in Nat
         /\ p = 0 => UpTo(S, p) = 0
         /\ p # 0 => UpTo(S, p) = UpTo(S, p - 1) + (IF p \in S THEN 1 ELSE 0)
  <1> DEFINE U(n) == {q \in 1..n : q \in S}
  <1>1. \A n \in Nat : IsFiniteSet(U(n)) /\ Cardinality(U(n)) \in Nat
    <2> SUFFICES ASSUME NEW n \in Nat PROVE IsFiniteSet(U(n)) /\ Cardinality(U(n)) \in Nat
      OBVIOUS
    <2>1. IsFiniteSet(1..n)
      BY FS_Interval
    <2>2. U(n) \subseteq 1..n
      OBVIOUS
    <2> HIDE DEF U
    <2>3. IsFiniteSet(U(n))
      BY <2>1, <2>2, FS_Subset
    <2> QED BY <2>3, FS_CardinalityType
  <1>2. p = 0 => Cardinality(U(p)) = 0
    <2>1. p = 0 => U(p) = {}
      OBVIOUS
    <2> HIDE DEF U
    <2> QED BY <2>1, FS_EmptySet
  <1>3. ASSUME p # 0
        PROVE  Cardinality(U(p)) = Cardinality(U(p - 1)) + (IF p \in S THEN 1 ELSE 0)
    <2>1. p - 1 \in Nat
      BY <1>3
    <2>2. U(p) = (IF p \in S THEN U(p - 1) \cup {p} ELSE U(p - 1)) /\ p \notin U(p - 1)
      BY <1>3
    <2>3. IsFiniteSet(U(p - 1)) /\ IsFiniteSet(U(p)) /\ Cardinality(U(p - 1)) \in Nat /\ Cardinality(U(p)) \in Nat
      BY <1>1, <2>1
    <2> DEFINE before == U(p - 1)
    <2>4. Cardinality(U(p)) = Cardinality(before) + (IF p \in S THEN 1 ELSE 0)
      <3>1. CASE p \in S
        <4>1. U(p) = before \cup {p} /\ p \notin before /\ IsFiniteSet(before)
          BY <2>2, <2>3, <3>1
        <4> HIDE DEF U, before
        <4>2. Cardinality(before \cup {p}) = Cardinality(before) + 1
          BY <4>1, FS_AddElement
        <4> QED BY <3>1, <4>1, <4>2
      <3>2. CASE p \notin S
        <4>1. U(p) = before /\ Cardinality(before) \in Nat
          BY <2>2, <2>3, <3>2
        <4> HIDE DEF U, before
        <4> QED BY <3>2, <4>1
      <3> QED BY <3>1, <3>2
    <2> HIDE DEF before
    <2> QED BY <1>3, <2>3, <2>4 DEF before
  <1>4. UpTo(S, p) = Cardinality(U(p)) /\ UpTo(S, p - 1) = Cardinality(U(p - 1))
    BY DEF UpTo
  <1>5. Cardinality(U(p)) \in Nat
    BY <1>1
  <1> HIDE DEF U
  <1> QED BY <1>2, <1>3, <1>4, <1>5

LEMMA Brackets ==
  /\ Opening \cap Closing = {}
  /\ \A n \in Names : n \notin Opening /\ n \notin Closing /\ n # ":" /\ n # "," /\ n \notin Primitives
  /\ \A n \in Primitives : n \notin Opening /\ n \notin Closing /\ n # ":" /\ n # ","
  /\ ":" \notin Opening \cup Closing /\ "," \notin Opening \cup Closing
  <1>1. Opening \cap Closing = {} /\ ":" \notin Opening \cup Closing /\ "," \notin Opening \cup Closing
    BY DEF Opening, Closing
  <1>2. \A n \in Names : n \notin Opening \cup Closing \cup {":", ","} \cup Primitives \cup {Odd}
    BY LexemesAssumption, Zenon
  <1>3. \A n \in Primitives : n \notin Opening \cup Closing \cup {":", ","} \cup {Odd}
    BY LexemesAssumption, Zenon
  <1> QED BY <1>1, <1>2, <1>3

\* A bracket that opens is one deeper, one that closes one less deep.
LEMMA Depths ==
  ASSUME NEW t
  PROVE  /\ Depth(t, 0) = 0
         /\ \A p \in Nat : Depth(t, p) \in Int
         /\ \A p \in Nat \ {0} :
              /\ t[p] \in Opening => Depth(t, p) = Depth(t, p - 1) + 1
              /\ t[p] \in Closing => Depth(t, p) = Depth(t, p - 1) - 1
              /\ t[p] \notin Opening \cup Closing => Depth(t, p) = Depth(t, p - 1)
  <1> DEFINE O == {q \in Nat : t[q] \in Opening}
             C == {q \in Nat : t[q] \in Closing}
             Opened(p) == UpTo(O, p)
             Shut(p) == UpTo(C, p)
  <1>1. \A p \in Int : Depth(t, p) = Opened(p) - Shut(p)
    <2> SUFFICES ASSUME NEW p \in Int PROVE Depth(t, p) = Opened(p) - Shut(p)
      OBVIOUS
    <2>1. {q \in 1..p : t[q] \in Opening} = {q \in 1..p : q \in O}
      OBVIOUS
    <2>2. {q \in 1..p : t[q] \in Closing} = {q \in 1..p : q \in C}
      OBVIOUS
    <2> HIDE DEF O, C
    <2> QED BY <2>1, <2>2 DEF Depth, UpTo
  <1>2. ASSUME NEW p \in Nat
        PROVE  /\ Opened(p) \in Nat /\ Shut(p) \in Nat
               /\ p = 0 => Opened(p) = 0 /\ Shut(p) = 0
               /\ p # 0 => /\ Opened(p) = Opened(p - 1) + (IF p \in O THEN 1 ELSE 0)
                           /\ Shut(p) = Shut(p - 1) + (IF p \in C THEN 1 ELSE 0)
    <2> HIDE DEF O, C
    <2> QED BY CountUpTo
  <1>3. \A p \in Nat : (p \in O <=> t[p] \in Opening) /\ (p \in C <=> t[p] \in Closing)
    OBVIOUS
  <1> HIDE DEF O, C, Opened, Shut
  <1>4. ASSUME NEW p \in Nat PROVE Depth(t, p) \in Int /\ (p = 0 => Depth(t, p) = 0)
    BY <1>1, <1>2
  <1>5. ASSUME NEW p \in Nat \ {0}
        PROVE  /\ t[p] \in Opening => Depth(t, p) = Depth(t, p - 1) + 1
               /\ t[p] \in Closing => Depth(t, p) = Depth(t, p - 1) - 1
               /\ t[p] \notin Opening \cup Closing => Depth(t, p) = Depth(t, p - 1)
    <2>1. p - 1 \in Nat /\ p \in Nat /\ p # 0
      OBVIOUS
    <2>2. /\ Depth(t, p) = Opened(p) - Shut(p) /\ Depth(t, p - 1) = Opened(p - 1) - Shut(p - 1)
          /\ Opened(p) \in Nat /\ Shut(p) \in Nat /\ Opened(p - 1) \in Nat /\ Shut(p - 1) \in Nat
      BY <1>1, <1>2, <2>1
    <2>3. /\ Opened(p) = Opened(p - 1) + (IF t[p] \in Opening THEN 1 ELSE 0)
          /\ Shut(p) = Shut(p - 1) + (IF t[p] \in Closing THEN 1 ELSE 0)
      BY <1>2, <1>3, <2>1
    <2>4. ~(t[p] \in Opening /\ t[p] \in Closing)
      BY Brackets
    <2> QED BY <2>2, <2>3, <2>4
  <1> QED BY <1>4, <1>5

\* Bracket q has not been closed in front of position p.
OpenTill(t, q, p) == \A r \in q..(p - 1) : Depth(t, r) >= Depth(t, q)

\* Bracket q is the one that p is directly inside of.
IsInside(t, q, p) ==
  /\ q \in 1..(p - 1) /\ t[q] \in Opening
  /\ Depth(t, q) = Depth(t, p - 1) /\ OpenTill(t, q, p)

\* No bracket behind it that is still open is another one.
LEMMA InnermostBracket ==
  ASSUME NEW t, NEW p \in Nat, NEW q, IsInside(t, q, p), NEW w \in q..(p - 1), t[w] \in Opening,
         OpenTill(t, w, p)
  PROVE  w = q
  <1>1. /\ q \in Nat /\ q >= 1 /\ w \in Nat /\ w >= q /\ w <= p - 1 /\ p >= 1 /\ p - 1 \in w..(p - 1)
        /\ Depth(t, q) = Depth(t, p - 1)
    BY DEF IsInside
  <1>2. SUFFICES ASSUME w # q PROVE FALSE
    OBVIOUS
  <1>3. w - 1 \in q..(p - 1) /\ w - 1 \in Nat /\ w \in Nat \ {0} /\ p - 1 \in Nat
    BY <1>1, <1>2
  <1>4. Depth(t, w) = Depth(t, w - 1) + 1
    BY <1>3, Depths
  <1>5. Depth(t, w - 1) >= Depth(t, q)
    BY <1>3 DEF IsInside, OpenTill
  <1>6. Depth(t, p - 1) >= Depth(t, w)
    BY <1>1 DEF OpenTill
  <1>7. /\ Depth(t, w) \in Int /\ Depth(t, w - 1) \in Int /\ Depth(t, q) \in Int
        /\ Depth(t, p - 1) \in Int
    BY <1>1, <1>3, Depths
  <1> QED BY <1>1, <1>4, <1>5, <1>6, <1>7

\* Inside is a bracket with these two properties, and the only one.
LEMMA InsideIs ==
  ASSUME NEW t, NEW p \in Nat \ {0}
  PROVE  /\ Inside(t, p) # 0 => IsInside(t, Inside(t, p), p)
         /\ \A q : IsInside(t, q, p) => Inside(t, p) = q
  <1> DEFINE depth == Depth(t, p - 1)
             outer == {q \in 1..(p - 1) : t[q] \in Opening /\ Depth(t, q) = depth}
             i == Inside(t, p)
  <1>0. p - 1 \in Nat
    OBVIOUS
  <1>1. i = IF outer = {} THEN 0 ELSE CHOOSE q \in outer : \A r \in outer : r <= q
    BY DEF Inside
  <1>2. outer # {} => i \in outer /\ \A r \in outer : r <= i
    <2>1. outer \subseteq 0..(p - 1)
      OBVIOUS
    <2> HIDE DEF outer, i
    <2>2. ASSUME outer # {} PROVE \E q \in outer : \A r \in outer : r <= q
      BY <1>0, <2>1, <2>2, LastNumber
    <2> QED BY <1>1, <2>2
  <1>3. ASSUME outer # {} PROVE IsInside(t, i, p)
    <2>1. /\ i \in 1..(p - 1) /\ t[i] \in Opening /\ Depth(t, i) = Depth(t, p - 1)
          /\ \A r \in outer : r <= i
      <3> HIDE DEF i
      <3> QED BY <1>2, <1>3
    <2> HIDE DEF i
    <2> DEFINE low == {r \in i..(p - 1) : Depth(t, r) < Depth(t, i)}
    <2>2. ASSUME low # {} PROVE FALSE
      <3>1. low \subseteq 0..(p - 1)
        BY <2>1
      <3>2. PICK m \in low : \A r \in low : r <= m
        <4> HIDE DEF low
        <4> QED BY <1>0, <2>2, <3>1, LastNumber
      <3>3. m \in i..(p - 1) /\ m \in Nat /\ Depth(t, m) < Depth(t, i) /\ i \in Nat
        BY <2>1, <3>2
      <3>4. m # p - 1
        <4>1. Depth(t, i) \in Int
          BY <3>3, Depths
        <4> QED BY <2>1, <3>3, <4>1
      <3>5. m + 1 \in i..(p - 1) /\ m + 1 \in Nat \ {0} /\ (m + 1) - 1 = m /\ m + 1 > i
        BY <1>0, <3>3, <3>4
      <3>6. ~(Depth(t, m + 1) < Depth(t, i))
        <4>1. m + 1 \notin low
          <5>1. ~(m + 1 <= m)
            BY <3>3
          <5> HIDE DEF low
          <5> QED BY <3>2, <5>1
        <4> QED BY <3>5, <4>1
      <3>7. Depth(t, m) \in Int /\ Depth(t, m + 1) \in Int /\ Depth(t, i) \in Int
        BY <3>3, <3>5, Depths
      <3>8. t[m + 1] \in Opening /\ Depth(t, m + 1) = Depth(t, m) + 1
        <4>1. /\ t[m + 1] \in Opening => Depth(t, m + 1) = Depth(t, m) + 1
              /\ t[m + 1] \in Closing => Depth(t, m + 1) = Depth(t, m) - 1
              /\ t[m + 1] \notin Opening \cup Closing => Depth(t, m + 1) = Depth(t, m)
          BY <3>5, Depths
        <4> QED BY <3>3, <3>6, <3>7, <4>1
      <3>9. Depth(t, m + 1) = Depth(t, i)
        BY <3>3, <3>6, <3>7, <3>8
      <3>10. m + 1 \in outer
        <4>1. m + 1 \in 1..(p - 1)
          BY <2>1, <3>5
        <4> QED BY <2>1, <3>8, <3>9, <4>1
      <3>11. m + 1 <= i
        <4> HIDE DEF outer
        <4> QED BY <2>1, <3>10
      <3> QED BY <3>3, <3>5, <3>11
    <2>3. OpenTill(t, i, p)
      <3>1. ASSUME NEW r \in i..(p - 1) PROVE Depth(t, r) >= Depth(t, i)
        <4>1. ~(Depth(t, r) < Depth(t, i))
          BY <2>2
        <4>2. Depth(t, r) \in Int /\ Depth(t, i) \in Int
          BY <2>1, Depths
        <4> QED BY <4>1, <4>2
      <3> QED BY <3>1 DEF OpenTill
    <2> QED BY <2>1, <2>3 DEF IsInside
  <1>4. i # 0 => outer # {}
    BY <1>1
  <1>5. ASSUME NEW q, IsInside(t, q, p) PROVE i = q
    <2>1. q \in outer
      BY <1>5 DEF IsInside
    <2>2. i \in outer /\ q <= i
      <3> HIDE DEF outer, i
      <3> QED BY <1>2, <2>1
    <2>3. i \in q..(p - 1) /\ t[i] \in Opening
      BY <1>5, <2>2 DEF IsInside
    <2>4. OpenTill(t, i, p)
      <3> HIDE DEF i, outer
      <3> QED BY <1>3, <2>1 DEF IsInside
    <2> HIDE DEF i, outer
    <2> QED BY <1>5, <2>3, <2>4, InnermostBracket
  <1> QED BY <1>3, <1>4, <1>5

\* What is not a closing bracket leaves open what is open.
LEMMA OpenOn ==
  ASSUME NEW t, NEW p \in Nat \ {0}, NEW q \in 1..(p - 1), OpenTill(t, q, p), t[p] \notin Closing
  PROVE  OpenTill(t, q, p + 1)
  <1>1. p \in Nat /\ p - 1 \in Nat /\ p - 1 \in q..(p - 1) /\ q \in Nat
    OBVIOUS
  <1>2. Depth(t, p) \in Int /\ Depth(t, p - 1) \in Int /\ Depth(t, q) \in Int
    BY <1>1, Depths
  <1>3. Depth(t, p) >= Depth(t, p - 1)
    <2>1. Depth(t, p) = Depth(t, p - 1) + 1 \/ Depth(t, p) = Depth(t, p - 1)
      BY Depths
    <2> QED BY <1>2, <2>1
  <1>4. Depth(t, p - 1) >= Depth(t, q)
    BY <1>1 DEF OpenTill
  <1>5. ASSUME NEW r \in q..((p + 1) - 1) PROVE Depth(t, r) >= Depth(t, q)
    <2>1. r = p \/ r \in q..(p - 1)
      BY <1>1
    <2>2. r \in q..(p - 1) => Depth(t, r) >= Depth(t, q)
      BY DEF OpenTill
    <2> QED BY <1>2, <1>3, <1>4, <2>1, <2>2
  <1> QED BY <1>5 DEF OpenTill

\* The bracket that a position is inside of, from one position to the next.
LEMMA InsideNext ==
  ASSUME NEW t, NEW p \in Nat \ {0}
  PROVE  /\ t[p] \in Opening => Inside(t, p + 1) = p
         /\ \A q : IsInside(t, q, p) /\ t[p] \notin Opening \cup Closing => Inside(t, p + 1) = q
         /\ \A q, u : IsInside(t, q, p) /\ t[p] \in Closing /\ IsInside(t, u, p + 1) =>
                        IsInside(t, u, q)
  <1>0. p \in Nat /\ p + 1 \in Nat \ {0} /\ p - 1 \in Nat /\ (p + 1) - 1 = p
    OBVIOUS
  <1>1. ASSUME t[p] \in Opening PROVE Inside(t, p + 1) = p
    <2>1. OpenTill(t, p, p + 1)
      <3>1. Depth(t, p) \in Int
        BY <1>0, Depths
      <3>2. \A r \in p..p : r = p
        OBVIOUS
      <3> QED BY <1>0, <3>1, <3>2 DEF OpenTill
    <2>2. IsInside(t, p, p + 1)
      BY <1>0, <1>1, <2>1 DEF IsInside
    <2> QED BY <1>0, <2>2, InsideIs
  <1>2. ASSUME NEW q, IsInside(t, q, p), t[p] \notin Opening \cup Closing
        PROVE  Inside(t, p + 1) = q
    <2>1. q \in 1..(p - 1) /\ t[q] \in Opening /\ Depth(t, q) = Depth(t, p - 1) /\ OpenTill(t, q, p)
      BY <1>2 DEF IsInside
    <2>2. OpenTill(t, q, p + 1)
      BY <1>2, <2>1, OpenOn
    <2>3. Depth(t, p) = Depth(t, p - 1)
      BY <1>2, Depths
    <2>4. IsInside(t, q, p + 1)
      BY <1>0, <2>1, <2>2, <2>3 DEF IsInside
    <2> QED BY <1>0, <2>4, InsideIs
  <1>3. ASSUME NEW q, NEW u, IsInside(t, q, p), t[p] \in Closing, IsInside(t, u, p + 1)
        PROVE  IsInside(t, u, q)
    <2>1. q \in 1..(p - 1) /\ t[q] \in Opening /\ Depth(t, q) = Depth(t, p - 1) /\ OpenTill(t, q, p)
      BY <1>3 DEF IsInside
    <2>2. u \in 1..p /\ t[u] \in Opening /\ Depth(t, u) = Depth(t, p) /\ OpenTill(t, u, p + 1)
      BY <1>0, <1>3 DEF IsInside
    <2>3. /\ Depth(t, p) = Depth(t, p - 1) - 1 /\ Depth(t, q) = Depth(t, q - 1) + 1
          /\ Depth(t, p - 1) \in Int /\ Depth(t, q - 1) \in Int /\ Depth(t, u) \in Int
      <3>1. q \in Nat \ {0} /\ q - 1 \in Nat /\ u \in Nat
        BY <1>0, <2>1, <2>2
      <3> QED BY <1>0, <1>3, <2>1, <3>1, Depths
    <2>4. u < q
      <3>1. u # p
        BY <1>3, <2>2, Brackets
      <3>2. ASSUME u \in q..(p - 1) PROVE FALSE
        <4>1. Depth(t, u) >= Depth(t, q)
          BY <2>1, <3>2 DEF OpenTill
        <4>2. Depth(t, u) = Depth(t, q) - 1 /\ Depth(t, q) \in Int
          BY <2>1, <2>2, <2>3
        <4> QED BY <2>3, <4>1, <4>2
      <3> QED BY <1>0, <2>1, <2>2, <3>1, <3>2
    <2>5. Depth(t, u) = Depth(t, q - 1)
      BY <2>1, <2>2, <2>3
    <2>6. OpenTill(t, u, q)
      <3>1. \A r \in u..(q - 1) : r \in u..((p + 1) - 1)
        BY <1>0, <2>1, <2>2
      <3> QED BY <2>2, <3>1 DEF OpenTill
    <2> QED BY <2>1, <2>2, <2>4, <2>5, <2>6 DEF IsInside
  <1> QED BY <1>1, <1>2, <1>3

---------------------------------------------------------------------------
(* The numbers of the tokens                                               *)

LEMMA Numbers ==
  ASSUME NEW t, Len(t) \in Nat
  PROVE  /\ NumberOf(t, 0) = 0
         /\ \A p \in Nat : NumberOf(t, p) \in Nat
         /\ \A p \in Nat \ {0} :
              NumberOf(t, p) = NumberOf(t, p - 1) + (IF p \in Starts(t) THEN 1 ELSE 0)
         /\ NumberOf(t, Len(t)) = Cardinality(Starts(t))
         /\ IsFiniteSet(Starts(t))
  <1>1. \A p \in Nat : NumberOf(t, p) = UpTo(Starts(t), p)
    <2>1. ASSUME NEW p \in Nat PROVE NumberOf(t, p) = UpTo(Starts(t), p)
      <3>1. Starts(t) \subseteq 1..Len(t)
        BY DEF Starts
      <3>2. {q \in Starts(t) : q <= p} = {q \in 1..p : q \in Starts(t)}
        BY <3>1
      <3> QED BY <3>2 DEF NumberOf, UpTo
    <2> QED BY <2>1
  <1>2. \A p \in Nat : /\ UpTo(Starts(t), p) \in Nat
                       /\ p = 0 => UpTo(Starts(t), p) = 0
                       /\ p # 0 => UpTo(Starts(t), p) = UpTo(Starts(t), p - 1)
                                                        + (IF p \in Starts(t) THEN 1 ELSE 0)
    BY CountUpTo
  <1>3. {q \in Starts(t) : q <= Len(t)} = Starts(t)
    BY DEF Starts
  <1>4. \A p \in Nat \ {0} : p \in Nat /\ p # 0 /\ p - 1 \in Nat
    OBVIOUS
  <1>5. NumberOf(t, Len(t)) = Cardinality(Starts(t))
    BY <1>3 DEF NumberOf
  <1>6. IsFiniteSet(Starts(t))
    <2>1. IsFiniteSet(1..Len(t)) /\ Starts(t) \subseteq 1..Len(t)
      BY FS_Interval DEF Starts
    <2> QED BY <2>1, FS_Subset
  <1> QED BY <1>1, <1>2, <1>4, <1>5, <1>6

LEMMA NumbersGrow ==
  ASSUME NEW t, Len(t) \in Nat
  PROVE  /\ \A p, q \in Nat : p <= q => NumberOf(t, p) <= NumberOf(t, q)
         /\ \A p \in Nat, q \in Starts(t) : p < q => NumberOf(t, p) < NumberOf(t, q)
         /\ \A q \in Starts(t) : NumberOf(t, q) \in 1..Cardinality(Starts(t))
         /\ \A p, q \in Starts(t) : NumberOf(t, p) = NumberOf(t, q) => p = q
  <1>0. \A q \in Starts(t) : q \in Nat \ {0} /\ q \in Nat /\ q - 1 \in Nat /\ q <= Len(t)
    BY DEF Starts
  <1>1. ASSUME NEW p \in Nat, NEW q \in Nat, p <= q PROVE NumberOf(t, p) <= NumberOf(t, q)
    <2> DEFINE P == {r \in Starts(t) : r <= p}
               Q == {r \in Starts(t) : r <= q}
    <2>1. P \subseteq Q /\ Q \subseteq Starts(t)
      BY <1>0, <1>1
    <2>2. NumberOf(t, p) = Cardinality(P) /\ NumberOf(t, q) = Cardinality(Q)
      BY DEF NumberOf
    <2>3. IsFiniteSet(Starts(t))
      BY Numbers
    <2> HIDE DEF P, Q
    <2>4. IsFiniteSet(Q)
      BY <2>1, <2>3, FS_Subset
    <2>5. Cardinality(P) <= Cardinality(Q)
      BY <2>1, <2>4, FS_Subset
    <2> QED BY <2>2, <2>5
  <1>2. ASSUME NEW p \in Nat, NEW q \in Starts(t), p < q PROVE NumberOf(t, p) < NumberOf(t, q)
    <2>1. q \in Nat \ {0} /\ q - 1 \in Nat /\ p <= q - 1
      BY <1>0, <1>2
    <2>2. NumberOf(t, q) = NumberOf(t, q - 1) + 1 /\ NumberOf(t, p) <= NumberOf(t, q - 1)
      BY <1>1, <2>1, Numbers
    <2>3. NumberOf(t, q - 1) \in Nat /\ NumberOf(t, p) \in Nat
      BY <2>1, Numbers
    <2> QED BY <2>2, <2>3
  <1>3. ASSUME NEW q \in Starts(t) PROVE NumberOf(t, q) \in 1..Cardinality(Starts(t))
    <2>1. NumberOf(t, 0) = 0 /\ NumberOf(t, q) \in Nat /\ NumberOf(t, Len(t)) = Cardinality(Starts(t))
          /\ NumberOf(t, Len(t)) \in Nat
      BY <1>0, Numbers
    <2>2. NumberOf(t, 0) < NumberOf(t, q)
      BY <1>0, <1>2
    <2>3. NumberOf(t, q) <= NumberOf(t, Len(t))
      BY <1>0, <1>1
    <2> QED BY <2>1, <2>2, <2>3
  <1>4. ASSUME NEW p \in Starts(t), NEW q \in Starts(t), NumberOf(t, p) = NumberOf(t, q) PROVE p = q
    <2>1. p \in Nat /\ q \in Nat /\ NumberOf(t, p) \in Nat
      BY <1>0, Numbers
    <2>2. ~(p < q) /\ ~(q < p)
      <3>1. p < q => NumberOf(t, p) < NumberOf(t, q)
        BY <1>2, <2>1
      <3>2. q < p => NumberOf(t, q) < NumberOf(t, p)
        BY <1>2, <2>1
      <3> QED BY <1>4, <2>1, <3>1, <3>2
    <2> QED BY <2>1, <2>2
  <1> QED BY <1>1, <1>2, <1>3, <1>4

\* Every number up to that of a position is that of a value in front of it.
LEMMA NumbersAreUsed ==
  ASSUME NEW t, Len(t) \in Nat, NEW p \in Nat, NEW k \in 1..NumberOf(t, p)
  PROVE  \E q \in Starts(t) : q <= p /\ NumberOf(t, q) = k
  <1> DEFINE T == {q \in Nat : NumberOf(t, q) >= k}
  <1>0. NumberOf(t, p) \in Nat /\ k \in Nat /\ k >= 1 /\ k <= NumberOf(t, p) /\ NumberOf(t, 0) = 0
    BY Numbers
  <1>1. PICK q \in T : \A r \in T : q <= r
    <2>1. T \subseteq Nat /\ p \in T
      BY <1>0
    <2> HIDE DEF T
    <2> QED BY <2>1, LeastNumber
  <1>2. q \in Nat /\ NumberOf(t, q) >= k /\ q <= p
    <2>1. p \in T
      BY <1>0
    <2> QED BY <1>1, <2>1
  <1>3. q # 0
    BY <1>0, <1>2
  <1>4. q - 1 \in Nat /\ q \in Nat \ {0} /\ ~(NumberOf(t, q - 1) >= k)
    <2>1. q - 1 \in Nat /\ ~(q <= q - 1)
      BY <1>2, <1>3
    <2>2. q - 1 \notin T
      <3> HIDE DEF T
      <3> QED BY <1>1, <2>1
    <2> QED BY <1>2, <1>3, <2>1, <2>2
  <1>5. NumberOf(t, q) = NumberOf(t, q - 1) + (IF q \in Starts(t) THEN 1 ELSE 0)
        /\ NumberOf(t, q - 1) \in Nat
    BY <1>4, Numbers
  <1>6. q \in Starts(t) /\ NumberOf(t, q) = k
    <2>1. CASE q \in Starts(t)
      BY <1>0, <1>2, <1>4, <1>5, <2>1
    <2>2. CASE q \notin Starts(t)
      BY <1>0, <1>2, <1>4, <1>5, <2>2
    <2> QED BY <2>1, <2>2
  <1> QED BY <1>2, <1>6

---------------------------------------------------------------------------
(* What has been read of a JSON text                                       *)

\* Bracket q is closed at position c.
Shuts(t, q, c) == c > q /\ Depth(t, c) < Depth(t, q) /\ OpenTill(t, q, c)

\* The token at position q of a text that has been read up to position p.
IsTokenOf(t, k, q, p) ==
  /\ k.start = q /\ k.parent = ParentOf(t, q)
  /\ t[q] \in Opening =>
       /\ k.type = TypeOfBracket[t[q]]
       /\ IF k.end = 0 THEN OpenTill(t, q, p) ELSE Shuts(t, q, k.end - 1) /\ k.end <= p
  /\ t[q] \in Names => k.type = "string" /\ k.end = IF t[q] = EmptyName THEN q ELSE q + 1
  /\ t[q] \in Primitives => k.type = "primitive" /\ k.end = q + 1

IsReadUpTo(t, p, ts) ==
  /\ Len(ts) = NumberOf(t, p - 1)
  /\ \A q \in Starts(t) : q < p => IsTokenOf(t, ts[NumberOf(t, q)], q, p)

\* The token that a part at position p would go below.
Below(t, p) ==
  IF p = 1 THEN 0
  ELSE IF t[p - 1] \in Opening THEN NumberOf(t, p - 1)
  ELSE IF t[p - 1] = ":" THEN NumberOf(t, p - 2)
  ELSE IF t[p - 1] = "," THEN NumberOf(t, Inside(t, p))
  ELSE ParentOf(t, IF t[p - 1] \in Closing THEN Inside(t, p - 1) ELSE p - 1)

JsonInv ==
  /\ IsJson(text) =>
       /\ pc # "failed"
       /\ pc \in {"parse", "close"} => IsReadUpTo(text, pos, tokens) /\ super = Below(text, pos)
       /\ Quiet => IsReadUpTo(text, Len(text) + 1, tokens)
  /\ edit.stage # "none" /\ IsJson(edit.owner.text) =>
       IsReadUpTo(edit.owner.text, Len(edit.owner.text) + 1, edit.owner.tokens)

---------------------------------------------------------------------------
(* What may stand where in a JSON text                                     *)

LEMMA Kinds3 ==
  ASSUME NEW c \in Lexemes \ {Odd}
  PROVE  c \in Opening \/ c \in Closing \/ c = ":" \/ c = "," \/ c \in Names \/ c \in Primitives
  BY DEF Lexemes

ValueBefore(t, p) == t[p - 1] \in Closing \cup Names \cup Primitives /\ ~IsKey(t, p - 1)

\* What MayFollow says of each kind of lexeme.
LEMMA Follows ==
  ASSUME NEW t, NEW p, MayFollow(t, p)
  PROVE  /\ t[p] \in Closing => /\ ValueBefore(t, p) \/ t[p - 1] \in Opening
                                /\ TypeOfBracket[t[p]] = TypeOfBracket[t[Inside(t, p)]]
         /\ t[p] = "," => ValueBefore(t, p)
         /\ t[p] = ":" => t[p - 1] \in Names /\ IsKey(t, p - 1)
         /\ t[p] \notin Closing \cup {":", ","} =>
              IF InObject(t, p) /\ t[p - 1] # ":" THEN t[p] \in Names /\ t[p - 1] \in {"{", ","}
              ELSE StartsValue(t[p]) /\ t[p - 1] \in {"[", ",", ":"}
  <1>1. CASE t[p] \in Closing
    <2>2. t[p] # ":" /\ t[p] # ","
      BY <1>1, Brackets
    <2>1. /\ ValueBefore(t, p) \/ t[p - 1] \in Opening
          /\ TypeOfBracket[t[p]] = TypeOfBracket[t[Inside(t, p)]]
      BY <1>1, <2>2 DEF MayFollow, ValueBefore
    <2> QED BY <1>1, <2>1, <2>2
  <1>2. CASE t[p] = ","
    <2>1. t[p] \notin Closing
      BY <1>2, Brackets
    <2> QED BY <1>2, <2>1 DEF MayFollow, ValueBefore
  <1>3. CASE t[p] = ":"
    <2>1. t[p] \notin Closing
      BY <1>3, Brackets
    <2> QED BY <1>3, <2>1 DEF MayFollow
  <1>4. CASE t[p] \notin Closing \cup {":", ","}
    BY <1>4 DEF MayFollow
  <1> QED BY <1>1, <1>2, <1>3, <1>4

LEMMA JsonFacts ==
  ASSUME NEW t, IsJson(t), Len(t) \in Nat
  PROVE  /\ \A p \in 1..Len(t) : t[p] \in Lexemes \ {Odd} /\ Depth(t, p) >= 0
         /\ Depth(t, Len(t)) = 0
         /\ t[1] \in Opening \cup Names
         /\ \A p \in 2..Len(t) : /\ Inside(t, p) # 0 /\ MayFollow(t, p)
                                 /\ IsInside(t, Inside(t, p), p)
  <1>1. /\ \A p \in 1..Len(t) : t[p] \in Lexemes \ {Odd} /\ Depth(t, p) >= 0
        /\ Depth(t, Len(t)) = 0
        /\ t[1] \in Opening \cup Names
        /\ \A p \in 2..Len(t) : Inside(t, p) # 0 /\ MayFollow(t, p)
    BY DEF IsJson
  <1>2. \A p \in 2..Len(t) : IsInside(t, Inside(t, p), p)
    <2>1. \A p \in 2..Len(t) : p \in Nat \ {0}
      OBVIOUS
    <2> QED BY <1>1, <2>1, InsideIs
  <1> QED BY <1>1, <1>2

\* A text that is only a string has nothing behind it.
LEMMA NothingBehindAString ==
  ASSUME NEW t, IsJson(t), Len(t) \in Nat, t[1] \notin Opening
  PROVE  Len(t) <= 1
  <1>1. SUFFICES ASSUME 2 \in 2..Len(t) PROVE FALSE
    OBVIOUS
  <1>2. IsInside(t, Inside(t, 2), 2)
    BY <1>1, JsonFacts
  <1>3. Inside(t, 2) = 1 /\ t[1] \in Opening
    BY <1>2 DEF IsInside
  <1> QED BY <1>3

\* The bracket that a position behind a lexeme is inside of: that in front of it
\* is inside of the same, or opens it, or the bracket that it closes is.
LEMMA InsideInJson ==
  ASSUME NEW t, IsJson(t), Len(t) \in Nat, NEW p \in 1..(Len(t) - 1)
  PROVE  /\ IsInside(t, Inside(t, p + 1), p + 1)
         /\ t[p] \in Opening => Inside(t, p + 1) = p
         /\ t[p] \notin Opening => p >= 2 /\ IsInside(t, Inside(t, p), p)
         /\ t[p] \notin Opening \cup Closing => Inside(t, p + 1) = Inside(t, p)
         /\ t[p] \in Closing => LET q == Inside(t, p) IN
              q >= 2 /\ Inside(t, q) = Inside(t, p + 1) /\ IsInside(t, Inside(t, q), q)
  <1>0. p \in Nat \ {0} /\ p + 1 \in 2..Len(t) /\ p \in 1..Len(t) /\ p + 1 \in Nat
    OBVIOUS
  <1>1. IsInside(t, Inside(t, p + 1), p + 1)
    BY <1>0, JsonFacts
  <1>2. ASSUME t[p] \notin Opening PROVE p \in 2..Len(t) /\ IsInside(t, Inside(t, p), p)
    <2>1. p # 1
      BY <1>0, <1>2, NothingBehindAString
    <2>2. p \in 2..Len(t)
      BY <1>0, <2>1
    <2> QED BY <2>2, JsonFacts
  <1>3. t[p] \in Opening => Inside(t, p + 1) = p
    BY <1>0, InsideNext
  <1>4. t[p] \notin Opening \cup Closing => Inside(t, p + 1) = Inside(t, p)
    BY <1>0, <1>2, InsideNext
  <1>5. ASSUME t[p] \in Closing
        PROVE  LET q == Inside(t, p) IN
                 q >= 2 /\ Inside(t, q) = Inside(t, p + 1) /\ IsInside(t, Inside(t, q), q)
    <2> DEFINE q == Inside(t, p)
               u == Inside(t, p + 1)
    <2>1. t[p] \notin Opening
      BY <1>5, Brackets
    <2>2. IsInside(t, q, p) /\ IsInside(t, u, p + 1)
      BY <1>1, <1>2, <2>1
    <2> HIDE DEF q, u
    <2>3. IsInside(t, u, q)
      BY <1>0, <1>5, <2>2, InsideNext
    <2>4. q \in Nat \ {0} /\ q >= 2
      <3>1. q \in 1..(p - 1) /\ u \in 1..(q - 1)
        BY <2>2, <2>3 DEF IsInside
      <3> QED BY <1>0, <3>1
    <2>5. Inside(t, q) = u
      BY <2>3, <2>4, InsideIs
    <2> QED BY <2>3, <2>4, <2>5 DEF q, u
  <1> QED BY <1>1, <1>2, <1>3, <1>4, <1>5

\* A part at position p goes below the token that is its parent.
LEMMA BelowIsParent ==
  ASSUME NEW t, IsJson(t), Len(t) \in Nat, NEW p \in 1..Len(t), StartsValue(t[p])
  PROVE  Below(t, p) = ParentOf(t, p)
  <1>1. CASE p = 1
    <2>1. Inside(t, 1) = 0
      <3>1. ~IsInside(t, Inside(t, 1), 1)
        BY DEF IsInside
      <3> QED BY <3>1, InsideIs
    <2> QED BY <1>1, <2>1 DEF Below, ParentOf
  <1>2. CASE p # 1
    <2>1. p \in 2..Len(t) /\ p > 1 /\ p - 1 \in 1..(Len(t) - 1) /\ (p - 1) + 1 = p
      BY <1>2
    <2>2. MayFollow(t, p) /\ Inside(t, p) # 0
      BY <2>1, JsonFacts
    <2>3. t[p] \notin Closing \cup {":", ","}
      BY Brackets DEF StartsValue
    <2>4. t[p - 1] \in {"{", "[", ",", ":"}
      BY <2>2, <2>3, Follows
    <2>5. CASE t[p - 1] = ":"
      BY <1>2, <2>1, <2>5, Brackets DEF Below, ParentOf
    <2>6. CASE t[p - 1] = ","
      BY <1>2, <2>1, <2>2, <2>6, Brackets DEF Below, ParentOf
    <2>7. CASE t[p - 1] \in {"{", "["}
      <3>1. t[p - 1] \in Opening
        BY <2>7 DEF Opening
      <3>2. Inside(t, p) = p - 1
        BY <2>1, <3>1, InsideInJson
      <3>3. t[p - 1] # ":"
        BY <3>1, Brackets
      <3> QED BY <1>2, <2>1, <2>2, <3>1, <3>2, <3>3 DEF Below, ParentOf
    <2> QED BY <2>4, <2>5, <2>6, <2>7
  <1> QED BY <1>1, <1>2

\* A key is a string that is directly inside of an object.
LEMMA KeyFacts ==
  ASSUME NEW t, IsJson(t), Len(t) \in Nat, NEW p \in 1..Len(t), t[p] = ":"
  PROVE  /\ p >= 3 /\ p - 1 \in Starts(t) /\ t[p - 1] \in Names
         /\ Inside(t, p - 1) # 0 /\ ParentOf(t, p - 1) = NumberOf(t, Inside(t, p - 1))
         /\ Inside(t, p) = Inside(t, p - 1)
  <1>1. p # 1
    BY JsonFacts, Brackets
  <1>2. p \in 2..Len(t) /\ p - 1 \in 1..(Len(t) - 1) /\ (p - 1) + 1 = p
    BY <1>1
  <1>3. t[p - 1] \in Names /\ IsKey(t, p - 1)
    <2>1. MayFollow(t, p)
      BY <1>2, JsonFacts
    <2> QED BY <2>1, Follows
  <1>4. t[p - 1] \notin Opening \cup Closing
    BY <1>3, Brackets
  <1>5. p - 1 >= 2 /\ Inside(t, p) = Inside(t, p - 1)
    BY <1>2, <1>4, InsideInJson
  <1>6. p - 1 \in Starts(t)
    BY <1>2, <1>3 DEF Starts, StartsValue
  <1>7. Inside(t, p - 1) # 0 /\ t[(p - 1) - 1] \in {"{", ","}
    BY <1>3 DEF IsKey, InObject
  <1>8. ParentOf(t, p - 1) = NumberOf(t, Inside(t, p - 1))
    BY <1>5, <1>7 DEF ParentOf
  <1>9. p >= 3
    BY <1>2, <1>5
  <1> QED BY <1>3, <1>5, <1>6, <1>7, <1>8, <1>9

---------------------------------------------------------------------------
(* One lexeme more                                                         *)

LEMMA StartsAre ==
  ASSUME NEW t, Len(t) \in Nat
  PROVE  /\ \A q \in Starts(t) : q \in Nat \ {0} /\ q \in Nat /\ q \in 1..Len(t) /\ q <= Len(t)
         /\ \A q \in Starts(t) : StartsValue(t[q])
         /\ \A q \in 1..Len(t) : t[q] \in Opening \cup Names \cup Primitives => q \in Starts(t)
         /\ \A q \in 1..Len(t) : t[q] \notin Opening \cup Names \cup Primitives => q \notin Starts(t)
  BY DEF Starts, StartsValue

\* Nothing is read of a text at its start.
LEMMA ReadNothing ==
  ASSUME NEW t \in Seq(Lexemes) PROVE IsReadUpTo(t, 1, <<>>) /\ Below(t, 1) = 0
  <1>1. NumberOf(t, 0) = 0
    BY Numbers
  <1>2. \A q \in Starts(t) : ~(q < 1)
    BY StartsAre
  <1> QED BY <1>1, <1>2 DEF IsReadUpTo, Below

\* A token that was read remains the one of its position.
LEMMA TokenOn ==
  ASSUME NEW t, NEW p \in Nat \ {0}, NEW q \in 1..(p - 1), NEW k, NEW u, k.end \in Nat,
         IsTokenOf(t, k, q, p), t[p] \notin Closing,
         u.start = k.start /\ u.end = k.end /\ u.type = k.type /\ u.parent = k.parent
  PROVE  IsTokenOf(t, u, q, p + 1)
  <1>1. OpenTill(t, q, p) => OpenTill(t, q, p + 1)
    BY OpenOn
  <1>2. k.end <= p => k.end <= p + 1
    OBVIOUS
  <1> QED BY <1>1, <1>2 DEF IsTokenOf

\* The tokens that were read have the numbers below that of the position.
LEMMA NumbersOfTokens ==
  ASSUME NEW t, Len(t) \in Nat, NEW p \in 1..(Len(t) + 1), NEW ts, IsReadUpTo(t, p, ts)
  PROVE  /\ Len(ts) = NumberOf(t, p - 1) /\ Len(ts) \in Nat
         /\ \A q \in Starts(t) : q < p => NumberOf(t, q) \in 1..Len(ts)
         /\ \A i \in 1..Len(ts) : \E q \in Starts(t) : q < p /\ NumberOf(t, q) = i
  <1>1. p - 1 \in Nat /\ p \in Nat
    OBVIOUS
  <1>2. Len(ts) = NumberOf(t, p - 1) /\ Len(ts) \in Nat
    BY <1>1, Numbers DEF IsReadUpTo
  <1>3. ASSUME NEW q \in Starts(t), q < p PROVE NumberOf(t, q) \in 1..Len(ts)
    <2>1. q \in Nat /\ q <= p - 1
      BY <1>1, <1>3, StartsAre
    <2>2. NumberOf(t, q) <= NumberOf(t, p - 1)
      BY <1>1, <2>1, NumbersGrow
    <2>3. NumberOf(t, q) \in Nat /\ NumberOf(t, q) >= 1
      <3>1. NumberOf(t, q) \in 1..Cardinality(Starts(t))
        BY NumbersGrow
      <3>2. NumberOf(t, q) \in Nat
        BY <2>1, Numbers
      <3> QED BY <3>1, <3>2
    <2> QED BY <1>2, <2>2, <2>3
  <1>4. ASSUME NEW i \in 1..Len(ts) PROVE \E q \in Starts(t) : q < p /\ NumberOf(t, q) = i
    <2>1. i \in 1..NumberOf(t, p - 1)
      BY <1>2
    <2>2. PICK q \in Starts(t) : q <= p - 1 /\ NumberOf(t, q) = i
      BY <1>1, <2>1, NumbersAreUsed
    <2>3. q < p
      BY <1>1, <2>2, StartsAre
    <2> QED BY <2>2, <2>3
  <1> QED BY <1>2, <1>3, <1>4

\* A lexeme that neither starts nor ends anything.
LEMMA ReadOn ==
  ASSUME ParserInv, IsReadUpTo(text, pos, tokens), pos <= Len(text),
         text[pos] \notin Opening \cup Closing \cup Names \cup Primitives
  PROVE  IsReadUpTo(text, pos + 1, tokens)
  <1>0. /\ Len(text) \in Nat /\ pos \in 1..Len(text) /\ pos \in Nat \ {0} /\ pos \in Nat
        /\ pos \in 1..(Len(text) + 1) /\ (pos + 1) - 1 = pos
        /\ DOMAIN tokens = 1..Len(tokens) /\ \A i \in DOMAIN tokens : tokens[i].end \in Nat
    <2>1. /\ Len(text) \in Nat /\ pos \in 1..(Len(text) + 1) /\ DOMAIN tokens = 1..Len(tokens)
          /\ \A i \in DOMAIN tokens : tokens[i].end \in Nat
      BY ParserFacts, TokensLie
    <2>2. pos <= Len(text)
      OBVIOUS
    <2>3. pos \in 1..Len(text) /\ pos \in Nat \ {0} /\ pos \in Nat /\ (pos + 1) - 1 = pos
      BY <2>1, <2>2
    <2> QED BY <2>1, <2>3
  <1>1. text[pos] \notin Closing /\ pos \notin Starts(text)
    BY <1>0, StartsAre
  <1>2. NumberOf(text, pos) = NumberOf(text, pos - 1) /\ NumberOf(text, pos - 1) \in Nat
    <2>0. pos - 1 \in Nat
      BY <1>0
    <2>1. NumberOf(text, pos) = NumberOf(text, pos - 1)
          + (IF pos \in Starts(text) THEN 1 ELSE 0)
      BY <1>0, Numbers
    <2>2. NumberOf(text, pos - 1) \in Nat
      BY <1>0, <2>0, Numbers
    <2> QED BY <1>1, <2>1, <2>2
  <1>3. ASSUME NEW q \in Starts(text), q < pos + 1
        PROVE  IsTokenOf(text, tokens[NumberOf(text, q)], q, pos + 1)
    <2>1. q \in 1..(pos - 1) /\ q < pos
      <3>1. q \in Nat \ {0}
        BY <1>0, StartsAre
      <3>2. q # pos
        BY <1>1
      <3> QED BY <1>0, <1>3, <3>1, <3>2
    <2>2. IsTokenOf(text, tokens[NumberOf(text, q)], q, pos) /\ NumberOf(text, q) \in DOMAIN tokens
      BY <1>0, <2>1, NumbersOfTokens DEF IsReadUpTo
    <2> QED BY <1>0, <1>1, <2>1, <2>2, TokenOn
  <1> QED BY <1>0, <1>2, <1>3 DEF IsReadUpTo

\* A bracket that opens, a string, a number or literal.
LEMMA ReadAdded ==
  ASSUME ParserInv, IsReadUpTo(text, pos, tokens), pos \in Starts(text), NEW k \in Token,
         IsTokenOf(text, k, pos, pos + 1)
  PROVE  IsReadUpTo(text, pos + 1, Added(k))
  <1>0. /\ Len(text) \in Nat /\ pos \in 1..Len(text) /\ pos \in Nat \ {0} /\ pos \in Nat
        /\ pos \in 1..(Len(text) + 1) /\ (pos + 1) - 1 = pos
        /\ DOMAIN tokens = 1..Len(tokens) /\ \A i \in DOMAIN tokens : tokens[i].end \in Nat
    <2>1. /\ Len(text) \in Nat /\ pos \in 1..(Len(text) + 1) /\ DOMAIN tokens = 1..Len(tokens)
          /\ \A i \in DOMAIN tokens : tokens[i].end \in Nat
      BY ParserFacts, TokensLie
    <2>2. pos \in 1..Len(text)
      BY <2>1, StartsAre
    <2> QED BY <2>1, <2>2
  <1>1. text[pos] \notin Closing
    <2>1. text[pos] \in Opening \cup Names \cup Primitives
      BY <1>0, StartsAre DEF StartsValue
    <2> QED BY <2>1, Brackets
  <1>2. NumberOf(text, pos) = NumberOf(text, pos - 1) + 1 /\ NumberOf(text, pos - 1) \in Nat
        /\ Len(tokens) = NumberOf(text, pos - 1)
    <2>1. NumberOf(text, pos) = NumberOf(text, pos - 1) + 1 /\ pos - 1 \in Nat
      BY <1>0, Numbers
    <2>2. NumberOf(text, pos - 1) \in Nat
      BY <1>0, <2>1, Numbers
    <2> QED BY <2>1, <2>2 DEF IsReadUpTo
  <1> DEFINE after == Added(k)
  <1>3. /\ Len(after) = NumberOf(text, pos) /\ after[NumberOf(text, pos)] = k
        /\ \A i \in DOMAIN tokens :
              /\ after[i].start = tokens[i].start /\ after[i].end = tokens[i].end
              /\ after[i].type = tokens[i].type /\ after[i].parent = tokens[i].parent
    BY <1>2, AddedFields
  <1> HIDE DEF after
  <1>4. ASSUME NEW q \in Starts(text), q < pos + 1
        PROVE  IsTokenOf(text, after[NumberOf(text, q)], q, pos + 1)
    <2>1. CASE q = pos
      BY <1>3, <2>1
    <2>2. CASE q # pos
      <3>1. q \in 1..(pos - 1) /\ q < pos
        <4>1. q \in Nat \ {0}
          BY <1>0, StartsAre
        <4> QED BY <1>0, <1>4, <2>2, <4>1
      <3>2. IsTokenOf(text, tokens[NumberOf(text, q)], q, pos) /\ NumberOf(text, q) \in DOMAIN tokens
        BY <1>0, <3>1, NumbersOfTokens DEF IsReadUpTo
      <3> QED BY <1>0, <1>1, <1>3, <3>1, <3>2, TokenOn
    <2> QED BY <2>1, <2>2
  <1>5. IsReadUpTo(text, pos + 1, after)
    BY <1>0, <1>3, <1>4 DEF IsReadUpTo
  <1> QED BY <1>5 DEF after

\* A bracket closes: the one that is open last is that which the position is inside
\* of, and the walk cannot miss it.
LEMMA WalkMeets ==
  ASSUME ParserInv, Nested(tokens, super, pos), IsJson(text), IsReadUpTo(text, pos, tokens),
         pos \in 2..Len(text), text[pos] \in Closing, NEW w \in DOMAIN tokens,
         \A i \in DOMAIN tokens : tokens[i].end = 0 => i <= w
  PROVE  /\ Inside(text, pos) \in Starts(text) /\ Inside(text, pos) < pos
         /\ IsInside(text, Inside(text, pos), pos)
         /\ tokens[w].end = 0 => w = NumberOf(text, Inside(text, pos))
         /\ tokens[w].end # 0 => tokens[w].parent # 0
  <1> DEFINE q == Inside(text, pos)
             n == NumberOf(text, q)
  <1>0. /\ Len(text) \in Nat /\ pos \in Nat \ {0} /\ pos \in Nat /\ pos \in 1..(Len(text) + 1)
        /\ Len(tokens) \in Nat /\ DOMAIN tokens = 1..Len(tokens)
        /\ \A i \in DOMAIN tokens : i \in Nat /\ tokens[i].end \in Nat /\ tokens[i].parent \in Nat
    <2>1. Len(text) \in Nat
      BY ParserFacts
    <2> QED BY <2>1, TokensLie
  <1>1. IsInside(text, q, pos)
    BY <1>0, JsonFacts
  <1> HIDE DEF q
  <1>2. q \in 1..(pos - 1) /\ q \in Nat /\ text[q] \in Opening /\ OpenTill(text, q, pos)
    BY <1>0, <1>1 DEF IsInside
  <1>3. q \in Starts(text) /\ q < pos
    <2>1. q \in 1..Len(text) /\ q < pos
      BY <1>0, <1>2
    <2> QED BY <1>0, <1>2, <2>1, StartsAre
  <1>4. n \in DOMAIN tokens /\ IsTokenOf(text, tokens[n], q, pos)
    BY <1>0, <1>3, NumbersOfTokens DEF IsReadUpTo
  <1>5. tokens[n].end = 0
    <2>1. ASSUME tokens[n].end # 0 PROVE FALSE
      <3>1. Shuts(text, q, tokens[n].end - 1) /\ tokens[n].end <= pos
        BY <1>2, <1>4, <2>1 DEF IsTokenOf
      <3> DEFINE c == tokens[n].end - 1
      <3>2. c > q /\ Depth(text, c) < Depth(text, q) /\ c <= pos - 1 /\ c \in Nat
        BY <1>0, <1>4, <2>1, <3>1 DEF Shuts
      <3> HIDE DEF c
      <3>3. c \in q..(pos - 1)
        BY <1>0, <1>2, <3>2
      <3>4. Depth(text, c) >= Depth(text, q)
        BY <1>2, <3>3 DEF OpenTill
      <3>5. Depth(text, c) \in Int /\ Depth(text, q) \in Int
        BY <1>2, <3>2, Depths
      <3> QED BY <3>2, <3>4, <3>5
    <2> QED BY <2>1
  <1>6. n <= w /\ n \in Nat /\ w \in Nat /\ n >= 1
    BY <1>0, <1>4, <1>5
  <1>7. ASSUME tokens[w].end = 0 PROVE w = n
    <2>1. PICK v \in Starts(text) : v < pos /\ NumberOf(text, v) = w
      BY <1>0, NumbersOfTokens
    <2>2. IsTokenOf(text, tokens[w], v, pos) /\ v \in Nat \ {0} /\ v \in Nat
      BY <1>0, <2>1, StartsAre DEF IsReadUpTo
    <2>3. text[v] \in Opening /\ OpenTill(text, v, pos)
      <3>1. text[v] \in Opening \cup Names \cup Primitives
        BY <1>0, <2>1, StartsAre DEF StartsValue
      <3>2. text[v] \in Names => FALSE
        BY <1>7, <2>2 DEF IsTokenOf
      <3>3. text[v] \in Primitives => FALSE
        BY <1>7, <2>2 DEF IsTokenOf
      <3>4. text[v] \in Opening
        BY <3>1, <3>2, <3>3
      <3> QED BY <1>7, <2>2, <3>4 DEF IsTokenOf
    <2>4. v >= q
      <3>1. ASSUME v < q PROVE FALSE
        <4>1. NumberOf(text, v) < NumberOf(text, q)
          BY <1>0, <1>3, <2>2, <3>1, NumbersGrow
        <4> QED BY <1>6, <2>1, <4>1
      <3> QED BY <1>2, <2>2, <3>1
    <2>5. v \in q..(pos - 1)
      BY <1>0, <1>2, <2>1, <2>2, <2>4
    <2>6. v = q
      BY <1>0, <1>1, <2>3, <2>5, InnermostBracket
    <2> QED BY <2>1, <2>6
  <1>8. ASSUME tokens[w].end # 0 PROVE tokens[w].parent # 0
    <2>1. w > n
      <3>1. w # n
        BY <1>5, <1>8
      <3> QED BY <1>6, <3>1
    <2>2. tokens[w].parent >= n
      BY <1>4, <1>5, <2>1 DEF Nested
    <2> QED BY <1>0, <1>6, <2>2
  <1> QED BY <1>1, <1>3, <1>7, <1>8 DEF q

LEMMA ReadClosed ==
  ASSUME ParserInv, Nested(tokens, super, pos), IsJson(text), IsReadUpTo(text, pos, tokens),
         pos \in 2..Len(text), text[pos] \in Closing, NEW w \in DOMAIN tokens,
         \A i \in DOMAIN tokens : tokens[i].end = 0 => i <= w, tokens[w].end = 0
  PROVE  IsReadUpTo(text, pos + 1, [tokens EXCEPT ![w].end = pos + 1])
  <1> DEFINE u == Inside(text, pos)
             after == [tokens EXCEPT ![w].end = pos + 1]
  <1>0. /\ Len(text) \in Nat /\ pos \in Nat \ {0} /\ pos \in Nat /\ pos \in 1..(Len(text) + 1)
        /\ pos \in 1..Len(text) /\ pos - 1 \in Nat
        /\ (pos + 1) - 1 = pos /\ pos + 1 # 0 /\ pos + 1 \in Nat
        /\ Len(tokens) \in Nat /\ DOMAIN tokens = 1..Len(tokens)
        /\ \A i \in DOMAIN tokens : /\ i \in Nat /\ tokens[i] \in Token
                                    /\ tokens[i].end \in Nat /\ tokens[i].parent \in Nat
    <2>1. Len(text) \in Nat
      BY ParserFacts
    <2>2. \A i \in DOMAIN tokens : tokens[i] \in Token
      BY TokensType DEF ParserInv, ParserOK
    <2>3. /\ pos \in Nat \ {0} /\ pos \in Nat /\ pos \in 1..(Len(text) + 1) /\ pos \in 1..Len(text)
          /\ pos - 1 \in Nat /\ (pos + 1) - 1 = pos /\ pos + 1 # 0 /\ pos + 1 \in Nat
      BY <2>1
    <2>4. /\ Len(tokens) \in Nat /\ DOMAIN tokens = 1..Len(tokens)
          /\ \A i \in DOMAIN tokens : i \in Nat /\ tokens[i].end \in Nat /\ tokens[i].parent \in Nat
      BY TokensLie
    <2> QED BY <2>1, <2>2, <2>3, <2>4, Zenon
  <1>1. u \in Starts(text) /\ u < pos /\ w = NumberOf(text, u) /\ IsInside(text, u, pos)
    BY WalkMeets
  <1> HIDE DEF u
  <1>2. u \in 1..(pos - 1) /\ u \in Nat \ {0} /\ text[u] \in Opening /\ OpenTill(text, u, pos)
        /\ Depth(text, u) = Depth(text, pos - 1) /\ u \in Nat /\ u - 1 \in Nat
    BY <1>0, <1>1 DEF IsInside
  <1>3. /\ Depth(text, pos) = Depth(text, pos - 1) - 1 /\ Depth(text, u) = Depth(text, u - 1) + 1
        /\ Depth(text, pos) \in Int /\ Depth(text, pos - 1) \in Int
        /\ Depth(text, u) \in Int /\ Depth(text, u - 1) \in Int
    <2>1. Depth(text, pos) = Depth(text, pos - 1) - 1
      <3>1. pos \in Nat \ {0}
        BY <1>0
      <3> QED BY <3>1, Depths
    <2>2. Depth(text, u) = Depth(text, u - 1) + 1
      BY <1>2, Depths
    <2>3. Depth(text, pos) \in Int /\ Depth(text, pos - 1) \in Int
      BY <1>0, Depths
    <2>4. Depth(text, u) \in Int /\ Depth(text, u - 1) \in Int
      BY <1>2, Depths
    <2> QED BY <2>1, <2>2, <2>3, <2>4
  <1>4. /\ Len(after) = Len(tokens)
        /\ \A i \in DOMAIN tokens : i # w => after[i] = tokens[i]
        /\ after[w].start = tokens[w].start /\ after[w].type = tokens[w].type
        /\ after[w].parent = tokens[w].parent /\ after[w].end = pos + 1
    <2> DEFINE e == pos + 1
               v == [tokens[w] EXCEPT !.end = e]
    <2>1. after = [tokens EXCEPT ![w] = v]
      OBVIOUS
    <2>2. e \in Nat
      BY <1>0
    <2>3. /\ v.parent = tokens[w].parent /\ v.type = tokens[w].type
          /\ v.start = tokens[w].start /\ v.end = e
      <3>1. tokens[w] \in Token
        BY <1>0
      <3> HIDE DEF e
      <3> QED BY <2>2, <3>1, TokenChanged, ZenonT(30)
    <2> HIDE DEF after, v, e
    <2>4. after[w] = v /\ \A i \in DOMAIN tokens : i # w => after[i] = tokens[i]
      BY <1>0, <2>1
    <2>5. Len(after) = Len(tokens)
      <3>1. tokens \in Seq(Token) /\ DOMAIN after = DOMAIN tokens
        BY <1>0, <2>1 DEF ParserInv, ParserOK
      <3>2. DOMAIN after = 1..Len(tokens) /\ Len(tokens) \in Nat
        BY <1>0, <3>1
      <3> QED BY <1>0, <2>1, <3>1, <3>2
    <2> QED BY <2>3, <2>4, <2>5 DEF e
  <1> HIDE DEF after
  <1>5. NumberOf(text, pos) = NumberOf(text, pos - 1) /\ pos \notin Starts(text)
    <2>1. pos \notin Starts(text)
      <3>1. text[pos] \notin Opening \cup Names \cup Primitives
        BY Brackets
      <3> QED BY <1>0, <3>1, StartsAre
    <2>2. NumberOf(text, pos) = NumberOf(text, pos - 1) + 0 /\ NumberOf(text, pos - 1) \in Nat
      BY <1>0, <2>1, Numbers
    <2> QED BY <2>1, <2>2
  <1>6. ASSUME NEW q \in Starts(text), q < pos + 1
        PROVE  IsTokenOf(text, after[NumberOf(text, q)], q, pos + 1)
    <2>1. q \in 1..(pos - 1) /\ q < pos /\ q \in Nat
      <3>1. q \in Nat \ {0}
        BY <1>0, StartsAre
      <3>2. q # pos
        BY <1>5
      <3> QED BY <1>0, <1>6, <3>1, <3>2
    <2>2. IsTokenOf(text, tokens[NumberOf(text, q)], q, pos) /\ NumberOf(text, q) \in DOMAIN tokens
      BY <1>0, <2>1, NumbersOfTokens DEF IsReadUpTo
    <2>3. CASE q = u
      <3>1. /\ after[w].start = q /\ after[w].parent = ParentOf(text, q)
            /\ after[w].type = TypeOfBracket[text[q]]
            /\ after[w].end # 0 /\ after[w].end - 1 = pos /\ after[w].end <= pos + 1
        BY <1>0, <1>1, <1>2, <1>4, <2>2, <2>3 DEF IsTokenOf
      <3>2. Shuts(text, q, pos)
        <4>1. pos > u /\ OpenTill(text, u, pos)
          BY <1>0, <1>2
        <4>2. Depth(text, pos) < Depth(text, u)
          BY <1>2, <1>3
        <4> QED BY <2>3, <4>1, <4>2 DEF Shuts
      <3>3. text[q] \notin Names /\ text[q] \notin Primitives
        BY <1>2, <2>3, Brackets
      <3>4. Shuts(text, q, after[w].end - 1)
        BY <3>1, <3>2
      <3> QED BY <1>1, <2>3, <3>1, <3>3, <3>4 DEF IsTokenOf
    <2>4. CASE q # u
      <3> DEFINE k == tokens[NumberOf(text, q)]
      <3>1. NumberOf(text, q) # w
        BY <1>0, <1>1, <2>4, NumbersGrow
      <3>2. after[NumberOf(text, q)] = k
        BY <1>4, <2>2, <3>1
      <3>3. ASSUME k.end = 0, OpenTill(text, q, pos) PROVE OpenTill(text, q, pos + 1)
        <4>1. NumberOf(text, q) <= w
          BY <2>2, <3>3
        <4>2. q < u
          <5>1. ASSUME u < q PROVE FALSE
            <6>1. NumberOf(text, u) < NumberOf(text, q)
              BY <1>0, <1>2, <5>1, NumbersGrow
            <6>2. NumberOf(text, u) \in Nat /\ NumberOf(text, q) \in Nat
              BY <1>0, <1>2, <2>1, Numbers
            <6> QED BY <1>1, <4>1, <6>1, <6>2
          <5> QED BY <1>2, <2>1, <2>4, <5>1
        <4>3. u - 1 \in q..(pos - 1)
          <5>1. u \in Nat /\ q \in Nat /\ pos \in Nat /\ u <= pos - 1
            BY <1>0, <1>2, <2>1
          <5> QED BY <4>2, <5>1
        <4>4. Depth(text, u - 1) >= Depth(text, q) /\ Depth(text, q) \in Int
          BY <2>1, <3>3, <4>3, Depths DEF OpenTill
        <4>5. Depth(text, pos) >= Depth(text, q)
          BY <1>2, <1>3, <4>4
        <4>6. ASSUME NEW r \in q..((pos + 1) - 1) PROVE Depth(text, r) >= Depth(text, q)
          <5>1. r = pos \/ r \in q..(pos - 1)
            BY <1>0, <2>1
          <5>2. r \in q..(pos - 1) => Depth(text, r) >= Depth(text, q)
            BY <3>3 DEF OpenTill
          <5> QED BY <4>5, <5>1, <5>2
        <4> QED BY <4>6 DEF OpenTill
      <3>4. k.end <= pos => k.end <= pos + 1
        BY <1>0, <2>2
      <3>5. IsTokenOf(text, k, q, pos)
        BY <2>2
      <3> HIDE DEF k
      <3>6. IsTokenOf(text, k, q, pos + 1)
        BY <3>3, <3>4, <3>5 DEF IsTokenOf
      <3> QED BY <3>2, <3>6
    <2> QED BY <2>3, <2>4
  <1>7. IsReadUpTo(text, pos + 1, after)
    BY <1>0, <1>4, <1>5, <1>6 DEF IsReadUpTo
  <1> QED BY <1>7 DEF after

\* At the end of a JSON text nothing is open.
LEMMA AllShut ==
  ASSUME ParserInv, IsJson(text), IsReadUpTo(text, Len(text) + 1, tokens)
  PROVE  AllClosed
  <1>0. /\ Len(text) \in Nat /\ Len(text) + 1 \in 1..(Len(text) + 1)
        /\ DOMAIN tokens = 1..Len(tokens)
    <2>1. Len(text) \in Nat
      BY ParserFacts
    <2> QED BY <2>1, TokensLie
  <1>1. ASSUME NEW i \in DOMAIN tokens, tokens[i].end = 0 PROVE FALSE
    <2>1. PICK q \in Starts(text) : q < Len(text) + 1 /\ NumberOf(text, q) = i
      BY <1>0, NumbersOfTokens
    <2>2. /\ IsTokenOf(text, tokens[i], q, Len(text) + 1)
          /\ q \in Nat \ {0} /\ q \in Nat /\ q - 1 \in Nat /\ q <= Len(text) /\ q \in 1..Len(text)
      BY <1>0, <2>1, StartsAre DEF IsReadUpTo
    <2>3. text[q] \in Opening /\ OpenTill(text, q, Len(text) + 1)
      <3>1. text[q] \in Opening \cup Names \cup Primitives
        BY <1>0, <2>1, StartsAre DEF StartsValue
      <3>2. text[q] \in Names => FALSE
        BY <1>1, <2>2 DEF IsTokenOf
      <3>3. text[q] \in Primitives => FALSE
        BY <1>1, <2>2 DEF IsTokenOf
      <3>4. text[q] \in Opening
        BY <3>1, <3>2, <3>3
      <3> QED BY <1>1, <2>2, <3>4 DEF IsTokenOf
    <2>4. Depth(text, q) = Depth(text, q - 1) + 1 /\ Depth(text, q - 1) \in Int
      BY <2>2, <2>3, Depths
    <2>5. Depth(text, q - 1) >= 0
      <3>1. CASE q = 1
        BY <3>1, Depths
      <3>2. CASE q # 1
        <4>1. q - 1 \in 1..Len(text)
          BY <1>0, <2>2, <3>2
        <4> QED BY <1>0, <4>1, JsonFacts
      <3> QED BY <3>1, <3>2
    <2>6. Depth(text, Len(text)) >= Depth(text, q)
      <3>1. Len(text) \in q..((Len(text) + 1) - 1)
        BY <1>0, <2>2
      <3> QED BY <2>3, <3>1 DEF OpenTill
    <2>7. Depth(text, Len(text)) = 0
      BY <1>0, JsonFacts
    <2> QED BY <2>4, <2>5, <2>6, <2>7
  <1> QED BY <1>1 DEF AllClosed

---------------------------------------------------------------------------
(* The parser at a lexeme of a JSON text                                   *)

\* Names for two lexemes, where a step is about numbers, too.
IsComma(c) == c = ","
OpensObject(c) == c = "{"

\* The part that a value or key is below of: the key in front of its colon, or the
\* bracket around it.
LEMMA ParentsAre ==
  ASSUME NEW t, IsJson(t), Len(t) \in Nat, NEW q \in Starts(t)
  PROVE  /\ q = 1 => ParentOf(t, q) = 0
         /\ q # 1 => \E u \in Starts(t) :
              /\ u < q /\ ParentOf(t, q) = NumberOf(t, u)
              /\ t[q - 1] = ":" => u = q - 2 /\ t[u] \in Names
              /\ t[q - 1] # ":" => /\ u = Inside(t, q) /\ t[u] \in Opening
                                   /\ OpensObject(t[u]) => t[q] \in Names
  <1>0. q \in Nat \ {0} /\ q \in 1..Len(t) /\ StartsValue(t[q])
    BY StartsAre
  <1>1. ASSUME q = 1 PROVE ParentOf(t, q) = 0
    <2>1. Inside(t, 1) = 0
      <3>1. ~IsInside(t, Inside(t, 1), 1)
        BY DEF IsInside
      <3> QED BY <3>1, InsideIs
    <2> QED BY <1>1, <2>1 DEF ParentOf
  <1>2. ASSUME q # 1
        PROVE  \E u \in Starts(t) :
                 /\ u < q /\ ParentOf(t, q) = NumberOf(t, u)
                 /\ t[q - 1] = ":" => u = q - 2 /\ t[u] \in Names
                 /\ t[q - 1] # ":" => /\ u = Inside(t, q) /\ t[u] \in Opening
                                      /\ OpensObject(t[u]) => t[q] \in Names
    <2>1. q \in 2..Len(t) /\ q > 1 /\ q - 1 \in 1..Len(t)
      BY <1>0, <1>2
    <2>2. CASE t[q - 1] = ":"
      <3>1. (q - 1) - 1 \in Starts(t) /\ t[(q - 1) - 1] \in Names
        BY <2>1, <2>2, KeyFacts
      <3>2. (q - 1) - 1 = q - 2 /\ q - 2 < q
        BY <2>1
      <3>3. ParentOf(t, q) = NumberOf(t, q - 2)
        BY <2>1, <2>2 DEF ParentOf
      <3> QED BY <2>2, <3>1, <3>2, <3>3
    <2>3. CASE t[q - 1] # ":"
      <3> DEFINE u == Inside(t, q)
      <3>1. u # 0 /\ MayFollow(t, q) /\ IsInside(t, u, q)
        BY <2>1, JsonFacts
      <3>2. ParentOf(t, q) = NumberOf(t, u)
        BY <2>3, <3>1 DEF ParentOf
      <3>3. OpensObject(t[u]) => t[q] \in Names
        <4>1. t[q] \notin Closing \cup {":", ","}
          BY <1>0, Brackets DEF StartsValue
        <4> QED BY <2>3, <3>1, <4>1, Follows DEF InObject, OpensObject
      <3> HIDE DEF u
      <3>4. u \in 1..(q - 1) /\ t[u] \in Opening
        BY <3>1 DEF IsInside
      <3>5. u < q /\ u \in 1..Len(t)
        BY <2>1, <3>4
      <3>6. u \in Starts(t)
        BY <3>4, <3>5, <1>0, StartsAre
      <3> QED BY <2>3, <3>2, <3>3, <3>4, <3>5, <3>6 DEF u
    <2> QED BY <2>2, <2>3
  <1> QED BY <1>1, <1>2

\* Behind the first bracket, a text ends with one that closes.
LEMMA NotLast ==
  ASSUME NEW t, IsJson(t), Len(t) \in Nat, NEW p \in 2..Len(t), t[p] \notin Closing
  PROVE  p < Len(t)
  <1> DEFINE u == Inside(t, p)
  <1>1. IsInside(t, u, p)
    BY JsonFacts
  <1> HIDE DEF u
  <1>2. u \in 1..(p - 1) /\ t[u] \in Opening /\ Depth(t, u) = Depth(t, p - 1)
    BY <1>1 DEF IsInside
  <1>3. p \in Nat \ {0} /\ u \in Nat \ {0} /\ u - 1 \in Nat /\ u \in 1..Len(t) /\ p - 1 \in Nat
    BY <1>2
  <1>4. Depth(t, u) = Depth(t, u - 1) + 1 /\ Depth(t, u - 1) \in Int
    BY <1>2, <1>3, Depths
  <1>5. Depth(t, u - 1) >= 0
    <2>1. CASE u = 1
      BY <2>1, Depths
    <2>2. CASE u # 1
      <3>1. u - 1 \in 1..Len(t)
        BY <1>3, <2>2
      <3> QED BY <3>1, JsonFacts
    <2> QED BY <2>1, <2>2
  <1>6. Depth(t, p) >= Depth(t, p - 1) /\ Depth(t, p) \in Int /\ Depth(t, p - 1) \in Int
    <2>1. Depth(t, p) \in Int /\ Depth(t, p - 1) \in Int
      BY <1>3, Depths
    <2>2. t[p] \in Opening => Depth(t, p) = Depth(t, p - 1) + 1
      BY <1>3, Depths
    <2>3. t[p] \notin Opening => Depth(t, p) = Depth(t, p - 1)
      BY <1>3, Depths
    <2> QED BY <2>1, <2>2, <2>3
  <1>7. Depth(t, p) # 0
    BY <1>2, <1>4, <1>5, <1>6
  <1>8. p # Len(t)
    BY <1>7, JsonFacts
  <1> QED BY <1>8

\* A number or literal ends in front of a comma or bracket.
LEMMA PrimitiveInJson ==
  ASSUME NEW t, IsJson(t), Len(t) \in Nat, NEW p \in 1..Len(t), t[p] \in Primitives
  PROVE  p \in 2..Len(t) /\ p + 1 \in 2..Len(t) /\ t[p + 1] \in Closing \cup {","}
  <1>1. p \in 2..Len(t)
    <2>1. p # 1
      BY JsonFacts, Brackets
    <2> QED BY <2>1
  <1>2. p < Len(t)
    BY <1>1, NotLast, Brackets
  <1>3. p + 1 \in 2..Len(t) /\ (p + 1) - 1 = p /\ p + 1 \in 1..Len(t)
    BY <1>1, <1>2
  <1>4. MayFollow(t, p + 1) /\ t[p + 1] \in Lexemes \ {Odd}
    BY <1>3, JsonFacts
  <1>5. t[p + 1] # ":"
    <2>1. t[p + 1] = ":" => t[(p + 1) - 1] \in Names
      BY <1>4, Follows
    <2>2. t[p] \notin Names
      BY Brackets
    <2> QED BY <1>3, <2>1, <2>2
  <1>6. t[p] \notin {"{", "[", ",", ":"}
    BY Brackets DEF Opening
  <1>7. t[p + 1] \in Closing \cup {":", ","}
    <2>1. t[p + 1] \notin Closing \cup {":", ","} => t[(p + 1) - 1] \in {"{", "[", ",", ":"}
      BY <1>4, Follows
    <2> QED BY <1>3, <1>6, <2>1
  <1> QED BY <1>1, <1>3, <1>5, <1>7

---------------------------------------------------------------------------
(* The token above, at a lexeme of a JSON text                             *)

\* The parent of a part that was read, or is the next to be, has been read.
LEMMA AboveIs ==
  ASSUME ParserInv, IsJson(text), IsReadUpTo(text, pos, tokens),
         NEW v \in Starts(text), v <= pos, v # 1
  PROVE  LET s == ParentOf(text, v) IN
         /\ s \in DOMAIN tokens /\ s # 0
         /\ text[v - 1] = ":" =>
              /\ s = NumberOf(text, v - 2) /\ v - 2 \in Starts(text) /\ text[v - 2] \in Names
              /\ tokens[s].type = "string" /\ tokens[s].parent = ParentOf(text, v - 2)
         /\ text[v - 1] # ":" =>
              /\ s = NumberOf(text, Inside(text, v))
              /\ tokens[s].type \in {"object", "array"}
              /\ tokens[s].type = "object" => text[v] \in Names
  <1>0. /\ Len(text) \in Nat /\ DOMAIN tokens = 1..Len(tokens) /\ pos \in 1..(Len(text) + 1)
        /\ pos \in Nat
    <2>1. /\ Len(text) \in Nat /\ DOMAIN tokens = 1..Len(tokens) /\ pos \in 1..(Len(text) + 1)
      BY ParserFacts
    <2> QED BY <2>1
  <1>1. PICK u \in Starts(text) :
          /\ u < v /\ ParentOf(text, v) = NumberOf(text, u)
          /\ text[v - 1] = ":" => u = v - 2 /\ text[u] \in Names
          /\ text[v - 1] # ":" => /\ u = Inside(text, v) /\ text[u] \in Opening
                                  /\ OpensObject(text[u]) => text[v] \in Names
    BY <1>0, ParentsAre
  <1>2. u \in Nat /\ v \in Nat /\ u < pos
    <2>1. u \in Nat /\ v \in Nat
      BY <1>0, StartsAre
    <2> QED BY <1>0, <1>1, <2>1
  <1> DEFINE s == NumberOf(text, u)
  <1>3. s \in 1..Len(tokens) /\ IsTokenOf(text, tokens[s], u, pos)
    BY <1>0, <1>2, NumbersOfTokens DEF IsReadUpTo
  <1> HIDE DEF s
  <1>4. s # 0
    BY <1>3
  <1>5. ASSUME text[v - 1] = ":"
        PROVE  /\ u = v - 2 /\ text[u] \in Names
               /\ tokens[s].type = "string" /\ tokens[s].parent = ParentOf(text, u)
    BY <1>1, <1>3, <1>5 DEF IsTokenOf
  <1>6. ASSUME text[v - 1] # ":"
        PROVE  /\ u = Inside(text, v) /\ tokens[s].type \in {"object", "array"}
               /\ tokens[s].type = "object" => text[v] \in Names
    <2>1. text[u] \in Opening /\ u = Inside(text, v) /\ OpensObject(text[u]) => text[v] \in Names
      BY <1>1, <1>6
    <2>2. text[u] \in Opening /\ u = Inside(text, v)
      BY <1>1, <1>6
    <2>3. tokens[s].type = TypeOfBracket[text[u]]
      BY <1>3, <2>2 DEF IsTokenOf
    <2>4. TypeOfBracket[text[u]] \in {"object", "array"}
      BY <2>2, LexemeTypes
    <2>5. TypeOfBracket[text[u]] = "object" => OpensObject(text[u])
      BY <2>2 DEF OpensObject, TypeOfBracket, Opening, Closing
    <2> QED BY <2>1, <2>2, <2>3, <2>4, <2>5
  <1> QED BY <1>0, <1>1, <1>3, <1>4, <1>5, <1>6 DEF s

\* Behind a key and its colon nothing has been read that is below the key.
LEMMA KeyIsAlone ==
  ASSUME ParserInv, IsJson(text), IsReadUpTo(text, pos, tokens),
         pos \in Starts(text), pos # 1, text[pos - 1] = ":"
  PROVE  tokens[ParentOf(text, pos)].size = 0
  <1> DEFINE s == ParentOf(text, pos)
  <1>0. /\ Len(text) \in Nat /\ DOMAIN tokens = 1..Len(tokens) /\ pos \in 1..(Len(text) + 1)
        /\ pos \in Nat /\ Linked(tokens) /\ pos <= pos
    <2>1. /\ Len(text) \in Nat /\ DOMAIN tokens = 1..Len(tokens) /\ pos \in 1..(Len(text) + 1)
      BY ParserFacts
    <2> QED BY <2>1 DEF ParserInv, ParserOK
  <1>1. /\ s \in DOMAIN tokens /\ s # 0 /\ s = NumberOf(text, pos - 2) /\ pos - 2 \in Starts(text)
        /\ text[pos - 2] \in Names
    BY <1>0, AboveIs
  <1> HIDE DEF s
  <1>2. ASSUME NEW j \in DOMAIN tokens, tokens[j].parent = s PROVE FALSE
    <2>1. PICK q \in Starts(text) : q < pos /\ NumberOf(text, q) = j
      BY <1>0, <1>2, NumbersOfTokens
    <2>2. IsTokenOf(text, tokens[j], q, pos)
      BY <2>1 DEF IsReadUpTo
    <2>3. ParentOf(text, q) = s
      BY <1>2, <2>2 DEF IsTokenOf
    <2>4. q # 1
      BY <1>0, <1>1, <2>3, ParentsAre
    <2>5. PICK u \in Starts(text) :
            /\ u < q /\ ParentOf(text, q) = NumberOf(text, u)
            /\ text[q - 1] = ":" => u = q - 2 /\ text[u] \in Names
            /\ text[q - 1] # ":" => text[u] \in Opening
      BY <1>0, <2>4, ParentsAre
    <2>6. u = pos - 2
      BY <1>0, <1>1, <2>3, <2>5, NumbersGrow
    <2>7. text[q - 1] = ":"
      BY <1>1, <2>5, <2>6, Brackets
    <2>8. q - 2 = pos - 2
      BY <2>5, <2>6, <2>7
    <2>9. q \in Nat /\ pos \in Nat
      BY <1>0, StartsAre
    <2> QED BY <2>1, <2>8, <2>9
  <1>3. PartsOf(tokens, s) = {}
    BY <1>2 DEF PartsOf
  <1>4. tokens[s].size = 0
    BY <1>0, <1>1, <1>3, FS_EmptySet DEF Linked
  <1> QED BY <1>4 DEF s

\* What may stand in a JSON text may be read.
LEMMA MayRead ==
  ASSUME ParserInv, IsJson(text), IsReadUpTo(text, pos, tokens), super = Below(text, pos),
         pos \in Starts(text)
  PROVE  /\ super = ParentOf(text, pos)
         /\ text[pos] \in Opening => MayOpen
         /\ text[pos] \in Primitives => MayBePrimitive
  <1>0. Len(text) \in Nat /\ pos \in 1..Len(text) /\ StartsValue(text[pos]) /\ pos <= pos
    <2>1. Len(text) \in Nat
      BY ParserFacts
    <2>2. pos \in 1..Len(text) /\ StartsValue(text[pos])
      BY <2>1, StartsAre
    <2> QED BY <2>1, <2>2
  <1>1. super = ParentOf(text, pos)
    BY <1>0, BelowIsParent
  <1>2. CASE pos = 1
    <2>1. super = 0
      BY <1>0, <1>1, <1>2, ParentsAre
    <2> QED BY <1>1, <2>1 DEF MayOpen, MayBePrimitive
  <1>3. CASE pos # 1 /\ text[pos - 1] = ":"
    <2>1. tokens[super].type = "string" /\ tokens[super].size = 0
      BY <1>0, <1>1, <1>3, AboveIs, KeyIsAlone
    <2> QED BY <1>1, <2>1 DEF MayOpen, MayBePrimitive
  <1>4. CASE pos # 1 /\ text[pos - 1] # ":"
    <2>1. /\ tokens[super].type \in {"object", "array"}
          /\ tokens[super].type = "object" => text[pos] \in Names
      BY <1>0, <1>1, <1>4, AboveIs
    <2>2. text[pos] \in Opening \cup Primitives => text[pos] \notin Names
      BY Brackets
    <2> QED BY <1>1, <2>1, <2>2 DEF MayOpen, MayBePrimitive
  <1> QED BY <1>2, <1>3, <1>4

\* Behind a comma the parser is below the bracket around it, whatever it was below.
LEMMA CommaGoesBack ==
  ASSUME ParserInv, IsJson(text), IsReadUpTo(text, pos, tokens), super = Below(text, pos),
         pos \in 1..Len(text), IsComma(text[pos])
  PROVE  AfterComma = Below(text, pos + 1)
  <1>0. Len(text) \in Nat
    BY ParserFacts
  <1>1. /\ text[pos] \notin Opening /\ text[pos] \notin Closing /\ text[pos] \notin Names
        /\ text[pos] # ":"
    BY Brackets DEF IsComma
  <1>2. pos \in 2..Len(text)
    <2>1. pos # 1
      BY <1>0, <1>1, JsonFacts
    <2> QED BY <2>1
  <1>3. pos < Len(text)
    BY <1>0, <1>1, <1>2, NotLast
  <1>4. pos \in 1..(Len(text) - 1) /\ pos - 1 \in 1..(Len(text) - 1) /\ (pos - 1) + 1 = pos
        /\ (pos + 1) - 1 = pos /\ pos + 1 # 1 /\ pos # 1 /\ pos \in Nat
    BY <1>0, <1>2, <1>3
  <1>5. Below(text, pos + 1) = NumberOf(text, Inside(text, pos))
    <2>1. Inside(text, pos + 1) = Inside(text, pos)
      BY <1>0, <1>1, <1>4, InsideInJson
    <2> QED BY <1>1, <1>4, <2>1 DEF Below, IsComma
  <1>6. text[pos - 1] \in Closing \cup Names \cup Primitives
    <2>1. MayFollow(text, pos)
      BY <1>0, <1>2, JsonFacts
    <2> QED BY <2>1, Follows DEF ValueBefore, IsComma
  <1>7. text[pos - 1] \notin Opening /\ text[pos - 1] # ":" /\ ~IsComma(text[pos - 1])
    BY <1>6, Brackets DEF IsComma
  <1> DEFINE v == IF text[pos - 1] \in Closing THEN Inside(text, pos - 1) ELSE pos - 1
  <1>8. super = ParentOf(text, v)
    BY <1>4, <1>7 DEF Below, IsComma
  <1>9. v \in Starts(text) /\ v >= 2 /\ v <= pos - 1 /\ v \in Nat /\ Inside(text, v) = Inside(text, pos)
    <2>1. CASE text[pos - 1] \in Closing
      <3>1. v >= 2 /\ Inside(text, v) = Inside(text, pos) /\ pos - 1 >= 2 /\ IsInside(text, v, pos - 1)
        BY <1>0, <1>4, <1>7, <2>1, InsideInJson
      <3> HIDE DEF v
      <3>2. v \in 1..((pos - 1) - 1) /\ text[v] \in Opening
        BY <3>1 DEF IsInside
      <3>3. v \in 1..Len(text) /\ v <= pos - 1 /\ v \in Nat
        BY <1>0, <1>4, <3>2
      <3>4. v \in Starts(text)
        BY <1>0, <3>2, <3>3, StartsAre
      <3> QED BY <3>1, <3>3, <3>4
    <2>2. CASE text[pos - 1] \notin Closing
      <3>1. pos - 1 >= 2 /\ Inside(text, pos) = Inside(text, pos - 1)
        BY <1>0, <1>4, <1>7, <2>2, InsideInJson
      <3>2. pos - 1 \in Starts(text)
        <4>1. pos - 1 \in 1..Len(text) /\ text[pos - 1] \in Opening \cup Names \cup Primitives
          BY <1>0, <1>4, <1>6, <2>2
        <4> QED BY <1>0, <4>1, StartsAre
      <3> QED BY <1>4, <2>2, <3>1, <3>2
    <2> QED BY <2>1, <2>2
  <1> HIDE DEF v
  <1>10. v <= pos /\ v # 1
    BY <1>4, <1>9
  <1>11. CASE text[v - 1] = ":"
    <2>1. /\ super # 0 /\ tokens[super].type = "string"
          /\ tokens[super].parent = ParentOf(text, v - 2)
      BY <1>8, <1>9, <1>10, <1>11, AboveIs
    <2>2. AfterComma = ParentOf(text, v - 2)
      BY <2>1 DEF AfterComma, IsContainer
    <2>3. v - 1 \in 1..(Len(text) - 1) /\ (v - 1) + 1 = v /\ (v - 1) - 1 = v - 2 /\ v - 1 \in 1..Len(text)
      BY <1>0, <1>4, <1>9
    <2>4. ParentOf(text, v - 2) = NumberOf(text, Inside(text, v - 2))
          /\ Inside(text, v - 1) = Inside(text, v - 2)
      BY <1>0, <1>11, <2>3, KeyFacts
    <2>5. Inside(text, v) = Inside(text, v - 1)
      <3>1. text[v - 1] \notin Opening \cup Closing
        BY <1>11, Brackets
      <3> QED BY <1>0, <2>3, <3>1, InsideInJson
    <2> QED BY <1>5, <1>9, <2>2, <2>4, <2>5
  <1>12. CASE text[v - 1] # ":"
    <2>1. /\ super = NumberOf(text, Inside(text, v))
          /\ tokens[super].type \in {"object", "array"}
      BY <1>8, <1>9, <1>10, <1>12, AboveIs
    <2>2. AfterComma = super
      BY <2>1 DEF AfterComma, IsContainer
    <2> QED BY <1>5, <1>9, <2>1, <2>2
  <1> QED BY <1>11, <1>12

---------------------------------------------------------------------------
(* A JSON text is read                                                     *)

\* The parser at a lexeme of a JSON text, or at its end.
AtLexeme == IsJson(text) /\ IsReadUpTo(text, pos, tokens) /\ super = Below(text, pos)

\* A closing bracket is not the first lexeme.
LEMMA ClosesLater ==
  ASSUME ParserInv, IsJson(text), pos \in 1..Len(text), text[pos] \in Closing
  PROVE  pos \in 2..Len(text) /\ TypeOfBracket[text[pos]] = TypeOfBracket[text[Inside(text, pos)]]
  <1>0. Len(text) \in Nat
    BY ParserFacts
  <1>1. pos # 1
    BY <1>0, JsonFacts, Brackets
  <1>2. pos \in 2..Len(text)
    BY <1>1
  <1>3. MayFollow(text, pos)
    BY <1>0, <1>2, JsonFacts
  <1> QED BY <1>2, <1>3, Follows

\* The walk for the bracket that closes gets where it should.
LEMMA WalkIsRight ==
  ASSUME IInv, NestInv, AtLexeme, pc = "close"
  PROVE  /\ pos \in 2..Len(text) /\ text[pos] \in Closing /\ walk \in DOMAIN tokens
         /\ \A i \in DOMAIN tokens : tokens[i].end = 0 => i <= walk
         /\ tokens[walk].end # 0 => tokens[walk].parent # 0
         /\ tokens[walk].end = 0 =>
              Closes /\ tokens[walk].parent = ParentOf(text, Inside(text, pos))
  <1>1. /\ ParserInv /\ Nested(tokens, super, pos) /\ walk \in DOMAIN tokens
        /\ IsJson(text) /\ IsReadUpTo(text, pos, tokens) /\ text[pos] \in Closing
        /\ \A i \in DOMAIN tokens : tokens[i].end = 0 => i <= walk
    BY DEF IInv, NestInv, PcInv, AtLexeme
  <1>2. pos \in 1..Len(text)
    <2>1. pos <= Len(text)
      BY DEF IInv, PcInv
    <2> QED BY <1>1, <2>1, ParserFacts
  <1>3. pos \in 2..Len(text) /\ TypeOfBracket[text[pos]] = TypeOfBracket[text[Inside(text, pos)]]
    BY <1>1, <1>2, ClosesLater
  <1> DEFINE q == Inside(text, pos)
  <1> HIDE DEF q
  <1>4. /\ q \in Starts(text) /\ q < pos /\ IsInside(text, q, pos)
        /\ tokens[walk].end = 0 => walk = NumberOf(text, q)
        /\ tokens[walk].end # 0 => tokens[walk].parent # 0
    BY <1>1, <1>3, WalkMeets DEF q
  <1>5. ASSUME tokens[walk].end = 0
        PROVE  Closes /\ tokens[walk].parent = ParentOf(text, q)
    <2>1. IsTokenOf(text, tokens[walk], q, pos)
      BY <1>1, <1>4, <1>5 DEF IsReadUpTo
    <2>2. text[q] \in Opening
      BY <1>4 DEF IsInside
    <2>3. tokens[walk].parent = ParentOf(text, q) /\ tokens[walk].type = TypeOfBracket[text[q]]
      BY <2>1, <2>2 DEF IsTokenOf
    <2>4. TypeOfBracket[text[pos]] = TypeOfBracket[text[q]]
      BY <1>3 DEF q
    <2> QED BY <2>3, <2>4 DEF Closes
  <1> QED BY <1>1, <1>3, <1>4, <1>5 DEF q

\* A JSON text is not refused, and no bracket of it ignored.
LEMMA NothingRefused ==
  ASSUME IInv, NestInv, AtLexeme PROVE ~Errs /\ ~CloseNothing
  <1> USE DEF Reading
  <1>0. /\ ParserInv /\ IsJson(text) /\ IsReadUpTo(text, pos, tokens) /\ super = Below(text, pos)
        /\ Len(text) \in Nat /\ pos \in 1..(Len(text) + 1) /\ pos \in Nat
        /\ DOMAIN tokens = 1..Len(tokens)
    BY TokensLie, ParserFacts DEF IInv, AtLexeme
  <1>1. pos <= Len(text) => pos \in 1..Len(text)
    BY <1>0
  <1>2. ASSUME Reading(Opening), ~MayOpen PROVE FALSE
    <2>1. pos \in Starts(text)
      BY <1>0, <1>1, <1>2, StartsAre
    <2> QED BY <1>0, <1>2, <2>1, MayRead
  <1>3. ASSUME Reading(Closing), tokens = <<>> PROVE FALSE
    <2>1. pos \in 2..Len(text)
      BY <1>0, <1>1, <1>3, ClosesLater
    <2>2. 1 \in 1..Len(text) /\ 1 < pos
      BY <2>1
    <2>3. text[1] \in Opening \cup Names
      BY <1>0, JsonFacts
    <2>4. 1 \in Starts(text)
      BY <1>0, <2>2, <2>3, StartsAre
    <2>5. NumberOf(text, 1) \in 1..Len(tokens)
      BY <1>0, <2>2, <2>4, NumbersOfTokens
    <2>6. Len(tokens) = 0
      BY <1>3
    <2> QED BY <2>5, <2>6
  <1>4. ASSUME Reading(Primitives), ~MayBePrimitive \/ PrimitiveEnds = {} PROVE FALSE
    <2>1. pos \in Starts(text)
      BY <1>0, <1>1, <1>4, StartsAre
    <2>2. MayBePrimitive
      BY <1>0, <1>4, <2>1, MayRead
    <2>3. pos + 1 \in 2..Len(text) /\ text[pos + 1] \in Closing \cup {","}
      BY <1>0, <1>1, <1>4, PrimitiveInJson
    <2>4. pos + 1 \in pos..Len(text)
      <3>1. pos + 1 \in 2..Len(text)
        BY <2>3
      <3> QED BY <1>0, <3>1
    <2>5. pos + 1 \in PrimitiveEnds
      BY <2>3, <2>4 DEF PrimitiveEnds
    <2> QED BY <1>4, <2>2, <2>5
  <1>5. ~Reading({Odd})
    BY <1>0, <1>1, JsonFacts
  <1>6. ASSUME pc = "parse", pos > Len(text), ~AllClosed PROVE FALSE
    <2>1. pos = Len(text) + 1
      BY <1>0, <1>6
    <2> QED BY <1>0, <1>6, <2>1, AllShut
  <1>7. ASSUME pc = "close"
        PROVE  /\ tokens[walk].end = 0 => Closes
               /\ tokens[walk].end # 0 => tokens[walk].parent # 0
    BY <1>7, WalkIsRight
  <1>8. ~CloseNothing
    BY <1>7 DEF CloseNothing
  <1> QED BY <1>2, <1>3, <1>4, <1>5, <1>6, <1>7, <1>8 DEF Errs

LEMMA ReadingJson ==
  ASSUME IInv, NestInv, AtLexeme,
         \/ OpenContainer \/ CloseContainer \/ WalkUp \/ CloseHere \/ CloseNothing
         \/ ReadString \/ ReadPrimitive \/ ReadColon \/ ReadComma
  PROVE  AtLexeme'
  <1> USE DEF Reading
  <1>0. /\ ParserInv /\ IsJson(text) /\ IsReadUpTo(text, pos, tokens) /\ super = Below(text, pos)
        /\ Len(text) \in Nat /\ pos \in 1..(Len(text) + 1) /\ pos \in Nat
        /\ Len(tokens) \in Nat /\ super \in Nat /\ DOMAIN tokens = 1..Len(tokens)
        /\ (pos + 1) - 1 = pos /\ pos + 1 # 1 /\ Nested(tokens, super, pos)
    BY TokensLie, ParserFacts DEF IInv, AtLexeme, NestInv
  <1>1. pos <= Len(text) => pos \in 1..Len(text)
    BY <1>0
  <1>2. ASSUME text' = text, IsReadUpTo(text, pos', tokens'), super' = Below(text, pos')
        PROVE  AtLexeme'
    BY <1>0, <1>2 DEF AtLexeme
  <1>3. CASE CloseContainer \/ WalkUp
    BY <1>3 DEF CloseContainer, WalkUp, parser, AtLexeme
  <1>4. CASE OpenContainer
    <2> DEFINE k == NewToken(TypeOfBracket[text[pos]], pos, 0)
    <2>1. /\ text[pos] \in Opening /\ pos \in 1..Len(text) /\ text' = text
          /\ tokens' = Added(k) /\ super' = Len(tokens) + 1 /\ pos' = pos + 1
      BY <1>1, <1>4 DEF OpenContainer
    <2>2. pos \in Starts(text)
      BY <1>0, <2>1, StartsAre
    <2>3. /\ k.type = TypeOfBracket[text[pos]] /\ k.start = pos /\ k.end = 0 /\ k.parent = super
          /\ k \in Token
      <3>1. TypeOfBracket[text[pos]] \in Types
        BY <2>1, LexemeTypes DEF Types
      <3> QED BY <1>0, <3>1 DEF NewToken, Token
    <2> HIDE DEF k
    <2>4. super = ParentOf(text, pos)
      BY <1>0, <2>2, MayRead
    <2>5. OpenTill(text, pos, pos + 1)
      <3>1. Depth(text, pos) \in Int
        BY <1>0, Depths
      <3>2. \A r \in pos..pos : r = pos
        BY <1>0
      <3> QED BY <1>0, <3>1, <3>2 DEF OpenTill
    <2>6. text[pos] \notin Names /\ text[pos] \notin Primitives
      BY <2>1, Brackets
    <2>7. IsTokenOf(text, k, pos, pos + 1)
      BY <2>3, <2>4, <2>5, <2>6 DEF IsTokenOf
    <2>8. IsReadUpTo(text, pos + 1, Added(k))
      BY <1>0, <2>2, <2>3, <2>7, ReadAdded
    <2>9. Below(text, pos + 1) = Len(tokens) + 1
      <3>1. NumberOf(text, pos) = NumberOf(text, pos - 1) + 1
        <4>1. pos \in Nat \ {0}
          BY <2>1
        <4> QED BY <1>0, <2>2, <4>1, Numbers
      <3>2. Below(text, pos + 1) = NumberOf(text, pos)
        BY <1>0, <2>1 DEF Below
      <3> QED BY <1>0, <3>1, <3>2 DEF IsReadUpTo
    <2> QED BY <1>2, <2>1, <2>8, <2>9
  <1>5. CASE ReadString
    <2> DEFINE k == NewToken("string", pos, EndOfString(pos))
    <2>1. /\ text[pos] \in Names /\ pos \in 1..Len(text) /\ text' = text
          /\ tokens' = Added(k) /\ super' = super /\ pos' = pos + 1
      BY <1>1, <1>5 DEF ReadString
    <2>2. pos \in Starts(text)
      BY <1>0, <2>1, StartsAre
    <2>3. /\ k.type = "string" /\ k.start = pos /\ k.parent = super
          /\ k.end = IF text[pos] = EmptyName THEN pos ELSE pos + 1
          /\ k \in Token
      <3>1. EndOfString(pos) \in Nat
        BY <1>0 DEF EndOfString
      <3> QED BY <1>0, <3>1 DEF NewToken, Token, Types, EndOfString
    <2> HIDE DEF k
    <2>4. super = ParentOf(text, pos)
      BY <1>0, <2>2, MayRead
    <2>5. text[pos] \notin Opening /\ text[pos] \notin Primitives /\ text[pos] # ":"
          /\ text[pos] \notin Closing /\ ~IsComma(text[pos])
      BY <2>1, Brackets DEF IsComma
    <2>6. IsTokenOf(text, k, pos, pos + 1)
      BY <2>3, <2>4, <2>5 DEF IsTokenOf
    <2>7. IsReadUpTo(text, pos + 1, Added(k))
      BY <1>0, <2>2, <2>3, <2>6, ReadAdded
    <2>8. Below(text, pos + 1) = super
      BY <1>0, <2>4, <2>5 DEF Below, IsComma
    <2> QED BY <1>2, <2>1, <2>7, <2>8
  <1>6. CASE ReadPrimitive
    <2>1. PICK q \in PrimitiveEnds : /\ \A r \in PrimitiveEnds : q <= r
                                     /\ tokens' = Added(NewToken("primitive", pos, q)) /\ pos' = q
      BY <1>6 DEF ReadPrimitive
    <2>2. text[pos] \in Primitives /\ pos \in 1..Len(text) /\ text' = text /\ super' = super
      BY <1>1, <1>6 DEF ReadPrimitive
    <2>3. pos \in Starts(text)
      BY <1>0, <2>2, StartsAre
    <2>4. q = pos + 1
      <3>1. pos + 1 \in 2..Len(text) /\ text[pos + 1] \in Closing \cup {","}
        BY <1>0, <2>2, PrimitiveInJson
      <3>2. pos + 1 \in pos..Len(text)
        <4>1. pos + 1 \in 2..Len(text)
          BY <3>1
        <4> QED BY <1>0, <4>1
      <3>3. pos + 1 \in PrimitiveEnds
        BY <3>1, <3>2 DEF PrimitiveEnds
      <3>4. q # pos
        <4>1. text[q] \in Closing \cup {","}
          BY DEF PrimitiveEnds
        <4> QED BY <2>2, <4>1, Brackets
      <3>5. q \in pos..Len(text)
        BY DEF PrimitiveEnds
      <3>6. q <= pos + 1
        BY <2>1, <3>3
      <3> QED BY <1>0, <3>4, <3>5, <3>6
    <2> DEFINE k == NewToken("primitive", pos, pos + 1)
    <2>5. tokens' = Added(k) /\ pos' = pos + 1
      BY <2>1, <2>4
    <2>6. /\ k.type = "primitive" /\ k.start = pos /\ k.parent = super /\ k.end = pos + 1
          /\ k \in Token
      BY <1>0 DEF NewToken, Token, Types
    <2> HIDE DEF k
    <2>7. super = ParentOf(text, pos)
      BY <1>0, <2>3, MayRead
    <2>8. text[pos] \notin Opening /\ text[pos] \notin Names /\ text[pos] # ":"
          /\ text[pos] \notin Closing /\ ~IsComma(text[pos])
      BY <2>2, Brackets DEF IsComma
    <2>9. IsTokenOf(text, k, pos, pos + 1)
      BY <2>6, <2>7, <2>8 DEF IsTokenOf
    <2>10. IsReadUpTo(text, pos + 1, Added(k))
      BY <1>0, <2>3, <2>6, <2>9, ReadAdded
    <2>11. Below(text, pos + 1) = super
      BY <1>0, <2>7, <2>8 DEF Below, IsComma
    <2> QED BY <1>2, <2>2, <2>5, <2>10, <2>11
  <1>7. CASE ReadColon
    <2>1. /\ text[pos] = ":" /\ pos \in 1..Len(text) /\ text' = text
          /\ tokens' = tokens /\ super' = Len(tokens) /\ pos' = pos + 1
      BY <1>1, <1>7 DEF ReadColon
    <2>2. text[pos] \notin Opening \cup Closing \cup Names \cup Primitives
      BY <2>1, Brackets
    <2>3. IsReadUpTo(text, pos + 1, tokens)
      <3>1. pos <= Len(text)
        BY <2>1
      <3> QED BY <1>0, <2>2, <3>1, ReadOn
    <2>4. Below(text, pos + 1) = NumberOf(text, (pos + 1) - 2)
      BY <1>0, <2>1, <2>2 DEF Below
    <2>5. (pos + 1) - 2 = pos - 1
      BY <1>0
    <2> QED BY <1>0, <1>2, <2>1, <2>3, <2>4, <2>5 DEF IsReadUpTo
  <1>8. CASE ReadComma
    <2>1. /\ IsComma(text[pos]) /\ pos \in 1..Len(text) /\ text' = text /\ pos <= Len(text)
          /\ tokens' = tokens /\ super' = AfterComma /\ pos' = pos + 1
      BY <1>1, <1>8 DEF ReadComma, IsComma
    <2>2. text[pos] \notin Opening \cup Closing \cup Names \cup Primitives
      BY <2>1, Brackets DEF IsComma
    <2>3. IsReadUpTo(text, pos + 1, tokens)
      BY <1>0, <2>1, <2>2, ReadOn
    <2>4. AfterComma = Below(text, pos + 1)
      BY <1>0, <2>1, CommaGoesBack
    <2> QED BY <1>2, <2>1, <2>3, <2>4
  <1>9. CASE CloseHere
    <2>1. /\ pc = "close" /\ tokens[walk].end = 0 /\ text' = text
          /\ tokens' = [tokens EXCEPT ![walk].end = pos + 1]
          /\ super' = tokens[walk].parent /\ pos' = pos + 1
      BY <1>9 DEF CloseHere
    <2>2. /\ pos \in 2..Len(text) /\ text[pos] \in Closing /\ walk \in DOMAIN tokens
          /\ \A i \in DOMAIN tokens : tokens[i].end = 0 => i <= walk
          /\ tokens[walk].parent = ParentOf(text, Inside(text, pos))
      BY <2>1, WalkIsRight
    <2>3. IsReadUpTo(text, pos + 1, [tokens EXCEPT ![walk].end = pos + 1])
      BY <1>0, <2>1, <2>2, ReadClosed
    <2>4. text[pos] \notin Opening /\ text[pos] # ":" /\ ~IsComma(text[pos])
      BY <2>2, Brackets DEF IsComma
    <2>5. Below(text, pos + 1) = ParentOf(text, Inside(text, pos))
      BY <1>0, <2>2, <2>4 DEF Below, IsComma
    <2> QED BY <1>2, <2>1, <2>2, <2>3, <2>5
  <1>10. ~CloseNothing
    BY NothingRefused
  <1> QED BY <1>3, <1>4, <1>5, <1>6, <1>7, <1>8, <1>9, <1>10

---------------------------------------------------------------------------
(* JSON texts are read whatever is done with them                          *)

\* A parser that starts has read nothing of its text.
LEMMA JsonStarts ==
  ASSUME IInv, JsonInv, NEW t \in Seq(Lexemes), NEW e, StartParser(t, e),
         \/ Quiet /\ e.owner = Owner
         \/ edit.stage # "none" /\ e.owner = edit.owner
  PROVE  JsonInv'
  <1>1. text' = t /\ pos' = 1 /\ tokens' = <<>> /\ super' = 0 /\ edit' = e /\ pc' = "parse"
    BY DEF StartParser
  <1>2. IsReadUpTo(text', pos', tokens') /\ super' = Below(text', pos')
    BY <1>1, ReadNothing
  <1>3. ~Quiet'
    BY <1>1 DEF Quiet
  <1>4. ASSUME IsJson(e.owner.text)
        PROVE  IsReadUpTo(e.owner.text, Len(e.owner.text) + 1, e.owner.tokens)
    <2>1. CASE Quiet /\ e.owner = Owner
      BY <1>4, <2>1 DEF JsonInv, Owner
    <2>2. CASE edit.stage # "none" /\ e.owner = edit.owner
      BY <1>4, <2>2 DEF JsonInv
    <2> QED BY <2>1, <2>2
  <1> QED BY <1>1, <1>2, <1>3, <1>4 DEF JsonInv

\* A step that keeps the parser where it is at rest, or puts it to rest at the end.
LEMMA JsonRests ==
  ASSUME IInv, JsonInv, UNCHANGED <<text, tokens>>, Quiet', edit' = edit \/ edit' = NoEdit,
         Quiet \/ Parsed
  PROVE  JsonInv'
  <1>1. ASSUME IsJson(text) PROVE IsReadUpTo(text, Len(text) + 1, tokens)
    <2>1. CASE Quiet
      BY <1>1, <2>1 DEF JsonInv
    <2>2. CASE Parsed
      <3>1. pos = Len(text) + 1
        <4>1. pos > Len(text) /\ ParserInv
          BY <2>2 DEF Parsed, IInv
        <4> QED BY <4>1, ParserFacts
      <3> QED BY <1>1, <2>2, <3>1 DEF JsonInv, Parsed
    <2> QED BY <2>1, <2>2
  <1>2. pc' # "failed" /\ pc' \notin {"parse", "close"}
    BY DEF Quiet
  <1> QED BY <1>1, <1>2 DEF JsonInv, NoEdit

LEMMA JsonGoesBack ==
  ASSUME JsonInv, edit.stage # "none", BackToOwner PROVE JsonInv'
  <1>1. text' = edit.owner.text /\ tokens' = edit.owner.tokens /\ edit' = NoEdit /\ pc' = "idle"
    BY DEF BackToOwner
  <1>2. IsJson(text') => IsReadUpTo(text', Len(text') + 1, tokens')
    BY <1>1 DEF JsonInv
  <1> QED BY <1>1, <1>2 DEF JsonInv, NoEdit

LEMMA JsonInvStep == IInv /\ NestInv /\ JsonInv /\ [Next]_vars => JsonInv'
  <1> SUFFICES ASSUME IInv, NestInv, JsonInv, [Next]_vars PROVE JsonInv'
    OBVIOUS
  <1>1. CASE UNCHANGED vars
    BY <1>1 DEF vars, JsonInv, Quiet
  <1>2. CASE \/ OpenContainer \/ CloseContainer \/ WalkUp \/ CloseHere \/ CloseNothing
             \/ ReadString \/ ReadPrimitive \/ ReadColon \/ ReadComma
    <2>1. pc \in {"parse", "close"} /\ pc' \in {"parse", "close"} /\ text' = text /\ edit' = edit
      BY <1>2 DEF OpenContainer, CloseContainer, WalkUp, CloseHere, CloseNothing,
                  ReadString, ReadPrimitive, ReadColon, ReadComma, Reading, parser
    <2>2. IsJson(text) => AtLexeme
      BY <2>1 DEF JsonInv, AtLexeme
    <2>3. IsJson(text) => AtLexeme'
      BY <1>2, <2>2, ReadingJson
    <2> QED BY <2>1, <2>3 DEF JsonInv, AtLexeme, Quiet
  <1>3. CASE ParseFails
    <2>1. CASE edit.stage = "none"
      <3>1. pc' = "failed" /\ text' = text /\ edit' = edit /\ Errs
        BY <1>3, <2>1 DEF ParseFails, parser
      <3>2. pc \in {"parse", "close"}
        BY <3>1 DEF Errs, Reading
      <3>3. ~IsJson(text)
        <4>1. IsJson(text) => AtLexeme
          BY <3>2 DEF JsonInv, AtLexeme
        <4> QED BY <3>1, <4>1, NothingRefused
      <3> QED BY <2>1, <3>1, <3>3 DEF JsonInv
    <2>2. CASE edit.stage # "none"
      BY <1>3, <2>2, JsonGoesBack DEF ParseFails
    <2> QED BY <2>1, <2>2
  <1>4. CASE RejectFragment
    BY <1>4, JsonGoesBack DEF RejectFragment
  <1>5. CASE FinishParse \/ CommitEdit
    <2>1. Parsed /\ pc' = "idle" /\ UNCHANGED parser /\ (edit' = edit \/ edit' = NoEdit)
      BY <1>5 DEF FinishParse, CommitEdit
    <2> QED BY <2>1, JsonRests DEF Quiet, parser
  <1>6. ParserInv /\ PcInv /\ (MayEdit => Quiet)
    BY DEF IInv, MayEdit, Quiet
  <1>7. ASSUME MayEdit, NEW type, NEW prefix, Insert(type, prefix) PROVE JsonInv'
    <2>1. PICK o \in DOMAIN tokens, f \in Fragments :
            StartParser(f.text, Edit("fragment", f.type, Inserted(o, prefix \o f.text), IsValue(f.text)))
      BY <1>7 DEF Insert
    <2> DEFINE e == Edit("fragment", f.type, Inserted(o, prefix \o f.text), IsValue(f.text))
    <2>2. e.owner = Owner /\ f.text \in Seq(Lexemes)
      BY FragmentType DEF Edit
    <2>3. StartParser(f.text, e)
      BY <2>1
    <2> HIDE DEF e
    <2> QED BY <1>6, <1>7, <2>2, <2>3, JsonStarts
  <1>8. CASE InsertMember \/ InsertElement
    BY <1>7, <1>8 DEF InsertMember, InsertElement
  <1>9. CASE UpdateValue
    <2> DEFINE old == sought.answer + 1
    <2>1. PICK f \in Fragments :
            /\ tokens[old].type = "string" => Len(f.text) = 1 /\ f.text[1] \in Names \cup Primitives
            /\ StartParser(Spliced(old, f.text),
                           Edit("candidate", f.type, <<>>, IsValue(f.text) /\ tokens[old].type # "string"))
      BY <1>9 DEF UpdateValue
    <2> DEFINE e == Edit("candidate", f.type, <<>>, IsValue(f.text) /\ tokens[old].type # "string")
    <2>2. e.owner = Owner
      BY DEF Edit
    <2>3. old \in DOMAIN tokens /\ f.text \in Seq(Lexemes) /\ MayEdit
      BY <1>6, <1>9, ParserFacts, FragmentType DEF UpdateValue, IInv, SearchInv
    <2>4. Spliced(old, f.text) \in Seq(Lexemes)
      BY <1>6, <2>1, <2>3, SplicedType
    <2>5. StartParser(Spliced(old, f.text), e)
      BY <2>1
    <2> HIDE DEF e, old
    <2> QED BY <1>6, <2>2, <2>3, <2>4, <2>5, JsonStarts
  <1>10. CASE AcceptFragment
    <2> DEFINE e == [edit EXCEPT !.stage = "candidate"]
    <2>1. EditOK(edit) /\ edit.stage = "fragment"
      BY <1>10 DEF AcceptFragment, IInv, EditInv, NoEdit
    <2>2. e.owner = edit.owner /\ edit.new \in Seq(Lexemes)
      BY <2>1 DEF EditOK
    <2>3. StartParser(edit.new, e)
      BY <1>10 DEF AcceptFragment
    <2> HIDE DEF e
    <2> QED BY <2>1, <2>2, <2>3, JsonStarts
  <1>11. CASE \/ StartRender \/ RenderMember \/ RenderElement \/ RenderSkip \/ RenderReturn
              \/ RenderThrows \/ StartFind \/ FindKey \/ FindNext \/ FindNothing
    <2>1. UNCHANGED <<parser, edit>>
      BY <1>11 DEF StartRender, RenderMember, RenderElement, RenderSkip, RenderReturn, RenderThrows,
                  StartFind, FindKey, FindNext, FindNothing, Visit
    <2>2. Quiet /\ Quiet'
      BY <1>11 DEF StartRender, RenderMember, RenderElement, RenderSkip, RenderReturn, RenderThrows,
                  StartFind, FindKey, FindNext, FindNothing, InFrame, InSearch, Quiet, Visit
    <2> QED BY <2>1, <2>2, JsonRests DEF parser
  <1> QED BY <1>1, <1>2, <1>3, <1>4, <1>5, <1>8, <1>9, <1>10, <1>11 DEF Next

---------------------------------------------------------------------------
(* What was read is the reference                                          *)

LEMMA TokenIs ==
  ASSUME NEW k \in Token
  PROVE  k = [type |-> k.type, start |-> k.start, end |-> k.end, size |-> k.size, parent |-> k.parent]
  BY DEF Token

\* Where a bracket is closed.
LEMMA CloserIs ==
  ASSUME NEW t, Len(t) \in Nat, NEW p \in 1..Len(t), NEW c \in 1..Len(t), Shuts(t, p, c)
  PROVE  Closer(t, p) = c
  <1> DEFINE Ends(q) == Depth(t, q) < Depth(t, p) /\ \A r \in p..(q - 1) : Depth(t, r) >= Depth(t, p)
  <1>0. p \in Nat /\ c \in p..Len(t) /\ \A q \in p..Len(t) : q \in Nat /\ Depth(t, q) \in Int
    <2>1. c > p /\ p \in Nat
      BY DEF Shuts
    <2>2. \A q \in p..Len(t) : q \in Nat
      BY <2>1
    <2> QED BY <2>1, <2>2, Depths
  <1>1. Ends(c)
    BY DEF Shuts, OpenTill
  <1>2. ASSUME NEW q \in p..Len(t), Ends(q) PROVE q = c
    <2>1. Depth(t, p) \in Int /\ Depth(t, q) \in Int /\ Depth(t, c) \in Int /\ q \in Nat /\ c \in Nat
      BY <1>0
    <2>2. ~(q < c)
      <3>1. q < c => q \in p..(c - 1)
        BY <1>0, <2>1
      <3>2. q < c => Depth(t, q) >= Depth(t, p)
        BY <1>1, <3>1
      <3> QED BY <1>2, <2>1, <3>2
    <2>3. ~(c < q)
      <3>1. c < q => c \in p..(q - 1)
        BY <1>0, <2>1
      <3>2. c < q => Depth(t, c) >= Depth(t, p)
        BY <1>2, <3>1
      <3> QED BY <1>1, <2>1, <3>2
    <2> QED BY <2>1, <2>2, <2>3
  <1>3. Closer(t, p) = CHOOSE q \in p..Len(t) : Ends(q)
    BY DEF Closer
  <1> HIDE DEF Ends
  <1> QED BY <1>0, <1>1, <1>2, <1>3

\* The parts of a token are as many as the values and keys with that parent.
LEMMA PartsAreCounted ==
  ASSUME NEW t, Len(t) \in Nat, NEW ts \in Seq(Token), IsReadUpTo(t, Len(t) + 1, ts), NEW i
  PROVE  Cardinality(PartsOf(ts, i)) = Cardinality({q \in Starts(t) : ParentOf(t, q) = i})
  <1> DEFINE Q == {q \in Starts(t) : ParentOf(t, q) = i}
             P == PartsOf(ts, i)
             f == [q \in Q |-> NumberOf(t, q)]
  <1>0. /\ DOMAIN ts = 1..Len(ts) /\ Len(t) + 1 \in 1..(Len(t) + 1)
        /\ \A q \in Starts(t) : q < Len(t) + 1
    <2>1. \A q \in Starts(t) : q \in Nat /\ q <= Len(t)
      BY StartsAre
    <2> QED BY <2>1, TokensType
  <1>1. ASSUME NEW q \in Starts(t)
        PROVE  NumberOf(t, q) \in DOMAIN ts /\ ts[NumberOf(t, q)].parent = ParentOf(t, q)
    <2>1. NumberOf(t, q) \in DOMAIN ts
      BY <1>0, NumbersOfTokens
    <2>2. IsTokenOf(t, ts[NumberOf(t, q)], q, Len(t) + 1)
      BY <1>0 DEF IsReadUpTo
    <2> QED BY <2>1, <2>2 DEF IsTokenOf
  <1>2. \A q \in Q : NumberOf(t, q) \in P
    BY <1>1 DEF PartsOf
  <1>3. \A j \in P : \E q \in Q : NumberOf(t, q) = j
    <2>1. ASSUME NEW j \in P PROVE \E q \in Q : NumberOf(t, q) = j
      <3>1. j \in 1..Len(ts) /\ ts[j].parent = i
        BY <1>0 DEF PartsOf
      <3>2. PICK q \in Starts(t) : NumberOf(t, q) = j
        BY <1>0, <3>1, NumbersOfTokens
      <3> QED BY <1>1, <3>1, <3>2
    <2> QED BY <2>1
  <1>4. \A q, r \in Q : NumberOf(t, q) = NumberOf(t, r) => q = r
    BY NumbersGrow
  <1>5. IsFiniteSet(Q)
    <2>1. Q \subseteq Starts(t) /\ IsFiniteSet(Starts(t))
      BY Numbers
    <2> QED BY <2>1, FS_Subset
  <1> HIDE DEF Q, P
  <1>6. f \in Bijection(Q, P)
    <2>1. f \in [Q -> P]
      BY <1>2
    <2>2. \A q, r \in Q : f[q] = f[r] => q = r
      BY <1>4
    <2>3. \A j \in P : \E q \in Q : f[q] = j
      BY <1>3
    <2> HIDE DEF f
    <2> QED BY <2>1, <2>2, <2>3 DEF Bijection, Injection, Surjection, IsInjective
  <1>7. ExistsBijection(Q, P)
    BY <1>6 DEF ExistsBijection
  <1>8. Cardinality(P) = Cardinality(Q)
    BY <1>5, <1>7, FS_Bijection
  <1> QED BY <1>8 DEF P, Q

\* Read to its end, with nothing open, a JSON text has the tokens it should.
LEMMA TokensAreRight ==
  ASSUME ParserInv, Closed(tokens), IsJson(text), IsReadUpTo(text, Len(text) + 1, tokens)
  PROVE  /\ Len(tokens) = Cardinality(Starts(text))
         /\ \A p \in Starts(text) :
              tokens[NumberOf(text, p)] =
                [type   |-> CASE text[p] \in Opening -> TypeOfBracket[text[p]]
                              [] text[p] \in Names   -> "string"
                              [] OTHER               -> "primitive",
                 start  |-> p,
                 end    |-> CASE text[p] \in Opening -> Closer(text, p) + 1
                              [] text[p] \in Names   -> EndOfString(p)
                              [] OTHER               -> p + 1,
                 size   |-> Cardinality({q \in Starts(text) : ParentOf(text, q) = NumberOf(text, p)}),
                 parent |-> ParentOf(text, p)]
  <1>0. /\ Len(text) \in Nat /\ tokens \in Seq(Token) /\ Linked(tokens)
        /\ DOMAIN tokens = 1..Len(tokens) /\ Len(text) + 1 \in 1..(Len(text) + 1)
        /\ (Len(text) + 1) - 1 = Len(text)
    <2>1. /\ Len(text) \in Nat /\ tokens \in Seq(Token) /\ DOMAIN tokens = 1..Len(tokens)
      BY ParserFacts
    <2> QED BY <2>1 DEF ParserInv, ParserOK
  <1>1. Len(tokens) = Cardinality(Starts(text))
    BY <1>0, Numbers DEF IsReadUpTo
  <1>2. ASSUME NEW p \in Starts(text)
        PROVE  tokens[NumberOf(text, p)] =
                 [type   |-> CASE text[p] \in Opening -> TypeOfBracket[text[p]]
                               [] text[p] \in Names   -> "string"
                               [] OTHER               -> "primitive",
                  start  |-> p,
                  end    |-> CASE text[p] \in Opening -> Closer(text, p) + 1
                               [] text[p] \in Names   -> EndOfString(p)
                               [] OTHER               -> p + 1,
                  size   |-> Cardinality({q \in Starts(text) : ParentOf(text, q) = NumberOf(text, p)}),
                  parent |-> ParentOf(text, p)]
    <2> DEFINE i == NumberOf(text, p)
               k == tokens[i]
               type == CASE text[p] \in Opening -> TypeOfBracket[text[p]]
                         [] text[p] \in Names   -> "string"
                         [] OTHER               -> "primitive"
               end == CASE text[p] \in Opening -> Closer(text, p) + 1
                        [] text[p] \in Names   -> EndOfString(p)
                        [] OTHER               -> p + 1
               size == Cardinality({q \in Starts(text) : ParentOf(text, q) = i})
    <2>1. p \in 1..Len(text) /\ p \in Nat /\ p < Len(text) + 1
          /\ text[p] \in Opening \cup Names \cup Primitives
      <3>1. p \in 1..Len(text) /\ p \in Nat /\ StartsValue(text[p])
        BY <1>0, StartsAre
      <3> QED BY <1>0, <3>1 DEF StartsValue
    <2>2. i \in DOMAIN tokens
      BY <1>0, <2>1, NumbersOfTokens
    <2>3. IsTokenOf(text, k, p, Len(text) + 1) /\ k \in Token /\ k.end # 0 /\ k.end \in Nat
          /\ k.size = Cardinality(PartsOf(tokens, i))
      BY <1>0, <2>1, <2>2, TokensType DEF IsReadUpTo, Closed, Linked
    <2>4. k.size = size
      BY <1>0, <2>3, PartsAreCounted
    <2> HIDE DEF k
    <2>5. k.start = p /\ k.parent = ParentOf(text, p)
      BY <2>3 DEF IsTokenOf
    <2>6. k.type = type /\ k.end = end
      <3>1. CASE text[p] \in Opening
        <4>1. k.type = TypeOfBracket[text[p]] /\ Shuts(text, p, k.end - 1) /\ k.end <= Len(text) + 1
          BY <2>3, <3>1 DEF IsTokenOf
        <4>2. k.end - 1 \in 1..Len(text)
          <5>1. k.end - 1 > p
            BY <4>1 DEF Shuts
          <5> QED BY <1>0, <2>1, <2>3, <4>1, <5>1
        <4>3. Closer(text, p) = k.end - 1
          BY <1>0, <2>1, <4>1, <4>2, CloserIs
        <4>4. Closer(text, p) + 1 = k.end
          BY <2>3, <4>3
        <4>5. text[p] \notin Names /\ text[p] \notin Primitives
          BY <3>1, Brackets
        <4>6. type = TypeOfBracket[text[p]] /\ end = Closer(text, p) + 1
          BY <3>1, <4>5
        <4> QED BY <4>1, <4>4, <4>6
      <3>2. CASE text[p] \in Names
        <4>1. k.type = "string" /\ k.end = EndOfString(p)
          BY <2>3, <3>2 DEF IsTokenOf, EndOfString
        <4>2. text[p] \notin Opening
          BY <3>2, Brackets
        <4>3. type = "string" /\ end = EndOfString(p)
          BY <3>2, <4>2
        <4> QED BY <4>1, <4>3
      <3>3. CASE text[p] \in Primitives
        <4>1. k.type = "primitive" /\ k.end = p + 1
          BY <2>3, <3>3 DEF IsTokenOf
        <4>2. text[p] \notin Opening /\ text[p] \notin Names
          BY <3>3, Brackets
        <4>3. type = "primitive" /\ end = p + 1
          BY <4>2
        <4> QED BY <4>1, <4>3
      <3> QED BY <2>1, <3>1, <3>2, <3>3
    <2> HIDE DEF type, end, size, i
    <2>7. k = [type |-> type, start |-> p, end |-> end, size |-> size, parent |-> ParentOf(text, p)]
      BY <2>3, <2>4, <2>5, <2>6, TokenIs
    <2> QED BY <2>7 DEF k, i, type, end, size
  <1> QED BY <1>1, <1>2

LEMMA AlwaysRead == Spec => []JsonInv
  <1>1. Init => JsonInv
    <2> SUFFICES ASSUME Init PROVE JsonInv
      OBVIOUS
    <2>2. pc = "parse" /\ pos = 1 /\ tokens = <<>> /\ super = 0 /\ edit = NoEdit
          /\ text \in Seq(Lexemes)
      BY LexemesAssumption DEF Init
    <2>3. IsReadUpTo(text, pos, tokens) /\ super = Below(text, pos)
      BY <2>2, ReadNothing
    <2> QED BY <2>2, <2>3 DEF JsonInv, NoEdit, Quiet
  <1> QED BY <1>1, Invariance, AlwaysNested, JsonInvStep, PTL DEF Spec

\* Whatever was parsed and edited before: a text that is JSON is not refused, and
\* it has a token for each of its values and keys, in their order, that spans what
\* it should, counts its parts and is below what the text puts it in.
THEOREM TextsAreParsed == Spec => []JsonIsParsed
  <1>1. IInv /\ JsonInv => JsonIsParsed
    <2> SUFFICES ASSUME IInv, JsonInv PROVE JsonIsParsed
      OBVIOUS
    <2>1. pc = "failed" => ~IsJson(text)
      BY DEF JsonInv
    <2>2. ASSUME pc = "idle", IsJson(text)
          PROVE  ParserInv /\ Closed(tokens) /\ IsReadUpTo(text, Len(text) + 1, tokens)
      BY <2>2 DEF JsonInv, IInv, PcInv, Quiet
    <2> QED BY <2>1, <2>2, TokensAreRight DEF JsonIsParsed
  <1> QED BY <1>1, Invariance, AlwaysRead, PTL

---------------------------------------------------------------------------
(* Parts that two texts have in common                                     *)

\* The n lexemes behind position x of t are those behind position y of u.
Common(t, x, u, y, n) == \A i \in 1..n : t[x + i] = u[y + i]

\* So does their depth change.
Parallel(t, x, u, y, n) ==
  \A i \in 0..n : Depth(t, x + i) - Depth(t, x) = Depth(u, y + i) - Depth(u, y)

LEMMA SameLexeme ==
  ASSUME NEW t, NEW u, NEW p \in Nat \ {0}, NEW q \in Nat \ {0}, t[p] = u[q],
         NEW a \in Int, NEW b \in Int, Depth(t, p - 1) - a = Depth(u, q - 1) - b
  PROVE  Depth(t, p) - a = Depth(u, q) - b
  <1>1. p - 1 \in Nat /\ q - 1 \in Nat /\ p \in Nat /\ q \in Nat
    OBVIOUS
  <1>2. /\ Depth(t, p) \in Int /\ Depth(t, p - 1) \in Int
        /\ Depth(u, q) \in Int /\ Depth(u, q - 1) \in Int
    BY <1>1, Depths
  <1>3. CASE t[p] \in Opening
    <2>1. Depth(t, p) = Depth(t, p - 1) + 1 /\ Depth(u, q) = Depth(u, q - 1) + 1
      BY <1>3, Depths
    <2> QED BY <1>2, <2>1
  <1>4. CASE t[p] \in Closing
    <2>1. Depth(t, p) = Depth(t, p - 1) - 1 /\ Depth(u, q) = Depth(u, q - 1) - 1
      BY <1>4, Depths
    <2> QED BY <1>2, <2>1
  <1>5. CASE t[p] \notin Opening \cup Closing
    <2>1. Depth(t, p) = Depth(t, p - 1) /\ Depth(u, q) = Depth(u, q - 1)
      BY <1>5, Depths
    <2> QED BY <1>2, <2>1
  <1> QED BY <1>3, <1>4, <1>5

\* Over the same lexemes, depth changes in the same way.
LEMMA DepthsAlong ==
  ASSUME NEW t, NEW u, NEW x \in Nat, NEW y \in Nat, NEW n \in Nat, Common(t, x, u, y, n)
  PROVE  Parallel(t, x, u, y, n)
  <1> DEFINE Same(i) == Depth(t, x + i) - Depth(t, x) = Depth(u, y + i) - Depth(u, y)
             T == {i \in Nat : i <= n /\ ~Same(i)}
  <1>1. Depth(t, x) \in Int /\ Depth(u, y) \in Int
    BY Depths
  <1>2. Same(0)
    <2>1. x + 0 = x /\ y + 0 = y
      OBVIOUS
    <2> QED BY <1>1, <2>1
  <1>3. T \subseteq Nat
    OBVIOUS
  <1>4. \A i \in T : i \in Nat /\ i <= n /\ ~Same(i)
    OBVIOUS
  <1>5. \A i \in Nat : i <= n /\ i \notin T => Same(i)
    OBVIOUS
  <1> HIDE DEF T
  <1>6. ASSUME T # {} PROVE FALSE
    <2>1. PICK i \in T : \A j \in T : i <= j
      BY <1>3, <1>6, LeastNumber
    <2>2. i \in Nat /\ i <= n /\ ~Same(i)
      BY <1>4, <2>1
    <2>3. i # 0
      BY <1>2, <2>2
    <2>4. i - 1 \in Nat /\ i - 1 <= n /\ ~(i <= i - 1)
      BY <2>2, <2>3
    <2>5. i - 1 \notin T
      BY <2>1, <2>4
    <2>6. Same(i - 1)
      BY <1>5, <2>4, <2>5
    <2>7. x + i \in Nat \ {0} /\ y + i \in Nat \ {0} /\ i \in 1..n
          /\ (x + i) - 1 = x + (i - 1) /\ (y + i) - 1 = y + (i - 1)
      BY <2>2, <2>3
    <2>8. t[x + i] = u[y + i]
      BY <2>7 DEF Common
    <2>9. Depth(t, (x + i) - 1) - Depth(t, x) = Depth(u, (y + i) - 1) - Depth(u, y)
      BY <2>6, <2>7
    <2>10. Depth(t, x + i) - Depth(t, x) = Depth(u, y + i) - Depth(u, y)
      BY <1>1, <2>7, <2>8, <2>9, SameLexeme
    <2> QED BY <2>2, <2>10
  <1>7. \A i \in 0..n : i \in Nat /\ i <= n
    OBVIOUS
  <1>8. \A i \in 0..n : Same(i)
    BY <1>5, <1>6, <1>7
  <1> QED BY <1>8 DEF Parallel

\* A bracket among them holds the same of them.
LEMMA InsideAlong ==
  ASSUME NEW t, NEW u, NEW x \in Nat, NEW y \in Nat, NEW n \in Nat,
         Common(t, x, u, y, n),
         NEW i \in 1..(n + 1), NEW h \in 1..(i - 1), IsInside(t, x + h, x + i)
  PROVE  IsInside(u, y + h, y + i)
  <1>1. /\ h \in Nat /\ i \in Nat /\ h \in 1..n /\ h \in 0..n /\ i - 1 \in 0..n
        /\ (x + i) - 1 = x + (i - 1) /\ (y + i) - 1 = y + (i - 1)
        /\ y + h \in 1..((y + i) - 1)
    <2>1. i \in Nat /\ i >= 1 /\ i <= n + 1
      OBVIOUS
    <2>2. h \in Nat /\ h >= 1 /\ h <= i - 1
      BY <2>1
    <2>3. h \in 1..n /\ h \in 0..n /\ i - 1 \in 0..n
      BY <2>1, <2>2
    <2>4. (x + i) - 1 = x + (i - 1) /\ (y + i) - 1 = y + (i - 1)
      BY <2>1
    <2>5. y + h \in 1..((y + i) - 1)
      BY <2>1, <2>2
    <2> QED BY <2>1, <2>2, <2>3, <2>4, <2>5
  <1>2. \A r \in 0..n : Depth(t, x + r) - Depth(t, x) = Depth(u, y + r) - Depth(u, y)
    <2>1. Parallel(t, x, u, y, n)
      BY DepthsAlong
    <2> QED BY <2>1 DEF Parallel
  <1>3. \A r \in 0..n : Depth(t, x + r) \in Int /\ Depth(u, y + r) \in Int
    <2>1. \A r \in 0..n : x + r \in Nat /\ y + r \in Nat
      OBVIOUS
    <2> QED BY <2>1, Depths
  <1>4. Depth(t, x) \in Int /\ Depth(u, y) \in Int
    BY Depths
  <1>5. Depth(t, x + h) = Depth(t, x + (i - 1)) /\ t[x + h] \in Opening /\ OpenTill(t, x + h, x + i)
    BY <1>1 DEF IsInside
  <1>6. Depth(u, y + h) = Depth(u, y + (i - 1)) /\ u[y + h] \in Opening
    <2>1. u[y + h] \in Opening
      <3>1. t[x + h] = u[y + h]
        BY <1>1 DEF Common
      <3> QED BY <1>5, <3>1
    <2>2. /\ Depth(t, x + h) - Depth(t, x) = Depth(u, y + h) - Depth(u, y)
          /\ Depth(t, x + (i - 1)) - Depth(t, x) = Depth(u, y + (i - 1)) - Depth(u, y)
          /\ Depth(t, x + h) \in Int /\ Depth(u, y + h) \in Int
          /\ Depth(t, x + (i - 1)) \in Int /\ Depth(u, y + (i - 1)) \in Int
      BY <1>1, <1>2, <1>3
    <2>3. Depth(u, y + h) = Depth(u, y + (i - 1))
      BY <1>4, <1>5, <2>2
    <2> QED BY <2>1, <2>3
  <1>7. ASSUME NEW r \in (y + h)..((y + i) - 1) PROVE Depth(u, r) >= Depth(u, y + h)
    <2> DEFINE s == r - y
    <2>1. s \in 0..n /\ y + s = r /\ x + s \in (x + h)..((x + i) - 1)
      BY <1>1
    <2> HIDE DEF s
    <2>2. Depth(t, x + s) >= Depth(t, x + h)
      BY <1>5, <2>1 DEF OpenTill
    <2>3. /\ Depth(t, x + s) - Depth(t, x) = Depth(u, y + s) - Depth(u, y)
          /\ Depth(t, x + h) - Depth(t, x) = Depth(u, y + h) - Depth(u, y)
          /\ Depth(t, x + s) \in Int /\ Depth(u, y + s) \in Int
          /\ Depth(t, x + h) \in Int /\ Depth(u, y + h) \in Int
      BY <1>1, <1>2, <1>3, <2>1
    <2>4. Depth(u, y + s) >= Depth(u, y + h)
      BY <1>4, <2>2, <2>3
    <2> QED BY <2>1, <2>4
  <1>8. OpenTill(u, y + h, y + i)
    BY <1>7 DEF OpenTill
  <1> QED BY <1>1, <1>6, <1>8 DEF IsInside

\* Behind what closes all that it opens, a position is inside of the same bracket as
\* in front of it.
LEMMA InsideOver ==
  ASSUME NEW t, NEW a \in Nat, NEW b \in Nat, a <= b, NEW q, IsInside(t, q, a + 1),
         Depth(t, b) = Depth(t, a), \A r \in a..b : Depth(t, r) >= Depth(t, a)
  PROVE  IsInside(t, q, b + 1) /\ Inside(t, b + 1) = q
  <1>1. (a + 1) - 1 = a /\ (b + 1) - 1 = b /\ b + 1 \in Nat \ {0}
    OBVIOUS
  <1>2. q \in 1..a /\ t[q] \in Opening /\ Depth(t, q) = Depth(t, a) /\ OpenTill(t, q, a + 1)
    BY <1>1 DEF IsInside
  <1>3. ASSUME NEW r \in q..b PROVE Depth(t, r) >= Depth(t, q)
    <2>1. r \in q..a \/ r \in a..b
      BY <1>2
    <2>2. r \in q..a => Depth(t, r) >= Depth(t, q)
      BY <1>1, <1>2 DEF OpenTill
    <2> QED BY <1>2, <2>1, <2>2
  <1>4. OpenTill(t, q, b + 1)
    BY <1>1, <1>3 DEF OpenTill
  <1>5. q \in 1..b
    BY <1>2
  <1>6. IsInside(t, q, b + 1)
    BY <1>1, <1>2, <1>4, <1>5 DEF IsInside
  <1> QED BY <1>1, <1>6, InsideIs

---------------------------------------------------------------------------
(* What may follow                                                         *)

LEMMA MayFollowing ==
  ASSUME NEW t, NEW p, Inside(t, p) # 0
  PROVE  /\ t[p] \in Closing /\ ValueBefore(t, p)
              /\ TypeOfBracket[t[p]] = TypeOfBracket[t[Inside(t, p)]] => MayFollow(t, p)
         /\ IsComma(t[p]) /\ ValueBefore(t, p) => MayFollow(t, p)
         /\ StartsValue(t[p]) /\ (t[p - 1] \in {"[", ":"} \/ IsComma(t[p - 1]))
              /\ (InObject(t, p) => t[p - 1] = ":") => MayFollow(t, p)
         /\ t[p] \in Names /\ InObject(t, p) /\ (OpensObject(t[p - 1]) \/ IsComma(t[p - 1])) =>
              MayFollow(t, p) /\ IsKey(t, p)
         /\ t[p] = ":" /\ IsKey(t, p - 1) => MayFollow(t, p)
  <1>1. ASSUME t[p] \in Closing, ValueBefore(t, p),
               TypeOfBracket[t[p]] = TypeOfBracket[t[Inside(t, p)]]
        PROVE  MayFollow(t, p)
    <2>1. t[p] # "," /\ t[p] # ":"
      BY <1>1, Brackets
    <2> QED BY <1>1, <2>1 DEF MayFollow, ValueBefore
  <1>2. ASSUME IsComma(t[p]), ValueBefore(t, p) PROVE MayFollow(t, p)
    <2>1. t[p] = "," /\ t[p] \notin Closing /\ t[p] # ":"
      BY <1>2, Brackets DEF IsComma
    <2> QED BY <1>2, <2>1 DEF MayFollow, ValueBefore
  <1>3. ASSUME StartsValue(t[p]), t[p - 1] \in {"[", ":"} \/ IsComma(t[p - 1]),
               InObject(t, p) => t[p - 1] = ":"
        PROVE  MayFollow(t, p)
    <2>1. t[p] \notin Closing /\ t[p] # "," /\ t[p] # ":"
      BY <1>3, Brackets DEF StartsValue
    <2> QED BY <1>3, <2>1 DEF MayFollow, IsComma
  <1>4. ASSUME t[p] \in Names, InObject(t, p), OpensObject(t[p - 1]) \/ IsComma(t[p - 1])
        PROVE  MayFollow(t, p) /\ IsKey(t, p)
    <2>1. t[p] \notin Closing /\ t[p] # "," /\ t[p] # ":"
      BY <1>4, Brackets
    <2>2. t[p - 1] \in {"{", ","} /\ t[p - 1] # ":"
      BY <1>4 DEF IsComma, OpensObject
    <2> QED BY <1>4, <2>1, <2>2 DEF MayFollow, IsKey
  <1>5. ASSUME t[p] = ":", IsKey(t, p - 1) PROVE MayFollow(t, p)
    <2>1. t[p] \notin Closing /\ t[p] # "," /\ t[p - 1] \in Names
      BY <1>5, Brackets DEF IsKey
    <2> QED BY <1>5, <2>1 DEF MayFollow
  <1> QED BY <1>1, <1>2, <1>3, <1>4, <1>5

\* It depends on two lexemes, the bracket around, and on whether a key is in front.
LEMMA SameFollows ==
  ASSUME NEW t, NEW p, NEW u, NEW q, u[q] = t[p], u[q - 1] = t[p - 1],
         Inside(t, p) # 0, Inside(u, q) # 0, u[Inside(u, q)] = t[Inside(t, p)],
         IsKey(t, p - 1) <=> IsKey(u, q - 1), MayFollow(t, p)
  PROVE  MayFollow(u, q)
  <1>1. InObject(t, p) <=> InObject(u, q)
    BY DEF InObject
  <1> QED BY <1>1 DEF MayFollow

LEMMA SameKeys ==
  ASSUME NEW t, NEW p, NEW u, NEW q, u[q] = t[p], u[q - 1] = t[p - 1],
         Inside(t, p) # 0, Inside(u, q) # 0, u[Inside(u, q)] = t[Inside(t, p)]
  PROVE  IsKey(t, p) <=> IsKey(u, q)
  BY DEF IsKey, InObject

---------------------------------------------------------------------------
(* A text with a part of another in place of a part of its own             *)

\* Text u is text t with k lexemes for the n that are behind position m, where both
\* close all that they open.
Replaced(t, u, m, n, k) ==
  /\ m \in Nat \ {0} /\ n \in Nat /\ k \in Nat /\ Len(t) \in Nat
  /\ m + n < Len(t) /\ Len(u) = (Len(t) - n) + k
  /\ \A p \in 1..m : u[p] = t[p]
  /\ \A j \in 1..(Len(t) - (m + n)) : u[(m + k) + j] = t[(m + n) + j]
  /\ \A r \in m..(m + n) : Depth(t, r) >= Depth(t, m)
  /\ Depth(t, m + n) = Depth(t, m)
  /\ \A r \in m..(m + k) : Depth(u, r) >= Depth(u, m)
  /\ Depth(u, m + k) = Depth(u, m)

\* What is in front keeps its depths and brackets.
LEMMA SameInFront ==
  ASSUME NEW t, NEW u, NEW m \in Nat, \A p \in 1..m : u[p] = t[p]
  PROVE  /\ \A r \in 0..m : Depth(u, r) = Depth(t, r) /\ Depth(t, r) \in Int
         /\ \A p \in 1..(m + 1) : Inside(t, p) # 0 => Inside(u, p) = Inside(t, p)
  <1>1. Common(t, 0, u, 0, m)
    BY DEF Common
  <1>2. \A i \in 0..m : Depth(t, 0 + i) - Depth(t, 0) = Depth(u, 0 + i) - Depth(u, 0)
    <2>1. Parallel(t, 0, u, 0, m)
      BY <1>1, DepthsAlong
    <2> QED BY <2>1 DEF Parallel
  <1>3. ASSUME NEW r \in 0..m PROVE Depth(u, r) = Depth(t, r) /\ Depth(t, r) \in Int
    <2>1. Depth(t, 0) = 0 /\ Depth(u, 0) = 0 /\ Depth(t, r) \in Int /\ Depth(u, r) \in Int
      BY Depths
    <2>2. 0 + r = r
      OBVIOUS
    <2>3. Depth(t, r) - 0 = Depth(u, r) - 0
      BY <1>2, <2>1, <2>2
    <2> QED BY <2>1, <2>3
  <1>4. ASSUME NEW p \in 1..(m + 1), Inside(t, p) # 0 PROVE Inside(u, p) = Inside(t, p)
    <2> DEFINE h == Inside(t, p)
    <2>1. p \in Nat \ {0} /\ 0 + p = p
      OBVIOUS
    <2>2. IsInside(t, h, p)
      BY <1>4, <2>1, InsideIs
    <2> HIDE DEF h
    <2>3. h \in 1..(p - 1) /\ 0 + h = h
      BY <2>2 DEF IsInside
    <2>4. IsInside(t, 0 + h, 0 + p)
      BY <2>1, <2>2, <2>3
    <2>5. IsInside(u, 0 + h, 0 + p)
      BY <1>1, <2>3, <2>4, InsideAlong
    <2> QED BY <2>1, <2>3, <2>5, InsideIs DEF h
  <1> QED BY <1>3, <1>4

LEMMA ReplacedDepths ==
  ASSUME NEW t, NEW u, NEW m, NEW n, NEW k, Replaced(t, u, m, n, k)
  PROVE  /\ \A r \in 0..m : Depth(u, r) = Depth(t, r)
         /\ \A r \in m..(m + k) : Depth(u, r) >= Depth(t, m)
         /\ \A j \in 0..(Len(t) - (m + n)) : Depth(u, (m + k) + j) = Depth(t, (m + n) + j)
  <1> DEFINE b == Len(t) - (m + n)
  <1>1. m \in Nat /\ n \in Nat /\ k \in Nat /\ m + n \in Nat /\ m + k \in Nat /\ b \in Nat /\ m \in 0..m
    BY DEF Replaced
  <1>2. \A r \in 0..m : Depth(u, r) = Depth(t, r)
    BY <1>1, SameInFront DEF Replaced
  <1>3. Depth(u, m) = Depth(t, m) /\ Depth(t, m + n) = Depth(t, m) /\ Depth(u, m + k) = Depth(u, m)
    BY <1>1, <1>2 DEF Replaced
  <1>4. \A r \in m..(m + k) : Depth(u, r) >= Depth(t, m)
    BY <1>3 DEF Replaced
  <1>5. Common(t, m + n, u, m + k, b)
    BY DEF Replaced, Common
  <1> HIDE DEF b
  <1>6. \A j \in 0..b :
          Depth(t, (m + n) + j) - Depth(t, m + n) = Depth(u, (m + k) + j) - Depth(u, m + k)
    <2>1. Parallel(t, m + n, u, m + k, b)
      BY <1>1, <1>5, DepthsAlong
    <2> QED BY <2>1 DEF Parallel
  <1>7. ASSUME NEW j \in 0..b PROVE Depth(u, (m + k) + j) = Depth(t, (m + n) + j)
    <2>1. (m + k) + j \in Nat /\ (m + n) + j \in Nat
      BY <1>1
    <2>2. /\ Depth(u, (m + k) + j) \in Int /\ Depth(t, (m + n) + j) \in Int /\ Depth(t, m) \in Int
      BY <1>1, <2>1, Depths
    <2>3. Depth(t, (m + n) + j) - Depth(t, m) = Depth(u, (m + k) + j) - Depth(t, m)
      BY <1>3, <1>6
    <2> QED BY <2>2, <2>3
  <1> QED BY <1>2, <1>4, <1>7 DEF b

\* What is behind is inside of the same brackets.
LEMMA ReplacedInside ==
  ASSUME NEW t, NEW u, NEW m, NEW n, NEW k, Replaced(t, u, m, n, k),
         NEW j \in 1..(Len(t) - (m + n)), Inside(t, (m + n) + j) # 0
  PROVE  Inside(u, (m + k) + j) # 0 /\ u[Inside(u, (m + k) + j)] = t[Inside(t, (m + n) + j)]
  <1> DEFINE b == Len(t) - (m + n)
             p == (m + n) + j
             r0 == (m + k) + j
             q == Inside(t, p)
  <1>1. /\ m \in Nat \ {0} /\ n \in Nat /\ k \in Nat /\ b \in Nat /\ j \in Nat /\ j >= 1 /\ j <= b
        /\ p \in Nat \ {0} /\ r0 \in Nat \ {0}
        /\ p - 1 = (m + n) + (j - 1) /\ r0 - 1 = (m + k) + (j - 1) /\ j - 1 \in 0..b
    BY DEF Replaced
  <1>2. /\ \A r \in 0..m : Depth(u, r) = Depth(t, r)
        /\ \A r \in m..(m + k) : Depth(u, r) >= Depth(t, m)
        /\ \A i \in 0..b : Depth(u, (m + k) + i) = Depth(t, (m + n) + i)
    BY ReplacedDepths
  <1>3. IsInside(t, q, p)
    BY <1>1, InsideIs
  <1>a. /\ \A i \in 1..m : u[i] = t[i]
        /\ \A i \in 1..b : u[(m + k) + i] = t[(m + n) + i]
        /\ \A r \in m..(m + n) : Depth(t, r) >= Depth(t, m)
        /\ Depth(t, m + n) = Depth(t, m)
    BY DEF Replaced
  <1> HIDE DEF b, q
  <1>4. /\ q \in Nat /\ q >= 1 /\ q <= p - 1 /\ t[q] \in Opening /\ Depth(t, q) = Depth(t, p - 1)
        /\ \A r \in q..(p - 1) : Depth(t, r) >= Depth(t, q)
    BY <1>1, <1>3 DEF IsInside, OpenTill
  <1> HIDE DEF p, r0
  <1>5. Depth(u, r0 - 1) = Depth(t, p - 1)
    BY <1>1, <1>2
  <1>6. CASE q <= m
    <2>1. q \in 0..m /\ q \in 1..m /\ q \in 1..(r0 - 1)
      BY <1>1, <1>4, <1>6
    <2>2. Depth(u, q) = Depth(t, q) /\ u[q] = t[q]
      BY <1>2, <1>a, <2>1
    <2>3. ASSUME NEW r \in q..(r0 - 1) PROVE Depth(u, r) >= Depth(u, q)
      <3>1. r \in Nat /\ q <= r /\ r <= (m + k) + (j - 1)
        BY <1>1, <2>1
      <3>2. CASE r <= m
        <4>1. r \in 0..m /\ r \in q..(p - 1)
          BY <1>1, <3>1, <3>2
        <4> QED BY <1>2, <1>4, <2>2, <4>1
      <3>3. CASE r >= m /\ r <= m + k
        <4>1. r \in m..(m + k) /\ m \in q..(p - 1)
          BY <1>1, <3>1, <3>3, <1>6, <1>4
        <4>2. Depth(u, r) >= Depth(t, m) /\ Depth(t, m) >= Depth(t, q)
          BY <1>2, <1>4, <4>1
        <4>3. Depth(u, r) \in Int /\ Depth(t, m) \in Int /\ Depth(t, q) \in Int
          BY <1>1, <1>4, <3>1, Depths
        <4> QED BY <2>2, <4>2, <4>3
      <3>4. CASE r > m + k
        <4> DEFINE i == r - (m + k)
        <4>1. i \in 0..b /\ r = (m + k) + i /\ (m + n) + i \in q..(p - 1)
          BY <1>1, <1>4, <1>6, <3>1, <3>4
        <4> HIDE DEF i
        <4>2. Depth(u, r) = Depth(t, (m + n) + i) /\ Depth(t, (m + n) + i) >= Depth(t, q)
          BY <1>2, <1>4, <4>1
        <4> QED BY <2>2, <4>2
      <3> QED BY <1>1, <3>1, <3>2, <3>3, <3>4
    <2>4. IsInside(u, q, r0)
      BY <1>4, <1>5, <2>1, <2>2, <2>3 DEF IsInside, OpenTill
    <2>5. Inside(u, r0) = q
      BY <1>1, <2>4, InsideIs
    <2> QED BY <1>4, <2>2, <2>5 DEF p, r0, q
  <1>7. CASE q > m /\ q <= m + n
    <2>1. m + n \in q..(p - 1) /\ q - 1 \in m..(m + n) /\ q \in Nat \ {0} /\ q - 1 \in Nat
      BY <1>1, <1>4, <1>7
    <2>2. Depth(t, m + n) >= Depth(t, q) /\ Depth(t, q - 1) >= Depth(t, m)
      BY <1>4, <1>a, <2>1
    <2>3. Depth(t, q) = Depth(t, q - 1) + 1 /\ Depth(t, q) \in Int /\ Depth(t, q - 1) \in Int
          /\ Depth(t, m) \in Int
      BY <1>1, <1>4, <2>1, Depths
    <2>4. FALSE
      BY <1>a, <2>2, <2>3
    <2> QED BY <2>4
  <1>8. CASE q > m + n
    <2> DEFINE h == q - (m + n)
    <2>1. /\ h \in Nat /\ h >= 1 /\ h <= j - 1 /\ q = (m + n) + h
      BY <1>1, <1>4, <1>8
    <2> HIDE DEF h
    <2>2. h \in 0..b /\ h \in 1..b /\ (m + k) + h \in 1..(r0 - 1)
      BY <1>1, <2>1
    <2>3. Depth(u, (m + k) + h) = Depth(t, q) /\ u[(m + k) + h] = t[q]
      BY <1>2, <1>a, <2>1, <2>2
    <2>4. ASSUME NEW r \in ((m + k) + h)..(r0 - 1) PROVE Depth(u, r) >= Depth(t, q)
      <3> DEFINE i == r - (m + k)
      <3>1. i \in 0..b /\ r = (m + k) + i /\ (m + n) + i \in q..(p - 1)
        BY <1>1, <1>4, <2>1
      <3> HIDE DEF i
      <3>2. Depth(u, r) = Depth(t, (m + n) + i) /\ Depth(t, (m + n) + i) >= Depth(t, q)
        BY <1>2, <1>4, <3>1
      <3> QED BY <3>2
    <2>5. IsInside(u, (m + k) + h, r0)
      BY <1>4, <1>5, <2>2, <2>3, <2>4 DEF IsInside, OpenTill
    <2>6. Inside(u, r0) = (m + k) + h
      BY <1>1, <2>5, InsideIs
    <2>7. (m + k) + h # 0
      BY <1>1, <2>1
    <2> QED BY <2>3, <2>6, <2>7 DEF p, r0, q
  <1>9. q <= m \/ (q > m /\ q <= m + n) \/ q > m + n
    BY <1>1, <1>4
  <1> QED BY <1>6, <1>7, <1>8, <1>9

---------------------------------------------------------------------------
(* The replaced part fits                                                  *)

LEMMA KeysAre ==
  ASSUME NEW t, NEW p
  PROVE  /\ IsKey(t, p) <=> /\ t[p] \in Names /\ InObject(t, p)
                            /\ OpensObject(t[p - 1]) \/ IsComma(t[p - 1])
         /\ t[p] \notin Names => ~IsKey(t, p)
         /\ t[p - 1] \in Closing \cup Names \cup Primitives \cup {"[", ":"} => ~IsKey(t, p)
  <1>1. IsKey(t, p) <=> /\ t[p] \in Names /\ InObject(t, p)
                        /\ OpensObject(t[p - 1]) \/ IsComma(t[p - 1])
    BY DEF IsKey, OpensObject, IsComma
  <1>2. ASSUME NEW c \in Closing \cup Names \cup Primitives \cup {"[", ":"}
        PROVE  ~OpensObject(c) /\ ~IsComma(c)
    <2>1. "{" \in Opening /\ "[" # "{" /\ ":" # "{" /\ "[" # "," /\ ":" # ","
      BY DEF Opening
    <2> QED BY <1>2, <2>1, Brackets DEF OpensObject, IsComma
  <1> QED BY <1>1, <1>2

\* The first lexeme of a text is no key.
LEMMA NoKeyInFront ==
  ASSUME NEW t PROVE Inside(t, 1) = 0 /\ ~IsKey(t, 1)
  <1>1. ASSUME Inside(t, 1) # 0 PROVE FALSE
    <2>1. IsInside(t, Inside(t, 1), 1)
      BY <1>1, InsideIs
    <2>2. Inside(t, 1) \in 1..(1 - 1)
      BY <2>1 DEF IsInside
    <2> QED BY <2>2
  <1> QED BY <1>1 DEF IsKey, InObject

\* Position p may hold what it holds.
Good(t, p) == t[p] \in Lexemes \ {Odd} /\ Inside(t, p) # 0 /\ MayFollow(t, p)

\* The lexeme behind the replaced part decides on those behind it, as the replaced
\* part decides on what is in front.
LEMMA Surgery ==
  ASSUME NEW t, NEW u, NEW m, NEW n, NEW k, Replaced(t, u, m, n, k), IsJson(t),
         \A p \in (m + 1)..(m + k) : Good(u, p),
         MayFollow(u, (m + k) + 1),
         IsKey(t, (m + n) + 1) <=> IsKey(u, (m + k) + 1)
  PROVE  IsJson(u)
  <1> DEFINE b == Len(t) - (m + n)
  <1>1. /\ m \in Nat \ {0} /\ m \in Nat /\ n \in Nat /\ k \in Nat /\ Len(t) \in Nat
        /\ b \in Nat /\ b >= 1 /\ Len(t) = (m + n) + b /\ Len(u) = (m + k) + b /\ Len(u) \in Nat
        /\ \A p \in 1..m : u[p] = t[p]
        /\ \A j \in 1..b : u[(m + k) + j] = t[(m + n) + j]
    BY DEF Replaced
  <1>2. /\ \A r \in 0..m : Depth(u, r) = Depth(t, r)
        /\ \A r \in m..(m + k) : Depth(u, r) >= Depth(t, m)
        /\ \A j \in 0..b : Depth(u, (m + k) + j) = Depth(t, (m + n) + j)
    BY ReplacedDepths
  <1>3. \A j \in 1..b : Inside(t, (m + n) + j) # 0 =>
          Inside(u, (m + k) + j) # 0 /\ u[Inside(u, (m + k) + j)] = t[Inside(t, (m + n) + j)]
    BY ReplacedInside
  <1> HIDE DEF b
  <1>4. \A p \in 1..(m + 1) : Inside(t, p) # 0 => Inside(u, p) = Inside(t, p)
    BY <1>1, SameInFront
  <1>5. /\ \A p \in 1..Len(t) : t[p] \in Lexemes \ {Odd} /\ Depth(t, p) >= 0
        /\ Depth(t, Len(t)) = 0 /\ t[1] \in Opening \cup Names
        /\ \A p \in 2..Len(t) : Inside(t, p) # 0 /\ MayFollow(t, p) /\ IsInside(t, Inside(t, p), p)
    BY <1>1, JsonFacts
  <1>6. ASSUME NEW p \in 2..m PROVE Inside(u, p) # 0 /\ MayFollow(u, p)
    <2>1. /\ p \in 2..Len(t) /\ p \in 1..(m + 1) /\ p \in 1..m /\ p - 1 \in 1..m
          /\ p - 1 \in 1..(m + 1)
          /\ p - 1 = 1 \/ p - 1 \in 2..Len(t)
      BY <1>1
    <2>2. u[p] = t[p] /\ u[p - 1] = t[p - 1]
      BY <1>1, <2>1
    <2>3. Inside(t, p) # 0 /\ MayFollow(t, p) /\ Inside(u, p) = Inside(t, p)
      BY <1>4, <1>5, <2>1
    <2>4. Inside(t, p) \in 1..m
      <3>1. Inside(t, p) \in 1..(p - 1)
        BY <1>5, <2>1 DEF IsInside
      <3> QED BY <1>1, <3>1
    <2>5. u[Inside(u, p)] = t[Inside(t, p)]
      BY <1>1, <2>3, <2>4
    <2>6. IsKey(t, p - 1) <=> IsKey(u, p - 1)
      <3>1. CASE p - 1 = 1
        BY <3>1, NoKeyInFront
      <3>2. CASE p - 1 \in 2..Len(t)
        <4>1. /\ Inside(t, p - 1) # 0 /\ Inside(u, p - 1) = Inside(t, p - 1)
              /\ Inside(t, p - 1) \in 1..((p - 1) - 1)
          BY <1>4, <1>5, <2>1, <3>2 DEF IsInside
        <4>2. Inside(t, p - 1) \in 1..m /\ (p - 1) - 1 \in 1..m
          BY <1>1, <3>2, <4>1
        <4>3. u[Inside(u, p - 1)] = t[Inside(t, p - 1)] /\ u[(p - 1) - 1] = t[(p - 1) - 1]
          BY <1>1, <4>1, <4>2
        <4> QED BY <2>2, <4>1, <4>3, SameKeys
      <3> QED BY <2>1, <3>1, <3>2
    <2> QED BY <2>2, <2>3, <2>5, <2>6, SameFollows
  <1>7. ASSUME NEW j \in 1..b
        PROVE  /\ Inside(t, (m + n) + j) # 0 /\ MayFollow(t, (m + n) + j)
               /\ Inside(u, (m + k) + j) # 0
               /\ u[Inside(u, (m + k) + j)] = t[Inside(t, (m + n) + j)]
               /\ u[(m + k) + j] = t[(m + n) + j]
    <2>1. (m + n) + j \in 2..Len(t)
      BY <1>1
    <2> QED BY <1>1, <1>3, <1>5, <2>1
  <1>8. ASSUME NEW j \in 2..b PROVE MayFollow(u, (m + k) + j)
    <2> DEFINE i == j - 1
    <2>1. /\ j \in 1..b /\ i \in 1..b /\ ((m + n) + j) - 1 = (m + n) + i
          /\ ((m + k) + j) - 1 = (m + k) + i
      BY <1>1
    <2>2. i = 1 \/ (i - 1 \in 1..b /\ ((m + n) + i) - 1 = (m + n) + (i - 1)
                    /\ ((m + k) + i) - 1 = (m + k) + (i - 1))
      BY <1>1, <2>1
    <2> HIDE DEF i
    <2>3. IsKey(t, (m + n) + i) <=> IsKey(u, (m + k) + i)
      <3>1. CASE i = 1
        BY <3>1
      <3>2. CASE i # 1
        <4>1. u[((m + k) + i) - 1] = t[((m + n) + i) - 1]
          BY <1>7, <2>2, <3>2
        <4> QED BY <1>7, <2>1, <4>1, SameKeys
      <3> QED BY <3>1, <3>2
    <2>4. u[((m + k) + j) - 1] = t[((m + n) + j) - 1]
      BY <1>7, <2>1
    <2>5. IsKey(t, ((m + n) + j) - 1) <=> IsKey(u, ((m + k) + j) - 1)
      BY <2>1, <2>3
    <2> QED BY <1>7, <2>1, <2>4, <2>5, SameFollows
  <1>9. ASSUME NEW p \in 1..Len(u)
        PROVE  /\ u[p] \in Lexemes \ {Odd} /\ Depth(u, p) >= 0
               /\ p \in 2..Len(u) => Inside(u, p) # 0 /\ MayFollow(u, p)
    <2>1. CASE p <= m
      <3>1. p \in 1..m /\ p \in 0..m /\ p \in 1..Len(t)
        BY <1>1, <2>1
      <3>2. u[p] \in Lexemes \ {Odd} /\ Depth(u, p) >= 0
        BY <1>1, <1>2, <1>5, <3>1
      <3> QED BY <1>1, <1>6, <2>1, <3>2
    <2>2. CASE p > m /\ p <= m + k
      <3>1. p \in (m + 1)..(m + k) /\ p \in m..(m + k) /\ m \in 1..Len(t) /\ p \in Nat
        BY <1>1, <2>2
      <3>2. Depth(u, p) >= Depth(t, m) /\ Depth(t, m) >= 0
        BY <1>2, <1>5, <3>1
      <3>3. Depth(u, p) \in Int /\ Depth(t, m) \in Int
        BY <1>1, <3>1, Depths
      <3>4. Depth(u, p) >= 0
        BY <3>2, <3>3
      <3>5. Good(u, p)
        BY <3>1
      <3> QED BY <3>4, <3>5 DEF Good
    <2>3. CASE p > m + k
      <3> DEFINE j == p - (m + k)
      <3>1. j \in 1..b /\ j \in 0..b /\ p = (m + k) + j /\ (m + n) + j \in 1..Len(t)
        BY <1>1, <2>3
      <3>2. j = 1 \/ j \in 2..b
        BY <3>1
      <3> HIDE DEF j
      <3>3. u[p] \in Lexemes \ {Odd} /\ Depth(u, p) >= 0
        BY <1>1, <1>2, <1>5, <3>1
      <3>4. Inside(u, p) # 0
        BY <1>7, <3>1
      <3>5. MayFollow(u, p)
        BY <1>8, <3>1, <3>2
      <3> QED BY <3>3, <3>4, <3>5
    <2> QED BY <1>1, <2>1, <2>2, <2>3
  <1>10. Depth(u, Len(u)) = 0
    <2>1. b \in 0..b
      BY <1>1
    <2> QED BY <1>1, <1>2, <1>5, <2>1
  <1>11. u[1] \in Opening \cup Names
    <2>1. 1 \in 1..m
      BY <1>1
    <2> QED BY <1>1, <1>5, <2>1
  <1>12. u # <<>>
    <2>1. Len(u) # 0
      BY <1>1
    <2> QED BY <2>1
  <1>13. \A p \in 2..Len(u) : p \in 1..Len(u)
    BY <1>1
  <1> QED BY <1>9, <1>10, <1>11, <1>12, <1>13 DEF IsJson

\* The l lexemes behind position y stand where a value may stand.
FitsIn(u, y, l) ==
  /\ \A p \in (y + 1)..(y + l) : Good(u, p)
  /\ \A r \in y..(y + l) : Depth(u, r) >= Depth(u, y)
  /\ Depth(u, y + l) = Depth(u, y)
  /\ Inside(u, (y + l) + 1) = Inside(u, y + 1)
  /\ ValueBefore(u, (y + l) + 1)
  /\ ~IsKey(u, (y + l) + 1)

\* What a value starts with and ends with.
LEMMA ValueEnds ==
  ASSUME NEW f, IsValue(f), Len(f) \in Nat
  PROVE  /\ Len(f) >= 1 /\ StartsValue(f[1])
         /\ \A i \in 1..Len(f) : f[i] \in Lexemes \ {Odd} /\ Depth(f, i) >= 0
         /\ Depth(f, Len(f)) = 0
         /\ f[Len(f)] \in Closing \cup Names \cup Primitives
         /\ Len(f) # 1 => f[Len(f)] \in Closing
         /\ \A i \in 2..Len(f) : /\ Inside(f, i) # 0 /\ MayFollow(f, i)
                                 /\ IsInside(f, Inside(f, i), i)
  <1>1. CASE IsJson(f)
    <2>1. /\ \A p \in 1..Len(f) : f[p] \in Lexemes \ {Odd} /\ Depth(f, p) >= 0
          /\ Depth(f, Len(f)) = 0
          /\ f[1] \in Opening \cup Names
          /\ \A p \in 2..Len(f) : /\ Inside(f, p) # 0 /\ MayFollow(f, p)
                                  /\ IsInside(f, Inside(f, p), p)
      BY <1>1, JsonFacts
    <2>2. Len(f) >= 1
      <3>1. ASSUME Len(f) = 0 PROVE FALSE
        <4>1. f # <<>>
          BY <1>1 DEF IsJson
        <4> QED BY <3>1, <4>1
      <3> QED BY <3>1
    <2>3. StartsValue(f[1])
      BY <2>1 DEF StartsValue
    <2>4. CASE Len(f) = 1
      <3>1. f[1] \notin Opening
        <4>1. ASSUME f[1] \in Opening PROVE FALSE
          <5>1. Depth(f, 1) = Depth(f, 1 - 1) + 1 /\ 1 - 1 = 0
            BY <4>1, Depths
          <5>2. Depth(f, 1) = 1
            BY <5>1, Depths
          <5> QED BY <2>1, <2>4, <5>2
        <4> QED BY <4>1
      <3> QED BY <2>1, <2>2, <2>3, <2>4, <3>1
    <2>5. CASE Len(f) # 1
      <3>1. Len(f) \in 2..Len(f)
        BY <2>2, <2>5
      <3>2. f[Len(f)] \in Closing
        <4>1. ASSUME f[Len(f)] \notin Closing PROVE FALSE
          <5>1. Len(f) < Len(f)
            BY <1>1, <3>1, <4>1, NotLast
          <5> QED BY <5>1
        <4> QED BY <4>1
      <3> QED BY <2>1, <2>2, <2>3, <3>2
    <2> QED BY <2>4, <2>5
  <1>2. CASE ~IsJson(f)
    <2>1. Len(f) = 1 /\ f[1] \in Primitives
      BY <1>2 DEF IsValue
    <2>2. f[1] \notin Opening \cup Closing
      BY <2>1, Brackets
    <2>3. Depth(f, 1) = 0
      <3>1. Depth(f, 1) = Depth(f, 1 - 1) /\ 1 - 1 = 0
        BY <2>2, Depths
      <3> QED BY <3>1, Depths
    <2>4. f[1] \in Lexemes \ {Odd}
      BY <2>1, LexemesAssumption, LexemeTypes
    <2>5. StartsValue(f[1])
      BY <2>1 DEF StartsValue
    <2>6. 1..Len(f) = {1} /\ 2..Len(f) = {}
      BY <2>1
    <2> QED BY <2>1, <2>3, <2>4, <2>5, <2>6
  <1> QED BY <1>1, <1>2

LEMMA ValueFits ==
  ASSUME NEW u, NEW y \in Nat \ {0}, NEW f, IsValue(f), Len(f) \in Nat,
         Common(f, 0, u, y, Len(f)), Inside(u, y + 1) # 0, u[y] \in {"[", ":"},
         InObject(u, y + 1) => u[y] = ":"
  PROVE  Len(f) >= 1 /\ FitsIn(u, y, Len(f))
  <1> DEFINE l == Len(f)
  <1>1. /\ l \in Nat /\ l >= 1 /\ StartsValue(f[1])
        /\ \A i \in 1..l : f[i] \in Lexemes \ {Odd} /\ Depth(f, i) >= 0
        /\ Depth(f, l) = 0
        /\ f[l] \in Closing \cup Names \cup Primitives
        /\ l # 1 => f[l] \in Closing
        /\ \A i \in 2..l : Inside(f, i) # 0 /\ MayFollow(f, i) /\ IsInside(f, Inside(f, i), i)
    BY ValueEnds
  <1>2. Common(f, 0, u, y, l)
    OBVIOUS
  <1> HIDE DEF l
  <1>3. \A i \in 1..l : u[y + i] = f[i]
    <2>1. \A i \in 1..l : 0 + i = i
      BY <1>1
    <2> QED BY <1>2, <2>1 DEF Common
  <1>4. \A i \in 0..l : Depth(u, y + i) = Depth(u, y) + Depth(f, i) /\ Depth(f, i) >= 0
    <2>1. Parallel(f, 0, u, y, l)
      BY <1>1, <1>2, DepthsAlong
    <2>2. ASSUME NEW i \in 0..l
          PROVE  Depth(u, y + i) = Depth(u, y) + Depth(f, i) /\ Depth(f, i) >= 0
      <3>1. Depth(f, 0 + i) - Depth(f, 0) = Depth(u, y + i) - Depth(u, y)
        BY <2>1 DEF Parallel
      <3>2. 0 + i = i /\ i \in Nat /\ y + i \in Nat /\ (i = 0 \/ i \in 1..l)
        BY <1>1
      <3>3. Depth(f, 0) = 0 /\ Depth(f, i) \in Int /\ Depth(u, y + i) \in Int /\ Depth(u, y) \in Int
        BY <1>1, <3>2, Depths
      <3>4. Depth(f, i) >= 0
        BY <1>1, <3>2, <3>3
      <3>5. Depth(f, i) - 0 = Depth(u, y + i) - Depth(u, y)
        BY <3>1, <3>2, <3>3
      <3> QED BY <3>3, <3>4, <3>5
    <2> QED BY <2>2
  <1>5. \A i \in 2..l : /\ Inside(u, y + i) # 0 /\ u[Inside(u, y + i)] = f[Inside(f, i)]
    <2>1. ASSUME NEW i \in 2..l
          PROVE  Inside(u, y + i) # 0 /\ u[Inside(u, y + i)] = f[Inside(f, i)]
      <3> DEFINE h == Inside(f, i)
      <3>1. IsInside(f, h, i)
        BY <1>1
      <3> HIDE DEF h
      <3>2. h \in 1..(i - 1)
        BY <3>1 DEF IsInside
      <3>3. 0 + h = h /\ 0 + i = i /\ i \in 1..(l + 1) /\ h \in 1..l /\ y + h # 0
            /\ y + i \in Nat \ {0}
        BY <1>1, <3>2
      <3>4. IsInside(f, 0 + h, 0 + i)
        BY <3>1, <3>3
      <3>5. IsInside(u, y + h, y + i)
        <4>1. 0 \in Nat /\ y \in Nat /\ l \in Nat
          BY <1>1
        <4> QED BY <1>2, <3>2, <3>3, <3>4, <4>1, InsideAlong
      <3>6. Inside(u, y + i) = y + h
        BY <3>3, <3>5, InsideIs
      <3> QED BY <1>3, <3>3, <3>6 DEF h
    <2> QED BY <2>1
  <1>6. ~IsKey(u, y + 1)
    <2>1. (y + 1) - 1 = y
      OBVIOUS
    <2> QED BY <2>1, KeysAre
  <1>7. Good(u, y + 1)
    <2>1. 1 \in 1..l /\ (y + 1) - 1 = y
      BY <1>1
    <2>2. u[y + 1] \in Lexemes \ {Odd} /\ StartsValue(u[y + 1])
      BY <1>1, <1>3, <2>1
    <2>3. MayFollow(u, y + 1)
      BY <2>1, <2>2, MayFollowing
    <2> QED BY <2>2, <2>3 DEF Good
  <1>8. ASSUME NEW i \in 2..l PROVE Good(u, y + i)
    <2>1. /\ i \in 1..l /\ i - 1 \in 1..l /\ (y + i) - 1 = y + (i - 1)
          /\ i - 1 = 1 \/ i - 1 \in 2..l
      BY <1>1
    <2>2. u[y + i] = f[i] /\ u[(y + i) - 1] = f[i - 1]
      BY <1>3, <2>1
    <2>3. IsKey(f, i - 1) <=> IsKey(u, (y + i) - 1)
      <3>1. CASE i - 1 = 1
        BY <1>6, <2>1, <3>1, NoKeyInFront
      <3>2. CASE i - 1 \in 2..l
        <4> DEFINE j == i - 1
        <4>1. j \in 2..l /\ j \in 1..l /\ j - 1 \in 1..l /\ (y + j) - 1 = y + (j - 1)
          BY <1>1, <3>2
        <4> HIDE DEF j
        <4>2. u[y + j] = f[j] /\ u[(y + j) - 1] = f[j - 1]
          BY <1>3, <4>1
        <4>3. IsKey(f, j) <=> IsKey(u, y + j)
          BY <1>1, <1>5, <4>1, <4>2, SameKeys
        <4> QED BY <2>1, <4>3 DEF j
      <3> QED BY <2>1, <3>1, <3>2
    <2>4. MayFollow(u, y + i)
      BY <1>1, <1>5, <2>2, <2>3, SameFollows
    <2> QED BY <1>1, <1>5, <2>1, <2>2, <2>4 DEF Good
  <1>9. ASSUME NEW p \in (y + 1)..(y + l) PROVE Good(u, p)
    <2> DEFINE i == p - y
    <2>1. i = 1 \/ i \in 2..l
      BY <1>1
    <2>2. p = y + i
      OBVIOUS
    <2> HIDE DEF i
    <2> QED BY <1>7, <1>8, <2>1, <2>2
  <1>10. Depth(u, y) \in Int /\ y + l \in Nat
    BY <1>1, Depths
  <1>11. ASSUME NEW r \in y..(y + l) PROVE Depth(u, r) >= Depth(u, y)
    <2> DEFINE i == r - y
    <2>1. r = y + i /\ i \in 0..l /\ i \in Nat
      BY <1>1
    <2> HIDE DEF i
    <2>2. Depth(f, i) \in Int
      BY <2>1, Depths
    <2> QED BY <1>4, <1>10, <2>1, <2>2
  <1>12. Depth(u, y + l) = Depth(u, y)
    <2>1. l \in 0..l
      BY <1>1
    <2>2. Depth(u, y + l) = Depth(u, y) + 0
      BY <1>1, <1>4, <2>1
    <2> QED BY <1>10, <2>2
  <1>13. Inside(u, (y + l) + 1) = Inside(u, y + 1)
    <2>1. IsInside(u, Inside(u, y + 1), y + 1)
      BY InsideIs
    <2>2. y <= y + l /\ y \in Nat
      BY <1>1
    <2> QED BY <1>10, <1>11, <1>12, <2>1, <2>2, InsideOver
  <1>14. /\ u[y + l] \in Closing \cup Names \cup Primitives
         /\ ((y + l) + 1) - 1 = y + l
    <2>1. l \in 1..l /\ ((y + l) + 1) - 1 = y + l
      BY <1>1
    <2> QED BY <1>1, <1>3, <2>1
  <1>15. ~IsKey(u, y + l)
    <2>1. CASE l = 1
      BY <1>6, <2>1
    <2>2. CASE l # 1
      <3>1. u[y + l] \in Closing
        <4>1. l \in 1..l
          BY <1>1
        <4> QED BY <1>1, <1>3, <2>2, <4>1
      <3>2. u[y + l] \notin Names
        BY <3>1, Brackets
      <3> QED BY <3>2, KeysAre
    <2> QED BY <2>1, <2>2
  <1>16. ValueBefore(u, (y + l) + 1)
    BY <1>14, <1>15 DEF ValueBefore
  <1>17. ~IsKey(u, (y + l) + 1)
    BY <1>14, KeysAre
  <1>18. FitsIn(u, y, l)
    BY <1>9, <1>11, <1>12, <1>13, <1>16, <1>17 DEF FitsIn
  <1> QED BY <1>1, <1>18 DEF l

---------------------------------------------------------------------------
(* A part more                                                             *)

LEMMA ObjectAround ==
  ASSUME NEW t, NEW p, Inside(t, p) # 0
  PROVE  InObject(t, p) <=> OpensObject(t[Inside(t, p)])
  BY DEF InObject, OpensObject

LEMMA Commas ==
  ASSUME NEW c, IsComma(c)
  PROVE  c \in Lexemes \ {Odd} /\ c \notin Opening \cup Closing /\ c \notin Names
  <1>1. c = ","
    BY DEF IsComma
  <1>2. "," \in Lexemes /\ "," # Odd
    BY LexemeTypes, LexemesAssumption
  <1> QED BY <1>1, <1>2, Brackets

LEMMA OtherFollows ==
  ASSUME NEW t, NEW p, MayFollow(t, p), t[p] \notin Closing, t[p] # ":", ~IsComma(t[p])
  PROVE  /\ InObject(t, p) /\ t[p - 1] # ":" =>
              t[p] \in Names /\ (OpensObject(t[p - 1]) \/ IsComma(t[p - 1]))
         /\ ~(InObject(t, p) /\ t[p - 1] # ":") =>
              StartsValue(t[p]) /\ (t[p - 1] \in {"[", ":"} \/ IsComma(t[p - 1]))
  <1>1. t[p] \notin Closing \cup {":", ","}
    BY DEF IsComma
  <1>2. IF InObject(t, p) /\ t[p - 1] # ":" THEN t[p] \in Names /\ t[p - 1] \in {"{", ","}
        ELSE StartsValue(t[p]) /\ t[p - 1] \in {"[", ",", ":"}
    BY <1>1, Follows
  <1> QED BY <1>2 DEF OpensObject, IsComma

\* What may stand behind a bracket that opens.
LEMMA BehindOpening ==
  ASSUME NEW t, IsJson(t), Len(t) \in Nat, NEW m \in 1..Len(t), t[m] \in Opening
  PROVE  /\ m < Len(t) /\ Inside(t, m + 1) = m
         /\ t[m + 1] \in Closing => TypeOfBracket[t[m + 1]] = TypeOfBracket[t[m]]
         /\ t[m + 1] \notin Closing => StartsValue(t[m + 1])
         /\ t[m + 1] \notin Closing /\ OpensObject(t[m]) => t[m + 1] \in Names
         /\ IsKey(t, m + 1) <=> t[m + 1] \notin Closing /\ OpensObject(t[m])
  <1>1. m < Len(t)
    <2>1. CASE m = 1
      <3>1. Depth(t, 1) = Depth(t, 1 - 1) + 1 /\ 1 - 1 = 0
        BY <2>1, Depths
      <3>2. Depth(t, 1) = 1
        BY <3>1, Depths
      <3>3. Depth(t, Len(t)) = 0
        BY JsonFacts
      <3> QED BY <2>1, <3>2, <3>3
    <2>2. CASE m # 1
      <3>1. m \in 2..Len(t)
        BY <2>2
      <3>2. t[m] \notin Closing
        BY Brackets
      <3> QED BY <3>1, <3>2, NotLast
    <2> QED BY <2>1, <2>2
  <1>2. m \in 1..(Len(t) - 1) /\ m + 1 \in 2..Len(t) /\ (m + 1) - 1 = m /\ m # 0
    BY <1>1
  <1>3. Inside(t, m + 1) = m
    BY <1>2, InsideInJson
  <1>4. t[m + 1] \in Lexemes \ {Odd} /\ MayFollow(t, m + 1)
    <2>1. m + 1 \in 1..Len(t)
      BY <1>2
    <2> QED BY <1>2, <2>1, JsonFacts
  <1>5. t[m] \notin Closing \cup Names \cup Primitives \cup {":"}
    BY Brackets
  <1>6. t[m + 1] # ":" /\ ~IsComma(t[m + 1])
    <2>1. ~ValueBefore(t, m + 1)
      BY <1>2, <1>5 DEF ValueBefore
    <2>2. t[m + 1] = ":" => t[(m + 1) - 1] \in Names
      BY <1>4, Follows
    <2>3. IsComma(t[m + 1]) => ValueBefore(t, m + 1)
      BY <1>4, Follows DEF IsComma
    <2> QED BY <1>2, <1>5, <2>1, <2>2, <2>3
  <1>7. InObject(t, m + 1) <=> OpensObject(t[m])
    BY <1>2, <1>3, ObjectAround
  <1>8. ASSUME t[m + 1] \notin Closing
        PROVE  StartsValue(t[m + 1]) /\ (OpensObject(t[m]) => t[m + 1] \in Names)
    <2>1. /\ InObject(t, m + 1) /\ t[m] # ":" => t[m + 1] \in Names
          /\ ~(InObject(t, m + 1) /\ t[m] # ":") => StartsValue(t[m + 1])
      BY <1>2, <1>4, <1>6, <1>8, OtherFollows
    <2>2. t[m] # ":"
      BY <1>5
    <2> QED BY <1>7, <2>1, <2>2 DEF StartsValue
  <1>9. ASSUME t[m + 1] \in Closing
        PROVE  TypeOfBracket[t[m + 1]] = TypeOfBracket[t[m]] /\ ~IsKey(t, m + 1)
    <2>1. TypeOfBracket[t[m + 1]] = TypeOfBracket[t[Inside(t, m + 1)]]
      BY <1>4, <1>9, Follows
    <2>2. t[m + 1] \notin Names
      BY <1>9, Brackets
    <2> QED BY <1>3, <2>1, <2>2, KeysAre
  <1>10. t[m + 1] \notin Closing => (IsKey(t, m + 1) <=> OpensObject(t[m]))
    <2>1. IsKey(t, m + 1) => InObject(t, m + 1)
      BY KeysAre
    <2>2. t[m + 1] \in Names /\ InObject(t, m + 1) /\ OpensObject(t[m]) => IsKey(t, m + 1)
      BY <1>2, KeysAre
    <2> QED BY <1>7, <1>8, <2>1, <2>2
  <1> QED BY <1>1, <1>3, <1>8, <1>9, <1>10

LEMMA InsertionIsJson ==
  ASSUME NEW t, IsJson(t), Len(t) \in Nat, NEW m \in 1..Len(t), t[m] \in Opening,
         NEW u, NEW y \in Nat, y >= m, NEW l \in Nat, NEW k \in Nat,
         \A p \in 1..m : u[p] = t[p],
         Len(u) = Len(t) + k, Common(t, m, u, m + k, Len(t) - m),
         \A p \in (m + 1)..y : Good(u, p), Inside(u, y + 1) = m,
         \A r \in m..y : Depth(u, r) >= Depth(u, m), Depth(u, y) = Depth(u, m),
         FitsIn(u, y, l),
         t[m + 1] \in Closing => m + k = y + l,
         t[m + 1] \notin Closing => m + k = (y + l) + 1 /\ IsComma(u[m + k])
  PROVE  IsJson(u)
  <1> DEFINE c == (y + l) + 1
  <1>1. /\ m < Len(t) /\ Inside(t, m + 1) = m
        /\ t[m + 1] \in Closing => TypeOfBracket[t[m + 1]] = TypeOfBracket[t[m]]
        /\ t[m + 1] \notin Closing => StartsValue(t[m + 1])
        /\ t[m + 1] \notin Closing /\ OpensObject(t[m]) => t[m + 1] \in Names
        /\ IsKey(t, m + 1) <=> t[m + 1] \notin Closing /\ OpensObject(t[m])
    BY BehindOpening
  <1>2. /\ m \in Nat \ {0} /\ m \in Nat /\ m # 0 /\ c \in Nat \ {0} /\ c - 1 = y + l
        /\ m + 0 = m /\ u[m] = t[m] /\ y + l \in Nat /\ m <= y
    <2>1. m \in Nat \ {0} /\ m \in Nat /\ m # 0 /\ m + 0 = m
      OBVIOUS
    <2>2. c \in Nat \ {0} /\ c - 1 = y + l /\ y + l \in Nat
      OBVIOUS
    <2>3. u[m] = t[m]
      <3>1. m \in 1..m
        BY <2>1
      <3> HIDE DEF c
      <3> QED BY <3>1
    <2> HIDE DEF c
    <2> QED BY <2>1, <2>2, <2>3
  <1>3. u[(m + k) + 1] = t[m + 1]
    <2>1. 1 \in 1..(Len(t) - m)
      BY <1>1
    <2> QED BY <2>1 DEF Common
  <1>4. /\ \A p \in (y + 1)..(y + l) : Good(u, p)
        /\ \A r \in y..(y + l) : Depth(u, r) >= Depth(u, m)
        /\ Depth(u, y + l) = Depth(u, m)
        /\ Inside(u, c) = m
        /\ ValueBefore(u, c)
        /\ ~IsKey(u, c)
    BY DEF FitsIn
  <1> HIDE DEF c
  <1>5. \A p \in (m + 1)..(y + l) : Good(u, p)
    <2>1. \A p \in (m + 1)..(y + l) : p \in (m + 1)..y \/ p \in (y + 1)..(y + l)
      BY <1>2
    <2> QED BY <1>4, <2>1
  <1>6. \A r \in m..(y + l) : Depth(u, r) >= Depth(u, m)
    <2>1. \A r \in m..(y + l) : r \in m..y \/ r \in y..(y + l)
      BY <1>2
    <2> QED BY <1>4, <2>1
  <1>7. \A r \in m..(m + 0) : Depth(t, r) >= Depth(t, m)
    <2>1. \A r \in m..(m + 0) : r = m
      BY <1>2
    <2>2. Depth(t, m) \in Int
      BY <1>2, Depths
    <2>3. Depth(t, m) >= Depth(t, m)
      BY <2>2
    <2> QED BY <2>1, <2>3
  <1>8. \A j \in 1..(Len(t) - (m + 0)) : u[(m + k) + j] = t[(m + 0) + j]
    BY <1>2 DEF Common
  <1>9. m + 0 < Len(t) /\ Len(u) = (Len(t) - 0) + k /\ 0 \in Nat
    BY <1>1
  <1>10. ASSUME \A p \in (m + 1)..(m + k) : Good(u, p),
                \A r \in m..(m + k) : Depth(u, r) >= Depth(u, m),
                Depth(u, m + k) = Depth(u, m),
                MayFollow(u, (m + k) + 1), IsKey(t, m + 1) <=> IsKey(u, (m + k) + 1)
         PROVE  IsJson(u)
    <2>1. Depth(t, m + 0) = Depth(t, m)
      BY <1>2
    <2>2. Replaced(t, u, m, 0, k)
      BY <1>2, <1>7, <1>8, <1>9, <1>10, <2>1 DEF Replaced
    <2>3. IsKey(t, (m + 0) + 1) <=> IsKey(u, (m + k) + 1)
      BY <1>2, <1>10
    <2> QED BY <1>10, <2>2, <2>3, Surgery
  <1>11. CASE t[m + 1] \in Closing
    <2>1. m + k = y + l /\ (m + k) + 1 = c
      BY <1>11 DEF c
    <2>2. u[c] = t[m + 1]
      BY <1>3, <2>1
    <2>3. MayFollow(u, c)
      BY <1>1, <1>2, <1>4, <1>11, <2>2, MayFollowing
    <2> QED BY <1>1, <1>4, <1>5, <1>6, <1>10, <1>11, <2>1, <2>3
  <1>12. CASE t[m + 1] \notin Closing
    <2>1. m + k = c /\ IsComma(u[c]) /\ (c + 1) - 1 = c /\ c + 1 \in Nat \ {0}
      BY <1>2, <1>12 DEF c
    <2>2. u[c] \in Lexemes \ {Odd} /\ u[c] \notin Opening \cup Closing
      BY <2>1, Commas
    <2>3. Good(u, c)
      <3>1. MayFollow(u, c)
        BY <1>2, <1>4, <2>1, MayFollowing
      <3> QED BY <1>2, <1>4, <2>2, <3>1 DEF Good
    <2>4. Depth(u, c) = Depth(u, m)
      <3>1. Depth(u, c) = Depth(u, c - 1)
        BY <1>2, <2>2, Depths
      <3> QED BY <1>2, <1>4, <3>1
    <2>5. Inside(u, c + 1) = m
      <3>1. IsInside(u, m, c)
        BY <1>2, <1>4, InsideIs
      <3> QED BY <1>2, <2>2, <3>1, InsideNext
    <2>6. \A p \in (m + 1)..c : Good(u, p)
      <3>1. \A p \in (m + 1)..c : p = c \/ p \in (m + 1)..(y + l)
        BY <1>2
      <3> QED BY <1>5, <2>3, <3>1
    <2>7. \A r \in m..c : Depth(u, r) >= Depth(u, m)
      <3>1. \A r \in m..c : r = c \/ r \in m..(y + l)
        BY <1>2
      <3>2. Depth(u, m) \in Int
        BY <1>2, Depths
      <3>3. Depth(u, c) >= Depth(u, m)
        BY <2>4, <3>2
      <3> QED BY <1>6, <3>1, <3>3
    <2>8. u[c + 1] = t[m + 1]
      BY <1>3, <2>1
    <2>9. InObject(u, c + 1) <=> OpensObject(t[m])
      BY <1>2, <2>5, ObjectAround
    <2>10. MayFollow(u, c + 1) /\ (IsKey(t, m + 1) <=> IsKey(u, c + 1))
      <3>1. CASE OpensObject(t[m])
        <4>1. t[m + 1] \in Names /\ IsKey(t, m + 1)
          BY <1>1, <1>12, <3>1
        <4>2. MayFollow(u, c + 1) /\ IsKey(u, c + 1)
          BY <1>2, <2>1, <2>5, <2>8, <2>9, <3>1, <4>1, MayFollowing
        <4> QED BY <4>1, <4>2
      <3>2. CASE ~OpensObject(t[m])
        <4>1. StartsValue(t[m + 1]) /\ ~IsKey(t, m + 1)
          BY <1>1, <1>12, <3>2
        <4>2. ~IsKey(u, c + 1)
          BY <2>9, <3>2, KeysAre
        <4>3. MayFollow(u, c + 1)
          BY <1>2, <2>1, <2>5, <2>8, <2>9, <3>2, <4>1, MayFollowing
        <4> QED BY <4>1, <4>2, <4>3
      <3> QED BY <3>1, <3>2
    <2> QED BY <1>10, <2>1, <2>4, <2>6, <2>7, <2>10
  <1> QED BY <1>11, <1>12

---------------------------------------------------------------------------
(* The tokens an edit is made at                                           *)

AllRead == IsJson(text) /\ IsReadUpTo(text, Len(text) + 1, tokens)

LEMMA BracketTypes ==
  ASSUME NEW c \in Opening
  PROVE  /\ TypeOfBracket[c] = "object" <=> OpensObject(c)
         /\ TypeOfBracket[c] = "array" <=> c = "["
         /\ TypeOfBracket[c] = "array" <=> ~OpensObject(c)
  BY DEF OpensObject, TypeOfBracket, Opening, Closing

LEMMA TokenAt ==
  ASSUME ParserInv, AllRead, NEW i \in DOMAIN tokens
  PROVE  LET s == tokens[i].start IN
         /\ s \in Starts(text) /\ s \in 1..Len(text) /\ NumberOf(text, s) = i
         /\ tokens[i].parent = ParentOf(text, s)
         /\ IsTokenOf(text, tokens[i], s, Len(text) + 1)
         /\ text[s] \in Opening \cup Names \cup Primitives
         /\ text[s] \in Opening => tokens[i].type = TypeOfBracket[text[s]]
         /\ text[s] \in Names => tokens[i].type = "string"
         /\ text[s] \in Primitives => tokens[i].type = "primitive"
  <1>1. Len(text) \in Nat /\ DOMAIN tokens = 1..Len(tokens) /\ Len(text) + 1 \in 1..(Len(text) + 1)
    BY ParserFacts
  <1>2. IsReadUpTo(text, Len(text) + 1, tokens)
    BY DEF AllRead
  <1>3. PICK q \in Starts(text) : q < Len(text) + 1 /\ NumberOf(text, q) = i
    BY <1>1, <1>2, NumbersOfTokens
  <1>4. IsTokenOf(text, tokens[i], q, Len(text) + 1)
    BY <1>2, <1>3 DEF IsReadUpTo
  <1>5. tokens[i].start = q /\ tokens[i].parent = ParentOf(text, q)
    BY <1>4 DEF IsTokenOf
  <1>6. q \in 1..Len(text) /\ text[q] \in Opening \cup Names \cup Primitives
    BY <1>1, StartsAre DEF StartsValue
  <1>7. /\ text[q] \in Opening => tokens[i].type = TypeOfBracket[text[q]]
        /\ text[q] \in Names => tokens[i].type = "string"
        /\ text[q] \in Primitives => tokens[i].type = "primitive"
    BY <1>4 DEF IsTokenOf
  <1> QED BY <1>3, <1>4, <1>5, <1>6, <1>7

\* A container without parts is closed at once.
LEMMA ContainerAt ==
  ASSUME ParserInv, AllRead, NEW o \in DOMAIN tokens, tokens[o].type \in {"object", "array"}
  PROVE  LET s == tokens[o].start IN
         /\ s \in 1..Len(text) /\ text[s] \in Opening
         /\ tokens[o].type = "object" <=> OpensObject(text[s])
         /\ tokens[o].type = "array" <=> text[s] = "["
         /\ tokens[o].size = 0 <=> text[s + 1] \in Closing
  <1> DEFINE s == tokens[o].start
             W == {q \in Starts(text) : ParentOf(text, q) = o}
  <1>1. /\ s \in Starts(text) /\ s \in 1..Len(text) /\ NumberOf(text, s) = o
        /\ text[s] \in Opening \cup Names \cup Primitives
        /\ text[s] \in Opening => tokens[o].type = TypeOfBracket[text[s]]
        /\ text[s] \in Names => tokens[o].type = "string"
        /\ text[s] \in Primitives => tokens[o].type = "primitive"
    BY TokenAt
  <1>2. text[s] \in Opening /\ tokens[o].type = TypeOfBracket[text[s]]
    BY <1>1
  <1>3. Len(text) \in Nat /\ IsJson(text) /\ tokens \in Seq(Token) /\ IsReadUpTo(text, Len(text) + 1, tokens)
    BY ParserFacts DEF AllRead
  <1>4. tokens[o].size = Cardinality(W) /\ IsFiniteSet(W)
    <2>1. tokens[o].size = Cardinality(PartsOf(tokens, o))
      BY DEF ParserInv, ParserOK, Linked
    <2>2. Cardinality(PartsOf(tokens, o)) = Cardinality(W)
      BY <1>3, PartsAreCounted
    <2>3. IsFiniteSet(Starts(text)) /\ W \subseteq Starts(text)
      BY <1>3, Numbers
    <2>4. IsFiniteSet(W)
      BY <2>3, FS_Subset
    <2> QED BY <2>1, <2>2, <2>4
  <1>5. \A q \in W : q \in Starts(text) /\ ParentOf(text, q) = o
    OBVIOUS
  <1>6. \A q \in Starts(text) : ParentOf(text, q) = o => q \in W
    OBVIOUS
  <1>7. tokens[o].size = 0 <=> W = {}
    BY <1>4, FS_EmptySet
  <1> HIDE DEF s, W
  <1>8. s < Len(text) /\ Inside(text, s + 1) = s /\ s \in Nat /\ s + 1 \in 1..Len(text) /\ s + 1 \in Nat \ {0}
        /\ (s + 1) - 1 = s
    <2>1. s < Len(text) /\ Inside(text, s + 1) = s
      BY <1>1, <1>2, <1>3, BehindOpening
    <2> QED BY <1>1, <1>3, <2>1
  <1>9. ASSUME text[s + 1] \notin Closing PROVE W # {}
    <2>1. StartsValue(text[s + 1])
      BY <1>1, <1>2, <1>3, <1>9, BehindOpening
    <2>2. s + 1 \in Starts(text)
      BY <1>8, <2>1 DEF Starts
    <2>3. text[s] # ":"
      BY <1>2, Brackets
    <2>4. ParentOf(text, s + 1) = o
      BY <1>1, <1>8, <2>3 DEF ParentOf
    <2> QED BY <1>6, <2>2, <2>4
  <1>10. ASSUME text[s + 1] \in Closing, NEW q \in W PROVE FALSE
    <2>1. q \in Starts(text) /\ ParentOf(text, q) = o
      BY <1>5, <1>10
    <2>2. q # 1
      <3>1. o # 0
        BY ParserFacts
      <3> QED BY <1>3, <2>1, <3>1, ParentsAre
    <2>3. PICK v \in Starts(text) :
            /\ v < q /\ ParentOf(text, q) = NumberOf(text, v)
            /\ text[q - 1] = ":" => v = q - 2 /\ text[v] \in Names
            /\ text[q - 1] # ":" => /\ v = Inside(text, q) /\ text[v] \in Opening
                                    /\ OpensObject(text[v]) => text[q] \in Names
      BY <1>3, <2>1, <2>2, ParentsAre
    <2>4. v = s
      BY <1>1, <1>3, <2>1, <2>3, NumbersGrow
    <2>5. s = Inside(text, q)
      BY <1>2, <2>3, <2>4, Brackets
    <2>6. q \in Nat \ {0} /\ q \in Nat /\ s # 0
      BY <1>1, <1>3, <2>1, StartsAre
    <2>7. IsInside(text, s, q)
      BY <2>5, <2>6, InsideIs
    <2>8. q # s + 1
      <3>1. text[s + 1] \notin Opening \cup Names \cup Primitives
        BY <1>10, Brackets
      <3>2. s + 1 \notin Starts(text)
        BY <1>3, <1>8, <3>1, StartsAre
      <3> QED BY <2>1, <3>2
    <2>9. s + 1 \in s..(q - 1)
      BY <1>8, <2>3, <2>4, <2>6, <2>8
    <2>10. Depth(text, s + 1) >= Depth(text, s)
      BY <2>7, <2>9 DEF IsInside, OpenTill
    <2>11. Depth(text, s + 1) = Depth(text, s) - 1 /\ Depth(text, s) \in Int
      BY <1>8, <1>10, Depths
    <2> QED BY <2>10, <2>11
  <1>11. tokens[o].size = 0 <=> text[s + 1] \in Closing
    BY <1>7, <1>9, <1>10
  <1>12. /\ tokens[o].type = "object" <=> OpensObject(text[s])
         /\ tokens[o].type = "array" <=> text[s] = "["
    BY <1>2, BracketTypes
  <1> QED BY <1>1, <1>2, <1>11, <1>12 DEF s

---------------------------------------------------------------------------
(* The text with a part more                                               *)

LEMMA Joined ==
  ASSUME NEW a \in Seq(Lexemes), NEW b \in Seq(Lexemes)
  PROVE  /\ a \o b \in Seq(Lexemes) /\ Len(a \o b) = Len(a) + Len(b)
         /\ \A i \in 1..Len(a) : (a \o b)[i] = a[i]
         /\ \A j \in 1..Len(b) : (a \o b)[Len(a) + j] = b[j]
  <1>1. a \o b \in Seq(Lexemes)
    OBVIOUS
  <1>2. Len(a \o b) = Len(a) + Len(b)
    OBVIOUS
  <1>3. \A i \in 1..Len(a) : (a \o b)[i] = a[i]
    OBVIOUS
  <1>4. ASSUME NEW j \in 1..Len(b) PROVE (a \o b)[Len(a) + j] = b[j]
    OBVIOUS
  <1> QED BY <1>1, <1>2, <1>3, <1>4

LEMMA InsertedIs ==
  ASSUME ParserInv, NEW o \in DOMAIN tokens, NEW new \in Seq(Lexemes)
  PROVE  LET s == tokens[o].start
             u == Inserted(o, new)
             k == Len(new) + (IF tokens[o].size = 0 THEN 0 ELSE 1)
         IN /\ Len(u) = Len(text) + k
            /\ \A p \in 1..s : u[p] = text[p]
            /\ Common(new, 0, u, s, Len(new))
            /\ Common(text, s, u, s + k, Len(text) - s)
            /\ tokens[o].size # 0 => IsComma(u[s + k])
  <1> DEFINE s == tokens[o].start
             u == Inserted(o, new)
             d == IF tokens[o].size = 0 THEN 0 ELSE 1
             k == Len(new) + d
             c == ","
             comma == IF tokens[o].size = 0 THEN <<>> ELSE <<c>>
             front == SubSeq(text, 1, s)
             back == SubSeq(text, s + 1, Len(text))
  <1>1. IsComma(c) /\ c \in Lexemes
    BY LexemeTypes DEF IsComma
  <1>2. u = front \o new \o comma \o back
    BY DEF Inserted
  <1>3. text \in Seq(Lexemes) /\ s \in 1..Len(text) /\ Len(text) \in Nat /\ Len(new) \in Nat
    BY ParserFacts
  <1> HIDE DEF s, u, c
  <1>4. /\ front \in Seq(Lexemes) /\ Len(front) = s /\ \A p \in 1..s : front[p] = text[p]
        /\ back \in Seq(Lexemes) /\ Len(back) = Len(text) - s
        /\ \A j \in 1..(Len(text) - s) : back[j] = text[s + j]
    BY <1>3
  <1>5. comma \in Seq(Lexemes) /\ Len(comma) = d /\ (tokens[o].size # 0 => comma[1] = c)
    <2>1. <<c>> \in Seq(Lexemes) /\ Len(<<c>>) = 1 /\ <<c>>[1] = c
      BY <1>1, OneLexeme
    <2>2. <<>> \in Seq(Lexemes) /\ Len(<<>>) = 0
      OBVIOUS
    <2>3. CASE tokens[o].size = 0
      <3>1. comma = <<>> /\ d = 0
        BY <2>3
      <3> QED BY <2>2, <2>3, <3>1
    <2>4. CASE tokens[o].size # 0
      <3>1. comma = <<c>> /\ d = 1
        BY <2>4
      <3> QED BY <2>1, <2>4, <3>1
    <2> QED BY <2>3, <2>4
  <1>6. d \in Nat /\ (tokens[o].size # 0 => d = 1)
    OBVIOUS
  <1> HIDE DEF front, back, comma, d
  <1>7. PICK g : g = new \o comma
    OBVIOUS
  <1>8. /\ g \in Seq(Lexemes) /\ Len(g) = k /\ \A i \in 1..Len(new) : g[i] = new[i]
        /\ tokens[o].size # 0 => g[k] = c
    <2>1. /\ g \in Seq(Lexemes) /\ Len(g) = Len(new) + d
          /\ \A i \in 1..Len(new) : g[i] = new[i]
          /\ \A j \in 1..d : g[Len(new) + j] = comma[j]
      BY <1>5, <1>7, Joined
    <2>2. tokens[o].size # 0 => d = 1 /\ 1 \in 1..d
      BY <1>6
    <2> QED BY <1>5, <2>1, <2>2
  <1>9. PICK h : h = front \o g
    OBVIOUS
  <1>10. k \in Nat
    BY <1>3, <1>6
  <1>11. u = h \o back
    <2>1. (front \o new) \o comma = front \o (new \o comma)
      <3>1. /\ front \in Seq(Lexemes) /\ new \in Seq(Lexemes) /\ comma \in Seq(Lexemes)
        BY <1>4, <1>5
      <3> HIDE DEF front, comma
      <3> QED BY <3>1
    <2> QED BY <1>2, <1>7, <1>9, <2>1
  <1> HIDE DEF k
  <1>12. /\ h \in Seq(Lexemes) /\ Len(h) = s + k
         /\ \A p \in 1..s : h[p] = text[p]
         /\ \A i \in 1..k : h[s + i] = g[i]
    <2>1. /\ h \in Seq(Lexemes) /\ Len(h) = Len(front) + Len(g)
          /\ \A i \in 1..Len(front) : h[i] = front[i]
          /\ \A j \in 1..Len(g) : h[Len(front) + j] = g[j]
      <3>1. front \in Seq(Lexemes) /\ g \in Seq(Lexemes) /\ h = front \o g
        BY <1>4, <1>8, <1>9
      <3>2. /\ front \o g \in Seq(Lexemes) /\ Len(front \o g) = Len(front) + Len(g)
            /\ \A i \in 1..Len(front) : (front \o g)[i] = front[i]
            /\ \A j \in 1..Len(g) : (front \o g)[Len(front) + j] = g[j]
        BY <3>1, Joined
      <3> QED BY <3>1, <3>2, Zenon
    <2>2. Len(front) = s /\ Len(g) = k
      BY <1>4, <1>8
    <2> QED BY <1>4, <2>1, <2>2
  <1>13. /\ Len(u) = (s + k) + (Len(text) - s)
         /\ \A p \in 1..(s + k) : u[p] = h[p]
         /\ \A j \in 1..(Len(text) - s) : u[(s + k) + j] = back[j]
    <2>1. /\ Len(u) = Len(h) + Len(back)
          /\ \A i \in 1..Len(h) : u[i] = h[i]
          /\ \A j \in 1..Len(back) : u[Len(h) + j] = back[j]
      <3>1. h \in Seq(Lexemes) /\ back \in Seq(Lexemes) /\ u = h \o back
        BY <1>4, <1>11, <1>12
      <3>2. /\ h \o back \in Seq(Lexemes) /\ Len(h \o back) = Len(h) + Len(back)
            /\ \A i \in 1..Len(h) : (h \o back)[i] = h[i]
            /\ \A j \in 1..Len(back) : (h \o back)[Len(h) + j] = back[j]
        BY <3>1, Joined
      <3> QED BY <3>1, <3>2, Zenon
    <2>2. Len(h) = s + k /\ Len(back) = Len(text) - s
      BY <1>4, <1>12
    <2> QED BY <2>1, <2>2
  <1>14. /\ Len(u) = Len(text) + k
         /\ \A p \in 1..s : u[p] = text[p]
         /\ \A i \in 1..k : u[s + i] = g[i]
         /\ \A j \in 1..(Len(text) - s) : u[(s + k) + j] = text[s + j]
    <2>1. /\ \A p \in 1..s : p \in 1..(s + k)
          /\ \A i \in 1..k : s + i \in 1..(s + k)
      BY <1>3, <1>10
    <2>2. (s + k) + (Len(text) - s) = Len(text) + k
      BY <1>3, <1>10
    <2> QED BY <1>4, <1>12, <1>13, <2>1, <2>2
  <1>15. Common(new, 0, u, s, Len(new))
    <2>1. ASSUME NEW i \in 1..Len(new) PROVE new[0 + i] = u[s + i]
      <3>1. 0 + i = i /\ i \in 1..k
        BY <1>3, <1>6 DEF k
      <3> QED BY <1>8, <1>14, <3>1
    <2> QED BY <2>1 DEF Common
  <1>16. Common(text, s, u, s + k, Len(text) - s)
    BY <1>14 DEF Common
  <1>17. tokens[o].size # 0 => IsComma(u[s + k])
    <2>1. tokens[o].size # 0 => k \in 1..k
      <3>1. tokens[o].size # 0 => k = Len(new) + 1
        BY <1>6 DEF k
      <3> QED BY <1>3, <3>1
    <2> QED BY <1>1, <1>8, <1>14, <2>1
  <1> QED BY <1>14, <1>15, <1>16, <1>17 DEF s, u, k, d

LEMMA ElementInserted ==
  ASSUME ParserInv, AllRead, NEW o \in DOMAIN tokens, tokens[o].type = "array",
         NEW f \in Seq(Lexemes), IsValue(f)
  PROVE  IsJson(Inserted(o, <<>> \o f))
  <1> DEFINE s == tokens[o].start
             u == Inserted(o, <<>> \o f)
             l == Len(f)
             k == l + (IF tokens[o].size = 0 THEN 0 ELSE 1)
  <1>1. <<>> \o f = f
    OBVIOUS
  <1>2. /\ Len(u) = Len(text) + k
        /\ \A p \in 1..s : u[p] = text[p]
        /\ Common(f, 0, u, s, l)
        /\ Common(text, s, u, s + k, Len(text) - s)
        /\ tokens[o].size # 0 => IsComma(u[s + k])
    BY <1>1, InsertedIs
  <1>3. /\ s \in 1..Len(text) /\ text[s] \in Opening /\ text[s] = "["
        /\ tokens[o].size = 0 <=> text[s + 1] \in Closing
    BY ContainerAt
  <1>4. Len(text) \in Nat /\ IsJson(text) /\ l \in Nat
    BY ParserFacts DEF AllRead
  <1> HIDE DEF s, u
  <1>5. s \in Nat \ {0} /\ s \in Nat /\ s # 0 /\ (s + 1) - 1 = s /\ s >= s /\ s \in 1..s
    BY <1>3, <1>4
  <1>6. u[s] = text[s]
    BY <1>2, <1>5
  <1>7. Inside(u, s + 1) = s
    BY <1>3, <1>5, <1>6, InsideNext
  <1>8. ~InObject(u, s + 1)
    <2>1. ~OpensObject(u[s])
      BY <1>3, <1>6, BracketTypes
    <2> QED BY <1>5, <1>7, <2>1, ObjectAround
  <1>9. FitsIn(u, s, l)
    <2>1. Inside(u, s + 1) # 0 /\ u[s] \in {"[", ":"}
      BY <1>3, <1>5, <1>6, <1>7
    <2> QED BY <1>2, <1>4, <1>5, <1>8, <2>1, ValueFits
  <1>10. /\ k \in Nat
         /\ text[s + 1] \in Closing => s + k = s + l
         /\ text[s + 1] \notin Closing => s + k = (s + l) + 1 /\ IsComma(u[s + k])
    BY <1>2, <1>3, <1>4, <1>5
  <1> HIDE DEF k, l
  <1>11. \A p \in (s + 1)..s : Good(u, p)
    BY <1>5
  <1>12. \A r \in s..s : Depth(u, r) >= Depth(u, s)
    <2>1. Depth(u, s) \in Int
      BY <1>5, Depths
    <2>2. Depth(u, s) >= Depth(u, s)
      BY <2>1
    <2>3. \A r \in s..s : r = s
      BY <1>5
    <2> QED BY <2>2, <2>3
  <1>13. IsJson(u)
    BY <1>2, <1>3, <1>4, <1>5, <1>7, <1>9, <1>10, <1>11, <1>12, InsertionIsJson DEF l
  <1> QED BY <1>13 DEF u

LEMMA MemberInserted ==
  ASSUME ParserInv, AllRead, NEW o \in DOMAIN tokens, tokens[o].type = "object",
         NEW n \in Names, NEW f \in Seq(Lexemes), IsValue(f)
  PROVE  IsJson(Inserted(o, <<n, ":">> \o f))
  <1> DEFINE s == tokens[o].start
             pair == <<n, ":">>
             new == pair \o f
             u == Inserted(o, new)
             l == Len(f)
             k == Len(new) + (IF tokens[o].size = 0 THEN 0 ELSE 1)
             y == s + 2
  <1>1. /\ pair \in Seq(Lexemes) /\ Len(pair) = 2 /\ pair[1] = n /\ pair[2] = ":"
        /\ n \in Lexemes \ {Odd} /\ ":" \in Lexemes \ {Odd}
    <2>1. n \in Lexemes \ {Odd} /\ ":" \in Lexemes \ {Odd}
      BY LexemeTypes, LexemesAssumption, Zenon
    <2> QED BY <2>1
  <1>2. /\ new \in Seq(Lexemes) /\ Len(new) = 2 + l
        /\ new[1] = n /\ new[2] = ":" /\ \A j \in 1..l : new[2 + j] = f[j]
    <2> HIDE DEF pair
    <2>1. /\ pair \o f \in Seq(Lexemes) /\ Len(pair \o f) = Len(pair) + Len(f)
          /\ \A i \in 1..Len(pair) : (pair \o f)[i] = pair[i]
          /\ \A j \in 1..Len(f) : (pair \o f)[Len(pair) + j] = f[j]
      BY <1>1, Joined
    <2>2. 1 \in 1..Len(pair) /\ 2 \in 1..Len(pair)
      BY <1>1
    <2> QED BY <1>1, <2>1, <2>2
  <1> HIDE DEF pair, new
  <1>3. /\ Len(u) = Len(text) + k
        /\ \A p \in 1..s : u[p] = text[p]
        /\ Common(new, 0, u, s, Len(new))
        /\ Common(text, s, u, s + k, Len(text) - s)
        /\ tokens[o].size # 0 => IsComma(u[s + k])
    BY <1>2, InsertedIs
  <1>4. /\ s \in 1..Len(text) /\ text[s] \in Opening /\ OpensObject(text[s])
        /\ tokens[o].size = 0 <=> text[s + 1] \in Closing
    BY ContainerAt
  <1>5. Len(text) \in Nat /\ IsJson(text) /\ l \in Nat
    BY ParserFacts DEF AllRead
  <1> HIDE DEF s, u
  <1>6. /\ s \in Nat \ {0} /\ s \in Nat /\ s # 0 /\ s \in 1..s
        /\ (s + 1) - 1 = s /\ (s + 2) - 1 = s + 1 /\ s + 1 \in Nat \ {0} /\ s + 2 \in Nat \ {0}
        /\ (s + 1) + 1 = s + 2
    BY <1>4, <1>5
  <1>7. u[s] = text[s]
    BY <1>3, <1>6
  <1>8. u[s + 1] = n /\ u[s + 2] = ":" /\ \A j \in 1..l : u[y + j] = f[j]
    <2>1. ASSUME NEW i \in 1..Len(new) PROVE u[s + i] = new[i]
      <3>1. 0 + i = i
        BY <1>2, <1>5
      <3>2. new[0 + i] = u[s + i]
        BY <1>3 DEF Common
      <3> QED BY <3>1, <3>2
    <2>2. 1 \in 1..Len(new) /\ 2 \in 1..Len(new)
      BY <1>2, <1>5
    <2>3. ASSUME NEW j \in 1..l PROVE u[y + j] = f[j]
      <3>1. 2 + j \in 1..Len(new) /\ s + (2 + j) = y + j
        BY <1>2, <1>5, <1>6
      <3> QED BY <1>2, <2>1, <3>1
    <2> QED BY <1>2, <2>1, <2>2, <2>3
  <1>9. Inside(u, s + 1) = s
    BY <1>4, <1>6, <1>7, InsideNext
  <1>10. u[s + 1] \notin Opening \cup Closing /\ u[s + 2] \notin Opening \cup Closing
    BY <1>8, Brackets
  <1>11. Inside(u, s + 2) = s
    <2>1. IsInside(u, s, s + 1)
      BY <1>6, <1>9, InsideIs
    <2> QED BY <1>6, <1>10, <2>1, InsideNext
  <1>12. Inside(u, y + 1) = s
    <2>1. IsInside(u, s, s + 2)
      BY <1>6, <1>11, InsideIs
    <2> QED BY <1>6, <1>10, <2>1, InsideNext
  <1>13. InObject(u, s + 1)
    BY <1>4, <1>6, <1>7, <1>9, ObjectAround
  <1>14. MayFollow(u, s + 1) /\ IsKey(u, s + 1)
    <2>1. u[s + 1] \in Names /\ OpensObject(u[(s + 1) - 1]) /\ Inside(u, s + 1) # 0
      BY <1>4, <1>6, <1>7, <1>8, <1>9
    <2> QED BY <1>13, <2>1, MayFollowing
  <1>15. MayFollow(u, s + 2)
    <2>1. u[s + 2] = ":" /\ IsKey(u, (s + 2) - 1) /\ Inside(u, s + 2) # 0
      BY <1>6, <1>8, <1>11, <1>14
    <2> QED BY <2>1, MayFollowing
  <1>16. \A p \in (s + 1)..y : Good(u, p)
    <2>1. \A p \in (s + 1)..y : p = s + 1 \/ p = s + 2
      BY <1>6
    <2>2. Good(u, s + 1) /\ Good(u, s + 2)
      BY <1>1, <1>6, <1>8, <1>9, <1>11, <1>14, <1>15 DEF Good
    <2> QED BY <2>1, <2>2
  <1>17. Depth(u, s + 1) = Depth(u, s) /\ Depth(u, y) = Depth(u, s) /\ Depth(u, s) \in Int
    <2>1. Depth(u, s + 1) = Depth(u, (s + 1) - 1) /\ Depth(u, s + 2) = Depth(u, (s + 2) - 1)
      BY <1>6, <1>10, Depths
    <2>2. Depth(u, s) \in Int
      BY <1>6, Depths
    <2> QED BY <1>6, <2>1, <2>2
  <1>18. \A r \in s..y : Depth(u, r) >= Depth(u, s)
    <2>1. \A r \in s..y : r = s \/ r = s + 1 \/ r = y
      BY <1>6
    <2>2. Depth(u, s) >= Depth(u, s) /\ Depth(u, s + 1) >= Depth(u, s) /\ Depth(u, y) >= Depth(u, s)
      BY <1>17
    <2> QED BY <2>1, <2>2
  <1>19. y \in Nat \ {0} /\ y \in Nat /\ y >= s
    BY <1>6
  <1>20. u[y] = ":"
    BY <1>8
  <1>21. Common(f, 0, u, y, l)
    <2>1. \A j \in 1..l : 0 + j = j
      BY <1>5
    <2> QED BY <1>8, <2>1 DEF Common
  <1> HIDE DEF y
  <1>22. FitsIn(u, y, l)
    <2>1. Inside(u, y + 1) # 0 /\ u[y] \in {"[", ":"}
      BY <1>6, <1>12, <1>20
    <2> QED BY <1>5, <1>19, <1>20, <1>21, <2>1, ValueFits
  <1>23. /\ k \in Nat
         /\ text[s + 1] \in Closing => s + k = y + l
         /\ text[s + 1] \notin Closing => s + k = (y + l) + 1 /\ IsComma(u[s + k])
    <2> DEFINE d == IF tokens[o].size = 0 THEN 0 ELSE 1
    <2>1. d \in Nat /\ (tokens[o].size = 0 => d = 0) /\ (tokens[o].size # 0 => d = 1) /\ k = Len(new) + d
      OBVIOUS
    <2> HIDE DEF d, k
    <2>2. k = (2 + l) + d
      BY <1>2, <2>1
    <2>3. k \in Nat /\ s + k = (y + l) + d
      BY <1>5, <1>6, <2>1, <2>2 DEF y
    <2>4. ASSUME text[s + 1] \in Closing PROVE s + k = y + l
      <3>1. d = 0
        BY <1>4, <2>1, <2>4
      <3> QED BY <1>5, <1>19, <2>3, <3>1
    <2>5. ASSUME text[s + 1] \notin Closing
          PROVE  s + k = (y + l) + 1 /\ IsComma(u[s + k])
      <3>1. d = 1 /\ tokens[o].size # 0
        BY <1>4, <2>1, <2>5
      <3> QED BY <1>3, <2>3, <3>1
    <2> QED BY <2>3, <2>4, <2>5
  <1> HIDE DEF k, l
  <1>24. IsJson(u)
    BY <1>3, <1>4, <1>5, <1>12, <1>16, <1>17, <1>18, <1>19, <1>22, <1>23, InsertionIsJson
  <1> QED BY <1>24 DEF u, new, pair

---------------------------------------------------------------------------
(* The text with another value of a key                                    *)

\* Behind a key stand its colon and its value, whose token is the next one.
LEMMA KeyAt ==
  ASSUME ParserInv, AllRead, NEW a \in DOMAIN tokens, tokens[a].type = "string",
         tokens[a].parent \in DOMAIN tokens, tokens[tokens[a].parent].type = "object"
  PROVE  LET q == tokens[a].start IN
         /\ q \in 2..Len(text) /\ q + 2 \in 2..Len(text) /\ text[q + 1] = ":"
         /\ a + 1 \in DOMAIN tokens /\ tokens[a + 1].start = q + 2
  <1> DEFINE q == tokens[a].start
             o == tokens[a].parent
             s == tokens[o].start
  <1>1. /\ Len(text) \in Nat /\ IsJson(text) /\ DOMAIN tokens = 1..Len(tokens)
        /\ IsReadUpTo(text, Len(text) + 1, tokens) /\ a \in Nat /\ o # 0
    BY ParserFacts DEF AllRead
  <1>2. /\ q \in Starts(text) /\ q \in 1..Len(text) /\ NumberOf(text, q) = a
        /\ ParentOf(text, q) = o /\ text[q] \in Opening \cup Names \cup Primitives
        /\ text[q] \in Opening => tokens[a].type = TypeOfBracket[text[q]]
        /\ text[q] \in Primitives => tokens[a].type = "primitive"
    BY TokenAt
  <1>3. text[q] \in Names
    <2>1. text[q] \notin Primitives
      BY <1>2
    <2>2. text[q] \notin Opening
      BY <1>2, LexemeTypes
    <2> QED BY <1>2, <2>1, <2>2
  <1>4. /\ s \in Starts(text) /\ NumberOf(text, s) = o
        /\ text[s] \in Names => tokens[o].type = "string"
    BY TokenAt
  <1>5. OpensObject(text[s])
    BY ContainerAt
  <1> HIDE DEF s, q
  <1>6. q # 1
    BY <1>1, <1>2, ParentsAre
  <1>7. PICK v \in Starts(text) :
          /\ v < q /\ ParentOf(text, q) = NumberOf(text, v)
          /\ text[q - 1] = ":" => v = q - 2 /\ text[v] \in Names
          /\ text[q - 1] # ":" => /\ v = Inside(text, q) /\ text[v] \in Opening
                                  /\ OpensObject(text[v]) => text[q] \in Names
    BY <1>1, <1>2, <1>6, ParentsAre
  <1>8. v = s
    BY <1>1, <1>2, <1>4, <1>7, NumbersGrow
  <1>9. text[q - 1] # ":" /\ Inside(text, q) = s
    <2>1. text[s] \notin Names
      BY <1>4
    <2> QED BY <1>7, <1>8, <2>1
  <1>10. /\ q \in 2..Len(text) /\ q \in Nat \ {0}
    BY <1>1, <1>2, <1>6
  <1>11. IsInside(text, Inside(text, q), q) /\ Inside(text, q) # 0 /\ MayFollow(text, q)
    BY <1>1, <1>10, JsonFacts
  <1>12. InObject(text, q)
    BY <1>5, <1>9, <1>11, ObjectAround
  <1>13. text[q] \notin Opening \cup Closing /\ text[q] # ":" /\ ~IsComma(text[q]) /\ ~OpensObject(text[q])
    <2>1. /\ text[q] \notin Opening \cup Closing /\ text[q] # ":" /\ text[q] # ","
      BY <1>3, Brackets
    <2>2. "{" \in Opening
      BY DEF Opening
    <2> QED BY <2>1, <2>2 DEF IsComma, OpensObject
  <1>14. IsKey(text, q)
    <2>1. OpensObject(text[q - 1]) \/ IsComma(text[q - 1])
      BY <1>9, <1>11, <1>12, <1>13, OtherFollows
    <2> QED BY <1>3, <1>12, <2>1, KeysAre
  <1>15. q + 1 \in 2..Len(text) /\ (q + 1) - 1 = q
    <2>1. q < Len(text)
      BY <1>1, <1>10, <1>13, NotLast
    <2> QED BY <1>1, <1>10, <2>1
  <1>16. text[q + 1] = ":"
    <2>1. MayFollow(text, q + 1)
      BY <1>1, <1>15, JsonFacts
    <2>2. ~ValueBefore(text, q + 1)
      BY <1>14, <1>15 DEF ValueBefore
    <2>3. text[q + 1] \notin Closing
      BY <1>13, <1>15, <2>1, <2>2, Follows
    <2>4. ~IsComma(text[q + 1])
      BY <2>1, <2>2, Follows DEF IsComma
    <2>5. text[q] \notin {"[", ":"}
      <3>1. "[" \in Opening
        BY DEF Opening
      <3> QED BY <1>13, <3>1
    <2> QED BY <1>13, <1>15, <2>1, <2>3, <2>4, <2>5, OtherFollows
  <1>17. text[q + 1] \notin Closing \cup Opening \cup Names \cup Primitives
    BY <1>16, Brackets
  <1>18. q + 2 \in 2..Len(text) /\ (q + 2) - 1 = q + 1 /\ q + 2 \in Nat \ {0} /\ q + 1 \in Nat \ {0}
    <2>1. q + 1 < Len(text)
      BY <1>1, <1>15, <1>17, NotLast
    <2> QED BY <1>1, <1>10, <2>1
  <1>19. StartsValue(text[q + 2])
    <2>1. MayFollow(text, q + 2)
      BY <1>1, <1>18, JsonFacts
    <2>2. ~ValueBefore(text, q + 2)
      BY <1>17, <1>18 DEF ValueBefore
    <2>3. text[q + 2] \notin Closing
      BY <1>17, <1>18, <2>1, <2>2, Follows
    <2>4. ~IsComma(text[q + 2])
      BY <2>1, <2>2, Follows DEF IsComma
    <2>5. text[q + 2] # ":"
      BY <1>17, <1>18, <2>1, Follows
    <2> QED BY <1>16, <1>18, <2>1, <2>3, <2>4, <2>5, OtherFollows
  <1>20. q + 2 \in Starts(text) /\ q + 1 \notin Starts(text)
    <2>1. q + 2 \in 1..Len(text) /\ q + 1 \in 1..Len(text)
      BY <1>15, <1>18
    <2>2. q + 2 \in Starts(text)
      BY <1>19, <2>1 DEF Starts
    <2>3. q + 1 \notin Starts(text)
      BY <1>1, <1>17, <2>1, StartsAre
    <2> QED BY <2>2, <2>3
  <1>21. NumberOf(text, q + 2) = a + 1
    <2>1. NumberOf(text, q + 1) = NumberOf(text, (q + 1) - 1) + 0
      BY <1>1, <1>18, <1>20, Numbers
    <2>2. NumberOf(text, q + 2) = NumberOf(text, (q + 2) - 1) + 1
      BY <1>1, <1>18, <1>20, Numbers
    <2> QED BY <1>1, <1>2, <1>15, <1>18, <2>1, <2>2
  <1>22. a + 1 \in DOMAIN tokens
    <2>1. Len(text) + 1 \in 1..(Len(text) + 1) /\ q + 2 < Len(text) + 1
      BY <1>1, <1>18
    <2>2. NumberOf(text, q + 2) \in 1..Len(tokens)
      BY <1>1, <1>20, <2>1, NumbersOfTokens
    <2> QED BY <1>1, <1>21, <2>2
  <1>23. tokens[a + 1].start = q + 2
    <2> DEFINE v2 == tokens[a + 1].start
    <2>1. v2 \in Starts(text) /\ NumberOf(text, v2) = a + 1
      BY <1>22, TokenAt
    <2> HIDE DEF v2
    <2>2. v2 = q + 2
      BY <1>1, <1>20, <1>21, <2>1, NumbersGrow
    <2> QED BY <2>2 DEF v2
  <1> QED BY <1>10, <1>16, <1>18, <1>22, <1>23 DEF q

\* Behind a value that is inside of a bracket stands a comma or the end.
LEMMA ValueSpan ==
  ASSUME NEW t, IsJson(t), Len(t) \in Nat, NEW p \in 2..Len(t), NEW e \in Nat, e <= Len(t) + 1,
         \/ t[p] \in Opening /\ Shuts(t, p, e - 1)
         \/ t[p] \in Primitives /\ e = p + 1
  PROVE  /\ e - 1 \in p..(Len(t) - 1)
         /\ Depth(t, e - 1) = Depth(t, p - 1)
         /\ \A r \in (p - 1)..(e - 1) : Depth(t, r) >= Depth(t, p - 1)
         /\ t[e] \in Closing \/ IsComma(t[e])
  <1> DEFINE c == e - 1
  <1>1. /\ p \in Nat \ {0} /\ p \in Nat /\ p - 1 \in Nat /\ Depth(t, p) \in Int
        /\ Depth(t, p - 1) \in Int /\ p - 1 \in 1..Len(t) /\ c <= Len(t)
    <2>1. p \in Nat \ {0} /\ p \in Nat /\ p - 1 \in Nat /\ p - 1 \in 1..Len(t) /\ c <= Len(t)
      OBVIOUS
    <2> QED BY <2>1, Depths
  <1>2. /\ c \in p..Len(t) /\ c < Len(t) /\ Depth(t, c) = Depth(t, p - 1)
        /\ \A r \in (p - 1)..c : Depth(t, r) >= Depth(t, p - 1)
        /\ t[c] \in Closing \cup Primitives
    <2>1. CASE t[p] \in Opening /\ Shuts(t, p, c)
      <3> HIDE DEF c
      <3>1. /\ c > p /\ Depth(t, c) < Depth(t, p)
            /\ \A r \in p..(c - 1) : Depth(t, r) >= Depth(t, p)
        BY <2>1 DEF Shuts, OpenTill
      <3>2. c \in Int
        BY DEF c
      <3>3. /\ c \in p..Len(t) /\ c \in Nat \ {0} /\ c - 1 \in p..(c - 1) /\ c - 1 \in Nat
            /\ c \in Nat
        <4>1. c \in Nat
          BY <1>1, <3>1, <3>2
        <4> QED BY <1>1, <3>1, <4>1
      <3>4. Depth(t, c) \in Int /\ Depth(t, c - 1) \in Int
        BY <3>3, Depths
      <3>5. Depth(t, p) = Depth(t, p - 1) + 1
        BY <1>1, <2>1, Depths
      <3>6. Depth(t, c - 1) >= Depth(t, p)
        BY <3>1, <3>3
      <3>7. t[c] \in Closing /\ Depth(t, c) = Depth(t, c - 1) - 1
        <4>1. t[c] \notin Opening
          <5>1. t[c] \in Opening => Depth(t, c) = Depth(t, c - 1) + 1
            BY <3>3, Depths
          <5> QED BY <1>1, <3>1, <3>4, <3>6, <5>1
        <4>2. t[c] \in Closing
          <5>1. t[c] \notin Opening \cup Closing => Depth(t, c) = Depth(t, c - 1)
            BY <3>3, Depths
          <5> QED BY <1>1, <3>1, <3>4, <3>6, <4>1, <5>1
        <4> QED BY <3>3, <4>2, Depths
      <3>8. Depth(t, c) = Depth(t, p - 1)
        BY <1>1, <3>1, <3>4, <3>5, <3>6, <3>7
      <3>9. ASSUME NEW r \in (p - 1)..c PROVE Depth(t, r) >= Depth(t, p - 1)
        <4>1. r = p - 1 \/ r = c \/ r \in p..(c - 1)
          BY <1>1, <3>3
        <4>2. r \in p..(c - 1) => Depth(t, r) >= Depth(t, p) /\ Depth(t, r) \in Int
          <5>1. r \in p..(c - 1) => r \in Nat
            BY <1>1
          <5> QED BY <3>1, <5>1, Depths
        <4> QED BY <1>1, <3>5, <3>8, <4>1, <4>2
      <3>10. c # Len(t)
        <4> DEFINE w == Inside(t, p)
        <4>1. IsInside(t, w, p)
          BY JsonFacts
        <4> HIDE DEF w
        <4>2. w \in 1..(p - 1) /\ t[w] \in Opening /\ Depth(t, w) = Depth(t, p - 1)
          BY <4>1 DEF IsInside
        <4>3. w \in Nat \ {0} /\ w - 1 \in Nat /\ (w - 1 = 0 \/ w - 1 \in 1..Len(t))
          BY <1>1, <4>2
        <4>4. Depth(t, w) = Depth(t, w - 1) + 1 /\ Depth(t, w - 1) \in Int /\ Depth(t, 0) = 0
          BY <4>2, <4>3, Depths
        <4>5. Depth(t, w - 1) >= 0
          BY <4>3, <4>4, JsonFacts
        <4>6. Depth(t, Len(t)) = 0
          BY JsonFacts
        <4> QED BY <3>8, <4>2, <4>4, <4>5, <4>6
      <3> QED BY <3>3, <3>7, <3>8, <3>9, <3>10
    <2>2. CASE t[p] \in Primitives /\ e = p + 1
      <3>1. c = p
        BY <1>1, <2>2
      <3>2. t[p] \notin Opening \cup Closing
        BY <2>2, Brackets
      <3>3. p < Len(t)
        BY <3>2, NotLast
      <3>4. Depth(t, p) = Depth(t, p - 1)
        BY <1>1, <3>2, Depths
      <3>5. \A r \in (p - 1)..p : r = p - 1 \/ r = p
        BY <1>1
      <3>6. \A r \in (p - 1)..p : Depth(t, r) >= Depth(t, p - 1)
        BY <1>1, <3>4, <3>5
      <3>7. p \in p..Len(t)
        BY <1>1
      <3> HIDE DEF c
      <3> QED BY <2>2, <3>1, <3>3, <3>4, <3>6, <3>7
    <2> QED BY <2>1, <2>2
  <1>3. e \in 2..Len(t) /\ c \in p..(Len(t) - 1)
    BY <1>1, <1>2
  <1>4. t[e] \in Closing \/ IsComma(t[e])
    <2>1. MayFollow(t, e)
      BY <1>3, JsonFacts
    <2>2. t[e - 1] \notin Names \cup Opening \cup {":"}
      BY <1>2, Brackets
    <2>3. t[e - 1] # "[" /\ ~OpensObject(t[e - 1]) /\ ~IsComma(t[e - 1])
      <3>1. "[" \in Opening /\ "{" \in Opening
        BY DEF Opening
      <3>2. t[e - 1] # ","
        BY <1>2, Brackets
      <3> QED BY <2>2, <3>1, <3>2 DEF OpensObject, IsComma
    <2>4. t[e] # ":"
      BY <2>1, <2>2, Follows
    <2> QED BY <2>1, <2>2, <2>3, <2>4, OtherFollows
  <1> QED BY <1>2, <1>3, <1>4

LEMMA SplicedIs ==
  ASSUME ParserInv, NEW i \in DOMAIN tokens, tokens[i].type # "string", NEW f \in Seq(Lexemes),
         tokens[i].end - 1 \in tokens[i].start..Len(text)
  PROVE  LET m == tokens[i].start - 1
             n == tokens[i].end - tokens[i].start
             u == Spliced(i, f)
         IN /\ Len(u) = (Len(text) - n) + Len(f)
            /\ \A p \in 1..m : u[p] = text[p]
            /\ Common(f, 0, u, m, Len(f))
            /\ \A j \in 1..(Len(text) - (m + n)) : u[(m + Len(f)) + j] = text[(m + n) + j]
  <1> DEFINE s == tokens[i].start
             e == tokens[i].end
             m == s - 1
             n == e - s
             l == Len(f)
             b == Len(text) - (m + n)
             front == SubSeq(text, 1, m)
             back == SubSeq(text, e, Len(text))
             u == Spliced(i, f)
  <1>1. u = (front \o f) \o back
    BY DEF Spliced
  <1>2. text \in Seq(Lexemes) /\ s \in 1..Len(text) /\ Len(text) \in Nat /\ l \in Nat /\ e \in Nat
        /\ e - 1 \in s..Len(text)
    BY ParserFacts
  <1> HIDE DEF s, e, u
  <1>3. /\ m \in Nat /\ n \in Nat /\ b \in Nat /\ m + n = e - 1 /\ b = Len(text) - (e - 1)
        /\ m <= Len(text) /\ e \in 1..(Len(text) + 1)
    BY <1>2
  <1>4. front \in Seq(Lexemes) /\ Len(front) = m /\ \A p \in 1..m : front[p] = text[p]
    <2> HIDE DEF m
    <2> QED BY <1>2, <1>3
  <1>5. /\ back \in Seq(Lexemes) /\ Len(back) = b
        /\ \A j \in 1..b : back[j] = text[(m + n) + j]
    <2>1. back \in Seq(Lexemes) /\ Len(back) = (Len(text) - e) + 1
      BY <1>2, <1>3
    <2>2. \A j \in 1..((Len(text) - e) + 1) : back[j] = text[(e + j) - 1]
      BY <1>2, <1>3
    <2>3. (Len(text) - e) + 1 = b
      BY <1>2, <1>3
    <2>4. \A j \in 1..b : (e + j) - 1 = (m + n) + j
      BY <1>2, <1>3
    <2> QED BY <2>1, <2>2, <2>3, <2>4
  <1> HIDE DEF front, back, m, n, b
  <1>6. PICK g : g = front \o f
    OBVIOUS
  <1>7. /\ g \in Seq(Lexemes) /\ Len(g) = m + l
        /\ \A p \in 1..m : g[p] = text[p]
        /\ \A j \in 1..l : g[m + j] = f[j]
    <2>1. /\ g \in Seq(Lexemes) /\ Len(g) = Len(front) + Len(f)
          /\ \A p \in 1..Len(front) : g[p] = front[p]
          /\ \A j \in 1..Len(f) : g[Len(front) + j] = f[j]
      BY <1>4, <1>6, Joined
    <2> QED BY <1>4, <2>1
  <1>8. /\ Len(u) = (m + l) + b
        /\ \A p \in 1..(m + l) : u[p] = g[p]
        /\ \A j \in 1..b : u[(m + l) + j] = text[(m + n) + j]
    <2>1. /\ Len(u) = Len(g) + Len(back)
          /\ \A p \in 1..Len(g) : u[p] = g[p]
          /\ \A j \in 1..Len(back) : u[Len(g) + j] = back[j]
      <3>1. g \in Seq(Lexemes) /\ back \in Seq(Lexemes) /\ u = g \o back
        BY <1>1, <1>5, <1>6, <1>7
      <3>2. /\ Len(g \o back) = Len(g) + Len(back)
            /\ \A p \in 1..Len(g) : (g \o back)[p] = g[p]
            /\ \A j \in 1..Len(back) : (g \o back)[Len(g) + j] = back[j]
        BY <3>1, Joined
      <3> QED BY <3>1, <3>2, Zenon
    <2>2. Len(g) = m + l /\ Len(back) = b
      BY <1>5, <1>7
    <2> QED BY <1>5, <2>1, <2>2
  <1>9. Len(u) = (Len(text) - n) + l
    <2>1. (m + l) + b = (Len(text) - n) + l
      BY <1>2, <1>3 DEF b
    <2> QED BY <1>8, <2>1
  <1>10. \A p \in 1..m : u[p] = text[p]
    <2>1. \A p \in 1..m : p \in 1..(m + l)
      BY <1>2, <1>3
    <2> QED BY <1>7, <1>8, <2>1
  <1>11. Common(f, 0, u, m, l)
    <2>1. ASSUME NEW j \in 1..l PROVE f[0 + j] = u[m + j]
      <3>1. 0 + j = j /\ m + j \in 1..(m + l)
        BY <1>2, <1>3
      <3> QED BY <1>7, <1>8, <3>1
    <2> QED BY <2>1 DEF Common
  <1> QED BY <1>8, <1>9, <1>10, <1>11 DEF m, n, b, s, e, u

LEMMA ValueReplaced ==
  ASSUME ParserInv, AllRead, Closed(tokens), NEW a \in DOMAIN tokens, tokens[a].type = "string",
         tokens[a].parent \in DOMAIN tokens, tokens[tokens[a].parent].type = "object",
         tokens[a + 1].type # "string", NEW f \in Seq(Lexemes), IsValue(f)
  PROVE  IsJson(Spliced(a + 1, f))
  <1> DEFINE q == tokens[a].start
             i == a + 1
             p == tokens[i].start
             e == tokens[i].end
             m == p - 1
             n == e - p
             l == Len(f)
             u == Spliced(i, f)
             t == text
  <1>1. /\ q \in 2..Len(text) /\ q + 2 \in 2..Len(text) /\ text[q + 1] = ":"
        /\ i \in DOMAIN tokens /\ p = q + 2
    BY KeyAt
  <1>2. t \in Seq(Lexemes) /\ IsJson(t) /\ Len(t) \in Nat /\ l \in Nat
        /\ e \in 0..(Len(text) + 1) /\ e # 0
    BY <1>1, ParserFacts DEF AllRead, Closed
  <1>3. \/ t[p] \in Opening /\ Shuts(t, p, e - 1)
        \/ t[p] \in Primitives /\ e = p + 1
    <2>1. /\ t[p] \in Opening \cup Names \cup Primitives
          /\ t[p] \in Names => tokens[i].type = "string"
          /\ IsTokenOf(t, tokens[i], p, Len(t) + 1)
      BY <1>1, TokenAt
    <2>2. t[p] \in Opening \/ t[p] \in Primitives
      BY <2>1
    <2> QED BY <1>2, <2>1, <2>2 DEF IsTokenOf
  <1>4. tokens[i].type # "string" /\ i \in DOMAIN tokens
    BY <1>1
  <1> HIDE DEF i, p, e, q
  <1>5. p \in 2..Len(t) /\ e \in Nat /\ e <= Len(t) + 1 /\ p \in Nat
    BY <1>1, <1>2
  <1>6. /\ e - 1 \in p..(Len(t) - 1)
        /\ Depth(t, e - 1) = Depth(t, p - 1)
        /\ \A r \in (p - 1)..(e - 1) : Depth(t, r) >= Depth(t, p - 1)
        /\ t[e] \in Closing \/ IsComma(t[e])
    BY <1>2, <1>3, <1>5, ValueSpan
  <1>7. /\ m \in Nat \ {0} /\ m \in Nat /\ n \in Nat /\ m + n = e - 1 /\ m + n < Len(t)
        /\ m + 1 = p /\ (m + n) + 1 = e /\ e \in 2..Len(t) /\ e \in Nat \ {0} /\ p \in Nat \ {0}
        /\ m <= m + n /\ m + n \in Nat /\ m \in 1..m
    <2>1. e - 1 \in Nat /\ e - 1 >= p /\ e - 1 <= Len(t) - 1
      BY <1>2, <1>5, <1>6
    <2>2. m \in Nat /\ m >= 1 /\ m + n = e - 1 /\ m + 1 = p /\ n = e - p
      BY <1>5
    <2>3. n \in Nat
      BY <1>5, <2>1
    <2>4. Len(t) \in Nat /\ e \in Nat /\ p \in Nat /\ p >= 2
      BY <1>2, <1>5
    <2> HIDE DEF m, n, t
    <2>5. m + n < Len(t) /\ (m + n) + 1 = e /\ m <= m + n /\ m + n \in Nat
      BY <2>1, <2>2, <2>3, <2>4
    <2>6. e \in 2..Len(t) /\ e \in Nat \ {0} /\ p \in Nat \ {0}
      BY <2>1, <2>2, <2>4
    <2>7. m \in Nat \ {0} /\ m \in 1..m
      BY <2>2
    <2> QED BY <2>2, <2>3, <2>5, <2>6, <2>7
  <1>8. e - 1 \in p..Len(t)
    BY <1>2, <1>6
  <1>9. /\ Len(u) = (Len(t) - n) + l
        /\ \A r \in 1..m : u[r] = t[r]
        /\ Common(f, 0, u, m, l)
        /\ \A j \in 1..(Len(t) - (m + n)) : u[(m + l) + j] = t[(m + n) + j]
    BY <1>4, <1>8, SplicedIs DEF p, e
  <1>10. t[m] = ":"
    <2>1. m = q + 1
      BY <1>1
    <2> QED BY <1>1, <2>1
  <1> HIDE DEF u, m, n, t, l
  <1>11. /\ IsInside(t, Inside(t, p), p) /\ Inside(t, p) # 0
         /\ MayFollow(t, e) /\ Inside(t, p) \in 1..m
    <2>1. IsInside(t, Inside(t, p), p) /\ Inside(t, p) # 0 /\ MayFollow(t, e)
      BY <1>2, <1>5, <1>7, JsonFacts
    <2>2. p - 1 = m
      BY <1>7
    <2>3. Inside(t, p) \in 1..(p - 1)
      BY <2>1 DEF IsInside
    <2> QED BY <2>1, <2>2, <2>3
  <1>12. Inside(u, m + 1) = Inside(t, p)
    <2>1. m + 1 \in 1..(m + 1)
      BY <1>7
    <2>2. Inside(t, m + 1) # 0
      BY <1>7, <1>11
    <2>3. \A r \in 1..(m + 1) : Inside(t, r) # 0 => Inside(u, r) = Inside(t, r)
      <3>1. \A r \in 1..m : u[r] = t[r]
        BY <1>9
      <3>2. m \in Nat
        BY <1>7
      <3> QED BY <3>1, <3>2, SameInFront
    <2> QED BY <1>7, <2>1, <2>2, <2>3
  <1>13. u[m] = ":"
    BY <1>7, <1>9, <1>10
  <1>14. l >= 1 /\ FitsIn(u, m, l)
    <2>1. u[m] \in {"[", ":"} /\ Inside(u, m + 1) # 0
      BY <1>11, <1>12, <1>13
    <2> QED BY <1>2, <1>7, <1>9, <1>13, <2>1, ValueFits DEF l
  <1> DEFINE c == (m + l) + 1
  <1>15. u[c] = t[e]
    <2>1. 1 \in 1..(Len(t) - (m + n))
      BY <1>2, <1>7
    <2> QED BY <1>7, <1>9, <2>1
  <1>16. /\ \A r \in (m + 1)..(m + l) : Good(u, r)
         /\ \A r \in m..(m + l) : Depth(u, r) >= Depth(u, m)
         /\ Depth(u, m + l) = Depth(u, m)
         /\ Inside(u, c) = Inside(t, p)
         /\ ValueBefore(u, c)
         /\ ~IsKey(u, c)
    BY <1>12, <1>14 DEF FitsIn
  <1> HIDE DEF c
  <1>17. Depth(t, m + n) = Depth(t, m) /\ \A r \in m..(m + n) : Depth(t, r) >= Depth(t, m)
    <2>1. p - 1 = m
      BY <1>7
    <2> QED BY <1>6, <1>7, <2>1
  <1>18. Inside(t, e) = Inside(t, p)
    <2>1. IsInside(t, Inside(t, p), m + 1)
      BY <1>7, <1>11
    <2> QED BY <1>7, <1>17, <2>1, InsideOver
  <1>19. u[Inside(u, c)] = t[Inside(t, e)]
    BY <1>9, <1>11, <1>16, <1>18
  <1>20. MayFollow(u, c)
    <2>1. Inside(u, c) # 0
      BY <1>11, <1>16
    <2>2. CASE t[e] \in Closing
      <3>1. TypeOfBracket[t[e]] = TypeOfBracket[t[Inside(t, e)]]
        BY <1>11, <2>2, Follows
      <3> QED BY <1>15, <1>16, <1>19, <2>1, <2>2, <3>1, MayFollowing
    <2>3. CASE IsComma(t[e])
      BY <1>15, <1>16, <2>1, <2>3, MayFollowing
    <2> QED BY <1>6, <2>2, <2>3
  <1>21. ~IsKey(t, e)
    <2>1. t[e] \notin Names
      BY <1>6, Brackets, Commas
    <2> QED BY <2>1, KeysAre
  <1>22. Replaced(t, u, m, n, l)
    BY <1>2, <1>7, <1>9, <1>16, <1>17 DEF Replaced
  <1>23. MayFollow(u, (m + l) + 1) /\ (IsKey(t, (m + n) + 1) <=> IsKey(u, (m + l) + 1))
    BY <1>7, <1>16, <1>20, <1>21 DEF c
  <1>24. IsJson(u)
    BY <1>2, <1>16, <1>22, <1>23, Surgery
  <1> QED BY <1>24 DEF u, i

---------------------------------------------------------------------------
(* JSON texts stay JSON                                                    *)

\* The last search found a key of its object.
FoundInv ==
  Quiet /\ sought.answer # 0 =>
    /\ sought.object # 0
    /\ tokens[sought.answer].parent = sought.object
    /\ tokens[sought.answer].type = "string" /\ tokens[sought.object].type = "object"

\* What is kept, and what may come to be kept, is JSON if all that was put in was.
KeptInv ==
  /\ edit.stage = "none" /\ sound => IsJson(text)
  /\ edit.stage # "none" /\ sound => IsJson(edit.owner.text)
  /\ edit.stage = "fragment" /\ sound /\ edit.valid => IsJson(edit.new)
  /\ edit.stage = "candidate" /\ sound /\ edit.valid => IsJson(text)

LEMMA FoundStep == IInv /\ FindInv /\ FoundInv /\ [Next]_vars => FoundInv'
  <1> SUFFICES ASSUME IInv, FindInv, FoundInv, [Next]_vars PROVE FoundInv'
    OBVIOUS
  <1>1. CASE UNCHANGED vars
    BY <1>1 DEF vars, FoundInv, Quiet
  <1>2. ASSUME ~Quiet' PROVE FoundInv'
    BY <1>2 DEF FoundInv
  <1>3. ASSUME sought' = NoSearch PROVE FoundInv'
    BY <1>3 DEF FoundInv, NoSearch
  <1>4. ASSUME Parsing, sought' = sought PROVE FoundInv'
    <2>1. sought = NoSearch
      BY <1>4 DEF IInv, SearchInv
    <2> QED BY <1>3, <1>4, <2>1
  <1>5. ASSUME Quiet, sought' = sought, tokens' = tokens PROVE FoundInv'
    BY <1>5 DEF FoundInv
  <1>6. CASE \/ OpenContainer \/ CloseContainer \/ WalkUp \/ CloseHere \/ CloseNothing
             \/ ReadString \/ ReadPrimitive \/ ReadColon \/ ReadComma
             \/ ParseFails \/ FinishParse \/ AcceptFragment \/ RejectFragment \/ CommitEdit
    <2>1. Parsing /\ sought' = sought
      BY <1>6 DEF OpenContainer, CloseContainer, WalkUp, CloseHere, CloseNothing,
                  ReadString, ReadPrimitive, ReadColon, ReadComma, Reading, Parsing,
                  ParseFails, Errs, FinishParse, AcceptFragment, RejectFragment, CommitEdit, Parsed
    <2> QED BY <1>4, <2>1
  <1>7. CASE InsertMember \/ InsertElement \/ UpdateValue \/ StartRender
    BY <1>3, <1>7 DEF InsertMember, InsertElement, UpdateValue, StartRender
  <1>8. CASE \/ RenderMember \/ RenderElement \/ RenderSkip \/ RenderReturn \/ RenderThrows
             \/ FindNext \/ FindNothing
    <2>1. Quiet /\ sought' = sought /\ tokens' = tokens
      BY <1>8 DEF RenderMember, RenderElement, RenderSkip, RenderReturn, RenderThrows, Visit,
                  FindNext, FindNothing, InFrame, InSearch, Quiet, parser
    <2> QED BY <1>5, <2>1
  <1>9. CASE StartFind
    <2>1. sought'.answer = 0
      BY <1>9 DEF StartFind
    <2> QED BY <2>1 DEF FoundInv
  <1>10. CASE FindKey
    <2>1. /\ pc = "find" /\ tokens' = tokens /\ sought' = [sought EXCEPT !.answer = at]
          /\ tokens[at].parent = sought.object /\ tokens[at].type = "string"
      BY <1>10 DEF FindKey, InSearch, IsSought, parser
    <2>2. /\ sought \in [object: Nat, name: Names, answer: Nat] /\ sought.object # 0
          /\ tokens[sought.object].type = "object"
      BY <2>1 DEF IInv, SearchInv, FindInv
    <2>3. sought'.answer = at /\ sought'.object = sought.object
      BY <2>1, <2>2
    <2> QED BY <2>1, <2>2, <2>3 DEF FoundInv
  <1> QED BY <1>1, <1>6, <1>7, <1>8, <1>9, <1>10 DEF Next

LEMMA KeptBack ==
  ASSUME KeptInv, edit.stage # "none", BackToOwner, sound' = sound PROVE KeptInv'
  <1>1. text' = edit.owner.text /\ edit' = NoEdit
    BY DEF BackToOwner
  <1>2. edit'.stage = "none"
    BY <1>1 DEF NoEdit
  <1> QED BY <1>1, <1>2 DEF KeptInv

LEMMA KeptInserted ==
  ASSUME IInv, JsonInv, KeptInv, MayEdit, sound' = sound, NEW type, NEW prefix, Insert(type, prefix),
         \/ type = "array" /\ prefix = <<>>
         \/ type = "object" /\ \E n \in Names : prefix = <<n, ":">>
  PROVE  KeptInv'
  <1>1. PICK o \in DOMAIN tokens, f \in Fragments :
          /\ tokens[o].type = type
          /\ StartParser(f.text, Edit("fragment", f.type, Inserted(o, prefix \o f.text), IsValue(f.text)))
    BY DEF Insert
  <1>2. /\ edit' = Edit("fragment", f.type, Inserted(o, prefix \o f.text), IsValue(f.text))
        /\ f.text \in Seq(Lexemes)
    BY <1>1, FragmentType DEF StartParser
  <1>3. /\ edit'.stage = "fragment" /\ edit'.new = Inserted(o, prefix \o f.text)
        /\ edit'.valid = IsValue(f.text) /\ edit'.owner.text = text
    BY <1>2 DEF Edit, Owner
  <1>4. pc = "idle" /\ edit.stage = "none" /\ ParserInv /\ Quiet
    BY DEF MayEdit, IInv, EditInv, NoEdit, Quiet
  <1>5. sound => IsJson(text)
    BY <1>4 DEF KeptInv
  <1>6. ASSUME sound, IsValue(f.text) PROVE IsJson(Inserted(o, prefix \o f.text))
    <2>1. AllRead
      BY <1>4, <1>5, <1>6 DEF AllRead, JsonInv
    <2>2. CASE type = "array" /\ prefix = <<>>
      BY <1>1, <1>2, <1>4, <1>6, <2>1, <2>2, ElementInserted
    <2>3. CASE type = "object" /\ \E n \in Names : prefix = <<n, ":">>
      BY <1>1, <1>2, <1>4, <1>6, <2>1, <2>3, MemberInserted
    <2> QED BY <2>2, <2>3
  <1> QED BY <1>3, <1>5, <1>6 DEF KeptInv

LEMMA KeptUpdated ==
  ASSUME IInv, JsonInv, FoundInv, KeptInv, UpdateValue PROVE KeptInv'
  <1> DEFINE a == sought.answer
             old == a + 1
  <1>1. PICK f \in Fragments :
          StartParser(Spliced(old, f.text),
                      Edit("candidate", f.type, <<>>, IsValue(f.text) /\ tokens[old].type # "string"))
    BY DEF UpdateValue
  <1>2. /\ text' = Spliced(old, f.text) /\ f.text \in Seq(Lexemes) /\ sound' = sound
        /\ edit' = Edit("candidate", f.type, <<>>, IsValue(f.text) /\ tokens[old].type # "string")
    BY <1>1, FragmentType DEF StartParser, UpdateValue
  <1>3. /\ edit'.stage = "candidate" /\ edit'.owner.text = text
        /\ edit'.valid = (IsValue(f.text) /\ tokens[old].type # "string")
    BY <1>2 DEF Edit, Owner
  <1>4. pc = "idle" /\ edit.stage = "none" /\ ParserInv /\ Quiet /\ Closed(tokens)
    BY DEF UpdateValue, MayEdit, IInv, PcInv, EditInv, NoEdit, Quiet
  <1>5. sound => IsJson(text)
    BY <1>4 DEF KeptInv
  <1>6. /\ a \in DOMAIN tokens /\ tokens[a].type = "string"
        /\ tokens[a].parent \in DOMAIN tokens /\ tokens[tokens[a].parent].type = "object"
    <2>1. a # 0
      BY DEF UpdateValue
    <2>2. a \in 0..Len(tokens) /\ sought.object \in 0..Len(tokens) /\ DOMAIN tokens = 1..Len(tokens)
          /\ Len(tokens) \in Nat
      BY <1>4, ParserFacts DEF IInv, SearchInv
    <2>3. /\ sought.object # 0 /\ tokens[a].parent = sought.object
          /\ tokens[a].type = "string" /\ tokens[sought.object].type = "object"
      BY <1>4, <2>1 DEF FoundInv
    <2> QED BY <2>1, <2>2, <2>3
  <1>7. ASSUME sound, IsValue(f.text), tokens[old].type # "string"
        PROVE  IsJson(Spliced(old, f.text))
    <2>1. AllRead
      BY <1>4, <1>5, <1>7 DEF AllRead, JsonInv
    <2> HIDE DEF a
    <2> QED BY <1>2, <1>4, <1>6, <1>7, <2>1, ValueReplaced
  <1> HIDE DEF old
  <1> QED BY <1>2, <1>3, <1>5, <1>7 DEF KeptInv

LEMMA KeptStep == IInv /\ JsonInv /\ FoundInv /\ KeptInv /\ [Next]_vars => KeptInv'
  <1> SUFFICES ASSUME IInv, JsonInv, FoundInv, KeptInv, [Next]_vars PROVE KeptInv'
    OBVIOUS
  <1>1. ASSUME UNCHANGED <<text, edit, sound>> PROVE KeptInv'
    BY <1>1 DEF KeptInv
  <1>2. CASE \/ UNCHANGED vars
             \/ OpenContainer \/ CloseContainer \/ WalkUp \/ CloseHere \/ CloseNothing
             \/ ReadString \/ ReadPrimitive \/ ReadColon \/ ReadComma \/ FinishParse
             \/ StartRender \/ RenderMember \/ RenderElement \/ RenderSkip \/ RenderReturn
             \/ RenderThrows \/ StartFind \/ FindKey \/ FindNext \/ FindNothing
    <2>1. UNCHANGED <<text, edit, sound>>
      BY <1>2 DEF vars, OpenContainer, CloseContainer, WalkUp, CloseHere, CloseNothing,
                  ReadString, ReadPrimitive, ReadColon, ReadComma, FinishParse, StartRender,
                  RenderMember, RenderElement, RenderSkip, RenderReturn, RenderThrows, Visit,
                  StartFind, FindKey, FindNext, FindNothing, parser
    <2> QED BY <1>1, <2>1
  <1>3. CASE ParseFails
    <2>1. CASE edit.stage = "none"
      BY <1>1, <1>3, <2>1 DEF ParseFails, parser
    <2>2. CASE edit.stage # "none"
      BY <1>3, <2>2, KeptBack DEF ParseFails
    <2> QED BY <2>1, <2>2
  <1>4. CASE RejectFragment
    BY <1>4, KeptBack DEF RejectFragment
  <1>5. CASE CommitEdit
    <2>1. text' = text /\ edit'.stage = "none" /\ edit.stage = "candidate"
          /\ sound' = (sound /\ edit.valid)
      BY <1>5 DEF CommitEdit, parser, NoEdit
    <2> QED BY <2>1 DEF KeptInv
  <1>6. CASE InsertMember
    <2>1. PICK n \in Names : Insert("object", <<n, ":">>)
      BY <1>6 DEF InsertMember
    <2>2. MayEdit /\ sound' = sound
      BY <1>6 DEF InsertMember
    <2> QED BY <2>1, <2>2, KeptInserted
  <1>7. CASE InsertElement
    BY <1>7, KeptInserted DEF InsertElement
  <1>8. CASE UpdateValue
    BY <1>8, KeptUpdated
  <1>9. CASE AcceptFragment
    <2>1. EditOK(edit) /\ edit.stage = "fragment"
      BY <1>9 DEF AcceptFragment, IInv, EditInv, NoEdit
    <2>2. /\ text' = edit.new /\ edit' = [edit EXCEPT !.stage = "candidate"] /\ sound' = sound
      BY <1>9 DEF AcceptFragment, StartParser
    <2>3. edit'.stage = "candidate" /\ edit'.valid = edit.valid /\ edit'.owner = edit.owner
      BY <2>1, <2>2 DEF EditOK
    <2> QED BY <2>1, <2>2, <2>3 DEF KeptInv
  <1> QED BY <1>2, <1>3, <1>4, <1>5, <1>6, <1>7, <1>8, <1>9 DEF Next

\* A text that was JSON is JSON after any edits: with a JSON value inserted into one
\* of its objects or arrays, or put in place of a container, number or literal that
\* is the value of a key, and with an edit that failed or was refused.
THEOREM TextsStayJson == Spec => []EditsStayJson
  <1>1. Init => FoundInv /\ KeptInv
    BY DEF Init, FoundInv, KeptInv, NoEdit, NoSearch
  <1>2. IInv /\ KeptInv => EditsStayJson
    <2> SUFFICES ASSUME IInv, KeptInv, pc = "idle", sound PROVE IsJson(text)
      BY DEF EditsStayJson
    <2>1. edit.stage = "none"
      BY DEF IInv, EditInv, NoEdit
    <2> QED BY <2>1 DEF KeptInv
  <1> QED BY <1>1, <1>2, Invariance, AlwaysNested, AlwaysRead, FoundStep, KeptStep, PTL DEF Spec
---------------------------------------------------------------------------
(* Edits are kept or refused as a whole                                    *)

\* An edit may go back to the parser as it was over a text that is not JSON, or a
\* fragment of another type.
LEMMA RefusedEnd ==
  ASSUME edit.stage # "none", BackToOwner, UNCHANGED index,
         IsJson(text) => edit.stage = "fragment" /\ tokens[1].type # edit.type,
         EditOK(edit)
  PROVE  EditStep
  <1>1. edit'.stage = "none"
    BY DEF BackToOwner, NoEdit
  <1>2. Owner' = edit.owner
    <2>1. text' = edit.owner.text /\ pos' = edit.owner.pos
          /\ tokens' = edit.owner.tokens /\ super' = edit.owner.super
      BY DEF BackToOwner
    <2>2. edit.owner = [text |-> edit.owner.text, pos |-> edit.owner.pos,
                        tokens |-> edit.owner.tokens, super |-> edit.owner.super]
      BY DEF EditOK, OwnerOK
    <2> QED BY <2>1, <2>2 DEF Owner
  <1> QED BY <1>1, <1>2 DEF EditStep, EndsRefused

\* A JSON text that was parsed has a token.
LEMMA ParsedHasToken ==
  ASSUME ParserInv, AtLexeme, Parsed PROVE tokens # <<>>
  <1>1. /\ text \in Seq(Lexemes) /\ Len(text) \in Nat /\ pos \in Nat /\ pos \in 1..(Len(text) + 1)
        /\ IsJson(text) /\ IsReadUpTo(text, pos, tokens)
    BY TokensLie, ParserFacts DEF AtLexeme
  <1>2. text[1] \in Opening \cup Names
    BY <1>1, JsonFacts
  <1>3. Len(text) # 0
    BY <1>1 DEF IsJson
  <1>4. 1 \in 1..Len(text) /\ 1 < pos
    BY <1>1, <1>3 DEF Parsed
  <1>5. 1 \in Starts(text)
    BY <1>1, <1>2, <1>4, StartsAre
  <1>6. \A q \in Starts(text) : q < pos => NumberOf(text, q) \in 1..Len(tokens)
    BY <1>1, NumbersOfTokens
  <1>7. NumberOf(text, 1) \in 1..Len(tokens)
    BY <1>4, <1>5, <1>6
  <1>8. tokens = <<>> => Len(tokens) = 0
    OBVIOUS
  <1> QED BY <1>7, <1>8

\* A parser that starts keeps the object that is edited.
LEMMA StartKeepsOwner ==
  ASSUME NEW t, NEW e, StartParser(t, e), UNCHANGED index, e.stage # "none",
         e.owner = IF edit.stage = "none" THEN Owner ELSE edit.owner
  PROVE  EditStep
  <1>1. edit' = e
    BY DEF StartParser
  <1> QED BY <1>1 DEF EditStep

LEMMA WholeSteps == IInv /\ NestInv /\ JsonInv /\ [Next]_vars => [EditStep]_vars
  <1> SUFFICES ASSUME IInv, NestInv, JsonInv, Next PROVE EditStep
    OBVIOUS
  <1>1. /\ ParserInv /\ (edit.stage # "none" => EditOK(edit) /\ pc \in {"parse", "close"})
        /\ (Quiet => edit.stage = "none")
    BY DEF IInv, EditInv, NoEdit, Quiet
  <1>2. CASE \/ OpenContainer \/ CloseContainer \/ WalkUp \/ CloseHere \/ CloseNothing
             \/ ReadString \/ ReadPrimitive \/ ReadColon \/ ReadComma
    <2>1. UNCHANGED <<text, edit, index>>
      BY <1>2 DEF OpenContainer, CloseContainer, WalkUp, CloseHere, CloseNothing,
                  ReadString, ReadPrimitive, ReadColon, ReadComma, parser
    <2> QED BY <2>1 DEF EditStep
  <1>3. CASE ParseFails
    <2>1. CASE edit.stage = "none"
      <3>1. text' = text /\ edit' = edit
        BY <1>3, <2>1 DEF ParseFails, parser
      <3> QED BY <2>1, <3>1 DEF EditStep
    <2>2. CASE edit.stage # "none"
      <3>1. Errs /\ BackToOwner /\ UNCHANGED index
        BY <1>3, <2>2 DEF ParseFails
      <3>2. IsJson(text) => AtLexeme
        BY <1>1, <2>2 DEF JsonInv, AtLexeme
      <3>3. ~IsJson(text)
        BY <3>1, <3>2, NothingRefused
      <3> QED BY <1>1, <2>2, <3>1, <3>3, RefusedEnd
    <2> QED BY <2>1, <2>2
  <1>4. CASE RejectFragment
    <2>1. /\ Parsed /\ edit.stage = "fragment" /\ ~FragmentIsGood
          /\ BackToOwner /\ UNCHANGED index
      BY <1>4 DEF RejectFragment
    <2>2. IsJson(text) => AtLexeme
      BY <2>1 DEF JsonInv, AtLexeme, Parsed
    <2>3. IsJson(text) => tokens[1].type # edit.type
      BY <1>1, <2>1, <2>2, ParsedHasToken DEF FragmentIsGood
    <2> QED BY <1>1, <2>1, <2>3, RefusedEnd
  <1>5. CASE FinishParse
    <2>1. text' = text /\ edit' = edit /\ edit.stage = "none"
      BY <1>5 DEF FinishParse, parser
    <2> QED BY <2>1 DEF EditStep
  <1>6. CASE CommitEdit
    <2>1. /\ Parsed /\ edit.stage = "candidate" /\ UNCHANGED parser /\ dirty'
          /\ edit' = NoEdit
      BY <1>6 DEF CommitEdit, NewIndex
    <2> QED BY <2>1 DEF EditStep, EndsKept, NoEdit
  <1>7. ASSUME MayEdit, NEW type, NEW prefix, Insert(type, prefix), UNCHANGED index PROVE EditStep
    <2>1. PICK o \in DOMAIN tokens, f \in Fragments :
            StartParser(f.text, Edit("fragment", f.type, Inserted(o, prefix \o f.text), IsValue(f.text)))
      BY <1>7 DEF Insert
    <2> DEFINE e == Edit("fragment", f.type, Inserted(o, prefix \o f.text), IsValue(f.text))
    <2>2. e.owner = Owner /\ e.stage # "none" /\ edit.stage = "none"
      BY <1>1, <1>7 DEF Edit, MayEdit, Quiet
    <2>3. StartParser(f.text, e)
      BY <2>1
    <2> HIDE DEF e
    <2> QED BY <1>7, <2>2, <2>3, StartKeepsOwner
  <1>8. CASE InsertMember \/ InsertElement
    BY <1>7, <1>8 DEF InsertMember, InsertElement
  <1>9. CASE UpdateValue
    <2> DEFINE old == sought.answer + 1
    <2>1. PICK f \in Fragments :
            StartParser(Spliced(old, f.text),
                        Edit("candidate", f.type, <<>>, IsValue(f.text) /\ tokens[old].type # "string"))
      BY <1>9 DEF UpdateValue
    <2> DEFINE e == Edit("candidate", f.type, <<>>, IsValue(f.text) /\ tokens[old].type # "string")
    <2>2. e.owner = Owner /\ e.stage # "none" /\ edit.stage = "none" /\ UNCHANGED index
      BY <1>1, <1>9 DEF Edit, UpdateValue, MayEdit, Quiet
    <2>3. StartParser(Spliced(old, f.text), e)
      BY <2>1
    <2> HIDE DEF e, old
    <2> QED BY <2>2, <2>3, StartKeepsOwner
  <1>10. CASE AcceptFragment
    <2> DEFINE e == [edit EXCEPT !.stage = "candidate"]
    <2>1. EditOK(edit) /\ edit.stage = "fragment" /\ UNCHANGED index
      BY <1>1, <1>10 DEF AcceptFragment
    <2>2. e.owner = edit.owner /\ e.stage # "none"
      BY <2>1 DEF EditOK
    <2>3. StartParser(edit.new, e)
      BY <1>10 DEF AcceptFragment
    <2> HIDE DEF e
    <2> QED BY <2>1, <2>2, <2>3, StartKeepsOwner
  <1>11. CASE \/ StartRender \/ RenderMember \/ RenderElement \/ RenderSkip \/ RenderReturn
              \/ RenderThrows \/ StartFind \/ FindKey \/ FindNext \/ FindNothing
    <2>1. text' = text /\ edit' = edit
      BY <1>11 DEF StartRender, RenderMember, RenderElement, RenderSkip, RenderReturn, RenderThrows,
                  StartFind, FindKey, FindNext, FindNothing, Visit, parser
    <2>2. edit.stage = "none"
      BY <1>1, <1>11 DEF StartRender, RenderMember, RenderElement, RenderSkip, RenderReturn,
                  RenderThrows, StartFind, FindKey, FindNext, FindNothing, InFrame, InSearch, Quiet
    <2> QED BY <2>1, <2>2 DEF EditStep
  <1> QED BY <1>2, <1>3, <1>4, <1>5, <1>6, <1>8, <1>9, <1>10, <1>11 DEF Next

\* Whatever the texts, the fragments and the names: an edit that ends without being
\* kept leaves text, tokens and index as they were when it began, and is one of a
\* text that is not JSON or a fragment of another type; an edit that is kept has
\* the whole of the new text parsed; and nothing else changes the text.
THEOREM EditsEndWhole == Spec => EditsAreAllOrNothing
  <1>1. Spec => [](IInv /\ NestInv /\ JsonInv)
    BY Invariance, AlwaysNested, AlwaysRead, PTL
  <1> QED BY <1>1, WholeSteps, PTL DEF Spec, EditsAreAllOrNothing

=============================================================================
