------------------------ MODULE MessageParsingProofs ------------------------
(* Parsing a message, for any rules and any message: tokens stand where the
   report says, locators end, and what is recorded of a section is what was
   found in it.                                                             *)
EXTENDS MessageParsing, FiniteSetTheorems, WellFoundedInduction, NaturalsInduction, TLAPS

---------------------------------------------------------------------------
(* Stacks and texts                                                          *)

LEMMA LeastNumber ==
  ASSUME NEW T, T \subseteq Nat, T # {} PROVE \E x \in T : \A y \in T : x <= y
  <1> DEFINE R == OpToRel(<, Nat)
  <1>1. IsWellFoundedOn(R, Nat)
    BY NatLessThanWellFounded
  <1>2. PICK x \in T : \A y \in T : ~(<<y, x>> \in R)
    <2> HIDE DEF R
    <2> QED BY <1>1, WFMin
  <1>3. \A a, b \in Nat : a < b => <<a, b>> \in R
    BY DEF OpToRel
  <1> HIDE DEF R
  <1>4. \A y \in T : ~(y < x)
    BY <1>2, <1>3
  <1> QED BY <1>2, <1>4

LEMMA TopReplaced ==
  ASSUME NEW S, NEW s \in Seq(S), s # <<>>, NEW c \in S, NEW t, t = <<c>> \o Tail(s)
  PROVE  /\ t \in Seq(S) /\ t # <<>> /\ Len(t) = Len(s) /\ t[1] = c /\ Head(t) = c
         /\ \A d \in 2..Len(s) : t[d] = s[d]
  <1>1. Tail(s) \in Seq(S) /\ Len(Tail(s)) = Len(s) - 1 /\ \A d \in 1..(Len(s) - 1) : Tail(s)[d] = s[d + 1]
    OBVIOUS
  <1>2. t \in Seq(S) /\ Len(t) = Len(s)
    BY <1>1
  <1>3. t[1] = c
    BY <1>1
  <1>4. \A d \in 2..Len(s) : t[d] = s[d]
    BY <1>1
  <1> QED BY <1>2, <1>3, <1>4

LEMMA TopPushed ==
  ASSUME NEW S, NEW s \in Seq(S), s # <<>>, NEW b \in S, NEW c \in S, NEW t, t = <<b, c>> \o Tail(s)
  PROVE  /\ t \in Seq(S) /\ t # <<>> /\ Len(t) = Len(s) + 1 /\ t[1] = b /\ t[2] = c /\ Head(t) = b
         /\ \A d \in 3..Len(t) : t[d] = s[d - 1]
  <1>1. Tail(s) \in Seq(S) /\ Len(Tail(s)) = Len(s) - 1 /\ \A d \in 1..(Len(s) - 1) : Tail(s)[d] = s[d + 1]
    OBVIOUS
  <1>2. t \in Seq(S) /\ Len(t) = Len(s) + 1
    BY <1>1
  <1>3. t[1] = b /\ t[2] = c
    BY <1>1
  <1>4. \A d \in 3..Len(t) : t[d] = s[d - 1]
    BY <1>1, <1>2
  <1> QED BY <1>2, <1>3, <1>4

LEMMA Appended ==
  ASSUME NEW S, NEW s \in Seq(S), NEW t \in Seq(S)
  PROVE  /\ s \o t \in Seq(S) /\ Len(s \o t) = Len(s) + Len(t)
         /\ \A k \in 1..Len(s) : (s \o t)[k] = s[k]
         /\ \A k \in 1..Len(t) : (s \o t)[Len(s) + k] = t[k]
  OBVIOUS

Longer(t, s, n, new) ==
  /\ Len(t) = Len(s) + n
  /\ \A k \in 1..Len(s) : t[k] = s[k]
  /\ \A k \in 1..n : t[Len(s) + k] = new[k]

LEMMA LongerBy ==
  ASSUME NEW S, NEW s \in Seq(S), NEW n \in Nat, NEW new \in [1..n -> S]
  PROVE  s \o new \in Seq(S) /\ Longer(s \o new, s, n, new)
  <1>1. \A t \in Seq(S) : s \o t \in Seq(S) /\ Longer(s \o t, s, Len(t), t)
    BY Appended DEF Longer
  <1>2. new \in Seq(S) /\ Len(new) = n
    OBVIOUS
  <1> QED BY <1>1, <1>2, Zenon

LEMMA TailOf ==
  ASSUME NEW S, NEW s \in Seq(S), Len(s) > 0
  PROVE  Tail(s) \in Seq(S) /\ Len(Tail(s)) = Len(s) - 1 /\ \A d \in 1..(Len(s) - 1) : Tail(s)[d] = s[d + 1]
  OBVIOUS

LEMMA ConsOf ==
  ASSUME NEW S, NEW r \in Seq(S), NEW c \in S
  PROVE  LET t == <<c>> \o r IN
         t \in Seq(S) /\ Len(t) = Len(r) + 1 /\ t[1] = c /\ \A d \in 1..Len(r) : t[d + 1] = r[d]
  OBVIOUS

LEMMA TopPopped ==
  ASSUME NEW S, NEW s \in Seq(S), Len(s) > 1, NEW c \in S, NEW t, t = <<c>> \o Tail(Tail(s))
  PROVE  /\ t \in Seq(S) /\ t # <<>> /\ Len(t) = Len(s) - 1 /\ t[1] = c /\ Head(t) = c
         /\ \A d \in 2..Len(t) : t[d] = s[d + 1]
  <1> DEFINE q == Tail(s)
             r == Tail(q)
  <1>1. q \in Seq(S) /\ Len(q) = Len(s) - 1 /\ \A d \in 1..(Len(s) - 1) : q[d] = s[d + 1]
    BY TailOf
  <1> HIDE DEF q
  <1>2. r \in Seq(S) /\ Len(r) = Len(s) - 2 /\ \A d \in 1..(Len(s) - 2) : r[d] = s[d + 2]
    <2>1. r \in Seq(S) /\ Len(r) = Len(q) - 1 /\ \A d \in 1..(Len(q) - 1) : r[d] = q[d + 1]
      BY <1>1, TailOf
    <2> QED BY <1>1, <2>1
  <1>3. t = <<c>> \o r
    BY DEF q
  <1> HIDE DEF r
  <1>4. t \in Seq(S) /\ Len(t) = Len(r) + 1 /\ t[1] = c /\ \A d \in 1..Len(r) : t[d + 1] = r[d]
    BY <1>2, <1>3, ConsOf
  <1>5. \A d \in 2..Len(t) : t[d] = s[d + 1]
    <2> SUFFICES ASSUME NEW d \in 2..Len(t) PROVE t[d] = s[d + 1]
      OBVIOUS
    <2>1. d - 1 \in 1..Len(r) /\ d - 1 \in 1..(Len(s) - 2) /\ (d - 1) + 1 = d /\ (d - 1) + 2 = d + 1
      BY <1>2, <1>4
    <2> QED BY <1>2, <1>4, <2>1
  <1>6. Len(t) = Len(s) - 1
    BY <1>2, <1>4
  <1> QED BY <1>4, <1>5, <1>6

\* The letters of a text between two offsets.
LEMMA SliceOfText ==
  ASSUME NEW S, NEW m \in Seq(S), NEW a \in Nat, NEW b \in Nat, a <= b, b <= Len(m)
  PROVE  /\ SubSeq(m, a + 1, b) \in Seq(S) /\ Len(SubSeq(m, a + 1, b)) = b - a
         /\ \A i \in 1..(b - a) : SubSeq(m, a + 1, b)[i] = m[a + i]
  OBVIOUS

LEMMA SliceOfSlice ==
  ASSUME NEW S, NEW m \in Seq(S), NEW a \in Nat, NEW b \in Nat, a <= b, b <= Len(m),
         NEW i \in Nat, NEW j \in Nat, i <= j, j <= b - a
  PROVE  SubSeq(SubSeq(m, a + 1, b), i + 1, j) = SubSeq(m, a + i + 1, a + j)
  <1> DEFINE text == SubSeq(m, a + 1, b)
             one == SubSeq(text, i + 1, j)
             two == SubSeq(m, a + i + 1, a + j)
  <1>1. text \in Seq(S) /\ Len(text) = b - a /\ \A k \in 1..(b - a) : text[k] = m[a + k]
    BY SliceOfText
  <1> HIDE DEF text
  <1>2. one \in Seq(S) /\ Len(one) = j - i /\ \A k \in 1..(j - i) : one[k] = text[i + k]
    BY <1>1, SliceOfText
  <1>3. two \in Seq(S) /\ Len(two) = j - i /\ \A k \in 1..(j - i) : two[k] = m[a + i + k]
    <2>1. a + i \in Nat /\ a + j \in Nat /\ a + i <= a + j /\ a + j <= Len(m) /\ (a + j) - (a + i) = j - i
      OBVIOUS
    <2> QED BY <2>1, SliceOfText
  <1>4. \A k \in 1..(j - i) : one[k] = two[k]
    BY <1>1, <1>2, <1>3
  <1> HIDE DEF one, two
  <1>5. one = two
    BY <1>2, <1>3, <1>4
  <1> QED BY <1>5 DEF one, two, text

---------------------------------------------------------------------------
(* What is loaded                                                            *)

LEMMA SubtreeType == \A s \in Sections : Subtree[s] \subseteq Sections /\ s \in Subtree[s]
  BY DEF Subtree

LEMMA AllSectionsType ==
  ASSUME NEW r \in DOMAIN RuleOf PROVE AllSections(r) \subseteq Sections
  <1>1. \A k \in DOMAIN RuleOf[r].sections : RuleOf[r].sections[k] \in Sections
    BY TreesAssumption DEF TreesAssumption
  <1> QED BY <1>1, SubtreeType DEF AllSections

LoadingType ==
  /\ input \in Inputs
  /\ phase \in {"rulesets", "messages", "loaded", "refused"}
  /\ file \in 1..(Len(input.files) + 1) /\ item \in Nat \ {0}
  /\ \A n \in DOMAIN known : IsRuleset(known[n])
  /\ rules \in Seq(DOMAIN RuleOf)
  /\ DOMAIN bound \subseteq Sections /\ \A s \in DOMAIN bound : IsRuleset(bound[s])

\* A definition that is read is one of the files.
LEMMA EntryType ==
  ASSUME LoadingType
  PROVE  /\ Len(input.files) \in Nat
         /\ Reading("rulesets") => IsRuleset(Entry)
         /\ Reading("messages") => Entry \in DOMAIN RuleOf
  <1>1. /\ DOMAIN input.files = 1..Len(input.files) /\ Len(input.files) \in Nat
        /\ \A f \in DOMAIN input.files : IsFile(input.files[f])
    BY FilesAssumption DEF LoadingType, FilesAssumption
  <1>2. ASSUME file <= Len(input.files) PROVE IsFile(input.files[file])
    BY <1>1, <1>2 DEF LoadingType
  <1>3. ASSUME Reading("rulesets") PROVE IsRuleset(Entry)
    <2>1. Items = input.files[file].rulesets /\ item \in 1..Len(Items)
      BY <1>3 DEF Reading, Items, LoadingType
    <2> QED BY <1>2, <1>3, <2>1 DEF Reading, Entry, IsFile
  <1>4. ASSUME Reading("messages") PROVE Entry \in DOMAIN RuleOf
    <2>1. Items = input.files[file].messages /\ item \in 1..Len(Items)
      BY <1>4 DEF Reading, Items, LoadingType
    <2>2. Items \in Seq(DOMAIN RuleOf)
      BY <1>2, <1>4, <2>1 DEF Reading, IsFile
    <2> QED BY <2>1, <2>2 DEF Entry
  <1> QED BY <1>1, <1>3, <1>4

LEMMA JoinedType ==
  ASSUME NEW f, NEW g, DOMAIN f \subseteq Sections, DOMAIN g \subseteq Sections,
         \A s \in DOMAIN f : IsRuleset(f[s]), \A s \in DOMAIN g : IsRuleset(g[s])
  PROVE  DOMAIN Joined(f, g) \subseteq Sections /\ \A s \in DOMAIN Joined(f, g) : IsRuleset(Joined(f, g)[s])
  BY DEF Joined

LEMMA BindingsType ==
  ASSUME LoadingType, NEW r \in DOMAIN RuleOf, MessageRuleHolds(r)
  PROVE  DOMAIN Bindings(r) \subseteq Sections /\ \A s \in DOMAIN Bindings(r) : IsRuleset(Bindings(r)[s])
  <1>1. \A s \in AllSections(r) : EngineOf[s] # "mixed" => RefersTo[s] \in DOMAIN known
    BY DEF MessageRuleHolds, SectionBinds
  <1> QED BY <1>1, AllSectionsType DEF Bindings, LoadingType

LEMMA LoadTyped == LoadingType /\ Load => LoadingType'
  <1> SUFFICES ASSUME LoadingType, Load PROVE LoadingType'
    OBVIOUS
  <1>0. Len(input.files) \in Nat
    BY EntryType
  <1>1. CASE NextFile
    BY <1>0, <1>1 DEF LoadingType, NextFile
  <1>2. CASE LoadRuleset
    <2>1. IsRuleset(Entry)
      BY <1>2, EntryType DEF LoadRuleset
    <2>2. \A n \in DOMAIN KnownWith(Entry) : IsRuleset(KnownWith(Entry)[n])
      BY <2>1 DEF KnownWith, LoadingType
    <2> QED BY <1>2, <2>2 DEF LoadingType, LoadRuleset
  <1>3. CASE BeginMessages
    BY <1>0, <1>3 DEF LoadingType, BeginMessages
  <1>4. CASE LoadMessageRule
    <2>1. Entry \in DOMAIN RuleOf
      BY <1>4, EntryType DEF LoadMessageRule
    <2>2. rules' \in Seq(DOMAIN RuleOf)
      BY <1>4, <2>1 DEF LoadMessageRule, LoadingType
    <2>3. DOMAIN bound' \subseteq Sections /\ \A s \in DOMAIN bound' : IsRuleset(bound'[s])
      BY <1>4, <2>1, BindingsType, JoinedType DEF LoadMessageRule, LoadingType
    <2> QED BY <1>4, <2>2, <2>3 DEF LoadMessageRule, LoadingType
  <1>5. CASE FinishLoading
    <2>1. input.added \in Seq(DOMAIN RuleOf) /\ DOMAIN Preset \subseteq Sections
          /\ \A s \in DOMAIN Preset : IsRuleset(Preset[s])
      BY FilesAssumption DEF FilesAssumption, LoadingType
    <2>2. rules' \in Seq(DOMAIN RuleOf)
      BY <1>5, <2>1 DEF FinishLoading, LoadingType
    <2>3. DOMAIN bound' \subseteq Sections /\ \A s \in DOMAIN bound' : IsRuleset(bound'[s])
      BY <1>5, <2>1, JoinedType DEF FinishLoading, LoadingType
    <2> QED BY <1>5, <2>2, <2>3 DEF FinishLoading, LoadingType
  <1>6. CASE RefuseRuleset \/ RefuseMessageRule \/ RefuseNoRules
    BY <1>6 DEF RefuseRuleset, RefuseMessageRule, RefuseNoRules, Refuse, LoadingType
  <1> QED BY <1>1, <1>2, <1>3, <1>4, <1>5, <1>6 DEF Load

---------------------------------------------------------------------------
(* What is parsed                                                            *)

TokenType == [section: Sections, from: Nat, to: Nat, text: Texts]
Kinds == {"filter", "unmatched", "section", "locator", "token", "json", "property"}

ParsingType ==
  /\ message \in Messages
  /\ rule \in 1..(Len(rules) + 1)
  /\ pc \in {"filter", "sections", "done"}
  /\ pc = "sections" => rule \in 1..Len(rules)
  /\ DOMAIN captures \subseteq Names
  /\ \A n \in DOMAIN captures : captures[n] \in Texts
  /\ next \in Nat \ {0}
  /\ stack \in Seq(CallType) /\ tokens \in Seq(TokenType) /\ extraction \in Seq(Ids)
  /\ DOMAIN properties \subseteq Names
  /\ \A n \in DOMAIN properties : properties[n] \in [section: Sections, seen: Nat]
  /\ errors \subseteq Kinds

\* Before a rule has taken the message nothing is found, and nothing is called
\* but by the sections of the rule.
Idle ==
  /\ phase # "loaded" => pc = "filter"
  /\ pc = "filter" => /\ tokens = <<>> /\ extraction = <<>> /\ properties = <<>>
                      /\ captures = <<>> /\ next = 1
  /\ pc # "sections" => stack = <<>>

\* A capture is a text of the message.
OccursAt(text, i) == i + Len(text) <= Len(message) /\ SubSeq(message, i + 1, i + Len(text)) = text
Captured == \A n \in DOMAIN captures : \E i \in 0..Len(message) : OccursAt(captures[n], i)

Typed == LoadingType /\ ParsingType /\ Idle /\ Captured

LEMMA MessageType == ParsingType => message \in Texts /\ Len(message) \in Nat /\ Len(message) < Unset
  BY SectionsAssumption DEF ParsingType, SectionsAssumption, Texts

LEMMA TypeParts == LoadingType /\ ParsingType => TypeOK
  BY DEF LoadingType, ParsingType, TypeOK, TokenType, Kinds

LEMMA PieceTyped ==
  ASSUME NEW text \in Texts, NEW k \in Nat, NEW p \in Pieces(text, k)
  PROVE  /\ p \in PieceType /\ p.from <= p.to
         /\ \/ p = UnsetPiece
            \/ k <= p.from /\ p.to <= Len(text) /\ p = Piece(text, p.from, p.to)
  <1>1. CASE p = UnsetPiece
    BY <1>1, SectionsAssumption DEF UnsetPiece, PieceType, Texts, SectionsAssumption
  <1>2. CASE p # UnsetPiece
    <2>1. PICK i \in k..Len(text) : \E j \in i..Len(text) : p = Piece(text, i, j)
      BY <1>2 DEF Pieces
    <2>2. PICK j \in i..Len(text) : p = Piece(text, i, j)
      BY <2>1
    <2>3. i \in Nat /\ j \in Nat /\ i <= j /\ j <= Len(text) /\ k <= i
      OBVIOUS
    <2>4. SubSeq(text, i + 1, j) \in Texts
      BY <2>3, SliceOfText DEF Texts
    <2>5. p.from = i /\ p.to = j
      BY <2>2 DEF Piece
    <2> QED BY <2>2, <2>3, <2>4, <2>5 DEF Piece, PieceType
  <1> QED BY <1>1, <1>2

LEMMA ShiftedType ==
  ASSUME NEW base \in Nat, NEW p \in PieceType
  PROVE  At(base, p) \in PieceType /\ At(base, p).from = base + p.from /\ At(base, p).to = base + p.to
         /\ At(base, p).text = p.text
  BY DEF At, PieceType

\* What occurs in the message has a first occurrence.
LEMMA FirstOccurrence ==
  ASSUME ParsingType, NEW text \in Texts, \E i \in 0..Len(message) : OccursAt(text, i)
  PROVE  FirstAt(text) \in 0..Len(message) /\ OccursAt(text, FirstAt(text))
  <1> DEFINE Reads(i) == SubSeq(message, i + 1, i + Len(text)) = text
             T == {i \in 0..Len(message) : Reads(i)}
  <1>1. PICK k \in 0..Len(message) : OccursAt(text, k)
    OBVIOUS
  <1>2. k \in T /\ T \subseteq Nat
    BY <1>1, MessageType DEF OccursAt
  <1>3. PICK i \in T : \A j \in T : i <= j
    <2> HIDE DEF T
    <2> QED BY <1>2, LeastNumber
  <1>4. \A j \in 0..(i - 1) : ~Reads(j)
    <2>1. Len(message) \in Nat
      BY MessageType
    <2> HIDE DEF Reads
    <2> QED BY <1>3, <2>1
  <1>5. FirstAt(text) \in 0..Len(message) /\ Reads(FirstAt(text))
        /\ \A j \in 0..(FirstAt(text) - 1) : ~Reads(j)
    BY <1>3, <1>4 DEF FirstAt
  <1>6. FirstAt(text) <= k
    <2>1. Reads(k) /\ k \in Nat /\ FirstAt(text) \in Nat
      BY <1>2, <1>5, MessageType
    <2>2. \A j \in 0..(FirstAt(text) - 1) : ~Reads(j)
      BY <1>5
    <2> HIDE DEF Reads
    <2> QED BY <2>1, <2>2
  <1>7. FirstAt(text) + Len(text) <= Len(message)
    <2>1. Len(text) \in Nat /\ Len(message) \in Nat /\ k + Len(text) <= Len(message) /\ k \in Nat
          /\ FirstAt(text) \in Nat
      BY <1>1, <1>5, MessageType DEF OccursAt, Texts
    <2> QED BY <1>6, <2>1
  <1> QED BY <1>5, <1>7 DEF OccursAt

---------------------------------------------------------------------------
(* The steps of parsing, and what they do to the types                       *)

LEMMA RuleTyped ==
  ASSUME LoadingType, rule \in 1..Len(rules)
  PROVE  /\ rules[rule] \in DOMAIN RuleOf /\ IsMessageRule(RuleOf[rules[rule]])
         /\ SectionsOf(rule) \in Seq(Sections)
  <1>1. rules[rule] \in DOMAIN RuleOf
    BY DEF LoadingType
  <1>2. RuleOf[rules[rule]].sections \in Seq(Sections)
    BY <1>1, TreesAssumption DEF TreesAssumption
  <1> QED BY <1>1, <1>2, FilesAssumption DEF FilesAssumption, SectionsOf

LEMMA BoundTyped ==
  ASSUME LoadingType, NEW s \in Sections
  PROVE  RulesetOf(s) \in Ids \cup {NoId} /\ TokenRulesOf(s) \in Nat /\ AssignsOf(s) \subseteq Names
  BY DEF LoadingType, IsRuleset, RulesetOf, TokenRulesOf, AssignsOf

LEMMA CapturedNames ==
  ASSUME LoadingType, rule \in 1..Len(rules), NEW names \in FiltersOf(rule)
  PROVE  names \subseteq Names
  <1> DEFINE fs == RuleOf[rules[rule]].filters
  <1>1. PICK k \in DOMAIN fs :
               names = {Normalized(fs[k]).captures[c][1] : c \in DOMAIN Normalized(fs[k]).captures}
    BY DEF FiltersOf
  <1>2. \A c \in DOMAIN Normalized(fs[k]).captures : Normalized(fs[k]).captures[c][1] \in Names
    BY RuleTyped DEF IsMessageRule
  <1> QED BY <1>1, <1>2

LEMMA CallTyped ==
  ASSUME NEW s \in Sections, NEW text \in Texts, NEW base \in Nat
  PROVE  Call(s, text, base) \in CallType
  BY DEF Call, CallType

LEMMA TopTyped ==
  ASSUME ParsingType, stack # <<>>
  PROVE  /\ top = stack[1] /\ top \in CallType /\ Len(stack) \in Nat /\ Len(stack) >= 1
         /\ EngineOf[top.section] \in Engines \cup {"mixed", "other"}
         /\ top.slice <= Len(top.slices) => Slice \in PieceType
  <1>1. top = stack[1] /\ top \in CallType /\ Len(stack) \in Nat /\ Len(stack) >= 1
    BY DEF ParsingType, top
  <1> HIDE DEF top
  <1>2. top.section \in Sections
    BY <1>1 DEF CallType
  <1>3. top.slices \in Seq(PieceType) /\ top.slice \in Nat \ {0}
    BY <1>1 DEF CallType
  <1> QED BY <1>1, <1>2, <1>3, SectionsAssumption DEF SectionsAssumption, Slice

\* What a filter captures are texts of the message.
LEMMA CaptureTyped ==
  ASSUME ParsingType, NEW p \in Pieces(message, 0)
  PROVE  p.text \in Texts /\ \E i \in 0..Len(message) : OccursAt(p.text, i)
  <1>1. p \in PieceType /\ (p = UnsetPiece \/ (0 <= p.from /\ p.to <= Len(message) /\ p = Piece(message, p.from, p.to)))
        /\ p.from <= p.to
    BY MessageType, PieceTyped
  <1>2. CASE p = UnsetPiece
    <2>1. p.text = <<>>
      BY <1>2 DEF UnsetPiece
    <2>2. OccursAt(p.text, 0) /\ 0 \in 0..Len(message)
      BY <2>1, MessageType DEF OccursAt, Texts
    <2> QED BY <1>1, <2>1, <2>2 DEF PieceType
  <1>3. CASE p # UnsetPiece
    <2> DEFINE i == p.from
               j == p.to
    <2>1. i \in Nat /\ j \in Nat /\ i <= j /\ j <= Len(message) /\ p.text = SubSeq(message, i + 1, j)
      BY <1>1, <1>3 DEF Piece, PieceType
    <2> HIDE DEF i, j
    <2>2. Len(p.text) = j - i
      BY <2>1, MessageType, SliceOfText DEF Texts
    <2>3. OccursAt(p.text, i) /\ i \in 0..Len(message)
      <3>1. i + Len(p.text) = j
        BY <2>1, <2>2
      <3> QED BY <2>1, <3>1, MessageType DEF OccursAt
    <2> QED BY <1>1, <2>3 DEF PieceType
  <1> QED BY <1>2, <1>3

(* What a step makes of the stack.                                           *)
Replaced(c) ==
  /\ stack' \in Seq(CallType) /\ Len(stack') = Len(stack) /\ stack' # <<>>
  /\ stack'[1] = c /\ \A d \in 2..Len(stack) : stack'[d] = stack[d]

Pushed(b, c) ==
  /\ stack' \in Seq(CallType) /\ Len(stack') = Len(stack) + 1 /\ stack' # <<>>
  /\ stack'[1] = b /\ stack'[2] = c /\ \A d \in 3..Len(stack') : stack'[d] = stack[d - 1]

Popped(c) ==
  /\ stack' \in Seq(CallType) /\ Len(stack') = Len(stack) - 1 /\ stack' # <<>>
  /\ stack'[1] = c /\ \A d \in 2..Len(stack') : stack'[d] = stack[d + 1]

SameText(c, d) == c.section = d.section /\ c.text = d.text /\ c.base = d.base
SameSlices(c, d) == c.offset = d.offset /\ c.locating = d.locating /\ c.slices = d.slices

LEMMA ReplacedBy ==
  ASSUME ParsingType, stack # <<>>, NEW c \in CallType, SetTop(c) PROVE Replaced(c)
  <1>1. stack \in Seq(CallType) /\ stack' = <<c>> \o Tail(stack)
    BY DEF ParsingType, SetTop
  <1> QED BY <1>1, TopReplaced DEF Replaced

LEMMA PushedOn ==
  ASSUME ParsingType, stack # <<>>, NEW b \in CallType, NEW c \in CallType,
         stack' = <<b, c>> \o Tail(stack)
  PROVE  Pushed(b, c)
  <1>1. stack \in Seq(CallType)
    BY DEF ParsingType
  <1> QED BY <1>1, TopPushed DEF Pushed

LEMMA PoppedTo ==
  ASSUME ParsingType, Len(stack) > 1, NEW c \in CallType, stack' = <<c>> \o Tail(Tail(stack))
  PROVE  Popped(c)
  <1>1. stack \in Seq(CallType)
    BY DEF ParsingType
  <1>2. /\ stack' \in Seq(CallType) /\ stack' # <<>> /\ Len(stack') = Len(stack) - 1 /\ stack'[1] = c
        /\ \A d \in 2..Len(stack') : stack'[d] = stack[d + 1]
    BY <1>1, TopPopped, SMTT(30)
  <1> QED BY <1>2 DEF Popped

(* Calls that differ from others by a few of their fields.                     *)
LEMMA NextChild ==
  ASSUME NEW c \in CallType
  PROVE  \E d \in CallType :
           /\ d = [c EXCEPT !.child = @ + 1] /\ SameText(d, c) /\ SameSlices(d, c)
           /\ d.slice = c.slice /\ d.child = c.child + 1 /\ (d.matched <=> c.matched)
  <1> DEFINE d == [c EXCEPT !.child = @ + 1]
  <1>1. /\ d \in CallType /\ d.section = c.section /\ d.text = c.text /\ d.base = c.base
        /\ d.offset = c.offset /\ d.locating = c.locating /\ d.slices = c.slices
        /\ d.slice = c.slice /\ d.child = c.child + 1 /\ d.matched = c.matched
    BY DEF CallType
  <1> HIDE DEF d
  <1> QED BY <1>1 DEF d, SameText, SameSlices

LEMMA SliceLeft ==
  ASSUME NEW c \in CallType
  PROVE  \E d \in CallType :
           /\ d = [c EXCEPT !.slice = @ + 1, !.child = 1] /\ SameText(d, c) /\ SameSlices(d, c)
           /\ d.slice = c.slice + 1 /\ d.child = 1 /\ (d.matched <=> c.matched)
  <1> DEFINE e == [c EXCEPT !.slice = @ + 1]
             d == [e EXCEPT !.child = 1]
  <1>1. /\ e \in CallType /\ e.section = c.section /\ e.text = c.text /\ e.base = c.base
        /\ e.offset = c.offset /\ e.locating = c.locating /\ e.slices = c.slices
        /\ e.slice = c.slice + 1 /\ e.matched = c.matched
    BY DEF CallType
  <1>2. d = [c EXCEPT !.slice = @ + 1, !.child = 1]
    OBVIOUS
  <1> HIDE DEF e
  <1>3. /\ d \in CallType /\ d.section = e.section /\ d.text = e.text /\ d.base = e.base
        /\ d.offset = e.offset /\ d.locating = e.locating /\ d.slices = e.slices
        /\ d.slice = e.slice /\ d.child = 1 /\ d.matched = e.matched
    BY <1>1 DEF CallType
  <1> HIDE DEF d
  <1> QED BY <1>1, <1>2, <1>3 DEF SameText, SameSlices

LEMMA CallLocated ==
  ASSUME NEW c \in CallType, NEW ss \in Seq(PieceType)
  PROVE  \E d \in CallType :
           /\ d = [c EXCEPT !.locating = FALSE, !.slices = ss] /\ SameText(d, c)
           /\ d.offset = c.offset /\ ~d.locating /\ d.slices = ss
           /\ d.slice = c.slice /\ d.child = c.child /\ (d.matched <=> c.matched)
  <1> DEFINE d == [c EXCEPT !.locating = FALSE, !.slices = ss]
  <1>1. /\ d \in CallType /\ d.section = c.section /\ d.text = c.text /\ d.base = c.base
        /\ d.offset = c.offset /\ d.locating = FALSE /\ d.slices = ss
        /\ d.slice = c.slice /\ d.child = c.child /\ d.matched = c.matched
    BY DEF CallType
  <1> HIDE DEF d
  <1> QED BY <1>1 DEF d, SameText

LEMMA MatchedWith ==
  ASSUME NEW c \in CallType, NEW m \in BOOLEAN
  PROVE  \E d \in CallType :
           /\ d = [c EXCEPT !.matched = m] /\ SameText(d, c) /\ SameSlices(d, c)
           /\ d.slice = c.slice /\ d.child = c.child /\ (d.matched <=> m)
  <1> DEFINE d == [c EXCEPT !.matched = m]
  <1>1. /\ d \in CallType /\ d.section = c.section /\ d.text = c.text /\ d.base = c.base
        /\ d.offset = c.offset /\ d.locating = c.locating /\ d.slices = c.slices
        /\ d.slice = c.slice /\ d.child = c.child /\ d.matched = m
    BY DEF CallType
  <1> HIDE DEF d
  <1> QED BY <1>1 DEF d, SameText, SameSlices

LEMMA NoLocatorEffect ==
  ASSUME ParsingType, NoLocator
  PROVE  \E c \in CallType :
           /\ Replaced(c) /\ SameText(c, top) /\ c.offset = top.offset /\ ~c.locating
           /\ c.slices = <<At(top.base, Piece(top.text, 0, Len(top.text)))>>
           /\ c.slice = top.slice /\ c.child = top.child /\ c.matched = top.matched
  <1> DEFINE p == Piece(top.text, 0, Len(top.text))
             ss == <<At(top.base, p)>>
             c == [top EXCEPT !.locating = FALSE, !.slices = ss]
  <1>1. stack # <<>> /\ top \in CallType /\ SetTop(c)
    BY TopTyped DEF NoLocator, Locating
  <1> HIDE DEF top
  <1>2. top.text \in Texts /\ top.base \in Nat
    BY <1>1 DEF CallType
  <1>3. p \in PieceType
    <2>1. Len(top.text) \in Nat /\ 0 <= Len(top.text) /\ SubSeq(top.text, 0 + 1, Len(top.text)) \in Texts
      BY <1>2, SliceOfText DEF Texts
    <2> QED BY <2>1 DEF Piece, PieceType
  <1> HIDE DEF p
  <1>4. ss \in Seq(PieceType)
    BY <1>2, <1>3, ShiftedType
  <1> HIDE DEF ss
  <1>5. /\ c \in CallType /\ c.section = top.section /\ c.text = top.text /\ c.base = top.base
        /\ c.offset = top.offset /\ c.locating = FALSE /\ c.slices = ss /\ c.slice = top.slice
        /\ c.child = top.child /\ c.matched = top.matched
    BY <1>1, <1>4 DEF CallType
  <1> HIDE DEF c
  <1>6. Replaced(c)
    BY <1>1, <1>5, ReplacedBy
  <1>7. c.slices = <<At(top.base, Piece(top.text, 0, Len(top.text)))>>
    BY <1>5 DEF ss, p
  <1> QED BY <1>5, <1>6, <1>7 DEF SameText

LEMMA LocateNothingEffect ==
  ASSUME ParsingType, LocateNothing
  PROVE  \E c \in CallType :
           /\ Replaced(c) /\ SameText(c, top) /\ c.offset = top.offset /\ ~c.locating
           /\ c.slices = top.slices
           /\ c.slice = top.slice /\ c.child = top.child /\ c.matched = top.matched
  <1> DEFINE c == [top EXCEPT !.locating = FALSE]
  <1>1. stack # <<>> /\ top \in CallType /\ SetTop(c)
    BY TopTyped DEF LocateNothing, Locating
  <1> HIDE DEF top
  <1>2. /\ c \in CallType /\ c.section = top.section /\ c.text = top.text /\ c.base = top.base
        /\ c.offset = top.offset /\ c.locating = FALSE /\ c.slices = top.slices /\ c.slice = top.slice
        /\ c.child = top.child /\ c.matched = top.matched
    BY <1>1 DEF CallType
  <1> HIDE DEF c
  <1>3. Replaced(c)
    BY <1>1, <1>2, ReplacedBy
  <1> QED BY <1>2, <1>3 DEF SameText

LEMMA LocateSliceEffect ==
  ASSUME ParsingType, LocateSlice
  PROVE  \E piece \in Pieces(top.text, top.offset) : \E c \in CallType :
           /\ Replaced(c) /\ SameText(c, top) /\ c.offset = piece.to
           /\ (c.locating <=> GoesOn(piece))
           /\ c.slices = Append(top.slices, At(top.base, piece))
           /\ c.slice = top.slice /\ c.child = top.child /\ c.matched = top.matched
  <1>1. stack # <<>> /\ top \in CallType
    BY TopTyped DEF LocateSlice, Locating
  <1>2. PICK piece \in Pieces(top.text, top.offset) :
          SetTop([top EXCEPT !.locating = GoesOn(piece), !.offset = piece.to,
                             !.slices = Append(@, At(top.base, piece))])
    BY DEF LocateSlice
  <1> DEFINE g == GoesOn(piece)
             ss == Append(top.slices, At(top.base, piece))
             c == [top EXCEPT !.locating = g, !.offset = piece.to, !.slices = ss]
  <1>3. SetTop(c)
    BY <1>2
  <1> HIDE DEF top
  <1>4. g \in BOOLEAN
    BY DEF GoesOn
  <1>5. top.text \in Texts /\ top.base \in Nat /\ top.offset \in Nat /\ top.slices \in Seq(PieceType)
    BY <1>1 DEF CallType
  <1>6. piece \in PieceType /\ piece.to \in Nat
    BY <1>5, PieceTyped DEF PieceType
  <1>7. ss \in Seq(PieceType)
    BY <1>5, <1>6, ShiftedType
  <1> HIDE DEF g, ss
  <1>8. /\ c \in CallType /\ c.section = top.section /\ c.text = top.text /\ c.base = top.base
        /\ c.offset = piece.to /\ (c.locating <=> g) /\ c.slices = ss /\ c.slice = top.slice
        /\ c.child = top.child /\ c.matched = top.matched
    <2> DEFINE e == [top EXCEPT !.offset = piece.to, !.slices = ss]
    <2>1. /\ e \in CallType /\ e.section = top.section /\ e.text = top.text /\ e.base = top.base
          /\ e.offset = piece.to /\ e.slices = ss /\ e.slice = top.slice
          /\ e.child = top.child /\ e.matched = top.matched
      BY <1>1, <1>6, <1>7 DEF CallType
    <2>2. c = [e EXCEPT !.locating = g]
      BY <1>1 DEF CallType
    <2> HIDE DEF e, c
    <2> QED BY <1>4, <2>1, <2>2 DEF CallType
  <1> HIDE DEF c
  <1>9. Replaced(c)
    BY <1>1, <1>3, <1>8, ReplacedBy
  <1> QED BY <1>8, <1>9 DEF SameText, g, ss

\* A call whose engine is done with a slice.
LEMMA SliceDone ==
  ASSUME NEW c \in CallType, NEW m \in BOOLEAN
  PROVE  \E d \in CallType :
           /\ d = [c EXCEPT !.slice = @ + 1, !.matched = m]
           /\ d.slice = c.slice + 1 /\ (d.matched <=> m)
           /\ d.section = c.section /\ d.text = c.text /\ d.base = c.base /\ d.offset = c.offset
           /\ d.locating = c.locating /\ d.slices = c.slices /\ d.child = c.child
  <1> DEFINE e == [c EXCEPT !.slice = @ + 1]
             d == [e EXCEPT !.matched = m]
  <1>1. /\ e \in CallType /\ e.slice = c.slice + 1 /\ e.section = c.section /\ e.text = c.text
        /\ e.base = c.base /\ e.offset = c.offset /\ e.locating = c.locating /\ e.slices = c.slices
        /\ e.child = c.child
    BY DEF CallType
  <1>2. d = [c EXCEPT !.slice = @ + 1, !.matched = m]
    OBVIOUS
  <1> HIDE DEF e
  <1>3. d \in CallType
    BY <1>1 DEF CallType
  <1>4. /\ d.slice = e.slice /\ d.matched = m /\ d.section = e.section /\ d.text = e.text
        /\ d.base = e.base /\ d.offset = e.offset /\ d.locating = e.locating /\ d.slices = e.slices
        /\ d.child = e.child
    BY <1>1 DEF CallType
  <1> HIDE DEF d
  <1> QED BY <1>1, <1>2, <1>3, <1>4

\* What an engine adds: a token for each piece, placed in the message.
LEMMA TokensAdded ==
  ASSUME ParsingType, stack # <<>>, top.slice <= Len(top.slices),
         NEW n \in Nat, NEW pieces \in [1..n -> PieceType], AddTokens(pieces)
  PROVE  /\ tokens' \in Seq(TokenType) /\ Len(tokens') = Len(tokens) + n
         /\ \A k \in 1..Len(tokens) : tokens'[k] = tokens[k]
         /\ \A k \in 1..n : tokens'[Len(tokens) + k] =
              [section |-> top.section, text |-> pieces[k].text,
               from |-> Slice.from + pieces[k].from, to |-> Slice.from + pieces[k].to]
         /\ \E c \in CallType :
              /\ SetTop(c) /\ c.slice = top.slice + 1 /\ (c.matched <=> top.matched \/ n > 0)
              /\ c.section = top.section /\ c.text = top.text /\ c.base = top.base
              /\ c.offset = top.offset /\ c.locating = top.locating /\ c.slices = top.slices
              /\ c.child = top.child
  <1> DEFINE new == [k \in 1..n |-> [section |-> top.section, text |-> pieces[k].text,
                                     from |-> Slice.from + pieces[k].from,
                                     to |-> Slice.from + pieces[k].to]]
             m == top.matched \/ pieces # <<>>
             c == [top EXCEPT !.slice = @ + 1, !.matched = m]
  <1>1. pieces \in Seq(PieceType) /\ Len(pieces) = n /\ (pieces # <<>> <=> n > 0)
    OBVIOUS
  <1>2. top \in CallType /\ Slice \in PieceType
    BY TopTyped
  <1> HIDE DEF top, Slice
  <1>3. top.section \in Sections
    BY <1>2 DEF CallType
  <1>4. new \in [1..n -> TokenType]
    BY <1>2, <1>3 DEF PieceType, TokenType
  <1>6. tokens' = tokens \o new
    BY <1>1 DEF AddTokens
  <1>7. tokens \in Seq(TokenType)
    BY DEF ParsingType
  <1>8. \A k \in 1..n : new[k] = [section |-> top.section, text |-> pieces[k].text,
               from |-> Slice.from + pieces[k].from, to |-> Slice.from + pieces[k].to]
    OBVIOUS
  <1>9. SetTop(c)
    BY DEF AddTokens
  <1>10. m \in BOOLEAN /\ (m <=> top.matched \/ n > 0)
    BY <1>1
  <1> HIDE DEF m, new
  <1>11. /\ c \in CallType /\ c.slice = top.slice + 1 /\ (c.matched <=> m)
         /\ c.section = top.section /\ c.text = top.text /\ c.base = top.base /\ c.offset = top.offset
         /\ c.locating = top.locating /\ c.slices = top.slices /\ c.child = top.child
    <2>1. top \in CallType
      BY <1>2
    <2>2. m \in BOOLEAN
      BY <1>10
    <2>3. PICK d \in CallType :
            /\ d = c /\ d.slice = top.slice + 1 /\ (d.matched <=> m)
            /\ d.section = top.section /\ d.text = top.text /\ d.base = top.base
            /\ d.offset = top.offset /\ d.locating = top.locating /\ d.slices = top.slices
            /\ d.child = top.child
      <3>1. \E d \in CallType :
              /\ d = [top EXCEPT !.slice = @ + 1, !.matched = m]
              /\ d.slice = top.slice + 1 /\ (d.matched <=> m)
              /\ d.section = top.section /\ d.text = top.text /\ d.base = top.base
              /\ d.offset = top.offset /\ d.locating = top.locating /\ d.slices = top.slices
              /\ d.child = top.child
        <4> HIDE DEF c
        <4> QED BY <2>1, <2>2, SliceDone, ZenonT(60)
      <3>2. c = [top EXCEPT !.slice = @ + 1, !.matched = m]
        OBVIOUS
      <3> HIDE DEF c
      <3> QED BY <3>1, <3>2, Zenon
    <2> QED BY <2>3
  <1> HIDE DEF c
  <1>12. tokens' \in Seq(TokenType) /\ Longer(tokens', tokens, n, new)
    BY <1>4, <1>6, <1>7, LongerBy
  <1> QED BY <1>8, <1>9, <1>10, <1>11, <1>12 DEF Longer

LEMMA OpenChildEffect ==
  ASSUME ParsingType, OpenChild
  PROVE  /\ Children[top.child] \in Sections /\ Slice \in PieceType
         /\ \E c \in CallType :
              /\ Pushed(Call(Children[top.child], Slice.text, Slice.from), c)
              /\ SameText(c, top) /\ SameSlices(c, top)
              /\ c.slice = top.slice /\ c.child = top.child + 1 /\ (c.matched <=> top.matched)
         /\ Call(Children[top.child], Slice.text, Slice.from) \in CallType
  <1> DEFINE c == [top EXCEPT !.child = @ + 1]
             b == Call(Children[top.child], Slice.text, Slice.from)
  <1>1. /\ stack # <<>> /\ top \in CallType /\ Slice \in PieceType
        /\ stack' = <<b, c>> \o Tail(stack) /\ top.child <= Len(Children)
    BY TopTyped DEF OpenChild, Parsing
  <1> HIDE DEF top, Slice
  <1>2. Children[top.child] \in Sections
    <2>1. top.section \in Sections /\ top.child \in Nat \ {0}
      BY <1>1 DEF CallType
    <2>2. Children \in Seq(Sections)
      BY <2>1, TreesAssumption DEF TreesAssumption, Children
    <2> QED BY <1>1, <2>1, <2>2
  <1>3. top \in CallType
    BY <1>1
  <1>4. b \in CallType
    BY <1>1, <1>2, CallTyped DEF PieceType
  <1> HIDE DEF b
  <1>5. PICK d \in CallType :
          /\ d = c /\ SameText(d, top) /\ SameSlices(d, top)
          /\ d.slice = top.slice /\ d.child = top.child + 1 /\ (d.matched <=> top.matched)
    BY <1>3, NextChild
  <1> HIDE DEF c
  <1>6. Pushed(b, d)
    BY <1>1, <1>4, <1>5, PushedOn
  <1> QED BY <1>1, <1>2, <1>4, <1>5, <1>6 DEF b

LEMMA NextSliceEffect ==
  ASSUME ParsingType, NextSlice
  PROVE  \E c \in CallType :
           /\ Replaced(c) /\ SameText(c, top) /\ SameSlices(c, top)
           /\ c.slice = top.slice + 1 /\ c.child = 1 /\ (c.matched <=> top.matched)
  <1> DEFINE c == [top EXCEPT !.slice = @ + 1, !.child = 1]
  <1>1. stack # <<>> /\ top \in CallType /\ SetTop(c)
    BY TopTyped DEF NextSlice, Parsing
  <1> HIDE DEF top
  <1>2. top \in CallType
    BY <1>1
  <1>3. PICK d \in CallType :
          /\ d = c /\ SameText(d, top) /\ SameSlices(d, top)
          /\ d.slice = top.slice + 1 /\ d.child = 1 /\ (d.matched <=> top.matched)
    BY <1>2, SliceLeft
  <1> HIDE DEF c
  <1>4. Replaced(d)
    BY <1>1, <1>3, ReplacedBy
  <1> QED BY <1>3, <1>4

LEMMA ReturnEffect ==
  ASSUME ParsingType, stack # <<>>, Return
  PROVE  \/ Len(stack) = 1 /\ stack' = <<>>
         \/ /\ Len(stack) > 1 /\ stack[2] \in CallType
            /\ \E c \in CallType :
                 /\ Popped(c) /\ SameText(c, stack[2]) /\ SameSlices(c, stack[2])
                 /\ c.slice = stack[2].slice /\ c.child = stack[2].child
                 /\ (c.matched <=> stack[2].matched \/ top.matched)
  <1>0. Len(stack) \in Nat /\ Len(stack) >= 1
    BY TopTyped
  <1>1. stack \in Seq(CallType)
    BY DEF ParsingType
  <1>2. CASE Len(stack) = 1
    BY <1>2 DEF Return
  <1>3. CASE Len(stack) > 1
    <2> DEFINE m == stack[2].matched \/ top.matched
               c == [stack[2] EXCEPT !.matched = m]
    <2>0. Len(stack) # 1 /\ 2 \in 1..Len(stack)
      BY <1>0, <1>3
    <2>1. stack[2] \in CallType /\ m \in BOOLEAN
      BY <1>1, <2>0
    <2>2. stack' = <<c>> \o Tail(Tail(stack))
      BY <2>0, Zenon DEF Return
    <2> HIDE DEF m
    <2>3. PICK d \in CallType :
            /\ d = c /\ SameText(d, stack[2]) /\ SameSlices(d, stack[2])
            /\ d.slice = stack[2].slice /\ d.child = stack[2].child /\ (d.matched <=> m)
      BY <2>1, MatchedWith
    <2> HIDE DEF c
    <2>4. Popped(d)
      BY <1>3, <2>2, <2>3, PoppedTo
    <2>5. d.matched <=> stack[2].matched \/ top.matched
      BY <2>3 DEF m
    <2> QED BY <1>3, <2>1, <2>3, <2>4, <2>5
  <1>4. Len(stack) = 1 \/ Len(stack) > 1
    BY <1>0
  <1> QED BY <1>2, <1>3, <1>4, Zenon

Entered(c) == stack' \in Seq(CallType) /\ Len(stack') = 1 /\ stack' # <<>> /\ stack'[1] = c

LEMMA EnterWholeEffect ==
  ASSUME Typed, EnterWhole
  PROVE  /\ Section \in Sections /\ Call(Section, message, 0) \in CallType
         /\ Entered(Call(Section, message, 0))
  <1>1. Section \in Sections
    BY RuleTyped DEF Typed, ParsingType, EnterWhole, Entering, Section
  <1>2. Call(Section, message, 0) \in CallType
    BY <1>1, MessageType, CallTyped DEF Typed
  <1> QED BY <1>1, <1>2 DEF EnterWhole, Entered

\* The slice that a captured text is: where the text first occurs.
LEMMA EnterCapturedEffect ==
  ASSUME Typed, EnterCaptured
  PROVE  /\ Section \in Sections
         /\ \E i \in 0..Len(message) : \E c \in CallType : \E slice \in PieceType :
              /\ slice.from = i /\ slice.to = i + Len(slice.text) /\ OccursAt(slice.text, i)
              /\ Entered(c) /\ c.section = Section /\ c.text = message /\ c.base = 0
              /\ c.offset = 0 /\ ~c.locating /\ c.slices = <<slice>>
              /\ c.slice = 1 /\ c.child = 1 /\ ~c.matched
  <1>1. Section \in Sections
    BY RuleTyped DEF Typed, ParsingType, EnterCaptured, Entering, Section
  <1> DEFINE text == captures[ExtractOf[Section]]
             i == FirstAt(text)
             slice == Piece(message, i, i + Len(text))
             call == Call(Section, message, 0)
             ss == <<slice>>
             c == [call EXCEPT !.locating = FALSE, !.slices = ss]
  <1>2. text \in Texts /\ \E k \in 0..Len(message) : OccursAt(text, k)
    BY DEF Typed, ParsingType, Captured, EnterCaptured
  <1>3. stack' = <<c>>
    BY DEF EnterCaptured
  <1>4. call \in CallType
    BY <1>1, MessageType, CallTyped DEF Typed
  <1>5. /\ call.section = Section /\ call.text = message /\ call.base = 0 /\ call.offset = 0
        /\ call.slice = 1 /\ call.child = 1 /\ call.matched = FALSE
    BY DEF Call
  <1> HIDE DEF text, call
  <1>6. i \in 0..Len(message) /\ OccursAt(text, i)
    BY <1>2, FirstOccurrence DEF Typed
  <1> HIDE DEF i
  <1>7. /\ slice.from = i /\ slice.to = i + Len(slice.text) /\ slice.text = text
        /\ slice \in PieceType
    <2>1. slice.from = i /\ slice.to = i + Len(text) /\ slice.text = text
      BY <1>6 DEF Piece, OccursAt
    <2>2. i \in Nat /\ i + Len(text) \in Nat
      BY <1>2, <1>6 DEF Texts
    <2>3. slice = [from |-> i, to |-> i + Len(text), text |-> text]
      BY <1>6 DEF Piece, OccursAt
    <2> QED BY <1>2, <2>1, <2>2, <2>3 DEF PieceType
  <1> HIDE DEF slice
  <1>8. ss \in Seq(PieceType)
    BY <1>7
  <1> HIDE DEF ss
  <1>9. PICK d \in CallType :
          /\ d = c /\ SameText(d, call) /\ d.offset = call.offset /\ ~d.locating
          /\ d.slices = ss /\ d.slice = call.slice /\ d.child = call.child
          /\ (d.matched <=> call.matched)
    BY <1>4, <1>8, CallLocated
  <1> HIDE DEF c
  <1>10. Entered(d)
    BY <1>3, <1>9 DEF Entered
  <1> QED BY <1>1, <1>5, <1>6, <1>7, <1>9, <1>10 DEF SameText, ss

\* A pair encloses its value.
LEMMA PairTyped ==
  ASSUME NEW text \in Texts, NEW p \in Pairs(text)
  PROVE  /\ p \in PieceType /\ p.from < p.to /\ p.to <= Len(text)
         /\ \E i, j \in p.from..p.to : i <= j /\ p.text = SubSeq(text, i + 1, j)
  <1> DEFINE placed == Pieces(text, 0) \ {UnsetPiece}
  <1>1. PICK pair \in placed :
          /\ pair.from < pair.to
          /\ \E value \in placed : /\ pair.from <= value.from /\ value.to <= pair.to
                                   /\ p = [from |-> pair.from, to |-> pair.to, text |-> value.text]
    BY DEF Pairs
  <1>2. PICK value \in placed : /\ pair.from <= value.from /\ value.to <= pair.to
                                /\ p = [from |-> pair.from, to |-> pair.to, text |-> value.text]
    BY <1>1
  <1>3. /\ pair \in PieceType /\ pair.to <= Len(text)
        /\ value \in PieceType /\ value.from <= value.to /\ value = Piece(text, value.from, value.to)
    BY PieceTyped
  <1>4. /\ p.from = pair.from /\ p.to = pair.to /\ p.text = value.text /\ p \in PieceType
        /\ value.from \in Nat /\ value.to \in Nat /\ pair.from \in Nat /\ pair.to \in Nat
    BY <1>2, <1>3 DEF PieceType
  <1>5. value.text = SubSeq(text, value.from + 1, value.to)
    BY <1>3 DEF Piece
  <1>6. value.from \in p.from..p.to /\ value.to \in p.from..p.to
    BY <1>2, <1>3, <1>4
  <1>7. \E i, j \in p.from..p.to : i <= j /\ p.text = SubSeq(text, i + 1, j)
    BY <1>3, <1>4, <1>5, <1>6, Zenon
  <1> QED BY <1>1, <1>3, <1>4, <1>7

\* What the engines have in common.
FoundPieces(n, pieces) ==
  /\ pieces \in [1..n -> PieceType]
  /\ \A k \in 1..n : IF EngineOf[top.section] = "kv" THEN pieces[k] \in Pairs(Slice.text)
                                                     ELSE pieces[k] \in Pieces(Slice.text, 0)

EngineStep == ParseRegex \/ ParseKv \/ ParseJson

LEMMA EngineEffect ==
  ASSUME Typed, EngineStep
  PROVE  /\ stack # <<>> /\ ~top.locating /\ top.slice <= Len(top.slices)
         /\ EngineOf[top.section] \in Engines /\ Slice \in PieceType
         /\ UNCHANGED <<message, rule, pc, captures, next, extraction, properties>>
         /\ errors' \subseteq Kinds
         /\ \E n \in Nat : \E pieces : FoundPieces(n, pieces) /\ AddTokens(pieces)
  <1>1. errors \subseteq Kinds
    BY DEF Typed, ParsingType
  <1>2. ASSUME stack # <<>>, top.slice <= Len(top.slices)
        PROVE  /\ Slice \in PieceType /\ Slice.text \in Texts /\ Len(Slice.text) \in Nat
               /\ TokenRulesOf(top.section) \in Nat
    <2>1. Slice \in PieceType /\ top \in CallType
      BY <1>2, TopTyped DEF Typed
    <2> HIDE DEF top, Slice
    <2>2. top.section \in Sections /\ Slice.text \in Texts
      BY <2>1 DEF CallType, PieceType
    <2> QED BY <2>1, <2>2, BoundTyped DEF Typed, Texts
  <1>3. CASE ParseRegex
    <2>1. Parsing({"regex"}) /\ EngineOf[top.section] = "regex" /\ stack # <<>> /\ ~top.locating
          /\ top.slice <= Len(top.slices)
      BY <1>3 DEF ParseRegex, Parsing
    <2>2. PICK n \in 0..TokenRulesOf(top.section) :
            /\ \E pieces \in [1..n -> Pieces(Slice.text, 0)] : AddTokens(pieces)
            /\ IF n < TokenRulesOf(top.section) THEN MayReport("token") ELSE UNCHANGED errors
      BY <1>3 DEF ParseRegex
    <2>3. PICK pieces \in [1..n -> Pieces(Slice.text, 0)] : AddTokens(pieces)
      BY <2>2
    <2>4. n \in Nat /\ Pieces(Slice.text, 0) \subseteq PieceType
      BY <1>2, <2>1, <2>2, PieceTyped
    <2>5. FoundPieces(n, pieces)
      BY <2>1, <2>3, <2>4 DEF FoundPieces
    <2>6. errors' \subseteq Kinds
      BY <1>1, <2>2 DEF MayReport, Kinds
    <2>7. UNCHANGED <<message, rule, pc, captures, next, extraction, properties>>
      BY <1>3 DEF ParseRegex
    <2> QED BY <1>2, <2>1, <2>3, <2>4, <2>5, <2>6, <2>7 DEF Engines
  <1>4. CASE ParseKv
    <2>1. Parsing({"kv"}) /\ EngineOf[top.section] = "kv" /\ stack # <<>> /\ ~top.locating
          /\ top.slice <= Len(top.slices)
      BY <1>4 DEF ParseKv, Parsing
    <2>2. PICK n \in 0..Len(Slice.text) : \E pieces \in [1..n -> Pairs(Slice.text)] : AddTokens(pieces)
      BY <1>4 DEF ParseKv
    <2>3. PICK pieces \in [1..n -> Pairs(Slice.text)] : AddTokens(pieces)
      BY <2>2
    <2>4. n \in Nat /\ Pairs(Slice.text) \subseteq PieceType
      BY <1>2, <2>1, <2>2, PairTyped
    <2>5. FoundPieces(n, pieces)
      BY <2>1, <2>3, <2>4 DEF FoundPieces
    <2>6. UNCHANGED <<message, rule, pc, captures, next, extraction, properties, errors>>
      BY <1>4 DEF ParseKv
    <2> QED BY <1>1, <1>2, <2>1, <2>3, <2>4, <2>5, <2>6 DEF Engines
  <1>5. CASE ParseJson
    <2>1. Parsing({"json"}) /\ EngineOf[top.section] = "json" /\ stack # <<>> /\ ~top.locating
          /\ top.slice <= Len(top.slices)
      BY <1>5 DEF ParseJson, Parsing
    <2>2. PICK n \in 0..TokenRulesOf(top.section) :
            \E pieces \in [1..n -> Pieces(Slice.text, 0) \ {UnsetPiece}] : AddTokens(pieces)
      BY <1>5 DEF ParseJson
    <2>3. PICK pieces \in [1..n -> Pieces(Slice.text, 0) \ {UnsetPiece}] : AddTokens(pieces)
      BY <2>2
    <2>4. n \in Nat /\ Pieces(Slice.text, 0) \subseteq PieceType
      BY <1>2, <2>1, <2>2, PieceTyped
    <2>5. FoundPieces(n, pieces)
      BY <2>1, <2>3, <2>4 DEF FoundPieces
    <2>6. errors' \subseteq Kinds
      BY <1>1, <1>5 DEF ParseJson, MayReport, Kinds
    <2>7. UNCHANGED <<message, rule, pc, captures, next, extraction, properties>>
      BY <1>5 DEF ParseJson
    <2> QED BY <1>2, <2>1, <2>3, <2>4, <2>5, <2>6, <2>7 DEF Engines
  <1> QED BY <1>3, <1>4, <1>5 DEF EngineStep

LEMMA RecordedType ==
  ASSUME NEW ids \in Seq(Ids), NEW id \in Ids \cup {NoId} PROVE WithId(ids, id) \in Seq(Ids)
  BY DEF WithId

LEMMA EmptyTyped == <<>> \in Seq(CallType) /\ <<>> \in Seq(TokenType) /\ <<>> \in Seq(Ids)
  OBVIOUS

\* What a step leaves of the types when it deals with the stack alone.
LEMMA StackTyped ==
  ASSUME Typed, phase = "loaded", UNCHANGED loading,
         UNCHANGED <<message, rule, pc, captures, tokens, extraction, properties>>,
         next' \in Nat \ {0}, pc = "filter" => next' = 1,
         errors' \subseteq Kinds, stack' \in Seq(CallType), pc # "sections" => stack' = <<>>
  PROVE  Typed'
  <1>1. LoadingType' /\ Captured'
    BY DEF Typed, LoadingType, loading, Captured, OccursAt, Items, Reading, Entry
  <1>2. ParsingType'
    BY DEF Typed, ParsingType, loading
  <1>3. Idle'
    BY DEF Typed, Idle, loading
  <1> QED BY <1>1, <1>2, <1>3 DEF Typed

LEMMA FilterTyped ==
  ASSUME Typed, phase = "loaded", UNCHANGED loading, RuleRejects \/ RuleMatches \/ NoRuleMatches
  PROVE  Typed'
  <1>1. LoadingType'
    BY DEF Typed, LoadingType, loading, Items, Reading, Entry
  <1>2. Len(rules) \in Nat /\ pc = "filter" /\ stack = <<>> /\ rules' = rules /\ phase' = "loaded"
    BY DEF Typed, Idle, LoadingType, RuleRejects, RuleMatches, NoRuleMatches, loading
  <1>3. CASE RuleRejects
    <2>1. ParsingType'
      BY <1>2, <1>3 DEF Typed, ParsingType, RuleRejects, MayReport, Kinds
    <2>2. Idle' /\ Captured'
      BY <1>2, <1>3 DEF Typed, Idle, Captured, OccursAt, RuleRejects
    <2> QED BY <1>1, <2>1, <2>2 DEF Typed
  <1>4. CASE RuleMatches
    <2>1. rule \in 1..Len(rules)
      BY <1>2, <1>4 DEF Typed, ParsingType, RuleMatches
    <2>2. PICK names \in FiltersOf(rule) : \E set \in SUBSET names :
            /\ captures' \in [set -> {p.text : p \in Pieces(message, 0)}]
            /\ IF set = names THEN MayReport("filter") ELSE Report("filter")
      BY <1>4 DEF RuleMatches
    <2>3. PICK set \in SUBSET names :
            /\ captures' \in [set -> {p.text : p \in Pieces(message, 0)}]
            /\ IF set = names THEN MayReport("filter") ELSE Report("filter")
      BY <2>2
    <2>4. names \subseteq Names
      BY <2>1, CapturedNames DEF Typed
    <2>5. DOMAIN captures' \subseteq Names
          /\ \A n \in DOMAIN captures' : captures'[n] \in {p.text : p \in Pieces(message, 0)}
      BY <2>3, <2>4
    <2>6. \A n \in DOMAIN captures' : /\ captures'[n] \in Texts
                                      /\ \E i \in 0..Len(message) : OccursAt(captures'[n], i)
      BY <2>5, CaptureTyped DEF Typed
    <2>7. extraction' \in Seq(Ids)
      <3>1. RuleOf[rules[rule]].id \in Ids \cup {NoId}
        BY <2>1, RuleTyped DEF Typed, IsMessageRule
      <3> QED BY <1>4, <3>1, RecordedType, EmptyTyped DEF RuleMatches
    <2>8. errors' \subseteq Kinds
      BY <2>3 DEF MayReport, Report, Kinds, Typed, ParsingType
    <2>9. pc' = "sections" /\ UNCHANGED <<message, rule, next, stack, tokens, properties>>
      BY <1>4 DEF RuleMatches
    <2>10. ParsingType'
      BY <1>2, <2>1, <2>5, <2>6, <2>7, <2>8, <2>9 DEF Typed, ParsingType
    <2>11. Idle' /\ Captured'
      BY <1>2, <2>6, <2>9 DEF Idle, Captured, OccursAt
    <2> QED BY <1>1, <2>10, <2>11 DEF Typed
  <1>5. CASE NoRuleMatches
    <2>1. ParsingType'
      BY <1>2, <1>5 DEF Typed, ParsingType, NoRuleMatches, Report, Kinds
    <2>2. Idle' /\ Captured'
      BY <1>2, <1>5 DEF Typed, Idle, Captured, OccursAt, NoRuleMatches
    <2> QED BY <1>1, <2>1, <2>2 DEF Typed
  <1> QED BY <1>3, <1>4, <1>5

LEMMA RecordedProperties ==
  ASSUME Typed, stack # <<>>, NEW names \in SUBSET AssignsOf(top.section),
         properties' = Inserted(names, Value(top.section))
  PROVE  /\ DOMAIN properties' \subseteq Names
         /\ \A n \in DOMAIN properties' : properties'[n] \in [section: Sections, seen: Nat]
  <1>1. top \in CallType
    BY TopTyped DEF Typed
  <1> HIDE DEF top
  <1>2. top.section \in Sections
    BY <1>1 DEF CallType
  <1>3. names \subseteq Names
    BY <1>2, BoundTyped DEF Typed
  <1>4. Len(tokens) \in Nat
    BY DEF Typed, ParsingType
  <1>5. Value(top.section) \in [section: Sections, seen: Nat]
    BY <1>2, <1>4 DEF Value
  <1> QED BY <1>3, <1>5 DEF Inserted, Typed, ParsingType

LEMMA EngineTyped ==
  ASSUME Typed, phase = "loaded", UNCHANGED loading, EngineStep PROVE Typed'
  <1>1. /\ stack # <<>> /\ top.slice <= Len(top.slices)
        /\ UNCHANGED <<message, rule, pc, captures, next, extraction, properties>>
        /\ errors' \subseteq Kinds
        /\ \E n \in Nat : \E pieces : FoundPieces(n, pieces) /\ AddTokens(pieces)
    BY EngineEffect
  <1>2. PICK n \in Nat : \E pieces : FoundPieces(n, pieces) /\ AddTokens(pieces)
    BY <1>1
  <1>3. PICK pieces : FoundPieces(n, pieces) /\ AddTokens(pieces)
    BY <1>2
  <1>4. ParsingType /\ pieces \in [1..n -> PieceType]
    BY <1>3 DEF Typed, FoundPieces
  <1>5. tokens' \in Seq(TokenType) /\ \E c \in CallType : SetTop(c)
    BY <1>1, <1>3, <1>4, TokensAdded
  <1>6. stack' \in Seq(CallType)
    BY <1>1, <1>4, <1>5, ReplacedBy DEF Replaced
  <1>7. LoadingType' /\ Captured'
    BY <1>1 DEF Typed, LoadingType, loading, Captured, OccursAt, Items, Reading, Entry
  <1>8. pc = "sections"
    BY <1>1 DEF Typed, Idle
  <1>9. ParsingType'
    BY <1>1, <1>5, <1>6 DEF Typed, ParsingType, loading
  <1>10. Idle'
    BY <1>1, <1>8 DEF Typed, Idle, loading
  <1> QED BY <1>7, <1>9, <1>10 DEF Typed

LEMMA LeaveTyped ==
  ASSUME Typed, phase = "loaded", UNCHANGED loading, LeaveUnmatched \/ LeaveMatched PROVE Typed'
  <1>1. stack # <<>> /\ Return /\ ParsingType
    BY DEF LeaveUnmatched, LeaveMatched, Finished, Typed
  <1>2. pc = "sections"
    BY <1>1 DEF Typed, Idle
  <1>3. stack' \in Seq(CallType)
    <2>1. CASE stack' = <<>>
      BY <2>1, EmptyTyped
    <2>2. CASE \E c \in CallType : Popped(c)
      BY <2>2 DEF Popped
    <2> QED BY <1>1, <2>1, <2>2, ReturnEffect
  <1>4. next \in Nat \ {0} /\ errors \subseteq Kinds
    BY DEF Typed, ParsingType
  <1>5. CASE LeaveUnmatched
    <2>1. UNCHANGED <<message, rule, pc, captures, next, tokens, extraction, properties, errors>>
      BY <1>5 DEF LeaveUnmatched, result
    <2> QED BY <1>2, <1>3, <1>4, <2>1, StackTyped
  <1>6. CASE LeaveMatched
    <2>1. PICK names \in SUBSET AssignsOf(top.section) :
            /\ properties' = Inserted(names, Value(top.section))
            /\ IF AssignsOf(top.section) = {} THEN UNCHANGED errors ELSE MayReport("property")
      BY <1>6 DEF LeaveMatched
    <2>2. errors' \subseteq Kinds
      BY <1>4, <2>1 DEF MayReport, Kinds
    <2>3. /\ DOMAIN properties' \subseteq Names
          /\ \A n \in DOMAIN properties' : properties'[n] \in [section: Sections, seen: Nat]
      BY <1>1, <2>1, RecordedProperties
    <2>4. extraction' \in Seq(Ids)
      <3>1. top \in CallType
        BY <1>1, TopTyped
      <3>2. extraction \in Seq(Ids) /\ extraction' = WithId(extraction, RulesetOf(top.section))
        BY <1>6 DEF LeaveMatched, Typed, ParsingType
      <3> HIDE DEF top
      <3>3. top.section \in Sections
        BY <3>1 DEF CallType
      <3> QED BY <3>2, <3>3, BoundTyped, RecordedType DEF Typed
    <2>5. UNCHANGED <<message, rule, pc, captures, next, tokens>>
      BY <1>6 DEF LeaveMatched
    <2>6. LoadingType' /\ Captured'
      BY <2>5 DEF Typed, LoadingType, loading, Captured, OccursAt, Items, Reading, Entry
    <2>7. ParsingType'
      BY <1>3, <2>2, <2>3, <2>4, <2>5 DEF Typed, ParsingType, loading
    <2>8. Idle'
      BY <1>2, <2>5 DEF Typed, Idle, loading
    <2> QED BY <2>6, <2>7, <2>8 DEF Typed
  <1> QED BY <1>5, <1>6

LEMMA ParseTyped ==
  ASSUME Typed, phase = "loaded", UNCHANGED loading, Parse PROVE Typed'
  <1>1. next \in Nat \ {0} /\ errors \subseteq Kinds /\ ParsingType
        /\ stack \in Seq(CallType) /\ (stack # <<>> => pc = "sections") /\ (pc # "sections" => stack = <<>>)
    BY DEF Typed, ParsingType, Idle
  <1>2. CASE RuleRejects \/ RuleMatches \/ NoRuleMatches
    BY <1>2, FilterTyped
  <1>3. CASE EnterCaptured
    <2>1. stack' \in Seq(CallType)
      BY <1>3, EnterCapturedEffect DEF Entered
    <2>2. pc = "sections" /\ next' = next + 1
          /\ UNCHANGED <<message, rule, pc, captures, tokens, extraction, properties, errors>>
      BY <1>3 DEF EnterCaptured, Entering, result
    <2> QED BY <1>1, <2>1, <2>2, StackTyped
  <1>4. CASE EnterMissing
    <2>1. pc = "sections" /\ next' = next + 1 /\ stack' = stack
          /\ UNCHANGED <<message, rule, pc, captures, tokens, extraction, properties>>
      BY <1>4 DEF EnterMissing, Entering, result
    <2>2. errors' \subseteq Kinds
      BY <1>1, <1>4 DEF EnterMissing, Report, Kinds
    <2> QED BY <1>1, <2>1, <2>2, StackTyped
  <1>5. CASE EnterWhole
    <2>1. stack' \in Seq(CallType)
      BY <1>5, EnterWholeEffect DEF Entered
    <2>2. pc = "sections" /\ next' = next + 1
          /\ UNCHANGED <<message, rule, pc, captures, tokens, extraction, properties, errors>>
      BY <1>5 DEF EnterWhole, Entering, result
    <2> QED BY <1>1, <2>1, <2>2, StackTyped
  <1>6. CASE Finish
    <2>1. LoadingType' /\ Captured'
      BY <1>6 DEF Typed, LoadingType, loading, Captured, OccursAt, Items, Reading, Entry, Finish
    <2>2. ParsingType'
      BY <1>6 DEF Typed, ParsingType, loading, Finish, result
    <2>3. Idle'
      BY <1>6 DEF Typed, Idle, loading, Finish, result
    <2> QED BY <2>1, <2>2, <2>3 DEF Typed
  <1>7. CASE NoLocator \/ LocateSlice \/ NextSlice
    <2>1. stack' \in Seq(CallType) /\ stack # <<>>
      BY <1>1, <1>7, NoLocatorEffect, LocateSliceEffect, NextSliceEffect
      DEF Replaced, NoLocator, LocateSlice, NextSlice, Locating, Parsing
    <2>2. UNCHANGED <<message, rule, pc, captures, next, tokens, extraction, properties, errors>>
      BY <1>7 DEF NoLocator, LocateSlice, NextSlice, result
    <2> QED BY <1>1, <2>1, <2>2, StackTyped
  <1>8. CASE LocateNothing
    <2>1. stack' \in Seq(CallType) /\ stack # <<>>
      BY <1>1, <1>8, LocateNothingEffect DEF Replaced, LocateNothing, Locating
    <2>2. errors' \subseteq Kinds
      BY <1>1, <1>8 DEF LocateNothing, MayReport, Kinds
    <2>3. UNCHANGED <<message, rule, pc, captures, next, tokens, extraction, properties>>
      BY <1>8 DEF LocateNothing, result
    <2> QED BY <1>1, <2>1, <2>2, <2>3, StackTyped
  <1>9. CASE EngineStep
    BY <1>9, EngineTyped
  <1>10. CASE OpenChild
    <2>1. stack' \in Seq(CallType) /\ stack # <<>>
      BY <1>1, <1>10, OpenChildEffect DEF Pushed, OpenChild, Parsing
    <2>2. UNCHANGED <<message, rule, pc, captures, next, tokens, extraction, properties, errors>>
      BY <1>10 DEF OpenChild, result
    <2> QED BY <1>1, <2>1, <2>2, StackTyped
  <1>11. CASE LeaveUnmatched \/ LeaveMatched
    BY <1>11, LeaveTyped
  <1> QED BY <1>2, <1>3, <1>4, <1>5, <1>6, <1>7, <1>8, <1>9, <1>10, <1>11 DEF Parse, EngineStep

LEMMA TypedFirst == Init => Typed
  <1> SUFFICES ASSUME Init PROVE Typed
    OBVIOUS
  <1>1. LoadingType
    <2>1. \E l \in Nat : l = Len(input.files)
      BY FilesAssumption DEF FilesAssumption, Init, InitLoading
    <2> QED BY <2>1 DEF Init, InitLoading, LoadingType
  <1>2. rules = <<>>
    BY DEF Init, InitLoading
  <1>3. ParsingType
    BY <1>2, EmptyTyped DEF Init, ParsingType
  <1>4. Idle /\ Captured
    BY DEF Init, InitLoading, Idle, Captured
  <1> QED BY <1>1, <1>3, <1>4 DEF Typed

LEMMA TypedNext == Typed /\ [Next]_vars => Typed'
  <1> SUFFICES ASSUME Typed, [Next]_vars PROVE Typed'
    OBVIOUS
  <1>1. CASE Load /\ UNCHANGED parsing
    <2>1. LoadingType'
      BY <1>1, LoadTyped DEF Typed
    <2>2. phase # "loaded" /\ pc = "filter"
      BY <1>1 DEF Load, NextFile, LoadRuleset, RefuseRuleset, BeginMessages, LoadMessageRule,
         RefuseMessageRule, FinishLoading, RefuseNoRules, Reading, Typed, Idle
    <2>3. rules' \in Seq(DOMAIN RuleOf) /\ Len(rules) <= Len(rules') /\ Len(rules') \in Nat
      <3>1. rules \in Seq(DOMAIN RuleOf) /\ rules' \in Seq(DOMAIN RuleOf) /\ input.added \in Seq(DOMAIN RuleOf)
        BY <2>1, FilesAssumption DEF Typed, LoadingType, FilesAssumption
      <3>2. rules' = rules \/ rules' = rules \o input.added \/ \E e : rules' = Append(rules, e)
        BY <1>1 DEF Load, NextFile, LoadRuleset, RefuseRuleset, BeginMessages, LoadMessageRule,
           RefuseMessageRule, FinishLoading, RefuseNoRules, Refuse
      <3> QED BY <3>1, <3>2
    <2>4. ParsingType'
      BY <1>1, <2>2, <2>3 DEF Typed, ParsingType, parsing
    <2>5. Idle' /\ Captured'
      BY <1>1, <2>2 DEF Typed, Idle, parsing, Captured, OccursAt
    <2> QED BY <2>1, <2>4, <2>5 DEF Typed
  <1>2. CASE phase = "loaded" /\ Parse /\ UNCHANGED loading
    BY <1>2, ParseTyped
  <1>3. CASE UNCHANGED vars
    <2>1. UNCHANGED loading /\ UNCHANGED parsing
      BY <1>3 DEF vars
    <2>2. LoadingType' /\ Captured'
      BY <2>1 DEF Typed, LoadingType, loading, parsing, Captured, OccursAt, Items, Reading, Entry
    <2>3. ParsingType' /\ Idle'
      BY <2>1 DEF Typed, ParsingType, Idle, loading, parsing
    <2> QED BY <2>2, <2>3 DEF Typed
  <1> QED BY <1>1, <1>2, <1>3 DEF Next

\* Every variable of loading and of parsing has its type, the calls on the
\* stack and their slices too, whatever the files, the rules and the message.
THEOREM TypeCorrect == Spec => []TypeOK
  <1>1. Init /\ [][Next]_vars => []Typed
    BY TypedFirst, TypedNext, PTL
  <1>2. Typed => TypeOK
    BY TypeParts DEF Typed
  <1> QED BY <1>1, <1>2, PTL DEF Spec

---------------------------------------------------------------------------
(* Offsets and texts                                                         *)

\* A text m has the text between two offsets; behind the end of m there is only
\* the empty one.
Spells(m, from, to, text) ==
  /\ from <= to /\ SubSeq(m, from + 1, to) = text
  /\ to <= Len(m) \/ from = to

LEMMA SpellsLength ==
  ASSUME NEW m \in Texts, NEW from \in Nat, NEW to \in Nat, NEW text \in Texts,
         Spells(m, from, to, text)
  PROVE  to = from + Len(text) /\ Len(text) <= Len(m)
  <1>1. Len(m) \in Nat
    BY DEF Texts
  <1>2. CASE to <= Len(m)
    <2>1. Len(text) = to - from
      BY <1>2, SliceOfText DEF Spells, Texts
    <2> QED BY <1>1, <1>2, <2>1 DEF Spells
  <1>3. CASE from = to
    <2>1. text = SubSeq(m, from + 1, from)
      BY <1>3 DEF Spells
    <2>2. Len(text) = 0
      BY <2>1 DEF Texts
    <2> QED BY <1>1, <1>3, <2>2
  <1> QED BY <1>2, <1>3 DEF Spells

LEMMA EmptySpells ==
  ASSUME NEW m \in Texts, NEW k \in Nat PROVE Spells(m, k, k, <<>>)
  <1>1. SubSeq(m, k + 1, k) = <<>>
    BY DEF Texts
  <1> QED BY <1>1 DEF Spells

\* A part of a text that stands in m stands there too.
LEMMA PartSpells ==
  ASSUME NEW m \in Texts, NEW base \in Nat, NEW text \in Texts,
         Spells(m, base, base + Len(text), text),
         NEW i \in Nat, NEW j \in Nat, i <= j, j <= Len(text)
  PROVE  Spells(m, base + i, base + j, SubSeq(text, i + 1, j))
  <1>1. Len(text) \in Nat /\ Len(m) \in Nat
    BY DEF Texts
  <1> DEFINE l == Len(text)
  <1>2. CASE base + l <= Len(m)
    <2> DEFINE b == base + l
    <2>1. b \in Nat /\ base <= b /\ b <= Len(m) /\ j <= b - base /\ text = SubSeq(m, base + 1, b)
      BY <1>1, <1>2 DEF Spells
    <2> HIDE DEF b
    <2>2. SubSeq(text, i + 1, j) = SubSeq(m, base + i + 1, base + j)
      BY <2>1, SliceOfSlice DEF Texts
    <2>3. base + i <= base + j /\ base + j <= Len(m) /\ (base + i) + 1 = base + i + 1
      BY <1>1, <2>1
    <2> QED BY <2>2, <2>3 DEF Spells
  <1>3. CASE base = base + l
    <2>1. l = 0 /\ i = 0 /\ j = 0
      BY <1>1, <1>3
    <2>2. SubSeq(text, i + 1, j) = <<>>
      BY <2>1 DEF Texts
    <2>3. base + i = base /\ base + j = base
      BY <2>1
    <2>4. Spells(m, base, base, <<>>)
      BY EmptySpells
    <2> QED BY <2>2, <2>3, <2>4
  <1> QED BY <1>2, <1>3 DEF Spells

LEMMA PieceSpells ==
  ASSUME NEW m \in Texts, NEW base \in Nat, NEW text \in Texts,
         Spells(m, base, base + Len(text), text), NEW k \in Nat, NEW p \in Pieces(text, k)
  PROVE  Spells(m, base + p.from, base + p.to, p.text)
  <1>1. p \in PieceType /\ p.from <= p.to
        /\ (p = UnsetPiece \/ (p.to <= Len(text) /\ p = Piece(text, p.from, p.to)))
    BY PieceTyped
  <1>2. CASE p = UnsetPiece
    <2>1. p.from = p.to /\ p.text = <<>> /\ base + p.from \in Nat
      BY <1>1, <1>2 DEF UnsetPiece, PieceType
    <2> QED BY <2>1, EmptySpells
  <1>3. CASE p # UnsetPiece
    <2>1. p.from \in Nat /\ p.to \in Nat /\ p.text = SubSeq(text, p.from + 1, p.to)
      BY <1>1, <1>3 DEF Piece, PieceType
    <2> QED BY <1>1, <1>3, <2>1, PartSpells
  <1> QED BY <1>2, <1>3

CallSpells(c) ==
  /\ Spells(message, c.base, c.base + Len(c.text), c.text)
  /\ \A k \in DOMAIN c.slices : Spells(message, c.slices[k].from, c.slices[k].to, c.slices[k].text)

TokenSpells(t) ==
  IF EngineOf[t.section] = "kv"
  THEN \E i, j \in t.from..t.to : Spells(message, i, j, t.text)
  ELSE Spells(message, t.from, t.to, t.text)

\* What is looked at, at whatever depth, and what is found stands in the message
\* between its offsets.
Spelling ==
  /\ \A d \in DOMAIN stack : CallSpells(stack[d])
  /\ \A k \in DOMAIN tokens : TokenSpells(tokens[k])

LEMMA SpellingShown == Typed /\ Spelling => PositionsSpellTheText
  <1> SUFFICES ASSUME Typed, Spelling, NEW k \in DOMAIN tokens
               PROVE  IF EngineOf[tokens[k].section] = "kv"
                      THEN \E i, j \in tokens[k].from..tokens[k].to :
                             i <= j /\ Spelled(i, j) = tokens[k].text
                      ELSE Spelled(tokens[k].from, tokens[k].to) = tokens[k].text
    BY DEF PositionsSpellTheText
  <1>1. TokenSpells(tokens[k])
    BY DEF Spelling
  <1> QED BY <1>1 DEF TokenSpells, Spells, Spelled

LEMMA ReplacedSpells ==
  ASSUME NEW c, Spelling, ParsingType, stack # <<>>, Replaced(c), CallSpells(c)
  PROVE  \A d \in 1..Len(stack') : CallSpells(stack'[d])
  <1>1. Len(stack) \in Nat /\ DOMAIN stack = 1..Len(stack)
    BY DEF ParsingType
  <1>2. Len(stack') = Len(stack) /\ stack'[1] = c /\ \A d \in 2..Len(stack) : stack'[d] = stack[d]
    BY DEF Replaced
  <1> QED BY <1>1, <1>2 DEF Spelling

LEMMA TopSpells ==
  ASSUME Typed, Spelling, stack # <<>>
  PROVE  /\ top \in CallType /\ CallSpells(top) /\ ParsingType /\ message \in Texts
         /\ \A k \in 1..Len(top.slices) : /\ top.slices[k] \in PieceType
                                          /\ Spells(message, top.slices[k].from, top.slices[k].to, top.slices[k].text)
  <1>1. top \in CallType /\ top = stack[1] /\ 1 \in DOMAIN stack
    BY TopTyped DEF Typed, ParsingType
  <1>2. CallSpells(top)
    BY <1>1 DEF Spelling
  <1> HIDE DEF top
  <1>3. top.slices \in Seq(PieceType)
    BY <1>1 DEF CallType
  <1>4. DOMAIN top.slices = 1..Len(top.slices) /\ \A k \in 1..Len(top.slices) : top.slices[k] \in PieceType
    BY <1>3
  <1> QED BY <1>1, <1>2, <1>4, MessageType DEF CallSpells, Typed

LEMMA SameSpells ==
  ASSUME NEW c, NEW d, SameText(c, d), c.slices = d.slices, CallSpells(d) PROVE CallSpells(c)
  BY DEF SameText, CallSpells

LEMMA NoLocatorSpells ==
  ASSUME Typed, Spelling, NoLocator PROVE \A d \in 1..Len(stack') : CallSpells(stack'[d])
  <1>1. stack # <<>>
    BY DEF NoLocator, Locating
  <1>2. PICK c \in CallType :
           /\ Replaced(c) /\ SameText(c, top)
           /\ c.slices = <<At(top.base, Piece(top.text, 0, Len(top.text)))>>
    BY NoLocatorEffect DEF Typed
  <1>3. top \in CallType /\ CallSpells(top) /\ ParsingType /\ message \in Texts
    BY <1>1, TopSpells
  <1> HIDE DEF top
  <1> DEFINE text == top.text
             base == top.base
             p == Piece(text, 0, Len(text))
  <1>4. /\ text \in Texts /\ base \in Nat /\ Len(text) \in Nat
        /\ Spells(message, base, base + Len(text), text)
    BY <1>3 DEF CallType, CallSpells, Texts
  <1>5. Spells(message, base + 0, base + Len(text), SubSeq(text, 0 + 1, Len(text)))
    <2>1. SubSeq(text, 0 + 1, Len(text)) = text
      BY <1>4 DEF Texts
    <2>2. base + 0 = base
      BY <1>4
    <2> QED BY <1>4, <2>1, <2>2
  <1>6. /\ At(base, p).from = base + 0 /\ At(base, p).to = base + Len(text)
        /\ At(base, p).text = SubSeq(text, 0 + 1, Len(text))
    BY DEF At, Piece
  <1>7. CallSpells(c)
    <2>1. DOMAIN c.slices = {1} /\ c.slices[1] = At(base, p)
      BY <1>2
    <2>2. Spells(message, c.base, c.base + Len(c.text), c.text)
      BY <1>2, <1>4 DEF SameText
    <2> HIDE DEF p, text, base
    <2>3. Spells(message, c.slices[1].from, c.slices[1].to, c.slices[1].text)
      BY <1>5, <1>6, <2>1
    <2> QED BY <2>1, <2>2, <2>3 DEF CallSpells
  <1> QED BY <1>1, <1>2, <1>3, <1>7, ReplacedSpells

LEMMA LocateSliceSpells ==
  ASSUME Typed, Spelling, LocateSlice PROVE \A d \in 1..Len(stack') : CallSpells(stack'[d])
  <1>1. stack # <<>>
    BY DEF LocateSlice, Locating
  <1>2. PICK piece \in Pieces(top.text, top.offset) : \E c \in CallType :
           /\ Replaced(c) /\ SameText(c, top) /\ c.slices = Append(top.slices, At(top.base, piece))
    BY LocateSliceEffect DEF Typed
  <1>3. PICK c \in CallType :
           /\ Replaced(c) /\ SameText(c, top) /\ c.slices = Append(top.slices, At(top.base, piece))
    BY <1>2
  <1>4. /\ top \in CallType /\ CallSpells(top) /\ ParsingType /\ message \in Texts
        /\ \A k \in 1..Len(top.slices) : Spells(message, top.slices[k].from, top.slices[k].to, top.slices[k].text)
    BY <1>1, TopSpells
  <1> HIDE DEF top
  <1> DEFINE text == top.text
             base == top.base
             old == top.slices
             new == At(base, piece)
  <1>5. /\ text \in Texts /\ base \in Nat /\ top.offset \in Nat /\ old \in Seq(PieceType)
        /\ Spells(message, base, base + Len(text), text)
    BY <1>4 DEF CallType, CallSpells
  <1>6. Spells(message, base + piece.from, base + piece.to, piece.text)
    BY <1>4, <1>5, PieceSpells
  <1>7. piece \in PieceType
    BY <1>5, PieceTyped
  <1>8. new \in PieceType /\ Spells(message, new.from, new.to, new.text)
    BY <1>5, <1>6, <1>7, ShiftedType
  <1> HIDE DEF new
  <1>9. Len(old) \in Nat /\ DOMAIN c.slices = 1..(Len(old) + 1) /\ c.slices[Len(old) + 1] = new
        /\ \A k \in 1..Len(old) : c.slices[k] = old[k]
    <2>1. c.slices = Append(old, new)
      BY <1>3 DEF new
    <2> HIDE DEF old
    <2> QED BY <1>5, <1>8, <2>1
  <1>10. CallSpells(c)
    <2>1. Spells(message, c.base, c.base + Len(c.text), c.text)
      BY <1>3, <1>5 DEF SameText
    <2>2. ASSUME NEW k \in DOMAIN c.slices
          PROVE  Spells(message, c.slices[k].from, c.slices[k].to, c.slices[k].text)
      <3>1. k = Len(old) + 1 \/ k \in 1..Len(old)
        BY <1>9
      <3> QED BY <1>4, <1>8, <1>9, <3>1
    <2> QED BY <2>1, <2>2 DEF CallSpells
  <1> QED BY <1>1, <1>3, <1>4, <1>10, ReplacedSpells

LEMMA OpenChildSpells ==
  ASSUME Typed, Spelling, OpenChild PROVE \A d \in 1..Len(stack') : CallSpells(stack'[d])
  <1> DEFINE b == Call(Children[top.child], Slice.text, Slice.from)
  <1>1. stack # <<>> /\ top.slice <= Len(top.slices)
    BY DEF OpenChild, Parsing
  <1>2. PICK c \in CallType : Pushed(b, c) /\ SameText(c, top) /\ SameSlices(c, top)
    BY OpenChildEffect DEF Typed
  <1>3. /\ top \in CallType /\ CallSpells(top) /\ message \in Texts
        /\ \A k \in 1..Len(top.slices) : Spells(message, top.slices[k].from, top.slices[k].to, top.slices[k].text)
    BY <1>1, TopSpells
  <1>4. Slice \in PieceType /\ Slice = top.slices[top.slice] /\ top.slice \in 1..Len(top.slices)
    <2>1. Slice \in PieceType
      BY OpenChildEffect DEF Typed
    <2>2. top.slice \in Nat \ {0} /\ Len(top.slices) \in Nat
      <3> HIDE DEF top
      <3> QED BY <1>3 DEF CallType
    <2> QED BY <1>1, <2>1, <2>2 DEF Slice
  <1>5. Spells(message, Slice.from, Slice.to, Slice.text)
    BY <1>3, <1>4
  <1>6. Slice.from \in Nat /\ Slice.to \in Nat /\ Slice.text \in Texts
    BY <1>4 DEF PieceType
  <1>7. Slice.to = Slice.from + Len(Slice.text)
    BY <1>3, <1>5, <1>6, SpellsLength
  <1>8. b.text = Slice.text /\ b.base = Slice.from /\ b.slices = <<>>
    BY DEF Call
  <1> HIDE DEF top, Slice, b
  <1>9. CallSpells(b)
    BY <1>5, <1>7, <1>8 DEF CallSpells
  <1>10. CallSpells(c)
    BY <1>2, <1>3, SameSpells DEF SameSlices
  <1>11. Len(stack) \in Nat /\ DOMAIN stack = 1..Len(stack)
    BY DEF Typed, ParsingType
  <1>12. Len(stack') = Len(stack) + 1 /\ stack'[1] = b /\ stack'[2] = c
         /\ \A d \in 3..Len(stack') : stack'[d] = stack[d - 1]
    BY <1>2 DEF Pushed
  <1> SUFFICES ASSUME NEW d \in 1..Len(stack') PROVE CallSpells(stack'[d])
    OBVIOUS
  <1>13. d = 1 \/ d = 2 \/ (d \in 3..Len(stack') /\ d - 1 \in 1..Len(stack))
    BY <1>11, <1>12
  <1> QED BY <1>9, <1>10, <1>11, <1>12, <1>13 DEF Spelling

LEMMA ReturnSpells ==
  ASSUME Typed, Spelling, stack # <<>>, Return PROVE \A d \in 1..Len(stack') : CallSpells(stack'[d])
  <1>1. Len(stack) \in Nat /\ DOMAIN stack = 1..Len(stack)
    BY DEF Typed, ParsingType
  <1>2. CASE stack' = <<>>
    BY <1>2
  <1>3. CASE Len(stack) > 1 /\ \E c \in CallType : Popped(c) /\ SameText(c, stack[2]) /\ SameSlices(c, stack[2])
    <2>1. PICK c \in CallType : Popped(c) /\ SameText(c, stack[2]) /\ SameSlices(c, stack[2])
      BY <1>3
    <2>2. CallSpells(stack[2])
      BY <1>1, <1>3 DEF Spelling
    <2>3. CallSpells(c)
      BY <2>1, <2>2, SameSpells DEF SameSlices
    <2>4. Len(stack') = Len(stack) - 1 /\ stack'[1] = c /\ \A d \in 2..Len(stack') : stack'[d] = stack[d + 1]
      BY <2>1 DEF Popped
    <2> SUFFICES ASSUME NEW d \in 1..Len(stack') PROVE CallSpells(stack'[d])
      OBVIOUS
    <2>5. d = 1 \/ (d \in 2..Len(stack') /\ d + 1 \in 1..Len(stack))
      BY <1>1, <2>4
    <2> QED BY <1>1, <2>3, <2>4, <2>5 DEF Spelling
  <1> QED BY <1>2, <1>3, ReturnEffect DEF Typed

LEMMA EnterSpells ==
  ASSUME Typed, Spelling, EnterCaptured \/ EnterWhole PROVE \A d \in 1..Len(stack') : CallSpells(stack'[d])
  <1>1. message \in Texts /\ Len(message) \in Nat
    BY MessageType DEF Typed
  <1>2. Spells(message, 0, 0 + Len(message), message)
    <2>1. SubSeq(message, 0 + 1, 0 + Len(message)) = message
      BY <1>1 DEF Texts
    <2> QED BY <1>1, <2>1 DEF Spells
  <1>3. CASE EnterWhole
    <2>1. Entered(Call(Section, message, 0))
      BY <1>3, EnterWholeEffect
    <2>2. CallSpells(Call(Section, message, 0))
      BY <1>2 DEF CallSpells, Call
    <2> QED BY <2>1, <2>2 DEF Entered
  <1>4. CASE EnterCaptured
    <2>1. PICK i \in 0..Len(message) : \E c \in CallType : \E slice \in PieceType :
              /\ slice.from = i /\ slice.to = i + Len(slice.text) /\ OccursAt(slice.text, i)
              /\ Entered(c) /\ c.text = message /\ c.base = 0 /\ c.slices = <<slice>>
      BY <1>4, EnterCapturedEffect
    <2>2. PICK c \in CallType, slice \in PieceType :
              /\ slice.from = i /\ slice.to = i + Len(slice.text) /\ OccursAt(slice.text, i)
              /\ Entered(c) /\ c.text = message /\ c.base = 0 /\ c.slices = <<slice>>
      BY <2>1
    <2>3. Len(slice.text) \in Nat
      BY DEF PieceType, Texts
    <2>4. Spells(message, slice.from, slice.to, slice.text)
      BY <2>2, <2>3 DEF Spells, OccursAt
    <2>5. DOMAIN c.slices = {1} /\ c.slices[1] = slice
      BY <2>2
    <2>6. CallSpells(c)
      BY <1>2, <2>2, <2>4, <2>5 DEF CallSpells
    <2> QED BY <2>2, <2>6 DEF Entered
  <1> QED BY <1>3, <1>4

\* A token stands where its slice and its place in the slice put it.
LEMMA TokenPlaced ==
  ASSUME NEW m \in Texts, NEW slice \in PieceType, Spells(m, slice.from, slice.to, slice.text),
         NEW s \in Sections, NEW p \in PieceType,
         IF EngineOf[s] = "kv" THEN p \in Pairs(slice.text) ELSE p \in Pieces(slice.text, 0),
         NEW t, t = [section |-> s, text |-> p.text, from |-> slice.from + p.from, to |-> slice.from + p.to]
  PROVE  IF EngineOf[t.section] = "kv"
         THEN \E i, j \in t.from..t.to : Spells(m, i, j, t.text)
         ELSE Spells(m, t.from, t.to, t.text)
  <1> DEFINE base == slice.from
             text == slice.text
  <1>1. base \in Nat /\ text \in Texts /\ slice.to \in Nat /\ Len(text) \in Nat
    BY DEF PieceType, Texts
  <1>2. Spells(m, base, base + Len(text), text)
    <2>1. slice.to = base + Len(text)
      BY <1>1, SpellsLength
    <2> QED BY <2>1
  <1>3. t.section = s /\ t.text = p.text /\ t.from = base + p.from /\ t.to = base + p.to
    OBVIOUS
  <1> HIDE DEF base, text
  <1>4. CASE EngineOf[s] = "kv"
    <2>1. p \in Pairs(text)
      BY <1>4 DEF text
    <2>2. p.to <= Len(text) /\ \E i, j \in p.from..p.to : i <= j /\ p.text = SubSeq(text, i + 1, j)
      BY <1>1, <2>1, PairTyped
    <2>3. PICK i \in p.from..p.to, j \in p.from..p.to : i <= j /\ p.text = SubSeq(text, i + 1, j)
      BY <2>2
    <2>4. p.from \in Nat /\ p.to \in Nat
      BY DEF PieceType
    <2>5. i \in Nat /\ j \in Nat /\ j <= Len(text)
      BY <1>1, <2>2, <2>4
    <2>6. Spells(m, base + i, base + j, p.text)
      BY <1>1, <1>2, <2>3, <2>5, PartSpells
    <2>7. base + i \in (base + p.from)..(base + p.to) /\ base + j \in (base + p.from)..(base + p.to)
      BY <1>1, <2>4, <2>5
    <2> QED BY <1>3, <1>4, <2>6, <2>7
  <1>5. CASE EngineOf[s] # "kv"
    <2>1. p \in Pieces(text, 0)
      BY <1>5 DEF text
    <2>2. Spells(m, base + p.from, base + p.to, p.text)
      BY <1>1, <1>2, <2>1, PieceSpells
    <2> QED BY <1>3, <1>5, <2>2
  <1> QED BY <1>4, <1>5

LEMMA EngineSpells ==
  ASSUME Typed, Spelling, EngineStep
  PROVE  /\ \A d \in 1..Len(stack') : CallSpells(stack'[d])
         /\ \A k \in 1..Len(tokens') : TokenSpells(tokens'[k])
  <1>1. /\ stack # <<>> /\ top.slice <= Len(top.slices) /\ Slice \in PieceType
        /\ \E n \in Nat : \E pieces : FoundPieces(n, pieces) /\ AddTokens(pieces)
    BY EngineEffect
  <1>2. PICK n \in Nat : \E pieces : FoundPieces(n, pieces) /\ AddTokens(pieces)
    BY <1>1
  <1>3. PICK pieces : FoundPieces(n, pieces) /\ AddTokens(pieces)
    BY <1>2
  <1>4. ParsingType /\ pieces \in [1..n -> PieceType]
    BY <1>3 DEF Typed, FoundPieces
  <1>5. /\ Len(tokens') = Len(tokens) + n
        /\ \A k \in 1..Len(tokens) : tokens'[k] = tokens[k]
        /\ \A k \in 1..n : tokens'[Len(tokens) + k] =
             [section |-> top.section, text |-> pieces[k].text,
              from |-> Slice.from + pieces[k].from, to |-> Slice.from + pieces[k].to]
        /\ \E c \in CallType : SetTop(c) /\ SameText(c, top) /\ c.slices = top.slices
    BY <1>1, <1>3, <1>4, TokensAdded DEF SameText
  <1>6. PICK c \in CallType : SetTop(c) /\ SameText(c, top) /\ c.slices = top.slices
    BY <1>5
  <1>7. /\ top \in CallType /\ CallSpells(top) /\ message \in Texts
        /\ \A k \in 1..Len(top.slices) : Spells(message, top.slices[k].from, top.slices[k].to, top.slices[k].text)
    BY <1>1, TopSpells
  <1>8. \A d \in 1..Len(stack') : CallSpells(stack'[d])
    BY <1>1, <1>4, <1>6, <1>7, ReplacedBy, SameSpells, ReplacedSpells
  <1>9. top.section \in Sections /\ top.slice \in 1..Len(top.slices)
    <2>1. top.slice \in Nat \ {0} /\ Len(top.slices) \in Nat /\ top.section \in Sections
      <3> HIDE DEF top
      <3> QED BY <1>7 DEF CallType
    <2> QED BY <1>1, <2>1
  <1>10. Spells(message, Slice.from, Slice.to, Slice.text)
    BY <1>7, <1>9 DEF Slice
  <1>11. Len(tokens) \in Nat /\ DOMAIN tokens = 1..Len(tokens)
    BY DEF Typed, ParsingType
  <1> HIDE DEF top, Slice
  <1>12. ASSUME NEW k \in 1..n PROVE TokenSpells(tokens'[Len(tokens) + k])
    <2>1. pieces[k] \in PieceType
      BY <1>4
    <2>2. IF EngineOf[top.section] = "kv" THEN pieces[k] \in Pairs(Slice.text)
                                          ELSE pieces[k] \in Pieces(Slice.text, 0)
      BY <1>3 DEF FoundPieces
    <2>3. tokens'[Len(tokens) + k] = [section |-> top.section, text |-> pieces[k].text,
              from |-> Slice.from + pieces[k].from, to |-> Slice.from + pieces[k].to]
      BY <1>5
    <2> QED BY <1>1, <1>7, <1>9, <1>10, <2>1, <2>2, <2>3, TokenPlaced DEF TokenSpells
  <1>13. ASSUME NEW k \in 1..Len(tokens') PROVE TokenSpells(tokens'[k])
    <2>1. CASE k <= Len(tokens)
      BY <1>5, <1>11, <2>1 DEF Spelling
    <2>2. CASE k > Len(tokens)
      <3>1. k - Len(tokens) \in 1..n /\ Len(tokens) + (k - Len(tokens)) = k
        BY <1>5, <1>11, <2>2
      <3> QED BY <1>12, <3>1
    <2> QED BY <1>5, <1>11, <2>1, <2>2
  <1> QED BY <1>8, <1>13

LEMMA SpellingKept ==
  ASSUME Typed, Typed', Spelling, phase = "loaded", Parse PROVE Spelling'
  <1>1. message' = message
    BY DEF Parse, RuleRejects, RuleMatches, NoRuleMatches, EnterCaptured, EnterMissing, EnterWhole, Finish,
       NoLocator, LocateNothing, LocateSlice, ParseRegex, ParseKv, ParseJson, OpenChild, NextSlice,
       LeaveUnmatched, LeaveMatched
  <1>2. /\ DOMAIN stack = 1..Len(stack) /\ DOMAIN tokens = 1..Len(tokens)
        /\ DOMAIN stack' = 1..Len(stack') /\ DOMAIN tokens' = 1..Len(tokens')
    BY DEF Typed, ParsingType
  <1>3. (\A d \in 1..Len(stack') : CallSpells(stack'[d])) /\ (\A k \in 1..Len(tokens') : TokenSpells(tokens'[k]))
        => Spelling'
    BY <1>1, <1>2 DEF Spelling, CallSpells, TokenSpells
  <1>4. (\A d \in 1..Len(stack) : CallSpells(stack[d])) /\ (\A k \in 1..Len(tokens) : TokenSpells(tokens[k]))
    BY <1>2 DEF Spelling
  <1>5. CASE RuleRejects \/ RuleMatches \/ NoRuleMatches \/ EnterMissing \/ Finish
    <2>1. stack' = stack /\ tokens' = tokens
      BY <1>5 DEF RuleRejects, RuleMatches, NoRuleMatches, EnterMissing, Finish, result
    <2> QED BY <1>3, <1>4, <2>1
  <1>6. CASE EnterCaptured \/ EnterWhole
    <2>1. tokens' = tokens
      BY <1>6 DEF EnterCaptured, EnterWhole, result
    <2> QED BY <1>3, <1>4, <1>6, <2>1, EnterSpells
  <1>7. CASE NoLocator
    <2>1. tokens' = tokens
      BY <1>7 DEF NoLocator, result
    <2> QED BY <1>3, <1>4, <1>7, <2>1, NoLocatorSpells
  <1>8. CASE LocateSlice
    <2>1. tokens' = tokens
      BY <1>8 DEF LocateSlice, result
    <2> QED BY <1>3, <1>4, <1>8, <2>1, LocateSliceSpells
  <1>9. CASE LocateNothing \/ NextSlice
    <2>1. tokens' = tokens /\ stack # <<>>
      BY <1>9 DEF LocateNothing, NextSlice, result, Locating, Parsing
    <2>2. \E c \in CallType : Replaced(c) /\ SameText(c, top) /\ c.slices = top.slices
      BY <1>9, LocateNothingEffect, NextSliceEffect DEF SameSlices, Typed
    <2>3. \A d \in 1..Len(stack') : CallSpells(stack'[d])
      BY <2>1, <2>2, TopSpells, SameSpells, ReplacedSpells
    <2> QED BY <1>3, <1>4, <2>1, <2>3
  <1>10. CASE EngineStep
    BY <1>3, <1>10, EngineSpells
  <1>11. CASE OpenChild
    <2>1. tokens' = tokens
      BY <1>11 DEF OpenChild, result
    <2> QED BY <1>3, <1>4, <1>11, <2>1, OpenChildSpells
  <1>12. CASE LeaveUnmatched \/ LeaveMatched
    <2>1. tokens' = tokens /\ stack # <<>> /\ Return
      BY <1>12 DEF LeaveUnmatched, LeaveMatched, result, Finished
    <2> QED BY <1>3, <1>4, <2>1, ReturnSpells
  <1> QED BY <1>5, <1>6, <1>7, <1>8, <1>9, <1>10, <1>11, <1>12 DEF Parse, EngineStep

\* A token's offsets in the report spell its text in the message, however the
\* sections are nested and their texts captured and located; those of a
\* key-value token enclose it.
THEOREM PositionsAreRight == Spec => []PositionsSpellTheText
  <1>1. Init => Spelling
    BY DEF Init, Spelling
  <1>2. Typed /\ Typed' /\ Spelling /\ [Next]_vars => Spelling'
    <2>1. ASSUME Spelling, UNCHANGED parsing PROVE Spelling'
      BY <2>1 DEF parsing, Spelling, CallSpells, TokenSpells
    <2> QED BY <2>1, SpellingKept DEF Next, vars
  <1>3. Init /\ [][Next]_vars => [](Typed /\ Spelling)
    BY <1>1, <1>2, TypedFirst, TypedNext, PTL
  <1> QED BY <1>3, SpellingShown, PTL DEF Spec

---------------------------------------------------------------------------
(* Locators                                                                  *)

\* The slices of a call are in order; while more may be found, there are no more
\* of them than letters up to the offset, and none reaches beyond it.
CallAdvances(c) ==
  /\ \A i, j \in DOMAIN c.slices : i < j => c.slices[i].to <= c.slices[j].from
  /\ Len(c.slices) <= Len(c.text) + 1
  /\ c.locating => /\ Len(c.slices) <= c.offset /\ c.offset <= Len(c.text)
                   /\ \A k \in DOMAIN c.slices : c.slices[k].to <= c.base + c.offset

Advancing == \A d \in DOMAIN stack : CallAdvances(stack[d])

LEMMA SameAdvances ==
  ASSUME NEW c, NEW d, SameText(c, d), SameSlices(c, d), CallAdvances(d) PROVE CallAdvances(c)
  BY DEF SameText, SameSlices, CallAdvances

LEMMA FirstAdvances ==
  ASSUME NEW s, NEW text \in Texts, NEW base \in Nat PROVE CallAdvances(Call(s, text, base))
  <1>1. Len(text) \in Nat
    BY DEF Texts
  <1> QED BY <1>1 DEF Call, CallAdvances

LEMMA SoleAdvances ==
  ASSUME NEW c \in CallType, NEW p, c.slices = <<p>>, ~c.locating PROVE CallAdvances(c)
  <1>1. Len(c.text) \in Nat
    BY DEF CallType, Texts
  <1>2. DOMAIN c.slices = {1} /\ Len(c.slices) = 1
    OBVIOUS
  <1> QED BY <1>1, <1>2 DEF CallAdvances

\* One more slice, as long as there may be one.
LEMMA SliceAdvances ==
  ASSUME NEW old \in CallType, CallAdvances(old), old.locating, Len(old.text) < Unset,
         NEW piece \in Pieces(old.text, old.offset), NEW new \in CallType, SameText(new, old),
         new.offset = piece.to, new.slices = Append(old.slices, At(old.base, piece)),
         new.locating => piece.to > old.offset /\ piece.to <= Len(old.text)
  PROVE  CallAdvances(new)
  <1> DEFINE n == Len(old.slices)
             o == old.offset
             l == Len(old.text)
             b == old.base
             p == At(b, piece)
  <1>1. /\ old.text \in Texts /\ o \in Nat /\ b \in Nat /\ n \in Nat /\ l \in Nat
        /\ old.slices \in Seq(PieceType) /\ DOMAIN old.slices = 1..n
    <2>1. old.text \in Texts /\ o \in Nat /\ b \in Nat /\ old.slices \in Seq(PieceType)
      BY DEF CallType
    <2> QED BY <2>1 DEF Texts
  <1>2. piece \in PieceType /\ piece.from <= piece.to /\ (piece = UnsetPiece \/ o <= piece.from)
    BY <1>1, PieceTyped
  <1>3. p \in PieceType /\ p.from = b + piece.from /\ p.to = b + piece.to
    BY <1>1, <1>2, ShiftedType
  <1>4. piece.from \in Nat /\ piece.to \in Nat
    BY <1>2 DEF PieceType
  <1>5. n <= o /\ o <= l /\ \A k \in 1..n : old.slices[k].to <= b + o
    BY <1>1 DEF CallAdvances
  <1>6. o <= piece.from
    <2>1. CASE piece = UnsetPiece
      <3>1. piece.from = Unset /\ Unset \in Nat
        BY <2>1, SectionsAssumption DEF UnsetPiece, SectionsAssumption
      <3> QED BY <1>1, <1>5, <3>1
    <2> QED BY <1>2, <2>1
  <1> HIDE DEF p
  <1>7. Len(new.slices) = n + 1 /\ DOMAIN new.slices = 1..(n + 1) /\ new.slices[n + 1] = p
        /\ \A k \in 1..n : new.slices[k] = old.slices[k]
    <2>1. new.slices = Append(old.slices, p)
      BY DEF p
    <2> QED BY <1>1, <1>3, <2>1
  <1>8. \A k \in 1..n : old.slices[k].to \in Nat
    <2>1. \A k \in 1..n : old.slices[k] \in PieceType
      BY <1>1
    <2> QED BY <2>1 DEF PieceType
  <1>9. \A i, j \in 1..n : i < j => old.slices[i].to <= old.slices[j].from
    BY <1>1 DEF CallAdvances
  <1> HIDE DEF n, o, l, b
  <1>10. \A i, j \in 1..(n + 1) : i < j => new.slices[i].to <= new.slices[j].from
    <2> SUFFICES ASSUME NEW i \in 1..(n + 1), NEW j \in 1..(n + 1), i < j
                 PROVE  new.slices[i].to <= new.slices[j].from
      OBVIOUS
    <2>1. i \in 1..n /\ (j \in 1..n \/ j = n + 1)
      BY <1>1
    <2>2. CASE j \in 1..n
      BY <1>7, <1>9, <2>1, <2>2
    <2>3. CASE j = n + 1
      <3>1. new.slices[i].to <= b + o /\ new.slices[i].to \in Nat /\ new.slices[j].from = b + piece.from
        BY <1>3, <1>5, <1>7, <1>8, <2>1, <2>3
      <3> QED BY <1>1, <1>4, <1>6, <3>1
    <2> QED BY <2>1, <2>2, <2>3
  <1>11. ASSUME new.locating
         PROVE  n + 1 <= piece.to /\ piece.to <= l /\ \A k \in 1..(n + 1) : new.slices[k].to <= b + piece.to
    <2>1. piece.to > o /\ piece.to <= l
      BY <1>11 DEF o, l
    <2>2. n + 1 <= piece.to
      BY <1>1, <1>4, <1>5, <2>1
    <2> SUFFICES ASSUME NEW k \in 1..(n + 1) PROVE new.slices[k].to <= b + piece.to
      BY <2>1, <2>2
    <2>3. CASE k = n + 1
      BY <1>1, <1>3, <1>4, <1>7, <2>3
    <2>4. CASE k \in 1..n
      <3>1. new.slices[k].to <= b + o /\ new.slices[k].to \in Nat
        BY <1>5, <1>7, <1>8, <2>4
      <3>2. b + o \in Nat /\ b + piece.to \in Nat /\ b + o <= b + piece.to
        BY <1>1, <1>4, <2>1
      <3>3. PICK x : x = new.slices[k].to
        OBVIOUS
      <3>4. PICK y : y = b + piece.to
        OBVIOUS
      <3>5. PICK z : z = b + o
        OBVIOUS
      <3>6. x \in Nat /\ y \in Nat /\ z \in Nat /\ x <= z /\ z <= y
        BY <3>1, <3>2, <3>3, <3>4, <3>5, Zenon
      <3>7. x <= y
        BY <3>6
      <3> QED BY <3>3, <3>4, <3>7, Zenon
    <2> QED BY <1>1, <2>3, <2>4
  <1>12. Len(new.slices) <= l + 1
    BY <1>1, <1>5, <1>7
  <1> QED BY <1>7, <1>10, <1>11, <1>12 DEF CallAdvances, SameText, l, b

LEMMA ReplacedAdvances ==
  ASSUME NEW c, Advancing, ParsingType, stack # <<>>, Replaced(c), CallAdvances(c)
  PROVE  \A d \in 1..Len(stack') : CallAdvances(stack'[d])
  <1>1. Len(stack) \in Nat /\ DOMAIN stack = 1..Len(stack)
    BY DEF ParsingType
  <1>2. Len(stack') = Len(stack) /\ stack'[1] = c /\ \A d \in 2..Len(stack) : stack'[d] = stack[d]
    BY DEF Replaced
  <1> QED BY <1>1, <1>2 DEF Advancing

LEMMA TopAdvances ==
  ASSUME Typed, Advancing, stack # <<>> PROVE top \in CallType /\ CallAdvances(top) /\ ParsingType
  <1>1. top \in CallType /\ top = stack[1] /\ 1 \in DOMAIN stack
    BY TopTyped DEF Typed, ParsingType
  <1> QED BY <1>1 DEF Advancing, Typed

LEMMA LocateSliceAdvances ==
  ASSUME Typed, Spelling, Advancing, LocateSlice PROVE \A d \in 1..Len(stack') : CallAdvances(stack'[d])
  <1>1. stack # <<>> /\ top.locating
    BY DEF LocateSlice, Locating
  <1>2. PICK piece \in Pieces(top.text, top.offset) : \E c \in CallType :
           /\ Replaced(c) /\ SameText(c, top) /\ c.offset = piece.to
           /\ (c.locating <=> GoesOn(piece))
           /\ c.slices = Append(top.slices, At(top.base, piece))
    BY LocateSliceEffect DEF Typed
  <1>3. PICK c \in CallType :
           /\ Replaced(c) /\ SameText(c, top) /\ c.offset = piece.to
           /\ (c.locating <=> GoesOn(piece))
           /\ c.slices = Append(top.slices, At(top.base, piece))
    BY <1>2
  <1>4. top \in CallType /\ CallAdvances(top) /\ ParsingType /\ CallSpells(top)
    BY <1>1, TopAdvances, TopSpells
  <1>5. Len(top.text) < Unset
    <2> HIDE DEF top
    <2>1. top.text \in Texts /\ top.base \in Nat /\ message \in Texts /\ Len(top.text) \in Nat
      BY <1>4, MessageType DEF CallType, Texts
    <2>2. top.base + Len(top.text) \in Nat
      BY <2>1
    <2>3. Spells(message, top.base, top.base + Len(top.text), top.text)
      BY <1>4 DEF CallSpells
    <2>4. Len(top.text) <= Len(message)
      BY <2>1, <2>2, <2>3, SpellsLength
    <2>5. Len(message) < Unset /\ Unset \in Nat /\ Len(message) \in Nat
      BY <1>4, MessageType, SectionsAssumption DEF SectionsAssumption
    <2> QED BY <2>1, <2>4, <2>5
  <1>6. c.locating => piece.to > top.offset /\ piece.to <= Len(top.text)
    BY <1>3 DEF GoesOn
  <1>7. CallAdvances(c)
    <2> HIDE DEF top
    <2> QED BY <1>1, <1>3, <1>4, <1>5, <1>6, SliceAdvances
  <1> QED BY <1>1, <1>3, <1>4, <1>7, ReplacedAdvances

LEMMA OpenChildAdvances ==
  ASSUME Typed, Advancing, OpenChild PROVE \A d \in 1..Len(stack') : CallAdvances(stack'[d])
  <1> DEFINE b == Call(Children[top.child], Slice.text, Slice.from)
  <1>1. stack # <<>> /\ Slice \in PieceType
    BY OpenChildEffect DEF OpenChild, Parsing, Typed
  <1>2. PICK c \in CallType : Pushed(b, c) /\ SameText(c, top) /\ SameSlices(c, top)
    BY OpenChildEffect DEF Typed
  <1>3. CallAdvances(c)
    BY <1>1, <1>2, TopAdvances, SameAdvances
  <1>4. CallAdvances(b)
    <2> HIDE DEF Slice, top
    <2>1. Slice.text \in Texts /\ Slice.from \in Nat
      BY <1>1 DEF PieceType
    <2> QED BY <2>1, FirstAdvances
  <1> HIDE DEF b
  <1>5. Len(stack) \in Nat /\ DOMAIN stack = 1..Len(stack)
    BY DEF Typed, ParsingType
  <1>6. Len(stack') = Len(stack) + 1 /\ stack'[1] = b /\ stack'[2] = c
        /\ \A d \in 3..Len(stack') : stack'[d] = stack[d - 1]
    BY <1>2 DEF Pushed
  <1> SUFFICES ASSUME NEW d \in 1..Len(stack') PROVE CallAdvances(stack'[d])
    OBVIOUS
  <1>7. d = 1 \/ d = 2 \/ (d \in 3..Len(stack') /\ d - 1 \in 1..Len(stack))
    BY <1>5, <1>6
  <1> QED BY <1>3, <1>4, <1>5, <1>6, <1>7 DEF Advancing

LEMMA ReturnAdvances ==
  ASSUME Typed, Advancing, stack # <<>>, Return PROVE \A d \in 1..Len(stack') : CallAdvances(stack'[d])
  <1>1. Len(stack) \in Nat /\ DOMAIN stack = 1..Len(stack)
    BY DEF Typed, ParsingType
  <1>2. CASE stack' = <<>>
    BY <1>2
  <1>3. CASE Len(stack) > 1 /\ \E c \in CallType : Popped(c) /\ SameText(c, stack[2]) /\ SameSlices(c, stack[2])
    <2>1. PICK c \in CallType : Popped(c) /\ SameText(c, stack[2]) /\ SameSlices(c, stack[2])
      BY <1>3
    <2>2. CallAdvances(stack[2])
      BY <1>1, <1>3 DEF Advancing
    <2>3. CallAdvances(c)
      BY <2>1, <2>2, SameAdvances
    <2>4. Len(stack') = Len(stack) - 1 /\ stack'[1] = c /\ \A d \in 2..Len(stack') : stack'[d] = stack[d + 1]
      BY <2>1 DEF Popped
    <2> SUFFICES ASSUME NEW d \in 1..Len(stack') PROVE CallAdvances(stack'[d])
      OBVIOUS
    <2>5. d = 1 \/ (d \in 2..Len(stack') /\ d + 1 \in 1..Len(stack))
      BY <1>1, <2>4
    <2> QED BY <1>1, <2>3, <2>4, <2>5 DEF Advancing
  <1> QED BY <1>2, <1>3, ReturnEffect DEF Typed

LEMMA AdvancingKept ==
  ASSUME Typed, Typed', Spelling, Advancing, phase = "loaded", Parse PROVE Advancing'
  <1>1. DOMAIN stack = 1..Len(stack) /\ DOMAIN stack' = 1..Len(stack')
    BY DEF Typed, ParsingType
  <1>2. (\A d \in 1..Len(stack') : CallAdvances(stack'[d])) => Advancing'
    BY <1>1 DEF Advancing, CallAdvances
  <1>3. CASE RuleRejects \/ RuleMatches \/ NoRuleMatches \/ EnterMissing \/ Finish
    <2>1. stack' = stack
      BY <1>3 DEF RuleRejects, RuleMatches, NoRuleMatches, EnterMissing, Finish, result
    <2> QED BY <2>1 DEF Advancing, CallAdvances
  <1>4. CASE EnterWhole
    <2>1. Entered(Call(Section, message, 0)) /\ CallAdvances(Call(Section, message, 0))
      BY <1>4, EnterWholeEffect, MessageType, FirstAdvances DEF Typed
    <2> QED BY <1>2, <2>1 DEF Entered
  <1>5. CASE EnterCaptured
    <2>1. \E c \in CallType : \E slice : Entered(c) /\ c.slices = <<slice>> /\ ~c.locating
      BY <1>5, EnterCapturedEffect
    <2>2. \E c \in CallType : Entered(c) /\ CallAdvances(c)
      BY <2>1, SoleAdvances
    <2> QED BY <1>2, <2>2 DEF Entered
  <1>6. CASE NoLocator
    <2>1. \E c \in CallType : \E slice : Replaced(c) /\ c.slices = <<slice>> /\ ~c.locating
      BY <1>6, NoLocatorEffect DEF Typed
    <2>2. \E c \in CallType : Replaced(c) /\ CallAdvances(c)
      BY <2>1, SoleAdvances
    <2>3. stack # <<>>
      BY <1>6 DEF NoLocator, Locating
    <2> QED BY <1>2, <2>2, <2>3, ReplacedAdvances DEF Typed
  <1>7. CASE LocateSlice
    BY <1>2, <1>7, LocateSliceAdvances
  <1>8. CASE LocateNothing
    <2>1. PICK c \in CallType : /\ Replaced(c) /\ SameText(c, top) /\ c.offset = top.offset
                                /\ ~c.locating /\ c.slices = top.slices
      BY <1>8, LocateNothingEffect DEF Typed
    <2>2. stack # <<>>
      BY <1>8 DEF LocateNothing, Locating
    <2>3. CallAdvances(top)
      BY <2>2, TopAdvances
    <2>4. CallAdvances(c)
      BY <2>1, <2>3 DEF CallAdvances, SameText
    <2> QED BY <1>2, <2>1, <2>2, <2>4, ReplacedAdvances DEF Typed
  <1>9. CASE NextSlice
    <2>1. PICK c \in CallType : Replaced(c) /\ SameText(c, top) /\ SameSlices(c, top)
      BY <1>9, NextSliceEffect DEF Typed
    <2>2. stack # <<>>
      BY <1>9 DEF NextSlice, Parsing
    <2>3. CallAdvances(c)
      BY <2>1, <2>2, TopAdvances, SameAdvances
    <2> QED BY <1>2, <2>1, <2>2, <2>3, ReplacedAdvances DEF Typed
  <1>10. CASE EngineStep
    <2>1. /\ stack # <<>> /\ top.slice <= Len(top.slices)
          /\ \E n \in Nat : \E pieces : FoundPieces(n, pieces) /\ AddTokens(pieces)
      BY <1>10, EngineEffect
    <2>2. PICK n \in Nat : \E pieces : FoundPieces(n, pieces) /\ AddTokens(pieces)
      BY <2>1
    <2>3. PICK pieces : FoundPieces(n, pieces) /\ AddTokens(pieces)
      BY <2>2
    <2>4. ParsingType /\ pieces \in [1..n -> PieceType]
      BY <2>3 DEF Typed, FoundPieces
    <2>5. PICK c \in CallType : SetTop(c) /\ SameText(c, top) /\ SameSlices(c, top)
      BY <2>1, <2>3, <2>4, TokensAdded DEF SameText, SameSlices
    <2>6. Replaced(c) /\ CallAdvances(c)
      BY <2>1, <2>4, <2>5, ReplacedBy, TopAdvances, SameAdvances
    <2> QED BY <1>2, <2>1, <2>4, <2>6, ReplacedAdvances
  <1>11. CASE OpenChild
    BY <1>2, <1>11, OpenChildAdvances
  <1>12. CASE LeaveUnmatched \/ LeaveMatched
    <2>1. stack # <<>> /\ Return
      BY <1>12 DEF LeaveUnmatched, LeaveMatched, Finished
    <2> QED BY <1>2, <2>1, ReturnAdvances
  <1> QED BY <1>3, <1>4, <1>5, <1>6, <1>7, <1>8, <1>9, <1>10, <1>11, <1>12 DEF Parse, EngineStep

\* A locator, however often it is repeated, reads no letter of its text twice
\* and finds at most one slice more than the text has letters, whatever its
\* expression finds.
THEOREM LocatorsEnd == Spec => []LocatorsAdvance
  <1>1. Init => Spelling /\ Advancing
    BY DEF Init, Spelling, Advancing
  <1>2. Typed /\ Typed' /\ Spelling /\ Advancing /\ [Next]_vars => Spelling' /\ Advancing'
    <2>1. ASSUME Spelling, Advancing, UNCHANGED parsing PROVE Spelling' /\ Advancing'
      BY <2>1 DEF parsing, Spelling, CallSpells, TokenSpells, Advancing, CallAdvances
    <2> QED BY <2>1, SpellingKept, AdvancingKept DEF Next, vars
  <1>3. Advancing => LocatorsAdvance
    BY DEF Advancing, CallAdvances, LocatorsAdvance
  <1>4. Init /\ [][Next]_vars => [](Typed /\ Spelling /\ Advancing)
    BY <1>1, <1>2, TypedFirst, TypedNext, PTL
  <1> QED BY <1>3, <1>4, PTL DEF Spec

---------------------------------------------------------------------------
(* Sections and what is below them                                           *)

ChildOf(t, s) == \E k \in DOMAIN ChildrenOf[s] : ChildrenOf[s][k] = t

LEMMA SubtreeClosed ==
  ASSUME NEW s \in Sections, NEW p \in Subtree[s], NEW t \in Sections, ChildOf(t, p) PROVE t \in Subtree[s]
  <1> SUFFICES ASSUME NEW S \in SUBSET Sections, s \in S, HoldsChildren(S) PROVE t \in S
    BY DEF Subtree
  <1>1. p \in S
    BY DEF Subtree
  <1> QED BY <1>1 DEF HoldsChildren, ChildOf

LEMMA SubtreeLeast ==
  ASSUME NEW s \in Sections, NEW S \in SUBSET Sections, s \in S, HoldsChildren(S) PROVE Subtree[s] \subseteq S
  BY DEF Subtree

LEMMA ChildTyped == ASSUME NEW s \in Sections, NEW t, ChildOf(t, s) PROVE t \in Sections
  BY TreesAssumption DEF TreesAssumption, ChildOf

\* What is below a child is below its parent.
LEMMA SubtreeOfChild ==
  ASSUME NEW s \in Sections, NEW t \in Sections, ChildOf(t, s) PROVE Subtree[t] \subseteq Subtree[s]
  <1>1. s \in Subtree[s] /\ Subtree[s] \in SUBSET Sections
    BY SubtreeType
  <1>2. t \in Subtree[s]
    BY <1>1, SubtreeClosed
  <1>3. HoldsChildren(Subtree[s])
    <2> SUFFICES ASSUME NEW p \in Subtree[s], NEW k \in DOMAIN ChildrenOf[p] PROVE ChildrenOf[p][k] \in Subtree[s]
      BY DEF HoldsChildren
    <2>1. p \in Sections /\ ChildOf(ChildrenOf[p][k], p)
      BY <1>1 DEF ChildOf
    <2> QED BY <2>1, ChildTyped, SubtreeClosed
  <1> QED BY <1>1, <1>2, <1>3, SubtreeLeast

\* What is below a section, and is not the section, has its parent below it.
LEMMA ParentBelow ==
  ASSUME NEW s \in Sections, NEW t \in Sections, t \in Subtree[s], t # s
  PROVE  \E p \in Subtree[s] : ChildOf(t, p)
  <1> SUFFICES ASSUME \A p \in Subtree[s] : ~ChildOf(t, p) PROVE FALSE
    OBVIOUS
  <1> DEFINE S == Subtree[s] \ {t}
  <1>1. S \in SUBSET Sections /\ s \in S
    BY SubtreeType
  <1>2. HoldsChildren(S)
    <2> SUFFICES ASSUME NEW p \in S, NEW k \in DOMAIN ChildrenOf[p] PROVE ChildrenOf[p][k] \in S
      BY DEF HoldsChildren
    <2>1. p \in Sections /\ p \in Subtree[s] /\ ChildOf(ChildrenOf[p][k], p)
      BY SubtreeType DEF ChildOf
    <2>2. ChildrenOf[p][k] \in Subtree[s]
      BY <2>1, ChildTyped, SubtreeClosed
    <2> QED BY <2>1, <2>2
  <1>3. Subtree[s] \subseteq S
    BY <1>1, <1>2, SubtreeLeast
  <1> QED BY <1>3

LEMMA OneParent ==
  ASSUME NEW s \in Sections, NEW p \in Sections, NEW t, ChildOf(t, s), ChildOf(t, p) PROVE s = p
  BY TreesAssumption DEF TreesAssumption, ChildOf

IsRoot(s, r) == \E i \in DOMAIN RuleOf[r].sections : RuleOf[r].sections[i] = s

LEMMA RootHasNoParent ==
  ASSUME NEW r \in DOMAIN RuleOf, NEW s, IsRoot(s, r), NEW p \in Sections PROVE ~ChildOf(s, p)
  BY TreesAssumption DEF TreesAssumption, IsRoot, ChildOf

---------------------------------------------------------------------------
(* What a step does to the sections on the stack                             *)

Stays ==
  /\ Len(stack') = Len(stack)
  /\ \A d \in 1..Len(stack) : /\ stack'[d].section = stack[d].section
                              /\ (stack'[d].matched <=> stack[d].matched)
  /\ UNCHANGED <<rule, tokens, extraction, properties>>
  /\ next' = next \/ (stack = <<>> /\ next' = next + 1)

Finds(n) ==
  /\ stack # <<>> /\ Len(stack') = Len(stack)
  /\ \A d \in 1..Len(stack) : stack'[d].section = stack[d].section
  /\ \A d \in 2..Len(stack) : stack'[d].matched <=> stack[d].matched
  /\ stack'[1].matched <=> stack[1].matched \/ n > 0
  /\ Len(tokens') = Len(tokens) + n
  /\ \A k \in 1..Len(tokens) : tokens'[k] = tokens[k]
  /\ \A k \in 1..n : tokens'[Len(tokens) + k].section = stack[1].section
  /\ UNCHANGED <<rule, next, extraction, properties>>

Enters ==
  /\ stack = <<>> /\ next \in 1..Len(SectionsOf(rule)) /\ next' = next + 1
  /\ Len(stack') = 1 /\ stack'[1].section = SectionsOf(rule)[next] /\ ~stack'[1].matched
  /\ UNCHANGED <<rule, tokens, extraction, properties>>

Opens ==
  /\ stack # <<>> /\ Len(stack') = Len(stack) + 1
  /\ ChildOf(stack'[1].section, stack[1].section) /\ ~stack'[1].matched
  /\ \A d \in 1..Len(stack) : /\ stack'[d + 1].section = stack[d].section
                              /\ (stack'[d + 1].matched <=> stack[d].matched)
  /\ UNCHANGED <<rule, next, tokens, extraction, properties>>

Leaves ==
  /\ stack # <<>> /\ Len(stack') = Len(stack) - 1
  /\ \A d \in 1..Len(stack') : stack'[d].section = stack[d + 1].section
  /\ \A d \in 2..Len(stack') : stack'[d].matched <=> stack[d + 1].matched
  /\ stack' # <<>> => (stack'[1].matched <=> stack[2].matched \/ stack[1].matched)
  /\ UNCHANGED <<rule, next, tokens>>
  /\ \/ ~stack[1].matched /\ UNCHANGED <<extraction, properties>>
     \/ /\ stack[1].matched /\ extraction' = WithId(extraction, RulesetOf(stack[1].section))
        /\ \E names : properties' = Inserted(names, Value(stack[1].section))

LEMMA ReplacedStays ==
  ASSUME Typed, stack # <<>>, NEW c, Replaced(c), SameText(c, top), c.matched <=> top.matched,
         UNCHANGED <<rule, next, tokens, extraction, properties>>
  PROVE  Stays
  <1>1. Len(stack) \in Nat /\ top = stack[1]
    BY TopTyped DEF Typed, ParsingType
  <1> HIDE DEF top
  <1> QED BY <1>1 DEF Stays, Replaced, SameText

LEMMA EngineFinds == ASSUME Typed, EngineStep PROVE \E n \in Nat : Finds(n)
  <1>1. /\ stack # <<>> /\ top.slice <= Len(top.slices)
        /\ UNCHANGED <<rule, next, extraction, properties>>
        /\ \E n \in Nat : \E pieces : FoundPieces(n, pieces) /\ AddTokens(pieces)
    BY EngineEffect
  <1>2. PICK n \in Nat : \E pieces : FoundPieces(n, pieces) /\ AddTokens(pieces)
    BY <1>1
  <1>3. PICK pieces : FoundPieces(n, pieces) /\ AddTokens(pieces)
    BY <1>2
  <1>4. ParsingType /\ pieces \in [1..n -> PieceType]
    BY <1>3 DEF Typed, FoundPieces
  <1>5. /\ Len(tokens') = Len(tokens) + n
        /\ \A k \in 1..Len(tokens) : tokens'[k] = tokens[k]
        /\ \A k \in 1..n : tokens'[Len(tokens) + k] =
             [section |-> top.section, text |-> pieces[k].text,
              from |-> Slice.from + pieces[k].from, to |-> Slice.from + pieces[k].to]
        /\ \E c \in CallType : SetTop(c) /\ SameText(c, top) /\ (c.matched <=> top.matched \/ n > 0)
    BY <1>1, <1>3, <1>4, TokensAdded DEF SameText
  <1>6. PICK c \in CallType : SetTop(c) /\ SameText(c, top) /\ (c.matched <=> top.matched \/ n > 0)
    BY <1>5
  <1>7. Replaced(c) /\ top = stack[1] /\ Len(stack) \in Nat
    BY <1>1, <1>4, <1>6, ReplacedBy, TopTyped
  <1> HIDE DEF top, Slice
  <1>8. ASSUME NEW k \in 1..n PROVE tokens'[Len(tokens) + k].section = top.section
    <2>1. tokens'[Len(tokens) + k] =
            [section |-> top.section, text |-> pieces[k].text,
             from |-> Slice.from + pieces[k].from, to |-> Slice.from + pieces[k].to]
      BY <1>5
    <2> QED BY <2>1
  <1>9. /\ Len(stack') = Len(stack) /\ stack'[1] = c /\ \A d \in 2..Len(stack) : stack'[d] = stack[d]
    BY <1>7 DEF Replaced
  <1>10. c.section = stack[1].section /\ (c.matched <=> stack[1].matched \/ n > 0)
    BY <1>6, <1>7 DEF SameText
  <1>11. \A d \in 1..Len(stack) : stack'[d].section = stack[d].section
    BY <1>7, <1>9, <1>10
  <1> QED BY <1>1, <1>5, <1>7, <1>8, <1>9, <1>10, <1>11 DEF Finds

LEMMA CallOpens == ASSUME Typed, OpenChild PROVE Opens
  <1> DEFINE b == Call(Children[top.child], Slice.text, Slice.from)
  <1>1. stack # <<>> /\ UNCHANGED <<rule, next, tokens, extraction, properties>>
        /\ top.child <= Len(Children)
    BY DEF OpenChild, Parsing, result
  <1>2. PICK c \in CallType : Pushed(b, c) /\ SameText(c, top) /\ (c.matched <=> top.matched)
    BY OpenChildEffect DEF Typed
  <1>3. top = stack[1] /\ Len(stack) \in Nat /\ top \in CallType
    BY <1>1, TopTyped DEF Typed
  <1>4. b.section = Children[top.child] /\ ~b.matched
    BY DEF Call
  <1>5. ChildOf(b.section, top.section)
    <2> HIDE DEF top
    <2>1. top.section \in Sections /\ top.child \in Nat \ {0}
      BY <1>3 DEF CallType
    <2>2. Children \in Seq(Sections)
      BY <2>1, TreesAssumption DEF TreesAssumption, Children
    <2>3. top.child \in DOMAIN Children
      BY <1>1, <2>1, <2>2
    <2> QED BY <1>4, <2>3 DEF ChildOf, Children
  <1> HIDE DEF top, b
  <1>6. Len(stack') = Len(stack) + 1 /\ stack'[1] = b /\ stack'[2] = c
        /\ \A d \in 3..Len(stack') : stack'[d] = stack[d - 1]
    BY <1>2 DEF Pushed
  <1>7. ASSUME NEW d \in 1..Len(stack)
        PROVE  stack'[d + 1].section = stack[d].section /\ (stack'[d + 1].matched <=> stack[d].matched)
    <2>1. CASE d = 1
      <3>1. d + 1 = 2
        BY <2>1
      <3> QED BY <1>2, <1>3, <1>6, <2>1, <3>1 DEF SameText
    <2>2. CASE d # 1
      <3>1. d + 1 \in 3..Len(stack') /\ (d + 1) - 1 = d
        BY <1>3, <1>6, <2>2
      <3> QED BY <1>6, <3>1
    <2> QED BY <2>1, <2>2
  <1> QED BY <1>1, <1>3, <1>4, <1>5, <1>6, <1>7 DEF Opens

LEMMA CallLeaves == ASSUME Typed, LeaveUnmatched \/ LeaveMatched PROVE Leaves
  <1>1. stack # <<>> /\ Return /\ UNCHANGED <<rule, next, tokens>>
    BY DEF LeaveUnmatched, LeaveMatched, Finished, result
  <1>2. top = stack[1] /\ Len(stack) \in Nat /\ Len(stack) >= 1
    BY <1>1, TopTyped DEF Typed
  <1>3. \/ ~stack[1].matched /\ UNCHANGED <<extraction, properties>>
        \/ /\ stack[1].matched /\ extraction' = WithId(extraction, RulesetOf(stack[1].section))
           /\ \E names : properties' = Inserted(names, Value(stack[1].section))
    BY <1>2 DEF LeaveUnmatched, LeaveMatched, result
  <1>4. CASE Len(stack) = 1 /\ stack' = <<>>
    BY <1>1, <1>3, <1>4 DEF Leaves
  <1>5. CASE /\ Len(stack) > 1
             /\ \E c \in CallType : /\ Popped(c) /\ SameText(c, stack[2])
                                    /\ (c.matched <=> stack[2].matched \/ top.matched)
    <2>1. PICK c \in CallType : /\ Popped(c) /\ SameText(c, stack[2])
                                /\ (c.matched <=> stack[2].matched \/ top.matched)
      BY <1>5
    <2>2. Len(stack') = Len(stack) - 1 /\ stack'[1] = c /\ \A d \in 2..Len(stack') : stack'[d] = stack[d + 1]
      BY <2>1 DEF Popped
    <2>3. c.section = stack[2].section /\ (c.matched <=> stack[2].matched \/ stack[1].matched)
      BY <1>2, <2>1 DEF SameText
    <2>4. \A d \in 1..Len(stack') : stack'[d].section = stack[d + 1].section
      <3> SUFFICES ASSUME NEW d \in 1..Len(stack') PROVE stack'[d].section = stack[d + 1].section
        OBVIOUS
      <3>1. CASE d = 1
        <4>1. d + 1 = 2
          BY <3>1
        <4> QED BY <2>2, <2>3, <3>1, <4>1
      <3>2. CASE d \in 2..Len(stack')
        BY <2>2, <3>2
      <3>3. d = 1 \/ d \in 2..Len(stack')
        BY <1>2, <2>2
      <3> QED BY <3>1, <3>2, <3>3
    <2> QED BY <1>1, <1>3, <2>2, <2>3, <2>4 DEF Leaves
  <1> QED BY <1>1, <1>4, <1>5, ReturnEffect DEF Typed

FilterStep == RuleRejects \/ RuleMatches \/ NoRuleMatches

\* What the steps come to, once a rule has the message.
LEMMA Moves ==
  ASSUME Typed, Parse, ~FilterStep
  PROVE  /\ pc = "sections"
         /\ Stays \/ (\E n \in Nat : Finds(n)) \/ Enters \/ Opens \/ Leaves
  <1>1. CASE EnterCaptured \/ EnterWhole
    <2>1. /\ Entering /\ next' = next + 1 /\ UNCHANGED <<rule, tokens, extraction, properties>>
      BY <1>1 DEF EnterCaptured, EnterWhole, result
    <2>2. \E c \in CallType : Entered(c) /\ c.section = Section /\ ~c.matched
      <3>1. CASE EnterCaptured
        BY <3>1, EnterCapturedEffect
      <3>2. CASE EnterWhole
        BY <3>2, EnterWholeEffect DEF Call
      <3> QED BY <1>1, <3>1, <3>2
    <2>3. next \in 1..Len(SectionsOf(rule))
      <3>1. next \in Nat \ {0} /\ rule \in 1..Len(rules)
        BY <2>1 DEF Typed, ParsingType, Entering
      <3>2. SectionsOf(rule) \in Seq(Sections) /\ next <= Len(SectionsOf(rule))
        BY <2>1, <3>1, RuleTyped DEF Typed, Entering
      <3> QED BY <3>1, <3>2
    <2> QED BY <2>1, <2>2, <2>3 DEF Enters, Entered, Entering, Section
  <1>2. CASE EnterMissing \/ Finish
    <2>1. /\ pc = "sections" /\ stack = <<>> /\ stack' = stack
          /\ UNCHANGED <<rule, tokens, extraction, properties>>
          /\ (next' = next \/ next' = next + 1)
      BY <1>2 DEF EnterMissing, Finish, Entering, result
    <2> QED BY <2>1 DEF Stays
  <1>3. CASE NoLocator \/ LocateNothing \/ LocateSlice \/ NextSlice
    <2>1. stack # <<>> /\ UNCHANGED <<rule, next, tokens, extraction, properties>>
      BY <1>3 DEF NoLocator, LocateNothing, LocateSlice, NextSlice, Locating, Parsing, result
    <2>2. \E c \in CallType : Replaced(c) /\ SameText(c, top) /\ (c.matched <=> top.matched)
      BY <1>3, NoLocatorEffect, LocateNothingEffect, LocateSliceEffect, NextSliceEffect DEF Typed
    <2>3. Stays
      BY <2>1, <2>2, ReplacedStays
    <2> QED BY <2>1, <2>3 DEF Typed, Idle
  <1>4. CASE EngineStep
    <2>1. stack # <<>>
      BY <1>4, EngineEffect
    <2> QED BY <1>4, <2>1, EngineFinds DEF Typed, Idle
  <1>5. CASE OpenChild
    <2>1. stack # <<>>
      BY <1>5 DEF OpenChild, Parsing
    <2> QED BY <1>5, <2>1, CallOpens DEF Typed, Idle
  <1>6. CASE LeaveUnmatched \/ LeaveMatched
    <2>1. stack # <<>>
      BY <1>6 DEF LeaveUnmatched, LeaveMatched, Finished
    <2> QED BY <1>6, <2>1, CallLeaves DEF Typed, Idle
  <1> QED BY <1>1, <1>2, <1>3, <1>4, <1>5, <1>6 DEF Parse, EngineStep, FilterStep

\* The stack is a path from the section of the rule that is parsed to one below
\* it, and goes through every section above its top.
Nesting ==
  /\ \A d \in 1..(Len(stack) - 1) : ChildOf(stack[d].section, stack[d + 1].section)
  /\ stack # <<>> => /\ next - 1 \in 1..Len(SectionsOf(rule))
                     /\ stack[Len(stack)].section = SectionsOf(rule)[next - 1]
  /\ \A d \in 1..Len(stack) : \A s \in Sections :
       stack[d].section \in Subtree[s] => \E e \in d..Len(stack) : stack[e].section = s

LEMMA SectionTyped ==
  ASSUME Typed, NEW d \in 1..Len(stack) PROVE stack[d].section \in Sections
  <1>1. stack[d] \in CallType
    BY DEF Typed, ParsingType
  <1> QED BY <1>1 DEF CallType

LEMMA RootOf ==
  ASSUME Typed, pc = "sections", NEW i \in 1..Len(SectionsOf(rule))
  PROVE  /\ SectionsOf(rule)[i] \in Sections
         /\ IsRoot(SectionsOf(rule)[i], rules[rule]) /\ rules[rule] \in DOMAIN RuleOf
         /\ \A j \in 1..Len(SectionsOf(rule)) : SectionsOf(rule)[i] = SectionsOf(rule)[j] => i = j
  <1>1. rules[rule] \in DOMAIN RuleOf /\ SectionsOf(rule) \in Seq(Sections)
    BY RuleTyped DEF Typed, ParsingType
  <1>2. DOMAIN SectionsOf(rule) = 1..Len(SectionsOf(rule)) /\ SectionsOf(rule)[i] \in Sections
    BY <1>1
  <1> QED BY <1>1, <1>2, TreesAssumption DEF TreesAssumption, SectionsOf, IsRoot

LEMMA NestingKept ==
  ASSUME Typed, Typed', Nesting, UNCHANGED loading, phase = "loaded", Parse PROVE Nesting'
  <1>1. Len(stack) \in Nat /\ Len(stack') \in Nat /\ (stack = <<>> <=> Len(stack) = 0)
        /\ (stack' = <<>> <=> Len(stack') = 0)
    BY DEF Typed, ParsingType
  <1>2. rule' = rule => SectionsOf(rule)' = SectionsOf(rule)
    BY DEF SectionsOf, loading
  <1>3. next \in Nat \ {0}
    BY DEF Typed, ParsingType
  <1>4. CASE FilterStep
    <2>1. stack' = <<>>
      BY <1>4 DEF FilterStep, RuleRejects, RuleMatches, NoRuleMatches, Typed, Idle
    <2> QED BY <2>1 DEF Nesting
  <1>5. ASSUME Len(stack') = Len(stack), \A d \in 1..Len(stack) : stack'[d].section = stack[d].section,
               rule' = rule, next' = next \/ stack = <<>>
        PROVE  Nesting'
    <2>1. \A d \in 1..(Len(stack) - 1) : d + 1 \in 1..Len(stack)
      BY <1>1
    <2>2. stack # <<>> => next' = next /\ Len(stack) \in 1..Len(stack)
      BY <1>1, <1>5
    <2>3. \A d \in 1..(Len(stack') - 1) : ChildOf(stack'[d].section, stack'[d + 1].section)
      BY <1>1, <1>5, <2>1 DEF Nesting
    <2>4. stack' # <<>> => /\ next' - 1 \in 1..Len(SectionsOf(rule)')
                           /\ stack'[Len(stack')].section = SectionsOf(rule)'[next' - 1]
      BY <1>1, <1>2, <1>5, <2>2 DEF Nesting
    <2>5. ASSUME NEW d \in 1..Len(stack'), NEW s \in Sections, stack'[d].section \in Subtree[s]
          PROVE  \E e \in d..Len(stack') : stack'[e].section = s
      <3>1. d \in 1..Len(stack) /\ stack[d].section \in Subtree[s]
        BY <1>5, <2>5
      <3>2. PICK e \in d..Len(stack) : stack[e].section = s
        BY <3>1 DEF Nesting
      <3>3. e \in d..Len(stack') /\ stack'[e].section = s
        BY <1>1, <1>5, <3>1, <3>2
      <3> QED BY <3>3
    <2> QED BY <1>5, <2>3, <2>4, <2>5 DEF Nesting, SectionsOf, loading
  <1>6. CASE Stays \/ \E n \in Nat : Finds(n)
    BY <1>5, <1>6 DEF Stays, Finds
  <1>7. CASE pc = "sections" /\ Enters
    <2> DEFINE root == SectionsOf(rule)[next]
    <2>1. next \in 1..Len(SectionsOf(rule)) /\ next' - 1 = next /\ Len(stack') = 1 /\ stack'[1].section = root
          /\ SectionsOf(rule)' = SectionsOf(rule)
      BY <1>2, <1>3, <1>7 DEF Enters
    <2>2. /\ root \in Sections /\ IsRoot(root, rules[rule]) /\ rules[rule] \in DOMAIN RuleOf
      BY <1>7, <2>1, RootOf
    <2> HIDE DEF root
    <2>3. ASSUME NEW s \in Sections, root \in Subtree[s] PROVE root = s
      <3>1. \A p \in Sections : ~ChildOf(root, p)
        BY <2>2, RootHasNoParent
      <3> QED BY <2>2, <2>3, <3>1, ParentBelow, SubtreeType
    <2> QED BY <2>1, <2>3 DEF Nesting, root
  <1>8. CASE Opens
    <2> DEFINE new == stack'[1].section
    <2>1. /\ Len(stack') = Len(stack) + 1 /\ ChildOf(new, stack[1].section) /\ rule' = rule /\ next' = next
          /\ \A d \in 1..Len(stack) : stack'[d + 1].section = stack[d].section
          /\ stack # <<>>
      BY <1>8 DEF Opens
    <2>2. 1 \in 1..Len(stack) /\ stack[1].section \in Sections /\ new \in Sections
      BY <1>1, <2>1, SectionTyped, ChildTyped
    <2> HIDE DEF new
    <2>3. \A d \in 1..(Len(stack') - 1) : ChildOf(stack'[d].section, stack'[d + 1].section)
      <3> SUFFICES ASSUME NEW d \in 1..(Len(stack') - 1) PROVE ChildOf(stack'[d].section, stack'[d + 1].section)
        OBVIOUS
      <3>1. CASE d = 1
        BY <2>1, <2>2, <3>1 DEF new
      <3>2. CASE d # 1
        <4>1. d - 1 \in 1..(Len(stack) - 1) /\ (d - 1) + 1 = d /\ d - 1 \in 1..Len(stack) /\ d \in 1..Len(stack)
          BY <1>1, <2>1, <3>2
        <4>2. stack'[d].section = stack[d - 1].section /\ stack'[d + 1].section = stack[d].section
          BY <2>1, <4>1
        <4> QED BY <4>1, <4>2 DEF Nesting
      <3> QED BY <3>1, <3>2
    <2>4. next - 1 \in 1..Len(SectionsOf(rule)) /\ stack'[Len(stack')].section = SectionsOf(rule)[next - 1]
      BY <1>1, <2>1, <2>2 DEF Nesting
    <2>5. ASSUME NEW d \in 1..Len(stack'), NEW s \in Sections, stack'[d].section \in Subtree[s]
          PROVE  \E e \in d..Len(stack') : stack'[e].section = s
      <3>1. ASSUME NEW f \in 1..Len(stack), f + 1 >= d, stack[f].section \in Subtree[s]
            PROVE  \E e \in d..Len(stack') : stack'[e].section = s
        <4>1. PICK e \in f..Len(stack) : stack[e].section = s
          BY <3>1 DEF Nesting
        <4>2. e \in 1..Len(stack) /\ e + 1 \in d..Len(stack')
          BY <1>1, <2>1, <3>1
        <4> QED BY <2>1, <4>1, <4>2
      <3>2. CASE d = 1
        <4>1. CASE new = s
          <5>1. 1 \in d..Len(stack')
            BY <1>1, <2>1, <3>2
          <5> QED BY <3>2, <4>1, <5>1 DEF new
        <4>2. CASE new # s
          <5>1. PICK p \in Subtree[s] : ChildOf(new, p)
            BY <2>2, <2>5, <3>2, <4>2, ParentBelow DEF new
          <5>2. p = stack[1].section
            BY <2>1, <2>2, <5>1, SubtreeType, OneParent
          <5> QED BY <2>2, <3>1, <3>2, <5>1, <5>2
        <4> QED BY <4>1, <4>2
      <3>3. CASE d # 1
        <4>1. d - 1 \in 1..Len(stack) /\ (d - 1) + 1 = d /\ (d - 1) + 1 >= d
          BY <1>1, <2>1, <3>3
        <4>2. stack[d - 1].section \in Subtree[s]
          BY <2>1, <2>5, <4>1
        <4> QED BY <3>1, <4>1, <4>2
      <3> QED BY <3>2, <3>3
    <2> QED BY <1>2, <2>1, <2>3, <2>4, <2>5 DEF Nesting
  <1>9. CASE Leaves
    <2>1. /\ Len(stack') = Len(stack) - 1 /\ rule' = rule /\ next' = next /\ stack # <<>>
          /\ \A d \in 1..Len(stack') : stack'[d].section = stack[d + 1].section
      BY <1>9 DEF Leaves
    <2>2. \A d \in 1..(Len(stack') - 1) : ChildOf(stack'[d].section, stack'[d + 1].section)
      <3> SUFFICES ASSUME NEW d \in 1..(Len(stack') - 1) PROVE ChildOf(stack'[d].section, stack'[d + 1].section)
        OBVIOUS
      <3>1. d \in 1..Len(stack') /\ d + 1 \in 1..Len(stack') /\ d + 1 \in 1..(Len(stack) - 1)
        BY <1>1, <2>1
      <3>2. stack'[d].section = stack[d + 1].section /\ stack'[d + 1].section = stack[(d + 1) + 1].section
        BY <2>1, <3>1
      <3> QED BY <3>1, <3>2 DEF Nesting
    <2>3. stack' # <<>> => /\ next - 1 \in 1..Len(SectionsOf(rule))
                           /\ stack'[Len(stack')].section = SectionsOf(rule)[next - 1]
      <3>1. stack' # <<>> => Len(stack') \in 1..Len(stack') /\ Len(stack') + 1 = Len(stack)
        BY <1>1, <2>1
      <3> QED BY <2>1, <3>1 DEF Nesting
    <2>4. ASSUME NEW d \in 1..Len(stack'), NEW s \in Sections, stack'[d].section \in Subtree[s]
          PROVE  \E e \in d..Len(stack') : stack'[e].section = s
      <3>1. d + 1 \in 1..Len(stack) /\ stack[d + 1].section \in Subtree[s]
        BY <1>1, <2>1, <2>4
      <3>2. PICK e \in (d + 1)..Len(stack) : stack[e].section = s
        BY <3>1 DEF Nesting
      <3>3. e - 1 \in d..Len(stack') /\ e - 1 \in 1..Len(stack') /\ (e - 1) + 1 = e
        BY <1>1, <2>1
      <3>4. stack'[e - 1].section = s
        BY <2>1, <3>2, <3>3
      <3> QED BY <3>3, <3>4
    <2> QED BY <1>2, <2>1, <2>2, <2>3, <2>4 DEF Nesting
  <1> QED BY <1>4, <1>6, <1>7, <1>8, <1>9, Moves

---------------------------------------------------------------------------
(* The ids that are recorded                                                 *)

Recorded(ids, id) == \E k \in DOMAIN ids : ids[k] = id
Distinct(ids) == \A j, k \in DOMAIN ids : ids[j] = ids[k] => j = k
HasTokensIn(ts, s) == \E k \in DOMAIN ts : ts[k].section \in Subtree[s]

\* A section on the stack that will be recorded when it is left.
Pending(s) == \E d \in 1..Len(stack) : stack[d].section = s /\ \E e \in 1..d : stack[e].matched

MatchedHave == \A d \in 1..Len(stack) : stack[d].matched => HasTokensIn(tokens, stack[d].section)

FoundRecorded ==
  \A s \in Sections :
    HasTokensIn(tokens, s) /\ RulesetOf(s) # NoId => Recorded(extraction, RulesetOf(s)) \/ Pending(s)

RuleRecorded ==
  pc # "filter" /\ rule <= Len(rules) /\ RuleOf[rules[rule]].id # NoId =>
    Recorded(extraction, RuleOf[rules[rule]].id)

OnlyFound ==
  pc # "filter" /\ rule <= Len(rules) =>
    \A k \in DOMAIN extraction :
      extraction[k] = RuleOf[rules[rule]].id
        \/ \E s \in Sections : RulesetOf(s) = extraction[k] /\ HasTokensIn(tokens, s)

Recording == MatchedHave /\ FoundRecorded /\ RuleRecorded /\ OnlyFound /\ Distinct(extraction)

LEMMA RecordedOnce ==
  ASSUME NEW ids \in Seq(Ids), NEW id \in Ids \cup {NoId}, NEW new, new = WithId(ids, id)
  PROVE  /\ id # NoId => \E k \in DOMAIN new : new[k] = id
         /\ \A k \in DOMAIN ids : k \in DOMAIN new /\ new[k] = ids[k]
         /\ \A k \in DOMAIN new : (new[k] = id /\ id # NoId) \/ \E j \in DOMAIN ids : new[k] = ids[j]
         /\ Distinct(ids) => Distinct(new)
  <1> DEFINE n == Len(ids)
  <1>1. n \in Nat /\ DOMAIN ids = 1..n
    OBVIOUS
  <1>2. CASE id = NoId \/ \E k \in DOMAIN ids : ids[k] = id
    <2>1. new = ids
      BY <1>2 DEF WithId
    <2> QED BY <1>2, <2>1
  <1>3. CASE id # NoId /\ \A k \in DOMAIN ids : ids[k] # id
    <2>1. new = Append(ids, id)
      BY <1>3 DEF WithId
    <2>2. DOMAIN new = 1..(n + 1) /\ new[n + 1] = id /\ \A k \in 1..n : new[k] = ids[k]
      BY <2>1
    <2> HIDE DEF n
    <2>3. \A k \in 1..(n + 1) : k = n + 1 \/ k \in 1..n
      BY <1>1
    <2>4. n + 1 \in 1..(n + 1) /\ 1..n \subseteq 1..(n + 1)
      BY <1>1
    <2>5. Distinct(ids) => Distinct(new)
      BY <1>1, <1>3, <2>2, <2>3 DEF Distinct
    <2> QED BY <1>1, <1>3, <2>2, <2>3, <2>4, <2>5
  <1> QED BY <1>2, <1>3

\* Tokens are only added.
TokensGrow ==
  /\ Len(tokens) <= Len(tokens')
  /\ \A k \in 1..Len(tokens) : tokens'[k] = tokens[k]

LEMMA HasTokensGrows ==
  ASSUME Typed, Typed', TokensGrow, NEW s, HasTokensIn(tokens, s) PROVE HasTokensIn(tokens', s)
  <1>1. /\ DOMAIN tokens = 1..Len(tokens) /\ DOMAIN tokens' = 1..Len(tokens')
        /\ Len(tokens) \in Nat /\ Len(tokens') \in Nat
    BY DEF Typed, ParsingType
  <1>2. PICK k \in 1..Len(tokens) : tokens[k].section \in Subtree[s]
    BY <1>1 DEF HasTokensIn
  <1>3. k \in 1..Len(tokens')
    BY <1>1 DEF TokensGrow
  <1>4. tokens'[k].section \in Subtree[s]
    BY <1>2 DEF TokensGrow
  <1> QED BY <1>1, <1>3, <1>4 DEF HasTokensIn

\* The list gets no id but that of a section with tokens.
ExtractionGrows ==
  \/ extraction' = extraction
  \/ \E s \in Sections : HasTokensIn(tokens, s) /\ extraction' = WithId(extraction, RulesetOf(s))

LEMMA ExtractionKept ==
  ASSUME Typed, Typed', Recording, UNCHANGED loading, pc # "filter",
         TokensGrow, rule' = rule, ExtractionGrows
  PROVE  /\ RuleRecorded' /\ OnlyFound' /\ Distinct(extraction')
         /\ \A id : Recorded(extraction, id) => Recorded(extraction', id)
  <1>1. /\ rules' = rules /\ extraction \in Seq(Ids)
        /\ \A s : RulesetOf(s)' = RulesetOf(s)
    BY DEF loading, RulesetOf, Typed, ParsingType
  <1> DEFINE rid == RuleOf[rules[rule]].id
             Given(x) == \E s \in Sections : RulesetOf(s) = x /\ HasTokensIn(tokens, s)
             Given2(x) == \E s \in Sections : RulesetOf(s) = x /\ HasTokensIn(tokens', s)
  <1>2. \A x : Given(x) => Given2(x)
    BY HasTokensGrows
  <1>3. /\ \A k \in DOMAIN extraction : k \in DOMAIN extraction' /\ extraction'[k] = extraction[k]
        /\ \A k \in DOMAIN extraction' : Given(extraction'[k]) \/ \E j \in DOMAIN extraction : extraction'[k] = extraction[j]
        /\ Distinct(extraction')
    <2>1. CASE extraction' = extraction
      BY <2>1 DEF Recording
    <2>2. CASE \E s \in Sections : HasTokensIn(tokens, s) /\ extraction' = WithId(extraction, RulesetOf(s))
      <3>1. PICK s \in Sections : HasTokensIn(tokens, s) /\ extraction' = WithId(extraction, RulesetOf(s))
        BY <2>2
      <3> DEFINE id == RulesetOf(s)
      <3>2. id \in Ids \cup {NoId}
        BY BoundTyped DEF Typed
      <3>3. Given(id)
        BY <3>1
      <3> HIDE DEF id
      <3>4. extraction' = WithId(extraction, id)
        BY <3>1 DEF id
      <3>5. /\ \A k \in DOMAIN extraction : k \in DOMAIN extraction' /\ extraction'[k] = extraction[k]
            /\ \A k \in DOMAIN extraction' : (extraction'[k] = id /\ id # NoId) \/ \E j \in DOMAIN extraction : extraction'[k] = extraction[j]
            /\ Distinct(extraction) => Distinct(extraction')
        BY <1>1, <3>2, <3>4, RecordedOnce
      <3> HIDE DEF Given
      <3> QED BY <3>3, <3>5 DEF Recording
    <2> QED BY <2>1, <2>2 DEF ExtractionGrows
  <1>4. \A id : Recorded(extraction, id) => Recorded(extraction', id)
    BY <1>3 DEF Recorded
  <1>5. RuleRecorded'
    <2>1. RuleRecorded
      BY DEF Recording
    <2> QED BY <1>1, <1>4, <2>1 DEF RuleRecorded
  <1>6. OnlyFound'
    <2> SUFFICES ASSUME rule <= Len(rules), NEW k \in DOMAIN extraction'
                 PROVE  extraction'[k] = rid \/ Given2(extraction'[k])
      BY <1>1 DEF OnlyFound
    <2>1. \A j \in DOMAIN extraction : extraction[j] = rid \/ Given(extraction[j])
      BY DEF Recording, OnlyFound
    <2> HIDE DEF rid, Given, Given2
    <2> QED BY <1>2, <1>3, <2>1
  <1> QED BY <1>3, <1>4, <1>5, <1>6

LEMMA StaysRecording ==
  ASSUME Typed, Typed', Recording, UNCHANGED loading, Stays, pc # "filter" PROVE Recording'
  <1>1. /\ tokens' = tokens /\ extraction' = extraction /\ bound' = bound /\ rule' = rule
        /\ Len(stack') = Len(stack)
        /\ \A d \in 1..Len(stack) : /\ stack'[d].section = stack[d].section
                                    /\ (stack'[d].matched <=> stack[d].matched)
    BY DEF Stays, loading
  <1>2. MatchedHave'
    <2>1. MatchedHave
      BY DEF Recording
    <2> QED BY <1>1, <2>1 DEF MatchedHave
  <1>3. ASSUME NEW s, Pending(s) PROVE Pending(s)'
    <2>1. PICK d \in 1..Len(stack) : stack[d].section = s /\ \E e \in 1..d : stack[e].matched
      BY <1>3 DEF Pending
    <2>2. PICK e \in 1..d : stack[e].matched
      BY <2>1
    <2>3. e \in 1..Len(stack)
      BY DEF Typed, ParsingType
    <2> QED BY <1>1, <2>1, <2>2, <2>3 DEF Pending
  <1>4. FoundRecorded'
    <2>1. FoundRecorded /\ \A s : RulesetOf(s)' = RulesetOf(s)
      BY <1>1 DEF Recording, RulesetOf
    <2> QED BY <1>1, <1>3, <2>1 DEF FoundRecorded
  <1>5. TokensGrow /\ ExtractionGrows
    <2>1. Len(tokens) \in Nat
      BY DEF Typed, ParsingType
    <2> QED BY <1>1, <2>1 DEF TokensGrow, ExtractionGrows
  <1> QED BY <1>1, <1>2, <1>4, <1>5, ExtractionKept DEF Recording

LEMMA FindsRecording ==
  ASSUME Typed, Typed', Recording, Nesting, UNCHANGED loading, pc # "filter", NEW n \in Nat, Finds(n)
  PROVE  Recording'
  <1>1. /\ extraction' = extraction /\ bound' = bound /\ rule' = rule
        /\ Len(stack') = Len(stack) /\ stack # <<>>
        /\ \A d \in 1..Len(stack) : stack'[d].section = stack[d].section
        /\ \A d \in 2..Len(stack) : stack'[d].matched <=> stack[d].matched
        /\ stack'[1].matched <=> stack[1].matched \/ n > 0
        /\ Len(tokens') = Len(tokens) + n
        /\ \A k \in 1..Len(tokens) : tokens'[k] = tokens[k]
        /\ \A k \in 1..n : tokens'[Len(tokens) + k].section = stack[1].section
    BY DEF Finds, loading
  <1>2. /\ Len(tokens) \in Nat /\ DOMAIN tokens = 1..Len(tokens) /\ DOMAIN tokens' = 1..Len(tokens')
        /\ Len(stack) \in Nat /\ 1 \in 1..Len(stack)
    BY <1>1 DEF Typed, ParsingType
  <1>3. TokensGrow /\ ExtractionGrows
    BY <1>1, <1>2 DEF TokensGrow, ExtractionGrows
  <1>4. stack[1].section \in Sections
    BY <1>2, SectionTyped
  <1>5. n > 0 => HasTokensIn(tokens', stack[1].section)
    <2> SUFFICES ASSUME n > 0 PROVE HasTokensIn(tokens', stack[1].section)
      OBVIOUS
    <2>1. 1 \in 1..n /\ Len(tokens) + 1 \in 1..Len(tokens')
      BY <1>1, <1>2
    <2>2. tokens'[Len(tokens) + 1].section = stack[1].section
      BY <1>1, <2>1
    <2> QED BY <1>2, <1>4, <2>1, <2>2, SubtreeType DEF HasTokensIn
  <1>6. \A d \in 1..Len(stack) : stack[d].matched => stack'[d].matched
    <2> SUFFICES ASSUME NEW d \in 1..Len(stack), stack[d].matched PROVE stack'[d].matched
      OBVIOUS
    <2>1. d = 1 \/ d \in 2..Len(stack)
      BY <1>2
    <2> QED BY <1>1, <2>1
  <1>7. MatchedHave'
    <2> SUFFICES ASSUME NEW d \in 1..Len(stack), stack'[d].matched PROVE HasTokensIn(tokens', stack[d].section)
      BY <1>1 DEF MatchedHave
    <2>1. CASE stack[d].matched
      BY <1>3, <2>1, HasTokensGrows DEF Recording, MatchedHave
    <2>2. CASE ~stack[d].matched
      <3>1. d = 1 \/ d \in 2..Len(stack)
        BY <1>2
      <3> QED BY <1>1, <1>5, <2>2, <3>1
    <2> QED BY <2>1, <2>2
  <1>8. ASSUME NEW s, Pending(s) PROVE Pending(s)'
    <2>1. PICK d \in 1..Len(stack) : stack[d].section = s /\ \E e \in 1..d : stack[e].matched
      BY <1>8 DEF Pending
    <2>2. PICK e \in 1..d : stack[e].matched
      BY <2>1
    <2>3. e \in 1..Len(stack)
      BY <1>2
    <2> QED BY <1>1, <1>6, <2>1, <2>2, <2>3 DEF Pending
  <1>9. FoundRecorded'
    <2>1. \A s : RulesetOf(s)' = RulesetOf(s)
      BY <1>1 DEF RulesetOf
    <2> SUFFICES ASSUME NEW s \in Sections, HasTokensIn(tokens', s), RulesetOf(s) # NoId
                 PROVE  Recorded(extraction, RulesetOf(s)) \/ Pending(s)'
      BY <1>1, <2>1 DEF FoundRecorded
    <2>2. PICK k \in 1..Len(tokens') : tokens'[k].section \in Subtree[s]
      BY <1>2 DEF HasTokensIn
    <2>3. CASE k \in 1..Len(tokens)
      <3>1. HasTokensIn(tokens, s)
        BY <1>1, <1>2, <2>2, <2>3 DEF HasTokensIn
      <3> QED BY <1>8, <3>1 DEF Recording, FoundRecorded
    <2>4. CASE k \notin 1..Len(tokens)
      <3>1. k - Len(tokens) \in 1..n /\ Len(tokens) + (k - Len(tokens)) = k /\ n > 0
        BY <1>1, <1>2, <2>4
      <3>2. stack[1].section \in Subtree[s]
        BY <1>1, <2>2, <3>1
      <3>3. PICK e \in 1..Len(stack) : stack[e].section = s
        BY <1>2, <3>2 DEF Nesting
      <3>4. stack'[1].matched /\ 1 \in 1..e /\ e \in 1..Len(stack')
        BY <1>1, <1>2, <3>1
      <3> QED BY <1>1, <3>3, <3>4 DEF Pending
    <2> QED BY <2>3, <2>4
  <1> QED BY <1>1, <1>3, <1>7, <1>9, ExtractionKept DEF Recording

LEMMA EntersRecording ==
  ASSUME Typed, Typed', Recording, UNCHANGED loading, pc # "filter", Enters PROVE Recording'
  <1>1. /\ tokens' = tokens /\ extraction' = extraction /\ bound' = bound /\ rule' = rule
        /\ stack = <<>> /\ Len(stack') = 1 /\ ~stack'[1].matched
    BY DEF Enters, loading
  <1>2. TokensGrow /\ ExtractionGrows
    <2>1. Len(tokens) \in Nat
      BY DEF Typed, ParsingType
    <2> QED BY <1>1, <2>1 DEF TokensGrow, ExtractionGrows
  <1>3. MatchedHave'
    BY <1>1 DEF MatchedHave
  <1>4. FoundRecorded'
    <2>1. FoundRecorded /\ (\A s : RulesetOf(s)' = RulesetOf(s)) /\ \A s : ~Pending(s)
      BY <1>1 DEF Recording, RulesetOf, Pending
    <2> QED BY <1>1, <2>1 DEF FoundRecorded
  <1> QED BY <1>1, <1>2, <1>3, <1>4, ExtractionKept DEF Recording

LEMMA OpensRecording ==
  ASSUME Typed, Typed', Recording, UNCHANGED loading, pc # "filter", Opens PROVE Recording'
  <1>1. /\ tokens' = tokens /\ extraction' = extraction /\ bound' = bound /\ rule' = rule
        /\ Len(stack') = Len(stack) + 1 /\ ~stack'[1].matched
        /\ \A d \in 1..Len(stack) : /\ stack'[d + 1].section = stack[d].section
                                    /\ (stack'[d + 1].matched <=> stack[d].matched)
    BY DEF Opens, loading
  <1>2. Len(tokens) \in Nat /\ Len(stack) \in Nat
    BY DEF Typed, ParsingType
  <1>3. TokensGrow /\ ExtractionGrows
    BY <1>1, <1>2 DEF TokensGrow, ExtractionGrows
  <1>4. MatchedHave'
    <2> SUFFICES ASSUME NEW d \in 1..Len(stack'), stack'[d].matched
                 PROVE  HasTokensIn(tokens, stack'[d].section)
      BY <1>1 DEF MatchedHave
    <2>1. d - 1 \in 1..Len(stack) /\ (d - 1) + 1 = d
      <3>1. d # 1
        BY <1>1
      <3> QED BY <1>1, <1>2, <3>1
    <2>2. stack'[d].section = stack[d - 1].section /\ stack[d - 1].matched
      BY <1>1, <2>1
    <2> QED BY <2>1, <2>2 DEF Recording, MatchedHave
  <1>5. ASSUME NEW s, Pending(s) PROVE Pending(s)'
    <2>1. PICK d \in 1..Len(stack) : stack[d].section = s /\ \E e \in 1..d : stack[e].matched
      BY <1>5 DEF Pending
    <2>2. PICK e \in 1..d : stack[e].matched
      BY <2>1
    <2>3. e \in 1..Len(stack) /\ e + 1 \in 1..(d + 1) /\ d + 1 \in 1..Len(stack')
      BY <1>1, <1>2
    <2>4. stack'[d + 1].section = s /\ stack'[e + 1].matched
      BY <1>1, <2>1, <2>2, <2>3
    <2> QED BY <2>3, <2>4 DEF Pending
  <1>6. FoundRecorded'
    <2>1. FoundRecorded /\ \A s : RulesetOf(s)' = RulesetOf(s)
      BY <1>1 DEF Recording, RulesetOf
    <2> QED BY <1>1, <1>5, <2>1 DEF FoundRecorded
  <1> QED BY <1>1, <1>3, <1>4, <1>6, ExtractionKept DEF Recording

LEMMA LeavesRecording ==
  ASSUME Typed, Typed', Recording, Nesting, UNCHANGED loading, pc # "filter", Leaves PROVE Recording'
  <1> DEFINE left == stack[1].section
  <1>1. /\ tokens' = tokens /\ bound' = bound /\ rule' = rule /\ stack # <<>>
        /\ Len(stack') = Len(stack) - 1
        /\ \A d \in 1..Len(stack') : stack'[d].section = stack[d + 1].section
        /\ \A d \in 2..Len(stack') : stack'[d].matched <=> stack[d + 1].matched
        /\ stack' # <<>> => (stack'[1].matched <=> stack[2].matched \/ stack[1].matched)
    BY DEF Leaves, loading
  <1>2. /\ Len(tokens) \in Nat /\ Len(stack) \in Nat /\ 1 \in 1..Len(stack)
        /\ extraction \in Seq(Ids) /\ (stack' # <<>> <=> Len(stack') > 0)
    BY <1>1 DEF Typed, ParsingType
  <1>3. left \in Sections /\ (stack[1].matched => HasTokensIn(tokens, left))
    BY <1>2, SectionTyped DEF Recording, MatchedHave
  <1>4. TokensGrow /\ ExtractionGrows
    BY <1>1, <1>2, <1>3 DEF TokensGrow, ExtractionGrows, Leaves
  <1>5. /\ RuleRecorded' /\ OnlyFound' /\ Distinct(extraction')
        /\ \A id : Recorded(extraction, id) => Recorded(extraction', id)
    BY <1>1, <1>4, ExtractionKept
  <1>6. \A d \in 1..Len(stack') : d + 1 \in 1..Len(stack) /\ (stack[d + 1].matched => stack'[d].matched)
    <2> SUFFICES ASSUME NEW d \in 1..Len(stack')
                 PROVE  d + 1 \in 1..Len(stack) /\ (stack[d + 1].matched => stack'[d].matched)
      OBVIOUS
    <2>1. d + 1 \in 1..Len(stack) /\ stack' # <<>> /\ (d = 1 \/ d \in 2..Len(stack'))
      BY <1>1, <1>2
    <2>2. CASE d = 1
      <3>1. d + 1 = 2
        BY <2>2
      <3> QED BY <1>1, <2>1, <2>2, <3>1
    <2> QED BY <1>1, <2>1, <2>2
  <1>7. MatchedHave'
    <2> SUFFICES ASSUME NEW d \in 1..Len(stack'), stack'[d].matched
                 PROVE  HasTokensIn(tokens, stack[d + 1].section)
      BY <1>1 DEF MatchedHave
    <2>1. CASE stack[d + 1].matched
      BY <1>6, <2>1 DEF Recording, MatchedHave
    <2>2. CASE ~stack[d + 1].matched
      <3>1. d = 1 /\ stack[1].matched
        <4>1. stack' # <<>> /\ (d = 1 \/ d \in 2..Len(stack'))
          BY <1>2
        <4>2. CASE d = 1
          <5>1. d + 1 = 2
            BY <4>2
          <5> QED BY <1>1, <2>2, <4>1, <4>2, <5>1
        <4> QED BY <1>1, <2>2, <4>1, <4>2
      <3>2. 1 \in 1..(Len(stack) - 1) /\ 1 + 1 = 2 /\ 2 \in 1..Len(stack) /\ d + 1 = 2
        BY <1>1, <1>2, <3>1
      <3>3. ChildOf(left, stack[2].section) /\ stack[2].section \in Sections
        BY <3>2, SectionTyped DEF Nesting
      <3> HIDE DEF left
      <3>4. Subtree[left] \subseteq Subtree[stack[2].section]
        BY <1>3, <3>3, SubtreeOfChild
      <3> QED BY <1>3, <3>1, <3>2, <3>4 DEF HasTokensIn
    <2> QED BY <2>1, <2>2
  <1>8. ASSUME NEW s \in Sections, RulesetOf(s) # NoId, Pending(s)
        PROVE  Recorded(extraction', RulesetOf(s)) \/ Pending(s)'
    <2>1. PICK d \in 1..Len(stack) : stack[d].section = s /\ \E e \in 1..d : stack[e].matched
      BY <1>8 DEF Pending
    <2>2. PICK e \in 1..d : stack[e].matched
      BY <2>1
    <2>3. CASE d = 1
      <3>1. e = 1 /\ s = left /\ stack[1].matched
        BY <2>1, <2>2, <2>3
      <3>2. extraction' = WithId(extraction, RulesetOf(s))
        BY <3>1 DEF Leaves
      <3>3. RulesetOf(s) \in Ids \cup {NoId}
        BY BoundTyped DEF Typed
      <3> QED BY <1>2, <1>8, <3>2, <3>3, RecordedOnce DEF Recorded
    <2>4. CASE d # 1
      <3>1. d - 1 \in 1..Len(stack') /\ (d - 1) + 1 = d /\ stack' # <<>>
        BY <1>1, <1>2, <2>4
      <3>2. stack'[d - 1].section = s
        BY <1>1, <2>1, <3>1
      <3>3. \E f \in 1..(d - 1) : stack'[f].matched
        <4>1. CASE e = 1
          <5>1. stack'[1].matched /\ 1 \in 1..(d - 1)
            BY <1>1, <2>2, <3>1, <4>1
          <5> QED BY <5>1
        <4>2. CASE e # 1
          <5>1. e - 1 \in 1..Len(stack') /\ (e - 1) + 1 = e /\ e - 1 \in 1..(d - 1)
            BY <1>1, <1>2, <4>2
          <5> QED BY <1>6, <2>2, <5>1
        <4> QED BY <4>1, <4>2
      <3> QED BY <3>1, <3>2, <3>3 DEF Pending
    <2> QED BY <2>3, <2>4
  <1>9. FoundRecorded'
    <2>1. FoundRecorded /\ \A s : RulesetOf(s)' = RulesetOf(s)
      BY <1>1 DEF Recording, RulesetOf
    <2> QED BY <1>1, <1>5, <1>8, <2>1 DEF FoundRecorded
  <1> QED BY <1>5, <1>7, <1>9 DEF Recording

LEMMA FilterRecording ==
  ASSUME Typed, Typed', Recording, UNCHANGED loading, FilterStep PROVE Recording'
  <1>1. /\ tokens = <<>> /\ extraction = <<>> /\ stack = <<>> /\ tokens' = tokens /\ stack' = stack
        /\ rules' = rules
    BY DEF FilterStep, RuleRejects, RuleMatches, NoRuleMatches, Typed, Idle, loading
  <1>2. MatchedHave' /\ FoundRecorded'
    BY <1>1 DEF MatchedHave, FoundRecorded, HasTokensIn
  <1>3. CASE RuleMatches
    <2> DEFINE id == RuleOf[rules[rule]].id
    <2>1. rule \in 1..Len(rules) /\ rule' = rule /\ extraction' = WithId(<<>>, id)
      BY <1>3 DEF RuleMatches, Typed, ParsingType, LoadingType
    <2>2. id \in Ids \cup {NoId}
      BY <2>1, RuleTyped DEF Typed, IsMessageRule
    <2> HIDE DEF id
    <2>3. /\ id # NoId => Recorded(extraction', id)
          /\ \A k \in DOMAIN extraction' : extraction'[k] = id
          /\ Distinct(extraction')
      <3>1. CASE id = NoId
        <4>1. extraction' = <<>>
          BY <2>1, <3>1 DEF WithId
        <4> QED BY <3>1, <4>1 DEF Distinct
      <3>2. CASE id # NoId
        <4>1. extraction' = <<id>>
          BY <2>1, <3>2 DEF WithId
        <4> QED BY <4>1 DEF Distinct, Recorded
      <3> QED BY <3>1, <3>2
    <2> QED BY <1>1, <1>2, <2>1, <2>3 DEF Recording, RuleRecorded, OnlyFound, id
  <1>4. CASE RuleRejects
    <2>1. pc' = "filter" /\ extraction' = <<>>
      BY <1>1, <1>4 DEF RuleRejects
    <2> QED BY <1>2, <2>1 DEF Recording, RuleRecorded, OnlyFound, Distinct
  <1>5. CASE NoRuleMatches
    <2>1. rule' > Len(rules') /\ extraction' = <<>> /\ rule' \in Nat /\ Len(rules') \in Nat
      BY <1>1, <1>5 DEF NoRuleMatches, Typed, ParsingType, LoadingType
    <2>2. ~(rule' <= Len(rules'))
      BY <2>1
    <2> QED BY <1>2, <2>1, <2>2 DEF Recording, RuleRecorded, OnlyFound, Distinct
  <1> QED BY <1>3, <1>4, <1>5 DEF FilterStep

LEMMA RecordingKept ==
  ASSUME Typed, Typed', Nesting, Recording, UNCHANGED loading, phase = "loaded", Parse PROVE Recording'
  BY Moves, FilterRecording, StaysRecording, FindsRecording, EntersRecording, OpensRecording, LeavesRecording

LEMMA RecordingShown == Typed /\ Recording => ExtractionIsExact
  <1> SUFFICES ASSUME Typed, Recording, pc = "done", rule <= Len(rules) PROVE ExtractionIsExact
    BY DEF ExtractionIsExact
  <1> DEFINE rid == RuleOf[rules[rule]].id
  <1>1. stack = <<>> /\ NoId \notin Ids
    BY SectionsAssumption DEF Typed, Idle, SectionsAssumption
  <1>2. \A s : ~Pending(s)
    BY <1>1 DEF Pending
  <1>3. \A s : HasTokens(s) <=> HasTokensIn(tokens, s)
    BY DEF HasTokens, HasTokensIn
  <1>4. ASSUME NEW id \in Ids, NEW k \in DOMAIN extraction, extraction[k] = id
        PROVE  id = rid \/ \E s \in Sections : RulesetOf(s) = id /\ HasTokens(s)
    BY <1>3, <1>4 DEF Recording, OnlyFound
  <1>5. ASSUME NEW id \in Ids, id = rid PROVE \E k \in DOMAIN extraction : extraction[k] = id
    BY <1>1, <1>5 DEF Recording, RuleRecorded, Recorded
  <1>6. ASSUME NEW id \in Ids, NEW s \in Sections, RulesetOf(s) = id, HasTokens(s)
        PROVE  \E k \in DOMAIN extraction : extraction[k] = id
    BY <1>1, <1>2, <1>3, <1>6 DEF Recording, FoundRecorded, Recorded
  <1>7. Distinct(extraction)
    BY DEF Recording
  <1> QED BY <1>4, <1>5, <1>6, <1>7 DEF ExtractionIsExact, Distinct

\* Before a rule has taken the message nothing is on the stack or recorded.
LEMMA NothingRecorded ==
  ASSUME Typed', pc' = "filter" PROVE Nesting' /\ Recording'
  <1>1. stack' = <<>> /\ tokens' = <<>> /\ extraction' = <<>>
    BY DEF Typed, Idle
  <1>2. Nesting' /\ MatchedHave' /\ FoundRecorded' /\ RuleRecorded' /\ OnlyFound' /\ Distinct(extraction')
    BY <1>1 DEF Nesting, MatchedHave, FoundRecorded, RuleRecorded, OnlyFound, Distinct, HasTokensIn
  <1> QED BY <1>2 DEF Recording

LEMMA LoadFilters == ASSUME Typed, Load, UNCHANGED parsing PROVE pc' = "filter"
  BY DEF Load, NextFile, LoadRuleset, RefuseRuleset, BeginMessages, LoadMessageRule,
     RefuseMessageRule, FinishLoading, RefuseNoRules, Reading, Typed, Idle, parsing

LEMMA RecordingNext ==
  ASSUME Typed, Typed', Nesting, Recording, [Next]_vars PROVE Nesting' /\ Recording'
  <1>1. CASE Load /\ UNCHANGED parsing
    BY <1>1, LoadFilters, NothingRecorded
  <1>2. CASE phase = "loaded" /\ Parse /\ UNCHANGED loading
    BY <1>2, NestingKept, RecordingKept
  <1>3. CASE UNCHANGED vars
    <2>1. UNCHANGED <<rule, pc, next, stack, tokens, extraction, rules, bound>>
      BY <1>3 DEF vars, parsing, loading
    <2>2. Nesting' /\ MatchedHave' /\ FoundRecorded' /\ RuleRecorded' /\ OnlyFound' /\ Distinct(extraction')
      BY <2>1 DEF Nesting, Recording, MatchedHave, FoundRecorded, RuleRecorded, OnlyFound, Distinct,
         HasTokensIn, Pending, RulesetOf, SectionsOf
    <2> QED BY <2>2 DEF Recording
  <1> QED BY <1>1, <1>2, <1>3 DEF Next

\* The list of matched ids in the report names the message rule and the rulesets
\* of the sections that gave a token, or below which one was given: all of them,
\* no other, and each once, however the sections are nested and whatever the
\* engines find in them.
THEOREM ExtractionIsRight == Spec => []ExtractionIsExact
  <1>1. Init => Nesting /\ Recording
    <2> SUFFICES ASSUME Init PROVE Nesting /\ Recording
      OBVIOUS
    <2>1. stack = <<>> /\ tokens = <<>> /\ extraction = <<>> /\ pc = "filter"
      BY DEF Init
    <2> QED BY <2>1 DEF Nesting, Recording, MatchedHave, FoundRecorded, RuleRecorded, OnlyFound, Distinct, HasTokensIn
  <1>2. Typed /\ Typed' /\ Nesting /\ Recording /\ [Next]_vars => Nesting' /\ Recording'
    BY RecordingNext
  <1>3. Init /\ [][Next]_vars => [](Typed /\ Nesting /\ Recording)
    BY <1>1, <1>2, TypedFirst, TypedNext, PTL
  <1> QED BY <1>3, RecordingShown, PTL DEF Spec

---------------------------------------------------------------------------
(* What the dynamic properties are computed from                             *)

\* A property of section s computed when there were q tokens: one of them was
\* of s; and if s is a section of the rule it has been left, and no token of s
\* is to come.
Sees(s, q) ==
  /\ \E k \in 1..Len(tokens) : tokens[k].section \in Subtree[s] /\ k <= q
  /\ \A i \in 1..Len(SectionsOf(rule)) : SectionsOf(rule)[i] = s =>
       /\ i < next /\ \A d \in 1..Len(stack) : stack[d].section # s
       /\ \A k \in 1..Len(tokens) : tokens[k].section \in Subtree[s] => k <= q

Seeing ==
  /\ properties # <<>> => rule \in 1..Len(rules)
  /\ \A n \in DOMAIN properties : Sees(properties[n].section, properties[n].seen)

LEMMA NumbersTyped ==
  ASSUME Typed
  PROVE  /\ Len(stack) \in Nat /\ (stack = <<>> <=> Len(stack) = 0) /\ next \in Nat
         /\ Len(tokens) \in Nat /\ DOMAIN tokens = 1..Len(tokens)
         /\ \A n \in DOMAIN properties : properties[n].section \in Sections /\ properties[n].seen \in Nat
  BY DEF Typed, ParsingType

LEMMA StaysSees ==
  ASSUME Typed, UNCHANGED loading, Stays, NEW s, NEW q, Sees(s, q) PROVE Sees(s, q)'
  <1>1. SectionsOf(rule)' = SectionsOf(rule)
    BY DEF SectionsOf, loading, Stays
  <1>2. /\ tokens' = tokens /\ Len(stack') = Len(stack) /\ \A i \in Nat : i < next => i < next'
        /\ \A d \in 1..Len(stack) : stack'[d].section = stack[d].section
    BY NumbersTyped DEF Stays
  <1> QED BY <1>1, <1>2 DEF Sees

LEMMA FindsSees ==
  ASSUME Typed, Nesting, UNCHANGED loading, NEW n \in Nat, Finds(n), NEW s \in Sections, NEW q, Sees(s, q)
  PROVE  Sees(s, q)'
  <1>1. SectionsOf(rule)' = SectionsOf(rule)
    BY DEF SectionsOf, loading, Finds
  <1>2. /\ Len(tokens') = Len(tokens) + n /\ Len(stack') = Len(stack) /\ next' = next
        /\ \A d \in 1..Len(stack) : stack'[d].section = stack[d].section
        /\ \A k \in 1..Len(tokens) : tokens'[k] = tokens[k]
        /\ \A k \in 1..n : tokens'[Len(tokens) + k].section = stack[1].section
    BY DEF Finds
  <1>3. Len(tokens) \in Nat /\ 1 \in 1..Len(stack)
    BY NumbersTyped DEF Finds
  <1>4. \E k \in 1..Len(tokens') : tokens'[k].section \in Subtree[s] /\ k <= q
    <2>1. PICK k \in 1..Len(tokens) : tokens[k].section \in Subtree[s] /\ k <= q
      BY DEF Sees
    <2>2. k \in 1..Len(tokens')
      BY <1>2, <1>3
    <2> QED BY <1>2, <2>1, <2>2
  <1>5. ASSUME NEW i \in 1..Len(SectionsOf(rule)), SectionsOf(rule)[i] = s
        PROVE  /\ i < next' /\ \A d \in 1..Len(stack') : stack'[d].section # s
               /\ \A k \in 1..Len(tokens') : tokens'[k].section \in Subtree[s] => k <= q
    <2>1. /\ i < next /\ \A d \in 1..Len(stack) : stack[d].section # s
          /\ \A k \in 1..Len(tokens) : tokens[k].section \in Subtree[s] => k <= q
      BY <1>5 DEF Sees
    <2>2. stack[1].section \notin Subtree[s]
      BY <1>3, <2>1 DEF Nesting
    <2>3. ASSUME NEW k \in 1..Len(tokens'), tokens'[k].section \in Subtree[s] PROVE k <= q
      <3>1. CASE k \in 1..Len(tokens)
        BY <1>2, <2>1, <2>3, <3>1
      <3>2. CASE k \notin 1..Len(tokens)
        <4>1. k - Len(tokens) \in 1..n /\ Len(tokens) + (k - Len(tokens)) = k
          BY <1>2, <1>3, <3>2
        <4> QED BY <1>2, <2>2, <2>3, <4>1
      <3> QED BY <3>1, <3>2
    <2> QED BY <1>2, <2>1, <2>3
  <1> QED BY <1>1, <1>4, <1>5 DEF Sees

\* The section that is entered is not one that was left.
LEMMA EntersSees ==
  ASSUME Typed, UNCHANGED loading, pc = "sections", Enters, NEW s \in Sections, NEW q, Sees(s, q)
  PROVE  Sees(s, q)'
  <1>1. SectionsOf(rule)' = SectionsOf(rule)
    BY DEF SectionsOf, loading, Enters
  <1>2. /\ tokens' = tokens /\ Len(stack') = 1 /\ next' = next + 1
        /\ next \in 1..Len(SectionsOf(rule)) /\ stack'[1].section = SectionsOf(rule)[next]
    BY DEF Enters
  <1>3. ASSUME NEW i \in 1..Len(SectionsOf(rule)), SectionsOf(rule)[i] = s
        PROVE  /\ i < next' /\ \A d \in 1..Len(stack') : stack'[d].section # s
               /\ \A k \in 1..Len(tokens) : tokens[k].section \in Subtree[s] => k <= q
    <2>1. i < next /\ \A k \in 1..Len(tokens) : tokens[k].section \in Subtree[s] => k <= q
      BY <1>3 DEF Sees
    <2>2. next # i /\ i < next'
      BY <1>2, <2>1
    <2>3. SectionsOf(rule)[next] # SectionsOf(rule)[i]
      BY <1>2, <2>2, RootOf
    <2> QED BY <1>2, <1>3, <2>1, <2>2, <2>3
  <1>4. \E k \in 1..Len(tokens') : tokens'[k].section \in Subtree[s] /\ k <= q
    BY <1>2 DEF Sees
  <1> QED BY <1>1, <1>2, <1>3, <1>4 DEF Sees

\* A child is no section of the rule.
LEMMA OpensSees ==
  ASSUME Typed, UNCHANGED loading, pc = "sections", Opens, NEW s \in Sections, NEW q, Sees(s, q)
  PROVE  Sees(s, q)'
  <1>1. SectionsOf(rule)' = SectionsOf(rule)
    BY DEF SectionsOf, loading, Opens
  <1>2. /\ tokens' = tokens /\ Len(stack') = Len(stack) + 1 /\ next' = next
        /\ ChildOf(stack'[1].section, stack[1].section)
        /\ \A d \in 1..Len(stack) : stack'[d + 1].section = stack[d].section
    BY DEF Opens
  <1>3. Len(stack) \in Nat /\ 1 \in 1..Len(stack) /\ stack[1].section \in Sections
    BY NumbersTyped, SectionTyped DEF Opens
  <1>4. ASSUME NEW i \in 1..Len(SectionsOf(rule)), SectionsOf(rule)[i] = s
        PROVE  \A d \in 1..Len(stack') : stack'[d].section # s
    <2>1. \A d \in 1..Len(stack) : stack[d].section # s
      BY <1>4 DEF Sees
    <2>2. stack'[1].section # s
      BY <1>2, <1>3, <1>4, RootOf, RootHasNoParent
    <2>3. ASSUME NEW d \in 1..Len(stack'), d # 1 PROVE stack'[d].section # s
      <3>1. d - 1 \in 1..Len(stack) /\ (d - 1) + 1 = d
        BY <1>2, <1>3, <2>3
      <3> QED BY <1>2, <2>1, <3>1
    <2> QED BY <2>2, <2>3
  <1>5. \E k \in 1..Len(tokens') : tokens'[k].section \in Subtree[s] /\ k <= q
    BY <1>2 DEF Sees
  <1> QED BY <1>1, <1>2, <1>4, <1>5 DEF Sees

LEMMA LeavesSees ==
  ASSUME Typed, UNCHANGED loading, Leaves, NEW s, NEW q, Sees(s, q)
  PROVE  Sees(s, q)'
  <1>1. SectionsOf(rule)' = SectionsOf(rule)
    BY DEF SectionsOf, loading, Leaves
  <1>2. /\ tokens' = tokens /\ Len(stack') = Len(stack) - 1 /\ next' = next
        /\ \A d \in 1..Len(stack') : stack'[d].section = stack[d + 1].section
    BY DEF Leaves
  <1>3. \A d \in 1..Len(stack') : d + 1 \in 1..Len(stack)
    BY <1>2, NumbersTyped
  <1> QED BY <1>1, <1>2, <1>3 DEF Sees

\* The section that is left with a match: its tokens are all there if it is a
\* section of the rule, for then it is the only one on the stack.
LEMMA LeftSees ==
  ASSUME Typed, Nesting, Recording, UNCHANGED loading, pc = "sections", Leaves, stack[1].matched,
         NEW s, s = stack[1].section, NEW q, q = Len(tokens)
  PROVE  Sees(s, q)'
  <1>1. SectionsOf(rule)' = SectionsOf(rule)
    BY DEF SectionsOf, loading, Leaves
  <1>2. tokens' = tokens /\ Len(stack') = Len(stack) - 1 /\ next' = next
    BY DEF Leaves
  <1>3. /\ 1 \in 1..Len(stack) /\ s \in Sections /\ Len(stack) \in Nat /\ next \in Nat
        /\ DOMAIN tokens = 1..Len(tokens) /\ Len(tokens) \in Nat
    BY NumbersTyped, SectionTyped DEF Leaves
  <1>4. \E k \in 1..Len(tokens) : tokens[k].section \in Subtree[s] /\ k <= q
    BY <1>3 DEF Recording, MatchedHave, HasTokensIn
  <1>5. ASSUME NEW i \in 1..Len(SectionsOf(rule)), SectionsOf(rule)[i] = s
        PROVE  i < next /\ Len(stack') = 0
    <2>1. Len(stack) = 1
      <3> SUFFICES ASSUME Len(stack) # 1 PROVE FALSE
        OBVIOUS
      <3> DEFINE l == Len(stack)
      <3>1. l \in Nat /\ l # 1 /\ 1 \in 1..l
        BY <1>3
      <3> HIDE DEF l
      <3>2. 1 \in 1..(l - 1) /\ 2 \in 1..l /\ 1 + 1 = 2
        BY <3>1
      <3>3. ChildOf(s, stack[2].section) /\ stack[2].section \in Sections
        BY <3>2, SectionTyped DEF Nesting, l
      <3> QED BY <1>5, <3>3, RootOf, RootHasNoParent
    <2>2. next - 1 \in 1..Len(SectionsOf(rule)) /\ SectionsOf(rule)[next - 1] = s
      BY <1>3, <2>1, NumbersTyped DEF Nesting
    <2>3. i = next - 1
      BY <1>5, <2>2, RootOf
    <2> QED BY <1>2, <1>3, <2>1, <2>3
  <1> QED BY <1>1, <1>2, <1>3, <1>4, <1>5 DEF Sees

LEMMA SeeingKept ==
  ASSUME Typed, Nesting, Recording, Seeing, UNCHANGED loading, phase = "loaded", Parse PROVE Seeing'
  <1>1. CASE FilterStep
    <2>1. properties' = <<>>
      BY <1>1 DEF FilterStep, RuleRejects, RuleMatches, NoRuleMatches, Typed, Idle
    <2> QED BY <2>1 DEF Seeing
  <1>2. ASSUME pc = "sections", rule' = rule PROVE rule' \in 1..Len(rules')
    BY <1>2 DEF Typed, ParsingType, loading
  <1>3. ASSUME pc = "sections", properties' = properties, Stays \/ (\E n \in Nat : Finds(n)) \/ Enters \/ Opens \/ Leaves
        PROVE  Seeing'
    <2>1. rule' = rule
      BY <1>3 DEF Stays, Finds, Enters, Opens, Leaves
    <2> SUFFICES ASSUME NEW n \in DOMAIN properties PROVE Sees(properties[n].section, properties[n].seen)'
      BY <1>3, <1>2, <2>1 DEF Seeing
    <2> DEFINE s == properties[n].section
               q == properties[n].seen
    <2>2. s \in Sections /\ Sees(s, q) /\ s' = s /\ q' = q
      BY <1>3, NumbersTyped DEF Seeing
    <2> HIDE DEF s, q
    <2>3. Sees(s, q)'
      BY <1>3, <2>2, StaysSees, FindsSees, EntersSees, OpensSees, LeavesSees
    <2> QED BY <2>3 DEF s, q
  <1>4. ASSUME pc = "sections", Leaves, properties' # properties PROVE Seeing'
    <2>1. stack[1].matched /\ \E names : properties' = Inserted(names, Value(stack[1].section))
      BY <1>4 DEF Leaves
    <2>2. PICK left : left = stack[1].section
      OBVIOUS
    <2>3. PICK q : q = Len(tokens)
      OBVIOUS
    <2>4. Sees(left, q)'
      BY <1>4, <2>1, <2>2, <2>3, LeftSees
    <2>5. PICK v : v = Value(left)
      OBVIOUS
    <2>6. PICK names : properties' = Inserted(names, v)
      BY <2>1, <2>2, <2>5
    <2>7. v.section = left /\ v.seen = q
      BY <2>3, <2>5 DEF Value
    <2>8. rule' = rule
      BY <1>4 DEF Leaves
    <2> SUFFICES ASSUME NEW n \in DOMAIN properties' PROVE Sees(properties[n].section, properties[n].seen)'
      BY <1>4, <1>2, <2>8 DEF Seeing
    <2>9. properties'[n] = v \/ (n \in DOMAIN properties /\ properties'[n] = properties[n])
      BY <2>6 DEF Inserted
    <2>10. CASE properties'[n] = v
      BY <2>4, <2>7, <2>10
    <2>11. CASE n \in DOMAIN properties /\ properties'[n] = properties[n]
      <3>1. PICK s : s = properties[n].section
        OBVIOUS
      <3>2. PICK r : r = properties[n].seen
        OBVIOUS
      <3>3. Sees(s, r)
        BY <2>11, <3>1, <3>2 DEF Seeing
      <3>4. Sees(s, r)'
        BY <1>4, <3>3, LeavesSees
      <3> QED BY <2>11, <3>1, <3>2, <3>4
    <2> QED BY <2>9, <2>10, <2>11
  <1> QED BY <1>1, <1>3, <1>4, Moves DEF Stays, Finds, Enters, Opens

LEMMA SeeingNext ==
  ASSUME Typed, Typed', Nesting, Recording, Seeing, [Next]_vars PROVE Seeing'
  <1>1. CASE Load /\ UNCHANGED parsing
    <2>1. properties' = <<>>
      BY <1>1, LoadFilters DEF Typed, Idle
    <2> QED BY <2>1 DEF Seeing
  <1>2. CASE phase = "loaded" /\ Parse /\ UNCHANGED loading
    BY <1>2, SeeingKept
  <1>3. CASE UNCHANGED vars
    BY <1>3 DEF vars, parsing, loading, Seeing, Sees, SectionsOf
  <1> QED BY <1>1, <1>2, <1>3 DEF Next

\* A dynamic property is computed for a section that gave a token, and that of a
\* section of the rule when all its tokens are there: none is found in it or
\* below it afterwards, at whatever depth the section's children parse.
THEOREM PropertiesAreLate == Spec => []PropertiesSeeTheirSection
  <1>1. Init => Nesting /\ Recording /\ Seeing
    <2> SUFFICES ASSUME Init PROVE Nesting /\ Recording /\ Seeing
      OBVIOUS
    <2>1. stack = <<>> /\ tokens = <<>> /\ extraction = <<>> /\ pc = "filter" /\ properties = <<>>
      BY DEF Init
    <2> QED BY <2>1 DEF Nesting, Recording, MatchedHave, FoundRecorded, RuleRecorded, OnlyFound, Distinct, HasTokensIn, Seeing
  <1>2. Typed /\ Typed' /\ Nesting /\ Recording /\ Seeing /\ [Next]_vars => Nesting' /\ Recording' /\ Seeing'
    BY RecordingNext, SeeingNext
  <1>3. Typed /\ Seeing => PropertiesSeeTheirSection
    <2> SUFFICES ASSUME Typed, Seeing, NEW n \in DOMAIN properties
                 PROVE  LET s == properties[n].section
                            Own == {k \in DOMAIN tokens : tokens[k].section \in Subtree[s]}
                        IN /\ \E k \in Own : k <= properties[n].seen
                           /\ (\E i \in DOMAIN SectionsOf(rule) : SectionsOf(rule)[i] = s)
                                => \A k \in Own : k <= properties[n].seen
      BY DEF PropertiesSeeTheirSection
    <2>1. Sees(properties[n].section, properties[n].seen)
      BY DEF Seeing
    <2>2. DOMAIN tokens = 1..Len(tokens)
      BY NumbersTyped
    <2>3. rule \in 1..Len(rules)
      BY DEF Seeing
    <2>4. SectionsOf(rule) \in Seq(Sections)
      BY <2>3, RuleTyped DEF Typed
    <2> QED BY <2>1, <2>2, <2>4 DEF Sees
  <1>4. Init /\ [][Next]_vars => [](Typed /\ Nesting /\ Recording /\ Seeing)
    BY <1>1, <1>2, TypedFirst, TypedNext, PTL
  <1> QED BY <1>3, <1>4, PTL DEF Spec

---------------------------------------------------------------------------
(* The loader's walk over a filter                                           *)

\* Before i + 1 stands a run of backslashes, and their number is odd or not.
EscapeRun(p, i, odd) ==
  \E k \in 0..i : /\ \A j \in (k + 1)..i : p[j] = "\\"
                  /\ k = 0 \/ p[k] # "\\"
                  /\ (i - k) % 2 = IF odd THEN 1 ELSE 0

LEMMA RunOnce ==
  ASSUME NEW p, NEW i \in Nat, NEW a \in BOOLEAN, NEW b \in BOOLEAN, EscapeRun(p, i, a), EscapeRun(p, i, b)
  PROVE  a = b
  <1>1. PICK k \in 0..i : /\ \A j \in (k + 1)..i : p[j] = "\\"
                          /\ k = 0 \/ p[k] # "\\"
                          /\ (i - k) % 2 = IF a THEN 1 ELSE 0
    BY DEF EscapeRun
  <1>2. PICK l \in 0..i : /\ \A j \in (l + 1)..i : p[j] = "\\"
                          /\ l = 0 \/ p[l] # "\\"
                          /\ (i - l) % 2 = IF b THEN 1 ELSE 0
    BY DEF EscapeRun
  <1>3. ~(k < l)
    <2>1. k < l => l \in (k + 1)..i /\ l # 0
      OBVIOUS
    <2> QED BY <1>1, <1>2, <2>1
  <1>4. ~(l < k)
    <2>1. l < k => k \in (l + 1)..i /\ k # 0
      OBVIOUS
    <2> QED BY <1>1, <1>2, <2>1
  <1>5. k = l
    BY <1>3, <1>4
  <1> QED BY <1>1, <1>2, <1>5

LEMMA RunNext ==
  ASSUME NEW p, NEW i \in Nat \ {0}, NEW a \in BOOLEAN, EscapeRun(p, i - 1, a)
  PROVE  EscapeRun(p, i, ~a /\ p[i] = "\\")
  <1>1. PICK k \in 0..(i - 1) : /\ \A j \in (k + 1)..(i - 1) : p[j] = "\\"
                                /\ k = 0 \/ p[k] # "\\"
                                /\ ((i - 1) - k) % 2 = IF a THEN 1 ELSE 0
    BY DEF EscapeRun
  <1>2. CASE p[i] = "\\"
    <2>1. k \in 0..i /\ \A j \in (k + 1)..i : j = i \/ j \in (k + 1)..(i - 1)
      OBVIOUS
    <2>2. (i - k) % 2 = IF a THEN 0 ELSE 1
      BY <1>1
    <2> QED BY <1>1, <1>2, <2>1, <2>2 DEF EscapeRun
  <1>3. CASE p[i] # "\\"
    <2>1. i \in 0..i /\ (i + 1)..i = {} /\ (i - i) % 2 = 0
      OBVIOUS
    <2> QED BY <1>3, <2>1 DEF EscapeRun
  <1> QED BY <1>2, <1>3

\* A position is plain when no odd run stands before it.
LEMMA PlainAfterRun ==
  ASSUME NEW p, IsPattern(p), NEW i \in 1..Len(p), NEW a \in BOOLEAN, EscapeRun(p, i - 1, a)
  PROVE  i \in Plain(p) <=> ~a
  <1>1. i - 1 \in Nat /\ i \in DOMAIN p
    BY DEF IsPattern
  <1>2. i \in Plain(p) <=> EscapeRun(p, i - 1, FALSE)
    BY <1>1 DEF Plain, EscapeRun
  <1> QED BY <1>1, <1>2, RunOnce

\* The name of a group ends where there is a ">" behind its beginning.
LEMMA NameEndThere ==
  ASSUME NEW p, NEW i \in Nat, NEW e \in i..Len(p), Len(p) \in Nat, p[e] = ">" PROVE NameEnds(p, i) # {}
  <1> DEFINE T == {k \in i..Len(p) : p[k] = ">"}
  <1>1. PICK x \in T : \A y \in T : x <= y
    <2>1. T \subseteq Nat /\ T # {}
      OBVIOUS
    <2> HIDE DEF T
    <2> QED BY <2>1, LeastNumber
  <1>2. \A j \in i..(x - 1) : j \notin T /\ j \in i..Len(p)
    BY <1>1
  <1> QED BY <1>1, <1>2 DEF NameEnds

LEMMA GroupBegins ==
  ASSUME NEW p, IsPattern(p), NEW i \in 1..Len(p), StartsWith(p, i, <<"(", "?", "<">>)
  PROVE  p[i] = "(" /\ p[i + 1] = "?" /\ p[i + 2] = "<" /\ i + 2 <= Len(p)
  <1> DEFINE s == <<"(", "?", "<">>
             q == SubSeq(p, i, i + 2)
             S == {p[j] : j \in DOMAIN p}
  <1>1. i + 2 <= Len(p) /\ q = s
    <2>1. Len(s) = 3 /\ Len(p) \in Nat
      BY DEF IsPattern
    <2>2. i + Len(s) <= Len(p) + 1 /\ SubSeq(p, i, i + Len(s) - 1) = s
      BY DEF StartsWith
    <2>3. i + Len(s) - 1 = i + 2
      BY <2>1
    <2> QED BY <2>1, <2>2, <2>3
  <1>2. p \in Seq(S)
    BY DEF IsPattern
  <1> HIDE DEF S, s
  <1>3. q[1] = p[i] /\ q[2] = p[i + 1] /\ q[3] = p[i + 2]
    BY <1>1, <1>2
  <1>4. s[1] = "(" /\ s[2] = "?" /\ s[3] = "<"
    BY DEF s
  <1> QED BY <1>1, <1>3, <1>4

WalkFields == {"out", "group", "captures", "done", "escaped", "class", "fails"}
IsWalk(w, p) ==
  DOMAIN w = WalkFields /\ w.escaped \in BOOLEAN /\ w.fails \in BOOLEAN /\ w.done \in 0..Len(p)

BeginsName(w, p, i) == ~w.escaped /\ StartsWith(p, i, <<"(", "?", "<">>)

\* What a step of the walk does to what matters here.
Stepped(w, p, i, x) ==
  /\ i <= w.done => x = w
  /\ ~(i <= w.done) /\ BeginsName(w, p, i) =>
       IF NameEnds(p, i + 3) = {}
       THEN DOMAIN x = WalkFields /\ x.escaped = w.escaped /\ x.fails = TRUE /\ x.done = Len(p)
       ELSE DOMAIN x = WalkFields /\ x.escaped = FALSE /\ x.fails = w.fails /\ x.done = NameEnd(p, i)
  /\ ~(i <= w.done) /\ ~BeginsName(w, p, i) =>
       /\ DOMAIN x = WalkFields /\ x.escaped = (~w.escaped /\ p[i] = "\\")
       /\ x.fails = w.fails /\ x.done = w.done

LEMMA WalkStep ==
  ASSUME NEW p, NEW w, IsWalk(w, p), NEW i, NEW x, x = NormalizedAt(w, p, i)
  PROVE  Stepped(w, p, i, x)
  <1>1. ASSUME NEW c
        PROVE  /\ DOMAIN Copied(w, c) = WalkFields /\ Copied(w, c).escaped = (~w.escaped /\ c = "\\")
               /\ Copied(w, c).fails = w.fails /\ Copied(w, c).done = w.done
    <2>1. PICK e \in BOOLEAN : e = (~w.escaped /\ c = "\\")
      OBVIOUS
    <2>2. Copied(w, c) = [w EXCEPT !.out = Append(@, c), !.escaped = e]
      BY <2>1 DEF Copied
    <2> QED BY <2>1, <2>2 DEF IsWalk, WalkFields
  <1>2. i <= w.done => x = w
    BY DEF NormalizedAt
  <1>3. CASE ~(i <= w.done) /\ BeginsName(w, p, i)
    <2>1. CASE NameEnds(p, i + 3) = {}
      <3>1. x = Failed(w, p)
        BY <1>3, <2>1 DEF NormalizedAt, BeginsName
      <3>2. DOMAIN x = WalkFields /\ x.escaped = w.escaped /\ x.fails = TRUE /\ x.done = Len(p)
        BY <3>1 DEF Failed, IsWalk, WalkFields
      <3> QED BY <1>2, <1>3, <2>1, <3>2 DEF Stepped
    <2>2. CASE NameEnds(p, i + 3) # {}
      <3> DEFINE v == Copied(w, "(")
      <3>1. x = [v EXCEPT !.group = @ + 1, !.done = NameEnd(p, i),
                   !.captures = Append(@, <<SubSeq(p, i + 3, NameEnd(p, i) - 1), w.group + 1>>)]
        BY <1>3, <2>2 DEF NormalizedAt, BeginsName
      <3>2. DOMAIN v = WalkFields /\ v.escaped = FALSE /\ v.fails = w.fails
        BY <1>1
      <3> HIDE DEF v
      <3>3. DOMAIN x = WalkFields /\ x.escaped = FALSE /\ x.fails = w.fails /\ x.done = NameEnd(p, i)
        BY <3>1, <3>2 DEF WalkFields
      <3> QED BY <1>2, <1>3, <2>2, <3>3 DEF Stepped
    <2> QED BY <2>1, <2>2
  <1>4. CASE ~(i <= w.done) /\ ~BeginsName(w, p, i)
    <2> DEFINE v == Copied(w, p[i])
    <2>1. x = [v EXCEPT !.group = @ + IF Captures(w, p, i) THEN 1 ELSE 0]
      BY <1>4 DEF NormalizedAt, BeginsName
    <2>2. /\ DOMAIN v = WalkFields /\ v.escaped = (~w.escaped /\ p[i] = "\\")
          /\ v.fails = w.fails /\ v.done = w.done
      BY <1>1
    <2> HIDE DEF v
    <2>3. /\ DOMAIN x = WalkFields /\ x.escaped = (~w.escaped /\ p[i] = "\\")
          /\ x.fails = w.fails /\ x.done = w.done
      BY <2>1, <2>2 DEF WalkFields
    <2> QED BY <1>2, <1>4, <2>3 DEF Stepped
  <1>5. CASE i <= w.done
    BY <1>2, <1>5 DEF Stepped
  <1> QED BY <1>3, <1>4, <1>5

\* F is the walk over p, as far as m.
IsWalkOf(F, p, m) == F = [i \in 0..m |-> IF i = 0 THEN Walked ELSE NormalizedAt(F[i - 1], p, i)]

LEMMA WalksExist == \A p : \A m \in Nat : \E F : IsWalkOf(F, p, m)
  <1> SUFFICES ASSUME NEW p PROVE \A m \in Nat : \E F : IsWalkOf(F, p, m)
    OBVIOUS
  <1> DEFINE T == {m \in Nat : ~\E F : IsWalkOf(F, p, m)}
  <1> SUFFICES ASSUME T # {} PROVE FALSE
    OBVIOUS
  <1>1. PICK m \in T : \A y \in T : m <= y
    <2>1. T \subseteq Nat
      OBVIOUS
    <2> HIDE DEF T
    <2> QED BY <2>1, LeastNumber
  <1>2. m \in Nat /\ ~\E F : IsWalkOf(F, p, m)
    OBVIOUS
  <1>3. m # 0
    <2> SUFFICES ASSUME m = 0 PROVE FALSE
      OBVIOUS
    <2> DEFINE F == [i \in 0..0 |-> Walked]
    <2>1. IsWalkOf(F, p, 0)
      BY DEF IsWalkOf
    <2> QED BY <1>2, <2>1
  <1>4. m - 1 \in Nat /\ m - 1 \notin T
    BY <1>1, <1>2, <1>3
  <1>5. PICK F : IsWalkOf(F, p, m - 1)
    BY <1>4
  <1> DEFINE G == [i \in 0..m |-> IF i = 0 THEN Walked ELSE NormalizedAt(F[i - 1], p, i)]
  <1>6. \A i \in 0..(m - 1) : G[i] = F[i]
    <2>1. \A i \in 0..(m - 1) : i \in 0..m
      BY <1>2
    <2> QED BY <1>5, <2>1 DEF IsWalkOf
  <1>7. \A i \in 0..m : i # 0 => i - 1 \in 0..(m - 1)
    BY <1>2
  <1>8. IsWalkOf(G, p, m)
    BY <1>6, <1>7 DEF IsWalkOf
  <1> QED BY <1>2, <1>8

\* In a state w of the walk over p, i characters are dealt with.
Walking(w, p, i) ==
  /\ IsWalk(w, p)
  /\ w.fails => w.done = Len(p) /\ NameIsOpen(p)
  /\ ~w.fails =>
       /\ \A g \in NamedGroups(p) : g <= i => NameEnds(p, g + 3) # {}
       /\ w.done <= i => EscapeRun(p, i, w.escaped)
       /\ i < w.done => w.escaped = FALSE /\ p[w.done] = ">"

LEMMA WalkingNext ==
  ASSUME NEW p, IsPattern(p), NEW i \in 1..Len(p), NEW w, Walking(w, p, i - 1),
         NEW x, x = NormalizedAt(w, p, i)
  PROVE  Walking(x, p, i)
  <1>1. Len(p) \in Nat /\ DOMAIN p = 1..Len(p) /\ IsWalk(w, p) /\ w.done \in Nat /\ w.done <= Len(p)
        /\ i - 1 \in Nat /\ w.escaped \in BOOLEAN /\ w.fails \in BOOLEAN /\ DOMAIN w = WalkFields
    BY DEF IsPattern, Walking, IsWalk
  <1>2. NamedGroups(p) = {g \in Plain(p) : StartsWith(p, g, <<"(", "?", "<">>)} /\ Plain(p) \subseteq DOMAIN p
    BY DEF NamedGroups, Plain
  <1>w. IsWalk(w, p)
    BY DEF Walking
  <1>s. Stepped(w, p, i, x)
    BY <1>w, WalkStep
  <1>3. ASSUME \A g \in NamedGroups(p) : g <= i - 1 => NameEnds(p, g + 3) # {},
               i \in NamedGroups(p) => NameEnds(p, i + 3) # {}
        PROVE  \A g \in NamedGroups(p) : g <= i => NameEnds(p, g + 3) # {}
    <2>1. \A g \in NamedGroups(p) : g \in Int /\ (g <= i => g <= i - 1 \/ g = i)
      BY <1>1, <1>2
    <2> QED BY <1>3, <2>1
  <1>4. CASE i <= w.done
    <2>1. x = w
      BY <1>s, <1>4 DEF Stepped
    <2>2. ASSUME ~w.fails
          PROVE  /\ \A g \in NamedGroups(p) : g <= i => NameEnds(p, g + 3) # {}
                 /\ w.done <= i => EscapeRun(p, i, w.escaped)
                 /\ w.escaped = FALSE /\ p[w.done] = ">"
      <3>1. w.escaped = FALSE /\ p[w.done] = ">" /\ \A g \in NamedGroups(p) : g <= i - 1 => NameEnds(p, g + 3) # {}
        BY <1>1, <1>4, <2>2 DEF Walking
      <3>2. ASSUME i \in NamedGroups(p) PROVE NameEnds(p, i + 3) # {}
        <4>1. p[i] = "(" /\ p[i + 1] = "?" /\ p[i + 2] = "<"
          BY <1>2, <3>2, GroupBegins
        <4>2. w.done # i /\ w.done # i + 1 /\ w.done # i + 2
          BY <3>1, <4>1
        <4>3. w.done \in (i + 3)..Len(p) /\ i + 3 \in Nat
          BY <1>1, <1>4, <4>2
        <4> QED BY <1>1, <3>1, <4>3, NameEndThere
      <3>3. ASSUME w.done <= i PROVE EscapeRun(p, i, w.escaped)
        <4>1. w.done = i /\ p[i] # "\\"
          BY <1>1, <1>4, <3>1, <3>3
        <4>2. i \in 0..i /\ (i + 1)..i = {} /\ (i - i) % 2 = 0
          OBVIOUS
        <4> QED BY <3>1, <4>1, <4>2 DEF EscapeRun
      <3> QED BY <1>3, <3>1, <3>2, <3>3
    <2> QED BY <1>1, <2>1, <2>2 DEF Walking
  <1>5. CASE ~(i <= w.done)
    <2>1. ~w.fails
      BY <1>1, <1>5 DEF Walking
    <2>2. EscapeRun(p, i - 1, w.escaped) /\ \A g \in NamedGroups(p) : g <= i - 1 => NameEnds(p, g + 3) # {}
      BY <1>1, <1>5, <2>1 DEF Walking
    <2>3. i \in NamedGroups(p) <=> BeginsName(w, p, i)
      <3>1. i \in Plain(p) <=> ~w.escaped
        BY <1>1, <2>2, PlainAfterRun
      <3> QED BY <1>2, <3>1 DEF BeginsName
    <2>4. CASE BeginsName(w, p, i) /\ NameEnds(p, i + 3) = {}
      <3>1. DOMAIN x = WalkFields /\ x.escaped = w.escaped /\ x.fails = TRUE /\ x.done = Len(p)
        BY <1>s, <1>5, <2>4 DEF Stepped
      <3>2. NameIsOpen(p)
        BY <2>3, <2>4 DEF NameIsOpen
      <3>3. x.done \in 0..Len(p)
        BY <1>1, <3>1
      <3>4. IsWalk(x, p)
        BY <1>1, <3>1, <3>3 DEF IsWalk
      <3> QED BY <3>1, <3>2, <3>4 DEF Walking
    <2>5. CASE BeginsName(w, p, i) /\ NameEnds(p, i + 3) # {}
      <3>1. DOMAIN x = WalkFields /\ x.escaped = FALSE /\ x.fails = w.fails /\ x.done = NameEnd(p, i)
        BY <1>s, <1>5, <2>5 DEF Stepped
      <3>2. NameEnd(p, i) \in NameEnds(p, i + 3)
        BY <2>5 DEF NameEnd
      <3>3. x.done \in (i + 3)..Len(p) /\ p[x.done] = ">"
        BY <3>1, <3>2 DEF NameEnds
      <3>4. \A g \in NamedGroups(p) : g <= i => NameEnds(p, g + 3) # {}
        BY <1>3, <2>2, <2>5
      <3>5. x.done \in 0..Len(p) /\ ~(x.done <= i)
        BY <1>1, <3>3
      <3> QED BY <1>1, <2>1, <3>1, <3>3, <3>4, <3>5 DEF Walking, IsWalk
    <2>6. CASE ~BeginsName(w, p, i)
      <3>1. /\ DOMAIN x = WalkFields /\ x.escaped = (~w.escaped /\ p[i] = "\\")
            /\ x.fails = w.fails /\ x.done = w.done
        BY <1>s, <1>5, <2>6 DEF Stepped
      <3>2. i \in Nat \ {0}
        OBVIOUS
      <3>3. EscapeRun(p, i, ~w.escaped /\ p[i] = "\\")
        BY <1>1, <2>2, <3>2, RunNext
      <3>4. EscapeRun(p, i, x.escaped) /\ x.escaped \in BOOLEAN
        BY <3>1, <3>3
      <3>5. \A g \in NamedGroups(p) : g <= i => NameEnds(p, g + 3) # {}
        BY <1>3, <2>2, <2>3, <2>6
      <3>6. ~(i < x.done) /\ x.done \in 0..Len(p)
        BY <1>1, <1>5, <3>1
      <3> QED BY <1>1, <2>1, <3>1, <3>4, <3>5, <3>6 DEF Walking, IsWalk
    <2> QED BY <2>4, <2>5, <2>6
  <1> QED BY <1>4, <1>5

\* F is the loader's whole walk over p.
Walks(F, p) ==
  /\ F[0] = Walked /\ \A i \in 1..Len(p) : F[i] = NormalizedAt(F[i - 1], p, i)
  /\ \A i \in 0..Len(p) : Walking(F[i], p, i)
  /\ Normalized(p) = F[Len(p)]

LEMMA WalkIs == ASSUME NEW p, IsPattern(p) PROVE \E F : Walks(F, p)
  <1> DEFINE n == Len(p)
             F == CHOOSE G : IsWalkOf(G, p, n)
             T == {i \in 0..n : ~Walking(F[i], p, i)}
  <1>1. n \in Nat /\ DOMAIN p = 1..n
    BY DEF IsPattern
  <1>2. IsWalkOf(F, p, n)
    BY <1>1, WalksExist
  <1>3. Normalized(p) = F[n]
    BY DEF Normalized, IsWalkOf
  <1> HIDE DEF F
  <1>4. F[0] = Walked /\ \A i \in 1..n : F[i] = NormalizedAt(F[i - 1], p, i)
    <2>1. 0 \in 0..n /\ \A i \in 1..n : i \in 0..n /\ i # 0
      BY <1>1
    <2> HIDE DEF n
    <2> QED BY <1>2, <2>1 DEF IsWalkOf
  <1>5. T = {}
    <2> SUFFICES ASSUME T # {} PROVE FALSE
      OBVIOUS
    <2>1. PICK i \in T : \A y \in T : i <= y
      <3>1. T \subseteq Nat
        BY <1>1
      <3> HIDE DEF T
      <3> QED BY <3>1, LeastNumber
    <2>2. i \in 0..n /\ ~Walking(F[i], p, i)
      OBVIOUS
    <2>3. i # 0
      <3>1. DOMAIN Walked = WalkFields /\ Walked.escaped = FALSE /\ Walked.fails = FALSE /\ Walked.done = 0
        BY DEF Walked, WalkFields
      <3>2. EscapeRun(p, 0, FALSE)
        <4>1. 0 \in 0..0 /\ (0 + 1)..0 = {} /\ (0 - 0) % 2 = 0
          OBVIOUS
        <4> QED BY <4>1 DEF EscapeRun
      <3>3. \A g \in NamedGroups(p) : ~(g <= 0)
        BY <1>1 DEF NamedGroups, Plain
      <3>4. IsWalk(Walked, p)
        <4>1. 0 \in 0..Len(p)
          BY <1>1
        <4> QED BY <3>1, <4>1 DEF IsWalk
      <3>5. EscapeRun(p, 0, Walked.escaped) /\ ~Walked.fails /\ ~(0 < Walked.done)
        <4>1. EscapeRun(p, 0, Walked.escaped)
          BY <3>1, <3>2, Zenon
        <4>2. ~Walked.fails
          BY <3>1, Zenon
        <4>3. ~(0 < Walked.done)
          <5>1. Walked.done = 0
            BY <3>1
          <5> HIDE DEF n, T
          <5> QED BY <5>1
        <4> QED BY <4>1, <4>2, <4>3
      <3>6. Walking(Walked, p, 0)
        BY <3>3, <3>4, <3>5 DEF Walking
      <3> QED BY <1>4, <2>2, <3>6
    <2>4. i \in 1..n /\ i - 1 \in 0..n /\ ~(i <= i - 1)
      BY <1>1, <2>2, <2>3
    <2>5. Walking(F[i - 1], p, i - 1)
      BY <2>1, <2>4
    <2>6. Walking(F[i], p, i)
      BY <1>4, <2>4, <2>5, WalkingNext
    <2> QED BY <2>2, <2>6
  <1>6. \A i \in 0..n : Walking(F[i], p, i)
    <2> HIDE DEF n
    <2> QED BY <1>5
  <1>7. Walks(F, p)
    BY <1>3, <1>4, <1>6 DEF Walks
  <1> QED BY <1>7

\* The loader refuses the filters in which a group's name does not end.
LEMMA OpenNamesFail ==
  ASSUME NEW p, IsPattern(p) PROVE Normalized(p).fails <=> NameIsOpen(p)
  <1>1. PICK F : Walks(F, p)
    BY WalkIs
  <1>2. Len(p) \in Nat /\ DOMAIN p = 1..Len(p)
    BY DEF IsPattern
  <1>3. Walking(Normalized(p), p, Len(p))
    BY <1>1, <1>2 DEF Walks
  <1>4. \A g \in NamedGroups(p) : g <= Len(p)
    BY <1>2 DEF NamedGroups, Plain
  <1> QED BY <1>3, <1>4 DEF Walking, NameIsOpen, IsWalk

---------------------------------------------------------------------------
(* The order of the files                                                    *)

Reads == {"rulesets", "messages"}

LEMMA PlaceIs ==
  ASSUME NEW kind, NEW p
  PROVE  p \in Places(kind) <=>
           \E f \in DOMAIN input.files : \E k \in DOMAIN (input.files[f])[kind] : p = <<f, k>>
  BY DEF Places

\* Files are numbered, and so are the definitions in them.
LEMMA PlaceTyped ==
  ASSUME LoadingType, NEW kind \in Reads
  PROVE  /\ Len(input.files) \in Nat /\ DOMAIN input.files = 1..Len(input.files)
         /\ \A f \in DOMAIN input.files :
              LET defs == (input.files[f])[kind] IN DOMAIN defs = 1..Len(defs) /\ Len(defs) \in Nat
         /\ \A p \in Places(kind) : p[1] \in 1..Len(input.files) /\ p[2] \in Nat /\ p = <<p[1], p[2]>>
  <1>1. /\ DOMAIN input.files = 1..Len(input.files) /\ Len(input.files) \in Nat
        /\ \A f \in DOMAIN input.files : IsFile(input.files[f])
    BY FilesAssumption DEF LoadingType, FilesAssumption
  <1>2. ASSUME NEW f \in DOMAIN input.files
        PROVE  DOMAIN (input.files[f])[kind] = 1..Len((input.files[f])[kind]) /\ Len((input.files[f])[kind]) \in Nat
    <2>1. IsFile(input.files[f])
      BY <1>1
    <2>2. CASE kind = "rulesets"
      BY <2>1, <2>2 DEF IsFile
    <2>3. CASE kind = "messages"
      BY <2>1, <2>3 DEF IsFile
    <2> QED BY <2>2, <2>3 DEF Reads
  <1>3. ASSUME NEW p \in Places(kind)
        PROVE  p[1] \in 1..Len(input.files) /\ p[2] \in Nat /\ p = <<p[1], p[2]>>
    <2>1. PICK f \in DOMAIN input.files : \E k \in DOMAIN (input.files[f])[kind] : p = <<f, k>>
      BY <1>3, PlaceIs
    <2>2. PICK k \in DOMAIN (input.files[f])[kind] : p = <<f, k>>
      BY <2>1
    <2>3. f \in 1..Len(input.files) /\ k \in Nat
      BY <1>1, <1>2
    <2> QED BY <2>2, <2>3
  <1> QED BY <1>1, <1>2, <1>3

\* The places of a kind before a place.
ReadTo(kind, f, i) == {p \in Places(kind) : p[1] < f \/ (p[1] = f /\ p[2] < i)}

LEMMA PlacesStay ==
  ASSUME input' = input, NEW kind
  PROVE  /\ \A p : p \in Places(kind)' <=> p \in Places(kind)
         /\ Places(kind)' = Places(kind)
         /\ \A p : Definition(kind, p)' = Definition(kind, p)
  BY DEF Places, Definition

LEMMA ItemsAre ==
  ASSUME NEW kind \in Reads, phase = kind PROVE Items = (input.files[file])[kind]
  <1>1. CASE kind = "rulesets"
    BY <1>1 DEF Items
  <1>2. CASE kind = "messages"
    BY <1>2 DEF Items
  <1> QED BY <1>1, <1>2 DEF Reads

\* What is read next comes after what is read.
LEMMA ReadOne ==
  ASSUME LoadingType, NEW kind \in Reads, Reading(kind)
  PROVE  LET q == <<file, item>> IN
         /\ q \in Places(kind) /\ Definition(kind, q) = Entry
         /\ \A o \in ReadTo(kind, file, item) : Before(o, q)
         /\ ReadTo(kind, file, item + 1) = ReadTo(kind, file, item) \cup {q}
  <1> DEFINE q == <<file, item>>
  <1>1. phase = kind /\ file <= Len(input.files) /\ item <= Len(Items) /\ Items = (input.files[file])[kind]
    BY ItemsAre DEF Reading
  <1>2. file \in Nat /\ item \in Nat /\ file >= 1 /\ item >= 1 /\ file \in DOMAIN input.files
    BY <1>1, PlaceTyped DEF LoadingType
  <1>3. item \in DOMAIN (input.files[file])[kind]
    <2>1. DOMAIN Items = 1..Len(Items) /\ Len(Items) \in Nat
      BY <1>1, <1>2, PlaceTyped
    <2> QED BY <1>1, <1>2, <2>1
  <1>4. q \in Places(kind)
    BY <1>2, <1>3, PlaceIs
  <1>5. Definition(kind, q) = Entry
    BY <1>1 DEF Definition, Entry
  <1>6. \A o \in ReadTo(kind, file, item) : Before(o, q)
    BY DEF ReadTo, Before
  <1>7. ASSUME NEW p PROVE p \in ReadTo(kind, file, item + 1) <=> p \in ReadTo(kind, file, item) \/ p = q
    <2>1. CASE p \in Places(kind)
      <3>1. p[1] \in Nat /\ p[2] \in Nat /\ p = <<p[1], p[2]>>
        BY <2>1, PlaceTyped
      <3>2. p[2] < item + 1 <=> p[2] < item \/ p[2] = item
        BY <1>2, <3>1
      <3>3. p = q <=> p[1] = file /\ p[2] = item
        BY <3>1
      <3> HIDE DEF q
      <3> QED BY <2>1, <3>2, <3>3 DEF ReadTo
    <2>2. CASE p \notin Places(kind)
      <3> HIDE DEF q
      <3> QED BY <1>4, <2>2 DEF ReadTo
    <2> QED BY <2>1, <2>2
  <1>8. ReadTo(kind, file, item + 1) = ReadTo(kind, file, item) \cup {q}
    <2> HIDE DEF q
    <2> QED BY <1>7
  <1> QED BY <1>4, <1>5, <1>6, <1>8

LEMMA ReadFile ==
  ASSUME LoadingType, NEW kind \in Reads, phase = kind, file <= Len(input.files), item > Len(Items)
  PROVE  ReadTo(kind, file + 1, 1) = ReadTo(kind, file, item)
  <1>1. Items = (input.files[file])[kind] /\ file \in Nat /\ item \in Nat /\ file \in DOMAIN input.files
    BY ItemsAre, PlaceTyped DEF LoadingType
  <1>2. DOMAIN Items = 1..Len(Items) /\ Len(Items) \in Nat
    BY <1>1, PlaceTyped
  <1>3. ASSUME NEW p \in Places(kind)
        PROVE  (p[1] < file + 1 \/ (p[1] = file + 1 /\ p[2] < 1)) <=> (p[1] < file \/ (p[1] = file /\ p[2] < item))
    <2>1. PICK f \in DOMAIN input.files : \E k \in DOMAIN (input.files[f])[kind] : p = <<f, k>>
      BY <1>3, PlaceIs
    <2>2. PICK k \in DOMAIN (input.files[f])[kind] : p = <<f, k>>
      BY <2>1
    <2>3. f \in Nat /\ k \in Nat /\ k >= 1 /\ p[1] = f /\ p[2] = k
      BY <2>2, PlaceTyped
    <2>4. f = file => k < item
      BY <1>1, <1>2, <2>2
    <2> QED BY <1>1, <2>3, <2>4
  <1> QED BY <1>3 DEF ReadTo

LEMMA ReadAll ==
  ASSUME LoadingType, NEW kind \in Reads, file > Len(input.files)
  PROVE  ReadTo(kind, file, item) = Places(kind)
  <1>1. \A p \in Places(kind) : p[1] < file
    BY PlaceTyped DEF LoadingType
  <1> QED BY <1>1 DEF ReadTo

LEMMA ReadNone ==
  ASSUME LoadingType, NEW kind \in Reads PROVE ReadTo(kind, 1, 1) = {}
  <1>1. ASSUME NEW p \in Places(kind) PROVE ~(p[1] < 1 \/ (p[1] = 1 /\ p[2] < 1))
    <2>1. PICK f \in DOMAIN input.files : \E k \in DOMAIN (input.files[f])[kind] : p = <<f, k>>
      BY <1>1, PlaceIs
    <2>2. PICK k \in DOMAIN (input.files[f])[kind] : p = <<f, k>>
      BY <2>1
    <2>3. f \in Nat /\ f >= 1 /\ k \in Nat /\ k >= 1 /\ p[1] = f /\ p[2] = k
      BY <2>2, PlaceTyped
    <2> QED BY <2>3
  <1> QED BY <1>1 DEF ReadTo

---------------------------------------------------------------------------
(* What is known of the files                                                *)

Named(p, n) == Definition("rulesets", p).name = n

\* The rulesets known are the last of their names among those read.
LastOf(P, p, n) == p \in P /\ Named(p, n) /\ \A o \in P : Named(o, n) => o = p \/ Before(o, p)
RulesetsRead(P) ==
  /\ \A p \in P : RulesetHolds(Definition("rulesets", p)) /\ Definition("rulesets", p).name \in DOMAIN known
  /\ \A n \in DOMAIN known : \E p : LastOf(P, p, n) /\ known[n] = Definition("rulesets", p)

\* A rule that was read is among the rules, and its sections are bound.
RuleRead(r) ==
  /\ \E k \in DOMAIN rules : rules[k] = r
  /\ \A s \in AllSections(r) : EngineOf[s] # "mixed" => s \in DOMAIN bound /\ bound[s] \in Meant(RefersTo[s])

RulesRead(P) ==
  \A r : (\E p \in P : Definition("messages", p) = r) => r \in DOMAIN RuleOf /\ ~RuleIsWrong(r) /\ RuleRead(r)

\* How far the loading is, of which the last place of each kind is what counts.
Following ==
  /\ phase = "rulesets" /\ file > Len(input.files) => item = 1
  /\ phase = "rulesets" => rules = <<>> /\ RulesetsRead(ReadTo("rulesets", file, item))
  /\ phase \in {"messages", "loaded"} => RulesetsRead(Places("rulesets"))
  /\ phase = "messages" =>
       RulesRead(ReadTo("messages", file, item)) /\ (rules # <<>> => Places("messages") # {})
  /\ phase = "loaded" => RulesRead(Places("messages")) /\ Places("messages") # {}
  /\ phase = "refused" => FilesAreWrong

\* A name means the ruleset that is known by it.
LEMMA MeantIsKnown ==
  ASSUME LoadingType, RulesetsRead(Places("rulesets")), NEW n
  PROVE  /\ n \in DOMAIN known => Meant(n) = {known[n]}
         /\ n \notin DOMAIN known => Meant(n) = {}
  <1>1. \A p : LastOf(Places("rulesets"), p, n) => Definition("rulesets", p) \in Meant(n)
    BY DEF LastOf, Meant, Named
  <1>2. \A d \in Meant(n) : \E p : LastOf(Places("rulesets"), p, n) /\ d = Definition("rulesets", p)
    BY DEF LastOf, Meant, Named
  <1>3. ASSUME NEW p, NEW q, LastOf(Places("rulesets"), p, n), LastOf(Places("rulesets"), q, n) PROVE p = q
    <2>1. p[1] \in Nat /\ p[2] \in Nat /\ q[1] \in Nat /\ q[2] \in Nat
      BY <1>3, PlaceTyped DEF LastOf, Reads
    <2>2. (p = q \/ Before(p, q)) /\ (p = q \/ Before(q, p))
      BY <1>3 DEF LastOf
    <2> QED BY <2>1, <2>2 DEF Before
  <1>4. CASE n \in DOMAIN known
    <2>1. PICK p : LastOf(Places("rulesets"), p, n) /\ known[n] = Definition("rulesets", p)
      BY <1>4 DEF RulesetsRead
    <2>2. known[n] \in Meant(n)
      BY <1>1, <2>1
    <2>3. \A d \in Meant(n) : d = known[n]
      BY <1>2, <1>3, <2>1
    <2> QED BY <1>4, <2>2, <2>3
  <1>5. CASE n \notin DOMAIN known
    <2>1. \A p : ~LastOf(Places("rulesets"), p, n)
      BY <1>5 DEF LastOf, RulesetsRead, Named
    <2> QED BY <1>2, <1>5, <2>1
  <1> QED BY <1>4, <1>5

LEMMA SectionIsRight ==
  ASSUME LoadingType, RulesetsRead(Places("rulesets")), NEW s \in Sections, NEW id
  PROVE  SectionBinds(s, id) <=> ~SectionIsWrong(s, id)
  <1>1. CASE EngineOf[s] = "mixed"
    BY <1>1 DEF SectionBinds, SectionIsWrong
  <1>2. CASE EngineOf[s] # "mixed"
    <2> DEFINE n == RefersTo[s]
    <2>1. CASE n \in DOMAIN known
      <3>1. Meant(n) = {known[n]}
        BY <2>1, MeantIsKnown
      <3>2. SectionIsWrong(s, id) <=>
              s \in Nameless \/ n = NoRuleset \/ ~(known[n].kind = EngineOf[s] /\ (known[n].bindings # {} => id \in known[n].bindings))
        BY <1>2, <3>1 DEF SectionIsWrong
      <3> QED BY <1>2, <2>1, <3>2 DEF SectionBinds
    <2>2. CASE n \notin DOMAIN known
      <3>1. Meant(n) = {}
        BY <2>2, MeantIsKnown
      <3> QED BY <1>2, <2>2, <3>1 DEF SectionBinds, SectionIsWrong
    <2> QED BY <2>1, <2>2
  <1> QED BY <1>1, <1>2

LEMMA RuleIsRight ==
  ASSUME LoadingType, RulesetsRead(Places("rulesets")), NEW r \in DOMAIN RuleOf
  PROVE  MessageRuleHolds(r) <=> ~RuleIsWrong(r)
  <1>1. \A s \in AllSections(r) : SectionBinds(s, RuleOf[r].id) <=> ~SectionIsWrong(s, RuleOf[r].id)
    BY AllSectionsType, SectionIsRight
  <1>2. \A k \in DOMAIN RuleOf[r].filters :
          Normalized(RuleOf[r].filters[k]).fails <=> NameIsOpen(RuleOf[r].filters[k])
    <2>1. \A k \in DOMAIN RuleOf[r].filters : IsPattern(RuleOf[r].filters[k])
      BY FilesAssumption DEF FilesAssumption, IsMessageRule
    <2> QED BY <2>1, OpenNamesFail
  <1> QED BY <1>1, <1>2 DEF MessageRuleHolds, RuleIsWrong

\* What is wrong in the files does not depend on how far they are read.
LEMMA MeantStays ==
  ASSUME input' = input PROVE \A n : Meant(n)' = Meant(n)
  <1> SUFFICES ASSUME NEW n PROVE Meant(n)' = Meant(n)
    OBVIOUS
  <1>1. /\ \A p : p \in Places("rulesets")' <=> p \in Places("rulesets")
        /\ \A p : Definition("rulesets", p)' = Definition("rulesets", p)
    BY PlacesStay
  <1>2. \A d : d \in Meant(n)' <=> d \in Meant(n)
    BY <1>1 DEF Meant
  <1> QED BY <1>2

LEMMA RuleStays ==
  ASSUME input' = input, NEW r PROVE RuleIsWrong(r)' <=> RuleIsWrong(r)
  <1>1. \A s, id : SectionIsWrong(s, id)' <=> SectionIsWrong(s, id)
    BY MeantStays DEF SectionIsWrong
  <1> QED BY <1>1 DEF RuleIsWrong

LEMMA FilesStay == ASSUME input' = input PROVE FilesAreWrong' <=> FilesAreWrong
  <1>1. /\ Places("rulesets")' = Places("rulesets") /\ Places("messages")' = Places("messages")
        /\ \A p : /\ Definition("rulesets", p)' = Definition("rulesets", p)
                  /\ Definition("messages", p)' = Definition("messages", p)
    BY PlacesStay
  <1>2. \A r : RuleIsWrong(r)' <=> RuleIsWrong(r)
    BY RuleStays
  <1> QED BY <1>1, <1>2 DEF FilesAreWrong

LEMMA ReadStays ==
  ASSUME input' = input, NEW kind, NEW f, NEW i PROVE ReadTo(kind, f, i)' = ReadTo(kind, f, i)
  BY PlacesStay DEF ReadTo

LEMMA LastStays ==
  ASSUME input' = input PROVE \A P, p, n : LastOf(P, p, n)' <=> LastOf(P, p, n)
  <1>1. \A p : Definition("rulesets", p)' = Definition("rulesets", p)
    BY PlacesStay
  <1> QED BY <1>1 DEF LastOf, Named

\* What was read stays read.
LEMMA ReadKept ==
  ASSUME input' = input, known' = known, NEW P
  PROVE  RulesetsRead(P) => RulesetsRead(P)'
  <1>1. \A p : Definition("rulesets", p)' = Definition("rulesets", p)
    BY PlacesStay
  <1> QED BY <1>1, LastStays DEF RulesetsRead

LEMMA RulesKept ==
  ASSUME input' = input, NEW P, RulesRead(P),
         \A k \in DOMAIN rules : k \in DOMAIN rules' /\ rules'[k] = rules[k],
         \A s \in DOMAIN bound : s \in DOMAIN bound' /\ bound'[s] = bound[s]
  PROVE  RulesRead(P)'
  <1> SUFFICES ASSUME NEW r, (\E p \in P : Definition("messages", p) = r)'
               PROVE  r \in DOMAIN RuleOf /\ ~RuleIsWrong(r)' /\ RuleRead(r)'
    BY DEF RulesRead
  <1>1. \E p \in P : Definition("messages", p) = r
    BY PlacesStay
  <1>3. r \in DOMAIN RuleOf /\ ~RuleIsWrong(r) /\ RuleRead(r)
    BY <1>1 DEF RulesRead
  <1>4. ~RuleIsWrong(r)'
    BY <1>3, RuleStays
  <1>5. \E k \in DOMAIN rules' : rules'[k] = r
    BY <1>3 DEF RuleRead
  <1>6. \A s \in AllSections(r) : EngineOf[s] # "mixed" => s \in DOMAIN bound' /\ bound'[s] \in Meant(RefersTo[s])'
    BY <1>3, MeantStays DEF RuleRead
  <1>7. RuleRead(r)'
    BY <1>5, <1>6 DEF RuleRead
  <1> QED BY <1>3, <1>4, <1>7

LEMMA FollowingFirst == Init => Following
  <1> SUFFICES ASSUME Init PROVE Following
    OBVIOUS
  <1>1. LoadingType
    BY TypedFirst DEF Typed
  <1>2. ReadTo("rulesets", file, item) = {}
    BY <1>1, ReadNone DEF Init, InitLoading, Reads
  <1>3. RulesetsRead({})
    BY DEF Init, InitLoading, RulesetsRead
  <1> QED BY <1>2, <1>3 DEF Init, InitLoading, Following

LEMMA NextFileFollows == ASSUME LoadingType, Following, NextFile PROVE Following'
  <1>1. /\ input' = input /\ phase' = phase /\ known' = known /\ rules' = rules /\ bound' = bound
        /\ phase \in Reads /\ file <= Len(input.files) /\ item > Len(Items) /\ file' = file + 1 /\ item' = 1
    BY DEF NextFile, Reads
  <1>2. PICK k : k = phase
    OBVIOUS
  <1>3. ReadTo(k, file + 1, 1) = ReadTo(k, file, item)
    BY <1>1, <1>2, ReadFile
  <1>4. ReadTo(k, file, item)' = ReadTo(k, file, item)
    BY <1>1, <1>3, PlacesStay DEF ReadTo
  <1>5. CASE phase = "rulesets"
    <2>1. PICK P : P = ReadTo("rulesets", file, item)
      OBVIOUS
    <2>2. RulesetsRead(P)'
      BY <1>1, <1>5, <2>1, ReadKept DEF Following
    <2>3. ReadTo("rulesets", file, item)' = P
      BY <1>2, <1>4, <1>5, <2>1
    <2> QED BY <1>1, <1>5, <2>2, <2>3 DEF Following
  <1>6. CASE phase = "messages"
    <2>1. PICK P : P = ReadTo("messages", file, item)
      OBVIOUS
    <2>2. RulesRead(P)'
      BY <1>1, <1>6, <2>1, RulesKept DEF Following
    <2>3. ReadTo("messages", file, item)' = P
      BY <1>2, <1>4, <1>6, <2>1
    <2>4. RulesetsRead(Places("rulesets"))'
      <3>1. PICK Q : Q = Places("rulesets")
        OBVIOUS
      <3>2. Places("rulesets")' = Q /\ RulesetsRead(Q)'
        BY <1>1, <1>6, <3>1, PlacesStay, ReadKept DEF Following
      <3> QED BY <3>2
    <2>5. rules' # <<>> => Places("messages")' # {}
      BY <1>1, <1>6, PlacesStay DEF Following
    <2> QED BY <1>1, <1>6, <2>2, <2>3, <2>4, <2>5 DEF Following
  <1> QED BY <1>1, <1>5, <1>6 DEF Reads

LEMMA LoadRulesetFollows == ASSUME LoadingType, Following, LoadRuleset PROVE Following'
  <1>1. /\ input' = input /\ phase' = phase /\ rules' = rules /\ file' = file /\ phase = "rulesets"
        /\ Reading("rulesets") /\ item' = item + 1 /\ known' = KnownWith(Entry) /\ RulesetHolds(Entry)
        /\ file <= Len(input.files)
    BY DEF LoadRuleset, Reading
  <1>2. PICK q : q = <<file, item>>
    OBVIOUS
  <1>3. PICK P : P = ReadTo("rulesets", file, item)
    OBVIOUS
  <1>4. PICK d : d = Entry
    OBVIOUS
  <1>5. /\ Definition("rulesets", q) = d /\ \A o \in P : Before(o, q)
        /\ ReadTo("rulesets", file, item + 1) = P \cup {q}
    BY <1>1, <1>2, <1>3, <1>4, ReadOne DEF Reads
  <1>6. ReadTo("rulesets", file, item)' = P \cup {q}
    BY <1>1, <1>5, PlacesStay DEF ReadTo
  <1>7. RulesetsRead(P)
    BY <1>1, <1>3 DEF Following
  <1>8. DOMAIN known' = DOMAIN known \cup {d.name} /\ \A n \in DOMAIN known' : known'[n] = IF n = d.name THEN d ELSE known[n]
    BY <1>1, <1>4 DEF KnownWith
  <1>9. \A p \in P \cup {q} : RulesetHolds(Definition("rulesets", p)) /\ Definition("rulesets", p).name \in DOMAIN known'
    BY <1>1, <1>4, <1>5, <1>7, <1>8 DEF RulesetsRead
  <1>10. ASSUME NEW n \in DOMAIN known' PROVE \E p : LastOf(P \cup {q}, p, n) /\ known'[n] = Definition("rulesets", p)
    <2>1. CASE n = d.name
      <3>1. LastOf(P \cup {q}, q, n)
        BY <1>5, <2>1 DEF LastOf, Named
      <3> QED BY <1>5, <1>8, <2>1, <3>1
    <2>2. CASE n # d.name
      <3>1. PICK p : LastOf(P, p, n) /\ known[n] = Definition("rulesets", p)
        BY <1>7, <1>8, <2>2 DEF RulesetsRead
      <3>2. LastOf(P \cup {q}, p, n)
        BY <1>5, <2>2, <3>1 DEF LastOf, Named
      <3> QED BY <1>8, <2>2, <3>1, <3>2
    <2> QED BY <2>1, <2>2
  <1>11. PICK Q : Q = P \cup {q}
    OBVIOUS
  <1>12. \A p : Definition("rulesets", p)' = Definition("rulesets", p)
    BY <1>1, PlacesStay
  <1>13. RulesetsRead(Q)'
    <2>1. \A P2, p, n : LastOf(P2, p, n)' <=> LastOf(P2, p, n)
      BY <1>1, LastStays
    <2>2. \A p \in Q : RulesetHolds(Definition("rulesets", p)') /\ Definition("rulesets", p)'.name \in DOMAIN known'
      BY <1>9, <1>11, <1>12
    <2>3. \A n \in DOMAIN known' : \E p : LastOf(Q, p, n)' /\ known'[n] = Definition("rulesets", p)'
      BY <1>10, <1>11, <1>12, <2>1
    <2> QED BY <2>2, <2>3 DEF RulesetsRead
  <1>14. ReadTo("rulesets", file, item)' = Q
    BY <1>6, <1>11
  <1>15. ~(file' > Len(input'.files))
    BY <1>1, EntryType DEF LoadingType
  <1> QED BY <1>1, <1>13, <1>14, <1>15 DEF Following

LEMMA BeginMessagesFollows == ASSUME LoadingType, Following, BeginMessages PROVE Following'
  <1>1. /\ input' = input /\ phase = "rulesets" /\ file > Len(input.files) /\ phase' = "messages" /\ file' = 1
        /\ item' = item /\ known' = known /\ rules' = rules /\ bound' = bound
    BY DEF BeginMessages
  <1>2. item = 1 /\ rules = <<>> /\ RulesetsRead(ReadTo("rulesets", file, item))
    BY <1>1 DEF Following
  <1>3. PICK P : P = Places("rulesets")
    OBVIOUS
  <1>4. RulesetsRead(P)' /\ Places("rulesets")' = P
    BY <1>1, <1>2, <1>3, ReadAll, PlacesStay, ReadKept DEF Reads
  <1>5. ReadTo("messages", file, item)' = {}
    <2>1. ReadTo("messages", 1, 1) = {}
      BY ReadNone DEF Reads
    <2> QED BY <1>1, <1>2, <2>1, PlacesStay DEF ReadTo
  <1>6. RulesRead({})'
    BY DEF RulesRead
  <1> QED BY <1>1, <1>2, <1>4, <1>5, <1>6 DEF Following

LEMMA LoadMessageRuleFollows == ASSUME LoadingType, Following, LoadMessageRule PROVE Following'
  <1>1. /\ input' = input /\ phase' = phase /\ known' = known /\ file' = file /\ phase = "messages"
        /\ Reading("messages") /\ item' = item + 1 /\ MessageRuleHolds(Entry)
        /\ rules' = Append(rules, Entry) /\ bound' = Joined(Bindings(Entry), bound)
    BY DEF LoadMessageRule, Reading
  <1>2. PICK q : q = <<file, item>>
    OBVIOUS
  <1>3. PICK P : P = ReadTo("messages", file, item)
    OBVIOUS
  <1>4. PICK e : e = Entry
    OBVIOUS
  <1>5. /\ Definition("messages", q) = e /\ q \in Places("messages")
        /\ ReadTo("messages", file, item + 1) = P \cup {q}
    BY <1>1, <1>2, <1>3, <1>4, ReadOne DEF Reads
  <1>6. PICK Q : Q = P \cup {q}
    OBVIOUS
  <1>7. ReadTo("messages", file, item)' = Q
    BY <1>1, <1>5, <1>6, PlacesStay DEF ReadTo
  <1>8. PICK R : R = Places("rulesets")
    OBVIOUS
  <1>9. RulesetsRead(R) /\ RulesRead(P) /\ RulesetsRead(Places("rulesets"))
    BY <1>1, <1>3, <1>8 DEF Following
  <1>10. Places("rulesets")' = R /\ RulesetsRead(R)'
    BY <1>1, <1>8, <1>9, PlacesStay, ReadKept
  <1>11. e \in DOMAIN RuleOf /\ MessageRuleHolds(e) /\ ~RuleIsWrong(e)
    BY <1>1, <1>4, <1>9, EntryType, RuleIsRight
  <1>12. \A s \in AllSections(e) : EngineOf[s] # "mixed" =>
           RefersTo[s] \in DOMAIN known /\ Meant(RefersTo[s]) = {known[RefersTo[s]]}
    BY <1>9, <1>11, MeantIsKnown DEF MessageRuleHolds, SectionBinds
  <1>13. /\ rules' = Append(rules, e) /\ rules \in Seq(DOMAIN RuleOf)
         /\ bound' = Joined(Bindings(e), bound)
    BY <1>1, <1>4 DEF LoadingType
  <1>14. /\ \A k \in DOMAIN rules : k \in DOMAIN rules' /\ rules'[k] = rules[k]
         /\ \E k \in DOMAIN rules' : rules'[k] = e
    BY <1>11, <1>13
  <1>15. /\ \A s : s \in DOMAIN bound' <=> s \in DOMAIN bound \/ (s \in AllSections(e) /\ EngineOf[s] # "mixed")
         /\ \A s \in DOMAIN bound' :
              bound'[s] = IF s \in AllSections(e) /\ EngineOf[s] # "mixed" THEN known[RefersTo[s]] ELSE bound[s]
    BY <1>13 DEF Joined, Bindings
  <1>16. RulesRead(Q)'
    <2> SUFFICES ASSUME NEW r, (\E p \in Q : Definition("messages", p) = r)'
                 PROVE  r \in DOMAIN RuleOf /\ ~RuleIsWrong(r)' /\ RuleRead(r)'
      BY DEF RulesRead
    <2>1. r = e \/ \E p \in P : Definition("messages", p) = r
      BY <1>1, <1>5, <1>6, PlacesStay
    <2>2. r \in DOMAIN RuleOf /\ ~RuleIsWrong(r) /\ (r = e \/ RuleRead(r))
      BY <1>9, <1>11, <2>1 DEF RulesRead
    <2>3. ~RuleIsWrong(r)'
      BY <1>1, <2>2, RuleStays
    <2>4. \E k \in DOMAIN rules' : rules'[k] = r
      BY <1>14, <2>2 DEF RuleRead
    <2>5. ASSUME NEW s \in AllSections(r), EngineOf[s] # "mixed"
          PROVE  s \in DOMAIN bound' /\ bound'[s] \in Meant(RefersTo[s])
      <3>1. s \in AllSections(e) \/ (s \in DOMAIN bound /\ bound[s] \in Meant(RefersTo[s]))
        BY <2>2, <2>5 DEF RuleRead
      <3> QED BY <1>12, <1>15, <2>5, <3>1
    <2>6. \A s : Meant(RefersTo[s])' = Meant(RefersTo[s])
      BY <1>1, MeantStays
    <2>7. \A s \in AllSections(r) : EngineOf[s] # "mixed" => s \in DOMAIN bound' /\ bound'[s] \in Meant(RefersTo[s])'
      BY <2>5, <2>6
    <2>8. RuleRead(r)'
      BY <2>4, <2>7 DEF RuleRead
    <2> QED BY <2>2, <2>3, <2>8
  <1>17. Places("messages")' # {}
    BY <1>1, <1>5, PlacesStay
  <1> QED BY <1>1, <1>7, <1>10, <1>16, <1>17 DEF Following

LEMMA FinishLoadingFollows == ASSUME LoadingType, Following, FinishLoading PROVE Following'
  <1>1. /\ input' = input /\ phase = "messages" /\ phase' = "loaded" /\ known' = known /\ file' = file
        /\ file > Len(input.files) /\ rules # <<>> /\ rules' = rules \o input.added /\ bound' = Joined(bound, Preset)
    BY DEF FinishLoading
  <1>2. PICK P : P = Places("messages")
    OBVIOUS
  <1>3. PICK R : R = Places("rulesets")
    OBVIOUS
  <1>4. RulesetsRead(R) /\ RulesRead(P) /\ Places("messages") # {}
    BY <1>1, <1>2, <1>3, ReadAll DEF Following, Reads
  <1>5. Places("rulesets")' = R /\ Places("messages")' = P /\ RulesetsRead(R)' /\ P # {}
    BY <1>1, <1>2, <1>3, <1>4, PlacesStay, ReadKept
  <1>6. \A k \in DOMAIN rules : k \in DOMAIN rules' /\ rules'[k] = rules[k]
    <2>1. rules \in Seq(DOMAIN RuleOf) /\ input.added \in Seq(DOMAIN RuleOf)
      BY FilesAssumption DEF FilesAssumption, LoadingType
    <2> QED BY <1>1, <2>1
  <1>7. \A s \in DOMAIN bound : s \in DOMAIN bound' /\ bound'[s] = bound[s]
    BY <1>1 DEF Joined
  <1>8. RulesRead(P)'
    BY <1>1, <1>4, <1>6, <1>7, RulesKept
  <1> QED BY <1>1, <1>5, <1>8 DEF Following

LEMMA RefusalFollows ==
  ASSUME LoadingType, Following, RefuseRuleset \/ RefuseMessageRule \/ RefuseNoRules PROVE Following'
  <1>1. input' = input /\ phase' = "refused"
    BY DEF RefuseRuleset, RefuseMessageRule, RefuseNoRules, Refuse
  <1>2. FilesAreWrong
    <2>1. CASE RefuseRuleset
      <3>1. PICK q : q \in Places("rulesets") /\ Definition("rulesets", q) = Entry
        BY <2>1, ReadOne DEF RefuseRuleset, Reads
      <3> QED BY <2>1, <3>1 DEF RefuseRuleset, FilesAreWrong
    <2>2. CASE RefuseMessageRule
      <3>1. PICK q : q \in Places("messages") /\ Definition("messages", q) = Entry
        BY <2>2, ReadOne DEF RefuseMessageRule, Reads
      <3>2. RulesetsRead(Places("rulesets")) /\ Entry \in DOMAIN RuleOf
        BY <2>2, EntryType DEF RefuseMessageRule, Reading, Following
      <3>3. RuleIsWrong(Entry)
        BY <2>2, <3>2, RuleIsRight DEF RefuseMessageRule
      <3> QED BY <3>1, <3>3 DEF FilesAreWrong
    <2>3. CASE RefuseNoRules
      <3>1. RulesRead(Places("messages")) /\ rules = <<>>
        BY <2>3, ReadAll DEF RefuseNoRules, Following, Reads
      <3>2. \A p \in Places("messages") : RuleRead(Definition("messages", p))
        BY <3>1 DEF RulesRead
      <3>3. \A r : ~RuleRead(r)
        BY <3>1 DEF RuleRead
      <3> QED BY <3>2, <3>3 DEF FilesAreWrong
    <2> QED BY <2>1, <2>2, <2>3
  <1>3. FilesAreWrong'
    BY <1>1, <1>2, FilesStay
  <1> QED BY <1>1, <1>3 DEF Following

\* A program that parses does not load.
LEMMA ParsingFollows == ASSUME Following, UNCHANGED loading PROVE Following'
  <1>1. /\ input' = input /\ phase' = phase /\ known' = known /\ file' = file /\ item' = item
        /\ rules' = rules /\ bound' = bound
    BY DEF loading
  <1>2. PICK P, Q, R, S : /\ P = ReadTo("rulesets", file, item) /\ Q = Places("rulesets")
                          /\ R = ReadTo("messages", file, item) /\ S = Places("messages")
    OBVIOUS
  <1>3. /\ ReadTo("rulesets", file, item)' = P /\ Places("rulesets")' = Q
        /\ ReadTo("messages", file, item)' = R /\ Places("messages")' = S
    BY <1>1, <1>2, PlacesStay DEF ReadTo
  <1>4. \A T : (RulesetsRead(T) => RulesetsRead(T)') /\ (RulesRead(T) => RulesRead(T)')
    BY <1>1, ReadKept, RulesKept
  <1>5. FilesAreWrong' <=> FilesAreWrong
    BY <1>1, FilesStay
  <1>6. phase = "rulesets" => RulesetsRead(P)'
    BY <1>2, <1>4 DEF Following
  <1>7. phase \in {"messages", "loaded"} => RulesetsRead(Q)'
    BY <1>2, <1>4 DEF Following
  <1>8. (phase = "messages" => RulesRead(R)') /\ (phase = "loaded" => RulesRead(S)')
    BY <1>2, <1>4 DEF Following
  <1> QED BY <1>1, <1>2, <1>3, <1>5, <1>6, <1>7, <1>8 DEF Following

LEMMA FollowingNext == Typed /\ Following /\ [Next]_vars => Following'
  <1> SUFFICES ASSUME Typed, Following, [Next]_vars PROVE Following'
    OBVIOUS
  <1>1. LoadingType
    BY DEF Typed
  <1>2. CASE Load
    BY <1>1, <1>2, NextFileFollows, LoadRulesetFollows, BeginMessagesFollows, LoadMessageRuleFollows,
       FinishLoadingFollows, RefusalFollows DEF Load
  <1>3. CASE UNCHANGED loading
    BY <1>3, ParsingFollows
  <1>4. Load \/ UNCHANGED loading
    BY DEF Next, vars
  <1> QED BY <1>2, <1>3, <1>4

LEMMA FollowingShown == LoadingType /\ Following => LoadingFollowsFiles
  <1> SUFFICES ASSUME LoadingType, Following PROVE LoadingFollowsFiles
    OBVIOUS
  <1>1. ASSUME phase = "loaded" PROVE ~FilesAreWrong
    <2>1. /\ RulesetsRead(Places("rulesets")) /\ RulesRead(Places("messages")) /\ Places("messages") # {}
      BY <1>1 DEF Following
    <2>2. \A p \in Places("rulesets") : RulesetHolds(Definition("rulesets", p))
      BY <2>1 DEF RulesetsRead
    <2>3. \A p \in Places("messages") : ~RuleIsWrong(Definition("messages", p))
      BY <2>1 DEF RulesRead
    <2> QED BY <2>1, <2>2, <2>3 DEF FilesAreWrong
  <1>2. ASSUME phase = "loaded", NEW p \in Places("messages") PROVE RuleRead(Definition("messages", p))
    <2>1. RulesRead(Places("messages"))
      BY <1>2 DEF Following
    <2> QED BY <2>1 DEF RulesRead
  <1>3. phase = "refused" => FilesAreWrong
    BY DEF Following
  <1> QED BY <1>1, <1>2, <1>3 DEF LoadingFollowsFiles, RuleRead

\* Files are taken as a whole: one definition that is wrong, in whatever file,
\* refuses them all (load_rules throws on the first), and else the framework has
\* every message rule of them, each section with the last ruleset of the name it
\* refers to (load_parser_rules_file assigns rulesets[name]).
THEOREM FilesAreFollowed == Spec => []LoadingFollowsFiles
  <1>1. Init => Typed /\ Following
    BY TypedFirst, FollowingFirst
  <1>2. Typed /\ Following /\ [Next]_vars => Typed' /\ Following'
    BY TypedNext, FollowingNext
  <1>3. Typed /\ Following => LoadingFollowsFiles
    BY FollowingShown DEF Typed
  <1> QED BY <1>1, <1>2, <1>3, PTL DEF Spec

---------------------------------------------------------------------------
(* The groups of a filter                                                    *)

LettersOf(p) == {p[i] : i \in DOMAIN p} \cup {"(", "?", ":"}
States(S) ==
  [out: Seq(S), group: Nat, captures: Seq(Seq(S) \X Nat), done: Nat,
   escaped: BOOLEAN, class: BOOLEAN, fails: BOOLEAN]

\* What a step of the walk over a usual filter does with the character at i.
Numbered(p, i, w, x) ==
  /\ x.out = Append(w.out, p[i])
  /\ x.group = w.group + IF i \in Groups(p) THEN 1 ELSE 0
  /\ x.escaped = (~w.escaped /\ p[i] = "\\")
  /\ x.done = IF i \in NamedGroups(p) THEN NameEnd(p, i) ELSE w.done
  /\ x.captures = IF i \in NamedGroups(p)
                  THEN Append(w.captures, <<SubSeq(p, i + 3, NameEnd(p, i) - 1), w.group + 1>>)
                  ELSE w.captures

LEMMA UsualEnd ==
  ASSUME NEW p, IsPattern(p), IsUsual(p), NEW i \in NamedGroups(p)
  PROVE  /\ NameEnds(p, i + 3) # {} /\ NameEnd(p, i) \in (i + 3)..Len(p)
         /\ i \in 1..Len(p) /\ \A k \in (i + 1)..NameEnd(p, i) : p[k] # "("
         /\ NameEnd(p, i) < Len(p) => p[NameEnd(p, i) + 1] # "?"
  <1> DEFINE e == NameEnd(p, i)
  <1>1. i \in 1..Len(p) /\ Len(p) \in Nat
    BY DEF NamedGroups, Plain, IsPattern
  <1>2. p[i + 1] = "?" /\ p[i + 2] = "<"
    BY <1>1, GroupBegins DEF NamedGroups
  <1>3. NameEnds(p, i + 3) # {} /\ \A k \in (i + 3)..(e - 1) : p[k] # "("
    BY DEF IsUsual
  <1>4. e \in NameEnds(p, i + 3)
    BY <1>3 DEF NameEnd
  <1>5. e \in (i + 3)..Len(p) /\ p[e] = ">"
    BY <1>4 DEF NameEnds
  <1>6. e < Len(p) => p[e + 1] # "?"
    BY DEF IsUsual
  <1> HIDE DEF e
  <1>7. \A k \in (i + 1)..e : k = i + 1 \/ k = i + 2 \/ k = e \/ k \in (i + 3)..(e - 1)
    BY <1>1, <1>5
  <1>8. \A k \in (i + 1)..e : p[k] # "("
    BY <1>2, <1>3, <1>5, <1>7
  <1> QED BY <1>1, <1>3, <1>5, <1>6, <1>8 DEF e

\* A state of a walk, field by field.
Walk7(o, g, cs, d, e, c, f) ==
  [out |-> o, group |-> g, captures |-> cs, done |-> d, escaped |-> e, class |-> c, fails |-> f]

LEMMA CopiedIs ==
  ASSUME NEW o, NEW g, NEW cs, NEW d, NEW e, NEW c, NEW f, NEW w, w = Walk7(o, g, cs, d, e, c, f),
         NEW t, NEW b, b = (~e /\ t = "\\")
  PROVE  Copied(w, t) = Walk7(Append(o, t), g, cs, d, b, c, f)
  <1>1. w.escaped = e
    BY DEF Walk7
  <1>2. PICK v : v = Copied(w, t)
    OBVIOUS
  <1>3. v = [w EXCEPT !.out = Append(@, t), !.escaped = b]
    BY <1>1, <1>2 DEF Copied
  <1>4. v = Walk7(Append(o, t), g, cs, d, b, c, f)
    BY <1>3 DEF Walk7
  <1> QED BY <1>2, <1>4

LEMMA NumberedStep ==
  ASSUME NEW p, IsPattern(p), IsUsual(p), NEW i \in 1..Len(p), NEW S, p[i] \in S, "(" \in S, p \in Seq(S),
         NEW w \in States(S), w.class = FALSE, w.fails = FALSE, w.done < i, i \in Plain(p) <=> ~w.escaped,
         NEW x, x = NormalizedAt(w, p, i)
  PROVE  x \in States(S) /\ x.class = FALSE /\ x.fails = FALSE /\ Numbered(p, i, w, x)
  <1>1. i \in Nat /\ Len(p) \in Nat /\ ~(i <= w.done)
    BY DEF States
  <1>2. i \in NamedGroups(p) <=> ~w.escaped /\ StartsWith(p, i, <<"(", "?", "<">>)
    BY DEF NamedGroups
  <1>3. i \in Groups(p) <=> i \in NamedGroups(p) \/ Captures(w, p, i)
    BY DEF Groups, Captures
  <1>p. PICK o \in Seq(S), g \in Nat, cs \in Seq(Seq(S) \X Nat), d \in Nat, e \in BOOLEAN, c \in BOOLEAN, f \in BOOLEAN :
          w = Walk7(o, g, cs, d, e, c, f)
    BY DEF States, Walk7
  <1>r. w.out = o /\ w.group = g /\ w.captures = cs /\ w.done = d /\ w.escaped = e /\ c = FALSE /\ f = FALSE
    BY <1>p DEF Walk7
  <1>4. CASE i \in NamedGroups(p)
    <2> DEFINE name == SubSeq(p, i + 3, NameEnd(p, i) - 1)
    <2>1. NameEnds(p, i + 3) # {} /\ NameEnd(p, i) \in Nat /\ p[i] = "("
      BY <1>1, <1>2, <1>4, UsualEnd, GroupBegins
    <2>2. name \in Seq(S)
      <3>1. NameEnd(p, i) \in (i + 3)..Len(p)
        BY <1>4, UsualEnd
      <3> QED BY <1>1, <3>1
    <2>3. PICK v : v = Copied(w, "(")
      OBVIOUS
    <2>b. PICK b \in BOOLEAN : b = (~e /\ "(" = "\\")
      OBVIOUS
    <2>4. v = Walk7(Append(o, "("), g, cs, d, b, c, f)
      BY <1>p, <2>3, <2>b, CopiedIs
    <2>5. x = [v EXCEPT !.group = @ + 1, !.done = NameEnd(p, i),
                        !.captures = Append(@, <<name, w.group + 1>>)]
      BY <1>1, <1>2, <1>4, <2>1, <2>3 DEF NormalizedAt
    <2> HIDE DEF name
    <2>6. PICK ds : ds = Append(cs, <<name, g + 1>>)
      OBVIOUS
    <2>7. ds \in Seq(Seq(S) \X Nat)
      BY <2>2, <2>6
    <2>8. x = Walk7(Append(o, "("), g + 1, ds, NameEnd(p, i), b, c, f)
      BY <1>r, <2>4, <2>5, <2>6 DEF Walk7
    <2>9. x \in States(S)
      BY <2>1, <2>7, <2>8 DEF States, Walk7
    <2>10. x.out = Append(o, "(") /\ x.group = g + 1 /\ x.captures = ds /\ x.done = NameEnd(p, i)
           /\ x.escaped = b /\ x.class = FALSE /\ x.fails = FALSE
      BY <1>r, <2>8 DEF Walk7
    <2>11. x.escaped = (~w.escaped /\ p[i] = "\\")
      BY <1>r, <2>1, <2>b, <2>10
    <2>12. Numbered(p, i, w, x)
      BY <1>3, <1>4, <1>r, <2>1, <2>6, <2>10, <2>11 DEF Numbered, name
    <2> QED BY <2>9, <2>10, <2>12
  <1>5. CASE i \notin NamedGroups(p)
    <2>1. PICK b \in BOOLEAN : b = (~e /\ p[i] = "\\")
      OBVIOUS
    <2>2. PICK v : v = Copied(w, p[i])
      OBVIOUS
    <2>3. v = Walk7(Append(o, p[i]), g, cs, d, b, c, f)
      BY <1>p, <2>1, <2>2, CopiedIs
    <2>4. x = [v EXCEPT !.group = @ + IF Captures(w, p, i) THEN 1 ELSE 0]
      BY <1>1, <1>2, <1>5, <2>2 DEF NormalizedAt
    <2>5. PICK h \in Nat : h = g + IF Captures(w, p, i) THEN 1 ELSE 0
      OBVIOUS
    <2>6. x = Walk7(Append(o, p[i]), h, cs, d, b, c, f)
      BY <2>3, <2>4, <2>5 DEF Walk7
    <2>7. x \in States(S)
      BY <2>6 DEF States, Walk7
    <2>8. x.out = Append(o, p[i]) /\ x.group = h /\ x.captures = cs /\ x.done = d
           /\ x.escaped = b /\ x.class = FALSE /\ x.fails = FALSE
      BY <1>r, <2>6 DEF Walk7
    <2>9. Numbered(p, i, w, x)
      BY <1>3, <1>5, <1>r, <2>1, <2>5, <2>8 DEF Numbered
    <2> QED BY <2>7, <2>8, <2>9
  <1> QED BY <1>4, <1>5

\* F is the loader's walk over p, and what is known of it if p is usual.
CountedTo(F, p, i) ==
  /\ F[i] \in States(LettersOf(p)) /\ F[i].class = FALSE /\ F[i].fails = FALSE
  /\ F[i].done <= Len(p) /\ \A k \in (i + 1)..F[i].done : p[k] # "("
Counts(F, p, i) ==
  IF i <= F[i - 1].done THEN F[i] = F[i - 1]
  ELSE Numbered(p, i, F[i - 1], F[i]) /\ (i \in Plain(p) <=> ~F[i - 1].escaped)
Numbering(F, p) ==
  /\ F[0] = Walked
  /\ \A i \in 0..Len(p) : CountedTo(F, p, i)
  /\ \A i \in 1..Len(p) : Counts(F, p, i)
  /\ Normalized(p) = F[Len(p)]

LEMMA LettersType ==
  ASSUME NEW p, IsPattern(p)
  PROVE  /\ Len(p) \in Nat /\ DOMAIN p = 1..Len(p) /\ p \in Seq(LettersOf(p))
         /\ \A i \in 1..Len(p) : p[i] \in LettersOf(p)
  <1>1. p \in Seq({p[i] : i \in DOMAIN p})
    BY DEF IsPattern
  <1> DEFINE S == {p[i] : i \in DOMAIN p}
  <1>2. S \subseteq LettersOf(p)
    BY DEF LettersOf
  <1> HIDE DEF S
  <1>3. p \in Seq(S)
    BY <1>1 DEF S
  <1> QED BY <1>2, <1>3

LEMMA CountedStep ==
  ASSUME NEW p, IsPattern(p), IsUsual(p), NEW F, Walks(F, p), NEW i \in 1..Len(p), CountedTo(F, p, i - 1)
  PROVE  Counts(F, p, i) /\ CountedTo(F, p, i)
  <1> DEFINE S == LettersOf(p)
  <1>0. Len(p) \in Nat /\ p \in Seq(S) /\ p[i] \in S /\ i - 1 \in 0..Len(p) /\ i \in 0..Len(p)
    BY LettersType
  <1>1. PICK w : w = F[i - 1]
    OBVIOUS
  <1>2. PICK x : x = F[i]
    OBVIOUS
  <1>3. w \in States(S) /\ w.class = FALSE /\ w.fails = FALSE /\ w.done <= Len(p)
        /\ \A k \in i..w.done : p[k] # "("
    <2>1. (i - 1) + 1 = i
      OBVIOUS
    <2> QED BY <1>1, <2>1 DEF CountedTo
  <1>4. x = NormalizedAt(w, p, i) /\ Walking(w, p, i - 1)
    BY <1>0, <1>1, <1>2 DEF Walks
  <1>5. w.done \in Nat
    BY <1>3 DEF States
  <1>6. CASE i <= w.done
    <2>1. x = w
      BY <1>4, <1>6 DEF NormalizedAt
    <2>2. \A k \in (i + 1)..w.done : k \in i..w.done
      BY <1>5
    <2> QED BY <1>1, <1>2, <1>3, <1>6, <2>1, <2>2 DEF Counts, CountedTo
  <1>7. CASE ~(i <= w.done)
    <2>1. i \in Plain(p) <=> ~w.escaped
      <3>1. EscapeRun(p, i - 1, w.escaped)
        BY <1>3, <1>4, <1>5, <1>7 DEF Walking
      <3>2. w.escaped \in BOOLEAN
        BY <1>3 DEF States
      <3> QED BY <3>1, <3>2, PlainAfterRun
    <2>2. "(" \in S
      BY DEF LettersOf
    <2>3. w.done < i
      BY <1>5, <1>7
    <2> HIDE DEF S
    <2>4. x \in States(S) /\ x.class = FALSE /\ x.fails = FALSE /\ Numbered(p, i, w, x)
      BY <1>0, <1>3, <1>4, <2>1, <2>2, <2>3, NumberedStep
    <2>5. x.done <= Len(p) /\ \A k \in (i + 1)..x.done : p[k] # "("
      <3>1. CASE i \in NamedGroups(p)
        <4>1. x.done = NameEnd(p, i)
          BY <2>4, <3>1 DEF Numbered
        <4>2. NameEnd(p, i) \in (i + 3)..Len(p) /\ \A k \in (i + 1)..NameEnd(p, i) : p[k] # "("
          BY <3>1, UsualEnd
        <4> QED BY <4>1, <4>2
      <3>2. CASE i \notin NamedGroups(p)
        <4>1. x.done = w.done
          BY <2>4, <3>2 DEF Numbered
        <4>2. (i + 1)..w.done = {}
          BY <1>5, <1>7
        <4> QED BY <1>3, <4>1, <4>2
      <3> QED BY <3>1, <3>2
    <2>6. Counts(F, p, i)
      BY <1>1, <1>2, <1>7, <2>1, <2>4 DEF Counts
    <2>7. CountedTo(F, p, i)
      BY <1>2, <2>4, <2>5 DEF CountedTo, S
    <2> QED BY <2>6, <2>7
  <1> QED BY <1>6, <1>7

LEMMA NumberingIs ==
  ASSUME NEW p, IsPattern(p), IsUsual(p) PROVE \E F : Numbering(F, p)
  <1>1. PICK F : Walks(F, p)
    BY WalkIs
  <1>2. Len(p) \in Nat
    BY LettersType
  <1>3. CountedTo(F, p, 0)
    <2>1. F[0] = Walked
      BY <1>1 DEF Walks
    <2>2. Walked \in States(LettersOf(p)) /\ Walked.class = FALSE /\ Walked.fails = FALSE /\ Walked.done = 0
      BY DEF Walked, States
    <2>3. (0 + 1)..0 = {}
      OBVIOUS
    <2> QED BY <1>2, <2>1, <2>2, <2>3 DEF CountedTo
  <1> DEFINE T == {i \in 0..Len(p) : ~CountedTo(F, p, i)}
  <1>4. T = {}
    <2> SUFFICES ASSUME T # {} PROVE FALSE
      OBVIOUS
    <2>1. PICK i \in T : \A y \in T : i <= y
      <3>1. T \subseteq Nat
        BY <1>2
      <3> HIDE DEF T
      <3> QED BY <3>1, LeastNumber
    <2>2. i \in 0..Len(p) /\ ~CountedTo(F, p, i)
      OBVIOUS
    <2>3. i # 0
      BY <1>3, <2>2
    <2>4. i \in 1..Len(p) /\ i - 1 \in 0..Len(p) /\ ~(i <= i - 1)
      BY <1>2, <2>2, <2>3
    <2>5. CountedTo(F, p, i - 1)
      BY <2>1, <2>4
    <2> QED BY <1>1, <2>2, <2>4, <2>5, CountedStep
  <1>5. \A i \in 0..Len(p) : CountedTo(F, p, i)
    BY <1>4
  <1>6. \A i \in 1..Len(p) : Counts(F, p, i)
    <2> SUFFICES ASSUME NEW i \in 1..Len(p) PROVE Counts(F, p, i)
      OBVIOUS
    <2>1. i - 1 \in 0..Len(p)
      BY <1>2
    <2> QED BY <1>1, <1>5, <2>1, CountedStep
  <1>7. Numbering(F, p)
    BY <1>1, <1>5, <1>6 DEF Numbering, Walks
  <1> QED BY <1>7

\* Induction over an interval, upwards and downwards, for a set of numbers.
LEMMA Upwards ==
  ASSUME NEW a \in Nat, NEW n \in Nat, NEW T, a \in T,
         \A i \in a..n : i # n /\ i \in T => i + 1 \in T
  PROVE  \A i \in a..n : i \in T
  <1> DEFINE U == {i \in a..n : i \notin T}
  <1> SUFFICES ASSUME U # {} PROVE FALSE
    OBVIOUS
  <1>1. PICK i \in U : \A y \in U : i <= y
    <2>1. U \subseteq Nat
      OBVIOUS
    <2> HIDE DEF U
    <2> QED BY <2>1, LeastNumber
  <1>2. i \in a..n /\ i \notin T /\ i # a
    OBVIOUS
  <1>3. i - 1 \in a..n /\ i - 1 # n /\ ~(i <= i - 1) /\ (i - 1) + 1 = i
    BY <1>2
  <1>4. i - 1 \in T
    BY <1>1, <1>3
  <1> QED BY <1>2, <1>3, <1>4

LEMMA Downwards ==
  ASSUME NEW a \in Nat, NEW n \in Nat, NEW T, n \in T,
         \A i \in a..n : i # n /\ i + 1 \in T => i \in T
  PROVE  \A i \in a..n : i \in T
  <1> DEFINE U == {k \in Nat : a <= n - k /\ n - k \notin T}
  <1> SUFFICES ASSUME NEW j \in a..n, j \notin T PROVE FALSE
    OBVIOUS
  <1>1. n - j \in U
    <2>1. n - j \in Nat /\ n - (n - j) = j
      OBVIOUS
    <2> QED BY <2>1
  <1>2. PICK k \in U : \A y \in U : k <= y
    <2>1. U \subseteq Nat /\ U # {}
      BY <1>1
    <2> HIDE DEF U
    <2> QED BY <2>1, LeastNumber
  <1>3. k \in Nat /\ a <= n - k /\ n - k \notin T /\ k # 0
    BY <1>2
  <1>4. k - 1 \in Nat /\ ~(k <= k - 1) /\ a <= n - (k - 1) /\ n - (k - 1) = (n - k) + 1
    BY <1>3
  <1>5. (n - k) + 1 \in T
    BY <1>2, <1>4
  <1>6. n - k \in a..n /\ n - k # n
    BY <1>3
  <1> QED BY <1>3, <1>5, <1>6

LEMMA GroupsKept ==
  ASSUME NEW p, IsPattern(p), IsUsual(p), NEW F, Numbering(F, p), NEW g \in Groups(p)
  PROVE  /\ g \in 1..Len(p) /\ p[g] = "(" /\ F[g - 1].done < g
         /\ Numbered(p, g, F[g - 1], F[g]) /\ F[g].group = F[g - 1].group + 1
  <1>1. g \in 1..Len(p) /\ Len(p) \in Nat
    BY LettersType DEF Groups, NamedGroups, Plain
  <1>2. p[g] = "("
    BY <1>1, GroupBegins DEF Groups, NamedGroups
  <1>3. g - 1 \in 0..Len(p) /\ (g - 1) + 1 = g
    BY <1>1
  <1>4. CountedTo(F, p, g - 1)
    BY <1>3 DEF Numbering
  <1>5. F[g - 1].done \in Nat /\ \A k \in g..F[g - 1].done : p[k] # "("
    BY <1>3, <1>4 DEF CountedTo, States
  <1>6. ~(g <= F[g - 1].done)
    BY <1>1, <1>2, <1>5
  <1>7. Numbered(p, g, F[g - 1], F[g])
    BY <1>1, <1>6 DEF Numbering, Counts
  <1> QED BY <1>1, <1>2, <1>5, <1>6, <1>7 DEF Numbered

LEMMA NumberType ==
  ASSUME NEW p, IsPattern(p), NEW F, Numbering(F, p), NEW i \in 0..Len(p)
  PROVE  /\ F[i].out \in Seq(LettersOf(p)) /\ Len(F[i].out) \in Nat /\ F[i].group \in Nat
         /\ F[i].done \in 0..Len(p) /\ F[i].escaped \in BOOLEAN
         /\ F[i].captures \in Seq(Seq(LettersOf(p)) \X Nat)
  <1>1. CountedTo(F, p, i) /\ Len(p) \in Nat
    BY LettersType DEF Numbering
  <1> QED BY <1>1 DEF CountedTo, States

LEMMA GroupsRise ==
  ASSUME NEW p, IsPattern(p), IsUsual(p), NEW F, Numbering(F, p), NEW a \in 0..Len(p), NEW b \in a..Len(p)
  PROVE  F[a].group <= F[b].group
  <1> DEFINE T == {k \in 0..Len(p) : F[a].group <= F[k].group}
  <1>0. Len(p) \in Nat /\ a \in Nat
    BY LettersType
  <1>1. Len(p) \in Nat /\ F[a].group \in Nat
    BY <1>0, NumberType
  <1>2. ASSUME NEW k \in a..Len(p), k # Len(p), k \in T PROVE k + 1 \in T
    <2>1. k + 1 \in 1..Len(p) /\ (k + 1) - 1 = k /\ k \in 0..Len(p) /\ k + 1 \in 0..Len(p)
      BY <1>1, <1>2
    <2>2. Counts(F, p, k + 1)
      BY <2>1 DEF Numbering
    <2>3. F[k].group \in Nat
      BY <2>1, NumberType
    <2>4. F[k].group <= F[k + 1].group
      <3>1. PICK w : w = F[k]
        OBVIOUS
      <3>2. PICK x : x = F[k + 1]
        OBVIOUS
      <3>3. x = w \/ Numbered(p, k + 1, w, x)
        BY <2>1, <2>2, <3>1, <3>2 DEF Counts
      <3>4. x.group = w.group \/ x.group = w.group + 0 \/ x.group = w.group + 1
        BY <3>3 DEF Numbered
      <3> QED BY <2>3, <3>1, <3>2, <3>4
    <2>5. F[k + 1].group \in Nat
      BY <2>1, NumberType
    <2> QED BY <1>1, <1>2, <2>1, <2>3, <2>4, <2>5
  <1>3. a \in T
    BY <1>1
  <1> HIDE DEF T
  <1>4. \A k \in a..Len(p) : k \in T
    BY <1>0, <1>2, <1>3, Upwards
  <1> QED BY <1>4 DEF T

LEMMA SkipsStay ==
  ASSUME NEW p, IsPattern(p), NEW F, Numbering(F, p), NEW i \in 0..Len(p), NEW k \in i..F[i].done
  PROVE  F[k] = F[i]
  <1> DEFINE T == {j \in 0..Len(p) : F[j] = F[i]}
             e == F[i].done
  <1>0. Len(p) \in Nat /\ i \in Nat
    BY LettersType
  <1>1. e \in Nat /\ e <= Len(p) /\ Len(p) \in Nat /\ i \in Nat
    <2>1. F[i].done \in 0..Len(p)
      BY NumberType
    <2> QED BY <1>0, <2>1
  <1>2. ASSUME NEW j \in i..e, j # e, j \in T PROVE j + 1 \in T
    <2>1. j + 1 \in 1..Len(p) /\ j + 1 \in 0..Len(p) /\ (j + 1) - 1 = j /\ j + 1 <= e
      BY <1>1, <1>2
    <2>2. Counts(F, p, j + 1) /\ F[j] = F[i]
      BY <1>2, <2>1 DEF Numbering
    <2> QED BY <2>1, <2>2 DEF Counts
  <1>3. i \in T
    OBVIOUS
  <1> HIDE DEF T, e
  <1>4. \A j \in i..e : j \in T
    BY <1>1, <1>2, <1>3, Upwards
  <1> QED BY <1>4 DEF T, e

\* What is out stays out.
LEMMA OutStays ==
  ASSUME NEW p, IsPattern(p), NEW F, Numbering(F, p), NEW i \in 0..Len(p)
  PROVE  LET q == F[Len(p)].out IN
         Len(F[i].out) <= Len(q) /\ \A j \in 1..Len(F[i].out) : q[j] = F[i].out[j]
  <1> DEFINE q == F[Len(p)].out
             T == {k \in 0..Len(p) : Len(F[k].out) <= Len(q) /\ \A j \in 1..Len(F[k].out) : q[j] = F[k].out[j]}
  <1>1. Len(p) \in Nat /\ Len(p) \in 0..Len(p)
    BY LettersType
  <1>2. Len(q) \in Nat
    BY <1>1, NumberType
  <1>3. Len(p) \in T
    BY <1>1, <1>2
  <1>4. ASSUME NEW k \in 0..Len(p), k # Len(p), k + 1 \in T PROVE k \in T
    <2>1. k + 1 \in 1..Len(p) /\ (k + 1) - 1 = k
      BY <1>1, <1>4
    <2>2. Counts(F, p, k + 1)
      BY <2>1 DEF Numbering
    <2>3. PICK o : o = F[k].out
      OBVIOUS
    <2>4. PICK r : r = F[k + 1].out
      OBVIOUS
    <2>5. o \in Seq(LettersOf(p)) /\ Len(o) \in Nat
      BY <2>3, NumberType
    <2>6. r = o \/ r = Append(o, p[k + 1])
      BY <2>1, <2>2, <2>3, <2>4 DEF Counts, Numbered
    <2>7. Len(r) <= Len(q) /\ \A j \in 1..Len(r) : q[j] = r[j]
      BY <1>4, <2>4
    <2> HIDE DEF q
    <2>8. Len(o) <= Len(r) /\ Len(r) \in Nat /\ \A j \in 1..Len(o) : r[j] = o[j]
      BY <2>5, <2>6
    <2>9. Len(o) <= Len(q) /\ \A j \in 1..Len(o) : q[j] = o[j]
      BY <1>2, <2>5, <2>7, <2>8
    <2> QED BY <2>3, <2>9
  <1> HIDE DEF T, q
  <1>5. \A k \in 0..Len(p) : k \in T
    BY <1>1, <1>3, <1>4, Downwards
  <1> QED BY <1>5 DEF T, q

\* The next character that goes out.
NextKept(w, i) == IF w.done > i THEN w.done + 1 ELSE i + 1

LEMMA NextOut ==
  ASSUME NEW p, IsPattern(p), NEW F, Numbering(F, p), NEW i \in 0..Len(p), NEW m, m = NextKept(F[i], i),
         NEW q, q = F[Len(p)].out
  PROVE  /\ m \in (i + 1)..(Len(p) + 1) /\ F[m - 1] = F[i]
         /\ m <= Len(p) => Len(F[i].out) + 1 <= Len(q) /\ q[Len(F[i].out) + 1] = p[m]
         /\ m = Len(p) + 1 => Len(F[i].out) = Len(q)
  <1>0. Len(p) \in Nat /\ i \in Nat
    BY LettersType
  <1>1. Len(p) \in Nat /\ F[i].done \in 0..Len(p) /\ i \in Nat
    BY <1>0, NumberType
  <1>2. m \in (i + 1)..(Len(p) + 1) /\ m - 1 \in 0..Len(p) /\ F[i].done <= m - 1
    BY <1>1 DEF NextKept
  <1>3. F[m - 1] = F[i]
    <2>1. CASE F[i].done > i
      <3>1. m - 1 \in i..F[i].done
        BY <1>1, <2>1 DEF NextKept
      <3> QED BY <3>1, SkipsStay
    <2>2. CASE ~(F[i].done > i)
      BY <1>1, <2>2 DEF NextKept
    <2> QED BY <2>1, <2>2
  <1>4. ASSUME m <= Len(p) PROVE Len(F[i].out) + 1 <= Len(q) /\ q[Len(F[i].out) + 1] = p[m]
    <2>1. m \in 1..Len(p) /\ ~(m <= F[m - 1].done) /\ m \in 0..Len(p)
      BY <1>1, <1>2, <1>3, <1>4
    <2>2. F[m].out = Append(F[i].out, p[m])
      BY <1>3, <2>1 DEF Numbering, Counts, Numbered
    <2>3. Len(F[m].out) <= Len(q) /\ \A j \in 1..Len(F[m].out) : q[j] = F[m].out[j]
      BY <2>1, OutStays
    <2>4. F[i].out \in Seq(LettersOf(p)) /\ Len(F[i].out) \in Nat
      BY NumberType
    <2>5. PICK r : r = F[m].out
      OBVIOUS
    <2>6. PICK l \in Nat : l = Len(F[i].out)
      BY <2>4
    <2>7. Len(r) = l + 1 /\ r[l + 1] = p[m]
      BY <2>2, <2>4, <2>5, <2>6
    <2>8. l + 1 \in 1..Len(r)
      BY <2>7
    <2>9. l + 1 <= Len(q) /\ q[l + 1] = r[l + 1]
      BY <2>3, <2>5, <2>7, <2>8
    <2> QED BY <2>6, <2>7, <2>9
  <1>5. m = Len(p) + 1 => Len(F[i].out) = Len(q)
    <2>1. m = Len(p) + 1 => m - 1 = Len(p)
      BY <1>1
    <2> QED BY <1>3, <2>1
  <1> QED BY <1>2, <1>3, <1>4, <1>5

\* What the list of captures says of the named groups up to i.
GroupsTo(p, i) == {j \in NamedGroups(p) : j <= i}
CaptureIs(F, p, c, entry) ==
  \E g \in NamedGroups(p) :
    /\ entry = <<SubSeq(p, g + 3, NameEnd(p, g) - 1), F[g - 1].group + 1>>
    /\ Cardinality({j \in NamedGroups(p) : j < g}) = c - 1
Listed(F, p, i) ==
  /\ Len(F[i].captures) = Cardinality(GroupsTo(p, i))
  /\ \A c \in 1..Len(F[i].captures) : CaptureIs(F, p, c, F[i].captures[c])

LEMMA GroupsFinite ==
  ASSUME NEW p, IsPattern(p), NEW i
  PROVE  IsFiniteSet(GroupsTo(p, i)) /\ Cardinality(GroupsTo(p, i)) \in Nat
  <1>1. Len(p) \in Nat /\ DOMAIN p = 1..Len(p)
    BY LettersType
  <1>2. IsFiniteSet(1..Len(p))
    BY <1>1, FS_Interval
  <1>3. GroupsTo(p, i) \subseteq 1..Len(p)
    BY <1>1 DEF GroupsTo, NamedGroups, Plain
  <1>4. IsFiniteSet(GroupsTo(p, i))
    BY <1>2, <1>3, FS_Subset
  <1> QED BY <1>4, FS_CardinalityType

LEMMA ListedNext ==
  ASSUME NEW p, IsPattern(p), IsUsual(p), NEW F, Numbering(F, p), NEW i \in 1..Len(p), Listed(F, p, i - 1)
  PROVE  Listed(F, p, i)
  <1>1. Len(p) \in Nat /\ i - 1 \in 0..Len(p) /\ i \in 0..Len(p) /\ NamedGroups(p) \subseteq 1..Len(p)
    <2>1. Len(p) \in Nat /\ DOMAIN p = 1..Len(p)
      BY LettersType
    <2>2. NamedGroups(p) \subseteq 1..Len(p)
      BY <2>1 DEF NamedGroups, Plain
    <2> QED BY <2>1, <2>2
  <1>2. CASE i \in NamedGroups(p)
    <2>1. Numbered(p, i, F[i - 1], F[i])
      BY <1>2, GroupsKept DEF Groups
    <2>2. PICK cs : cs = F[i - 1].captures
      OBVIOUS
    <2>3. PICK e : e = <<SubSeq(p, i + 3, NameEnd(p, i) - 1), F[i - 1].group + 1>>
      OBVIOUS
    <2>4. F[i].captures = Append(cs, e)
      BY <1>2, <2>1, <2>2, <2>3 DEF Numbered
    <2>5. cs \in Seq(Seq(LettersOf(p)) \X Nat)
      BY <1>1, <2>2, NumberType
    <2>6. GroupsTo(p, i) = GroupsTo(p, i - 1) \cup {i} /\ i \notin GroupsTo(p, i - 1)
          /\ {j \in NamedGroups(p) : j < i} = GroupsTo(p, i - 1)
      BY <1>1, <1>2 DEF GroupsTo
    <2>7. Cardinality(GroupsTo(p, i)) = Cardinality(GroupsTo(p, i - 1)) + 1
      <3>1. PICK G : G = GroupsTo(p, i - 1)
        OBVIOUS
      <3>2. IsFiniteSet(G) /\ i \notin G
        BY <2>6, <3>1, GroupsFinite
      <3>3. Cardinality(G \cup {i}) = Cardinality(G) + 1
        BY <3>2, FS_AddElement
      <3> QED BY <2>6, <3>1, <3>3
    <2>8. Len(cs) = Cardinality(GroupsTo(p, i - 1)) /\ Len(cs) \in Nat
          /\ \A c \in 1..Len(cs) : CaptureIs(F, p, c, cs[c])
      BY <2>2, <2>5 DEF Listed
    <2>9. PICK n \in Nat : n = Len(cs)
      BY <2>8
    <2>10. CaptureIs(F, p, n + 1, e)
      <3>1. Cardinality({j \in NamedGroups(p) : j < i}) = (n + 1) - 1
        <4>1. Cardinality({j \in NamedGroups(p) : j < i}) = Cardinality(GroupsTo(p, i - 1))
          BY <2>6
        <4>2. (n + 1) - 1 = n
          OBVIOUS
        <4> QED BY <2>8, <2>9, <4>1, <4>2
      <3> QED BY <1>2, <2>3, <3>1 DEF CaptureIs
    <2>11. PICK ds : ds = Append(cs, e)
      OBVIOUS
    <2>12. Len(ds) = n + 1 /\ ds[n + 1] = e /\ \A c \in 1..n : ds[c] = cs[c]
      BY <2>5, <2>9, <2>11
    <2>13. \A c \in 1..(n + 1) : c = n + 1 \/ c \in 1..n
      OBVIOUS
    <2>14. \A c \in 1..Len(ds) : CaptureIs(F, p, c, ds[c])
      BY <2>8, <2>9, <2>10, <2>12, <2>13
    <2>15. Len(ds) = Cardinality(GroupsTo(p, i))
      BY <2>7, <2>8, <2>9, <2>12
    <2> QED BY <2>4, <2>11, <2>14, <2>15 DEF Listed
  <1>3. CASE i \notin NamedGroups(p)
    <2>1. F[i].captures = F[i - 1].captures
      BY <1>3 DEF Numbering, Counts, Numbered
    <2>2. GroupsTo(p, i) = GroupsTo(p, i - 1)
      <3>1. \A j \in NamedGroups(p) : j <= i <=> j <= i - 1
        BY <1>1, <1>3
      <3> QED BY <3>1 DEF GroupsTo
    <2> QED BY <2>1, <2>2 DEF Listed
  <1> QED BY <1>2, <1>3

LEMMA CapturesListed ==
  ASSUME NEW p, IsPattern(p), IsUsual(p), NEW F, Numbering(F, p)
  PROVE  /\ Len(F[Len(p)].captures) = Cardinality(NamedGroups(p))
         /\ \A c \in DOMAIN F[Len(p)].captures : CaptureIs(F, p, c, F[Len(p)].captures[c])
  <1>1. Len(p) \in Nat /\ NamedGroups(p) \subseteq 1..Len(p)
    BY LettersType DEF NamedGroups, Plain
  <1> DEFINE T == {i \in 0..Len(p) : Listed(F, p, i)}
  <1>2. 0 \in T
    <2>1. GroupsTo(p, 0) = {}
      BY <1>1 DEF GroupsTo
    <2>2. F[0].captures = <<>>
      BY DEF Numbering, Walked
    <2>3. Cardinality({}) = 0
      BY FS_EmptySet
    <2>4. Listed(F, p, 0)
      BY <2>1, <2>2, <2>3 DEF Listed
    <2> QED BY <1>1, <2>4
  <1>3. ASSUME NEW i \in 0..Len(p), i # Len(p), i \in T PROVE i + 1 \in T
    <2>1. i + 1 \in 1..Len(p) /\ (i + 1) - 1 = i /\ i + 1 \in 0..Len(p)
      BY <1>1, <1>3
    <2>2. Listed(F, p, i + 1)
      BY <1>3, <2>1, ListedNext
    <2> QED BY <2>1, <2>2
  <1> HIDE DEF T
  <1>4. \A i \in 0..Len(p) : i \in T
    BY <1>1, <1>2, <1>3, Upwards
  <1>5. Listed(F, p, Len(p)) /\ GroupsTo(p, Len(p)) = NamedGroups(p)
    BY <1>1, <1>4 DEF T, GroupsTo
  <1>6. PICK cs : cs = F[Len(p)].captures
    OBVIOUS
  <1>7. DOMAIN cs = 1..Len(cs)
    <2>1. Len(p) \in 0..Len(p)
      BY <1>1
    <2> QED BY <1>6, <2>1, NumberType
  <1> QED BY <1>5, <1>6, <1>7 DEF Listed

---------------------------------------------------------------------------
(* A pattern with one group that captures                                   *)

\* What a character of p becomes when the group at g is the one that captures.
Part(p, g, i) ==
  IF i \notin Groups(p) THEN <<p[i]>> ELSE IF i = g THEN <<"(">> ELSE <<"(", "?", ":">>
After(p, i) == IF i \in NamedGroups(p) THEN NameEnd(p, i) + 1 ELSE i + 1

\* G is the function Only computes with, from m on.
IsOnly(G, p, g, m) ==
  G = [i \in m..(Len(p) + 1) |->
        IF i > Len(p) THEN <<>>
        ELSE IF i \notin Groups(p) THEN <<p[i]>> \o G[i + 1]
        ELSE (IF i = g THEN <<"(">> ELSE <<"(", "?", ":">>)
             \o G[IF i \in NamedGroups(p) THEN NameEnd(p, i) + 1 ELSE i + 1]]

OnlyAt(G, p, g, i) == IF i > Len(p) THEN <<>> ELSE Part(p, g, i) \o G[After(p, i)]

LEMMA AfterType ==
  ASSUME NEW p, IsPattern(p), IsUsual(p), NEW i \in 1..Len(p)
  PROVE  After(p, i) \in (i + 1)..(Len(p) + 1) /\ (i \notin Groups(p) => After(p, i) = i + 1)
  <1>1. Len(p) \in Nat
    BY LettersType
  <1>2. i \in NamedGroups(p) => NameEnd(p, i) \in (i + 3)..Len(p)
    BY UsualEnd
  <1> QED BY <1>1, <1>2 DEF After, Groups

LEMMA IsOnlyAt ==
  ASSUME NEW p, IsPattern(p), IsUsual(p), NEW g, NEW m \in 1..(Len(p) + 1), NEW G
  PROVE  IsOnly(G, p, g, m) <=> G = [i \in m..(Len(p) + 1) |-> OnlyAt(G, p, g, i)]
  <1>1. Len(p) \in Nat
    BY LettersType
  <1>2. ASSUME NEW i \in m..(Len(p) + 1)
        PROVE  OnlyAt(G, p, g, i) =
                 IF i > Len(p) THEN <<>>
                 ELSE IF i \notin Groups(p) THEN <<p[i]>> \o G[i + 1]
                 ELSE (IF i = g THEN <<"(">> ELSE <<"(", "?", ":">>)
                      \o G[IF i \in NamedGroups(p) THEN NameEnd(p, i) + 1 ELSE i + 1]
    <2>1. i > Len(p) \/ i \in 1..Len(p)
      BY <1>1
    <2>2. i \in 1..Len(p) /\ i \notin Groups(p) => After(p, i) = i + 1
      BY AfterType
    <2> QED BY <1>1, <2>1, <2>2 DEF OnlyAt, Part, After
  <1> QED BY <1>2 DEF IsOnly

LEMMA IsOnlyGives ==
  ASSUME NEW p, IsPattern(p), IsUsual(p), NEW g, NEW m \in 1..(Len(p) + 1), NEW G, IsOnly(G, p, g, m)
  PROVE  DOMAIN G = m..(Len(p) + 1) /\ \A i \in m..(Len(p) + 1) : G[i] = OnlyAt(G, p, g, i)
  <1>1. G = [i \in m..(Len(p) + 1) |-> OnlyAt(G, p, g, i)]
    BY IsOnlyAt
  <1> QED BY <1>1

LEMMA OnlyExists ==
  ASSUME NEW p, IsPattern(p), IsUsual(p), NEW g
  PROVE  \A m \in 1..(Len(p) + 1) : \E G : IsOnly(G, p, g, m)
  <1> DEFINE n == Len(p) + 1
             T == {m \in 1..n : \E G : IsOnly(G, p, g, m)}
  <1>1. n \in Nat /\ 1 \in Nat /\ Len(p) \in Nat
    BY LettersType
  <1>2. n \in T
    <2> DEFINE G == [i \in n..n |-> <<>>]
    <2>1. \A i \in n..n : i > Len(p)
      BY <1>1
    <2>2. G = [i \in n..n |-> OnlyAt(G, p, g, i)]
      <3>1. \A i \in n..n : OnlyAt(G, p, g, i) = <<>>
        BY <2>1 DEF OnlyAt
      <3> QED BY <3>1
    <2>3. n \in 1..n
      BY <1>1
    <2> HIDE DEF G
    <2>4. IsOnly(G, p, g, n)
      BY <2>2, <2>3, IsOnlyAt
    <2> QED BY <2>3, <2>4
  <1>3. ASSUME NEW m \in 1..n, m # n, m + 1 \in T PROVE m \in T
    <2>1. m + 1 \in 1..(Len(p) + 1)
      BY <1>1, <1>3
    <2>2. PICK G : IsOnly(G, p, g, m + 1)
      BY <1>3
    <2>3. \A i \in (m + 1)..n : G[i] = OnlyAt(G, p, g, i)
      <3>1. PICK l \in 1..(Len(p) + 1) : l = m + 1
        BY <2>1
      <3>2. IsOnly(G, p, g, l)
        BY <2>2, <3>1
      <3>3. \A i \in l..(Len(p) + 1) : G[i] = OnlyAt(G, p, g, i)
        BY <3>2, IsOnlyGives
      <3> QED BY <3>1, <3>3
    <2> DEFINE H == [i \in m..n |-> OnlyAt(G, p, g, i)]
    <2>4. \A i \in (m + 1)..n : i \in m..n
      BY <1>1
    <2>5. \A i \in (m + 1)..n : H[i] = G[i]
      BY <2>3, <2>4
    <2>6. ASSUME NEW i \in m..n PROVE OnlyAt(H, p, g, i) = OnlyAt(G, p, g, i)
      <3>1. CASE i > Len(p)
        BY <3>1 DEF OnlyAt
      <3>2. CASE ~(i > Len(p))
        <4>1. i \in 1..Len(p)
          BY <1>1, <3>2
        <4>2. After(p, i) \in (m + 1)..n
          BY <1>1, <4>1, AfterType
        <4> HIDE DEF H
        <4> QED BY <2>5, <4>2 DEF OnlyAt
      <3> QED BY <3>1, <3>2
    <2>7. H = [i \in m..n |-> OnlyAt(H, p, g, i)]
      BY <2>6
    <2> HIDE DEF H
    <2>8. IsOnly(H, p, g, m)
      BY <2>7, IsOnlyAt
    <2> QED BY <2>8
  <1> HIDE DEF T, n
  <1>4. \A m \in 1..n : m \in T
    BY <1>1, <1>2, <1>3, Downwards
  <1> QED BY <1>4 DEF T, n

OnlyWalk(G, p, g) ==
  /\ Only(p, g) = G[1] /\ G[Len(p) + 1] = <<>>
  /\ \A i \in 1..Len(p) : G[i] = Part(p, g, i) \o G[After(p, i)]
  /\ \A i \in 1..(Len(p) + 1) : G[i] \in Seq(LettersOf(p))

LEMMA PartType ==
  ASSUME NEW p, IsPattern(p), NEW g, NEW i \in 1..Len(p) PROVE Part(p, g, i) \in Seq(LettersOf(p))
  <1>1. p[i] \in LettersOf(p)
    BY LettersType
  <1>2. "(" \in LettersOf(p) /\ "?" \in LettersOf(p) /\ ":" \in LettersOf(p)
    BY DEF LettersOf
  <1> QED BY <1>1, <1>2 DEF Part

LEMMA OnlyIs ==
  ASSUME NEW p, IsPattern(p), IsUsual(p), NEW g PROVE \E G : OnlyWalk(G, p, g)
  <1> DEFINE n == Len(p) + 1
             G == CHOOSE G : IsOnly(G, p, g, 1)
             T == {i \in 1..n : G[i] \in Seq(LettersOf(p))}
  <1>1. n \in Nat /\ 1 \in 1..n /\ Len(p) \in Nat
    BY LettersType
  <1>2. IsOnly(G, p, g, 1)
    BY <1>1, OnlyExists
  <1>3. Only(p, g) = G[1]
    BY DEF Only, IsOnly
  <1> HIDE DEF G
  <1>4. G = [i \in 1..n |-> OnlyAt(G, p, g, i)]
    BY <1>1, <1>2, IsOnlyAt
  <1>5. G[n] = <<>>
    <2>1. n \in 1..n /\ n > Len(p)
      BY <1>1
    <2>2. G[n] = OnlyAt(G, p, g, n)
      BY <1>4, <2>1
    <2> QED BY <2>1, <2>2 DEF OnlyAt
  <1>6. ASSUME NEW i \in 1..Len(p) PROVE G[i] = Part(p, g, i) \o G[After(p, i)]
    <2>1. i \in 1..n /\ ~(i > Len(p))
      BY <1>1
    <2>2. G[i] = OnlyAt(G, p, g, i)
      BY <1>4, <2>1
    <2> QED BY <2>1, <2>2 DEF OnlyAt
  <1>7. \A i \in 1..n : G[i] \in Seq(LettersOf(p))
    <2> SUFFICES ASSUME NEW i \in 1..n, G[i] \notin Seq(LettersOf(p)) PROVE FALSE
      OBVIOUS
    <2> DEFINE U == {k \in Nat : n - k \in 1..n /\ G[n - k] \notin Seq(LettersOf(p))}
    <2>1. n - i \in U
      <3>1. n - i \in Nat /\ n - (n - i) = i
        BY <1>1
      <3> QED BY <3>1
    <2>2. PICK k \in U : \A y \in U : k <= y
      <3>1. U \subseteq Nat /\ U # {}
        BY <2>1
      <3> HIDE DEF U
      <3> QED BY <3>1, LeastNumber
    <2>3. k \in Nat /\ n - k \in 1..n /\ G[n - k] \notin Seq(LettersOf(p))
      OBVIOUS
    <2>4. PICK j \in 1..n : j = n - k
      BY <2>3
    <2>5. j # n
      <3>1. <<>> \in Seq(LettersOf(p))
        OBVIOUS
      <3> QED BY <1>5, <2>3, <2>4, <3>1
    <2>6. j \in 1..Len(p)
      BY <1>1, <2>5
    <2>7. PICK a : a = After(p, j)
      OBVIOUS
    <2>8. a \in (j + 1)..n
      BY <2>6, <2>7, AfterType
    <2>9. n - a \in Nat /\ ~(k <= n - a) /\ n - (n - a) = a /\ a \in 1..n
      BY <1>1, <2>3, <2>4, <2>8
    <2>10. G[a] \in Seq(LettersOf(p))
      BY <2>2, <2>9
    <2>11. G[j] = Part(p, g, j) \o G[a] /\ Part(p, g, j) \in Seq(LettersOf(p))
      BY <1>6, <2>6, <2>7, PartType
    <2>12. G[j] \in Seq(LettersOf(p))
      BY <2>10, <2>11
    <2> QED BY <2>3, <2>4, <2>12
  <1>8. OnlyWalk(G, p, g)
    BY <1>3, <1>5, <1>6, <1>7 DEF OnlyWalk
  <1> QED BY <1>8

---------------------------------------------------------------------------
(* The engine's walk over the numbered filter                               *)

LEMMA SameLetters ==
  ASSUME NEW S, NEW r \in Seq(S), NEW s \in Seq(S), Len(r) = Len(s), \A k \in 1..Len(s) : r[k] = s[k]
  PROVE  r = s
  OBVIOUS

\* What stands at a place of a text.
LEMMA SliceThere ==
  ASSUME NEW S, NEW q \in Seq(S), NEW i \in 1..Len(q), NEW s \in Seq(S), Len(s) # 0
  PROVE  StartsWith(q, i, s) <=>
           i + Len(s) <= Len(q) + 1 /\ \A k \in 1..Len(s) : q[(i - 1) + k] = s[k]
  <1>1. PICK n \in Nat : n = Len(s)
    OBVIOUS
  <1>2. Len(q) \in Nat /\ n # 0
    BY <1>1
  <1>3. CASE i + n <= Len(q) + 1
    <2>1. PICK a \in Nat : a = i - 1
      OBVIOUS
    <2>2. PICK b \in Nat : b = i + n - 1
      BY <1>2
    <2>3. a <= b /\ b <= Len(q) /\ b - a = n /\ a + 1 = i
      BY <1>2, <1>3, <2>1, <2>2
    <2>4. PICK r : r = SubSeq(q, i, b)
      OBVIOUS
    <2>5. r \in Seq(S) /\ Len(r) = n /\ \A k \in 1..n : r[k] = q[a + k]
      <3>1. /\ SubSeq(q, a + 1, b) \in Seq(S) /\ Len(SubSeq(q, a + 1, b)) = b - a
            /\ \A k \in 1..(b - a) : SubSeq(q, a + 1, b)[k] = q[a + k]
        BY <2>3, SliceOfText
      <3> QED BY <2>3, <2>4, <3>1
    <2>6. r = s <=> \A k \in 1..n : r[k] = s[k]
      <3>1. ASSUME \A k \in 1..n : r[k] = s[k] PROVE r = s
        BY <1>1, <2>5, <3>1, SameLetters
      <3> QED BY <3>1
    <2>7. StartsWith(q, i, s) <=> r = s
      BY <1>1, <1>3, <2>2, <2>4 DEF StartsWith
    <2>8. r = s <=> \A k \in 1..n : q[(i - 1) + k] = s[k]
      BY <2>1, <2>5, <2>6
    <2> QED BY <1>1, <1>3, <2>7, <2>8
  <1>4. CASE ~(i + n <= Len(q) + 1)
    BY <1>1, <1>4 DEF StartsWith
  <1> QED BY <1>3, <1>4

LEMMA OneThere ==
  ASSUME NEW S, NEW q \in Seq(S), NEW i \in 1..Len(q)
  PROVE  StartsWith(q, i, <<"(">>) <=> q[i] = "("
  <1>1. PICK s : s = <<"(">>
    OBVIOUS
  <1>2. PICK V : V = S \cup {"("}
    OBVIOUS
  <1>3. Len(s) = 1 /\ s[1] = "(" /\ s \in Seq(V) /\ q \in Seq(V)
    BY <1>1, <1>2
  <1>4. StartsWith(q, i, s) <=> i + 1 <= Len(q) + 1 /\ \A k \in 1..1 : q[(i - 1) + k] = s[k]
    <2>1. s \in Seq(V) /\ q \in Seq(V) /\ Len(s) # 0
      BY <1>3
    <2>2. StartsWith(q, i, s) <=> i + Len(s) <= Len(q) + 1 /\ \A k \in 1..Len(s) : q[(i - 1) + k] = s[k]
      BY <2>1, SliceThere
    <2>3. Len(s) = 1
      BY <1>3
    <2> QED BY <2>2, <2>3
  <1>5. Len(q) \in Nat /\ i + 1 <= Len(q) + 1 /\ (i - 1) + 1 = i /\ 1..1 = {1}
    OBVIOUS
  <1>6. StartsWith(q, i, s) <=> q[i] = "("
    BY <1>3, <1>4, <1>5
  <1> QED BY <1>1, <1>6

LEMMA TwoThere ==
  ASSUME NEW S, NEW q \in Seq(S), NEW i \in 1..Len(q)
  PROVE  StartsWith(q, i, <<"(", "?">>) <=> i + 1 <= Len(q) /\ q[i] = "(" /\ q[i + 1] = "?"
  <1>1. PICK s : s = <<"(", "?">>
    OBVIOUS
  <1>2. PICK V : V = S \cup {"(", "?"}
    OBVIOUS
  <1>3. Len(s) = 2 /\ s[1] = "(" /\ s[2] = "?" /\ s \in Seq(V) /\ q \in Seq(V)
    BY <1>1, <1>2
  <1>4. StartsWith(q, i, s) <=> i + 2 <= Len(q) + 1 /\ \A k \in 1..2 : q[(i - 1) + k] = s[k]
    <2>1. s \in Seq(V) /\ q \in Seq(V) /\ Len(s) # 0
      BY <1>3
    <2>2. StartsWith(q, i, s) <=> i + Len(s) <= Len(q) + 1 /\ \A k \in 1..Len(s) : q[(i - 1) + k] = s[k]
      BY <2>1, SliceThere
    <2>3. Len(s) = 2
      BY <1>3
    <2> QED BY <2>2, <2>3
  <1>5. Len(q) \in Nat /\ (i + 2 <= Len(q) + 1 <=> i + 1 <= Len(q)) /\ (i - 1) + 1 = i
        /\ (i - 1) + 2 = i + 1 /\ 1..2 = {1, 2}
    OBVIOUS
  <1>6. StartsWith(q, i, s) <=> i + 1 <= Len(q) /\ q[i] = "(" /\ q[i + 1] = "?"
    BY <1>3, <1>4, <1>5
  <1> QED BY <1>1, <1>6

LEMMA ThreeThere ==
  ASSUME NEW S, NEW q \in Seq(S), NEW i \in 1..Len(q)
  PROVE  StartsWith(q, i, <<"(", "?", "<">>) <=>
           i + 2 <= Len(q) /\ q[i] = "(" /\ q[i + 1] = "?" /\ q[i + 2] = "<"
  <1>1. PICK s : s = <<"(", "?", "<">>
    OBVIOUS
  <1>2. PICK V : V = S \cup {"(", "?", "<"}
    OBVIOUS
  <1>3. Len(s) = 3 /\ s[1] = "(" /\ s[2] = "?" /\ s[3] = "<" /\ s \in Seq(V) /\ q \in Seq(V)
    BY <1>1, <1>2
  <1>4. StartsWith(q, i, s) <=> i + 3 <= Len(q) + 1 /\ \A k \in 1..3 : q[(i - 1) + k] = s[k]
    <2>1. s \in Seq(V) /\ q \in Seq(V) /\ Len(s) # 0
      BY <1>3
    <2>2. StartsWith(q, i, s) <=> i + Len(s) <= Len(q) + 1 /\ \A k \in 1..Len(s) : q[(i - 1) + k] = s[k]
      BY <2>1, SliceThere
    <2>3. Len(s) = 3
      BY <1>3
    <2> QED BY <2>2, <2>3
  <1>5. Len(q) \in Nat /\ (i + 3 <= Len(q) + 1 <=> i + 2 <= Len(q)) /\ (i - 1) + 1 = i
        /\ (i - 1) + 2 = i + 1 /\ (i - 1) + 3 = i + 2 /\ 1..3 = {1, 2, 3}
    OBVIOUS
  <1>6. StartsWith(q, i, s) <=> i + 2 <= Len(q) /\ q[i] = "(" /\ q[i + 1] = "?" /\ q[i + 2] = "<"
    BY <1>3, <1>4, <1>5
  <1> QED BY <1>1, <1>6

\* A character of a text without names that a group of its own begins with.
BeginsGroup(w, q, i) == ~w.escaped /\ q[i] = "(" /\ ~(i + 1 <= Len(q) /\ q[i + 1] = "?")

\* What a step of the engine's walk does with the character at i.
Rewrote(q, i, c, w, x) ==
  /\ BeginsGroup(w, q, i) =>
       /\ x.group = w.group + 1 /\ x.escaped = FALSE
       /\ x.out = w.out \o (IF w.group + 1 = c THEN <<"(">> ELSE <<"(", "?", ":">>)
  /\ ~BeginsGroup(w, q, i) =>
       /\ x.group = w.group /\ x.escaped = (~w.escaped /\ q[i] = "\\")
       /\ x.out = Append(w.out, q[i])

\* A state of the engine's walk over a text without names and classes.
InText(S, w) == w \in States(S) /\ w.class = FALSE /\ w.fails = FALSE /\ w.done = 0

LEMMA RewroteStep ==
  ASSUME NEW S, {"(", "?", ":"} \subseteq S, NEW q \in Seq(S), NEW i \in 1..Len(q), NEW c \in Nat,
         q[i] # "[", NEW w, InText(S, w),
         ~w.escaped => ~StartsWith(q, i, <<"(", "?", "<">>),
         NEW x, x = RewrittenAt(w, q, i, c)
  PROVE  InText(S, x) /\ Rewrote(q, i, c, w, x)
  <1>p. PICK o \in Seq(S), g \in Nat, cs \in Seq(Seq(S) \X Nat), e \in BOOLEAN, d \in Nat, k \in BOOLEAN, f \in BOOLEAN :
          w = Walk7(o, g, cs, d, e, k, f)
    BY DEF InText, States, Walk7
  <1>r. w.out = o /\ w.group = g /\ w.captures = cs /\ w.done = d /\ w.escaped = e /\ w.class = FALSE
        /\ w.fails = FALSE /\ d = 0 /\ k = FALSE /\ f = FALSE
    BY <1>p DEF InText, Walk7
  <1>1. ~(i <= w.done) /\ q[i] \in S /\ "(" \in S /\ "?" \in S /\ ":" \in S
    BY <1>r
  <1>2. BeginsGroup(w, q, i) <=>
          ~w.escaped /\ StartsWith(q, i, <<"(">>) /\ ~StartsWith(q, i, <<"(", "?">>)
    BY OneThere, TwoThere DEF BeginsGroup
  <1>3. CASE BeginsGroup(w, q, i)
    <2>1. x = Opened(w, c)
      BY <1>1, <1>2, <1>3, <1>r DEF RewrittenAt
    <2>2. PICK t : t = IF g + 1 = c THEN <<"(">> ELSE <<"(", "?", ":">>
      OBVIOUS
    <2>3. t \in Seq(S)
      BY <1>1, <2>2
    <2>4. PICK r \in Seq(S) : r = o \o t
      BY <2>3, Appended
    <2>5. x = [w EXCEPT !.group = @ + 1, !.escaped = FALSE, !.out = @ \o t]
      BY <1>r, <2>1, <2>2 DEF Opened
    <2>6. x = Walk7(r, g + 1, cs, d, FALSE, k, f)
      BY <1>p, <2>4, <2>5 DEF Walk7
    <2>7. x \in States(S)
      BY <2>6 DEF States, Walk7
    <2>8. x.class = FALSE /\ x.fails = FALSE /\ x.done = 0 /\ x.group = g + 1 /\ x.escaped = FALSE /\ x.out = r
      BY <1>r, <2>6 DEF Walk7
    <2>9. Rewrote(q, i, c, w, x)
      BY <1>3, <1>r, <2>2, <2>4, <2>8 DEF Rewrote
    <2> QED BY <2>7, <2>8, <2>9 DEF InText
  <1>4. CASE ~BeginsGroup(w, q, i)
    <2>1. PICK v : v = Copied(w, q[i])
      OBVIOUS
    <2>2. PICK b \in BOOLEAN : b = (~e /\ q[i] = "\\")
      OBVIOUS
    <2>3. v = Walk7(Append(o, q[i]), g, cs, d, b, k, f)
      BY <1>p, <2>1, <2>2, CopiedIs
    <2>4. x = [v EXCEPT !.class = IF w.escaped THEN @ ELSE IF @ THEN q[i] # "]" ELSE q[i] = "["]
      <3>1. \/ w.escaped
            \/ ~StartsWith(q, i, <<"(", "?", "<">>) /\ (~StartsWith(q, i, <<"(">>) \/ StartsWith(q, i, <<"(", "?">>))
        BY <1>2, <1>4
      <3> QED BY <1>1, <1>r, <2>1, <3>1 DEF RewrittenAt
    <2>5. v.class = FALSE
      BY <1>r, <2>3 DEF Walk7
    <2>6. x = [v EXCEPT !.class = FALSE]
      BY <2>4, <2>5
    <2>7. x = Walk7(Append(o, q[i]), g, cs, d, b, FALSE, f)
      BY <2>3, <2>6 DEF Walk7
    <2>8. x \in States(S)
      BY <1>1, <2>7 DEF States, Walk7
    <2>9. x.class = FALSE /\ x.fails = FALSE /\ x.done = 0 /\ x.group = g /\ x.escaped = b /\ x.out = Append(o, q[i])
      BY <1>r, <2>7 DEF Walk7
    <2>10. Rewrote(q, i, c, w, x)
      BY <1>4, <1>r, <2>2, <2>9 DEF Rewrote
    <2> QED BY <2>8, <2>9, <2>10 DEF InText
  <1> QED BY <1>3, <1>4

\* R is the engine's walk over q for the group c, as far as m.
IsRewriting(R, q, c, m) ==
  R = [i \in 0..m |-> IF i = 0 THEN Walked ELSE RewrittenAt(R[i - 1], q, i, c)]

LEMMA RewritingsExist == \A q, c : \A m \in Nat : \E R : IsRewriting(R, q, c, m)
  <1> SUFFICES ASSUME NEW q, NEW c PROVE \A m \in Nat : \E R : IsRewriting(R, q, c, m)
    OBVIOUS
  <1> DEFINE T == {m \in Nat : \E R : IsRewriting(R, q, c, m)}
  <1>1. 0 \in T
    <2> DEFINE R == [i \in 0..0 |-> Walked]
    <2>1. IsRewriting(R, q, c, 0)
      BY DEF IsRewriting
    <2> QED BY <2>1
  <1>2. ASSUME NEW m \in Nat, m \in T PROVE m + 1 \in T
    <2>1. PICK F : IsRewriting(F, q, c, m)
      BY <1>2
    <2> DEFINE G == [i \in 0..(m + 1) |-> IF i = 0 THEN Walked ELSE RewrittenAt(F[i - 1], q, i, c)]
    <2>2. \A i \in 0..m : i \in 0..(m + 1)
      OBVIOUS
    <2>3. \A i \in 0..m : G[i] = F[i]
      BY <2>1, <2>2 DEF IsRewriting
    <2>4. \A i \in 0..(m + 1) : i # 0 => i - 1 \in 0..m
      OBVIOUS
    <2>5. IsRewriting(G, q, c, m + 1)
      BY <2>3, <2>4 DEF IsRewriting
    <2> QED BY <2>5
  <1> HIDE DEF T
  <1>3. ASSUME NEW n \in Nat PROVE n \in T
    <2>1. \A i \in 0..n : i \in Nat
      OBVIOUS
    <2>2. \A i \in 0..n : i \in T
      BY <1>1, <1>2, <2>1, Upwards
    <2> QED BY <2>2
  <1> QED BY <1>3 DEF T

Rewrites(R, q, c) ==
  /\ R[0] = Walked /\ \A i \in 1..Len(q) : R[i] = RewrittenAt(R[i - 1], q, i, c)
  /\ Rewritten(q, c) = [fails |-> R[Len(q)].fails \/ R[Len(q)].group < c, out |-> R[Len(q)].out]

LEMMA RewritingIs ==
  ASSUME NEW q, Len(q) \in Nat, NEW c \in Nat, c # 0 PROVE \E R : Rewrites(R, q, c)
  <1> DEFINE n == Len(q)
             R == CHOOSE F : IsRewriting(F, q, c, n)
  <1>1. IsRewriting(R, q, c, n)
    BY RewritingsExist
  <1>2. Rewritten(q, c) = [fails |-> R[n].fails \/ R[n].group < c, out |-> R[n].out]
    BY DEF Rewritten, IsRewriting
  <1> HIDE DEF R
  <1>3. R[0] = Walked /\ \A i \in 1..n : R[i] = RewrittenAt(R[i - 1], q, i, c)
    <2>1. 0 \in 0..n /\ \A i \in 1..n : i \in 0..n /\ i # 0
      OBVIOUS
    <2> HIDE DEF n
    <2> QED BY <1>1, <2>1 DEF IsRewriting
  <1> QED BY <1>2, <1>3 DEF Rewrites

LEMMA ConcatOnce ==
  ASSUME NEW S, NEW a \in Seq(S), NEW b \in Seq(S), NEW d \in Seq(S)
  PROVE  (a \o b) \o d = a \o (b \o d)
  <1> DEFINE l == (a \o b) \o d
             r == a \o (b \o d)
  <1>1. PICK x \in Seq(S) : x = a \o b
    BY Appended
  <1>2. PICK y \in Seq(S) : y = b \o d
    BY Appended
  <1>3. Len(x) = Len(a) + Len(b) /\ Len(y) = Len(b) + Len(d)
    BY <1>1, <1>2, Appended
  <1>4. l \in Seq(S) /\ Len(l) = Len(a) + Len(b) + Len(d)
    BY <1>1, <1>3, Appended
  <1>5. r \in Seq(S) /\ Len(r) = Len(a) + Len(b) + Len(d)
    BY <1>2, <1>3, Appended
  <1>6. ASSUME NEW k \in 1..(Len(a) + Len(b) + Len(d)) PROVE l[k] = r[k]
    <2>1. l[k] = IF k <= Len(a) THEN a[k] ELSE IF k <= Len(a) + Len(b) THEN b[k - Len(a)] ELSE d[k - Len(a) - Len(b)]
      BY <1>1, <1>3
    <2>2. r[k] = IF k <= Len(a) THEN a[k] ELSE IF k <= Len(a) + Len(b) THEN b[k - Len(a)] ELSE d[k - Len(a) - Len(b)]
      BY <1>2, <1>3
    <2> QED BY <2>1, <2>2
  <1> HIDE DEF l, r
  <1> QED BY <1>4, <1>5, <1>6 DEF l, r

LEMMA KeptType ==
  ASSUME NEW p, IsPattern(p), NEW F, Numbering(F, p), NEW i \in 0..Len(p)
  PROVE  /\ F[i].done \in Nat /\ F[i].done <= Len(p)
         /\ F[i].out \in Seq(LettersOf(p)) /\ Len(F[i].out) \in Nat
  <1>1. Len(p) \in Nat
    BY LettersType
  <1>2. F[i].done \in 0..Len(p) /\ F[i].out \in Seq(LettersOf(p)) /\ Len(F[i].out) \in Nat
    BY NumberType
  <1> QED BY <1>1, <1>2

\* What q has behind its first l characters is what p has at m.
Follows(p, q, l, m) ==
  /\ l \in Nat /\ Len(q) \in Nat
  /\ m <= Len(p) => l + 1 <= Len(q) /\ q[l + 1] = p[m]
  /\ m = Len(p) + 1 => l = Len(q)

LEMMA NextThere ==
  ASSUME NEW p, IsPattern(p), NEW F, Numbering(F, p), NEW i \in 0..Len(p)
  PROVE  Follows(p, F[Len(p)].out, Len(F[i].out), NextKept(F[i], i))
  <1>1. Len(p) \in 0..Len(p)
    <2>1. Len(p) \in Nat
      BY LettersType
    <2> QED BY <2>1
  <1>2. Len(F[i].out) \in Nat
    BY KeptType
  <1>3. Len(F[Len(p)].out) \in Nat
    BY <1>1, KeptType
  <1>4. PICK m : m = NextKept(F[i], i)
    OBVIOUS
  <1>5. PICK q : q = F[Len(p)].out
    OBVIOUS
  <1>6. /\ m \in (i + 1)..(Len(p) + 1)
        /\ m <= Len(p) => Len(F[i].out) + 1 <= Len(q) /\ q[Len(F[i].out) + 1] = p[m]
        /\ m = Len(p) + 1 => Len(F[i].out) = Len(q)
    BY <1>4, <1>5, NextOut
  <1> QED BY <1>2, <1>3, <1>4, <1>5, <1>6 DEF Follows

\* The loader and the engine see the same group begin.
LEMMA KeptNext ==
  ASSUME NEW p, IsPattern(p), IsUsual(p), NEW F, Numbering(F, p), NEW k \in 1..Len(p),
         ~(k <= F[k - 1].done), k \notin NamedGroups(p)
  PROVE  F[k].done <= k /\ ~(k + 1 <= F[k].done) /\ Len(F[k].out) = Len(F[k - 1].out) + 1
  <1>1. Len(p) \in Nat /\ k - 1 \in 0..Len(p) /\ k \in 0..Len(p)
    BY LettersType
  <1>2. F[k - 1].done \in Nat /\ F[k - 1].out \in Seq(LettersOf(p))
    BY <1>1, KeptType
  <1>3. Numbered(p, k, F[k - 1], F[k])
    BY DEF Numbering, Counts
  <1>4. F[k].done = F[k - 1].done /\ F[k].out = Append(F[k - 1].out, p[k])
    BY <1>3 DEF Numbered
  <1>5. PICK o \in Seq(LettersOf(p)) : o = F[k - 1].out
    BY <1>2
  <1>6. Len(Append(o, p[k])) = Len(o) + 1
    OBVIOUS
  <1> QED BY <1>1, <1>2, <1>4, <1>5, <1>6

Agree(p, k, w, q, j) ==
  /\ j + 1 \in 1..Len(q) /\ q[j + 1] = p[k]
  /\ ~w.escaped => ~(j + 3 <= Len(q) /\ q[j + 1] = "(" /\ q[j + 2] = "?" /\ q[j + 3] = "<")
  /\ k \in Groups(p) <=> ~w.escaped /\ q[j + 1] = "(" /\ ~(j + 2 <= Len(q) /\ q[j + 2] = "?")

LEMMA SameGroup ==
  ASSUME NEW p, IsPattern(p), IsUsual(p), NEW F, Numbering(F, p), NEW k \in 1..Len(p),
         ~(k <= F[k - 1].done)
  PROVE  Agree(p, k, F[k - 1], F[Len(p)].out, Len(F[k - 1].out))
  <1>q. PICK q : q = F[Len(p)].out
    OBVIOUS
  <1>j. PICK j : j = Len(F[k - 1].out)
    OBVIOUS
  <1> SUFFICES /\ j + 1 \in 1..Len(q) /\ q[j + 1] = p[k]
               /\ ~F[k - 1].escaped =>
                    ~(j + 3 <= Len(q) /\ q[j + 1] = "(" /\ q[j + 2] = "?" /\ q[j + 3] = "<")
               /\ k \in Groups(p) <=>
                    ~F[k - 1].escaped /\ q[j + 1] = "(" /\ ~(j + 2 <= Len(q) /\ q[j + 2] = "?")
    BY <1>q, <1>j DEF Agree
  <1> USE <1>q, <1>j
  <1>1. Len(p) \in Nat /\ k - 1 \in 0..Len(p) /\ k \in 0..Len(p) /\ Len(p) \in 0..Len(p)
        /\ p \in Seq(LettersOf(p))
    BY LettersType
  <1>w. PICK w : w = F[k - 1]
    OBVIOUS
  <1>x. PICK x : x = F[k]
    OBVIOUS
  <1>d. F[k - 1].done \in Nat /\ F[k - 1].done <= k - 1 /\ x.done \in Nat
    BY <1>1, <1>x, KeptType
  <1>3. j \in Nat /\ Len(q) \in Nat /\ j + 1 \in 1..Len(q) /\ q[j + 1] = p[k]
    <2>1. PICK h \in 0..Len(p) : h = k - 1
      BY <1>1
    <2>2. k = NextKept(w, h) /\ w = F[h] /\ j = Len(w.out)
      BY <1>d, <1>w, <2>1 DEF NextKept
    <2>3. Follows(p, q, j, k)
      <3>1. Follows(p, F[Len(p)].out, Len(F[h].out), NextKept(F[h], h))
        BY NextThere
      <3> QED BY <2>2, <3>1
    <2> QED BY <1>1, <2>3 DEF Follows
  <1>2. Len(q) \in Nat /\ j \in Nat
    BY <1>3
  <1>4. k \in Plain(p) <=> ~F[k - 1].escaped
    BY DEF Numbering, Counts
  <1>5. Numbered(p, k, F[k - 1], F[k])
    BY DEF Numbering, Counts
  <1>6. CASE k \in NamedGroups(p)
    <2>1. PICK e : e = NameEnd(p, k)
      OBVIOUS
    <2>2. e \in (k + 3)..Len(p) /\ (e < Len(p) => p[e + 1] # "?")
      BY <1>6, <2>1, UsualEnd
    <2>3. F[k].done = e /\ F[k].out = Append(F[k - 1].out, p[k]) /\ k \in Groups(p) /\ p[k] = "("
      BY <1>5, <1>6, <2>1, GroupBegins DEF Numbered, Groups, NamedGroups
    <2>4. Len(F[k].out) = j + 1
      <3>1. PICK o \in Seq(LettersOf(p)) : o = F[k - 1].out
        BY <1>1, NumberType
      <3>2. Len(Append(o, p[k])) = Len(o) + 1
        OBVIOUS
      <3> QED BY <2>3, <3>1, <3>2
    <2>5. PICK m : m = e + 1
      OBVIOUS
    <2>6. m = NextKept(x, k)
      BY <1>x, <2>2, <2>3, <2>5 DEF NextKept
    <2>l. PICK l \in Nat : l = j + 1
      BY <1>2
    <2>7. /\ m <= Len(p) => l + 1 <= Len(q) /\ q[l + 1] = p[m]
          /\ m = Len(p) + 1 => l = Len(q)
      <3>1. Follows(p, F[Len(p)].out, Len(F[k].out), NextKept(F[k], k))
        BY <1>1, NextThere
      <3>2. Follows(p, q, l, m)
        BY <1>x, <2>4, <2>6, <2>l, <3>1
      <3> QED BY <3>2 DEF Follows
    <2>8. /\ m <= Len(p) => j + 2 <= Len(q) /\ q[j + 2] = p[m]
          /\ m = Len(p) + 1 => j + 1 = Len(q)
      <3>1. l + 1 = j + 2
        BY <1>2, <2>l
      <3> QED BY <2>7, <2>l, <3>1
    <2>9. ~(j + 2 <= Len(q) /\ q[j + 2] = "?")
      BY <1>1, <1>2, <2>2, <2>5, <2>8
    <2>10. k \in Plain(p)
      BY <1>6 DEF NamedGroups
    <2>11. ~(j + 3 <= Len(q) /\ q[j + 2] = "?")
      BY <1>2, <2>9
    <2> QED BY <1>3, <1>4, <2>3, <2>9, <2>10, <2>11
  <1>7. CASE k \notin NamedGroups(p)
    <2>1. F[k].done <= k /\ ~(k + 1 <= F[k].done) /\ Len(F[k].out) = j + 1
      BY <1>7, KeptNext
    <2>3. PICK m : m = k + 1
      OBVIOUS
    <2>4. m = NextKept(x, k)
      BY <1>d, <1>x, <2>1, <2>3 DEF NextKept
    <2>l. PICK l \in Nat : l = j + 1
      BY <1>2
    <2>5. /\ m <= Len(p) => l + 1 <= Len(q) /\ q[l + 1] = p[m]
          /\ m = Len(p) + 1 => l = Len(q)
      <3>1. Follows(p, F[Len(p)].out, Len(F[k].out), NextKept(F[k], k))
        BY <1>1, NextThere
      <3>2. Follows(p, q, l, m)
        BY <1>x, <2>1, <2>4, <2>l, <3>1
      <3> QED BY <3>2 DEF Follows
    <2>6. /\ m <= Len(p) => j + 2 <= Len(q) /\ q[j + 2] = p[k + 1]
          /\ m = Len(p) + 1 => j + 1 = Len(q)
      <3>1. l + 1 = j + 2
        BY <1>2, <2>l
      <3> QED BY <2>3, <2>5, <2>l, <3>1
    <2>7. j + 2 <= Len(q) /\ q[j + 2] = "?" <=> k + 1 <= Len(p) /\ p[k + 1] = "?"
      BY <1>1, <1>2, <2>3, <2>6
    <2>8. k \in Groups(p) <=> k \in Plain(p) /\ p[k] = "(" /\ ~(k + 1 <= Len(p) /\ p[k + 1] = "?")
      <3>1. StartsWith(p, k, <<"(", "?">>) <=> k + 1 <= Len(p) /\ p[k] = "(" /\ p[k + 1] = "?"
        BY <1>1, TwoThere
      <3> QED BY <1>7, <3>1 DEF Groups
    <2>9. ASSUME ~F[k - 1].escaped, j + 3 <= Len(q), q[j + 1] = "(", q[j + 2] = "?", q[j + 3] = "<" PROVE FALSE
      <3>1. k + 1 <= Len(p) /\ p[k + 1] = "?" /\ p[k] = "(" /\ k \in Plain(p)
        BY <1>2, <1>3, <1>4, <2>7, <2>9
      <3>2. k + 1 \in 1..Len(p) /\ (k + 1) - 1 = k /\ k + 1 \in 0..Len(p)
        BY <1>1, <3>1
      <3>3. k + 1 \notin NamedGroups(p)
        BY <3>1, <3>2, GroupBegins DEF NamedGroups
      <3>4. PICK b \in 1..Len(p) : b = k + 1
        BY <3>2
      <3>5. ~(b <= F[b - 1].done) /\ b \notin NamedGroups(p) /\ b - 1 = k
        BY <2>1, <3>2, <3>3, <3>4
      <3>6. F[b].done <= b /\ Len(F[b].out) = Len(F[b - 1].out) + 1
        BY <3>5, KeptNext
      <3>y. PICK y : y = F[b]
        OBVIOUS
      <3>7. y.done \in Nat /\ b \in 0..Len(p)
        <4>1. b \in 0..Len(p)
          BY <3>2, <3>4
        <4> QED BY <3>y, <4>1, KeptType
      <3>l. PICK d \in Nat : d = j + 2
        BY <1>2
      <3>e. Len(y.out) = d
        <4>1. Len(F[k].out) + 1 = d
          BY <1>2, <2>1, <3>l
        <4> QED BY <3>5, <3>6, <3>y, <4>1
      <3>8. PICK n : n = b + 1
        OBVIOUS
      <3>9. n = NextKept(y, b)
        BY <3>6, <3>7, <3>8, <3>y DEF NextKept
      <3>10. /\ n <= Len(p) => q[d + 1] = p[n]
             /\ n = Len(p) + 1 => d = Len(q)
        <4>1. Follows(p, F[Len(p)].out, Len(F[b].out), NextKept(F[b], b))
          BY <3>7, NextThere
        <4>2. Follows(p, q, d, n)
          BY <3>9, <3>e, <3>y, <4>1
        <4> QED BY <4>2 DEF Follows
      <3>11. /\ n <= Len(p) => q[j + 3] = p[n]
             /\ n = Len(p) + 1 => j + 2 = Len(q)
        <4>1. d + 1 = j + 3
          BY <1>2, <3>l
        <4> QED BY <3>10, <3>l, <4>1
      <3>12. k + 2 <= Len(p) /\ p[k + 2] = "<"
        <4>1. n = k + 2
          BY <3>4, <3>8
        <4>2. n <= Len(p)
          BY <1>1, <1>2, <2>9, <3>2, <3>11, <4>1
        <4> QED BY <2>9, <3>11, <4>1, <4>2
      <3>13. StartsWith(p, k, <<"(", "?", "<">>)
        BY <1>1, <3>1, <3>12, ThreeThere
      <3> QED BY <1>7, <3>1, <3>13 DEF NamedGroups
    <2> QED BY <1>3, <1>4, <2>7, <2>8, <2>9
  <1> QED BY <1>6, <1>7

\* The engine's walk R over what the loader's walk F puts out, for the group at
\* g of p, once the loader has dealt with i characters: G is what is to come.
Follower(p, F, R, G, i) ==
  LET r == R[Len(F[i].out)] IN
  /\ InText(LettersOf(p), r) /\ r.group = F[i].group /\ r.escaped = F[i].escaped
  /\ r.out \o G[NextKept(F[i], i)] = G[1]

LEMMA ChosenOnce ==
  ASSUME NEW p, IsPattern(p), IsUsual(p), NEW F, Numbering(F, p), NEW g \in Groups(p), NEW k \in Groups(p)
  PROVE  F[k - 1].group + 1 = F[g - 1].group + 1 <=> k = g
  <1>1. /\ g \in 1..Len(p) /\ F[g].group = F[g - 1].group + 1
        /\ k \in 1..Len(p) /\ F[k].group = F[k - 1].group + 1
    BY GroupsKept
  <1>2. Len(p) \in Nat
    BY LettersType
  <1>3. g - 1 \in 0..Len(p) /\ k - 1 \in 0..Len(p) /\ g \in 0..Len(p) /\ k \in 0..Len(p)
    BY <1>1, <1>2
  <1>4. F[g - 1].group \in Nat /\ F[k - 1].group \in Nat
    BY <1>3, NumberType
  <1>5. ~(k < g /\ F[k].group = F[g].group)
    <2>1. k < g => g - 1 \in k..Len(p)
      BY <1>1, <1>2
    <2>2. k < g => F[k].group <= F[g - 1].group
      BY <1>3, <2>1, GroupsRise
    <2> QED BY <1>1, <1>4, <2>2
  <1>6. ~(g < k /\ F[k].group = F[g].group)
    <2>1. g < k => k - 1 \in g..Len(p)
      BY <1>1, <1>2
    <2>2. g < k => F[g].group <= F[k - 1].group
      BY <1>3, <2>1, GroupsRise
    <2> QED BY <1>1, <1>4, <2>2
  <1> QED BY <1>1, <1>2, <1>5, <1>6

LEMMA FollowerNext ==
  ASSUME NEW p, IsPattern(p), IsUsual(p), NEW F, Numbering(F, p), NEW g \in Groups(p),
         NEW R, NEW G, OnlyWalk(G, p, g),
         Rewrites(R, F[Len(p)].out, F[g - 1].group + 1),
         NEW k \in 1..Len(p), Follower(p, F, R, G, k - 1)
  PROVE  Follower(p, F, R, G, k)
  <1>1. Len(p) \in Nat /\ k - 1 \in 0..Len(p) /\ k \in 0..Len(p) /\ g - 1 \in 0..Len(p) /\ Len(p) \in 0..Len(p)
    <2>1. g \in 1..Len(p) /\ Len(p) \in Nat
      BY GroupsKept, LettersType
    <2> QED BY <2>1
  <1>2. PICK w : w = F[k - 1]
    OBVIOUS
  <1>3. PICK x : x = F[k]
    OBVIOUS
  <1>4. w.done \in Nat /\ w.out \in Seq(LettersOf(p)) /\ Len(w.out) \in Nat /\ w.group \in Nat
    BY <1>1, <1>2, KeptType, NumberType
  <1>5. x.done \in Nat
    BY <1>1, <1>3, KeptType
  <1>6. PICK j \in Nat : j = Len(w.out)
    BY <1>4
  <1>7. PICK r : r = R[j]
    OBVIOUS
  <1>8. /\ InText(LettersOf(p), r) /\ r.group = w.group /\ r.escaped = w.escaped
        /\ r.out \o G[NextKept(w, k - 1)] = G[1]
    BY <1>2, <1>6, <1>7 DEF Follower
  <1>9. CASE k <= w.done
    <2>1. x = w
      BY <1>2, <1>3, <1>9 DEF Numbering, Counts
    <2>2. NextKept(x, k) = NextKept(w, k - 1)
      BY <1>4, <1>9, <2>1 DEF NextKept
    <2> QED BY <1>2, <1>3, <1>6, <1>7, <1>8, <2>1, <2>2 DEF Follower
  <1>10. CASE ~(k <= w.done)
    <2>1. Numbered(p, k, w, x)
      BY <1>2, <1>3, <1>10 DEF Numbering, Counts
    <2>2. PICK q : q = F[Len(p)].out
      OBVIOUS
    <2>3. PICK c \in Nat : c = F[g - 1].group + 1
      <3>1. F[g - 1].group \in Nat
        BY <1>1, NumberType
      <3> QED BY <3>1
    <2>4. Rewrites(R, q, c)
      BY <2>2, <2>3
    <2>5. /\ j + 1 \in 1..Len(q) /\ q[j + 1] = p[k]
          /\ ~w.escaped => ~(j + 3 <= Len(q) /\ q[j + 1] = "(" /\ q[j + 2] = "?" /\ q[j + 3] = "<")
          /\ k \in Groups(p) <=>
               ~w.escaped /\ q[j + 1] = "(" /\ ~(j + 2 <= Len(q) /\ q[j + 2] = "?")
      <3>1. Agree(p, k, F[k - 1], F[Len(p)].out, Len(F[k - 1].out))
        BY <1>2, <1>10, SameGroup
      <3>2. Agree(p, k, w, q, j)
        BY <1>2, <1>6, <2>2, <3>1
      <3> QED BY <3>2 DEF Agree
    <2>6. PICK t : t = R[j + 1]
      OBVIOUS
    <2>7. PICK l \in 1..Len(q) : l = j + 1
      BY <2>5
    <2>8. t = RewrittenAt(r, q, l, c)
      <3>1. R[l] = RewrittenAt(R[l - 1], q, l, c)
        BY <2>4, <2>7 DEF Rewrites
      <3>2. l - 1 = j
        BY <2>7
      <3> QED BY <1>7, <2>6, <2>7, <3>1, <3>2
    <2>q. q \in Seq(LettersOf(p)) /\ {"(", "?", ":"} \subseteq LettersOf(p)
      BY <1>1, <2>2, KeptType DEF LettersOf
    <2>9. q[l] = p[k] /\ q[l] # "["
      <3>1. p[k] # "["
        BY <1>1, LettersType DEF IsUsual
      <3> QED BY <2>5, <2>7, <3>1
    <2>10. ~r.escaped => ~StartsWith(q, l, <<"(", "?", "<">>)
      <3>1. StartsWith(q, l, <<"(", "?", "<">>) <=>
              l + 2 <= Len(q) /\ q[l] = "(" /\ q[l + 1] = "?" /\ q[l + 2] = "<"
        BY <2>q, ThreeThere
      <3>2. l + 1 = j + 2 /\ l + 2 = j + 3
        BY <2>7
      <3> QED BY <1>8, <2>5, <2>7, <3>1, <3>2
    <2>11. InText(LettersOf(p), t) /\ Rewrote(q, l, c, r, t)
      BY <1>8, <2>8, <2>q, <2>9, <2>10, RewroteStep
    <2>12. k \in Groups(p) <=> BeginsGroup(r, q, l)
      <3>1. l + 1 = j + 2
        BY <2>7
      <3> QED BY <1>8, <2>5, <2>7, <3>1 DEF BeginsGroup
    <2>13. t.group = x.group /\ t.escaped = x.escaped
      <3>1. CASE k \in Groups(p)
        <4>1. p[k] = "("
          BY <3>1, GroupsKept
        <4> QED BY <1>8, <2>1, <2>11, <2>12, <3>1, <4>1 DEF Numbered, Rewrote
      <3>2. CASE k \notin Groups(p)
        <4>1. t.group = w.group /\ t.escaped = (~w.escaped /\ p[k] = "\\")
          BY <1>8, <2>9, <2>11, <2>12, <3>2 DEF Rewrote
        <4>2. x.group = w.group + 0 /\ x.escaped = (~w.escaped /\ p[k] = "\\")
          BY <2>1, <3>2 DEF Numbered
        <4> QED BY <1>4, <4>1, <4>2
      <3> QED BY <3>1, <3>2
    <2>o. r.out \in Seq(LettersOf(p))
      BY <1>8 DEF InText, States
    <2>14. t.out = r.out \o Part(p, g, k)
      <3>1. CASE k \in Groups(p)
        <4>1. w.group + 1 = c <=> k = g
          BY <1>2, <2>3, <3>1, ChosenOnce
        <4> QED BY <1>8, <2>11, <2>12, <3>1, <4>1 DEF Rewrote, Part
      <3>2. CASE k \notin Groups(p)
        <4>1. t.out = Append(r.out, p[k]) /\ Part(p, g, k) = <<p[k]>>
          BY <2>9, <2>11, <2>12, <3>2 DEF Rewrote, Part
        <4>2. PICK o \in Seq(LettersOf(p)) : o = r.out
          BY <2>o
        <4>3. p[k] \in LettersOf(p)
          BY LettersType
        <4>4. Append(o, p[k]) = o \o <<p[k]>>
          BY <4>3
        <4> QED BY <4>1, <4>2, <4>4
      <3> QED BY <3>1, <3>2
    <2>15. After(p, k) = NextKept(x, k) /\ NextKept(w, k - 1) = k
      <3>1. k \in NamedGroups(p) => NameEnd(p, k) \in (k + 3)..Len(p)
        BY UsualEnd
      <3> QED BY <1>1, <1>4, <1>10, <2>1, <3>1 DEF Numbered, NextKept, After
    <2>16. t.out \o G[NextKept(x, k)] = G[1]
      <3>1. PICK a : a = After(p, k)
        OBVIOUS
      <3>2. a \in 1..(Len(p) + 1)
        <4>1. a \in (k + 1)..(Len(p) + 1)
          BY <3>1, AfterType
        <4> QED BY <1>1, <4>1
      <3>3. G[k] = Part(p, g, k) \o G[a] /\ G[a] \in Seq(LettersOf(p))
        BY <3>1, <3>2 DEF OnlyWalk
      <3>4. Part(p, g, k) \in Seq(LettersOf(p))
        BY PartType
      <3>5. (r.out \o Part(p, g, k)) \o G[a] = r.out \o (Part(p, g, k) \o G[a])
        <4>1. PICK b \in Seq(LettersOf(p)) : b = Part(p, g, k)
          BY <3>4
        <4>2. PICK d \in Seq(LettersOf(p)) : d = G[a]
          BY <3>3
        <4>3. PICK o \in Seq(LettersOf(p)) : o = r.out
          BY <2>o
        <4>4. (o \o b) \o d = o \o (b \o d)
          BY ConcatOnce
        <4> QED BY <4>1, <4>2, <4>3, <4>4
      <3>6. r.out \o G[k] = G[1]
        BY <1>8, <2>15
      <3> QED BY <2>14, <2>15, <3>1, <3>3, <3>5, <3>6
    <2>17. Len(x.out) = j + 1
      <3>1. PICK o \in Seq(LettersOf(p)) : o = w.out
        BY <1>4
      <3>2. Len(Append(o, p[k])) = Len(o) + 1
        OBVIOUS
      <3>3. x.out = Append(w.out, p[k])
        BY <2>1 DEF Numbered
      <3> QED BY <1>6, <3>1, <3>2, <3>3
    <2> QED BY <1>3, <2>6, <2>11, <2>13, <2>16, <2>17 DEF Follower
  <1> QED BY <1>9, <1>10

\* The engine's expression for a group of a filter has that group only.
LEMMA RewritesGroup ==
  ASSUME NEW p, IsPattern(p), IsUsual(p), NEW F, Numbering(F, p), NEW g \in Groups(p)
  PROVE  Rewritten(F[Len(p)].out, F[g - 1].group + 1) = [fails |-> FALSE, out |-> Only(p, g)]
  <1>1. g \in 1..Len(p) /\ Len(p) \in Nat /\ F[g].group = F[g - 1].group + 1
    BY GroupsKept, LettersType
  <1>2. PICK n \in Nat : n = Len(p)
    BY <1>1
  <1>3. g \in 0..n /\ g - 1 \in 0..n /\ n \in 0..n /\ n \in g..n
    BY <1>1, <1>2
  <1>4. PICK q : q = F[n].out
    OBVIOUS
  <1>5. q \in Seq(LettersOf(p)) /\ Len(q) \in Nat
    BY <1>2, <1>3, <1>4, KeptType
  <1>6. PICK c \in Nat : c = F[g - 1].group + 1 /\ c # 0
    <2>1. F[g - 1].group \in Nat
      BY <1>2, <1>3, NumberType
    <2> QED BY <2>1
  <1>7. PICK R : Rewrites(R, q, c)
    BY <1>5, <1>6, RewritingIs
  <1>8. PICK G : OnlyWalk(G, p, g)
    BY OnlyIs
  <1> DEFINE T == {i \in 0..n : Follower(p, F, R, G, i)}
  <1>9. 0 \in T
    <2>1. F[0] = Walked /\ R[0] = Walked
      BY <1>7 DEF Numbering, Rewrites
    <2>2. Walked.out = <<>> /\ Walked.done = 0 /\ Len(Walked.out) = 0
      BY DEF Walked
    <2>3. InText(LettersOf(p), Walked)
      BY DEF InText, States, Walked
    <2>4. NextKept(Walked, 0) = 1
      BY <2>2 DEF NextKept
    <2>5. G[1] \in Seq(LettersOf(p))
      <3>1. 1 \in 1..(Len(p) + 1)
        BY <1>1
      <3> QED BY <1>8, <3>1 DEF OnlyWalk
    <2>6. <<>> \o G[1] = G[1]
      BY <2>5
    <2>7. Follower(p, F, R, G, 0)
      BY <2>1, <2>2, <2>3, <2>4, <2>6 DEF Follower
    <2> QED BY <2>7
  <1>10. ASSUME NEW i \in 0..n, i # n, i \in T PROVE i + 1 \in T
    <2>1. PICK k \in 1..Len(p) : k = i + 1
      BY <1>2, <1>10
    <2>2. k - 1 = i
      BY <2>1
    <2>3. Rewrites(R, F[Len(p)].out, F[g - 1].group + 1)
      BY <1>2, <1>4, <1>6, <1>7
    <2>4. Follower(p, F, R, G, k)
      BY <1>8, <1>10, <2>2, <2>3, FollowerNext
    <2>5. i + 1 \in 0..n
      BY <1>10
    <2> QED BY <2>1, <2>4, <2>5
  <1> HIDE DEF T
  <1>11. \A i \in 0..n : i \in T
    BY <1>9, <1>10, Upwards
  <1>12. Follower(p, F, R, G, n)
    BY <1>3, <1>11 DEF T
  <1>13. PICK r : r = R[Len(q)]
    OBVIOUS
  <1>14. InText(LettersOf(p), r) /\ r.group = F[n].group /\ r.out \o G[NextKept(F[n], n)] = G[1]
    BY <1>4, <1>12, <1>13 DEF Follower
  <1>15. NextKept(F[n], n) = Len(p) + 1
    <2>1. F[n].done \in Nat /\ F[n].done <= n
      BY <1>2, <1>3, KeptType
    <2> QED BY <1>2, <2>1 DEF NextKept
  <1>16. r.out = Only(p, g)
    <2>1. G[Len(p) + 1] = <<>> /\ Only(p, g) = G[1]
      BY <1>8 DEF OnlyWalk
    <2>2. r.out \in Seq(LettersOf(p))
      BY <1>14 DEF InText, States
    <2>3. r.out \o <<>> = r.out
      BY <2>2
    <2> QED BY <1>14, <1>15, <2>1, <2>3
  <1>17. ~(r.group < c)
    <2>1. F[g].group <= F[n].group
      BY <1>2, <1>3, GroupsRise
    <2>2. F[n].group \in Nat
      BY <1>2, <1>3, NumberType
    <2> QED BY <1>1, <1>6, <1>14, <2>1, <2>2
  <1>18. r.fails = FALSE
    BY <1>14 DEF InText
  <1>19. Rewritten(q, c) = [fails |-> r.fails \/ r.group < c, out |-> r.out]
    BY <1>7, <1>13 DEF Rewrites
  <1>20. Rewritten(q, c) = [fails |-> FALSE, out |-> Only(p, g)]
    BY <1>16, <1>17, <1>18, <1>19
  <1> QED BY <1>2, <1>4, <1>6, <1>20

LEMMA GroupsStay == ASSUME NEW p, IsPattern(p), IsUsual(p) PROVE KeepsGroups(p)
  <1>1. PICK F : Numbering(F, p)
    BY NumberingIs
  <1>2. PICK w : w = F[Len(p)]
    OBVIOUS
  <1>3. Normalized(p) = w
    BY <1>1, <1>2 DEF Numbering
  <1>4. /\ Len(w.captures) = Cardinality(NamedGroups(p))
        /\ \A c \in DOMAIN w.captures : CaptureIs(F, p, c, w.captures[c])
    BY <1>1, <1>2, CapturesListed
  <1>5. ASSUME NEW c \in DOMAIN w.captures
        PROVE  \E i \in NamedGroups(p) :
                 /\ w.captures[c][1] = SubSeq(p, i + 3, NameEnd(p, i) - 1)
                 /\ Cardinality({j \in NamedGroups(p) : j < i}) = c - 1
                 /\ Rewritten(w.out, w.captures[c][2]) = [fails |-> FALSE, out |-> Only(p, i)]
    <2>1. PICK e : e = w.captures[c]
      OBVIOUS
    <2>2. PICK g \in NamedGroups(p) :
            /\ e = <<SubSeq(p, g + 3, NameEnd(p, g) - 1), F[g - 1].group + 1>>
            /\ Cardinality({j \in NamedGroups(p) : j < g}) = c - 1
      BY <1>4, <2>1 DEF CaptureIs
    <2>3. e[1] = SubSeq(p, g + 3, NameEnd(p, g) - 1) /\ e[2] = F[g - 1].group + 1
      BY <2>2
    <2>4. g \in Groups(p)
      BY DEF Groups
    <2>5. Rewritten(w.out, F[g - 1].group + 1) = [fails |-> FALSE, out |-> Only(p, g)]
      BY <1>1, <1>2, <2>4, RewritesGroup
    <2> QED BY <2>1, <2>2, <2>3, <2>5
  <1> QED BY <1>3, <1>4, <1>5 DEF KeepsGroups

LEMMA GroupsKeptByRules == LoadingType => CapturesKeepTheirGroup
  <1> SUFFICES ASSUME LoadingType, NEW k \in DOMAIN rules, NEW f \in DOMAIN RuleOf[rules[k]].filters,
                      IsUsual(RuleOf[rules[k]].filters[f])
               PROVE  KeepsGroups(RuleOf[rules[k]].filters[f])
    BY DEF CapturesKeepTheirGroup
  <1>1. rules[k] \in DOMAIN RuleOf
    BY DEF LoadingType
  <1>2. IsPattern(RuleOf[rules[k]].filters[f])
    BY <1>1, FilesAssumption DEF FilesAssumption, IsMessageRule
  <1> QED BY <1>2, GroupsStay

\* A name of a filter means one group, whoever counts: the number the loader
\* gives it (normalize_message_filter) is in the numbered pattern that of the
\* group the name stood before, and the expression the engine makes for that
\* number (rewrite_pattern_for_capture) captures this group and no other.
THEOREM CapturesAreTheirs == Spec => []CapturesKeepTheirGroup
  <1>1. Init => Typed
    BY TypedFirst
  <1>2. Typed /\ [Next]_vars => Typed'
    BY TypedNext
  <1>3. Typed => CapturesKeepTheirGroup
    BY GroupsKeptByRules DEF Typed
  <1> QED BY <1>1, <1>2, <1>3, PTL DEF Spec

=============================================================================
