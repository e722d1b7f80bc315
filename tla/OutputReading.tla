---------------------------- MODULE OutputReading ----------------------------
(* What a reader of JSON finds in a text: an object is a function, if its keys
   differ, an array a sequence.                                              *)
EXTENDS OutputRendering

Punctuation == {"{", "}", "[", "]", ":", ",", Quote}

Misread == [ok |-> FALSE, end |-> 0]
Read(value, end) == [ok |-> TRUE, value |-> value, end |-> end]

At(t, p, lexeme) == p <= Len(t) /\ t[p] = lexeme

Unescape == [letter \in {Escape[c] : c \in DOMAIN Escape} |->
               CHOOSE c \in DOMAIN Escape : Escape[c] = letter]

\* What JSON does not allow in a string as it is.
ControlCharacters == (DOMAIN Escape \ {Quote, Backslash}) \cup {Control}

\* The string of some characters.
TextOf(chars) ==
  {s \in DOMAIN Spelling : Spelling[s] = chars}
    \cup IF Len(chars) = 1 /\ chars[1] \notin DOMAIN Spelling \cup DOMAIN Escape \cup {Control}
         THEN {chars[1]} ELSE {}

\* Characters up to the quote that no backslash precedes.
RECURSIVE ReadString(_, _, _)
ReadString(t, p, chars) ==
  IF p > Len(t) THEN Misread
  ELSE CASE t[p] = Quote ->
              IF TextOf(chars) = {} THEN Misread ELSE Read(CHOOSE s \in TextOf(chars) : TRUE, p + 1)
         [] t[p] = Backslash ->
              IF p < Len(t) /\ t[p + 1] \in DOMAIN Unescape
              THEN ReadString(t, p + 2, Append(chars, Unescape[t[p + 1]])) ELSE Misread
         [] t[p] \in ControlCharacters -> Misread
         [] OTHER -> ReadString(t, p + 1, Append(chars, t[p]))

RECURSIVE ReadValue(_, _), ReadMembers(_, _, _), ReadElements(_, _, _)
ReadValue(t, p) ==
  CASE At(t, p, "{") -> IF At(t, p + 1, "}") THEN Read(<<>>, p + 2) ELSE ReadMembers(t, p + 1, <<>>)
    [] At(t, p, "[") -> IF At(t, p + 1, "]") THEN Read(<<>>, p + 2) ELSE ReadElements(t, p + 1, <<>>)
    [] At(t, p, Quote) -> ReadString(t, p + 1, <<>>)
    [] At(t, p, Null)  -> Read(Null, p + 1)
    [] OTHER -> Misread

ReadMembers(t, p, members) ==
  LET key == IF At(t, p, Quote) THEN ReadString(t, p + 1, <<>>) ELSE Misread
      v == IF key.ok /\ At(t, key.end, ":") /\ key.value \notin DOMAIN members
           THEN ReadValue(t, key.end + 1) ELSE Misread
      all == With(members, key.value, v.value)
  IN CASE v.ok /\ At(t, v.end, "}") -> Read(all, v.end + 1)
       [] v.ok /\ At(t, v.end, ",") -> ReadMembers(t, v.end + 1, all)
       [] OTHER -> Misread

ReadElements(t, p, elements) ==
  LET v == ReadValue(t, p)
      all == Append(elements, v.value)
  IN CASE v.ok /\ At(t, v.end, "]") -> Read(all, v.end + 1)
       [] v.ok /\ At(t, v.end, ",") -> ReadElements(t, v.end + 1, all)
       [] OTHER -> Misread

\* A text is one value.
IsOneValue(text) == LET read == ReadValue(text, 1) IN read.ok /\ read.end = Len(text) + 1

\* A text is one value, and this one.
Says(text, value) ==
  IsOneValue(text) /\ ReadValue(text, 1).value = value

-----------------------------------------------------------------------------
(* What the text of a bundle is meant to say                                 *)

EachOf(entries, Meant(_)) == [k \in DOMAIN entries |-> Meant(entries[k])]

\* The object that names spell, each name the place its segments lead to; where
\* other names go on from one, its value is at "raw" below it.
RECURSIVE Spelled(_, _)
Spelled(value, node) ==
  LET deeper == {n \in DOMAIN value : Len(n) > Len(node) /\ SubSeq(n, 1, Len(node)) = node}
      keys == {n[Len(node) + 1] : n \in deeper}
  IN IF deeper = {} THEN IF node \in DOMAIN value THEN value[node] ELSE <<>>
     ELSE [k \in keys \cup (IF node \in DOMAIN value THEN {"raw"} ELSE {}) |->
             IF k \in keys THEN Spelled(value, Append(node, k)) ELSE value[node]]

NamesOf(pairs) == {pairs[k].name : k \in DOMAIN pairs}

\* No name goes on with "raw" where another one ends.
NamesAreApart(names) ==
  \A m, n \in names : ~(\E k \in DOMAIN n : n[k] = "raw" /\ SubSeq(n, 1, k - 1) = m)

\* Of two values of a name the first.
Pairs(pairs) ==
  Spelled([n \in NamesOf(pairs) |->
             LET ks == {k \in DOMAIN pairs : pairs[k].name = n}
             IN pairs[CHOOSE k \in ks : \A j \in ks : k <= j].value], <<>>)

Owners(x) == [owner_org_ids |-> x.orgs]
AnId(x) == [id |-> x.id]
ANetwork(n) == [id |-> n.id, site_id |-> n.site, attribution |-> Owners(n)]
ASystem(s) == [id |-> s.id, network_id |-> s.network, site_id |-> s.site, attribution |-> Owners(s)]
ACollection(c) ==
  [id |-> c.id, system_id |-> c.system, network_id |-> c.network, site_id |-> c.site,
   attribution |-> Owners(c), records |-> c.records]

ABundle(b) ==
  [producer |-> [organisation_id |-> b.producer],
   organizations |-> EachOf(b.organizations, AnId), sites |-> EachOf(b.sites, AnId),
   networks |-> EachOf(b.networks, ANetwork), systems |-> EachOf(b.systems, ASystem),
   collections |-> EachOf(b.collections, ACollection)]

AResult(id, r) ==
  LET always == IF r.matched
                THEN [rule |-> [id |-> id, token_extraction |-> r.extraction], tokens |-> Pairs(r.tokens)]
                ELSE [rule |-> Null]
      property == IF r.matched /\ r.properties # <<>> THEN With(always, "property", Pairs(r.properties))
                  ELSE always
  IN IF r.errors = <<>> THEN property ELSE With(property, "errors", r.errors)

ASource(id) == [message_rule_id |-> id]
AReport(f) ==
  LET report == [rule |-> [id |-> f.rule], source |-> ASource(f.source), report |-> Pairs(f.properties)]
  IN IF Len(f.sources) > 1 THEN With(report, "sources", EachOf(f.sources, ASource)) ELSE report

=============================================================================
