--------------------------- MODULE OutputRendering ---------------------------
(* The JSON text a processed bundle is printed as.

   A text is a sequence of lexemes: brackets, colons, commas, null and, within
   quotes, the characters of strings, a run of plain characters being one.  The
   writers put every comma where the code does; the layout and the fields that
   nothing refers to are left out, and the four lists of an attribution are one.  *)
EXTENDS ReportRendering, TLC

CONSTANT Spelling    \* of a string that is not plain, its characters

Null == "null"
Quote == "quote"
Backslash == "backslash"

\* A control character that has no letter of its own, such as the escape that
\* starts a colour in a log line.
Control == "control"

\* Between the parts of a list, with a comma after every part but the last.
Separated(parts) ==
  LET Joined[k \in 0..Len(parts)] ==
        IF k = 0 THEN <<>>
        ELSE Joined[k - 1] \o parts[k] \o (IF k # Len(parts) THEN <<",">> ELSE <<>>)
  IN Joined[Len(parts)]

Array(parts) == <<"[">> \o Separated(parts) \o <<"]">>

\* What stands after a backslash for a character that needs one.
Escape ==
  [c \in {Quote, Backslash, "backspace", "formfeed", "newline", "return", "tab"} |->
     CASE c = "backspace" -> "b" [] c = "formfeed" -> "f" [] c = "newline" -> "n"
       [] c = "return" -> "r" [] c = "tab" -> "t" [] OTHER -> c]

\* escape_json_string: what has no letter, a control character too, is written as it is.
Escaped(chars) ==
  LET Done[k \in 0..Len(chars)] ==
        IF k = 0 THEN <<>>
        ELSE Done[k - 1] \o (IF chars[k] \in DOMAIN Escape THEN <<Backslash, Escape[chars[k]]>>
                             ELSE <<chars[k]>>)
  IN Done[Len(chars)]

Chars(s) == IF s \in DOMAIN Spelling THEN Spelling[s] ELSE <<s>>
String(s) == <<Quote>> \o Escaped(Chars(s)) \o <<Quote>>
Key(s) == <<Quote, s, Quote, ":">>
Field(key, value) == Key(key) \o String(value)
Strings(values) == Array([k \in DOMAIN values |-> String(values[k])])

-----------------------------------------------------------------------------
(* A bundle                                                                  *)

OwnersText(orgs) == <<"{">> \o Key("owner_org_ids") \o Strings(orgs) \o <<"}">>
Attribution(entry) == Key("attribution") \o OwnersText(entry.orgs)

ProducerText(b) == Key("producer") \o <<"{">> \o Field("organisation_id", b.producer) \o <<"}">>
OrganizationText(o) == <<"{">> \o Field("id", o.id) \o <<"}">>
SiteText(s) == <<"{">> \o Field("id", s.id) \o <<"}">>
NetworkText(n) ==
  <<"{">> \o Separated(<<Field("id", n.id), Field("site_id", n.site), Attribution(n)>>) \o <<"}">>
SystemText(s) ==
  <<"{">> \o Separated(<<Field("id", s.id), Field("network_id", s.network),
                        Field("site_id", s.site), Attribution(s)>>) \o <<"}">>
References(c) ==
  Separated(<<Field("id", c.id), Field("system_id", c.system), Field("network_id", c.network),
              Field("site_id", c.site)>>)
CollectionText(c) ==
  <<"{">> \o References(c) \o <<",">> \o Attribution(c)
  \o <<",">> \o Key("records") \o Strings(c.records) \o <<"}">>

\* render_bundle_as_json
BundleText(b) ==
  LET list(key, entries, Text(_)) ==
        <<",">> \o Key(key) \o Array([k \in DOMAIN entries |-> Text(entries[k])])
  IN <<"{">> \o ProducerText(b)
     \o list("organizations", b.organizations, OrganizationText) \o list("sites", b.sites, SiteText)
     \o list("networks", b.networks, NetworkText) \o list("systems", b.systems, SystemText)
     \o list("collections", b.collections, CollectionText) \o <<"}">>

-----------------------------------------------------------------------------
(* The context of a collection: what was not found is not written.            *)

CollectionEntry(c) ==
  Key("collection") \o <<"{">> \o References(c) \o <<",">> \o Field("record_count", ToString(Len(c.records)))
  \o <<",">> \o Attribution(c) \o <<"}">>
SystemEntry(s) == Key("system") \o SystemText(s)
NetworkEntry(n) == Key("network") \o NetworkText(n)
SiteEntry(s) == Key("site") \o SiteText(s)

ContextText(c, context) ==
  LET optional(found, Entry(_)) ==
        IF found = {} THEN <<>> ELSE <<",">> \o Entry(CHOOSE x \in found : TRUE)
  IN CollectionEntry(c) \o optional(context.system, SystemEntry)
     \o optional(context.network, NetworkEntry) \o optional(context.site, SiteEntry)

-----------------------------------------------------------------------------
(* Results and reports                                                       *)

\* render_node_as_json and render_object_children.
RECURSIVE NodeText(_, _), ChildrenText(_, _)
NodeText(t, node) ==
  IF t.order[node] = <<>>
  THEN String(IF node \in DOMAIN t.values THEN t.values[node] ELSE "")
  ELSE <<"{">> \o ChildrenText(t, node) \o <<"}">>

ChildrenText(t, node) ==
  LET below == t.order[node]
      raw == IF node \in DOMAIN t.values THEN <<Field("raw", t.values[node])>> ELSE <<>>
  IN Separated(raw \o [k \in DOMAIN below |->
                         Key(below[k]) \o NodeText(t, Append(node, below[k]))])

\* A ParseResult; its properties are sorted by their names.
IsResult(r) ==
  /\ r.matched \in BOOLEAN /\ r.extraction \in Seq(STRING) /\ r.errors \in Seq(STRING)
  /\ \A pairs \in {r.tokens, r.properties} : \A k \in DOMAIN pairs :
       pairs[k].name \in Seq(STRING) /\ pairs[k].name # <<>> /\ pairs[k].value \in STRING

\* Of tokens with one name the first is rendered.
EmittedTokens(tokens) ==
  LET Kept[k \in 0..Len(tokens)] ==
        IF k = 0 THEN <<>>
        ELSE IF \E j \in 1..(k - 1) : tokens[j].name = tokens[k].name THEN Kept[k - 1]
             ELSE Append(Kept[k - 1], tokens[k])
  IN Kept[Len(tokens)]

\* The object of properties or tokens, each with a name and a value.
PairsText(pairs) ==
  <<"{">> \o ChildrenText(Tree([k \in DOMAIN pairs |-> pairs[k].name],
                              [k \in DOMAIN pairs |-> pairs[k].value]), <<>>) \o <<"}">>

\* The result of a record that the message rule id took.
MatchedText(id, r) ==
  Key("rule") \o <<"{">> \o Field("id", id) \o <<",">>
  \o Key("token_extraction") \o Strings(r.extraction) \o <<"}", ",">>
  \o Key("tokens") \o PairsText(EmittedTokens(r.tokens))
  \o (IF r.properties = <<>> THEN <<>> ELSE <<",">> \o Key("property") \o PairsText(r.properties))

ResultText(id, r) ==
  <<"{">> \o (IF r.matched THEN MatchedText(id, r) ELSE Key("rule") \o <<Null>>)
  \o (IF r.errors = <<>> THEN <<>> ELSE <<",">> \o Key("errors") \o Strings(r.errors)) \o <<"}">>

\* results[id]: what a record that id took gives.
ResultsText(ids, results) ==
  <<"{">> \o Key("parsed") \o Array([k \in DOMAIN ids |-> ResultText(ids[k], results[ids[k]])]) \o <<"}">>

SourceText(id) == <<"{">> \o Field("message_rule_id", id) \o <<"}">>

\* The sources are listed where there is more than one.
ReportText(f) ==
  <<"{">> \o Key("rule") \o <<"{">> \o Field("id", f.rule) \o <<"}", ",">>
  \o Key("source") \o SourceText(f.source) \o <<",">>
  \o (IF Len(f.sources) <= 1 THEN <<>>
      ELSE Key("sources") \o Array([k \in DOMAIN f.sources |-> SourceText(f.sources[k])]) \o <<",">>)
  \o Key("report") \o PairsText(f.properties) \o <<"}">>

\* render_reports_as_json
ReportsText(fs) ==
  <<"{">> \o Key("reports") \o Array([k \in DOMAIN fs |-> ReportText(fs[k])]) \o <<"}">>

=============================================================================
