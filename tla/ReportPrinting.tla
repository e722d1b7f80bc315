--------------------------- MODULE ReportPrinting ---------------------------
(* What a processed bundle is printed as: the bundle, the results of its records
   and the reports, as JSON (OutputRendering), and what a reader finds in it
   (OutputReading).                                                          *)
EXTENDS ReportCorrelation, OutputReading

CONSTANTS ResultOf,    \* ResultOf[r]: the result of a record that r takes
          NameOrder,   \* the names, sorted
          SegmentsOf   \* SegmentsOf[n]: what the dots divide n into

PrintingAssumption ==
  /\ DOMAIN ResultOf = MessageRules \cup {NoMessageRule}
  /\ \A r \in DOMAIN ResultOf :
       /\ IsResult(ResultOf[r]) /\ ResultOf[r].matched = (r # NoMessageRule)
       /\ ~ResultOf[r].matched => ResultOf[r].errors # <<>>
ASSUME PrintingAssumption

\* The properties of a finding, by name.
PropertiesOf(f) ==
  LET names == SelectSeq(NameOrder, LAMBDA n : n \in DOMAIN f.properties)
  IN [k \in DOMAIN names |-> [name |-> SegmentsOf[names[k]], value |-> f.properties[names[k]]]]

\* join_values
JoinValues(values) ==
  LET Joined[k \in 0..Len(values)] ==
        IF k = 0 THEN "" ELSE Joined[k - 1] \o (IF k > 1 THEN ", " ELSE "") \o values[k]
  IN Joined[Len(values)]

\* Those of a correlated finding; what it says of the first finding and of the
\* phase is left out.
CorrelatedProperties(c) ==
  <<[name |-> <<"attack", "family">>, value |-> c.key[2]],
    [name |-> <<"event">>, value |-> "multi_system_breach_attempt"],
    [name |-> <<"evidence", "count">>, value |-> ToString(c.evidence)],
    [name |-> <<"source", "ip">>, value |-> c.key[1]],
    [name |-> <<"system">>, value |-> "multi_system"],
    [name |-> <<"systems", "count">>, value |-> ToString(c.count)],
    [name |-> <<"systems", "names">>, value |-> JoinValues(c.systems)]>>

Printed ==
  [k \in DOMAIN findings |->
     [rule |-> findings[k].rule, source |-> findings[k].source, sources |-> <<findings[k].source>>,
      properties |-> PropertiesOf(findings[k])]]
  \o [k \in DOMAIN correlated |->
        [rule |-> correlated[k].rule, source |-> correlated[k].source, sources |-> correlated[k].sources,
         properties |-> CorrelatedProperties(correlated[k])]]

CollectionOutput(k) ==
  <<"{">> \o ContextText(bundle.collections[k], contexts[k]) \o <<",">>
  \o Key("parser_output") \o ResultsText(bundle.collections[k].records, ResultOf) \o <<"}">>

\* render_bundle_processing_result_as_json
Output ==
  <<"{">> \o Key("bundle") \o BundleText(bundle) \o <<",">>
  \o Key("collections") \o Array([k \in DOMAIN contexts |-> CollectionOutput(k)]) \o <<",">>
  \o Key("report_output") \o ReportsText(Printed) \o <<"}">>

-----------------------------------------------------------------------------
\* What the printed text is meant to say.
MeantOf(k) ==
  LET c == bundle.collections[k]
      own == [collection |-> [id |-> c.id, system_id |-> c.system, network_id |-> c.network, site_id |-> c.site,
                              attribution |-> Owners(c), record_count |-> ToString(Len(c.records))],
              parser_output |-> [parsed |-> [i \in DOMAIN c.records |->
                                               AResult(c.records[i], ResultOf[c.records[i]])]]]
      entries == [system |-> {ASystem(x) : x \in contexts[k].system},
                  network |-> {ANetwork(x) : x \in contexts[k].network},
                  site |-> {AnId(x) : x \in contexts[k].site}]
  IN [key \in DOMAIN own \cup {e \in DOMAIN entries : entries[e] # {}} |->
        IF key \in DOMAIN own THEN own[key] ELSE CHOOSE x \in entries[key] : TRUE]

Meant ==
  [bundle |-> ABundle(bundle), collections |-> [k \in DOMAIN contexts |-> MeantOf(k)],
   report_output |-> [reports |-> EachOf(Printed, AReport)]]

\* The output of a processed bundle in which no name says "raw" below another one.
IsPrinted == pc = "done" /\ \A f \in Elements(Printed) : NamesAreApart(NamesOf(f.properties))

\* What the output is made of: the ids of a bundle and the values its records gave.
ValuesIn(pairs) == {pairs[k].value : k \in DOMAIN pairs}
Said ==
  {bundle.producer}
    \cup UNION {{e.id : e \in Elements(entries)} :
                  entries \in {bundle.organizations, bundle.sites, bundle.networks, bundle.systems,
                              bundle.collections}}
    \cup UNION {ValuesIn(f.properties) : f \in Elements(Printed)}
    \cup UNION {UNION {ValuesIn(ResultOf[r].tokens) \cup ValuesIn(ResultOf[r].properties) :
                        r \in Elements(c.records)} : c \in Elements(bundle.collections)}

\* What is printed reads back: whatever entries and findings there are, and
\* whatever strings without the control characters that are not escaped, the text
\* is one JSON value, and its reader finds in it the bundle, for every collection
\* its metadata and its results, and all reports; of a finding every property, at
\* the place its name spells, and of a token that occurs twice the first.  With
\* such a character anywhere in it, the text is no JSON at all.  A name that
\* itself says "raw" below another one is the exception.
OutputReadsBack ==
  IsPrinted => IF \E s \in Said : Control \in Elements(Chars(s)) THEN ~IsOneValue(Output)
               ELSE Says(Output, Meant)

=============================================================================
