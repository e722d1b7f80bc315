------------------------ MODULE MCReportCorrelation ------------------------
(* Records that a message rule or none takes, in one or two collections, and
   bundles and files of rules of which some have a fault.  The
   first report rule is bound to the message rule, the second to every result;
   a finding has a source, a family and a system, or lacks one of them, or gets
   its family under two names.                                               *)
EXTENDS ReportPrinting

CONSTANTS MaxRecords,     \* bound: records of a bundle
          MaxEvaluations  \* bound: how often a report rule is bound to one

\* Strings with characters that are escaped, and with one that is not.
Odd == "odd"
Coloured == "coloured"

Records == {"ips", NoMessageRule}
RecordSeqs(n, most) ==
  {s \in [1..n -> Records] : n + Cardinality({k \in 1..n : s[k] = "ips"}) <= most}

\* Two systems, each in a network and a site of its own, and the organizations
\* that may be attributed; Loose is a system, and refers to a network, by "".
Entry(id) == [id |-> id, network |-> "", site |-> "", orgs |-> <<>>]
System1 == [id |-> "y1", network |-> "n1", site |-> "s1", orgs |-> <<"o1">>]
System2 == [id |-> "y2", network |-> "n2", site |-> "s2", orgs |-> <<>>]
Loose == [id |-> "", network |-> "", site |-> "s1", orgs |-> <<>>]
Empty ==
  [complete |-> TRUE, producer |-> "o1", organizations |-> <<Entry("o1")>>,
   sites |-> <<Entry("s1"), Entry("s2")>>,
   networks |-> <<[Entry("n1") EXCEPT !.site = "s1"], [Entry("n2") EXCEPT !.site = "s1"]>>,
   systems |-> <<System1, System2>>, collections |-> <<>>]

Collection(id, records) ==
  [id |-> id, system |-> "y1", network |-> "n1", site |-> "s1", orgs |-> <<"o1">>, records |-> records]

\* The records in one collection, or the last one in a collection of its own; the
\* largest instances are those with two collections.
Layouts ==
  {[Empty EXCEPT !.collections = <<Collection("c1", s)>>] :
     s \in UNION {RecordSeqs(n, MaxEvaluations - 1) : n \in 0..MaxRecords}}
    \cup {[Empty EXCEPT !.collections = <<Collection("c1", SubSeq(s, 1, MaxRecords - 1)),
                                          Collection("c2", <<s[MaxRecords]>>)>>] :
            s \in RecordSeqs(MaxRecords, MaxEvaluations)}

\* One collection that refers to anything, in bundles with one fault or none.
Placed ==
  {[system |-> y, network |-> n, site |-> s] :
     <<y, n, s>> \in {"", "y1", "zz"} \X {"", "n1", "n2", "zz"} \X {"", "s1", "s2", "zz"}}
Frames ==
  {Empty, [Empty EXCEPT !.complete = FALSE], [Empty EXCEPT !.producer = "zz"],
   [Empty EXCEPT !.producer = ""], [Empty EXCEPT !.systems = <<System1, System1>>],
   [Empty EXCEPT !.systems = <<System1, Loose>>], [Empty EXCEPT !.sites = <<>>],
   [Empty EXCEPT !.networks[1].orgs = <<"zz">>], [Empty EXCEPT !.networks[2].id = "n1"],
   [Empty EXCEPT !.systems[2].network = "zz"], [Empty EXCEPT !.organizations = <<>>]}
Variants ==
  {[frame EXCEPT !.collections =
      <<[id |-> "c1", system |-> p.system, network |-> p.network, site |-> p.site,
         orgs |-> <<>>, records |-> <<NoMessageRule>>]>>] : <<frame, p>> \in Frames \X Placed}

\* The ids of two collections, of which one has a control character in it.
Named ==
  {[Empty EXCEPT !.collections = <<Collection("c1", <<>>), Collection(id, <<NoMessageRule>>)>>] :
     id \in {"c2", Odd, Coloured}}

\* The rules in two files, and files of which one is wrong.
File(rs, cs) == [complete |-> TRUE, reports |-> rs, correlations |-> cs]
Files == <<File(<<"r1">>, <<"c1">>), File(<<"r2">>, <<"c2">>)>>
MCInputs ==
  {[bundle |-> b, files |-> Files] : b \in Layouts \cup Variants \cup Named}
    \cup {[bundle |-> Empty, files |-> fs] :
            fs \in {<<>>, <<File(<<"r1", "r2">>, <<>>)>>, [Files EXCEPT ![2].complete = FALSE]}}

\* One record gives tokens of which two have one name and one continues another,
\* and a value that has to be escaped; the other gives nothing but an error.
MCSpelling ==
  [s \in {Odd, Coloured} |-> IF s = Odd THEN <<Quote, "}", Backslash, "newline", "n">>
                             ELSE <<Control, "tab", "n">>]
Pair(name, value) == [name |-> name, value |-> value]
MCResultOf ==
  [r \in {"ips", NoMessageRule} |->
     IF r = "ips"
     THEN [matched |-> TRUE, extraction |-> <<"ips", "kv">>,
           tokens |-> <<Pair(<<"src", "ip">>, "ip1"), Pair(<<"src">>, Odd), Pair(<<"src", "ip">>, "ip2")>>,
           properties |-> <<Pair(<<"vendor">>, "forti")>>, errors |-> <<>>]
     ELSE [matched |-> FALSE, extraction |-> <<>>, tokens |-> <<>>, properties |-> <<>>,
           errors |-> <<"No message rule matched">>]]

MCBindingsOf == [r \in Reports |-> IF r = "r1" THEN {"ips"} ELSE {}]

Source == "source"
SourceRaw == "source.raw"
Nothing == <<>>
Event(ip, family, system) ==
  [n \in {SourceIp, AttackFamily, System, Source, SourceRaw} |->
     CASE n = SourceIp -> ip [] n = AttackFamily -> family [] n = System -> system
       [] OTHER -> Odd]
Just(names, f) == [n \in names |-> f[n]]
Main == {SourceIp, AttackFamily, System}
MCOutcomes ==
  {[failed |-> FALSE, plain |-> Nothing,
    report |-> Just(Main \cup {Source}, Event(ip, "log4shell", "forti"))] : ip \in {"ip1", "ip2"}}
    \cup {[failed |-> FALSE, plain |-> Just({System}, Event("ip1", "log4shell", "cloud")),
           report |-> Just({SourceIp, AttackFamily}, Event("ip1", "other", "cloud"))],
          [failed |-> FALSE, plain |-> Just(Main, Event("ip1", "other", "cloud")),
           report |-> Just({AttackFamily, System, Source, SourceRaw}, Event("ip1", "log4shell", "forti"))],
          [failed |-> FALSE, plain |-> Nothing,
           report |-> Just({SourceIp, System, Source},
                           [Event("ip1", "log4shell", "forti") EXCEPT ![Source] = Coloured])],
          [failed |-> FALSE, plain |-> Nothing, report |-> Nothing],
          [failed |-> TRUE, plain |-> Nothing, report |-> Just(Main, Event("ip1", "log4shell", "forti"))]}

MCFamilyOf == [c \in Correlations |-> IF c = "c1" THEN "log4shell" ELSE "other"]
MCMinSystemsOf == [c \in {"c2"} |-> 1]
MCRequiredOf == [c \in Correlations |-> IF c = "c1" THEN {"forti"} ELSE {}]
MCKeysBefore ==
  LET order == <<<<"ip1", "log4shell">>, <<"ip1", "other">>, <<"ip2", "log4shell">>, <<"ip2", "other">>>>
  IN [k \in Keys |-> {order[i] : i \in {j \in 1..4 : \E l \in (j + 1)..4 : order[l] = k}}]
MCNameOrder == <<AttackFamily, Source, SourceIp, SourceRaw, System>>
MCNames == Main \cup {Source, SourceRaw}
MCSegmentsOf ==
  [n \in MCNames |-> CASE n = SourceIp -> <<"source", "ip">> [] n = SourceRaw -> <<"source", "raw">>
                       [] n = AttackFamily -> <<"attack", "family">> [] OTHER -> <<n>>]
MCValuesOf ==
  [n \in MCNames |->
     CASE n = SourceIp -> {"ip1", "ip2"} [] n = AttackFamily -> {"log4shell", "other"}
       [] n = System -> {"cloud", "forti"} [] OTHER -> {Odd, Coloured}]
MCEarlyNames == {AttackFamily}

=============================================================================
