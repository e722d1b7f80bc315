---------------------------- MODULE BundleLoading ----------------------------
(* Which bundles load_bundle accepts, and the metadata a collection gets.

   A document names organizations and sites by their ids; networks, systems and
   collections are records that refer to other entries and to the organizations
   of their attribution.  An entry may refer to nothing (NoRef, the empty
   string).                                                                  *)
EXTENDS Naturals, Sequences, FiniteSets

CONSTANT NoRef

(* What the entries of a document say, as far as it matters here.            *)
IsAttribution(orgs) == orgs \in Seq(STRING)
IsOrganization(o) == o.id \in STRING
IsSite(s) == s.id \in STRING
IsNetwork(n) == {n.id, n.site} \subseteq STRING /\ IsAttribution(n.orgs)
IsSystem(s) == {s.id, s.network, s.site} \subseteq STRING /\ IsAttribution(s.orgs)
IsCollection(c) ==
  {c.id, c.system, c.network, c.site} \subseteq STRING /\ IsAttribution(c.orgs) /\ c.records \in Seq(STRING)

IsBundle(b) ==
  /\ b.complete \in BOOLEAN /\ b.producer \in STRING
  /\ \A list \in {b.organizations, b.sites, b.networks, b.systems, b.collections} :
       Len(list) \in Nat /\ DOMAIN list = 1..Len(list)
  /\ \A k \in DOMAIN b.organizations : IsOrganization(b.organizations[k])
  /\ \A k \in DOMAIN b.sites : IsSite(b.sites[k])
  /\ \A k \in DOMAIN b.networks : IsNetwork(b.networks[k])
  /\ \A k \in DOMAIN b.systems : IsSystem(b.systems[k])
  /\ \A k \in DOMAIN b.collections : IsCollection(b.collections[k])

Ids(entries) == {entries[k].id : k \in DOMAIN entries}

\* ensure_unique_ids
Unique(entries) == Cardinality(Ids(entries)) = Len(entries)

\* validate_reference: to refer to nothing is no error.
Refers(ref, entries) == ref = NoRef \/ ref \in Ids(entries)

\* validate_attribution
Attributed(d, entry) == \A k \in DOMAIN entry.orgs : entry.orgs[k] \in Ids(d.organizations)

NetworkHolds(d, n) == Refers(n.site, d.sites) /\ Attributed(d, n)

SystemHolds(d, s) ==
  Refers(s.network, d.networks) /\ Refers(s.site, d.sites) /\ Attributed(d, s)

\* Mutant: the network of a collection is not compared with its system's.
CollectionHoldsApart(d, c) ==
  /\ Refers(c.system, d.systems) /\ Refers(c.network, d.networks) /\ Refers(c.site, d.sites)
  /\ Attributed(d, c)
  /\ \A k \in DOMAIN d.systems :
       d.systems[k].id = c.system => d.systems[k].site = c.site

\* A collection is where its system is.
CollectionHolds(d, c) ==
  /\ Refers(c.system, d.systems) /\ Refers(c.network, d.networks) /\ Refers(c.site, d.sites)
  /\ Attributed(d, c)
  /\ \A k \in DOMAIN d.systems :
       d.systems[k].id = c.system =>
         d.systems[k].network = c.network /\ d.systems[k].site = c.site

\* A complete document has every field that is required, and its lists are lists.
Accepted(d) ==
  /\ d.complete /\ \A k \in DOMAIN d.collections : d.collections[k].records # <<>>
  /\ \A entries \in {d.organizations, d.sites, d.networks, d.systems, d.collections} : Unique(entries)
  /\ d.producer = NoRef \/ d.producer \in Ids(d.organizations)
  /\ \A k \in DOMAIN d.networks : NetworkHolds(d, d.networks[k])
  /\ \A k \in DOMAIN d.systems : SystemHolds(d, d.systems[k])
  /\ \A k \in DOMAIN d.collections : CollectionHolds(d, d.collections[k])

\* find_by_id: the first entry with an id, if there is one.
Found(entries, id) ==
  {entries[k] : k \in {i \in DOMAIN entries :
     entries[i].id = id /\ \A j \in 1..(i - 1) : entries[j].id # id}}

ContextOf(d, c) ==
  [system |-> Found(d.systems, c.system), network |-> Found(d.networks, c.network),
   site |-> Found(d.sites, c.site)]

=============================================================================
