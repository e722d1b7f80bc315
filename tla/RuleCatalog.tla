----------------------------- MODULE RuleCatalog -----------------------------
(***************************************************************************)
(* sync_rule_catalog (stack/common/rule_catalog.py), which every parser    *)
(* worker runs when it starts: it reads the rule files below two roots and *)
(* brings the documents of analysis.rule_catalog up to date.  It takes no  *)
(* lock and no snapshot: files change while they are read, replicas that   *)
(* start together overwrite each other from what each has read, and any    *)
(* exception or kill leaves the work half done.                            *)
(***************************************************************************)
EXTENDS Integers, Sequences

CONSTANTS ParserRules,  \* the paths below RULES_PATH with a YAML suffix
          ReportRules,  \* those below REPORT_RULES_PATH
          Contents,     \* file contents, told apart by their hash
          Workers,      \* the processes that run a sync
          MaxMtime,     \* bound on modification times
          MaxTime,      \* bound on utc_now_iso, which counts seconds
          MaxEdits,     \* bound on changes to the files
          MaxDeaths,    \* bound on exceptions and kills
          None          \* no file, no document

RuleIds == ParserRules \cup ReportRules

\* sorted(rule_roots.items())
Roots == <<ParserRules, ReportRules>>

Files == [content : Contents, mtime : 1..MaxMtime]

\* Time 0 is the empty string.
CatalogDocuments ==
    [status : {"active", "removed"}, content : Contents, mtime : 1..MaxMtime,
     created_at : 0..MaxTime, updated_at : 0..MaxTime,
     last_synced_at : 0..MaxTime, removed_at : 0..MaxTime]

ASSUME CatalogAssumption ==
    /\ ParserRules \cap ReportRules = {}
    /\ None \notin Files \cup CatalogDocuments \cup RuleIds
    /\ MaxMtime \in Nat \ {0}
    /\ MaxTime \in Nat \ {0}
    /\ MaxEdits \in Nat
    /\ MaxDeaths \in Nat

VARIABLES
    disk,        \* the rule files
    catalog,     \* the documents of analysis.rule_catalog
    clock,       \* the last time a sync read
    pc,          \* where each worker is
    sync_time,   \* the time its sync started
    root,        \* the root it lists next
    unread,      \* the listed files of the root it has not read
    reading,     \* the file whose stat it has taken, and that mtime
    discovered,  \* what it read
    existing,    \* the documents it found
    todo,        \* the ids its two loops still have to visit
    edits, deaths

localVars == <<pc, sync_time, root, unread, reading, discovered, existing, todo>>
vars == <<disk, catalog, clock, localVars, edits, deaths>>

Unread == [id |-> None, mtime |-> 0]

Init ==
    /\ disk \in [RuleIds -> Files \cup {None}]
    /\ catalog = [id \in RuleIds |-> None]
    /\ clock = 1
    /\ pc = [w \in Workers |-> "new"]
    /\ sync_time = [w \in Workers |-> 1]
    /\ root = [w \in Workers |-> 1]
    /\ unread = [w \in Workers |-> {}]
    /\ reading = [w \in Workers |-> Unread]
    /\ discovered = [w \in Workers |-> [id \in RuleIds |-> None]]
    /\ existing = [w \in Workers |-> [id \in RuleIds |-> None]]
    /\ todo = [w \in Workers |-> {}]
    /\ edits = 0
    /\ deaths = 0

-----------------------------------------------------------------------------
(* The environment.                                                        *)

\* Someone writes, replaces or deletes a rule file.
Edit(id) ==
    /\ edits < MaxEdits
    /\ \E file \in (Files \cup {None}) \ {disk[id]} : disk' = [disk EXCEPT ![id] = file]
    /\ edits' = edits + 1
    /\ UNCHANGED <<catalog, clock, localVars, deaths>>

\* What a dead process leaves behind is only in the database.
Forget(w) ==
    /\ pc' = [pc EXCEPT ![w] = "down"]
    /\ root' = [root EXCEPT ![w] = 1]
    /\ unread' = [unread EXCEPT ![w] = {}]
    /\ reading' = [reading EXCEPT ![w] = Unread]
    /\ discovered' = [discovered EXCEPT ![w] = [id \in RuleIds |-> None]]
    /\ existing' = [existing EXCEPT ![w] = [id \in RuleIds |-> None]]
    /\ todo' = [todo EXCEPT ![w] = {}]
    /\ UNCHANGED sync_time

\* A kill, a missing root, or a call that raises: nothing catches it.  A
\* write whose reply is lost is that write followed by a death.
Die(w) ==
    /\ pc[w] \notin {"new", "down"}
    /\ deaths < MaxDeaths
    /\ deaths' = deaths + 1
    /\ Forget(w)
    /\ UNCHANGED <<disk, catalog, clock, edits>>

-----------------------------------------------------------------------------
(* discover_rule_catalog_documents.                                        *)

\* utc_now_iso drops the microseconds: two syncs may read the same time.
Start(w) ==
    /\ pc[w] \in {"new", "down"}
    /\ \E now \in clock..MaxTime :
          /\ clock' = now
          /\ sync_time' = [sync_time EXCEPT ![w] = now]
    /\ pc' = [pc EXCEPT ![w] = "list"]
    /\ UNCHANGED <<disk, catalog, root, unread, reading, discovered, existing, todo,
                   edits, deaths>>

\* iter_rule_files lists a whole root before it yields the first path.
ListRoot(w) ==
    /\ pc[w] = "list"
    /\ root[w] <= Len(Roots)
    /\ LET listed == {id \in Roots[root[w]] : disk[id] # None} IN
          /\ unread' = [unread EXCEPT ![w] = listed]
          /\ pc' = [pc EXCEPT ![w] = IF listed = {} THEN "list" ELSE "read"]
    /\ root' = [root EXCEPT ![w] = @ + 1]
    /\ UNCHANGED <<disk, catalog, clock, sync_time, reading, discovered, existing, todo,
                   edits, deaths>>

\* path.stat(); the file may be gone by now.
StatFile(w, id) ==
    /\ pc[w] = "read"
    /\ reading[w] = Unread
    /\ id \in unread[w]
    /\ IF disk[id] = None
       THEN Forget(w)
       ELSE /\ reading' = [reading EXCEPT ![w] = [id |-> id, mtime |-> disk[id].mtime]]
            /\ UNCHANGED <<pc, sync_time, root, unread, discovered, existing, todo>>
    /\ UNCHANGED <<disk, catalog, clock, edits, deaths>>

\* path.read_text(); the content may be newer than the stat.
ReadFile(w) ==
    LET id == reading[w].id IN
    /\ pc[w] = "read"
    /\ reading[w] # Unread
    /\ IF disk[id] = None
       THEN Forget(w)
       ELSE /\ discovered' = [discovered EXCEPT ![w][id] =
                  [content |-> disk[id].content, mtime |-> reading[w].mtime]]
            /\ reading' = [reading EXCEPT ![w] = Unread]
            /\ unread' = [unread EXCEPT ![w] = @ \ {id}]
            /\ pc' = [pc EXCEPT ![w] = IF unread[w] = {id} THEN "list" ELSE "read"]
            /\ UNCHANGED <<sync_time, root, existing, todo>>
    /\ UNCHANGED <<disk, catalog, clock, edits, deaths>>

-----------------------------------------------------------------------------
(* sync_rule_catalog after the discovery.                                  *)

\* The documents whose file is gone and that do not say so yet.
Missing(w, found) ==
    {id \in RuleIds :
        /\ discovered[w][id] = None
        /\ found[id] # None
        /\ found[id].status # "removed"}

\* collection.find({}), read to its end at once.
FindExisting(w) ==
    /\ pc[w] = "list"
    /\ root[w] > Len(Roots)
    /\ existing' = [existing EXCEPT ![w] = catalog]
    /\ todo' = [todo EXCEPT ![w] =
          {id \in RuleIds : discovered[w][id] # None} \cup Missing(w, catalog)]
    /\ pc' = [pc EXCEPT ![w] = "merge"]
    /\ UNCHANGED <<disk, catalog, clock, sync_time, root, unread, reading, discovered,
                   edits, deaths>>

Created(file, now) ==
    [status |-> "active", content |-> file.content, mtime |-> file.mtime,
     created_at |-> now, updated_at |-> now, last_synced_at |-> now, removed_at |-> 0]

\* merge_rule_catalog_document; an empty dict is the document as it is.
MergedIgnoringStatus(doc, file, now) ==
    IF doc.content = file.content /\ doc.mtime = file.mtime THEN doc
    ELSE [Created(file, now) EXCEPT
            !.created_at = doc.created_at,
            !.updated_at = IF doc.content # file.content THEN now ELSE doc.updated_at]
MergedKeepingRemovedAt(doc, file, now) ==
    IF doc.status = "active" /\ doc.content = file.content /\ doc.mtime = file.mtime THEN doc
    ELSE [doc EXCEPT !.status = "active", !.content = file.content, !.mtime = file.mtime,
                     !.updated_at = now, !.last_synced_at = now]
Merged(doc, file, now) ==
    LET changed == doc.content # file.content \/ doc.status # "active" IN
    IF ~changed /\ doc.mtime = file.mtime THEN doc
    ELSE [status |-> "active", content |-> file.content, mtime |-> file.mtime,
          created_at |-> doc.created_at,
          updated_at |-> IF changed THEN now ELSE doc.updated_at,
          last_synced_at |-> now, removed_at |-> 0]

\* One iteration of the loop over discovered.  The document replaces the one
\* that is stored, but it was computed from the one found before.
MergeDocument(w, id) ==
    LET doc == existing[w][id]
        file == discovered[w][id]
    IN
    /\ pc[w] = "merge"
    /\ id \in todo[w]
    /\ file # None
    /\ \/ /\ doc = None
          /\ catalog' = [catalog EXCEPT ![id] = Created(file, sync_time[w])]
       \/ /\ doc # None /\ Merged(doc, file, sync_time[w]) = doc
          /\ UNCHANGED catalog
       \/ /\ doc # None /\ Merged(doc, file, sync_time[w]) # doc
          /\ catalog' = [catalog EXCEPT ![id] = Merged(doc, file, sync_time[w])]
    /\ todo' = [todo EXCEPT ![w] = @ \ {id}]
    /\ UNCHANGED <<disk, clock, pc, sync_time, root, unread, reading, discovered, existing,
                   edits, deaths>>

\* An update of four fields of the stored document.
Removed(doc, now) ==
    [status |-> "removed", content |-> doc.content, mtime |-> doc.mtime,
     created_at |-> doc.created_at, updated_at |-> now, last_synced_at |-> now,
     removed_at |-> now]

\* One iteration of the loop over existing, after the loop over discovered.
MarkRemoved(w, id) ==
    /\ pc[w] = "merge"
    /\ id \in todo[w]
    /\ \A other \in todo[w] : discovered[w][other] = None
    /\ catalog' = [catalog EXCEPT ![id] = Removed(@, sync_time[w])]
    /\ todo' = [todo EXCEPT ![w] = @ \ {id}]
    /\ UNCHANGED <<disk, clock, pc, sync_time, root, unread, reading, discovered, existing,
                   edits, deaths>>

Finish(w) ==
    /\ pc[w] = "merge"
    /\ todo[w] = {}
    /\ pc' = [pc EXCEPT ![w] = "done"]
    /\ UNCHANGED <<disk, catalog, clock, sync_time, root, unread, reading, discovered,
                   existing, todo, edits, deaths>>

SyncStep(w) ==
    \/ Start(w)
    \/ ListRoot(w)
    \/ \E id \in RuleIds : StatFile(w, id)
    \/ ReadFile(w)
    \/ FindExisting(w)
    \/ \E id \in RuleIds : MergeDocument(w, id)
    \/ \E id \in RuleIds : MarkRemoved(w, id)
    \/ Finish(w)

Next ==
    \/ \E id \in RuleIds : Edit(id)
    \/ \E w \in Workers : SyncStep(w) \/ Die(w)

Spec == Init /\ [][Next]_vars

-----------------------------------------------------------------------------
(* Properties.                                                             *)

Documents == CatalogDocuments \cup {None}

\* replace_one in one loop and the partial update in the other leave the same
\* kind of document: removed_at is set exactly while the rule is removed, and
\* then it is the time of the last change.
RemovalIsDated ==
    \A id \in RuleIds : catalog[id] # None =>
        IF catalog[id].status = "removed"
        THEN catalog[id].removed_at # 0 /\ catalog[id].updated_at = catalog[id].removed_at
        ELSE catalog[id].removed_at = 0

\* The types, and how far a sync is: it has read nothing it did not list, and
\* visits only documents it read or found.
TypeOK ==
    /\ disk \in [RuleIds -> Files \cup {None}]
    /\ catalog \in [RuleIds -> Documents]
    /\ clock \in 1..MaxTime
    /\ pc \in [Workers -> {"new", "down", "list", "read", "merge", "done"}]
    /\ sync_time \in [Workers -> 1..MaxTime]
    /\ root \in [Workers -> 1..(Len(Roots) + 1)]
    /\ unread \in [Workers -> SUBSET RuleIds]
    /\ reading \in [Workers -> [id : RuleIds \cup {None}, mtime : 0..MaxMtime]]
    /\ discovered \in [Workers -> [RuleIds -> Files \cup {None}]]
    /\ existing \in [Workers -> [RuleIds -> Documents]]
    /\ todo \in [Workers -> SUBSET RuleIds]
    /\ edits \in 0..MaxEdits
    /\ deaths \in 0..MaxDeaths
    /\ RemovalIsDated
    /\ \A w \in Workers :
          /\ pc[w] = "read" <=> unread[w] # {}
          /\ reading[w] # Unread => reading[w].id \in unread[w] /\ reading[w].mtime # 0
          /\ todo[w] # {} => pc[w] = "merge"
          /\ \A id \in todo[w] :
                \/ discovered[w][id] # None
                \/ existing[w][id] # None /\ catalog[id] # None

Agrees(doc, file) ==
    IF file = None THEN doc = None \/ doc.status = "removed"
    ELSE doc # None /\ doc.status = "active"
         /\ doc.content = file.content /\ doc.mtime = file.mtime

\* sync_rule_catalog with replicas, crashes and files that changed on the
\* way: once every worker that ever started has finished a sync that read
\* what is on disk now, the catalog says what is on disk, whatever stale or
\* half-done syncs wrote before.
QuietCatalogMatches ==
    (\A w \in Workers : pc[w] = "new" \/ (pc[w] = "done" /\ discovered[w] = disk)) =>
        \/ \A w \in Workers : pc[w] = "new"
        \/ \A id \in RuleIds : Agrees(catalog[id], disk[id])
=============================================================================
