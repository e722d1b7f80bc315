-------------------------- MODULE RuleCatalogProofs --------------------------
(* The rule catalog for any number of workers, rules, edits and deaths: documents
   keep their kind, and once things are quiet the catalog says what is on disk. *)
EXTENDS RuleCatalog, TLAPS

---------------------------------------------------------------------------
(* The documents a sync writes                                               *)

Times == 1..MaxTime

\* What a document of an active rule, or of a removed one, looks like.
IsDated(doc) ==
  IF doc.status = "removed" THEN doc.removed_at # 0 /\ doc.updated_at = doc.removed_at
                            ELSE doc.removed_at = 0

LEMMA CreatedIsRight ==
  ASSUME NEW file \in Files, NEW now \in Times
  PROVE  /\ Created(file, now) \in CatalogDocuments
         /\ IsDated(Created(file, now)) /\ Agrees(Created(file, now), file)
  <1>1. Created(file, now) \in CatalogDocuments
    BY CatalogAssumption DEF Created, CatalogDocuments, Files, Times
  <1>2. file # None /\ Created(file, now) # None
    BY <1>1, CatalogAssumption
  <1> QED BY <1>1, <1>2 DEF Created, IsDated, Agrees

\* A document is left as it is only if it agrees with the file.
LEMMA MergedIsRight ==
  ASSUME NEW file \in Files, NEW now \in Times, NEW doc \in CatalogDocuments
  PROVE  /\ Merged(doc, file, now) \in CatalogDocuments
         /\ IsDated(Merged(doc, file, now)) \/ Merged(doc, file, now) = doc
         /\ Agrees(Merged(doc, file, now), file)
  <1>1. Merged(doc, file, now) \in CatalogDocuments
    BY CatalogAssumption DEF Merged, Created, CatalogDocuments, Files, Times
  <1>2. file # None /\ Merged(doc, file, now) # None
    BY <1>1, CatalogAssumption
  <1> QED BY <1>1, <1>2 DEF Merged, Created, CatalogDocuments, Files, IsDated, Agrees

LEMMA RemovedIsRight ==
  ASSUME NEW now \in Times, NEW doc \in CatalogDocuments
  PROVE  /\ Removed(doc, now) \in CatalogDocuments
         /\ IsDated(Removed(doc, now)) /\ Agrees(Removed(doc, now), None)
  <1>1. Removed(doc, now) \in CatalogDocuments
    BY CatalogAssumption DEF Removed, CatalogDocuments, Times
  <1> QED BY <1>1, CatalogAssumption DEF Removed, IsDated, Agrees, CatalogDocuments, Times

---------------------------------------------------------------------------
(* Types                                                                     *)

\* TypeOK in two parts: what the variables are ...
Typed ==
  /\ disk \in [RuleIds -> Files \cup {None}]
  /\ catalog \in [RuleIds -> Documents]
  /\ clock \in Times
  /\ pc \in [Workers -> {"new", "down", "list", "read", "merge", "done"}]
  /\ sync_time \in [Workers -> Times]
  /\ root \in [Workers -> 1..3]
  /\ unread \in [Workers -> SUBSET RuleIds]
  /\ reading \in [Workers -> [id : RuleIds \cup {None}, mtime : 0..MaxMtime]]
  /\ discovered \in [Workers -> [RuleIds -> Files \cup {None}]]
  /\ existing \in [Workers -> [RuleIds -> Documents]]
  /\ todo \in [Workers -> SUBSET RuleIds]
  /\ edits \in 0..MaxEdits
  /\ deaths \in 0..MaxDeaths

\* ... and how far a sync is.
OnTheWay(w) ==
  /\ pc[w] = "read" <=> unread[w] # {}
  /\ reading[w] # Unread => reading[w].id \in unread[w] /\ reading[w].mtime # 0
  /\ todo[w] # {} => pc[w] = "merge"
  /\ \A id \in todo[w] : discovered[w][id] # None \/ (existing[w][id] # None /\ catalog[id] # None)

Dated == \A id \in RuleIds : catalog[id] # None => IsDated(catalog[id])

LEMMA TypeParts == TypeOK <=> Typed /\ Dated /\ \A w \in Workers : OnTheWay(w)
  <1>1. RemovalIsDated <=> Dated
    BY DEF RemovalIsDated, Dated, IsDated
  <1>2. Len(Roots) + 1 = 3
    BY DEF Roots
  <1> QED BY <1>1, <1>2, Zenon DEF TypeOK, Typed, OnTheWay, Times

LEMMA InitTyped == Init => TypeOK
  <1> SUFFICES ASSUME Init PROVE TypeOK OBVIOUS
  <1>1. Typed
    BY CatalogAssumption DEF Init, Typed, Times, Documents, Unread
  <1>2. Dated /\ \A w \in Workers : OnTheWay(w)
    BY DEF Init, Dated, OnTheWay
  <1> QED BY <1>1, <1>2, TypeParts

LEMMA ForgetTyped ==
  ASSUME Typed, Dated, \A w \in Workers : OnTheWay(w), NEW w \in Workers, Forget(w),
         UNCHANGED <<disk, catalog, clock, edits>>, deaths' \in 0..MaxDeaths
  PROVE  Typed' /\ Dated' /\ \A v \in Workers : OnTheWay(v)'
  <1>1. Typed'
    BY CatalogAssumption DEF Typed, Forget, Documents, Unread
  <1>2. Dated'
    BY DEF Dated, Forget
  <1>3. ASSUME NEW v \in Workers PROVE OnTheWay(v)'
    <2>1. CASE v = w
      BY <2>1 DEF Typed, OnTheWay, Forget
    <2>2. CASE v # w
      BY <2>2 DEF Typed, OnTheWay, Forget
    <2> QED BY <2>1, <2>2
  <1> QED BY <1>1, <1>2, <1>3

\* The two loops write one document: right for what the sync read, if it writes at all or
\* finds in the catalog the document that it has in memory.
LEMMA WritesADocument ==
  ASSUME Typed, \A v \in Workers : OnTheWay(v), NEW w \in Workers, NEW id \in RuleIds,
         MergeDocument(w, id) \/ MarkRemoved(w, id)
  PROVE  \E doc \in Documents :
            /\ catalog' = [catalog EXCEPT ![id] = doc]
            /\ \/ doc = catalog[id] /\ Agrees(existing[w][id], discovered[w][id])
               \/ doc # None /\ IsDated(doc) /\ Agrees(doc, discovered[w][id])
  <1>1. sync_time[w] \in Times /\ catalog[id] \in Documents /\ existing[w][id] \in Documents
        /\ discovered[w][id] \in Files \cup {None} /\ catalog = [catalog EXCEPT ![id] = catalog[id]]
    BY DEF Typed
  <1>2. CASE MergeDocument(w, id)
    <2> DEFINE file == discovered[w][id]
               now == sync_time[w]
               found == existing[w][id]
    <2>1. file \in Files
      BY <1>1, <1>2 DEF MergeDocument
    <2>2. CASE found = None /\ catalog' = [catalog EXCEPT ![id] = Created(file, now)]
      <3>1. Created(file, now) \in Documents /\ Created(file, now) # None
        BY <1>1, <2>1, CreatedIsRight, CatalogAssumption DEF Documents
      <3> QED BY <1>1, <2>1, <2>2, <3>1, CreatedIsRight
    <2>3. CASE found # None
      <3> DEFINE doc == Merged(found, file, now)
      <3>1. found \in CatalogDocuments
        BY <1>1, <2>3 DEF Documents
      <3>2. /\ doc \in CatalogDocuments /\ Agrees(doc, file)
            /\ IsDated(doc) \/ doc = found
        BY <1>1, <2>1, <3>1, MergedIsRight
      <3>3. doc \in Documents /\ doc # None
        BY <3>2, CatalogAssumption DEF Documents
      <3>4. CASE doc = found /\ catalog' = catalog
        BY <1>1, <3>2, <3>4
      <3>5. CASE doc # found /\ catalog' = [catalog EXCEPT ![id] = doc]
        BY <3>2, <3>3, <3>5
      <3> HIDE DEF doc
      <3> QED BY <1>2, <2>3, <3>4, <3>5 DEF MergeDocument, doc
    <2> QED BY <1>2, <2>2, <2>3 DEF MergeDocument
  <1>3. CASE MarkRemoved(w, id)
    <2>1. discovered[w][id] = None /\ catalog[id] \in CatalogDocuments
      BY <1>1, <1>3 DEF MarkRemoved, OnTheWay, Documents
    <2> DEFINE doc == Removed(catalog[id], sync_time[w])
    <2>2. /\ doc \in CatalogDocuments /\ IsDated(doc) /\ Agrees(doc, None)
      BY <1>1, <2>1, RemovedIsRight
    <2>3. doc \in Documents /\ doc # None
      BY <2>2, CatalogAssumption DEF Documents
    <2> QED BY <1>3, <2>1, <2>2, <2>3 DEF MarkRemoved
  <1> QED BY <1>2, <1>3

\* What a step of w does to the rest of what is on the way: nothing, unless it writes None.
LEMMA OthersOnTheWay ==
  ASSUME Typed, \A v \in Workers : OnTheWay(v), NEW w \in Workers, NEW v \in Workers, v # w,
         pc'[v] = pc[v], unread'[v] = unread[v], reading'[v] = reading[v], todo'[v] = todo[v],
         discovered'[v] = discovered[v], existing'[v] = existing[v],
         \A id \in RuleIds : catalog[id] # None => catalog'[id] # None
  PROVE  OnTheWay(v)'
  BY DEF OnTheWay, Typed

LEMMA StepTyped == TypeOK /\ [Next]_vars => TypeOK'
  <1> SUFFICES ASSUME Typed, Dated, \A w \in Workers : OnTheWay(w), [Next]_vars
               PROVE  Typed' /\ Dated' /\ \A w \in Workers : OnTheWay(w)'
    <2>1. (Typed /\ Dated /\ \A w \in Workers : OnTheWay(w))' => TypeOK'
      BY TypeParts, PTL
    <2> QED BY <2>1, TypeParts
  <1> USE CatalogAssumption
  <1>1. ASSUME NEW id \in RuleIds, Edit(id) PROVE Typed' /\ Dated' /\ \A w \in Workers : OnTheWay(w)'
    <2>1. Typed'
      BY <1>1 DEF Typed, Edit, localVars
    <2>2. Dated' /\ \A w \in Workers : OnTheWay(w)'
      BY <1>1 DEF Dated, OnTheWay, Edit, localVars
    <2> QED BY <2>1, <2>2
  <1>2. ASSUME NEW w \in Workers, Die(w) PROVE Typed' /\ Dated' /\ \A v \in Workers : OnTheWay(v)'
    <2>1. deaths' \in 0..MaxDeaths
      BY <1>2 DEF Die, Typed
    <2> QED BY <1>2, <2>1, ForgetTyped DEF Die
  <1>3. ASSUME NEW w \in Workers, Start(w) PROVE Typed' /\ Dated' /\ \A v \in Workers : OnTheWay(v)'
    <2>1. Typed'
      BY <1>3 DEF Typed, Start, Times
    <2>2. Dated'
      BY <1>3 DEF Dated, Start
    <2>3. OnTheWay(w)'
      BY <1>3 DEF OnTheWay, Start, Typed
    <2>4. ASSUME NEW v \in Workers, v # w PROVE OnTheWay(v)'
      BY <1>3, <2>4, OthersOnTheWay DEF Start, Typed
    <2> QED BY <2>1, <2>2, <2>3, <2>4
  <1>4. ASSUME NEW w \in Workers, ListRoot(w) PROVE Typed' /\ Dated' /\ \A v \in Workers : OnTheWay(v)'
    <2> DEFINE listed == {id \in Roots[root[w]] : disk[id] # None}
    <2>1. root[w] \in 1..2 /\ Roots[root[w]] \subseteq RuleIds
      BY <1>4 DEF ListRoot, Typed, Roots, RuleIds
    <2>2. listed \in SUBSET RuleIds
      BY <2>1
    <2>3. Typed'
      BY <1>4, <2>1, <2>2 DEF Typed, ListRoot
    <2>4. Dated'
      BY <1>4 DEF Dated, ListRoot
    <2>5. OnTheWay(w)'
      BY <1>4, <2>2 DEF OnTheWay, ListRoot, Typed
    <2>6. ASSUME NEW v \in Workers, v # w PROVE OnTheWay(v)'
      BY <1>4, <2>6, OthersOnTheWay DEF ListRoot, Typed
    <2> QED BY <2>3, <2>4, <2>5, <2>6
  <1>5. ASSUME NEW w \in Workers, NEW id \in RuleIds, StatFile(w, id)
        PROVE Typed' /\ Dated' /\ \A v \in Workers : OnTheWay(v)'
    <2>1. CASE disk[id] = None
      BY <1>5, <2>1, ForgetTyped DEF StatFile, Typed
    <2>2. CASE disk[id] # None
      <3>1. disk[id] \in Files
        BY <2>2 DEF Typed
      <3> DEFINE stat == [id |-> id, mtime |-> disk[id].mtime]
      <3>2. disk[id].mtime \in 1..MaxMtime
        BY <3>1 DEF Files
      <3>3. stat \in [id : RuleIds \cup {None}, mtime : 0..MaxMtime] /\ stat.id = id /\ stat.mtime # 0
        BY <3>2
      <3>4. reading' = [reading EXCEPT ![w] = stat]
        BY <1>5, <2>2 DEF StatFile
      <3> HIDE DEF stat
      <3>5. Typed'
        BY <1>5, <2>2, <3>3, <3>4 DEF Typed, StatFile
      <3>6. Dated'
        BY <1>5, <2>2 DEF Dated, StatFile
      <3>7. OnTheWay(w)'
        BY <1>5, <2>2, <3>3, <3>4 DEF OnTheWay, StatFile, Typed
      <3>8. ASSUME NEW v \in Workers, v # w PROVE OnTheWay(v)'
        BY <1>5, <2>2, <3>8, OthersOnTheWay DEF StatFile, Typed
      <3> QED BY <3>5, <3>6, <3>7, <3>8
    <2> QED BY <2>1, <2>2
  <1>6. ASSUME NEW w \in Workers, ReadFile(w) PROVE Typed' /\ Dated' /\ \A v \in Workers : OnTheWay(v)'
    <2> DEFINE id == reading[w].id
    <2>1. CASE disk[id] = None
      BY <1>6, <2>1, ForgetTyped DEF ReadFile, Typed
    <2>2. CASE disk[id] # None
      <3>1. id \in unread[w] /\ id \in RuleIds /\ reading[w].mtime \in 1..MaxMtime
        BY <1>6 DEF OnTheWay, ReadFile, Typed
      <3>2. [content |-> disk[id].content, mtime |-> reading[w].mtime] \in Files
        <4>1. disk[id] \in Files
          BY <2>2, <3>1 DEF Typed
        <4>2. disk[id].content \in Contents
          BY <4>1 DEF Files
        <4> QED BY <3>1, <4>2 DEF Files
      <3> DEFINE file == [content |-> disk[id].content, mtime |-> reading[w].mtime]
                 read == [discovered[w] EXCEPT ![id] = file]
      <3>3. discovered' = [discovered EXCEPT ![w] = read]
        BY <1>6, <2>2 DEF ReadFile
      <3>4. read \in [RuleIds -> Files \cup {None}]
        BY <3>1, <3>2 DEF Typed
      <3>5. /\ reading' = [reading EXCEPT ![w] = Unread]
            /\ unread' = [unread EXCEPT ![w] = @ \ {id}]
            /\ pc' = [pc EXCEPT ![w] = IF unread[w] = {id} THEN "list" ELSE "read"]
            /\ UNCHANGED <<disk, catalog, clock, edits, deaths, sync_time, root, existing, todo>>
        BY <1>6, <2>2 DEF ReadFile
      <3>6. Unread \in [id : RuleIds \cup {None}, mtime : 0..MaxMtime]
        BY DEF Unread
      <3> HIDE DEF read, id
      <3>7. Typed'
        BY <3>3, <3>4, <3>5, <3>6 DEF Typed
      <3> USE DEF id
      <3>8. Dated'
        BY <1>6, <2>2 DEF Dated, ReadFile
      <3>9. OnTheWay(w)'
        BY <1>6, <2>2, <3>1, <3>2 DEF OnTheWay, ReadFile, Typed
      <3>10. ASSUME NEW v \in Workers, v # w PROVE OnTheWay(v)'
        BY <1>6, <2>2, <3>10, OthersOnTheWay DEF ReadFile, Typed
      <3> QED BY <3>7, <3>8, <3>9, <3>10
    <2> QED BY <2>1, <2>2
  <1>7. ASSUME NEW w \in Workers, FindExisting(w) PROVE Typed' /\ Dated' /\ \A v \in Workers : OnTheWay(v)'
    <2>1. Typed'
      BY <1>7 DEF Typed, FindExisting, Missing
    <2>2. Dated'
      BY <1>7 DEF Dated, FindExisting
    <2>3. OnTheWay(w)'
      BY <1>7 DEF OnTheWay, FindExisting, Missing, Typed
    <2>4. ASSUME NEW v \in Workers, v # w PROVE OnTheWay(v)'
      BY <1>7, <2>4, OthersOnTheWay DEF FindExisting, Typed
    <2> QED BY <2>1, <2>2, <2>3, <2>4
  <1>8. ASSUME NEW w \in Workers, NEW id \in RuleIds, MergeDocument(w, id) \/ MarkRemoved(w, id)
        PROVE Typed' /\ Dated' /\ \A v \in Workers : OnTheWay(v)'
    <2>1. PICK doc \in Documents : /\ catalog' = [catalog EXCEPT ![id] = doc]
                                   /\ doc = catalog[id] \/ (doc # None /\ IsDated(doc))
      BY <1>8, WritesADocument, Zenon
    <2>2. /\ todo' = [todo EXCEPT ![w] = @ \ {id}]
          /\ UNCHANGED <<disk, clock, pc, sync_time, root, unread, reading, discovered, existing,
                         edits, deaths>>
      BY <1>8, Zenon DEF MergeDocument, MarkRemoved
    <2>3. Typed'
      BY <2>1, <2>2 DEF Typed
    <2>4. Dated'
      BY <2>1 DEF Dated, Typed
    <2>5. \A other \in RuleIds : catalog[other] # None => catalog'[other] # None
      BY <2>1 DEF Typed
    <2>6. OnTheWay(w)'
      BY <1>8, <2>5 DEF OnTheWay, MergeDocument, MarkRemoved, Typed
    <2>7. ASSUME NEW v \in Workers, v # w PROVE OnTheWay(v)'
      BY <1>8, <2>5, <2>7, OthersOnTheWay DEF MergeDocument, MarkRemoved, Typed
    <2> QED BY <2>3, <2>4, <2>6, <2>7
  <1>9. ASSUME NEW w \in Workers, Finish(w) PROVE Typed' /\ Dated' /\ \A v \in Workers : OnTheWay(v)'
    <2>1. Typed'
      BY <1>9 DEF Typed, Finish
    <2>2. Dated'
      BY <1>9 DEF Dated, Finish
    <2>3. OnTheWay(w)'
      BY <1>9 DEF OnTheWay, Finish, Typed
    <2>4. ASSUME NEW v \in Workers, v # w PROVE OnTheWay(v)'
      BY <1>9, <2>4, OthersOnTheWay DEF Finish, Typed
    <2> QED BY <2>1, <2>2, <2>3, <2>4
  <1>10. CASE UNCHANGED vars
    <2>1. Typed'
      BY <1>10 DEF Typed, vars, localVars
    <2>2. Dated' /\ \A w \in Workers : OnTheWay(w)'
      BY <1>10 DEF Dated, OnTheWay, vars, localVars
    <2> QED BY <2>1, <2>2
  <1> QED BY <1>1, <1>2, <1>3, <1>4, <1>5, <1>6, <1>7, <1>8, <1>9, <1>10 DEF Next, SyncStep

\* The types of sync_rule_catalog, how far each sync is, and that documents say when a rule
\* was removed exactly while it is: whatever a late or half-done sync overwrites.
THEOREM TypeCorrect == Spec => []TypeOK
  <1>1. Init => TypeOK
    BY InitTyped
  <1>2. TypeOK /\ [Next]_vars => TypeOK'
    BY StepTyped
  <1> QED BY <1>1, <1>2, PTL DEF Spec

---------------------------------------------------------------------------
(* The last writer                                                           *)

\* What w has in mind of a rule is what the catalog says of it: it has not looked yet, it has
\* found the document as it still is, or the document agrees with what it has read.
Fresh(w, id) ==
  \/ pc[w] \in {"down", "list", "read"}
  \/ /\ pc[w] \in {"merge", "done"}
     /\ \/ id \in todo[w] /\ existing[w][id] = catalog[id]
        \/ id \notin todo[w] /\ Agrees(catalog[id], discovered[w][id])

\* Of every rule some worker's idea is fresh: that of the one that wrote the document last.
LastWriter ==
  \A id \in RuleIds : (\A w \in Workers : pc[w] = "new") \/ \E w \in Workers : Fresh(w, id)

CatalogInv == TypeOK /\ LastWriter

\* A step that neither writes the document nor moves the worker leaves its idea fresh.
LEMMA StaysFresh ==
  ASSUME NEW v \in Workers, NEW id \in RuleIds, Fresh(v, id),
         pc'[v] = pc[v], existing'[v] = existing[v], discovered'[v] = discovered[v],
         id \in todo'[v] <=> id \in todo[v], catalog'[id] = catalog[id]
  PROVE  Fresh(v, id)'
  BY Zenon DEF Fresh, Agrees

\* What w is about to do is not known to matter: a worker that has not looked yet is fresh.
LEMMA StepFromTheStart ==
  ASSUME LastWriter, NEW w \in Workers, pc'[w] \in {"down", "list", "read"}
  PROVE  LastWriter'
  BY DEF LastWriter, Fresh

LEMMA StepKeepsLastWriter == CatalogInv /\ [Next]_vars => LastWriter'
  <1> SUFFICES ASSUME Typed, \A w \in Workers : OnTheWay(w), LastWriter, [Next]_vars
               PROVE  LastWriter'
    BY TypeParts DEF CatalogInv
  <1>1. ASSUME NEW id \in RuleIds, Edit(id) PROVE LastWriter'
    BY <1>1 DEF LastWriter, Fresh, Agrees, Edit, localVars
  <1>2. ASSUME NEW w \in Workers, Forget(w) PROVE LastWriter'
    <2>1. pc'[w] = "down"
      BY <1>2 DEF Forget, Typed
    <2> QED BY <2>1, StepFromTheStart
  <1>3. ASSUME NEW w \in Workers, Start(w) \/ ListRoot(w) PROVE LastWriter'
    <2>1. pc'[w] \in {"list", "read"}
      BY <1>3 DEF Start, ListRoot, Typed
    <2> QED BY <2>1, StepFromTheStart
  <1>4. ASSUME NEW w \in Workers, NEW id \in RuleIds, StatFile(w, id), ~Forget(w) PROVE LastWriter'
    <2>1. pc'[w] = "read"
      BY <1>4 DEF StatFile
    <2> QED BY <2>1, StepFromTheStart
  <1>5. ASSUME NEW w \in Workers, ReadFile(w), ~Forget(w) PROVE LastWriter'
    <2>1. pc'[w] \in {"list", "read"}
      BY <1>5 DEF ReadFile, Typed
    <2> QED BY <2>1, StepFromTheStart
  <1>6. ASSUME NEW w \in Workers, FindExisting(w) PROVE LastWriter'
    <2>1. /\ pc'[w] = "merge" /\ existing'[w] = catalog /\ catalog' = catalog
          /\ discovered'[w] = discovered[w]
          /\ todo'[w] = {id \in RuleIds : discovered[w][id] # None} \cup Missing(w, catalog)
      BY <1>6 DEF FindExisting, Typed
    <2>2. ASSUME NEW id \in RuleIds PROVE Fresh(w, id)'
      <3>1. CASE id \in todo'[w]
        BY <2>1, <3>1 DEF Fresh
      <3>2. CASE id \notin todo'[w]
        <4>1. discovered[w][id] = None /\ (catalog[id] = None \/ catalog[id].status = "removed")
          BY <2>1, <3>2 DEF Missing
        <4>2. Agrees(catalog[id], discovered[w][id])'
          BY <2>1, <4>1 DEF Agrees
        <4> QED BY <2>1, <3>2, <4>2 DEF Fresh
      <3> QED BY <3>1, <3>2
    <2> QED BY <2>2 DEF LastWriter
  <1>7. ASSUME NEW w \in Workers, NEW id \in RuleIds, MergeDocument(w, id) \/ MarkRemoved(w, id)
        PROVE  LastWriter'
    <2>1. PICK doc \in Documents :
            /\ catalog' = [catalog EXCEPT ![id] = doc]
            /\ \/ doc = catalog[id] /\ Agrees(existing[w][id], discovered[w][id])
               \/ doc # None /\ IsDated(doc) /\ Agrees(doc, discovered[w][id])
      BY <1>7, WritesADocument, Zenon
    <2>2. /\ pc[w] = "merge" /\ id \in todo[w]
          /\ todo' = [todo EXCEPT ![w] = @ \ {id}]
          /\ UNCHANGED <<pc, existing, discovered>>
      BY <1>7, Zenon DEF MergeDocument, MarkRemoved
    <2>3. todo'[w] = todo[w] \ {id} /\ \A v \in Workers \ {w} : todo'[v] = todo[v]
      BY <2>2 DEF Typed
    <2>4. catalog'[id] = doc /\ \A other \in RuleIds \ {id} : catalog'[other] = catalog[other]
      BY <2>1 DEF Typed
    <2>5. ASSUME NEW other \in RuleIds, other # id PROVE \E v \in Workers : Fresh(v, other)'
      <3>1. PICK v \in Workers : Fresh(v, other)
        BY <2>2 DEF LastWriter
      <3>2. other \in todo'[v] <=> other \in todo[v]
        BY <2>3, <2>5
      <3> QED BY <2>2, <2>4, <2>5, <3>1, <3>2, StaysFresh
    <2>6. CASE Agrees(doc, discovered[w][id])
      <3>1. Agrees(catalog[id], discovered[w][id])'
        BY <2>2, <2>4, <2>6 DEF Agrees
      <3>2. Fresh(w, id)'
        BY <2>2, <2>3, <3>1 DEF Fresh
      <3> QED BY <2>5, <3>2 DEF LastWriter
    <2>7. CASE doc = catalog[id] /\ Agrees(existing[w][id], discovered[w][id])
      <3>1. PICK v \in Workers : Fresh(v, id)
        BY <2>2 DEF LastWriter
      <3>2. CASE v = w
        BY <2>2, <2>6, <2>7, <3>1, <3>2 DEF Fresh
      <3>3. CASE v # w
        <4>1. Fresh(v, id)'
          BY <2>2, <2>3, <2>4, <2>7, <3>1, <3>3, StaysFresh
        <4> QED BY <2>5, <4>1 DEF LastWriter
      <3> QED BY <3>2, <3>3
    <2> QED BY <2>1, <2>6, <2>7
  <1>8. ASSUME NEW w \in Workers, Finish(w) PROVE LastWriter'
    <2>1. /\ pc[w] = "merge" /\ pc' = [pc EXCEPT ![w] = "done"]
          /\ UNCHANGED <<catalog, existing, discovered, todo>>
      BY <1>8 DEF Finish
    <2>2. ASSUME NEW id \in RuleIds PROVE \E v \in Workers : Fresh(v, id)'
      <3>1. PICK v \in Workers : Fresh(v, id)
        BY <2>1 DEF LastWriter
      <3>2. pc'[v] = pc[v] \/ (pc[v] = "merge" /\ pc'[v] = "done")
        BY <2>1 DEF Typed
      <3> QED BY <2>1, <3>1, <3>2 DEF Fresh, Agrees
    <2> QED BY <2>2 DEF LastWriter
  <1>9. CASE UNCHANGED vars
    BY <1>9 DEF LastWriter, Fresh, Agrees, vars, localVars
  <1> QED BY <1>1, <1>2, <1>3, <1>4, <1>5, <1>6, <1>7, <1>8, <1>9 DEF Next, SyncStep, Die

\* A worker that is done has no document left to visit: if it is fresh and has read what is on
\* disk, the catalog says what is on disk.
LEMMA QuietFromLastWriter == CatalogInv => QuietCatalogMatches
  <1> SUFFICES ASSUME CatalogInv,
                      \A w \in Workers : pc[w] = "new" \/ (pc[w] = "done" /\ discovered[w] = disk),
                      ~ \A w \in Workers : pc[w] = "new",
                      NEW id \in RuleIds
               PROVE  Agrees(catalog[id], disk[id])
    BY DEF QuietCatalogMatches
  <1>1. PICK w \in Workers : Fresh(w, id)
    BY DEF CatalogInv, LastWriter
  <1>2. pc[w] = "done" /\ discovered[w] = disk
    BY <1>1 DEF Fresh
  <1>3. todo[w] = {}
    BY <1>2, TypeParts DEF CatalogInv, OnTheWay
  <1> QED BY <1>1, <1>2, <1>3 DEF Fresh

\* sync_rule_catalog with any number of replicas, deaths and edits: once every worker that ever
\* started has finished a sync that read what is on disk now, the catalog says what is on disk.
THEOREM QuietMatches == Spec => []QuietCatalogMatches
  <1>1. Init => CatalogInv
    BY InitTyped DEF Init, CatalogInv, LastWriter
  <1>2. CatalogInv /\ [Next]_vars => CatalogInv'
    BY StepTyped, StepKeepsLastWriter DEF CatalogInv
  <1> QED BY <1>1, <1>2, QuietFromLastWriter, PTL DEF Spec
=============================================================================
