----------------------------- MODULE IngestStack -----------------------------
(***************************************************************************)
(* The container stack: API requests (stack/ingest_api/app.py) and parser  *)
(* workers (stack/parser_worker/worker.py) that meet only in MongoDB.      *)
(* Every MongoDB operation is one atomic step; between two of them any     *)
(* other process may run, the process may be killed, and the operation     *)
(* may fail before or after the server applied it.                         *)
(***************************************************************************)
EXTENDS Integers, Sequences, FiniteSets

CONSTANTS BundleIds,    \* the bundle identifiers clients use
          Payloads,     \* schema-valid bundle contents
          Unparsable,   \* those the parser binary rejects (exit status # 0)
          Requests,     \* POST /api/v1/bundles calls, each served once
          Workers,      \* parser-worker processes
          BatchSize,    \* documents per reply of a find cursor
          FaultKinds,   \* the faults the environment may inject
          MaxFaults,    \* bound on the number of faults in a behaviour
          None          \* no document, no content, no worker

AllFaults == {"mongo_error", "lost_reply", "parser_error", "worker_killed",
              "api_killed"}

\* What a worker keeps of the document it claimed.
Documents == [bundle_id : BundleIds, bundle : Payloads \cup {None}]

ASSUME StackAssumption ==
    /\ Unparsable \subseteq Payloads
    /\ None \notin Payloads \cup Workers \cup Documents
    /\ BatchSize \in Nat \ {0}
    /\ FaultKinds \subseteq AllFaults
    /\ MaxFaults \in Nat

VARIABLES
    status, bundle, attempts, claimed_by,  \* the documents of ingestion.bundles
    inserts,                               \* their insertion order, the oplog's inserts
    parsed_results, report_results,        \* the documents of analysis.*
    req_pc, req_id, req_payload,           \* the requests being served
    pc, document, cursor, stream,          \* the workers' local state
    faults                                 \* faults injected so far

bundleVars   == <<status, bundle, attempts, claimed_by, inserts>>
analysisVars == <<parsed_results, report_results>>
requestVars  == <<req_pc, req_id, req_payload>>
workerVars   == <<pc, document, cursor, stream>>
vars == <<bundleVars, analysisVars, requestVars, workerVars, faults>>

Statuses == {"absent", "pending", "processing", "completed", "failed"}
Terminal == {"completed", "failed"}

ReplyCodes == {"202", "400", "401", "409", "500", "lost"}
InFlight   == {"lookup", "insert", "inserted"}
RequestPcs == {"idle"} \cup InFlight \cup ReplyCodes

Storing   == {"store_parsed", "store_report", "mark_completed"}
Holding   == {"parse", "mark_failed"} \cup Storing
WorkerPcs == {"down", "sync", "drain", "watch", "sleep"} \cup Holding

\* A stream position, or none: the change stream is not open.
Closed == -1

\* The find cursor of one drain: the documents of its last reply the loop has
\* not visited, those that existed when the scan began, and how far it is.
NewCursor == [batch |-> {}, known |-> {}, state |-> "new"]
CursorStates == {"new", "open", "exhausted"}

Init ==
    /\ status = [b \in BundleIds |-> "absent"]
    /\ bundle = [b \in BundleIds |-> None]
    /\ attempts = [b \in BundleIds |-> 0]
    /\ claimed_by = [b \in BundleIds |-> None]
    /\ inserts = <<>>
    /\ parsed_results = [b \in BundleIds |-> None]
    /\ report_results = [b \in BundleIds |-> None]
    /\ req_pc = [r \in Requests |-> "idle"]
    /\ req_id = [r \in Requests |-> None]
    /\ req_payload = [r \in Requests |-> None]
    /\ pc = [w \in Workers |-> "sync"]
    /\ document = [w \in Workers |-> None]
    /\ cursor = [w \in Workers |-> NewCursor]
    /\ stream = [w \in Workers |-> Closed]
    /\ faults = 0

-----------------------------------------------------------------------------
(* Faults.                                                                 *)

Inject(kind) ==
    /\ kind \in FaultKinds
    /\ faults < MaxFaults
    /\ faults' = faults + 1

\* What the caller of an external operation observes: "ok", or an exception
\* raised although the operation took effect ("lost") or instead of it.
Answers == {"ok", "lost", "failed"}

Mongo(answer) ==
    \/ answer = "ok" /\ UNCHANGED faults
    \/ answer = "lost" /\ Inject("lost_reply")
    \/ answer = "failed" /\ Inject("mongo_error")

-----------------------------------------------------------------------------
(* create_bundle.                                                          *)

\* An accepted request reaches find_one with its bundle_id; a generated
\* uuid is an identifier that no other request happens to use.
Submit(r) ==
    /\ req_pc[r] = "idle"
    /\ \E b \in BundleIds, p \in Payloads :
          /\ req_id' = [req_id EXCEPT ![r] = b]
          /\ req_payload' = [req_payload EXCEPT ![r] = p]
    /\ req_pc' = [req_pc EXCEPT ![r] = "lookup"]
    /\ UNCHANGED <<bundleVars, analysisVars, workerVars, faults>>

\* A wrong API key, an unreadable body, a schema violation, or a body that is
\* JSON but no object (payload.get raises).
Reject(r) ==
    /\ req_pc[r] = "idle"
    /\ \E code \in {"400", "401", "500"} : req_pc' = [req_pc EXCEPT ![r] = code]
    /\ UNCHANGED <<bundleVars, analysisVars, workerVars, req_id, req_payload, faults>>

FindExisting(r) ==
    /\ req_pc[r] = "lookup"
    /\ \E answer \in Answers \ {"lost"} :
          /\ Mongo(answer)
          /\ req_pc' = [req_pc EXCEPT ![r] =
                CASE answer # "ok" -> "500"
                  [] answer = "ok" /\ status[req_id[r]] # "absent" -> "409"
                  [] OTHER -> "insert"]
    /\ UNCHANGED <<bundleVars, analysisVars, workerVars, req_id, req_payload>>

\* The _id index makes the insert fail when the document exists by now.
CanInsertAnyway(b) == TRUE
CanInsert(b) == status[b] = "absent"

InsertDocument(r) ==
    LET b == req_id[r] IN
    /\ req_pc[r] = "insert"
    /\ \E answer \in Answers :
          /\ Mongo(answer)
          /\ IF answer # "failed" /\ CanInsert(b)
             THEN /\ status' = [status EXCEPT ![b] = "pending"]
                  /\ bundle' = [bundle EXCEPT ![b] = req_payload[r]]
                  /\ attempts' = [attempts EXCEPT ![b] = 0]
                  /\ claimed_by' = [claimed_by EXCEPT ![b] = None]
                  /\ inserts' = Append(inserts, b)
             ELSE UNCHANGED bundleVars
          /\ req_pc' = [req_pc EXCEPT ![r] =
                IF answer = "ok" /\ CanInsert(b) THEN "inserted" ELSE "500"]
    /\ UNCHANGED <<analysisVars, workerVars, req_id, req_payload>>

ReplyAccepted(r) ==
    /\ req_pc[r] = "inserted"
    /\ req_pc' = [req_pc EXCEPT ![r] = "202"]
    /\ UNCHANGED <<bundleVars, analysisVars, workerVars, req_id, req_payload, faults>>

\* The API container dies: its clients never get an answer.
KillApi ==
    /\ \E r \in Requests : req_pc[r] \in InFlight
    /\ Inject("api_killed")
    /\ req_pc' = [r \in Requests |-> IF req_pc[r] \in InFlight THEN "lost" ELSE req_pc[r]]
    /\ UNCHANGED <<bundleVars, analysisVars, workerVars, req_id, req_payload>>

-----------------------------------------------------------------------------
(* watch_loop and what it calls.                                           *)

\* Where process_pending_bundle returns to.
Caller(w) == IF stream[w] = Closed THEN "drain" ELSE "watch"

\* The except clause of watch_loop: cursor and stream are gone.
GoTo(w, next) == pc' = [pc EXCEPT ![w] = next]
AbandonLoop(w) ==
    /\ GoTo(w, "sleep")
    /\ document' = [document EXCEPT ![w] = None]
    /\ cursor' = [cursor EXCEPT ![w] = NewCursor]
    /\ stream' = [stream EXCEPT ![w] = Closed]

\* sync_configured_rule_catalog runs outside the try block: an error ends
\* the process.
SyncRules(w) ==
    /\ pc[w] = "sync"
    /\ \E answer \in Answers :
          /\ Mongo(answer)
          /\ GoTo(w, IF answer = "ok" THEN "drain" ELSE "down")
    /\ UNCHANGED <<bundleVars, analysisVars, requestVars, document, cursor, stream>>

\* One reply of the cursor of drain_pending_documents.  The scan follows the
\* index on status and received_at.  received_at is taken before the insert,
\* so a document inserted during the scan may appear behind its position and
\* be missed; one that was there from the start is returned unless it stops
\* being pending.  A reply that is not full is the last one.
FetchBatch(w) ==
    LET pending == {b \in BundleIds : status[b] = "pending"}
        known   == IF cursor[w].state = "new"
                   THEN {b \in BundleIds : status[b] # "absent"} ELSE cursor[w].known
    IN
    /\ pc[w] = "drain"
    /\ cursor[w].batch = {}
    /\ cursor[w].state # "exhausted"
    /\ \/ /\ Mongo("ok")
          /\ \E next \in SUBSET pending, state \in {"open", "exhausted"} :
                /\ IF state = "open" THEN Cardinality(next) = BatchSize
                   ELSE Cardinality(next) < BatchSize /\ pending \cap known \subseteq next
                /\ cursor' = [cursor EXCEPT ![w] =
                      [batch |-> next, known |-> known, state |-> state]]
          /\ UNCHANGED <<pc, document, stream>>
       \/ /\ Mongo("failed")
          /\ AbandonLoop(w)
    /\ UNCHANGED <<bundleVars, analysisVars, requestVars>>

\* find_one_and_update matches on the status.
ClaimableAnyStatus(b) == status[b] # "absent"
Claimable(b) == status[b] = "pending"

\* process_pending_bundle up to the claim, from either loop.
ClaimBundle(w, b, answer) ==
    LET claimed == answer # "failed" /\ Claimable(b) IN
    /\ Mongo(answer)
    /\ IF claimed
       THEN /\ status' = [status EXCEPT ![b] = "processing"]
            /\ attempts' = [attempts EXCEPT ![b] = @ + 1]
            /\ claimed_by' = [claimed_by EXCEPT ![b] = w]
       ELSE UNCHANGED <<status, attempts, claimed_by>>
    /\ GoTo(w, CASE answer # "ok" -> "sleep"
                 [] answer = "ok" /\ claimed -> "parse"
                 [] OTHER -> Caller(w))
    /\ document' = [document EXCEPT ![w] =
          IF answer = "ok" /\ claimed THEN [bundle_id |-> b, bundle |-> bundle[b]] ELSE None]
    /\ UNCHANGED <<bundle, inserts, analysisVars, requestVars>>

\* The next document of the batch; the index order is not modelled.
DrainNext(w) ==
    /\ pc[w] = "drain"
    /\ \E b \in cursor[w].batch, answer \in Answers :
          /\ ClaimBundle(w, b, answer)
          /\ cursor' = [cursor EXCEPT ![w] =
                IF answer = "ok" THEN [cursor[w] EXCEPT !.batch = @ \ {b}] ELSE NewCursor]
          /\ UNCHANGED stream

\* collection.watch: the stream starts at the current end of the oplog.
StreamStartPastEnd == Len(inserts) + 1
StreamStart == Len(inserts)

OpenStream(w) ==
    /\ pc[w] = "drain"
    /\ cursor[w].batch = {}
    /\ cursor[w].state = "exhausted"
    /\ \/ /\ Mongo("ok")
          /\ GoTo(w, "watch")
          /\ stream' = [stream EXCEPT ![w] = StreamStart]
          /\ cursor' = [cursor EXCEPT ![w] = NewCursor]
          /\ UNCHANGED document
       \/ /\ Mongo("failed")
          /\ AbandonLoop(w)
    /\ UNCHANGED <<bundleVars, analysisVars, requestVars>>

\* The next insert event.  Its fullDocument is the document as it was
\* inserted, so its status is always pending and only the claim decides.
NextEvent(w) ==
    /\ pc[w] = "watch"
    /\ stream[w] < Len(inserts)
    /\ \E answer \in Answers :
          /\ ClaimBundle(w, inserts[stream[w] + 1], answer)
          /\ stream' = [stream EXCEPT ![w] = IF answer = "ok" THEN @ + 1 ELSE Closed]
    /\ UNCHANGED cursor

StreamError(w) ==
    /\ pc[w] = "watch"
    /\ Mongo("failed")
    /\ AbandonLoop(w)
    /\ UNCHANGED <<bundleVars, analysisVars, requestVars>>

WakeUpWithoutDrain(w) ==
    /\ pc[w] = "sleep"
    /\ GoTo(w, "drain")
    /\ cursor' = [cursor EXCEPT ![w].state = "exhausted"]
    /\ UNCHANGED <<bundleVars, analysisVars, requestVars, document, stream, faults>>

WakeUp(w) ==
    /\ pc[w] = "sleep"
    /\ GoTo(w, "drain")
    /\ UNCHANGED <<bundleVars, analysisVars, requestVars, document, cursor, stream, faults>>

-----------------------------------------------------------------------------
(* process_claimed_document: each exception inside its try block leads to  *)
(* mark_failed.                                                            *)

AfterParserReportFirst(w) ==
    IF document[w].bundle \in Unparsable THEN "mark_failed" ELSE "store_report"
AfterParser(w) ==
    IF document[w].bundle \in Unparsable THEN "mark_failed" ELSE "store_parsed"

RunParser(w) ==
    /\ pc[w] = "parse"
    /\ \/ /\ UNCHANGED faults
          /\ GoTo(w, AfterParser(w))
       \/ /\ Inject("parser_error")
          /\ GoTo(w, "mark_failed")
    /\ UNCHANGED <<bundleVars, analysisVars, requestVars, document, cursor, stream>>

StoreParsed(w) ==
    /\ pc[w] = "store_parsed"
    /\ \E answer \in Answers :
          /\ Mongo(answer)
          /\ parsed_results' = IF answer = "failed" THEN parsed_results
                ELSE [parsed_results EXCEPT ![document[w].bundle_id] = document[w].bundle]
          /\ GoTo(w, IF answer = "ok" THEN "store_report" ELSE "mark_failed")
    /\ UNCHANGED <<bundleVars, report_results, requestVars, document, cursor, stream>>

StoreReportIgnoringErrors(w) ==
    /\ pc[w] = "store_report"
    /\ \E answer \in Answers :
          /\ Mongo(answer)
          /\ report_results' = IF answer = "failed" THEN report_results
                ELSE [report_results EXCEPT ![document[w].bundle_id] = document[w].bundle]
    /\ GoTo(w, "mark_completed")
    /\ UNCHANGED <<bundleVars, parsed_results, requestVars, document, cursor, stream>>

StoreReport(w) ==
    /\ pc[w] = "store_report"
    /\ \E answer \in Answers :
          /\ Mongo(answer)
          /\ report_results' = IF answer = "failed" THEN report_results
                ELSE [report_results EXCEPT ![document[w].bundle_id] = document[w].bundle]
          /\ GoTo(w, IF answer = "ok" THEN "mark_completed" ELSE "mark_failed")
    /\ UNCHANGED <<bundleVars, parsed_results, requestVars, document, cursor, stream>>

SetStatusUnmatched(b, new) == UNCHANGED bundleVars
SetStatus(b, new) ==
    /\ status' = [status EXCEPT ![b] = new]
    /\ UNCHANGED <<bundle, attempts, claimed_by, inserts>>

MarkCompleted(w) ==
    /\ pc[w] = "mark_completed"
    /\ \E answer \in Answers :
          /\ Mongo(answer)
          /\ IF answer = "failed" THEN UNCHANGED bundleVars
             ELSE SetStatus(document[w].bundle_id, "completed")
          /\ GoTo(w, IF answer = "ok" THEN Caller(w) ELSE "mark_failed")
          /\ document' = [document EXCEPT ![w] = IF answer = "ok" THEN None ELSE @]
    /\ UNCHANGED <<analysisVars, requestVars, cursor, stream>>

FailureRequeues == "pending"
FailureUnmarked == "processing"
FailureStatus == "failed"

\* An exception of mark_failed itself reaches watch_loop.
MarkFailed(w) ==
    /\ pc[w] = "mark_failed"
    /\ \E answer \in Answers :
          /\ Mongo(answer)
          /\ IF answer = "failed" THEN UNCHANGED bundleVars
             ELSE SetStatus(document[w].bundle_id, FailureStatus)
          /\ IF answer = "ok"
             THEN /\ GoTo(w, Caller(w))
                  /\ document' = [document EXCEPT ![w] = None]
                  /\ UNCHANGED <<cursor, stream>>
             ELSE AbandonLoop(w)
    /\ UNCHANGED <<analysisVars, requestVars>>

-----------------------------------------------------------------------------
(* The container runtime (restart: unless-stopped).                        *)

KillWorker(w) ==
    /\ pc[w] # "down"
    /\ Inject("worker_killed")
    /\ GoTo(w, "down")
    /\ document' = [document EXCEPT ![w] = None]
    /\ cursor' = [cursor EXCEPT ![w] = NewCursor]
    /\ stream' = [stream EXCEPT ![w] = Closed]
    /\ UNCHANGED <<bundleVars, analysisVars, requestVars>>

Restart(w) ==
    /\ pc[w] = "down"
    /\ GoTo(w, "sync")
    /\ UNCHANGED <<bundleVars, analysisVars, requestVars, document, cursor, stream, faults>>

-----------------------------------------------------------------------------
RequestStep(r) ==
    \/ Submit(r)
    \/ Reject(r)
    \/ FindExisting(r)
    \/ InsertDocument(r)
    \/ ReplyAccepted(r)

\* The steps a running worker takes by itself.
WorkerStep(w) ==
    \/ SyncRules(w)
    \/ FetchBatch(w)
    \/ DrainNext(w)
    \/ OpenStream(w)
    \/ NextEvent(w)
    \/ RunParser(w)
    \/ StoreParsed(w)
    \/ StoreReport(w)
    \/ MarkCompleted(w)
    \/ MarkFailed(w)
    \/ WakeUp(w)
    \/ Restart(w)

Next ==
    \/ \E r \in Requests : RequestStep(r)
    \/ KillApi
    \/ \E w \in Workers :
          \/ WorkerStep(w)
          \/ StreamError(w)
          \/ KillWorker(w)

Spec == Init /\ [][Next]_vars

\* The operating system schedules a running worker and the container runtime
\* restarts a dead one; nothing obliges a client to call.
FairSpec == Spec /\ \A w \in Workers : WF_vars(WorkerStep(w))

-----------------------------------------------------------------------------
(* Properties.                                                             *)

Cursors == [batch : SUBSET BundleIds, known : SUBSET BundleIds, state : CursorStates]

CollectionTypes ==
    /\ status \in [BundleIds -> Statuses]
    /\ bundle \in [BundleIds -> Payloads \cup {None}]
    /\ attempts \in [BundleIds -> Nat]
    /\ claimed_by \in [BundleIds -> Workers \cup {None}]
    /\ inserts \in Seq(BundleIds)
    /\ parsed_results \in [BundleIds -> Payloads \cup {None}]
    /\ report_results \in [BundleIds -> Payloads \cup {None}]

RequestTypes ==
    /\ req_pc \in [Requests -> RequestPcs]
    /\ req_id \in [Requests -> BundleIds \cup {None}]
    /\ req_payload \in [Requests -> Payloads \cup {None}]
    /\ \A r \in Requests : req_pc[r] \in InFlight \cup {"202", "409"} =>
          req_id[r] \in BundleIds /\ req_payload[r] \in Payloads

WorkerTypes ==
    /\ pc \in [Workers -> WorkerPcs]
    /\ document \in [Workers -> Documents \cup {None}]
    /\ cursor \in [Workers -> Cursors]
    /\ stream \in [Workers -> Int]
    /\ \A w \in Workers :
          /\ pc[w] \in Holding <=> document[w] # None
          /\ stream[w] \in Closed..Len(inserts)
          /\ pc[w] = "watch" => stream[w] # Closed
          /\ pc[w] \in {"down", "sync", "drain", "sleep"} => stream[w] = Closed

\* The types, which requests carry content, and where the workers are: a
\* worker holds a document exactly between the claim and the mark, and has a
\* stream only inside the watch loop.
TypeOK == CollectionTypes /\ RequestTypes /\ WorkerTypes /\ faults \in 0..MaxFaults

Holders(b) == {w \in Workers : document[w] # None /\ document[w].bundle_id = b}

\* claim_bundle: however many workers race, with stale cursors and replayed
\* events, a bundle is claimed once and only its claimant works on it.
SingleClaim ==
    \A b \in BundleIds :
        /\ attempts[b] = IF status[b] \in {"absent", "pending"} THEN 0 ELSE 1
        /\ Holders(b) \subseteq {claimed_by[b]}

\* process_claimed_document: whatever fails in between, a client that reads
\* completed finds both result documents, computed from what was submitted.
CompletedHasResults ==
    \A b \in BundleIds : status[b] = "completed" =>
        parsed_results[b] = bundle[b] /\ report_results[b] = bundle[b]

\* store_results: a result document belongs to a claimed bundle and was
\* computed from its content, and no report exists without parsed output.
ResultsFollowClaim ==
    \A b \in BundleIds :
        /\ parsed_results[b] # None => parsed_results[b] = bundle[b] /\ attempts[b] = 1
        /\ report_results[b] # None => report_results[b] = bundle[b] /\ parsed_results[b] # None

\* create_bundle: of the clients that submit one identifier at most one is
\* told 202, its content is the one that is stored, and 409 is only said of
\* an identifier that is taken.
RepliesAreTrue ==
    \A r \in Requests :
        /\ req_pc[r] \in {"inserted", "202"} =>
              /\ status[req_id[r]] # "absent"
              /\ bundle[req_id[r]] = req_payload[r]
              /\ \A q \in Requests \ {r} :
                    req_pc[q] \in {"inserted", "202"} => req_id[q] # req_id[r]
        /\ req_pc[r] = "409" => status[req_id[r]] # "absent"

\* What the collections say of one bundle: how its documents and its status
\* depend on each other.
StoredBundle(b) ==
    /\ status[b] = "absent" <=> bundle[b] = None
    /\ attempts[b] = IF status[b] \in {"absent", "pending"} THEN 0 ELSE 1
    /\ status[b] \in {"absent", "pending"} => parsed_results[b] = None
    /\ parsed_results[b] # None => parsed_results[b] = bundle[b]
    /\ report_results[b] # None => report_results[b] = bundle[b] /\ parsed_results[b] # None
    /\ status[b] = "completed" => parsed_results[b] # None /\ report_results[b] # None
    /\ status[b] = "failed" => bundle[b] \in Unparsable \/ faults > 0
    /\ bundle[b] \in Unparsable => parsed_results[b] = None

\* What a worker may rely on while it holds a document: nobody else changes
\* the bundle, and the results it has not stored yet do not exist.
HeldWork(w) ==
    document[w] # None =>
        LET b == document[w].bundle_id IN
        /\ claimed_by[b] = w
        /\ bundle[b] = document[w].bundle
        /\ \/ status[b] = "processing"
           \/ status[b] = "completed" /\ pc[w] = "mark_failed" /\ "lost_reply" \in FaultKinds
        /\ pc[w] \in {"parse", "store_parsed"} => parsed_results[b] = None
        /\ pc[w] \in {"parse", "store_parsed", "store_report"} => report_results[b] = None
        /\ pc[w] \in {"store_report", "mark_completed"} => parsed_results[b] # None
        /\ pc[w] = "mark_completed" => report_results[b] # None
        /\ pc[w] \in Storing => bundle[b] \notin Unparsable
        /\ pc[w] = "mark_failed" => bundle[b] \in Unparsable \/ faults > 0

\* process_claimed_document between its database calls: a claimed
\* document stays its claimant's until the mark, and the collections stay
\* consistent with how far the claimant is.
WorkConsistent ==
    /\ \A b \in BundleIds : StoredBundle(b)
    /\ \A w \in Workers : HeldWork(w)

Abandoned == {b \in BundleIds : status[b] = "processing" /\ Holders(b) = {}}

\* Nothing reclaims a bundle whose worker went away, but each fault strands
\* at most one: without faults every bundle in processing has its worker.
AbandonedAreCounted == Cardinality(Abandoned) <= faults

\* A bundle fails because the parser rejects it or because a fault occurred,
\* and what the parser rejects never gets a result document.
FailedForCause ==
    \A b \in BundleIds :
        /\ status[b] = "failed" => bundle[b] \in Unparsable \/ faults > 0
        /\ bundle[b] \in Unparsable => parsed_results[b] = None /\ status[b] # "completed"

\* The stack implements the promise about each bundle.
Lifecycle == INSTANCE BundleLifecycle
    WITH stage <- status, content <- bundle,
         parsed <- parsed_results, report <- report_results,
         MayRevoke <- "lost_reply" \in FaultKinds

ImplementsLifecycle == Lifecycle!LifecycleSpec

\* Worker w will meet bundle b in the drain it is in or will restart, or in
\* the stream it has open.
Covers(w, b) ==
    \/ pc[w] \in {"down", "sync", "sleep"}
    \/ /\ stream[w] = Closed
       /\ \/ cursor[w].state = "new"
          \/ b \in cursor[w].batch
          \/ cursor[w].state = "open" /\ b \in cursor[w].known
    \/ /\ stream[w] # Closed
       /\ \E k \in (stream[w] + 1)..Len(inserts) : inserts[k] = b

\* watch_loop: a pending bundle that some worker's drain or stream covers is
\* claimed, whatever errors and restarts happen on the way.
CoveredIsClaimed ==
    \A b \in BundleIds :
        (status[b] = "pending" /\ \E w \in Workers : Covers(w, b)) ~> (status[b] # "pending")

\* process_claimed_document: a claimed bundle is marked unless its worker
\* lost it to a fault.
ProcessingEnds ==
    \A b \in BundleIds :
        (status[b] = "processing") ~> (status[b] \in Terminal \/ (b \in Abandoned /\ faults > 0))

\* README, Event Flow, steps 4 and 5: every inserted bundle is claimed.
EveryInsertIsClaimed ==
    \A b \in BundleIds : (status[b] = "pending") ~> (status[b] # "pending")

\* README, Event Flow, step 7: every claimed bundle is marked.
EveryClaimIsMarked ==
    \A b \in BundleIds : (status[b] = "processing") ~> (status[b] \in Terminal)
=============================================================================
