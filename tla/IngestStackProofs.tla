-------------------------- MODULE IngestStackProofs --------------------------
(***************************************************************************)
(* Proofs about IngestStack, for every set of bundles, requests and        *)
(* workers and every number of faults.                                     *)
(***************************************************************************)
EXTENDS IngestStack, FiniteSetTheorems, TLAPS

-----------------------------------------------------------------------------
(* What a step leaves alone, and what every fault and every exit from the  *)
(* loop does, once for all actions.                                        *)

LEMMA SameCollections ==
  CollectionTypes /\ UNCHANGED <<bundleVars, analysisVars>> => CollectionTypes'
BY DEF CollectionTypes, bundleVars, analysisVars

LEMMA SameRequests == RequestTypes /\ UNCHANGED requestVars => RequestTypes'
BY DEF RequestTypes, requestVars

LEMMA SameWorkers ==
  WorkerTypes /\ UNCHANGED <<workerVars, inserts>> => WorkerTypes'
BY DEF WorkerTypes, workerVars

LEMMA FaultCount ==
  ASSUME NEW kind, faults \in 0..MaxFaults, Inject(kind)
  PROVE  faults' \in 0..MaxFaults /\ faults' = faults + 1
BY StackAssumption DEF Inject

LEMMA MongoFaults ==
  ASSUME NEW answer, faults \in 0..MaxFaults, Mongo(answer)
  PROVE  /\ faults' \in 0..MaxFaults
         /\ faults' >= faults
         /\ answer # "ok" => faults' = faults + 1
BY StackAssumption DEF Mongo, Inject

\* Leaving the loop, for sleep or because the process died.
LEMMA ReleaseTypes ==
  ASSUME WorkerTypes, NEW w \in Workers, UNCHANGED inserts, CollectionTypes,
         NEW next \in {"sleep", "down"},
         pc' = [pc EXCEPT ![w] = next],
         document' = [document EXCEPT ![w] = None],
         cursor' = [cursor EXCEPT ![w] = NewCursor],
         stream' = [stream EXCEPT ![w] = Closed]
  PROVE  WorkerTypes'
BY DEF WorkerTypes, CollectionTypes, WorkerPcs, Holding, Storing, Closed, NewCursor, Cursors,
       CursorStates

\* A step inside process_claimed_document that only moves the worker on.
LEMMA MoveTypes ==
  ASSUME WorkerTypes, NEW w \in Workers, UNCHANGED <<inserts, document, cursor, stream>>,
         pc[w] \in Holding, NEW next \in Holding, pc' = [pc EXCEPT ![w] = next]
  PROVE  WorkerTypes'
BY DEF WorkerTypes, WorkerPcs, Holding, Storing

\* The end of process_claimed_document: the worker goes back to its loop.
LEMMA ReturnTypes ==
  ASSUME WorkerTypes, NEW w \in Workers, UNCHANGED <<inserts, cursor, stream>>,
         pc' = [pc EXCEPT ![w] = Caller(w)],
         document' = [document EXCEPT ![w] = None]
  PROVE  WorkerTypes'
BY DEF WorkerTypes, WorkerPcs, Holding, Storing, Caller, Closed

LEMMA HeldDocument ==
  ASSUME WorkerTypes, NEW w \in Workers, pc[w] \in Holding
  PROVE  document[w] \in Documents
BY DEF WorkerTypes

-----------------------------------------------------------------------------
(* Type correctness.                                                       *)

LEMMA ClaimTypes ==
  ASSUME TypeOK, NEW w \in Workers, NEW b \in BundleIds, NEW answer \in Answers,
         ClaimBundle(w, b, answer)
  PROVE  /\ CollectionTypes'
         /\ RequestTypes'
         /\ faults' \in 0..MaxFaults
<1>1. CollectionTypes'
  <2>1. CASE answer # "failed" /\ Claimable(b)
    <3>1. /\ status' = [status EXCEPT ![b] = "processing"]
          /\ attempts' = [attempts EXCEPT ![b] = @ + 1]
          /\ claimed_by' = [claimed_by EXCEPT ![b] = w]
          /\ UNCHANGED <<bundle, inserts, parsed_results, report_results>>
          /\ status[b] = "pending"
      BY <2>1 DEF ClaimBundle, Claimable, analysisVars
    <3>2. QED
      BY <3>1 DEF TypeOK, CollectionTypes, Statuses
  <2>2. CASE ~(answer # "failed" /\ Claimable(b))
    BY <2>2, SameCollections DEF TypeOK, ClaimBundle, bundleVars
  <2>3. QED
    BY <2>1, <2>2
<1>2. RequestTypes'
  BY SameRequests DEF TypeOK, ClaimBundle
<1>3. faults' \in 0..MaxFaults
  BY MongoFaults DEF TypeOK, ClaimBundle
<1>4. QED
  BY <1>1, <1>2, <1>3

\* The claim either hands the worker a document, or returns it to its loop,
\* or throws it out of the loop.
LEMMA ClaimOutcome ==
  ASSUME TypeOK, NEW w \in Workers, NEW b \in BundleIds, NEW answer \in Answers,
         ClaimBundle(w, b, answer)
  PROVE  \/ /\ answer = "ok"
            /\ Claimable(b)
            /\ pc' = [pc EXCEPT ![w] = "parse"]
            /\ document' = [document EXCEPT ![w] = [bundle_id |-> b, bundle |-> bundle[b]]]
         \/ /\ answer = "ok"
            /\ ~Claimable(b)
            /\ pc' = [pc EXCEPT ![w] = Caller(w)]
            /\ document' = [document EXCEPT ![w] = None]
         \/ /\ answer # "ok"
            /\ pc' = [pc EXCEPT ![w] = "sleep"]
            /\ document' = [document EXCEPT ![w] = None]
BY DEF ClaimBundle, GoTo, Answers

\* What the claim does to the worker, with its cursor and stream.
LEMMA ClaimedWorker ==
  ASSUME TypeOK, NEW w \in Workers, NEW b \in BundleIds, NEW answer \in Answers,
         ClaimBundle(w, b, answer),
         NEW c \in Cursors, cursor' = [cursor EXCEPT ![w] = c],
         \/ pc[w] = "drain" /\ UNCHANGED stream
         \/ /\ pc[w] = "watch"
            /\ stream' = [stream EXCEPT ![w] = IF answer = "ok" THEN @ + 1 ELSE Closed]
            /\ stream[w] \in 0..(Len(inserts) - 1)
  PROVE  WorkerTypes'
<1>1. UNCHANGED inserts /\ Len(inserts) \in Nat
  BY DEF ClaimBundle, TypeOK, CollectionTypes
<1>2. Claimable(b) => [bundle_id |-> b, bundle |-> bundle[b]] \in Documents
  BY StackAssumption DEF TypeOK, CollectionTypes, Claimable, Documents
<1>3. None \notin Documents
  BY StackAssumption
<1> USE DEF TypeOK, WorkerTypes, WorkerPcs, Holding, Storing, Closed
<1>4. CASE pc' = [pc EXCEPT ![w] = "sleep"] /\ document' = [document EXCEPT ![w] = None]
           /\ answer # "ok"
  BY <1>1, <1>4
<1>5. CASE pc' = [pc EXCEPT ![w] = Caller(w)] /\ document' = [document EXCEPT ![w] = None]
           /\ answer = "ok"
  BY <1>1, <1>5 DEF Caller
<1>6. CASE /\ answer = "ok"
           /\ Claimable(b)
           /\ pc' = [pc EXCEPT ![w] = "parse"]
           /\ document' = [document EXCEPT ![w] = [bundle_id |-> b, bundle |-> bundle[b]]]
  BY <1>1, <1>2, <1>3, <1>6
<1>7. QED
  BY <1>4, <1>5, <1>6, ClaimOutcome

\* A status written by mark_completed or mark_failed.
LEMMA MarkTypes ==
  ASSUME CollectionTypes, NEW b \in BundleIds, NEW new \in Statuses,
         SetStatus(b, new), UNCHANGED analysisVars
  PROVE  CollectionTypes' /\ UNCHANGED inserts
BY DEF CollectionTypes, SetStatus, analysisVars

\* The types hold in every reachable state.
THEOREM TypeCorrect == Spec => []TypeOK
<1>1. Init => TypeOK
  BY StackAssumption DEF Init, TypeOK, CollectionTypes, RequestTypes, WorkerTypes, Statuses,
     RequestPcs, InFlight, WorkerPcs, Holding, Storing, Cursors, CursorStates, NewCursor, Closed
<1>2. TypeOK /\ [Next]_vars => TypeOK'
  <2> SUFFICES ASSUME TypeOK, [Next]_vars PROVE TypeOK'
    OBVIOUS
  <2> USE StackAssumption, SameCollections, SameRequests, SameWorkers, FaultCount, MongoFaults
      DEF TypeOK
  <2>1. ASSUME NEW r \in Requests, Submit(r) PROVE TypeOK'
    <3>1. RequestTypes'
      BY <2>1 DEF Submit, RequestTypes, RequestPcs, InFlight
    <3>2. QED
      BY <2>1, <3>1 DEF Submit, bundleVars
  <2>2. ASSUME NEW r \in Requests, Reject(r) PROVE TypeOK'
    <3>1. RequestTypes'
      BY <2>2 DEF Reject, RequestTypes, RequestPcs, InFlight, ReplyCodes
    <3>2. QED
      BY <2>2, <3>1 DEF Reject, bundleVars
  <2>3. ASSUME NEW r \in Requests, FindExisting(r) PROVE TypeOK'
    <3>1. PICK next \in {"500", "409", "insert"} : req_pc' = [req_pc EXCEPT ![r] = next]
      BY <2>3 DEF FindExisting, Answers
    <3>2. RequestTypes'
      BY <2>3, <3>1 DEF FindExisting, RequestTypes, RequestPcs, InFlight, ReplyCodes
    <3>3. QED
      BY <2>3, <3>2 DEF FindExisting, bundleVars
  <2>4. ASSUME NEW r \in Requests, InsertDocument(r) PROVE TypeOK'
    <3> DEFINE b == req_id[r]
    <3>1. PICK next \in {"500", "inserted"} : req_pc' = [req_pc EXCEPT ![r] = next]
      BY <2>4 DEF InsertDocument
    <3>2. RequestTypes'
      BY <2>4, <3>1 DEF InsertDocument, RequestTypes, RequestPcs, InFlight, ReplyCodes
    <3>3. b \in BundleIds /\ req_payload[r] \in Payloads
      BY <2>4 DEF InsertDocument, RequestTypes, InFlight
    <3>4. CASE UNCHANGED bundleVars
      BY <2>4, <3>2, <3>4 DEF InsertDocument, bundleVars
    <3>5. CASE /\ status' = [status EXCEPT ![b] = "pending"]
               /\ bundle' = [bundle EXCEPT ![b] = req_payload[r]]
               /\ attempts' = [attempts EXCEPT ![b] = 0]
               /\ claimed_by' = [claimed_by EXCEPT ![b] = None]
               /\ inserts' = Append(inserts, b)
      <4>1. CollectionTypes'
        BY <2>4, <3>3, <3>5 DEF InsertDocument, CollectionTypes, Statuses, analysisVars
      <4>2. inserts \in Seq(BundleIds) /\ Len(inserts') = Len(inserts) + 1
        BY <3>3, <3>5 DEF CollectionTypes
      <4>3. UNCHANGED workerVars
        BY <2>4 DEF InsertDocument
      <4>4. WorkerTypes'
        BY <4>2, <4>3 DEF WorkerTypes, workerVars, Closed
      <4>5. faults' \in 0..MaxFaults
        BY <2>4 DEF InsertDocument
      <4>6. QED
        BY <3>2, <4>1, <4>4, <4>5
    <3>6. QED
      BY <2>4, <3>4, <3>5 DEF InsertDocument
  <2>5. ASSUME NEW r \in Requests, ReplyAccepted(r) PROVE TypeOK'
    <3>1. RequestTypes'
      BY <2>5 DEF ReplyAccepted, RequestTypes, RequestPcs, InFlight, ReplyCodes
    <3>2. QED
      BY <2>5, <3>1 DEF ReplyAccepted, bundleVars
  <2>6. ASSUME KillApi PROVE TypeOK'
    <3>1. RequestTypes'
      BY <2>6 DEF KillApi, RequestTypes, RequestPcs, InFlight, ReplyCodes
    <3>2. QED
      BY <2>6, <3>1 DEF KillApi, bundleVars
  <2>7. ASSUME NEW w \in Workers, SyncRules(w) PROVE TypeOK'
    <3>1. PICK next \in {"drain", "down"} : pc' = [pc EXCEPT ![w] = next]
      BY <2>7 DEF SyncRules, GoTo
    <3>2. WorkerTypes'
      BY <2>7, <3>1 DEF SyncRules, WorkerTypes, WorkerPcs, Holding, Storing, bundleVars
    <3>3. QED
      BY <2>7, <3>2 DEF SyncRules
  <2>8. ASSUME NEW w \in Workers, FetchBatch(w) PROVE TypeOK'
    <3>1. CASE Mongo("failed") /\ AbandonLoop(w)
      BY <2>8, <3>1, ReleaseTypes DEF FetchBatch, AbandonLoop, GoTo, bundleVars
    <3>2. CASE Mongo("ok") /\ UNCHANGED <<pc, document, stream>>
      <4>1. PICK c \in Cursors : cursor' = [cursor EXCEPT ![w] = c]
        <5>1. cursor[w].known \in SUBSET BundleIds
          BY DEF WorkerTypes, Cursors
        <5>2. QED
          BY <2>8, <5>1 DEF FetchBatch, AbandonLoop, NewCursor, Cursors, CursorStates
      <4>2. WorkerTypes'
        BY <2>8, <3>2, <4>1 DEF FetchBatch, WorkerTypes, bundleVars
      <4>3. QED
        BY <2>8, <3>2, <4>2 DEF FetchBatch
    <3>3. QED
      BY <2>8, <3>1, <3>2 DEF FetchBatch
  <2>9. ASSUME NEW w \in Workers, DrainNext(w) PROVE TypeOK'
    <3>1. PICK b \in cursor[w].batch, answer \in Answers :
             /\ ClaimBundle(w, b, answer)
             /\ cursor' = [cursor EXCEPT ![w] =
                   IF answer = "ok" THEN [cursor[w] EXCEPT !.batch = @ \ {b}] ELSE NewCursor]
             /\ UNCHANGED stream
      BY <2>9 DEF DrainNext
    <3>2. b \in BundleIds /\ cursor[w] \in Cursors
      BY DEF WorkerTypes, Cursors
    <3>3. CollectionTypes' /\ RequestTypes' /\ faults' \in 0..MaxFaults
      BY <3>1, <3>2, ClaimTypes
    <3>4. PICK c \in Cursors : cursor' = [cursor EXCEPT ![w] = c]
      <4>1. [cursor[w] EXCEPT !.batch = @ \ {b}] \in Cursors /\ NewCursor \in Cursors
        BY <3>2 DEF Cursors, CursorStates, NewCursor
      <4>2. CASE answer = "ok"
        BY <3>1, <4>1, <4>2
      <4>3. CASE answer # "ok"
        BY <3>1, <4>1, <4>3
      <4>4. QED
        BY <4>2, <4>3
    <3>5. WorkerTypes'
      BY <3>1, <3>2, <3>4, <2>9, ClaimedWorker DEF DrainNext
    <3>6. QED
      BY <3>3, <3>5
  <2>10. ASSUME NEW w \in Workers, OpenStream(w) PROVE TypeOK'
    <3>1. CASE Mongo("failed") /\ AbandonLoop(w)
      BY <2>10, <3>1, ReleaseTypes DEF OpenStream, AbandonLoop, GoTo, bundleVars
    <3>2. CASE /\ Mongo("ok")
               /\ GoTo(w, "watch")
               /\ stream' = [stream EXCEPT ![w] = StreamStart]
               /\ cursor' = [cursor EXCEPT ![w] = NewCursor]
               /\ UNCHANGED document
      <4>1. Len(inserts) \in Nat /\ NewCursor \in Cursors
        BY DEF CollectionTypes, NewCursor, Cursors, CursorStates
      <4>2. WorkerTypes'
        BY <2>10, <3>2, <4>1 DEF OpenStream, WorkerTypes, bundleVars, GoTo, StreamStart, Closed,
           WorkerPcs, Holding, Storing
      <4>3. QED
        BY <2>10, <3>2, <4>2 DEF OpenStream
    <3>3. QED
      BY <2>10, <3>1, <3>2 DEF OpenStream
  <2>11. ASSUME NEW w \in Workers, NextEvent(w) PROVE TypeOK'
    <3> DEFINE b == inserts[stream[w] + 1]
    <3>1. PICK answer \in Answers :
             /\ ClaimBundle(w, b, answer)
             /\ stream' = [stream EXCEPT ![w] = IF answer = "ok" THEN @ + 1 ELSE Closed]
      BY <2>11 DEF NextEvent
    <3>2. b \in BundleIds /\ stream[w] \in 0..Len(inserts)
      BY <2>11 DEF NextEvent, WorkerTypes, CollectionTypes, Closed
    <3>3. CollectionTypes' /\ RequestTypes' /\ faults' \in 0..MaxFaults
      BY <3>1, <3>2, ClaimTypes
    <3>4. PICK c \in Cursors : cursor' = [cursor EXCEPT ![w] = c]
      <4>1. cursor[w] \in Cursors /\ cursor' = [cursor EXCEPT ![w] = cursor[w]]
        BY <2>11 DEF NextEvent, WorkerTypes
      <4>2. QED
        BY <4>1
    <3>5. WorkerTypes'
      <4>1. stream[w] \in 0..(Len(inserts) - 1) /\ pc[w] = "watch"
        BY <3>2, <2>11 DEF NextEvent, CollectionTypes
      <4>2. QED
        BY <3>1, <3>2, <3>4, <4>1, ClaimedWorker
    <3>6. QED
      BY <3>3, <3>5
  <2>12. ASSUME NEW w \in Workers, StreamError(w) PROVE TypeOK'
    BY <2>12, ReleaseTypes DEF StreamError, AbandonLoop, GoTo, bundleVars
  <2>13. ASSUME NEW w \in Workers, WakeUp(w) PROVE TypeOK'
    <3>1. WorkerTypes'
      BY <2>13 DEF WakeUp, GoTo, WorkerTypes, WorkerPcs, Holding, Storing, bundleVars
    <3>2. QED
      BY <2>13, <3>1 DEF WakeUp
  <2>14. ASSUME NEW w \in Workers, RunParser(w) PROVE TypeOK'
    <3>1. PICK next \in {"mark_failed", "store_parsed"} : pc' = [pc EXCEPT ![w] = next]
      BY <2>14 DEF RunParser, AfterParser, GoTo
    <3>2. next \in Holding /\ pc[w] \in Holding
      BY <2>14 DEF RunParser, Holding, Storing
    <3>3. QED
      BY <2>14, <3>1, <3>2, MoveTypes DEF RunParser, bundleVars
  <2>15. ASSUME NEW w \in Workers, StoreParsed(w) PROVE TypeOK'
    <3>1. PICK next \in {"mark_failed", "store_report"} : pc' = [pc EXCEPT ![w] = next]
      BY <2>15 DEF StoreParsed, GoTo
    <3>2. next \in Holding /\ pc[w] \in Holding
      BY <2>15 DEF StoreParsed, Holding, Storing
    <3>3. WorkerTypes' /\ RequestTypes' /\ faults' \in 0..MaxFaults
      BY <2>15, <3>1, <3>2, MoveTypes DEF StoreParsed, bundleVars
    <3>4. CollectionTypes'
      BY <2>15, <3>2, HeldDocument DEF StoreParsed, CollectionTypes, Documents, bundleVars
    <3>5. QED
      BY <3>3, <3>4
  <2>16. ASSUME NEW w \in Workers, StoreReport(w) PROVE TypeOK'
    <3>1. PICK next \in {"mark_failed", "mark_completed"} : pc' = [pc EXCEPT ![w] = next]
      BY <2>16 DEF StoreReport, GoTo
    <3>2. next \in Holding /\ pc[w] \in Holding
      BY <2>16 DEF StoreReport, Holding, Storing
    <3>3. WorkerTypes' /\ RequestTypes' /\ faults' \in 0..MaxFaults
      BY <2>16, <3>1, <3>2, MoveTypes DEF StoreReport, bundleVars
    <3>4. CollectionTypes'
      BY <2>16, <3>2, HeldDocument DEF StoreReport, CollectionTypes, Documents, bundleVars
    <3>5. QED
      BY <3>3, <3>4
  <2>17. ASSUME NEW w \in Workers, MarkCompleted(w) PROVE TypeOK'
    <3>1. pc[w] \in Holding /\ "mark_failed" \in Holding
      BY <2>17 DEF MarkCompleted, Holding, Storing
    <3>2. CollectionTypes' /\ UNCHANGED inserts
      <4>1. CASE UNCHANGED bundleVars
        BY <2>17, <4>1 DEF MarkCompleted, bundleVars
      <4>2. CASE SetStatus(document[w].bundle_id, "completed")
        BY <2>17, <4>2, <3>1, HeldDocument, MarkTypes DEF MarkCompleted, Documents, Statuses,
           SetStatus
      <4>3. QED
        BY <2>17, <4>1, <4>2 DEF MarkCompleted
    <3>3. WorkerTypes'
      <4>1. \/ GoTo(w, Caller(w)) /\ document' = [document EXCEPT ![w] = None]
            \/ GoTo(w, "mark_failed") /\ document' = document
        BY <2>17 DEF MarkCompleted, WorkerTypes
      <4>2. QED
        BY <2>17, <3>1, <3>2, <4>1, ReturnTypes, MoveTypes DEF MarkCompleted, GoTo
    <3>4. QED
      BY <2>17, <3>2, <3>3 DEF MarkCompleted
  <2>18. ASSUME NEW w \in Workers, MarkFailed(w) PROVE TypeOK'
    <3>1. pc[w] \in Holding
      BY <2>18 DEF MarkFailed, Holding
    <3>2. CollectionTypes' /\ UNCHANGED inserts
      <4>1. CASE UNCHANGED bundleVars
        BY <2>18, <4>1 DEF MarkFailed, bundleVars
      <4>2. CASE SetStatus(document[w].bundle_id, "failed")
        BY <2>18, <4>2, <3>1, HeldDocument, MarkTypes DEF MarkFailed, Documents, Statuses,
           SetStatus
      <4>3. QED
        BY <2>18, <4>1, <4>2 DEF MarkFailed, FailureStatus
    <3>3. WorkerTypes'
      BY <2>18, <3>2, ReturnTypes, ReleaseTypes DEF MarkFailed, GoTo, AbandonLoop
    <3>4. QED
      BY <2>18, <3>2, <3>3 DEF MarkFailed
  <2>19. ASSUME NEW w \in Workers, KillWorker(w) PROVE TypeOK'
    BY <2>19, ReleaseTypes DEF KillWorker, GoTo, bundleVars
  <2>20. ASSUME NEW w \in Workers, Restart(w) PROVE TypeOK'
    <3>1. WorkerTypes'
      BY <2>20 DEF Restart, GoTo, WorkerTypes, WorkerPcs, Holding, Storing, bundleVars
    <3>2. QED
      BY <2>20, <3>1 DEF Restart
  <2>21. CASE UNCHANGED vars
    BY <2>21 DEF vars, workerVars, bundleVars
  <2>22. QED
    BY <2>1, <2>2, <2>3, <2>4, <2>5, <2>6, <2>7, <2>8, <2>9, <2>10, <2>11, <2>12,
       <2>13, <2>14, <2>15, <2>16, <2>17, <2>18, <2>19, <2>20, <2>21
       DEF Next, RequestStep, WorkerStep
<1>3. QED
  BY <1>1, <1>2, PTL DEF Spec

-----------------------------------------------------------------------------
(* WorkConsistent.  A worker's step changes the state of that worker and   *)
(* the documents of the one bundle it holds or claims; what it must show   *)
(* is only about these two, the rest follows from claimed_by.              *)

IInv == TypeOK /\ WorkConsistent

LEMMA OthersKeep ==
  ASSUME IInv, NEW w \in Workers, NEW b0 \in BundleIds,
         \A v \in Workers \ {w} : pc'[v] = pc[v] /\ document'[v] = document[v],
         \A v \in Workers \ {w} : document[v] # None => document[v].bundle_id # b0,
         \A b \in BundleIds \ {b0} :
            /\ status'[b] = status[b] /\ bundle'[b] = bundle[b]
            /\ attempts'[b] = attempts[b] /\ claimed_by'[b] = claimed_by[b]
            /\ parsed_results'[b] = parsed_results[b]
            /\ report_results'[b] = report_results[b],
         faults' >= faults, faults' \in Nat,
         HeldWork(w)', StoredBundle(b0)'
  PROVE  WorkConsistent'
<1>1. faults \in Nat
  BY StackAssumption DEF IInv, TypeOK
<1>2. ASSUME NEW v \in Workers \ {w} PROVE HeldWork(v)'
  <2>1. document[v] # None => document[v].bundle_id \in BundleIds \ {b0}
    BY DEF IInv, TypeOK, WorkerTypes, Documents
  <2>2. HeldWork(v)
    BY DEF IInv, WorkConsistent
  <2>3. QED
    BY <1>1, <2>1, <2>2 DEF HeldWork
<1>3. ASSUME NEW b \in BundleIds \ {b0} PROVE StoredBundle(b)'
  BY <1>1 DEF IInv, WorkConsistent, StoredBundle
<1>4. QED
  BY <1>2, <1>3 DEF WorkConsistent

\* A step that changes no document and leaves worker w without one, or with
\* the one it has at a program point its state allows.
LEMMA WorkerOnly ==
  ASSUME IInv, NEW w \in Workers, UNCHANGED <<bundleVars, analysisVars>>,
         \A v \in Workers \ {w} : pc'[v] = pc[v] /\ document'[v] = document[v],
         faults' >= faults, faults' \in Nat,
         HeldWork(w)'
  PROVE  WorkConsistent'
<1>1. faults \in Nat
  BY StackAssumption DEF IInv, TypeOK
<1>2. ASSUME NEW v \in Workers \ {w} PROVE HeldWork(v)'
  <2>1. HeldWork(v)
    BY DEF IInv, WorkConsistent
  <2>2. QED
    BY <1>1, <2>1 DEF HeldWork, bundleVars, analysisVars
<1>3. ASSUME NEW b \in BundleIds PROVE StoredBundle(b)'
  BY <1>1 DEF IInv, WorkConsistent, StoredBundle, bundleVars, analysisVars
<1>4. QED
  BY <1>2, <1>3 DEF WorkConsistent

\* A request's step that stores nothing.
LEMMA RequestOnly ==
  ASSUME IInv, UNCHANGED <<bundleVars, analysisVars, workerVars>>,
         faults' >= faults, faults' \in Nat
  PROVE  WorkConsistent'
<1>1. faults \in Nat
  BY StackAssumption DEF IInv, TypeOK
<1>2. ASSUME NEW v \in Workers PROVE HeldWork(v)'
  <2>1. HeldWork(v)
    BY DEF IInv, WorkConsistent
  <2>2. QED
    BY <1>1, <2>1 DEF HeldWork, bundleVars, analysisVars, workerVars
<1>3. ASSUME NEW b \in BundleIds PROVE StoredBundle(b)'
  BY <1>1 DEF IInv, WorkConsistent, StoredBundle, bundleVars, analysisVars
<1>4. QED
  BY <1>2, <1>3 DEF WorkConsistent

\* The document a worker holds, with what the invariant says of its bundle.
LEMMA HeldFacts ==
  ASSUME IInv, NEW w \in Workers, pc[w] \in Holding
  PROVE  /\ document[w] \in Documents
         /\ document[w] # None
         /\ document[w].bundle_id \in BundleIds
         /\ HeldWork(w)
         /\ StoredBundle(document[w].bundle_id)
         /\ \A v \in Workers \ {w} :
               document[v] # None => document[v].bundle_id # document[w].bundle_id
<1>1. document[w] \in Documents /\ document[w] # None
  BY DEF IInv, TypeOK, WorkerTypes
<1>2. document[w].bundle_id \in BundleIds
  BY <1>1 DEF Documents
<1>3. \A v \in Workers : HeldWork(v)
  BY DEF IInv, WorkConsistent
<1>4. StoredBundle(document[w].bundle_id)
  BY <1>2 DEF IInv, WorkConsistent
<1>5. \A v \in Workers \ {w} :
        document[v] # None => document[v].bundle_id # document[w].bundle_id
  BY <1>1, <1>3 DEF HeldWork
<1>6. QED
  BY <1>1, <1>2, <1>3, <1>4, <1>5

\* The claim is safe: the bundle was pending, so no other worker holds it
\* and none of its results exist.
LEMMA ClaimKeeps ==
  ASSUME IInv, NEW w \in Workers, NEW b \in BundleIds, NEW answer \in Answers,
         ClaimBundle(w, b, answer)
  PROVE  WorkConsistent'
<1>1. faults' >= faults /\ faults' \in Nat /\ faults \in Nat
  BY StackAssumption, MongoFaults DEF IInv, TypeOK, ClaimBundle
<1>2. TypeOK
  BY DEF IInv
<1>3. \A v \in Workers \ {w} : pc'[v] = pc[v] /\ document'[v] = document[v]
  BY <1>2 DEF ClaimBundle, GoTo, TypeOK, WorkerTypes
<1>4. CASE answer # "failed" /\ Claimable(b)
  <2>1. /\ status' = [status EXCEPT ![b] = "processing"]
        /\ attempts' = [attempts EXCEPT ![b] = @ + 1]
        /\ claimed_by' = [claimed_by EXCEPT ![b] = w]
        /\ UNCHANGED <<bundle, parsed_results, report_results>>
        /\ status[b] = "pending"
    BY <1>4 DEF ClaimBundle, Claimable, analysisVars
  <2>2. StoredBundle(b)
    BY DEF IInv, WorkConsistent
  <2>3. StoredBundle(b)'
    BY <1>1, <1>2, <2>1, <2>2 DEF StoredBundle, TypeOK, CollectionTypes
  <2>4. \A v \in Workers \ {w} : document[v] # None => document[v].bundle_id # b
    BY <2>1 DEF IInv, WorkConsistent, HeldWork
  <2>5. HeldWork(w)'
    <3>1. \/ /\ pc'[w] = "parse"
             /\ document'[w] = [bundle_id |-> b, bundle |-> bundle[b]]
          \/ document'[w] = None
      BY <1>2, ClaimOutcome DEF TypeOK, WorkerTypes
    <3>2. report_results[b] = None /\ parsed_results[b] = None
      BY <2>1, <2>2 DEF StoredBundle
    <3>3. status'[b] = "processing" /\ claimed_by'[b] = w
      BY <1>2, <2>1 DEF TypeOK, CollectionTypes
    <3>4. QED
      BY <2>1, <3>1, <3>2, <3>3 DEF HeldWork, Storing
  <2>6. \A d \in BundleIds \ {b} :
          status'[d] = status[d] /\ attempts'[d] = attempts[d] /\ claimed_by'[d] = claimed_by[d]
    BY <1>2, <2>1 DEF TypeOK, CollectionTypes
  <2>7. QED
    BY <1>1, <1>3, <2>1, <2>3, <2>4, <2>5, <2>6, OthersKeep
<1>5. CASE ~(answer # "failed" /\ Claimable(b))
  <2>1. UNCHANGED <<bundleVars, analysisVars>>
    BY <1>5 DEF ClaimBundle, bundleVars
  <2>2. document'[w] = None
    BY <1>2, <1>5, ClaimOutcome DEF TypeOK, WorkerTypes
  <2>3. HeldWork(w)'
    BY <2>2 DEF HeldWork
  <2>4. QED
    BY <1>1, <1>3, <2>1, <2>3, WorkerOnly
<1>6. QED
  BY <1>4, <1>5

\* Leaving the document behind keeps the invariant, whatever was stored.
LEMMA ReleaseKeeps ==
  ASSUME IInv, NEW w \in Workers, UNCHANGED <<bundleVars, analysisVars>>,
         NEW next, pc' = [pc EXCEPT ![w] = next],
         document' = [document EXCEPT ![w] = None],
         faults' >= faults, faults' \in Nat
  PROVE  WorkConsistent'
<1>1. document'[w] = None /\ \A v \in Workers \ {w} : pc'[v] = pc[v] /\ document'[v] = document[v]
  BY DEF IInv, TypeOK, WorkerTypes
<1>2. HeldWork(w)'
  BY <1>1 DEF HeldWork
<1>3. QED
  BY <1>1, <1>2, WorkerOnly

\* A step of a worker without a document that gets none.
LEMMA IdleKeeps ==
  ASSUME IInv, NEW w \in Workers, UNCHANGED <<bundleVars, analysisVars, document>>,
         pc[w] \notin Holding, NEW next, pc' = [pc EXCEPT ![w] = next],
         faults' >= faults, faults' \in Nat
  PROVE  WorkConsistent'
<1>1. document'[w] = None /\ \A v \in Workers \ {w} : pc'[v] = pc[v] /\ document'[v] = document[v]
  BY DEF IInv, TypeOK, WorkerTypes
<1>2. HeldWork(w)'
  BY <1>1 DEF HeldWork
<1>3. QED
  BY <1>1, <1>2, WorkerOnly

\* Bundles, results and workers agree in every reachable state.
THEOREM WorkIsConsistent == Spec => []WorkConsistent
<1>1. Init => WorkConsistent
  BY StackAssumption DEF Init, WorkConsistent, StoredBundle, HeldWork
<1>2. ASSUME IInv, [Next]_vars PROVE WorkConsistent'
  <2>1. TypeOK /\ WorkConsistent /\ CollectionTypes /\ RequestTypes /\ WorkerTypes
        /\ faults \in 0..MaxFaults
    BY <1>2 DEF IInv, TypeOK
  <2>2. faults \in Nat
    BY <2>1, StackAssumption
  <2>3. \A answer : Mongo(answer) => faults' >= faults /\ faults' \in Nat
                                    /\ (answer # "ok" => faults' > 0)
    BY <2>2 DEF Mongo, Inject
  <2>4. \A kind : Inject(kind) => faults' >= faults /\ faults' \in Nat /\ faults' > 0
    BY <2>2 DEF Inject
  <2>5. ASSUME NEW r \in Requests, Submit(r) PROVE WorkConsistent'
    BY <1>2, <2>2, <2>5, RequestOnly DEF Submit
  <2>6. ASSUME NEW r \in Requests, Reject(r) PROVE WorkConsistent'
    BY <1>2, <2>2, <2>6, RequestOnly DEF Reject
  <2>7. ASSUME NEW r \in Requests, FindExisting(r) PROVE WorkConsistent'
    BY <1>2, <2>3, <2>7, RequestOnly DEF FindExisting
  <2>8. ASSUME NEW r \in Requests, InsertDocument(r) PROVE WorkConsistent'
    <3> DEFINE b == req_id[r]
    <3>1. b \in BundleIds /\ req_payload[r] \in Payloads
      BY <2>1, <2>8 DEF InsertDocument, RequestTypes, InFlight
    <3>2. UNCHANGED <<analysisVars, workerVars>> /\ faults' >= faults /\ faults' \in Nat
      BY <2>3, <2>8 DEF InsertDocument
    <3>3. CASE UNCHANGED bundleVars
      BY <1>2, <3>2, <3>3, RequestOnly
    <3>4. CASE /\ status[b] = "absent"
               /\ status' = [status EXCEPT ![b] = "pending"]
               /\ bundle' = [bundle EXCEPT ![b] = req_payload[r]]
               /\ attempts' = [attempts EXCEPT ![b] = 0]
               /\ claimed_by' = [claimed_by EXCEPT ![b] = None]
      <4>1. ASSUME NEW d \in BundleIds PROVE StoredBundle(d)'
        <5>1. StoredBundle(d)
          BY <2>1 DEF WorkConsistent
        <5>2. QED
          BY <2>1, <2>2, <3>1, <3>2, <3>4, <5>1, StackAssumption
             DEF StoredBundle, CollectionTypes, analysisVars
      <4>2. ASSUME NEW v \in Workers PROVE HeldWork(v)'
        <5>1. HeldWork(v) /\ (document[v] # None => document[v].bundle_id \in BundleIds)
          BY <2>1 DEF WorkConsistent, WorkerTypes, Documents
        <5>2. document[v] # None => document[v].bundle_id # b
          BY <3>4, <5>1 DEF HeldWork
        <5>3. QED
          BY <2>1, <2>2, <3>2, <3>4, <5>1, <5>2
             DEF HeldWork, CollectionTypes, analysisVars, workerVars
      <4>3. QED
        BY <4>1, <4>2 DEF WorkConsistent
    <3>5. QED
      BY <2>8, <3>3, <3>4 DEF InsertDocument, CanInsert
  <2>9. ASSUME NEW r \in Requests, ReplyAccepted(r) PROVE WorkConsistent'
    BY <1>2, <2>2, <2>9, RequestOnly DEF ReplyAccepted
  <2>10. ASSUME KillApi PROVE WorkConsistent'
    BY <1>2, <2>4, <2>10, RequestOnly DEF KillApi
  <2>11. ASSUME NEW w \in Workers, SyncRules(w) PROVE WorkConsistent'
    <3>1. pc[w] \notin Holding
      BY <2>11 DEF SyncRules, Holding, Storing
    <3>2. QED
      BY <1>2, <2>3, <2>11, <3>1, IdleKeeps DEF SyncRules, GoTo
  <2>12. ASSUME NEW w \in Workers, FetchBatch(w) PROVE WorkConsistent'
    <3>1. CASE Mongo("failed") /\ AbandonLoop(w)
      BY <1>2, <2>3, <2>12, <3>1, ReleaseKeeps DEF FetchBatch, AbandonLoop, GoTo
    <3>2. CASE Mongo("ok") /\ UNCHANGED <<pc, document, stream>>
      <4>1. pc' = [pc EXCEPT ![w] = "drain"] /\ pc[w] \notin Holding
        BY <2>1, <2>12, <3>2 DEF FetchBatch, WorkerTypes, Holding, Storing
      <4>2. QED
        BY <1>2, <2>3, <2>12, <3>2, <4>1, IdleKeeps DEF FetchBatch
    <3>3. QED
      BY <2>12, <3>1, <3>2 DEF FetchBatch
  <2>13. ASSUME NEW w \in Workers, DrainNext(w) PROVE WorkConsistent'
    <3>1. PICK b \in cursor[w].batch, answer \in Answers : ClaimBundle(w, b, answer)
      BY <2>13 DEF DrainNext
    <3>2. b \in BundleIds
      BY <2>1 DEF WorkerTypes, Cursors
    <3>3. QED
      BY <1>2, <3>1, <3>2, ClaimKeeps
  <2>14. ASSUME NEW w \in Workers, OpenStream(w) PROVE WorkConsistent'
    <3>1. CASE Mongo("failed") /\ AbandonLoop(w)
      BY <1>2, <2>3, <2>14, <3>1, ReleaseKeeps DEF OpenStream, AbandonLoop, GoTo
    <3>2. CASE Mongo("ok") /\ GoTo(w, "watch") /\ UNCHANGED document
      <4>1. pc[w] \notin Holding
        BY <2>14 DEF OpenStream, Holding, Storing
      <4>2. QED
        BY <1>2, <2>3, <2>14, <3>2, <4>1, IdleKeeps DEF OpenStream, GoTo
    <3>3. QED
      BY <2>14, <3>1, <3>2 DEF OpenStream
  <2>15. ASSUME NEW w \in Workers, NextEvent(w) PROVE WorkConsistent'
    <3>1. PICK answer \in Answers : ClaimBundle(w, inserts[stream[w] + 1], answer)
      BY <2>15 DEF NextEvent
    <3>2. inserts[stream[w] + 1] \in BundleIds
      BY <2>1, <2>15 DEF NextEvent, WorkerTypes, CollectionTypes, Closed
    <3>3. QED
      BY <1>2, <3>1, <3>2, ClaimKeeps
  <2>16. ASSUME NEW w \in Workers, StreamError(w) PROVE WorkConsistent'
    BY <1>2, <2>3, <2>16, ReleaseKeeps DEF StreamError, AbandonLoop, GoTo
  <2>17. ASSUME NEW w \in Workers, WakeUp(w) PROVE WorkConsistent'
    <3>1. pc[w] \notin Holding
      BY <2>17 DEF WakeUp, Holding, Storing
    <3>2. /\ UNCHANGED <<bundleVars, analysisVars, document>>
          /\ pc' = [pc EXCEPT ![w] = "drain"]
          /\ faults' >= faults /\ faults' \in Nat
      BY <2>2, <2>17 DEF WakeUp, GoTo
    <3>3. QED
      BY <1>2, <3>1, <3>2, IdleKeeps
  <2>18. ASSUME NEW w \in Workers, RunParser(w) PROVE WorkConsistent'
    <3>1. HeldWork(w) /\ document[w] # None /\ pc[w] = "parse"
      BY <1>2, <2>18, HeldFacts DEF RunParser, Holding
    <3>2. \/ /\ pc' = [pc EXCEPT ![w] = "mark_failed"]
             /\ document[w].bundle \in Unparsable \/ faults' > 0
          \/ /\ pc' = [pc EXCEPT ![w] = "store_parsed"]
             /\ document[w].bundle \notin Unparsable
      BY <2>4, <2>18 DEF RunParser, GoTo, AfterParser
    <3>3. UNCHANGED <<bundleVars, analysisVars, document>> /\ faults' >= faults /\ faults' \in Nat
      BY <2>2, <2>4, <2>18 DEF RunParser
    <3>4. HeldWork(w)'
      BY <2>1, <3>1, <3>2, <3>3
         DEF HeldWork, bundleVars, analysisVars, WorkerTypes, Storing
    <3>5. QED
      BY <1>2, <2>1, <3>2, <3>3, <3>4, WorkerOnly DEF WorkerTypes
  <2>19. ASSUME NEW w \in Workers, StoreParsed(w) PROVE WorkConsistent'
    <3> DEFINE b == document[w].bundle_id
    <3>1. pc[w] = "store_parsed" /\ pc[w] \in Holding
      BY <2>19 DEF StoreParsed, Holding, Storing
    <3>2. PICK answer \in Answers :
             /\ Mongo(answer)
             /\ parsed_results' = IF answer = "failed" THEN parsed_results
                   ELSE [parsed_results EXCEPT ![b] = document[w].bundle]
             /\ pc' = [pc EXCEPT ![w] = IF answer = "ok" THEN "store_report" ELSE "mark_failed"]
      BY <2>19 DEF StoreParsed, GoTo
    <3>3. UNCHANGED <<bundleVars, report_results, document>>
      BY <2>19 DEF StoreParsed
    <3>4. HeldWork(w) /\ StoredBundle(b) /\ b \in BundleIds /\ document[w] # None
      BY <1>2, <3>1, HeldFacts
    <3>5. faults' >= faults /\ faults' \in Nat /\ (answer # "ok" => faults' > 0)
      BY <2>3, <3>2
    <3>6. \/ parsed_results'[b] = parsed_results[b] /\ answer # "ok"
          \/ parsed_results'[b] = bundle[b]
      BY <2>1, <3>1, <3>2, <3>4 DEF CollectionTypes, HeldWork
    <3>7. bundle[b] # None /\ bundle[b] \notin Unparsable /\ status[b] = "processing"
      BY <3>1, <3>4 DEF HeldWork, StoredBundle, Storing
    <3>8. StoredBundle(b)'
      BY <2>2, <3>3, <3>4, <3>5, <3>6, <3>7 DEF StoredBundle, bundleVars
    <3>9. HeldWork(w)'
      BY <2>1, <3>1, <3>2, <3>3, <3>4, <3>5, <3>6, <3>7
         DEF HeldWork, bundleVars, WorkerTypes, Storing
    <3>10. \A d \in BundleIds \ {b} : parsed_results'[d] = parsed_results[d]
      BY <2>1, <3>2 DEF CollectionTypes
    <3>11. \A v \in Workers \ {w} : pc'[v] = pc[v] /\ document'[v] = document[v]
      BY <2>1, <3>2, <3>3 DEF WorkerTypes
    <3>12. \A v \in Workers \ {w} : document[v] # None => document[v].bundle_id # b
      BY <1>2, <3>1, HeldFacts
    <3>13. QED
      BY <1>2, <3>3, <3>4, <3>5, <3>8, <3>9, <3>10, <3>11, <3>12, OthersKeep DEF bundleVars
  <2>20. ASSUME NEW w \in Workers, StoreReport(w) PROVE WorkConsistent'
    <3> DEFINE b == document[w].bundle_id
    <3>1. pc[w] = "store_report" /\ pc[w] \in Holding
      BY <2>20 DEF StoreReport, Holding, Storing
    <3>2. PICK answer \in Answers :
             /\ Mongo(answer)
             /\ report_results' = IF answer = "failed" THEN report_results
                   ELSE [report_results EXCEPT ![b] = document[w].bundle]
             /\ pc' = [pc EXCEPT ![w] = IF answer = "ok" THEN "mark_completed" ELSE "mark_failed"]
      BY <2>20 DEF StoreReport, GoTo
    <3>3. UNCHANGED <<bundleVars, parsed_results, document>>
      BY <2>20 DEF StoreReport
    <3>4. HeldWork(w) /\ StoredBundle(b) /\ b \in BundleIds /\ document[w] # None
      BY <1>2, <3>1, HeldFacts
    <3>5. faults' >= faults /\ faults' \in Nat /\ (answer # "ok" => faults' > 0)
      BY <2>3, <3>2
    <3>6. \/ report_results'[b] = report_results[b] /\ answer # "ok"
          \/ report_results'[b] = bundle[b]
      BY <2>1, <3>1, <3>2, <3>4 DEF CollectionTypes, HeldWork
    <3>7. /\ bundle[b] # None /\ bundle[b] \notin Unparsable /\ status[b] = "processing"
          /\ parsed_results[b] # None
      BY <3>1, <3>4 DEF HeldWork, StoredBundle, Storing
    <3>8. StoredBundle(b)'
      BY <2>2, <3>3, <3>4, <3>5, <3>6, <3>7 DEF StoredBundle, bundleVars
    <3>9. HeldWork(w)'
      BY <2>1, <3>1, <3>2, <3>3, <3>4, <3>5, <3>6, <3>7
         DEF HeldWork, bundleVars, WorkerTypes, Storing
    <3>10. \A d \in BundleIds \ {b} : report_results'[d] = report_results[d]
      BY <2>1, <3>2 DEF CollectionTypes
    <3>11. \A v \in Workers \ {w} : pc'[v] = pc[v] /\ document'[v] = document[v]
      BY <2>1, <3>2, <3>3 DEF WorkerTypes
    <3>12. \A v \in Workers \ {w} : document[v] # None => document[v].bundle_id # b
      BY <1>2, <3>1, HeldFacts
    <3>13. QED
      BY <1>2, <3>3, <3>4, <3>5, <3>8, <3>9, <3>10, <3>11, <3>12, OthersKeep DEF bundleVars
  <2>21. ASSUME NEW w \in Workers, MarkCompleted(w) PROVE WorkConsistent'
    <3>1. pc[w] = "mark_completed" /\ pc[w] \in Holding
      BY <2>21 DEF MarkCompleted, Holding, Storing
    <3>2. PICK b \in BundleIds : b = document[w].bundle_id
      BY <1>2, <3>1, HeldFacts
    <3>3. PICK answer \in Answers :
             /\ Mongo(answer)
             /\ IF answer = "failed" THEN UNCHANGED bundleVars
                ELSE SetStatus(b, "completed")
             /\ pc' = [pc EXCEPT ![w] = IF answer = "ok" THEN Caller(w) ELSE "mark_failed"]
             /\ document' = [document EXCEPT ![w] = IF answer = "ok" THEN None ELSE @]
      BY <2>21, <3>2 DEF MarkCompleted, GoTo
    <3>4. UNCHANGED <<bundle, attempts, claimed_by, parsed_results, report_results>>
      BY <2>21, <3>3 DEF MarkCompleted, SetStatus, bundleVars, analysisVars
    <3>5. HeldWork(w) /\ StoredBundle(b) /\ b \in BundleIds /\ document[w] # None
      BY <1>2, <3>2, <3>1, HeldFacts
    <3>6. faults' >= faults /\ faults' \in Nat /\ (answer # "ok" => faults' > 0)
      BY <2>3, <3>3
    <3>7. status' = status \/ status' = [status EXCEPT ![b] = "completed"]
      BY <3>3 DEF SetStatus, bundleVars
    <3>8. /\ bundle[b] # None /\ status[b] = "processing" /\ status'[b] \in {"processing", "completed"}
          /\ parsed_results[b] # None /\ report_results[b] # None
      BY <2>1, <3>2, <3>1, <3>5, <3>7 DEF HeldWork, StoredBundle, CollectionTypes
    <3>9. StoredBundle(b)'
      BY <2>2, <3>4, <3>5, <3>6, <3>8 DEF StoredBundle
    <3>10. HeldWork(w)'
      <4>1. CASE answer = "ok"
        BY <2>1, <3>3, <4>1 DEF HeldWork, WorkerTypes
      <4>2. CASE answer # "ok"
        <5>1. document'[w] = document[w] /\ pc'[w] = "mark_failed"
          BY <2>1, <3>3, <4>2 DEF WorkerTypes
        <5>2. status'[b] = "completed" => "lost_reply" \in FaultKinds
          BY <3>3, <3>8, <4>2 DEF Mongo, Inject, Answers, bundleVars
        <5>3. QED
          BY <5>2, <3>2, <3>4, <3>5, <3>6, <3>8, <4>2, <5>1 DEF HeldWork, Storing
      <4>3. QED
        BY <4>1, <4>2
    <3>11. \A d \in BundleIds \ {b} : status'[d] = status[d]
      BY <2>1, <3>7 DEF CollectionTypes
    <3>12. \A v \in Workers \ {w} : pc'[v] = pc[v] /\ document'[v] = document[v]
      BY <2>1, <3>3 DEF WorkerTypes
    <3>13. \A v \in Workers \ {w} : document[v] # None => document[v].bundle_id # b
      BY <1>2, <3>2, <3>1, HeldFacts
    <3>14. QED
      BY <1>2, <3>4, <3>5, <3>6, <3>9, <3>10, <3>11, <3>12, <3>13, OthersKeep
  <2>22. ASSUME NEW w \in Workers, MarkFailed(w) PROVE WorkConsistent'
    <3>1. pc[w] = "mark_failed" /\ pc[w] \in Holding
      BY <2>22 DEF MarkFailed, Holding
    <3>2. PICK b \in BundleIds : b = document[w].bundle_id
      BY <1>2, <3>1, HeldFacts
    <3>3. /\ UNCHANGED bundleVars \/ SetStatus(b, "failed")
          /\ faults' >= faults /\ faults' \in Nat
          /\ document' = [document EXCEPT ![w] = None]
          /\ \E next : pc' = [pc EXCEPT ![w] = next]
      BY <2>3, <2>22, <3>2 DEF MarkFailed, FailureStatus, GoTo, AbandonLoop
    <3>4. UNCHANGED <<bundle, attempts, claimed_by, parsed_results, report_results>>
      BY <2>22, <3>3 DEF MarkFailed, SetStatus, bundleVars, analysisVars
    <3>5. HeldWork(w) /\ StoredBundle(b) /\ b \in BundleIds /\ document[w] # None
      BY <1>2, <3>2, <3>1, HeldFacts
    <3>6. status' = status \/ status' = [status EXCEPT ![b] = "failed"]
      BY <3>3 DEF SetStatus, bundleVars
    <3>7. /\ bundle[b] \in Unparsable \/ faults > 0
          /\ status[b] \in {"processing", "completed"}
          /\ status'[b] \in {status[b], "failed"}
      BY <2>1, <3>2, <3>1, <3>5, <3>6 DEF HeldWork, CollectionTypes
    <3>8. StoredBundle(b)'
      BY <2>2, <3>3, <3>4, <3>5, <3>7 DEF StoredBundle
    <3>9. HeldWork(w)'
      BY <2>1, <3>3 DEF HeldWork, WorkerTypes
    <3>10. \A d \in BundleIds \ {b} : status'[d] = status[d]
      BY <2>1, <3>6 DEF CollectionTypes
    <3>11. \A v \in Workers \ {w} : pc'[v] = pc[v] /\ document'[v] = document[v]
      BY <2>1, <3>3 DEF WorkerTypes
    <3>12. \A v \in Workers \ {w} : document[v] # None => document[v].bundle_id # b
      BY <1>2, <3>2, <3>1, HeldFacts
    <3>13. QED
      BY <1>2, <3>3, <3>4, <3>5, <3>8, <3>9, <3>10, <3>11, <3>12, OthersKeep
  <2>23. ASSUME NEW w \in Workers, KillWorker(w) PROVE WorkConsistent'
    BY <1>2, <2>4, <2>23, ReleaseKeeps DEF KillWorker, GoTo
  <2>24. ASSUME NEW w \in Workers, Restart(w) PROVE WorkConsistent'
    <3>1. pc[w] \notin Holding
      BY <2>24 DEF Restart, Holding, Storing
    <3>2. /\ UNCHANGED <<bundleVars, analysisVars, document>>
          /\ pc' = [pc EXCEPT ![w] = "sync"]
          /\ faults' >= faults /\ faults' \in Nat
      BY <2>2, <2>24 DEF Restart, GoTo
    <3>3. QED
      BY <1>2, <3>1, <3>2, IdleKeeps
  <2>25. CASE UNCHANGED vars
    BY <1>2, <2>2, <2>25, RequestOnly DEF vars
  <2>26. QED
    BY <1>2, <2>5, <2>6, <2>7, <2>8, <2>9, <2>10, <2>11, <2>12, <2>13, <2>14, <2>15, <2>16,
       <2>17, <2>18, <2>19, <2>20, <2>21, <2>22, <2>23, <2>24, <2>25
       DEF Next, RequestStep, WorkerStep
<1>3. QED
  BY <1>1, <1>2, TypeCorrect, PTL DEF Spec, IInv

\* However many workers race, a bundle is claimed once and only its claimant
\* works on it.
THEOREM ClaimedOnce == Spec => []SingleClaim
<1>1. TypeOK /\ WorkConsistent => SingleClaim
  BY DEF WorkConsistent, SingleClaim, StoredBundle, HeldWork, Holders, TypeOK, WorkerTypes, Documents
<1>2. QED
  BY <1>1, TypeCorrect, WorkIsConsistent, PTL

\* A bundle that reads completed has both result documents, computed from
\* its content, whatever failed on the way.
THEOREM CompletedHasItsResults == Spec => []CompletedHasResults
<1>1. WorkConsistent => CompletedHasResults
  BY DEF WorkConsistent, CompletedHasResults, StoredBundle
<1>2. QED
  BY <1>1, WorkIsConsistent, PTL

\* Results belong to a claimed bundle and to its content, parsed output first.
THEOREM ResultsFollowTheClaim == Spec => []ResultsFollowClaim
<1>1. WorkConsistent => ResultsFollowClaim
  BY DEF WorkConsistent, ResultsFollowClaim, StoredBundle
<1>2. QED
  BY <1>1, WorkIsConsistent, PTL

\* Without a fault only what the parser rejects fails, and that never has
\* results.
THEOREM FailedHasCause == Spec => []FailedForCause
<1>1. WorkConsistent => FailedForCause
  BY DEF WorkConsistent, FailedForCause, StoredBundle
<1>2. QED
  BY <1>1, WorkIsConsistent, PTL

-----------------------------------------------------------------------------
(* What faults leave behind.                                               *)

\* One fault more, and at most one bundle more.
LEMMA OneMore ==
  ASSUME NEW A, NEW B, NEW x, NEW n \in Nat, IsFiniteSet(A), Cardinality(A) <= n,
         B \subseteq A \cup {x}
  PROVE  IsFiniteSet(B) /\ Cardinality(B) <= n + 1
<1>1. /\ IsFiniteSet(A \cup {x}) /\ Cardinality(A) \in Nat
      /\ Cardinality(A \cup {x}) <= Cardinality(A) + 1 /\ Cardinality(A \cup {x}) \in Nat
  BY FS_AddElement, FS_CardinalityType
<1>2. IsFiniteSet(B) /\ Cardinality(B) <= Cardinality(A \cup {x}) /\ Cardinality(B) \in Nat
  BY <1>1, FS_Subset, FS_CardinalityType
<1>3. QED
  BY <1>1, <1>2

\* Where nobody lets go of a document and nothing is claimed, no bundle is
\* abandoned.
LEMMA NoneLost ==
  ASSUME UNCHANGED document,
         \A b \in BundleIds : status'[b] = "processing" => status[b] = "processing"
  PROVE  Abandoned' \subseteq Abandoned
BY DEF Abandoned, Holders

\* A step of one worker abandons at most the bundle it claims or holds.
LEMMA OneLost ==
  ASSUME NEW w \in Workers, NEW x, NEW d, document \in [Workers -> Documents \cup {None}],
         document' = [document EXCEPT ![w] = d],
         \A b \in BundleIds \ {x} : status'[b] = "processing" => status[b] = "processing",
         document[w] # None => document[w].bundle_id = x
  PROVE  Abandoned' \subseteq Abandoned \cup {x}
<1> SUFFICES ASSUME NEW b \in BundleIds \ {x}, status'[b] = "processing", b \notin Abandoned
             PROVE  (Holders(b))' # {}
  BY DEF Abandoned
<1>1. PICK v \in Workers : document[v] # None /\ document[v].bundle_id = b
  BY DEF Abandoned, Holders
<1>2. document'[v] = document[v]
  BY <1>1
<1>3. QED
  BY <1>1, <1>2 DEF Holders

\* What a step does to the abandoned bundles.
Counted ==
  \/ Abandoned' \subseteq Abandoned /\ faults' >= faults
  \/ faults' = faults + 1 /\ \E x : Abandoned' \subseteq Abandoned \cup {x}

\* A claim whose reply is lost leaves a bundle in processing that nobody holds.
LEMMA ClaimCounted ==
  ASSUME TypeOK, NEW w \in Workers, NEW b \in BundleIds, NEW answer \in Answers,
         ClaimBundle(w, b, answer), document[w] = None
  PROVE  Counted
<1>1. status \in [BundleIds -> Statuses] /\ document \in [Workers -> Documents \cup {None}]
  BY DEF TypeOK, CollectionTypes, WorkerTypes
<1>2. \A c \in BundleIds \ {b} : status'[c] = status[c]
  BY <1>1 DEF ClaimBundle
<1>3. PICK d : document' = [document EXCEPT ![w] = d]
  BY ClaimOutcome
<1>4. Abandoned' \subseteq Abandoned \cup {b}
  BY <1>1, <1>2, <1>3, OneLost
<1>5. faults' >= faults /\ (answer # "ok" => faults' = faults + 1)
  BY MongoFaults DEF ClaimBundle, TypeOK
<1>6. CASE answer = "ok"
  <2>1. CASE Claimable(b)
    <3>1. document'[w] = [bundle_id |-> b, bundle |-> bundle[b]]
      BY <1>1, <1>6, <2>1, ClaimOutcome
    <3>2. [bundle_id |-> b, bundle |-> bundle[b]] # None
      BY <2>1, StackAssumption DEF TypeOK, CollectionTypes, Claimable, Documents
    <3>3. b \notin Abandoned'
      BY <3>1, <3>2 DEF Abandoned, Holders
    <3>4. QED
      BY <1>4, <1>5, <3>3 DEF Counted
  <2>2. CASE ~Claimable(b)
    <3>1. UNCHANGED status
      BY <2>2 DEF ClaimBundle
    <3>2. UNCHANGED document
      BY <1>1, <1>6, <2>2, ClaimOutcome
    <3>3. QED
      BY <1>5, <3>1, <3>2, NoneLost DEF Counted
  <2>3. QED
    BY <2>1, <2>2
<1>7. QED
  BY <1>4, <1>5, <1>6 DEF Counted

\* A worker ends its work on a document with a mark, or a fault.
LEMMA MarkCounted ==
  ASSUME TypeOK, NEW w \in Workers, NEW answer \in Answers, Mongo(answer),
         pc[w] \in Holding, NEW new \in Statuses, new # "processing",
         IF answer = "failed" THEN UNCHANGED bundleVars ELSE SetStatus(document[w].bundle_id, new),
         NEW d, document' = [document EXCEPT ![w] = d]
  PROVE  Counted
<1> DEFINE b == document[w].bundle_id
<1>1. status \in [BundleIds -> Statuses] /\ document \in [Workers -> Documents \cup {None}]
  BY DEF TypeOK, CollectionTypes, WorkerTypes
<1>2. \A c \in BundleIds : status'[c] = "processing" => status[c] = "processing"
  BY <1>1 DEF SetStatus, bundleVars
<1>3. Abandoned' \subseteq Abandoned \cup {b}
  BY <1>1, <1>2, OneLost
<1>4. faults' >= faults /\ (answer # "ok" => faults' = faults + 1)
  BY MongoFaults DEF TypeOK
<1>5. CASE answer = "ok"
  <2>1. b \in BundleIds
    BY HeldDocument, StackAssumption DEF TypeOK, Documents
  <2>2. status'[b] = new
    BY <1>1, <1>5, <2>1 DEF SetStatus
  <2>3. b \notin Abandoned'
    BY <2>2 DEF Abandoned
  <2>4. QED
    BY <1>3, <1>4, <2>3 DEF Counted
<1>6. QED
  BY <1>3, <1>4, <1>5 DEF Counted

\* Each fault strands at most one bundle, wherever it strikes: a claim that is
\* not answered, a mark that is not made, a worker that dies.
THEOREM FewAbandoned == Spec => []AbandonedAreCounted
<1> DEFINE CountInv == IsFiniteSet(Abandoned) /\ AbandonedAreCounted
<1>1. Init => CountInv
  <2> SUFFICES ASSUME Init PROVE CountInv
    OBVIOUS
  <2>1. Abandoned = {} /\ faults = 0
    BY DEF Init, Abandoned
  <2>2. QED
    BY <2>1, FS_EmptySet DEF AbandonedAreCounted
<1>2. ASSUME TypeOK, Next PROVE Counted
  <2>1. /\ WorkerTypes /\ CollectionTypes /\ RequestTypes /\ faults \in Nat
        /\ status \in [BundleIds -> Statuses] /\ document \in [Workers -> Documents \cup {None}]
        /\ \A w \in Workers : pc[w] \in Holding <=> document[w] # None
    BY <1>2 DEF TypeOK, CollectionTypes, WorkerTypes
  <2>2. \A answer : Mongo(answer) => faults' >= faults
    BY <2>1 DEF Mongo, Inject
  <2>3. \A kind : Inject(kind) => faults' = faults + 1
    BY DEF Inject
  <2>4. ASSUME UNCHANGED <<status, document>>, faults' >= faults PROVE Counted
    BY <2>4, NoneLost DEF Counted
  <2>5. ASSUME NEW w \in Workers, AbandonLoop(w), pc[w] \notin Holding PROVE UNCHANGED document
    BY <2>1, <2>5 DEF AbandonLoop
  <2>6. ASSUME NEW r \in Requests, Submit(r) \/ Reject(r) \/ FindExisting(r) \/ ReplyAccepted(r) PROVE Counted
    <3>1. UNCHANGED <<status, document>> /\ faults' >= faults
      BY <2>1, <2>2, <2>6 DEF Submit, Reject, FindExisting, ReplyAccepted, bundleVars, workerVars
    <3>2. QED
      BY <2>4, <3>1
  <2>7. ASSUME NEW r \in Requests, InsertDocument(r) PROVE Counted
    <3>1. UNCHANGED document /\ faults' >= faults
      BY <2>2, <2>7 DEF InsertDocument, workerVars
    <3>2. \A b \in BundleIds : status'[b] = "processing" => status[b] = "processing"
      BY <2>1, <2>7 DEF InsertDocument, bundleVars
    <3>3. QED
      BY <3>1, <3>2, NoneLost DEF Counted
  <2>8. ASSUME KillApi PROVE Counted
    <3>1. UNCHANGED <<status, document>> /\ faults' >= faults
      BY <2>1, <2>3, <2>8 DEF KillApi, bundleVars, workerVars
    <3>2. QED
      BY <2>4, <3>1
  <2>9. ASSUME NEW w \in Workers, SyncRules(w) \/ WakeUp(w) \/ Restart(w) PROVE Counted
    <3>1. UNCHANGED <<status, document>> /\ faults' >= faults
      BY <2>1, <2>2, <2>9 DEF SyncRules, WakeUp, Restart, bundleVars
    <3>2. QED
      BY <2>4, <3>1
  <2>10. ASSUME NEW w \in Workers, RunParser(w) \/ StoreParsed(w) \/ StoreReport(w) PROVE Counted
    <3>1. UNCHANGED <<status, document>>
      BY <2>10 DEF RunParser, StoreParsed, StoreReport, bundleVars
    <3>2. faults' >= faults
      BY <2>1, <2>2, <2>3, <2>10 DEF RunParser, StoreParsed, StoreReport
    <3>3. QED
      BY <2>4, <3>1, <3>2
  <2>11. ASSUME NEW w \in Workers, FetchBatch(w) \/ OpenStream(w) \/ StreamError(w) PROVE Counted
    <3>1. UNCHANGED status /\ pc[w] \notin Holding /\ (UNCHANGED document \/ AbandonLoop(w))
      BY <2>11 DEF FetchBatch, OpenStream, StreamError, bundleVars, Holding, Storing
    <3>2. faults' >= faults
      BY <2>2, <2>11 DEF FetchBatch, OpenStream, StreamError
    <3>3. QED
      BY <2>4, <2>5, <3>1, <3>2
  <2>12. ASSUME NEW w \in Workers, DrainNext(w) PROVE Counted
    <3>1. PICK b \in cursor[w].batch, answer \in Answers : ClaimBundle(w, b, answer)
      BY <2>12 DEF DrainNext
    <3>2. b \in BundleIds /\ document[w] = None
      BY <2>1, <2>12 DEF DrainNext, WorkerTypes, Cursors, Holding, Storing
    <3>3. QED
      BY <1>2, <3>1, <3>2, ClaimCounted
  <2>13. ASSUME NEW w \in Workers, NextEvent(w) PROVE Counted
    <3>1. PICK answer \in Answers : ClaimBundle(w, inserts[stream[w] + 1], answer)
      BY <2>13 DEF NextEvent
    <3>2. inserts \in Seq(BundleIds) /\ stream[w] \in Int /\ stream[w] >= 0 /\ stream[w] < Len(inserts)
      BY <2>1, <2>13 DEF NextEvent, WorkerTypes, CollectionTypes, Closed
    <3>3. inserts[stream[w] + 1] \in BundleIds
      BY <3>2
    <3>4. document[w] = None
      BY <2>1, <2>13 DEF NextEvent, Holding, Storing
    <3>5. QED
      BY <1>2, <3>1, <3>3, <3>4, ClaimCounted
  <2>14. ASSUME NEW w \in Workers, MarkCompleted(w) PROVE Counted
    <3>1. PICK answer \in Answers : /\ Mongo(answer)
                                    /\ IF answer = "failed" THEN UNCHANGED bundleVars
                                       ELSE SetStatus(document[w].bundle_id, "completed")
                                    /\ document' = [document EXCEPT ![w] = IF answer = "ok" THEN None ELSE @]
      BY <2>14 DEF MarkCompleted
    <3>2. PICK d : document' = [document EXCEPT ![w] = d]
      BY <2>1, <3>1
    <3>3. pc[w] \in Holding /\ "completed" \in Statuses
      BY <2>14 DEF MarkCompleted, Holding, Storing, Statuses
    <3>4. QED
      BY <1>2, <3>1, <3>2, <3>3, MarkCounted
  <2>15. ASSUME NEW w \in Workers, MarkFailed(w) PROVE Counted
    <3>1. PICK answer \in Answers : /\ Mongo(answer)
                                    /\ IF answer = "failed" THEN UNCHANGED bundleVars
                                       ELSE SetStatus(document[w].bundle_id, "failed")
                                    /\ document' = [document EXCEPT ![w] = None]
      BY <2>15 DEF MarkFailed, AbandonLoop, FailureStatus
    <3>2. pc[w] \in Holding /\ "failed" \in Statuses
      BY <2>15 DEF MarkFailed, Holding, Storing, Statuses
    <3>3. QED
      BY <1>2, <3>1, <3>2, MarkCounted
  <2>16. ASSUME NEW w \in Workers, KillWorker(w) PROVE Counted
    <3>1. UNCHANGED status /\ document' = [document EXCEPT ![w] = None] /\ faults' = faults + 1
      BY <2>3, <2>16 DEF KillWorker, bundleVars
    <3>2. Abandoned' \subseteq Abandoned \cup {document[w].bundle_id}
      BY <2>1, <3>1, OneLost
    <3>3. QED
      BY <3>1, <3>2 DEF Counted
  <2>17. QED
    BY <1>2, <2>6, <2>7, <2>8, <2>9, <2>10, <2>11, <2>12, <2>13, <2>14, <2>15, <2>16
       DEF Next, RequestStep, WorkerStep
<1>3. ASSUME TypeOK, TypeOK', CountInv, [Next]_vars PROVE CountInv'
  <2>1. faults \in Nat /\ faults' \in Nat /\ Cardinality(Abandoned) <= faults /\ IsFiniteSet(Abandoned)
    BY <1>3, StackAssumption DEF TypeOK, AbandonedAreCounted
  <2>2. CASE Next
    <3>1. CASE Abandoned' \subseteq Abandoned /\ faults' >= faults
      <4>1. /\ IsFiniteSet(Abandoned') /\ Cardinality(Abandoned') <= Cardinality(Abandoned)
            /\ Cardinality(Abandoned) \in Nat /\ Cardinality(Abandoned') \in Nat
        BY <2>1, <3>1, FS_Subset, FS_CardinalityType
      <4>2. Cardinality(Abandoned') <= faults'
        BY <2>1, <3>1, <4>1
      <4>3. QED
        BY <4>1, <4>2 DEF AbandonedAreCounted
    <3>2. CASE faults' = faults + 1 /\ \E x : Abandoned' \subseteq Abandoned \cup {x}
      <4>1. IsFiniteSet(Abandoned') /\ Cardinality(Abandoned') <= faults + 1
        BY <2>1, <3>2, OneMore
      <4>2. QED
        BY <3>2, <4>1 DEF AbandonedAreCounted
    <3>3. QED
      BY <1>2, <1>3, <2>2, <3>1, <3>2 DEF Counted
  <2>3. CASE UNCHANGED vars
    <3>1. Abandoned' = Abandoned /\ faults' = faults
      BY <2>3 DEF vars, Abandoned, Holders, bundleVars, workerVars
    <3>2. QED
      BY <1>3, <3>1 DEF AbandonedAreCounted
  <2>4. QED
    BY <1>3, <2>2, <2>3
<1>4. CountInv => AbandonedAreCounted
  OBVIOUS
<1>5. QED
  BY <1>1, <1>3, <1>4, TypeCorrect, PTL DEF Spec

-----------------------------------------------------------------------------
(* What clients are told.                                                  *)

\* At most one submitter of an identifier is told 202, about the content
\* that is stored, and 409 names an identifier that is taken.
THEOREM RepliesTrue == Spec => []RepliesAreTrue
<1>1. Init => RepliesAreTrue
  BY DEF Init, RepliesAreTrue
<1>2. ASSUME TypeOK, RepliesAreTrue, [Next]_vars PROVE RepliesAreTrue'
  <2> USE DEF TypeOK
  <2>1. ASSUME UNCHANGED <<req_id, req_payload, bundle>>,
               \A b \in BundleIds : status[b] # "absent" => status'[b] # "absent",
               \A r \in Requests : req_pc'[r] \in {"inserted", "202"} => req_pc[r] \in {"inserted", "202"},
               \A r \in Requests : req_pc'[r] = "409" =>
                  req_pc[r] = "409" \/ (status[req_id[r]] # "absent" /\ req_id[r] \in BundleIds)
        PROVE  RepliesAreTrue'
    <3>1. \A r \in Requests : req_pc[r] \in {"inserted", "202", "409"} => req_id[r] \in BundleIds
      BY <1>2 DEF RequestTypes, InFlight
    <3>2. QED
      BY <1>2, <2>1, <3>1 DEF RepliesAreTrue
  <2>2. ASSUME NEW r \in Requests, Submit(r) PROVE RepliesAreTrue'
    BY <1>2, <2>2 DEF Submit, RepliesAreTrue, RequestTypes, bundleVars
  <2>3. ASSUME NEW r \in Requests, Reject(r) PROVE RepliesAreTrue'
    <3>1. PICK code \in {"400", "401", "500"} : req_pc' = [req_pc EXCEPT ![r] = code]
      BY <2>3 DEF Reject
    <3>2. QED
      BY <1>2, <2>1, <2>3, <3>1 DEF Reject, RequestTypes, bundleVars
  <2>4. ASSUME NEW r \in Requests, FindExisting(r) PROVE RepliesAreTrue'
    <3>1. PICK next \in {"500", "409", "insert"} :
             /\ req_pc' = [req_pc EXCEPT ![r] = next]
             /\ next = "409" => status[req_id[r]] # "absent"
      BY <2>4 DEF FindExisting, Answers
    <3>2. req_id[r] \in BundleIds
      BY <1>2, <2>4 DEF FindExisting, RequestTypes, InFlight
    <3>3. QED
      BY <1>2, <2>1, <2>4, <3>1, <3>2 DEF FindExisting, RequestTypes, bundleVars
  <2>5. ASSUME NEW r \in Requests, InsertDocument(r) PROVE RepliesAreTrue'
    <3> DEFINE b == req_id[r]
    <3>1. PICK next \in {"500", "inserted"} :
             /\ req_pc' = [req_pc EXCEPT ![r] = next]
             /\ UNCHANGED bundleVars => next = "500"
      <4>1. CASE UNCHANGED bundleVars
        BY <1>2, <2>5, <4>1 DEF InsertDocument, CanInsert, bundleVars, CollectionTypes, RequestTypes, InFlight
      <4>2. CASE ~UNCHANGED bundleVars
        BY <2>5, <4>2 DEF InsertDocument
      <4>3. QED
        BY <4>1, <4>2
    <3>2. b \in BundleIds /\ UNCHANGED <<req_id, req_payload>>
      BY <1>2, <2>5 DEF InsertDocument, RequestTypes, InFlight
    <3>3. CASE UNCHANGED bundleVars
      BY <1>2, <2>1, <3>1, <3>2, <3>3 DEF RequestTypes, bundleVars
    <3>4. CASE /\ status[b] = "absent"
               /\ status' = [status EXCEPT ![b] = "pending"]
               /\ bundle' = [bundle EXCEPT ![b] = req_payload[r]]
      <4>1. \A q \in Requests \ {r} : req_pc[q] \in {"inserted", "202", "409"} =>
               req_id[q] \in BundleIds \ {b}
        BY <1>2, <3>4 DEF RepliesAreTrue, RequestTypes, InFlight
      <4>2. QED
        BY <1>2, <3>1, <3>2, <3>4, <4>1 DEF RepliesAreTrue, RequestTypes, CollectionTypes
    <3>5. QED
      BY <2>5, <3>3, <3>4 DEF InsertDocument, CanInsert
  <2>6. ASSUME NEW r \in Requests, ReplyAccepted(r) PROVE RepliesAreTrue'
    BY <1>2, <2>1, <2>6 DEF ReplyAccepted, RequestTypes, bundleVars
  <2>7. ASSUME KillApi PROVE RepliesAreTrue'
    BY <1>2, <2>1, <2>7 DEF KillApi, RequestTypes, bundleVars, InFlight
  <2>8. ASSUME NEW w \in Workers,
               \/ WorkerStep(w)
               \/ StreamError(w)
               \/ KillWorker(w)
        PROVE  RepliesAreTrue'
    <3>1. UNCHANGED <<bundle, req_pc, req_id, req_payload>>
      BY <2>8 DEF WorkerStep, StreamError, KillWorker, SyncRules, FetchBatch, DrainNext,
         ClaimBundle, OpenStream, NextEvent, RunParser, StoreParsed, StoreReport,
         MarkCompleted, MarkFailed, SetStatus, WakeUp, Restart, bundleVars, requestVars
    <3>2. \A b \in BundleIds : status[b] # "absent" => status'[b] # "absent"
      <4>1. \/ UNCHANGED status
            \/ \E d, new : new # "absent" /\ status' = [status EXCEPT ![d] = new]
        BY <2>8 DEF WorkerStep, StreamError, KillWorker, SyncRules, FetchBatch, DrainNext,
           ClaimBundle, OpenStream, NextEvent, RunParser, StoreParsed, StoreReport,
           MarkCompleted, MarkFailed, FailureStatus, SetStatus, WakeUp, Restart, bundleVars
      <4>2. QED
        BY <1>2, <4>1 DEF CollectionTypes
    <3>3. \A r \in Requests : req_pc'[r] = req_pc[r]
      BY <3>1
    <3>4. UNCHANGED <<req_id, req_payload, bundle>>
      BY <3>1
    <3>5. /\ \A r \in Requests :
                req_pc'[r] \in {"inserted", "202"} => req_pc[r] \in {"inserted", "202"}
          /\ \A r \in Requests : req_pc'[r] = "409" =>
                req_pc[r] = "409" \/ (status[req_id[r]] # "absent" /\ req_id[r] \in BundleIds)
      BY <3>3
    <3>6. QED
      BY <2>1, <3>2, <3>4, <3>5
  <2>9. CASE UNCHANGED vars
    <3>1. UNCHANGED <<status, bundle, req_pc, req_id, req_payload>>
      BY <2>9 DEF vars, bundleVars, requestVars
    <3>2. /\ \A r \in Requests :
                req_pc'[r] \in {"inserted", "202"} => req_pc[r] \in {"inserted", "202"}
          /\ \A r \in Requests : req_pc'[r] = "409" =>
                req_pc[r] = "409" \/ (status[req_id[r]] # "absent" /\ req_id[r] \in BundleIds)
          /\ \A b \in BundleIds : status[b] # "absent" => status'[b] # "absent"
      BY <3>1
    <3>3. QED
      BY <2>1, <3>1, <3>2
  <2>10. QED
    BY <1>2, <2>2, <2>3, <2>4, <2>5, <2>6, <2>7, <2>8, <2>9 DEF Next, RequestStep
<1>3. QED
  BY <1>1, <1>2, TypeCorrect, PTL DEF Spec

-----------------------------------------------------------------------------
(* The stack implements the lifecycle of each bundle.                      *)

LEMMA LifecycleStutter ==
  ASSUME UNCHANGED <<status, bundle, parsed_results, report_results>>
  PROVE  UNCHANGED Lifecycle!lifecycleVars
BY DEF Lifecycle!lifecycleVars

\* A claim is a lifecycle claim, or nothing the lifecycle sees.
LEMMA ClaimRefines ==
  ASSUME TypeOK, NEW w \in Workers, NEW b \in BundleIds, NEW answer \in Answers,
         ClaimBundle(w, b, answer)
  PROVE  [Lifecycle!LifecycleNext]_(Lifecycle!lifecycleVars)
<1>1. CASE answer # "failed" /\ Claimable(b)
  <2>1. Lifecycle!Claim(b)
    BY <1>1 DEF ClaimBundle, Claimable, analysisVars, Lifecycle!Claim
  <2>2. QED
    BY <2>1 DEF Lifecycle!LifecycleNext
<1>2. CASE ~(answer # "failed" /\ Claimable(b))
  BY <1>2, LifecycleStutter DEF ClaimBundle, analysisVars
<1>3. QED
  BY <1>1, <1>2

\* Every behaviour of the stack is one the lifecycle allows.
THEOREM StackImplementsLifecycle == Spec => ImplementsLifecycle
<1>1. Init => Lifecycle!LifecycleInit
  BY DEF Init, Lifecycle!LifecycleInit
<1>2. ASSUME IInv, [Next]_vars PROVE [Lifecycle!LifecycleNext]_(Lifecycle!lifecycleVars)
  <2>1. TypeOK /\ CollectionTypes /\ RequestTypes /\ WorkerTypes
    BY <1>2 DEF IInv, TypeOK
  <2>2. ASSUME UNCHANGED <<bundleVars, analysisVars>>
        PROVE  UNCHANGED Lifecycle!lifecycleVars
    BY <2>2, LifecycleStutter DEF bundleVars, analysisVars
  <2>3. ASSUME NEW r \in Requests, InsertDocument(r)
        PROVE  [Lifecycle!LifecycleNext]_(Lifecycle!lifecycleVars)
    <3> DEFINE b == req_id[r]
    <3>1. b \in BundleIds /\ req_payload[r] \in Payloads
      BY <2>1, <2>3 DEF InsertDocument, RequestTypes, InFlight
    <3>2. CASE UNCHANGED bundleVars
      BY <2>2, <2>3, <3>2 DEF InsertDocument
    <3>3. CASE /\ status[b] = "absent"
               /\ status' = [status EXCEPT ![b] = "pending"]
               /\ bundle' = [bundle EXCEPT ![b] = req_payload[r]]
      <4>1. Lifecycle!Accept(b, req_payload[r])
        BY <2>3, <3>3 DEF InsertDocument, analysisVars, Lifecycle!Accept
      <4>2. QED
        BY <3>1, <4>1 DEF Lifecycle!LifecycleNext
    <3>4. QED
      BY <2>3, <3>2, <3>3 DEF InsertDocument, CanInsert
  <2>4. ASSUME NEW w \in Workers, DrainNext(w)
        PROVE  [Lifecycle!LifecycleNext]_(Lifecycle!lifecycleVars)
    <3>1. PICK b \in cursor[w].batch, answer \in Answers : ClaimBundle(w, b, answer)
      BY <2>4 DEF DrainNext
    <3>2. b \in BundleIds
      BY <2>1 DEF WorkerTypes, Cursors
    <3>3. QED
      BY <2>1, <3>1, <3>2, ClaimRefines
  <2>5. ASSUME NEW w \in Workers, NextEvent(w)
        PROVE  [Lifecycle!LifecycleNext]_(Lifecycle!lifecycleVars)
    <3>1. PICK answer \in Answers : ClaimBundle(w, inserts[stream[w] + 1], answer)
      BY <2>5 DEF NextEvent
    <3>2. inserts[stream[w] + 1] \in BundleIds
      BY <2>1, <2>5 DEF NextEvent, WorkerTypes, CollectionTypes, Closed
    <3>3. QED
      BY <2>1, <3>1, <3>2, ClaimRefines
  <2>6. ASSUME NEW w \in Workers, StoreParsed(w)
        PROVE  [Lifecycle!LifecycleNext]_(Lifecycle!lifecycleVars)
    <3> DEFINE b == document[w].bundle_id
    <3>1. pc[w] = "store_parsed" /\ pc[w] \in Holding
      BY <2>6 DEF StoreParsed, Holding, Storing
    <3>2. b \in BundleIds /\ HeldWork(w) /\ document[w] # None
      BY <1>2, <3>1, HeldFacts
    <3>3. CASE parsed_results' = [parsed_results EXCEPT ![b] = document[w].bundle]
      <4>1. Lifecycle!PublishParsed(b)
        BY <2>6, <3>1, <3>2, <3>3
           DEF StoreParsed, HeldWork, bundleVars, Lifecycle!PublishParsed
      <4>2. QED
        BY <3>2, <4>1 DEF Lifecycle!LifecycleNext
    <3>4. CASE parsed_results' = parsed_results
      BY <2>2, <2>6, <3>4 DEF StoreParsed, analysisVars
    <3>5. QED
      BY <2>6, <3>3, <3>4 DEF StoreParsed
  <2>7. ASSUME NEW w \in Workers, StoreReport(w)
        PROVE  [Lifecycle!LifecycleNext]_(Lifecycle!lifecycleVars)
    <3> DEFINE b == document[w].bundle_id
    <3>1. pc[w] = "store_report" /\ pc[w] \in Holding
      BY <2>7 DEF StoreReport, Holding, Storing
    <3>2. b \in BundleIds /\ HeldWork(w) /\ document[w] # None
      BY <1>2, <3>1, HeldFacts
    <3>3. CASE report_results' = [report_results EXCEPT ![b] = document[w].bundle]
      <4>1. Lifecycle!PublishReport(b)
        BY <2>7, <3>1, <3>2, <3>3
           DEF StoreReport, HeldWork, bundleVars, Lifecycle!PublishReport
      <4>2. QED
        BY <3>2, <4>1 DEF Lifecycle!LifecycleNext
    <3>4. CASE report_results' = report_results
      BY <2>2, <2>7, <3>4 DEF StoreReport, analysisVars
    <3>5. QED
      BY <2>7, <3>3, <3>4 DEF StoreReport
  <2>8. ASSUME NEW w \in Workers, MarkCompleted(w)
        PROVE  [Lifecycle!LifecycleNext]_(Lifecycle!lifecycleVars)
    <3> DEFINE b == document[w].bundle_id
    <3>1. pc[w] = "mark_completed" /\ pc[w] \in Holding
      BY <2>8 DEF MarkCompleted, Holding, Storing
    <3>2. b \in BundleIds /\ HeldWork(w) /\ document[w] # None
      BY <1>2, <3>1, HeldFacts
    <3>3. CASE SetStatus(b, "completed")
      <4>1. Lifecycle!Complete(b)
        BY <2>8, <3>1, <3>2, <3>3
           DEF MarkCompleted, SetStatus, HeldWork, analysisVars, Lifecycle!Complete
      <4>2. QED
        BY <3>2, <4>1 DEF Lifecycle!LifecycleNext
    <3>4. CASE UNCHANGED bundleVars
      BY <2>2, <2>8, <3>4 DEF MarkCompleted
    <3>5. QED
      BY <2>8, <3>3, <3>4 DEF MarkCompleted
  <2>9. ASSUME NEW w \in Workers, MarkFailed(w)
        PROVE  [Lifecycle!LifecycleNext]_(Lifecycle!lifecycleVars)
    <3> DEFINE b == document[w].bundle_id
    <3>1. pc[w] = "mark_failed" /\ pc[w] \in Holding
      BY <2>9 DEF MarkFailed, Holding
    <3>2. b \in BundleIds /\ HeldWork(w) /\ document[w] # None
      BY <1>2, <3>1, HeldFacts
    <3>3. CASE SetStatus(b, "failed")
      <4>1. Lifecycle!Fail(b) \/ Lifecycle!Revoke(b)
        BY <2>9, <3>2, <3>3
           DEF MarkFailed, SetStatus, HeldWork, analysisVars, Lifecycle!Fail, Lifecycle!Revoke
      <4>2. QED
        BY <3>2, <4>1 DEF Lifecycle!LifecycleNext
    <3>4. CASE UNCHANGED bundleVars
      BY <2>2, <2>9, <3>4 DEF MarkFailed
    <3>5. QED
      BY <2>9, <3>3, <3>4 DEF MarkFailed, FailureStatus
  <2> DEFINE Quiet ==
        \/ KillApi
        \/ \E r \in Requests : Submit(r) \/ Reject(r) \/ FindExisting(r) \/ ReplyAccepted(r)
        \/ \E w \in Workers :
              \/ SyncRules(w) \/ FetchBatch(w) \/ OpenStream(w) \/ StreamError(w)
              \/ RunParser(w) \/ WakeUp(w) \/ KillWorker(w) \/ Restart(w)
        \/ UNCHANGED vars
  <2>10. CASE Quiet
    <3>1. UNCHANGED <<bundleVars, analysisVars>>
      BY <2>10 DEF KillApi, Submit, Reject, FindExisting, ReplyAccepted, SyncRules, FetchBatch,
         OpenStream, StreamError, AbandonLoop, RunParser, WakeUp, KillWorker, Restart, vars
    <3>2. QED
      BY <2>2, <3>1
  <2>11. \/ Quiet
         \/ \E r \in Requests : InsertDocument(r)
         \/ \E w \in Workers : \/ DrainNext(w) \/ NextEvent(w) \/ StoreParsed(w)
                               \/ StoreReport(w) \/ MarkCompleted(w) \/ MarkFailed(w)
    BY <1>2 DEF Next, RequestStep, WorkerStep
  <2>12. QED
    BY <2>3, <2>4, <2>5, <2>6, <2>7, <2>8, <2>9, <2>10, <2>11
<1>3. QED
  BY <1>1, <1>2, TypeCorrect, WorkIsConsistent, PTL
     DEF Spec, IInv, ImplementsLifecycle, Lifecycle!LifecycleSpec
=============================================================================
