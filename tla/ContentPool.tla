---------------------------- MODULE ContentPool ----------------------------
(***************************************************************************)
(* The content worker pool (wd_notability/content/worker.py): one          *)
(* dispatcher and several workers, coroutines of one process, share a      *)
(* bounded queue of batches and CONTENT_INFLIGHT_QIDS, the set of claimed  *)
(* items.  The pool reads candidates from the database, fetches each item  *)
(* from Wikidata and later writes what it found (Findings).                *)
(*                                                                         *)
(* A coroutine runs without interruption from one await that really        *)
(* suspends it to the next; that is the grain of the actions.              *)
(* CONTENT_INFLIGHT_LOCK is never held across such an await, so            *)
(* reserving and releasing are parts of the steps around them.             *)
(***************************************************************************)
EXTENDS Naturals, Sequences, FiniteSets, Functions, Findings

CONSTANTS
  Qids,          \* items
  Workers,       \* worker ids, CONTENT_WORKER_COUNT of them
  QueueMaxSize,  \* CONTENT_QUEUE_MAXSIZE
  BatchSize,     \* DEFAULT_BATCH_SIZE
  ChunkSize,     \* CONTENT_EVALUATION_CHUNK_SIZE
  MaxRevid,      \* bound: the last revision of each item
  MayCrash       \* whether the pool's process may die

ASSUME PoolAssumption ==
  /\ IsFiniteSet(Qids)
  /\ QueueMaxSize \in Nat \ {0}
  /\ BatchSize \in Nat \ {0}
  /\ ChunkSize \in Nat \ {0}
  /\ MaxRevid \in [Qids -> Nat \ {0}]
  /\ MayCrash \in BOOLEAN

VARIABLES
  live,      \* latest revision of each item on Wikidata (external)
  seen,      \* recent_changes_last_revid; 0 when the monitor recorded none
  row,       \* the cache row of each item: content_last_revid, redirect, deleted
  interest,  \* items with a row wants_content = 1 in the interest table
  queue,     \* the asyncio.Queue of batches
  event,     \* dispatch_event
  inflight,  \* CONTENT_INFLIGHT_QIDS
  dpc, free, exclude, selected, pending,    \* the dispatcher's locals
  wpc, held, todo, fetched, updated         \* the workers' locals

db == <<seen, row, interest>>
dispatcherVars == <<dpc, free, exclude, selected, pending>>
workerVars == <<wpc, held, todo, fetched, updated>>
vars == <<live, db, queue, event, inflight, dispatcherVars, workerVars>>

NoUpdates == [q \in Qids |-> Nothing]

TypeOK ==
  /\ live \in [Qids -> Nat \ {0}]
  /\ seen \in [Qids -> Nat]
  /\ row \in [Qids -> Finding]
  /\ interest \in SUBSET Qids
  /\ queue \in Seq(SUBSET Qids) /\ Len(queue) <= QueueMaxSize
  /\ event \in BOOLEAN
  /\ inflight \in SUBSET Qids
  /\ dpc \in {"wait", "select", "enqueue", "failed", "overflow"}
  /\ free \in Nat
  /\ exclude \in SUBSET Qids
  /\ selected \in SUBSET Qids
  /\ pending \in Seq(SUBSET Qids)
  /\ wpc \in [Workers -> {"get", "evaluate", "persist", "failed", "idle"}]
  /\ held \in [Workers -> SUBSET Qids]
  /\ todo \in [Workers -> SUBSET Qids]
  /\ fetched \in [Workers -> [Qids -> Finding]]
  /\ updated \in [Workers -> BOOLEAN]

Init ==
  /\ live = [q \in Qids |-> 1]
  /\ seen = [q \in Qids |-> 0]
  /\ row = NoUpdates
  /\ interest = {}
  /\ queue = <<>> /\ event = FALSE /\ inflight = {}
  /\ dpc = "wait" /\ free = 0 /\ exclude = {} /\ selected = {}
  /\ pending = <<>>
  /\ wpc = [w \in Workers |-> "get"]
  /\ held = [w \in Workers |-> {}]
  /\ todo = [w \in Workers |-> {}]
  /\ fetched = [w \in Workers |-> NoUpdates]
  /\ updated = [w \in Workers |-> FALSE]

-----------------------------------------------------------------------------
(* The rest of the system: editors, the recent-changes monitor, subscribers *)

Edit(q) ==
  /\ live[q] < MaxRevid[q]
  /\ live' = [live EXCEPT ![q] = @ + 1]
  /\ UNCHANGED <<db, queue, event, inflight, dispatcherVars, workerVars>>

\* The monitor records the newest revision it saw, which may lag behind.  That
\* it saw the first is not kept, as no row is older.
RecordChange(q) ==
  /\ \E r \in 2 .. live[q] : r > seen[q] /\ seen' = [seen EXCEPT ![q] = r]
  /\ UNCHANGED <<live, row, interest, queue, event, inflight, dispatcherVars,
                 workerVars>>

ChangeInterest(q) ==
  /\ interest' = IF q \in interest THEN interest \ {q} ELSE interest \union {q}
  /\ UNCHANGED <<live, seen, row, queue, event, inflight, dispatcherVars,
                 workerVars>>

-----------------------------------------------------------------------------
(* The dispatcher *)

CandidateOnce(q, called) == q \in interest /\ (row[q] = Nothing \/ q \in called)

\* The row is missing, or at an older revision than the newest recorded change;
\* that of a deleted item has no revision, and waits to be called for.
Outdated(q) == row[q] = Nothing \/ (row[q].kind # "gone" /\ row[q].rev < seen[q])

\* list_interest_content_candidates: subscribed, and outdated or called for
Candidate(q, called) == q \in interest /\ (Outdated(q) \/ q \in called)

Smaller(m, n) == IF m < n THEN m ELSE n

BatchCountOfSlots(S, slots) == slots

BatchCount(S, slots) ==
  Smaller(slots, (Cardinality(S) + BatchSize - 1) \div BatchSize)

\* How many of k items are in the first i of n batches.
UpTo(i, k, n) == i * (k \div n) + Smaller(i, k % n)

\* _split_content_qids: n slices of the selection, as long as one another or
\* one longer.
Split(order, n) ==
  LET k == Len(order) IN
  [i \in 1..n |-> {order[j] : j \in (UpTo(i - 1, k, n) + 1) .. UpTo(i, k, n)}]

FreeSlotsLessClaims == QueueMaxSize - Len(queue) - Cardinality(inflight)
FreeSlotsAtStart == QueueMaxSize
FreeSlots == QueueMaxSize - Len(queue)

ClaimsForgotten == {}
ClaimsSnapshot == inflight

\* The event or the poll timeout wakes the dispatcher; it clears the event
\* before it reads the queue's depth, and copies the claims.
DispatcherWake ==
  /\ dpc = "wait"
  /\ event' = FALSE
  /\ free' = FreeSlots
  /\ IF FreeSlots > 0
     THEN dpc' = "select" /\ exclude' = ClaimsSnapshot
     ELSE UNCHANGED <<dpc, exclude>>
  /\ UNCHANGED <<live, db, queue, inflight, selected, pending, workerVars>>

\* The LIMIT of the query is free * BatchSize; which candidates come first
\* depends on subscriber priorities, so any selection of that size may.  A row
\* may be called for by a deletion, a restoration, a policy or the target of a
\* redirect newer than itself; that is not kept here (ContentFreshness).
DispatcherSelect ==
  /\ dpc = "select"
  /\ \E called \in SUBSET {q \in Qids : row[q] # Nothing} :
       LET candidates == {q \in Qids : Candidate(q, called)} \ exclude IN
       \/ /\ candidates = {}
          /\ dpc' = "wait"
          /\ UNCHANGED <<selected, pending>>
       \/ \E S \in SUBSET candidates : \E n \in 1..free :
            /\ S # {}
            /\ Cardinality(S) = Smaller(free * BatchSize, Cardinality(candidates))
            /\ n = BatchCount(S, free)
            /\ \E order \in Bijection(1..Cardinality(S), S) :
                 pending' = Split(order, n)
            /\ selected' = S
            /\ dpc' = "enqueue"
  /\ free' = 0 /\ exclude' = {}   \* not read again
  /\ UNCHANGED <<live, db, queue, event, inflight, workerVars>>

\* Nothing catches an error of the query: gather propagates it and the
\* process ends (Crash), the workers running on until it does.
DispatcherSelectFails ==
  /\ dpc = "select"
  /\ MayCrash
  /\ dpc' = "failed"
  /\ UNCHANGED <<live, db, queue, event, inflight, free, exclude, selected,
                 pending, workerVars>>

UnreservedClaims(batch) == inflight
ClaimsWith(batch) == inflight \union batch

\* Reserve and put_nowait run without an await between them; recording the
\* batch_added event afterwards lets the workers run before the next batch.
\* On QueueFull the handler releases the whole selection and re-raises.
DispatcherEnqueue ==
  /\ dpc = "enqueue" /\ pending # <<>>
  /\ IF Len(queue) < QueueMaxSize
     THEN /\ inflight' = ClaimsWith(Head(pending))
          /\ queue' = Append(queue, Head(pending))
          /\ pending' = Tail(pending)
          /\ IF Tail(pending) = <<>> THEN dpc' = "wait" /\ selected' = {}
             ELSE dpc' = "enqueue" /\ UNCHANGED selected
     ELSE /\ inflight' = inflight \ selected
          /\ dpc' = "overflow"
          /\ UNCHANGED <<queue, selected, pending>>
  /\ UNCHANGED <<live, db, event, free, exclude, workerVars>>

-----------------------------------------------------------------------------
(* A worker *)

WorkerTake(w) ==
  /\ wpc[w] = "get"
  /\ queue # <<>>
  /\ queue' = Tail(queue)
  /\ event' = TRUE
  /\ wpc' = [wpc EXCEPT ![w] = "evaluate"]
  /\ held' = [held EXCEPT ![w] = Head(queue)]
  /\ todo' = [todo EXCEPT ![w] = Head(queue)]
  /\ updated' = [updated EXCEPT ![w] = FALSE]
  /\ UNCHANGED <<live, db, inflight, dispatcherVars, fetched>>

\* evaluate_content_many on the next chunk; items that fail or stay UNKNOWN
\* yield no update.
WorkerEvaluate(w, good) ==
  /\ wpc[w] = "evaluate"
  /\ \E chunk \in SUBSET todo[w] :
       /\ Cardinality(chunk) = Smaller(ChunkSize, Cardinality(todo[w]))
       /\ chunk # {} /\ good \subseteq chunk
       /\ todo' = [todo EXCEPT ![w] = @ \ chunk]
  /\ \E found \in [good -> UNION {Answers(live[q]) : q \in good}] :
       /\ \A q \in good : found[q] \in Answers(live[q])
       /\ fetched' = [fetched EXCEPT ![w] =
                        [q \in Qids |-> IF q \in good THEN found[q] ELSE Nothing]]
  /\ wpc' = [wpc EXCEPT ![w] = IF good = {} THEN "evaluate" ELSE "persist"]
  /\ UNCHANGED <<live, db, queue, event, inflight, dispatcherVars, held,
                 updated>>

\* upsert_content_many overwrites the rows, whatever they hold.
Write(w, written) ==
  row' = [q \in Qids |-> IF q \in written /\ fetched[w][q] # Nothing
                         THEN fetched[w][q] ELSE row[q]]

WorkerPersist(w) ==
  /\ wpc[w] = "persist"
  /\ Write(w, Qids)
  /\ updated' = [updated EXCEPT ![w] = TRUE]
  /\ fetched' = [fetched EXCEPT ![w] = NoUpdates]
  /\ wpc' = [wpc EXCEPT ![w] = "evaluate"]
  /\ UNCHANGED <<live, seen, interest, queue, event, inflight, dispatcherVars,
                 held, todo>>

\* An exception while evaluating, while writing (a prefix of the rows is
\* written, each committed on its own) or while propagating outlinks: the
\* worker sleeps in the handler, the batch still claimed.
WorkerRaise(w) ==
  /\ \/ wpc[w] = "evaluate" /\ UNCHANGED row
     \/ wpc[w] = "persist" /\ \E written \in SUBSET Qids : Write(w, written)
  /\ wpc' = [wpc EXCEPT ![w] = "failed"]
  /\ fetched' = [fetched EXCEPT ![w] = NoUpdates]
  /\ UNCHANGED <<live, seen, interest, queue, event, inflight, dispatcherVars,
                 held, todo, updated>>

ReleaseForgotten(w) ==
  /\ UNCHANGED inflight
  /\ held' = [held EXCEPT ![w] = {}]
  /\ todo' = [todo EXCEPT ![w] = {}]

Release(w) ==
  /\ inflight' = inflight \ held[w]
  /\ held' = [held EXCEPT ![w] = {}]
  /\ todo' = [todo EXCEPT ![w] = {}]

\* The finally clause after the last chunk; with no update the worker then
\* sleeps, claiming nothing.
WorkerFinish(w) ==
  /\ wpc[w] = "evaluate"
  /\ todo[w] = {}
  /\ Release(w)
  /\ wpc' = [wpc EXCEPT ![w] = IF updated[w] THEN "get" ELSE "idle"]
  /\ updated' = [updated EXCEPT ![w] = FALSE]
  /\ UNCHANGED <<live, db, queue, event, dispatcherVars, fetched>>

\* The finally clause after the handler's sleep.
WorkerGiveUp(w) ==
  /\ wpc[w] = "failed"
  /\ Release(w)
  /\ wpc' = [wpc EXCEPT ![w] = "get"]
  /\ updated' = [updated EXCEPT ![w] = FALSE]
  /\ UNCHANGED <<live, db, queue, event, dispatcherVars, fetched>>

WorkerAwake(w) ==
  /\ wpc[w] = "idle"
  /\ wpc' = [wpc EXCEPT ![w] = "get"]
  /\ UNCHANGED <<live, db, queue, event, inflight, dispatcherVars, held, todo,
                 fetched, updated>>

-----------------------------------------------------------------------------
\* The process dies, with all it has in memory; the file lock it held goes
\* with it, and the next process takes it before it starts a pool.
Crash ==
  /\ MayCrash
  /\ queue' = <<>> /\ event' = FALSE /\ inflight' = {}
  /\ dpc' = "wait" /\ free' = 0 /\ exclude' = {} /\ selected' = {}
  /\ pending' = <<>>
  /\ wpc' = [w \in Workers |-> "get"]
  /\ held' = [w \in Workers |-> {}]
  /\ todo' = [w \in Workers |-> {}]
  /\ fetched' = [w \in Workers |-> NoUpdates]
  /\ updated' = [w \in Workers |-> FALSE]
  /\ UNCHANGED <<live, db>>

Dispatch ==
  \/ DispatcherWake \/ DispatcherSelect \/ DispatcherSelectFails
  \/ DispatcherEnqueue

Work(w) ==
  \/ WorkerTake(w)
  \/ \E good \in SUBSET todo[w] : WorkerEvaluate(w, good)
  \/ WorkerPersist(w) \/ WorkerRaise(w) \/ WorkerFinish(w)
  \/ WorkerGiveUp(w) \/ WorkerAwake(w)

Environment ==
  \E q \in Qids : Edit(q) \/ RecordChange(q) \/ ChangeInterest(q)

Next ==
  \/ Environment
  \/ Dispatch
  \/ \E w \in Workers : Work(w)
  \/ Crash

Spec == Init /\ [][Next]_vars

(***************************************************************************)
(* Fairness: the event loop runs every ready coroutine; the poll timeout   *)
(* and the sleeps end; a pool that died is started again.  For the refresh *)
(* of an item, a fetch and a write that are attempted again and again      *)
(* succeed in the end, and with the newest revision: the code retries,     *)
(* Wikidata and the database recover, the replica catches up.              *)
(***************************************************************************)
Scheduling ==
  /\ WF_vars(DispatcherWake)
  /\ WF_vars(DispatcherSelect \/ DispatcherSelectFails)
  /\ WF_vars(DispatcherEnqueue)
  /\ WF_vars(dpc = "failed" /\ Crash)
  /\ \A w \in Workers : WF_vars(Work(w))

UpToDate(q, finding) == finding \in {Gone, Page(live[q])}

Recovery(q) ==
  /\ SF_vars(\E w \in Workers : \E good \in SUBSET todo[w] :
               WorkerEvaluate(w, good) /\ UpToDate(q, fetched'[w][q]))
  /\ SF_vars(\E w \in Workers : UpToDate(q, fetched[w][q]) /\ WorkerPersist(w))

ScheduledSpec == Spec /\ Scheduling

FairSpec == ScheduledSpec /\ \A q \in Qids : Recovery(q)

-----------------------------------------------------------------------------
(* Properties *)

\* No item is in two batches at once, be they queued or held by a worker, so
\* no two workers ever evaluate one item concurrently.
ExclusiveClaims ==
  /\ \A i, j \in 1..Len(queue) :
        i # j => queue[i] \intersect queue[j] = {}
  /\ \A i \in 1..Len(queue), w \in Workers :
        queue[i] \intersect held[w] = {}
  /\ \A v, w \in Workers : v # w => held[v] \intersect held[w] = {}

\* CONTENT_INFLIGHT_QIDS is exactly what is queued or held: a claim without a
\* batch would hide its item from the selection until the process restarts.
ClaimsAccounted ==
  inflight = (UNION {queue[i] : i \in 1..Len(queue)})
               \union (UNION {held[w] : w \in Workers})

\* put_nowait never raises QueueFull: only the dispatcher puts, and it puts no
\* more than the slots it counted before the query.
NoOverflow == dpc # "overflow"

\* Batches are never empty nor longer than DEFAULT_BATCH_SIZE, which is also the
\* size of a chunk of an evaluation and of one call of the fetcher.
BatchesSized ==
  LET Sized(batches) ==
        \A i \in 1..Len(batches) : Cardinality(batches[i]) \in 1..BatchSize
  IN  Sized(queue) /\ Sized(pending)

\* n batches share S, none of them two items larger than another.
Shares(batches, S) ==
  /\ UNION {batches[i] : i \in 1..Len(batches)} = S
  /\ \A i, j \in 1..Len(batches) :
        /\ i # j => batches[i] \intersect batches[j] = {}
        /\ Cardinality(batches[i]) <= Cardinality(batches[j]) + 1

\* However the selection, the free slots and the batch size divide, what was
\* selected is in one batch each, and no worker gets two items more than another.
SelectionShared ==
  [][dpc = "select" /\ dpc' = "enqueue" => Shares(pending', selected')]_vars

\* Writes are unconditional and a fetch may be much older than its write, but a
\* row goes back to an older revision only when the replica has not caught up with
\* a redirect, or because the item is deleted.
RowNeverRegresses ==
  [][\A q \in Qids :
       row'[q].rev < row[q].rev => row'[q].kind \in {"late", "gone"}]_vars

\* What workers have found and not yet written.
InFlight ==
  {<<q, fetched[w][q]>> : w \in Workers, q \in Qids} \ (Qids \X {Nothing})

Flight ==
  INSTANCE SingleFlight WITH
    Documents <- Qids, newest <- live, copy <- row, taken <- inflight,
    flying <- InFlight

\* Dispatcher and workers, their failures and restarts included, take an item
\* before they fetch it, have at most one finding of it in the air, and write
\* nothing else: the pool implements SingleFlight.
FliesOnce == Flight!FlightSpec

\* Writing a row leaves no older finding of its item behind, to be written later:
\* what a comparison of revisions in upsert_content_many would be for.
NothingOvertaken == Flight!NothingOvertaken

\* What the pool takes for granted of the revisions that the scan records.
Recorded == INSTANCE StoredCopies WITH Documents <- Qids, newest <- live, copy <- seen
ReadsRevisions == Recorded!CopiesSpec

\* Every claim is given up, whatever fails: no path keeps an item claimed.
ClaimsReleased == \A q \in Qids : q \in inflight ~> q \notin inflight

Stale(q) ==
  /\ q \in interest
  /\ row[q] = Nothing \/ (row[q].kind # "gone" /\ row[q].rev < seen[q])

\* A subscribed item whose row is missing or outdated is refreshed, through
\* failures, competing items, a late replica and restarts of the pool.
StaleRefreshed == \A q \in Qids : Stale(q) ~> ~Stale(q)
=============================================================================
