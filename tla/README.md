# Verification of wd-notability

wd-notability judges whether Wikidata items are notable. A browser gadget
subscribes to the items of the page it shows; workers on Toolforge fetch what
is needed to judge them, and the server streams the levels back. All parts are
asyncio processes in Python that share one MariaDB database and nothing else.

This directory holds TLA+ modules of the parts that make this work although
they run concurrently and any call may fail, TLC configurations that check
them on small instances, and TLAPS proofs of the safety of all of them.
`PROJECT.json` lists the components, runs, mutants, hazards and theorems, and
maps every definition to the lines it models.

    tlc -workers 2 -config MCContentPool.cfg MCContentPool
    tlapm ContentPoolProofs.tla

## The system

| Part | State it keeps | Operations | What makes it correct |
|---|---|---|---|
| Content worker pool, `content/worker.py` | a bounded queue of batches, `CONTENT_INFLIGHT_QIDS`, a dispatch event; nothing survives the process | dispatcher: select, reserve, enqueue; workers: take, evaluate in chunks, write, release | an item is evaluated by one worker at a time; every claim is released; stale items are refreshed; no write overtakes another |
| Selection, fetch and write of content, `content/db_read.py`, `fetcher.py`, `db_write.py` | `content_evaluation`, `content_deletion_events`, the policy cutoff | select stale rows, fetch a page and its redirect, store, reset | whatever makes a row wrong makes it a candidate |
| Interest, `interest/manager.py`, `session.py` | subscriptions of sessions, a queue of messages, `current` and `persisted`; rows of `interest` | replace, clear, drain, flush (upsert, delete, trace), close, purge | the table holds what the open sessions subscribe to |
| Deletion monitor, `content/deletion.py` | a cursor in `lookup_state` | bootstrap, fetch a batch of the deletion log, store events, save the cursor, statistics | no log entry is skipped |
| Recent-changes scan, `metadata/worker.py`, `write.py`, `read.py` | a saved position, `recent_changes_cache` | page through changes, write revisions, write creations, save | every edit is recorded, and revisions never go back |
| User history, `user_history.py`, `metadata/write.py` | one row a user in `user_history` | request, list, start, backfill, finish, fail | accepted windows are backfilled; "finished" is true |
| Inlinks worker, `inlinks/pipeline.py`, `blackboard.py` | a blackboard of targets in memory; `inlinks_cache`; its own interest | copy interest, count, fetch graphs, evaluate, publish | the stored level follows the links and their levels |
| Event streams, `server/routes_api.py`, `app.py`, `interest/write.py`, with the scripts of the pages | snapshots of subscriptions in memory, leases in `interest`; the page's own state | subscribe, lease, poll, send, reconnect, leave | a page comes to show its items as they are, and never again what was stored before |
| Evaluation cache and levels, `evaluation_cache.py`, `models.py` | the schema, the summary view | combining levels, errors, the view | what is read agrees with what was found |
| Detectors, `content/detectors.py`, `sitelinks.py`, `identifiers.py` | sets of properties, kept for ever | evidence to levels | each criterion as documented, UNKNOWN after a failure |
| Subscriptions of wikis, `external_usage/wiki_subscribers/` | `wiki_subscribers`, a mark | rebuild daily, copy every minute | the mark is never ahead of the table |
| Lookup builders, `external_usage/`, `lookup_backend.py`, `lookup_cache.py` | lookup tables, a stamp, snapshots | rebuild part by part, swap, stamp, read | no table is a partial build; tables follow their sources |
| Creation metadata, `creations.py`, `creation_cache.py` | creations in `recent_changes_cache` | list, fetch, write; for a user and for subscribers | a creation is one of its item; every wanted one comes |
| Item trace, `item_trace.py` | a buffer, rows, tasks | record, flush, write, prune | an event is in one place |
| Launcher, `launcher.py`, `main.py` | processes of units | start, restart, stop, signals | nothing is left behind |
| Wikidata client, observability, command line | retries, counters | request, retry, report | no effect on the rest |

### How they interact

    gadget -> server: event stream -> session -> InterestManager -> interest
    interest -> content pool: candidates -> Wikidata -> content_evaluation
    interest -> inlinks worker: targets -> replica -> inlinks_cache
    inlinks worker -> interest: the items that link to a target
    content worker -> inlinks_cache: STRONG for what a strong item links to
    replica -> recent changes -> recent_changes_cache -> candidates
    replica -> deletion log -> content_deletion_events -> candidates
    server -> user_history -> recent-changes worker -> recent_changes_cache
    content_evaluation, inlinks_cache, lookup tables -> event stream -> gadget
    dumps, replica, OpenStreetMap -> builders -> lookup tables -> evaluations

The processes meet only in tables. Every call autocommits and runs in a
thread, so between any two calls anything may happen in the others. Within a
process, coroutines interleave at their awaits.

`StoredCopies` is what the scan and the content workers, which meet in a table of
revisions, expect of each other: a copy is replaced only by a version between
itself and the newest. The scan keeps this for the revisions it records
(`RecordsRevisions` of RecentChanges), which the pool reads (`ReadsRevisions`).
That both sides agree is proved (see The proofs). The rows that the workers write
are no such copies: a redirect's revision is the replica's, which may lag, and a
deleted item has none. So the event streams take nothing for granted of the rows
they read, but for the order in which they were stored.

### What is hard

- The dispatcher reads the claims, awaits a query, and claims what it got.
- Content rows are overwritten unconditionally with what was fetched earlier.
- Staleness compares the time of an event with the time a row was *written*;
  deletion logs have whole seconds, rows microseconds.
- Wikidata's replica lags and shows changes out of order.
- A flush, a batch or a pass is several commits; each may fail alone.
- A row read, changed and written back in separate calls loses updates.
- The inlinks worker's five coroutines record results on entries that others
  have pruned, added again or changed meanwhile.
- A page may have two streams, and a cancelled one leaves its SQL statement
  running in a thread.
- Tables are rebuilt over hours from sources that move on, and their marks and
  stamps are saved by themselves.
- A process may die anywhere; only tables and the purge of the next one remain.

`PROJECT.json` lists these as hazards, each at its line with the properties
that cover it, or the reason why none does.

## The modules

Each module models one component: an action is what runs between two
suspensions, with every assignment the code makes there. Names follow the code.

### ContentPool

`DispatcherWake`, `DispatcherSelect`, `DispatcherEnqueue` are the parts of
`_dispatcher_loop` between its awaits; `WorkerTake`, `WorkerEvaluate`,
`WorkerPersist`, `WorkerFinish` those of `worker_loop`. `event`, `queue` and
`inflight` are the objects `run_worker_pool` makes. Every await may raise
(`DispatcherSelectFails`, `WorkerRaise`), and the process may die (`Crash`).
The database is external: `seen` is what the recent-changes scan wrote, `row`
what is stored of an item. The observability calls and throughput counters are
left out.

`Findings` says what an evaluation may find while a revision is the newest: the
page at this revision (`Page`); the item gone (`Gone`), whose row has no revision
(`worker.py:599`); or a redirect (`LateRedirect`) at an older one, since the API
answers with the target and the revision is the replica's (`fetcher.py:278`). The
state of the replica is not kept, so any older revision may have been the
redirect. That a deleted item is found again, or a row looked at without a newer
revision, is the business of ContentFreshness; here any row may be `called` for.

`SingleFlight` is the abstract specification of the pool, without batches,
queue, workers or failures: documents are taken, fetched when nothing of them is
in the air, and their copies replaced by what comes down, if it is not dropped.
The pool implements it (`FliesOnce`, by the INSTANCE `Flight`): a finding in the
air (`InFlight`) is one that a worker made and has neither written nor lost.

### ContentFreshness

One item's evaluation at a time, as ContentPool guarantees, but with the data
that decides staleness: a clock finer than a second, pages that are edited,
deleted, restored or made redirects, a replica that lags, two monitors that
record late. `Candidate` is the `WHERE` of `list_pubsub_content_candidates`,
one operator per expression; `ContentStale` is the badge's. `Fetch`, `Verify`
(the replica's answer about pages missing from the API), `Abandon` and `Store`
are an evaluation. The code does not store when a page was fetched; the model
does (`at`), to state the properties. `StaleRows`, `SnapshotStale` and `Reason`
are the listing's, the cached report's and the reasons' own SQL.

### InterestManager

Sessions change their items (`Replace`, `Clear`), which puts a message in the
manager's queue; the task applies messages (`Apply`), waits to gather more,
and flushes in three steps that fail independently (`Faults`). `ack` is a call
that took effect but raised. `Close`, `Crash`, `Start` and `Purge` are the
life of the process. Priorities and the `wants_*` columns are left out: all
streams of a server share the manager the first of them made.

### DeletionMonitor

A batch is `Load`, `Fetch`, `Record`, `Save`, with a bootstrap when there is
no cursor; `Stats` is `queue_stats`, which may bootstrap too. `Unusable`
entries cannot be parsed. `InOrder` says whether the log appears on the
replica in the order of its ids. `LogCopier` is the abstract specification:
entries are only ever added to the copy, and one is put behind only if it is
copied, useless, or passed over by a start when it was a day old. The monitor
implements it if the log appears in order (`CopiesTheLog`, by the INSTANCE
`Copier`): what is behind is what lies at or below the saved cursor, and what
is excused what lay at or below a start's.

### RecentChanges

A pass is `Fetch` for each page, `WriteRevids`, `WriteCreations`, `Save`.
Changes appear at most `MaxLag` after they are made, in any order. `TimeKnown`
is what the code makes of the text form of a time (see Findings). The newest
revision of an item (`LastRevid`) is its last change; that none but these are
recorded, and none out of turn, is `RecordsRevisions`.

### UserHistory

Clients and the worker read a row and write it back in separate actions.
`lost` records that a write replaced a row its writer had not seen; the code
has no such thing.

### InlinksPipeline

The actions of the five coroutines, each from one await to the next, on
`board`. Of a count only its sign is kept. The ages that make a result stale
are replaced by choice: a pass takes everything that is missing and any part of
what is known. Two stamps of whole seconds are compared in one place,
`record_empty_graph`; `graphing.same` says for which targets they are equal.
`Edit`, `ToggleInterest`, `Resolve` and `PushStrong` are what the rest of the
system does meanwhile. An entry whose graph was cut at the limit keeps
`truncated`; `record_empty_graph` does not clear it, which would leave an entry
that nothing takes up again, if it ever met a cut one (`CutHoldsLimit`).

### EventStreams

One page, of the gadget or of the creations dashboard, and the server's streams
to it. `Ask`, `Answer`, `AskFails` are its POST; `Reconnect`, `Hide`, `Focus`,
`Leave` what its script does on events and timers, which differs between the
two scripts. The dashboard has no handler for becoming visible: if its stream
ended while it was hidden, it is `Offline` until the user clicks (`Click`), unless
a timer was pending. `Lookup`, `LeaseDelete`, `LeaseInsert`, `Read`, `Send` are a
stream between its awaits. `Cancel` ends one whose page is gone: the statement
it was waiting for goes on (`late`, `RunLate`). Rows are numbered as they are
stored, whatever revision they have; `fits` are the items whose row says what is
on Wikidata. `Store` and `StoreOutdated` are writes of the pool, also for other
clients of the item: of the page as it is, or of what was fetched before an edit
or from a replica that lags. Only for an item with a lease is a write of the page
as it is bound to come (`Refresh`).

### Support

Six smaller parts that share no state. `Support` composes them: `part` says
which one a behaviour is about, so that its states are the sum and not the
product of theirs.

- `WikiSubscribers`: the builder scans the log in blocks to the row that was
  last when it began, swaps and marks; the worker copies the rows beyond the
  mark. `shared` says whether the two jobs see one lock file, which on
  Toolforge need not be so. Rows may appear late (`late`) or go away.
- `LookupTables`: four builders with the steps their code has. A part of a
  table is the set of what was read of it, each the version and the download it
  came from: {} if the part is missing, two if a download of the dump that broke
  off had counted it already, be the version the same or not, since counts are
  added. `LoadSnapshot` and `LookUpSite` are a reader's.
- `CreationBackfill`: the pass for subscribed items and that for a user, each
  list, fetch, write, on one table.
- `ItemTrace`: the buffer, the delayed flushes that forget each other, the
  batches being written, the pruner, the end of the process.
- `Evaluation`: sources, detectors one after the other, signals; the tests of a
  sitelink, statement or reference in the order of the code, beside the rules
  of `detectors.md`; N2, N12, N3, N; what is stored and read again.
- `Launcher`: the four commands that start processes, between `Popen` and the
  assignment that records it, with signals at any time, and exceptions wherever
  one prints or looks at the Python files (`SpawnFails`, `RecordProcess`,
  `ExceptionEnds`). `handlers` and `guarded` say whether signal handlers are
  installed and whether a `finally` stops the processes; `run_dev_workers` never
  has one, `_run_with_reload` has it from its loop on.

## The runs

| Run | Module, configuration | What it shows |
|---|---|---|
| pool | MCContentPool | no item in two batches; no batch empty or too long; the pool implements SingleFlight, in which no write overtakes another |
| pool_liveness | MCContentPoolLiveness | `put_nowait` finds room; every claim is released; stale items are refreshed |
| freshness | MCContentFreshness | deletions, restorations, edits, redirects and policy cutoffs are noticed; five queries agree on what is stale; rows become right |
| interest | MCInterestManager | nothing lost between session and manager; belief backed by rows; published when quiet, and in the end |
| deletion | MCDeletionMonitor | the monitor implements LogCopier, which skips no usable entry; all are recorded in the end |
| recent_changes | MCRecentChanges | no change falls behind the next start unrecorded; only an item's own revisions are recorded, and in their order; all seen |
| recent_changes_creations | MCRecentChangesCreations | violated: creations are never recorded |
| user_history | MCUserHistory | "finished" is backed; accepted windows are served unless a write was lost |
| inlinks | MCInlinksPipeline | a cut entry keeps its links; part of the links decides nothing but STRONG; only a stop leaves UNKNOWN; the stored level comes to agree with the links; the worker's interest ends with its clients' |
| event_streams | MCEventStreams | a page never shows again what was stored before, and comes to show what is there, but for a dashboard left offline or that met a failure |
| event_streams_leases | MCEventStreamsLeases | violated: the lease of a page that was left never ends |
| support | MCSupport | marks, stamps, tables, creations and traces are sound; levels are those deserved; no process is left behind but where a signal or an exception meets nothing that would stop it; tables follow their sources, but for counts doubled by a broken download |

### Bounds, and why they are enough

- **pool**: two workers, two items, a queue of two batches of one item, two
  revisions of each, crashes at any time (`MayCrash`): a selection can overlap
  two evaluations, the queue can be full, an item can be edited between its fetch
  and its write, and a row go back to the first revision or to none. Items and
  workers are symmetric. **pool_liveness** has one worker and a queue of one, the
  tightest competition for a slot, and batches of two that are written one by
  one, so that a batch may fail between its writes; one of the items is edited,
  the other has one revision (`MaxRevid` is a bound of each item); no crash and
  no symmetry.
  Selections that neither the slots nor the size of a batch divides need more
  items than these runs have; `SelectionIsShared` proves them right.
- **freshness**: two pages that may redirect to each other for a second and a
  half, or one page (`Alone`) for three seconds and a half, so that it can be
  deleted, restored and deleted again, in the second of a write or outside it.
  Nothing happens to pages after `MaxTime`; then liveness is asked.
- **interest**: two sessions, two items, two messages waiting; five kinds of
  failure, each any number of times.
- **deletion**: three log entries, the second unusable, batches of two: a full
  and a short batch, and a batch that ends in an unusable entry.
- **recent_changes**: two items, three changes, pages of two, a rewind of two
  seconds and an overlap of one, with a lag of one: late rows, a second page,
  and a change that becomes too old.
- **user_history**: two requests at once, windows of three days, half seconds:
  a request in the second its job finishes.
- **inlinks**: one target, two items any of which may link to it at the start, a
  context limit of one, the levels none, unknown and strong, two disturbances
  (edits, levels, interest, failures, restarts): a graph cut from the start can
  be mended and cut again while another pass is under way, or a strong write
  come between two others. Four disturbances with one item were checked as well,
  with the same result.
- **event_streams**: two items, one of which the page shows from the start, an
  edit or an outdated write, a change (an item found, the page hidden or shown),
  and a fault (a failed request or stream, a restart, an expired snapshot):
  enough for a page with two streams, a late statement of the old one, and a
  reopened stream.
- **support**: per part, two items and three rows of a log read in blocks of
  two, one breakdown; two parts of a table in three versions, two attempts, two
  faults; three items, one of which never has a creation, with a limit of one
  and one setback; four events, a buffer of three, chunks of two; two signals
  of one detector and one failure, with every item of evidence; two daemons and
  a job. Each part has its own bounds, as their states are not multiplied.

Deadlock is not checked where a bound of the model (a last tick, a last
change) really stops it.

### Fairness

Coroutines that can run do run, sleeps and polls end, processes that died are
started again (Toolforge restarts its jobs): weak fairness. Where an item
competes with others, or where a call must succeed for anything to happen, an
action that is tried for ever succeeds in the end: strong fairness, which the
unbounded retries of every loop justify if the services recover. The scan
assumes that passes do not fail for ever, since nothing bounds the length of a
pass, and the monitor that its cursor is not removed for ever. In EventStreams
timers fire, requests are answered and statements end; a stream reads, and its
deadline comes, though it may be cancelled again and again; and the workers
refresh an item that is leased again and again, which is what ContentPool shows
of them. It in turn takes it that a fetch which is tried again and again finds
an item as it is in the end: the API answers and the replica catches up. In
Support the jobs are started again and each of their steps is taken; nothing
makes a user ask, an evaluation go on or a launcher act. No user ever has to do
anything: where a click alone would help, as for a dashboard left offline, the
property makes an exception of the state. A property that holds only until a
call fails says so in its statement (`faults`, `lost`).

## The proofs

`ContentPoolProofs` proves, for any finite set of items, any workers and any sizes
that satisfy `PoolAssumption`, that the pool is type-correct, claims are
exclusive and accounted for, the queue never overflows, and no write overtakes
another (`NothingOvertaken`). The last is the interesting one: writes are
unconditional, and the fetch may be arbitrarily older than the write. None of the
properties is inductive. The invariant `Inv` adds

- `WorkersClaim`: a worker's items are claimed, and what it is about to write is
  of items that it holds.
- `WhileSelecting`: during the query, the claims are within the copy that was
  excluded and there is room for what was asked for. Only the dispatcher claims.
- `WhileEnqueueing`: the selected batches are disjoint, unclaimed, and fit.
- `QueueClaims`, `NoOrphan`: batches are claimed, and every claim has a batch.

There is one lemma for each of the dispatcher, a worker, a crash and the
surroundings.

That no batch is empty or too long (`BatchesSized`) and that batches share a
selection evenly (`SelectionShared`) is arithmetic. `Split` is the code's, by
quotient and remainder; `UpToSteps`, `UpToGrows`, `UpToEnds` say that its slices
are laid end to end, `InSomeSlice` that no position is skipped (by the least
index that reaches it, since induction is out of reach), and `CountSuffices` that
the rounded count neither exceeds the items nor leaves some without a place.

Its last sections prove the refinement. `ImplementsSingleFlight`: initial states
are initial, and with `Inv` before and after, every step is one of SingleFlight's
or a stutter. Reserving a batch takes its items (`DispatchFlies` needs
`WhileEnqueueing`: none was taken), evaluating fetches (`EvaluateFlies` needs
`ExclusiveClaims`: no other worker has found something of them), a write lands
what the worker carried, an exception loses it or the rows not yet written
(`WriteLands`), and releasing or dying lets go.

Two theorems show what this is worth, of any behaviour of SingleFlight, in which
no step compares versions. `NoWriteOvertakes`: a copy that is replaced leaves
nothing in the air that was found before, because at most one finding of a
document is (`FlightInv`). `CopiesNeverRegress`: a copy goes back only if what
was found is a redirect that the replica is late with, or the document is gone,
because a page that is found is the newest and no copy is newer. `WritesInOrder`
and `RowsNeverRegress` bring them back to the pool. That rows never go back at
all is not true of the code, and not claimed (see Findings).

On its other side, `EveryRevisionRecords` says that `RecordChange` is exactly one
replacement that `StoredCopies` allows of a recorded revision, but an item's
first: the model of the pool admits every scan that keeps `StoredCopies`, and
assumes no more. It needs that none is recorded that an item has not got
(`RecordedBounded`).

`InterestManagerProofs` proves, for any items, sessions, kinds of failure and
queue length, that no change is lost (`NothingLost`), that what the manager
believes to be stored is stored (`PersistedBacked`), and that a manager which
has caught up without a failure has published exactly what its sessions want
(`PublishedWhenQuiet`), the first and the last for sessions that share no item.
The argument has two parts. `Flushing` follows `persisted` and the rows through
the steps of a flush: what `current` contains and `persisted` does not has been
upserted before the delete, and so on, unless something failed. `Queueing`
follows an item through the messages: the last message that mentions it decides
(`AppendDecides`, `ApplyKeeps`), and that one is its session's latest word.

`ContentFreshnessProofs` proves, for any items, any length of a second and any
number of revisions, `ChangeNoticed`, `TargetNoticedUnlessRaced` and
`ReadersAgree`. They speak of rows, and a row is what an evaluation found some
time before. `Sound` says of a finding, stored or still under way, what remains
true of it while pages, replica and other rows move on: its revision is the
page's or an older one; nothing happened to the page's existence since, unless
the log says so; a row of its target written before the fetch is no newer than
what was judged. `Stored` and `UnderWay` are `Sound` of rows and of jobs.

`DeletionMonitorProofs` proves, for any log, batch size and set of unusable
entries, `NothingSkipped`, and that the monitor implements `LogCopier`: initial
states are initial, and every step is one of the copier's or a stutter
(`CopiesTheLog`). `CopiersMissNothing` says what that is worth, and
`MonitorMissesNothing` brings it back to the monitor. The invariant says that
positions come from the log, that a batch has no gap and is recorded before its
end is saved, and that what a position leaves behind is recorded or was passed
over by a start.

`RecentChangesProofs` proves `SeenNeverRegresses`, which follows from the
maximum each write takes, and `NoGap`, which follows from something its authors
did not intend: as no time is known, no pass starts later than the rewind from
now (`PositionStuck`). The overlap has no part in it. With times known and a lag
within the overlap, TLC finds `NoGap` violated by a pass of several pages, whose
cursor moves on past changes that have not appeared; with passes of one page it
holds. `ScanRecordsRevisions` proves that the scan implements `StoredCopies`: a
pass holds only changes that were made, changes keep their numbers, and a new
change of an item is its last, since numbers have no gaps (`Recording`).

The same module proves `FinishedBacked` and the types of UserHistory for any
number of requests and days. The row can be replaced at any moment, so the
strengthening speaks of the worker instead: before its last write, the window it
listed is stored (`Backed`).

`InlinksPipelineProofs` proves `CutHoldsLimit`, `PartNeverDecides`,
`OnlyStopsLeaveUnknown` and the types, for any targets, items, levels and limit.
The entries are `Sound` wherever they are, on the board or in an evaluator's
copy: cut only if they hold as many links as the limit. The step that could
break it is `record_empty_graph`, and that it does not rests on what the graph
fetcher holds (`GraphingInv`): no target of its pass has a cut entry when it
records, as the pass took none up and only the fetcher itself marks one. A
target that was pruned and added again meanwhile has a new entry, which is not
cut. That UNKNOWN rows go is the evaluator's to do, and the other writers of the
table never write UNKNOWN: they can only take its place. The proof relates the
rows it wrote to what it will delete.

`EventStreamsProofs` proves `ShownNeverRegresses` for any items, edits and
faults. A stream sends what it read earlier, and two may be running; but what
the stream that the page listens to has read is no older than what the page
shows (`Ahead`), because the page began to listen before it read, and shows
nothing from the other since. A stream that has sent holds nothing (`Empty`).
`TypeCorrect` bounds every variable; it takes that statements left running carry
only items that the page had. Older and newer are the order in which rows were
stored, whatever their revisions, so nothing is assumed of the pool.

`SupportProofs` proves `NoOrphans`, `TablesSound`, `LevelsSound` and the types
(`SupportTypeCorrect`). As the parts share no state, each has an invariant of
its own and a lemma for its next-state relation. `LauncherInv`: a process is
unrecorded only while units are started, one that nobody will stop was exposed
to a signal or an exception, and `launch`, whose handler and `finally` come
first, never exposes any. `Staging`: if a build will be stamped with the dump as
it is, it holds nothing but counts of this dump, and those of its last download
whole. `Assigned` and `Progress`: the ids up to the block a scan has reached are
in the staged or the real table. `TraceInv`: the buffer, the batches, the table,
the pruned and the lost events are disjoint and are all events. `EvaluationInv`:
a level follows what the criterion deserves, or is UNKNOWN after a failure
(`Tracks`), which signals, failures, and then N2, N12, N3 and N preserve; that
the tests of a sitelink in their order amount to the documented rules is a lemma
(`SitelinkJudged`), and so is that the view's rule for N2 agrees with the code's
on the levels N2a and N2b can have (`ViewsN2`).

The proofs assume of the constants what the modules' assumptions say, and no
fairness: they speak of `Spec` or, for Support, whose specification states it,
of steps only.

Only model-checked are the properties under fairness (`ClaimsReleased`,
`StaleRefreshed`, `Converges`, `EventuallyFresh`, `PolicyApplied`,
`EveryEntryRecorded`, `EveryChangeSeen`, `RequestsServedUnlessLost`,
`SettledAgrees`, `InterestReleased`, `EventuallyCurrent`, `TablesFollow`), which
are out of the prover's reach. Every invariant and every action property of a
passing run is proved, the steps of the refinements among them. Some are proved
only, because others that a run checks imply them or take more items than a run
has: `ClaimsAccounted`, `NothingOvertaken`, `RowNeverRegresses`,
`SelectionShared`, `NothingSkipped`, `SeenNeverRegresses`, and the types of
DeletionMonitor and UserHistory.

## Findings

With a run that shows it:

- **Creations are never recorded by the scan.** Rows come back with their time
  in ISO form (`metadata/read.py:210`), and the pass reads it with a parser for
  14 digits, which answers `None` (`metadata/write.py:261`). The position never
  advances either: every pass starts where the one before did, less the
  overlap, until it goes back a whole day. This is also why the scan loses no
  change however long the lag is. (`CreationsSeeded`)
- **The lease of a closed page never ends** (`routes_api.py:794`). The stream of
  a gadget writes its items to `interest`, and nothing deletes them when the
  stream or the page ends: `purge_expired_interest` returns 0
  (`interest/write.py:319`), and the reaper looks at touched subscriptions,
  which no routed stream touches. The workers go on refreshing items of pages
  closed long ago, against `content.md:42`. (`LeaseEnds`)

Without a run of their own; the properties that a name follows make an exception
of them:

- An item that lost its last link may keep its level (`blackboard.py:265`).
  `record_empty_graph` returns early if the entry was evaluated in the second in
  which the pass began, because `record_count` has just set its count to 0. The
  old links stay, the graph is not fetched again, and the evaluator writes the
  old level again and again. An item that links to itself gets there too, since
  the count includes this link and the graph does not. (`Follows`, in
  `SettledAgrees`)
- The inlinks worker may never publish the linked items (`pipeline.py:752`): it
  does so when the list of targets changes, which is before their graphs are
  fetched. (`InterestReleased` speaks of the end of interest only)
- The cached report never sees the policy: it casts an ISO time to a number
  (`report_api.py:275`). (`ReadersAgree`)
- `run_dev_workers` and `--reload` leave a worker without a parent, with its
  lock, if a SIGTERM comes before the process is recorded or, for `--reload`,
  at any time, since it installs no handler. `run_dev_workers` leaves it as well,
  with no signal, when a `print` fails because its output is gone (`main.py:877`)
  or the Python files cannot be listed (`main.py:850`, `871`, `875`): it has no
  `finally`. That of `_run_with_reload` begins after its first look at the files
  (`main.py:790`). (`exposed`)
- A content row may go back to an older revision. That of a redirect is the
  replica's (`fetcher.py:278`), of which only the target is compared: with
  revisions 2 (a redirect to A), 3 (content) and 4 (a redirect to A again) and a
  replica still at 2, a row at 3 is replaced by one at 2. That of a deleted item
  is NULL (`worker.py:599`). (`RowNeverRegresses`)
- A dashboard whose stream ends while it is hidden does not reconnect
  (`creations.js:650`), and as nothing on it listens to becoming visible, it is
  still offline when it is shown again, until the user clicks on the word
  (`creations.js:804`). (`EventuallyCurrent` with `Offline`)
- As many unanswerable items as the backfill's limit starve all others for as
  long as they are wanted (`interest/write.py:724`). (`TablesFollow`)
- A trace batch whose write fails is lost (`item_trace.py:229`), and so is what
  the buffer holds when the process ends, as closing does not flush. (`lost`)
- A scan of OpenStreetMap cut short replaces the table all the same
  (`osm/builder.py:167`; `NeverPartial`). A download of the SDC dump that is
  begun again on the same dump counts its first chunks twice
  (`sdc/builder.py:245`, `199`), is stamped as that dump, and is kept until the
  next one; this only raises counts of items that are used anyway. (`IsCopy`)
- A failed lookup of a namespace makes a sitelink count for nothing or for more
  than it should, not UNKNOWN; the sets of properties are cached for ever even
  if they were empty (`identifiers.py:67`). (`lookups`)
- A template with a redirect badge counts as STRONG, because the test of
  templates comes first; `detectors.md:31` lists "redirect-marked sitelinks" as
  weak. (`Doubtful`)
- Long-running readers never see new classes of properties, or changed
  namespaces of a site they know: the state token is always `None`.
- The dashboard reopens a stream whose snapshot is gone, and after a failed POST
  stays as it is. (`EventuallyCurrent` with `faults`)
- A user-history request that arrives while a job runs, or beside another
  request, is overwritten by the other's row (`metadata/write.py:175`,
  `user_history.py:306`), although `recent-changes.md:13` promises to "Backfill
  creation data for queued user requests". (`lost`)
- Two event streams of one server may subscribe to one item; the manager holds a
  set, so the end of one withdraws the item for both. (`Overlap`)
- An exception of the item trace ends the manager's task: it stands outside the
  `try` of `_flush` (`interest/manager.py:236`). (`faults`)
- An upsert that failed after its first commits leaves rows that no later
  delete knows of. (`faults`)
- A page deleted or restored between its fetch and the write of its row is not
  noticed, nor is a redirect's target that was written in that time: both are
  compared with the time of the write (`content/db_read.py:567`,
  `evaluation_cache.py:675`; `content.md:67` says "its target has changed since
  the source evaluation"). (`Raced`, `TargetNoticedUnlessRaced`)
- A graph that was cut at the limit is never fetched or evaluated again
  (`blackboard.py:369`). (`Follows`)

## Not modelled

Renderers and pages that show what they read keep no state. The schema and its
migrations run once. Observability decides nothing. The API client's retries
appear as calls that answer, fail or are cancelled. The single pass of the
inlinks worker does once what its coroutines do. Of the event streams, the one
of the creator report, the one behind touches, which no route reaches, and the
debugging routes of sessions are left out. That there is one pool, one monitor
and one scan (their file locks) is assumed; `worker --limit N` takes no lock and
is outside the models (`main.py:972`). Of the command line only the commands
that start processes are modelled; the others call what other modules model.
`PROJECT.json` has the reason for each component.

## Plan

Done, in this order: ContentPool, InterestManager, ContentFreshness,
DeletionMonitor, UserHistory, RecentChanges, InlinksPipeline; LogCopier and its
refinement, EventStreams, and the parts of Support; proofs of the safety of all
of them; SingleFlight, StoredCopies and their refinements.

Next:

1. The other interface between parts, the table `interest`: what InterestManager
   publishes, EventStreams leases, and ContentPool and InlinksPipeline read.
2. The stream of the creator report, and the retries of the API client where
   they meet the deadlines of its callers.

The safety and liveness runs of one module are merged as new modules need runs
of their own.
