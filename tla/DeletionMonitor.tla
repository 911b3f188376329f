--------------------------- MODULE DeletionMonitor ---------------------------
(***************************************************************************)
(* The deletion monitor (wd_notability/content/deletion.py) copies the     *)
(* entries of Wikidata's deletion log into content_deletion_events, in     *)
(* batches above a cursor kept in lookup_state.  Without a cursor it starts*)
(* from the newest entry older than a day.  The statistics of the queue    *)
(* read the cursor too, and so may set it, beside the monitor.             *)
(*                                                                         *)
(* Every read and write of the database is a step of its own; any step may *)
(* fail, or the process may end, and the loop starts over.                 *)
(***************************************************************************)
EXTENDS Naturals, FiniteSets, FiniteSetsExt

CONSTANTS
  MaxLogId,    \* bound: log ids are 1..MaxLogId
  Unusable,    \* log ids whose title, action or timestamp cannot be used
  BatchSize,   \* CONTENT_DELETION_LOG_BATCH_SIZE
  InOrder,     \* whether entries appear on the replica in the order of ids
  None

LogIds == 1..MaxLogId

ASSUME MonitorAssumption ==
  /\ MaxLogId \in Nat
  /\ Unusable \subseteq LogIds
  /\ BatchSize \in Nat \ {0}
  /\ InOrder \in BOOLEAN
  /\ None \notin Nat

VARIABLES
  logging,    \* ids in the replica's log (external)
  old,        \* ids up to this one are more than a day old
  cursor,     \* the saved log_id; None when there is none to be read
  recorded,   \* log ids in content_deletion_events
  pc,         \* where the monitor is
  from,       \* its cursor_log_id
  batch,      \* the log ids it fetched
  statsPc, statsFrom,  \* the same for queue_stats
  started     \* highest id a start without a cursor has passed over

monitorVars == <<pc, from, batch>>
statsVars == <<statsPc, statsFrom>>
vars == <<logging, old, cursor, recorded, monitorVars, statsVars, started>>

TypeOK ==
  /\ logging \subseteq LogIds
  /\ old \in 0..MaxLogId
  /\ cursor \in 0..MaxLogId \union {None}
  /\ recorded \subseteq LogIds
  /\ pc \in {"load", "bootstrap", "start", "fetch", "record", "save"}
  /\ from \in 0..MaxLogId
  /\ batch \subseteq LogIds /\ Cardinality(batch) <= BatchSize
  /\ statsPc \in {"load", "bootstrap", "start"}
  /\ statsFrom \in 0..MaxLogId
  /\ started \in 0..MaxLogId

Init ==
  /\ logging = {} /\ old = 0
  /\ cursor = None /\ recorded = {}
  /\ pc = "load" /\ from = 0 /\ batch = {}
  /\ statsPc = "load" /\ statsFrom = 0
  /\ started = 0

Newest(S) == IF S = {} THEN 0 ELSE Max(S)

-----------------------------------------------------------------------------
(* Wikidata *)

Appear(id) ==
  /\ id \notin logging
  /\ InOrder => id = Newest(logging) + 1
  /\ id > old
  /\ logging' = logging \union {id}
  /\ UNCHANGED <<old, cursor, recorded, monitorVars, statsVars, started>>

DayPasses ==
  /\ \E id \in logging : id > old /\ old' = id
  /\ UNCHANGED <<logging, cursor, recorded, monitorVars, statsVars, started>>

-----------------------------------------------------------------------------
(* The cursor *)

\* A missing, unreadable or zero cursor sends the reader to the bootstrap.
Usable == cursor # None /\ cursor # 0

BootstrapAtNewest == Newest(logging)

\* MAX(log_id) of the entries older than a day
BootstrapCursor == Newest({id \in logging : id <= old})

Load ==
  /\ pc = "load"
  /\ IF Usable THEN pc' = "fetch" /\ from' = cursor
     ELSE pc' = "bootstrap" /\ UNCHANGED from
  /\ UNCHANGED <<logging, old, cursor, recorded, batch, statsVars, started>>

Bootstrap ==
  /\ pc = "bootstrap"
  /\ from' = BootstrapCursor
  /\ pc' = "start"
  /\ UNCHANGED <<logging, old, cursor, recorded, batch, statsVars, started>>

SaveStart ==
  /\ pc = "start"
  /\ cursor' = from
  /\ started' = Newest({started, from})
  /\ pc' = "fetch"
  /\ UNCHANGED <<logging, old, recorded, from, batch, statsVars>>

\* queue_stats: it counts what is above the cursor, and may bootstrap first.
StatsLoad ==
  /\ statsPc = "load" /\ ~Usable
  /\ statsPc' = "bootstrap"
  /\ UNCHANGED <<logging, old, cursor, recorded, monitorVars, statsFrom,
                 started>>

StatsBootstrap ==
  /\ statsPc = "bootstrap"
  /\ statsFrom' = BootstrapCursor
  /\ statsPc' = "start"
  /\ UNCHANGED <<logging, old, cursor, recorded, monitorVars, started>>

StatsSaveStart ==
  /\ statsPc = "start"
  /\ cursor' = statsFrom
  /\ started' = Newest({started, statsFrom})
  /\ statsPc' = "load"
  /\ UNCHANGED <<logging, old, recorded, monitorVars, statsFrom>>

StatsFails ==
  /\ statsPc # "load"
  /\ statsPc' = "load"
  /\ UNCHANGED <<logging, old, cursor, recorded, monitorVars, statsFrom,
                 started>>

\* clear_lookup_state, the last step of reset-main-cache.  The events and the
\* rows they could concern were emptied before, which is not followed here.
ClearCursor ==
  /\ cursor # None
  /\ cursor' = None
  /\ UNCHANGED <<logging, old, recorded, monitorVars, statsVars, started>>

-----------------------------------------------------------------------------
(* A batch *)

Above(id) == {i \in logging : i > id}

\* ORDER BY log_id LIMIT
IsFirst(S, n, T) ==
  /\ S \subseteq T
  /\ Cardinality(S) = IF Cardinality(T) < n THEN Cardinality(T) ELSE n
  /\ \A i \in S, j \in T \ S : i < j

Events(S) == S \ Unusable

Fetch ==
  /\ pc = "fetch"
  /\ \E S \in SUBSET Above(from) :
       /\ IsFirst(S, BatchSize, Above(from))
       /\ batch' = S
       /\ pc' = IF S = {} THEN "load"
                ELSE IF Events(S) = {} THEN "save" ELSE "record"
  /\ UNCHANGED <<logging, old, cursor, recorded, from, statsVars, started>>

\* upsert_content_deletion_events: keyed by log_id, so a second copy of an
\* entry changes nothing.
Record ==
  /\ pc = "record"
  /\ recorded' = recorded \union Events(batch)
  /\ pc' = "save"
  /\ UNCHANGED <<logging, old, cursor, from, batch, statsVars, started>>

SaveNext == cursor' = Newest(batch) + 1
SaveCursor == cursor' = Newest(batch)

\* The last id of the batch, usable or not.
Save ==
  /\ pc = "save"
  /\ SaveCursor
  /\ pc' = "load"
  /\ UNCHANGED <<logging, old, recorded, from, batch, statsVars, started>>

\* An exception, logged by the loop, or the end of the process.  The events
\* are written in chunks, each a transaction: any part of them may be stored.
Fails ==
  /\ pc # "load"
  /\ \/ pc = "record"
        /\ \E S \in SUBSET Events(batch) : recorded' = recorded \union S
     \/ UNCHANGED recorded
  /\ pc' = "load"
  /\ UNCHANGED <<logging, old, cursor, from, batch, statsVars, started>>

-----------------------------------------------------------------------------
Monitor ==
  Load \/ Bootstrap \/ SaveStart \/ Fetch \/ Record \/ Save

Stats == StatsLoad \/ StatsBootstrap \/ StatsSaveStart \/ StatsFails

Next ==
  \/ \E id \in LogIds : Appear(id)
  \/ DayPasses
  \/ Monitor \/ Fails
  \/ Stats
  \/ ClearCursor

Spec == Init /\ [][Next]_vars

(***************************************************************************)
(* Fairness: the loop goes on, and a step tried again and again succeeds   *)
(* at last; days pass; nobody removes the cursor forever.                  *)
(***************************************************************************)
FairSpec ==
  /\ Spec
  /\ WF_vars(Monitor)
  /\ SF_vars(Bootstrap) /\ SF_vars(SaveStart)
  /\ SF_vars(Fetch) /\ SF_vars(Record) /\ SF_vars(Save)
  /\ WF_vars(DayPasses)
  /\ <>[][~ClearCursor]_vars

-----------------------------------------------------------------------------
(* Properties *)

\* The cursor never passes a usable entry that was not recorded, whatever
\* failed and whoever else set the cursor, other than those a start without
\* a cursor passed over, provided the log appears in the order of its ids.
NothingSkipped ==
  InOrder /\ cursor # None =>
    \A id \in logging \ Unusable :
      id <= cursor => id \in recorded \/ id <= started

\* The cursor stands for the entries of the log up to it, and `started` for
\* those that a start passed over.
Copier ==
  INSTANCE LogCopier WITH
    Entries <- LogIds, Useless <- Unusable, log <- logging,
    aged <- {id \in logging : id <= old}, copied <- recorded,
    behind <- {id \in logging : cursor # None /\ id <= cursor},
    excused <- {id \in logging : id <= started}

\* If the log appears in the order of its ids, the monitor, the statistics
\* that set its cursor beside it, and the operator who removes it, together
\* implement a copier: each of their steps, crashed and repeated ones
\* included, is one it may take.
CopiesTheLog == Copier!CopierSpec

\* Every usable entry is recorded in the end, or was passed over at a start.
EveryEntryRecorded ==
  \A id \in LogIds \ Unusable :
    id \in logging ~> id \in recorded \/ id <= started
=============================================================================
