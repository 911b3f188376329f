------------------------------ MODULE ItemTrace ------------------------------
(***************************************************************************)
(* The item trace of a process (wd_notability/item_trace.py): workers      *)
(* record events, which wait in a buffer until it is full, its first event *)
(* is old, two seconds have passed (a task that sleeps and then flushes)   *)
(* or a worker asks for a flush.  A flush takes the whole buffer and then  *)
(* writes it, chunk by chunk; meanwhile events go into a new buffer.       *)
(*                                                                         *)
(* asyncio switches tasks at awaits only, and no body under the store's    *)
(* lock awaits, so taking the buffer and recording are one step each.      *)
(* Events are numbered as they are recorded; so are sleeping tasks, by the *)
(* last event when they were created.                                      *)
(***************************************************************************)
EXTENDS Naturals, FiniteSets, FiniteSetsExt

CONSTANTS
  LastEvent,      \* bound: events recorded
  FlushBatch,     \* DEFAULT_ITEM_TRACE_FLUSH_BATCH_SIZE
  ChunkRows,      \* rows of one INSERT
  NoFlush         \* no delayed flush

ASSUME TraceAssumption ==
  /\ LastEvent \in Nat /\ FlushBatch \in Nat \ {0} /\ ChunkRows \in Nat \ {0}
  /\ NoFlush \notin Nat

VARIABLES
  recorded,   \* events recorded so far
  buffer,     \* _buffer
  sleeping,   \* delayed flushes that sleep, superseded ones included
  flushTask,  \* _flush_task
  batches,    \* what flushes have taken and not yet written
  pruner,     \* whether _prune_task runs
  traced,      \* item_trace_events
  pruned,     \* events deleted from it (not stored)
  lost        \* events that never reached it (not stored)

traceVars == <<recorded, buffer, sleeping, flushTask, batches, pruner, traced,
               pruned, lost>>

Events == 1..LastEvent

TraceTypeOK ==
  /\ recorded \in 0..LastEvent
  /\ buffer \subseteq Events /\ sleeping \subseteq Events
  /\ flushTask \in Events \union {NoFlush}
  /\ batches \subseteq (SUBSET Events) \ {{}}
  /\ pruner \in BOOLEAN
  /\ traced \subseteq Events /\ pruned \subseteq Events /\ lost \subseteq Events

TraceInit ==
  /\ recorded = 0
  /\ buffer = {} /\ batches = {}
  /\ sleeping = {} /\ flushTask = NoFlush
  /\ pruner = FALSE
  /\ traced = {} /\ pruned = {} /\ lost = {}

-----------------------------------------------------------------------------
(* Recording and flushing *)

KeepUntilWritten(rows) ==
  /\ buffer' = rows
  /\ flushTask' = NoFlush
  /\ batches' = (batches \union {rows}) \ {{}}

\* _flush_pending, up to the write: the delayed flush that is under way, if
\* any, is forgotten but goes on sleeping.
Take(rows) ==
  /\ buffer' = {}
  /\ flushTask' = NoFlush
  /\ batches' = (batches \union {rows}) \ {{}}

\* Those of the given events that are well formed are recorded.  Their times
\* are given too, so `aged`, whether the first of the buffer is two seconds
\* old, may hold at once.  The first record starts the pruning.
Record(n, aged) ==
  LET kept == buffer \union (recorded + 1)..(recorded + n) IN
  /\ n > 0 /\ recorded + n <= LastEvent
  /\ recorded' = recorded + n
  /\ IF Cardinality(kept) >= FlushBatch \/ aged
     THEN Take(kept) /\ UNCHANGED sleeping
     ELSE /\ buffer' = kept
          /\ IF flushTask = NoFlush
             THEN /\ flushTask' = recorded + n
                  /\ sleeping' = sleeping \union {recorded + n}
             ELSE UNCHANGED <<flushTask, sleeping>>
          /\ UNCHANGED batches
  /\ pruner' = TRUE
  /\ UNCHANGED <<traced, pruned, lost>>

\* _delayed_flush: two seconds are over.
Wake(t) ==
  /\ t \in sleeping
  /\ sleeping' = sleeping \ {t}
  /\ Take(buffer)
  /\ UNCHANGED <<recorded, pruner, traced, pruned, lost>>

\* flush: cancels the delayed flush it knows of, and flushes.
Flush ==
  /\ sleeping' = sleeping \ {flushTask}
  /\ Take(buffer)
  /\ pruner' = TRUE
  /\ UNCHANGED <<recorded, traced, pruned, lost>>

\* _write_rows: a chunk is committed.
WriteChunk(batch, chunk) ==
  /\ batch \in batches /\ chunk \subseteq batch
  /\ Cardinality(chunk) = Min({ChunkRows, Cardinality(batch)})
  /\ \A i \in chunk, j \in batch \ chunk : i < j
  /\ traced' = traced \union chunk
  /\ batches' = ((batches \ {batch}) \union {batch \ chunk}) \ {{}}
  /\ UNCHANGED <<recorded, buffer, sleeping, flushTask, pruner, pruned, lost>>

\* The database fails, or the task that happened to flush is cancelled: the
\* rest of its batch is dropped, whoever recorded it.
FailWrite(batch) ==
  /\ batch \in batches
  /\ lost' = lost \union batch
  /\ batches' = batches \ {batch}
  /\ UNCHANGED <<recorded, buffer, sleeping, flushTask, pruner, traced, pruned>>

-----------------------------------------------------------------------------
(* Pruning and the end *)

\* Every five minutes, what is older than an hour.
Prune(oldest) ==
  /\ pruner
  /\ pruned' = pruned \union {i \in traced : i < oldest}
  /\ traced' = {i \in traced : i >= oldest}
  /\ UNCHANGED <<recorded, buffer, sleeping, flushTask, batches, pruner, lost>>

\* close cancels the pruning; it does not flush.
Close ==
  /\ pruner
  /\ pruner' = FALSE
  /\ UNCHANGED <<recorded, buffer, sleeping, flushTask, batches, traced, pruned,
                 lost>>

\* The process ends, and another begins with an empty store.
EndProcess ==
  /\ lost' = lost \union buffer \union UNION batches
  /\ buffer' = {} /\ batches' = {}
  /\ sleeping' = {} /\ flushTask' = NoFlush
  /\ pruner' = FALSE
  /\ UNCHANGED <<recorded, traced, pruned>>

TraceNext ==
  \/ \E n \in Events, aged \in BOOLEAN : Record(n, aged)
  \/ \E t \in Events : Wake(t)
  \/ \E batch \in batches :
       \/ \E chunk \in SUBSET batch : WriteChunk(batch, chunk)
       \/ FailWrite(batch)
  \/ \E oldest \in Events : Prune(oldest)
  \/ Flush \/ Close \/ EndProcess

-----------------------------------------------------------------------------
(* Properties *)

Places == <<buffer, UNION batches, traced, pruned, lost>>

\* However flushes of several tasks overlap, an event that was recorded is in
\* exactly one place, so none is written twice and none disappears but with a
\* write that failed or a process that ended; and events that wait in the
\* buffer have a task that will flush them, although flushes forget and
\* supersede one another's tasks.
TraceKept ==
  /\ UNION {Places[p] : p \in DOMAIN Places} = 1..recorded
  /\ \A p, r \in DOMAIN Places : p # r => Places[p] \intersect Places[r] = {}
  /\ \A b, c \in batches : b # c => b \intersect c = {}
  /\ buffer # {} => flushTask \in sleeping

TraceSpec == TraceInit /\ [][TraceNext]_traceVars
=============================================================================
