-------------------------- MODULE InterestManager --------------------------
(***************************************************************************)
(* Publishing interest (wd_notability/interest/manager.py, session.py).    *)
(* The sessions of a process, one per event stream, hand changes of their  *)
(* subscriptions to the one InterestManager of the process.  Its task      *)
(* applies them to `current` and flushes the difference between `current`  *)
(* and `persisted`, what it believes is stored, to the interest table,     *)
(* from which the other workers take their work.                           *)
(*                                                                         *)
(* Every database call runs in a thread and may fail; a flush is therefore *)
(* three steps: upsert, delete, and recording the change in the item trace *)
(* before `persisted` is updated.                                          *)
(***************************************************************************)
EXTENDS Naturals, Sequences

CONSTANTS
  Qids,        \* items
  Sessions,    \* interest sessions that may be open at once
  Overlap,     \* whether two sessions may subscribe to one item at a time
  Faults,      \* the kinds of failure considered
  MaxMessages  \* bound: messages waiting in the queue

FaultKinds == {"upsert", "delete", "ack", "trace", "clear"}

ASSUME InterestAssumption ==
  /\ Overlap \in BOOLEAN
  /\ Faults \subseteq FaultKinds
  /\ MaxMessages \in Nat \ {0}

VARIABLES
  mine,       \* InterestSession._qids; {} before replace and after close
  queue,      \* InterestManager._queue, without the final None
  stop,       \* _stop
  current, persisted,
  rows,       \* the manager's rows of the interest table
  mpc,        \* where the process is
  final,      \* the flush under way is the one after the loop
  faults      \* kinds of failure met since the process started

vars == <<mine, queue, stop, current, persisted, rows, mpc, final, faults>>

Message == [add : SUBSET Qids, del : SUBSET Qids]

TypeOK ==
  /\ mine \in [Sessions -> SUBSET Qids]
  /\ queue \in Seq(Message) /\ Len(queue) <= MaxMessages
  /\ stop \in BOOLEAN
  /\ current \in SUBSET Qids
  /\ persisted \in SUBSET Qids
  /\ rows \in SUBSET Qids
  /\ mpc \in {"down", "idle", "drain", "upsert", "delete", "record", "done",
              "dead"}
  /\ final \in BOOLEAN
  /\ faults \in SUBSET Faults

Nobody == [s \in Sessions |-> {}]

\* Rows of an earlier process may be left in the table.
Init ==
  /\ mine = Nobody /\ queue = <<>> /\ stop = FALSE
  /\ current = {} /\ persisted = {}
  /\ rows \in SUBSET Qids
  /\ mpc = "down" /\ final = FALSE /\ faults = {}

Fails(kind) == kind \in Faults /\ faults' = faults \union {kind}

-----------------------------------------------------------------------------
(* Sessions *)

EnqueueSplit(add, del) ==
  IF stop THEN UNCHANGED queue
  ELSE queue' = queue \o << [add |-> add, del |-> {}], [add |-> {}, del |-> del] >>

EnqueueFront(add, del) ==
  IF stop THEN UNCHANGED queue
  ELSE queue' = <<[add |-> add, del |-> del]>> \o queue

\* enqueue: dropped once the manager is stopped.
Enqueue(add, del) ==
  IF stop THEN UNCHANGED queue
  ELSE queue' = Append(queue, [add |-> add, del |-> del])

\* A session exists only in a process whose manager was created.
Replace(s, wanted) ==
  /\ mpc # "down" /\ Len(queue) < MaxMessages
  /\ Overlap \/ \A t \in Sessions \ {s} : wanted \intersect mine[t] = {}
  /\ mine' = [mine EXCEPT ![s] = wanted]
  /\ Enqueue(wanted \ mine[s], mine[s] \ wanted)
  /\ UNCHANGED <<stop, current, persisted, rows, mpc, final, faults>>

\* clear, and close, which clears; nothing is sent by an empty session.
Clear(s) ==
  /\ mpc # "down" /\ Len(queue) < MaxMessages
  /\ mine[s] # {}
  /\ mine' = [mine EXCEPT ![s] = {}]
  /\ Enqueue({}, mine[s])
  /\ UNCHANGED <<stop, current, persisted, rows, mpc, final, faults>>

-----------------------------------------------------------------------------
(* The manager's task *)

\* _run: the message it waited for, then those already queued, until the
\* queue is empty, a second has passed or close was called.
Apply ==
  /\ mpc = "idle" \/ (mpc = "drain" /\ ~stop)
  /\ queue # <<>>
  /\ current' = (current \union Head(queue).add) \ Head(queue).del
  /\ queue' = Tail(queue)
  /\ mpc' = "drain"
  /\ UNCHANGED <<mine, stop, persisted, rows, final, faults>>

Adds == current \ persisted
Deletes == persisted \ current

\* Where control goes once a flush ended, well or not: back to the queue,
\* or into the flush after the loop, or out of _run.
Resume(believed) ==
  IF final
  THEN mpc' = "done" /\ UNCHANGED final
  ELSE IF stop
  THEN /\ mpc' = IF current \ believed # {} THEN "upsert"
                 ELSE IF believed \ current # {} THEN "delete" ELSE "done"
       /\ final' = TRUE
  ELSE mpc' = "idle" /\ UNCHANGED final

\* The start of _flush, which returns at once when nothing changed.
BeginFlush ==
  /\ mpc = "drain"
  /\ IF Adds # {} THEN mpc' = "upsert" /\ UNCHANGED final
     ELSE IF Deletes # {} THEN mpc' = "delete" /\ UNCHANGED final
     ELSE Resume(persisted)
  /\ UNCHANGED <<mine, queue, stop, current, persisted, rows, faults>>

\* The None of close wakes a task that waits for a message.
BeginFinalFlush ==
  /\ mpc = "idle" /\ stop /\ queue = <<>>
  /\ Resume(persisted)
  /\ UNCHANGED <<mine, queue, stop, current, persisted, rows, faults>>

Upsert ==
  /\ mpc = "upsert"
  /\ rows' = rows \union Adds
  /\ mpc' = IF Deletes # {} THEN "delete" ELSE "record"
  /\ UNCHANGED <<mine, queue, stop, current, persisted, final, faults>>

BelieveCurrent == persisted' = current
BelieveNothingNew == UNCHANGED persisted

\* The rows are sent in batches, each committed on its own: an error leaves
\* any part of them stored.  _flush logs it and returns.
UpsertFails ==
  /\ mpc = "upsert"
  /\ Fails("upsert")
  /\ \E stored \in SUBSET Adds : rows' = rows \union stored
  /\ BelieveNothingNew
  /\ Resume(persisted)
  /\ UNCHANGED <<mine, queue, stop, current>>

Delete ==
  /\ mpc = "delete"
  /\ rows' = rows \ Deletes
  /\ mpc' = "record"
  /\ UNCHANGED <<mine, queue, stop, current, persisted, final, faults>>

\* The statement failed, or it was committed and its answer lost.
DeleteFails ==
  /\ mpc = "delete"
  /\ \/ Fails("delete") /\ UNCHANGED rows
     \/ Fails("ack") /\ rows' = rows \ Deletes
  /\ BelieveNothingNew
  /\ Resume(persisted)
  /\ UNCHANGED <<mine, queue, stop, current>>

Record ==
  /\ mpc = "record"
  /\ BelieveCurrent
  /\ Resume(current)
  /\ UNCHANGED <<mine, queue, stop, current, rows, faults>>

\* The trace flushes its own buffer when full and may raise; this call is
\* outside the try of _flush, and the exception ends the task.
RecordFails ==
  /\ mpc = "record"
  /\ Fails("trace")
  /\ mpc' = "dead"
  /\ UNCHANGED <<mine, queue, stop, current, persisted, rows, final>>

-----------------------------------------------------------------------------
(* The process *)

PurgeSkipped == UNCHANGED rows
\* delete_interest_for_owner, in start
Purge == rows' = {}

Start ==
  /\ mpc = "down"
  /\ Purge
  /\ mpc' = "idle"
  /\ faults' = {}
  /\ UNCHANGED <<mine, queue, stop, current, persisted, final>>

\* close: it sets stop, then waits for the task.
Close ==
  /\ mpc # "down" /\ ~stop
  /\ stop' = TRUE
  /\ UNCHANGED <<mine, queue, current, persisted, rows, mpc, final, faults>>

Forget ==
  /\ mine' = Nobody /\ queue' = <<>> /\ stop' = FALSE
  /\ current' = {} /\ persisted' = {}
  /\ mpc' = "down" /\ final' = FALSE /\ faults' = {}

\* The rest of close and the end of the process: the rows go, unless the
\* delete fails, which is logged, or the task had died, which close re-raises.
Closed ==
  /\ mpc \in {"done", "dead"} /\ stop
  /\ \/ mpc = "done" /\ rows' = {}
     \/ (mpc = "dead" \/ "delete" \in Faults) /\ UNCHANGED rows
  /\ Forget

Crash ==
  /\ mpc # "down"
  /\ Forget /\ UNCHANGED rows

\* An operator empties the table (clear_interest) beside the server.
ClearInterest ==
  /\ mpc # "down"
  /\ Fails("clear")
  /\ rows' = {}
  /\ UNCHANGED <<mine, queue, stop, current, persisted, mpc, final>>

Run ==
  \/ Apply \/ BeginFlush \/ BeginFinalFlush
  \/ Upsert \/ UpsertFails \/ Delete \/ DeleteFails
  \/ Record \/ RecordFails

Session(s) == Clear(s) \/ \E wanted \in SUBSET Qids : Replace(s, wanted)

Next ==
  \/ Run
  \/ \E s \in Sessions : Session(s)
  \/ Start \/ Close \/ Closed \/ Crash \/ ClearInterest

Spec == Init /\ [][Next]_vars

(***************************************************************************)
(* Fairness: the event loop runs the task whenever it can run, the second  *)
(* of the drain ends, and the service is started again when it is down.    *)
(* Nothing makes a session change or the process stop.                     *)
(***************************************************************************)
FairSpec ==
  /\ Spec
  /\ WF_vars(Run) /\ WF_vars(BeginFlush)
  /\ WF_vars(Start) /\ WF_vars(Closed)

-----------------------------------------------------------------------------
(* Properties *)

Wanted == UNION {mine[s] : s \in Sessions}

Mentions(message, q) == q \in message.add \union message.del

\* Whether q is in the set `held` once the messages have been applied to it:
\* the last one that mentions q decides.
Outcome(messages, held, q) ==
  \/ \E i \in 1..Len(messages) :
       /\ q \in messages[i].add
       /\ \A j \in i + 1..Len(messages) : ~Mentions(messages[j], q)
  \/ q \in held /\ \A i \in 1..Len(messages) : ~Mentions(messages[i], q)

\* What the manager will hold of q once it has read its queue.
WillHold(q) == Outcome(queue, current, q)

\* No change of a subscription is lost or applied out of order: what the
\* sessions hold is what the manager will hold, as long as no two sessions
\* share an item and the manager was not stopped.
NothingLost ==
  ~Overlap /\ ~stop /\ mpc # "down"
    => \A q \in Qids : q \in Wanted <=> WillHold(q)

\* Between two flushes the manager never takes an item for published that has
\* no row, whatever part of a flush failed; only a delete whose answer was
\* lost, or an emptied table, deceives it.
PersistedBacked ==
  mpc \notin {"record", "dead"} /\ faults \intersect {"ack", "clear"} = {}
    => persisted \subseteq rows

\* Once the manager has caught up without a failure, the table holds what
\* the open event streams subscribe to, and nothing else.
PublishedWhenQuiet ==
  mpc = "idle" /\ queue = <<>> /\ ~stop /\ faults = {} => rows = Wanted

\* A subscription is published and a cancelled one withdrawn in the end, as
\* long as no call has failed in the process, and through its restarts.
Converges ==
  \A q \in Qids :
    /\ q \in Wanted ~> (q \in rows \/ q \notin Wanted \/ faults # {})
    /\ q \notin Wanted ~> (q \notin rows \/ q \in Wanted \/ faults # {})
=============================================================================
