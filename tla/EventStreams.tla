---------------------------- MODULE EventStreams ----------------------------
(***************************************************************************)
(* One page that shows badges, and the server's event streams to it        *)
(* (server/routes_api.py, server/app.py, interest/write.py,                *)
(* server/static/notability.js, creations.js).                             *)
(*                                                                         *)
(* A page posts the items it shows (/subscribe), which the server keeps as *)
(* a snapshot in memory, then listens to an event stream.  The stream      *)
(* leases the items, that is, writes them to the interest table as rows of *)
(* "gadget:<subscription>", and sends what changed until its deadline.     *)
(* The gadget then posts again; the creations dashboard reopens the stream *)
(* it had, and if that ended while the page was hidden, stays offline      *)
(* until the user clicks.                                                  *)
(*                                                                         *)
(* Rows are known by number: one that is stored and differs from the last  *)
(* gets the next.  The stream compares what rows say, so it does not send  *)
(* again what came to be as it was; that makes no difference to the page.  *)
(*                                                                         *)
(* A stream whose page has closed it is cancelled at its next await.  A    *)
(* statement that was running in a thread then runs to its end by itself.  *)
(***************************************************************************)
EXTENDS Integers

CONSTANTS
  Items,
  Loaded,      \* the items on the page when it starts; others may be found
  MaxEdits,    \* bound: edits, and evaluations that are outdated when stored
  MaxChanges,  \* bound: items found, focus given, and the page hidden
  MaxFaults    \* bound: requests that fail, restarts, snapshots that expire

ASSUME EventStreamsAssumption ==
  /\ Loaded \subseteq Items /\ Loaded # {}
  /\ MaxEdits \in Nat
  /\ MaxChanges \in Nat
  /\ MaxFaults \in Nat

VARIABLES
  kind,      \* the script of the page
  want,      \* the items on it: knownQIDs, population
  page,      \* document.visibilityState, or the page was left
  due,       \* a resubscribe or reconnect timer, or a call of this instant
  asked,     \* the items of the POST under way; {} if there is none
  subscribed,\* currentSubscriptionId is set
  es,        \* the stream of eventSource; NoStream for null
  shown,     \* the number of the row the page shows of each item; 0 is none
  snapshot,  \* PUBSUB_SUBSCRIPTION_QIDS[subscription]; {} if there is none
  stream,    \* the server's event streams to this page
  late,      \* statements of cancelled streams, still running
  bye,       \* the DELETE of a page that was left is under way
  rows,      \* interest: the rows of this subscription
  row,       \* the number of the row in content_evaluation; 0 is none
  fits,      \* items whose row says what is on Wikidata
  edits, changes, faults

vars == <<kind, want, page, due, asked, subscribed, es, shown, snapshot,
          stream, late, bye, rows, row, fits, edits, changes, faults>>

\* A page has one stream; an old one may not have been cancelled yet.
Streams == {1, 2}
NoStream == 0

Unseen == [q \in Items |-> 0]
Off == [pc |-> "off", qids |-> {}, seen |-> Unseen, read |-> Unseen]

Statement == [op : {"delete", "insert"}, qids : SUBSET Items]

TypeOK ==
  /\ kind \in {"gadget", "dashboard"}
  /\ want \in SUBSET Items
  /\ page \in {"visible", "hidden", "left"}
  /\ due \in BOOLEAN /\ subscribed \in BOOLEAN /\ bye \in BOOLEAN
  /\ asked \in SUBSET want
  /\ es \in Streams \union {NoStream}
  /\ snapshot \in SUBSET want
  /\ stream \in [Streams -> [pc : {"off", "lookup", "lease", "insert", "poll", "send"},
                             qids : SUBSET want,
                             seen : [Items -> Nat], read : [Items -> Nat]]]
  /\ late \in SUBSET Statement
  /\ rows \in SUBSET want
  /\ shown \in [Items -> Nat] /\ row \in [Items -> Nat]
  /\ fits \in SUBSET Items
  /\ \A q \in Items : shown[q] <= row[q]
  /\ es # NoStream => stream[es].pc # "off"
  /\ edits \in 0 .. MaxEdits /\ changes \in 0 .. MaxChanges /\ faults \in 0 .. MaxFaults

\* A gadget subscribes when the page has loaded, a dashboard when it knows
\* its population.
Init ==
  /\ kind \in {"gadget", "dashboard"}
  /\ want = Loaded
  /\ page = "visible" /\ due = TRUE
  /\ asked = {} /\ subscribed = FALSE /\ es = NoStream
  /\ shown = Unseen
  /\ snapshot = {} /\ stream = [i \in Streams |-> Off] /\ late = {}
  /\ bye = FALSE /\ rows = {}
  /\ row = Unseen /\ fits = {}
  /\ edits = 0 /\ changes = 0 /\ faults = 0

Change == changes < MaxChanges /\ changes' = changes + 1
Fault == faults < MaxFaults /\ faults' = faults + 1

-----------------------------------------------------------------------------
(* The page *)

\* Opening an event source closes the one before.
Open(i) ==
  /\ stream[i].pc = "off" /\ \A j \in 1 .. i - 1 : stream[j].pc # "off"
  /\ stream' = [stream EXCEPT ![i].pc = "lookup"]
  /\ es' = i

DisconnectedUnheard == UNCHANGED <<es, due>>
DisconnectedForGood == es' = NoStream /\ UNCHANGED due

\* onerror, stream_end.  scheduleResubscribe, canReconnectStream: only a
\* visible page tries again.
Disconnected ==
  /\ es' = NoStream
  /\ due' = (due \/ page = "visible")

\* subscribeToKnownQIDs, subscribeToPopulation.  The dashboard posts once, be it
\* hidden by then or not.
Ask ==
  /\ due /\ asked = {}
  /\ IF kind = "gadget" THEN page = "visible" ELSE ~subscribed
  /\ asked' = want /\ due' = FALSE
  /\ UNCHANGED <<kind, want, page, subscribed, es, shown, snapshot, stream, late,
                 bye, rows, row, fits, edits, changes, faults>>

\* subscribeInFlight: a call while a POST is under way does nothing.
AskDropped ==
  /\ due /\ asked # {}
  /\ due' = FALSE
  /\ UNCHANGED <<kind, want, page, asked, subscribed, es, shown, snapshot, stream,
                 late, bye, rows, row, fits, edits, changes, faults>>

\* api_subscribe replaces the snapshot; its answer makes the page listen,
\* the gadget only if it is visible then (listenForEvents).
Answer ==
  /\ asked # {}
  /\ snapshot' = asked /\ asked' = {} /\ subscribed' = TRUE
  /\ IF page = "visible" \/ (page = "hidden" /\ kind = "dashboard")
     THEN \E i \in Streams : Open(i)
     ELSE UNCHANGED <<es, stream>>
  /\ UNCHANGED <<kind, want, page, due, shown, late, bye, rows, row, fits, edits,
                 changes, faults>>

\* The gadget tries again; the dashboard reports an error and is left so.
AskFails ==
  /\ asked # {} /\ Fault
  /\ asked' = {}
  /\ due' = (due \/ (kind = "gadget" /\ page = "visible"))
  /\ UNCHANGED <<kind, want, page, subscribed, es, shown, snapshot, stream, late,
                 bye, rows, row, fits, edits, changes>>

\* The timer of scheduleReconnect: the dashboard opens the stream it had, with
\* no POST, also if it was hidden since.
Reconnect ==
  /\ kind = "dashboard" /\ due /\ subscribed
  /\ due' = FALSE
  /\ \E i \in Streams : Open(i)
  /\ UNCHANGED <<kind, want, page, asked, subscribed, shown, snapshot, late, bye,
                 rows, row, fits, edits, changes, faults>>

\* scanDOM, rememberQID: the page shows another item.
Discover(q) ==
  /\ kind = "gadget" /\ page # "left" /\ q \notin want /\ Change
  /\ want' = want \union {q}
  /\ due' = (due \/ (page = "visible" /\ asked = {}))
  /\ UNCHANGED <<kind, page, asked, subscribed, es, shown, snapshot, stream, late,
                 bye, rows, row, fits, edits, faults>>

\* visibilitychange: stopPolling.  The dashboard has no such handler.
Hide ==
  /\ page = "visible" /\ Change
  /\ page' = "hidden"
  /\ IF kind = "gadget" THEN es' = NoStream /\ due' = FALSE ELSE UNCHANGED <<es, due>>
  /\ UNCHANGED <<kind, want, asked, subscribed, shown, snapshot, stream, late, bye,
                 rows, row, fits, edits, faults>>

\* The window gets the focus: resumePolling.
Focus ==
  /\ kind = "gadget" /\ page = "visible" /\ ~due /\ Change
  /\ due' = TRUE
  /\ UNCHANGED <<kind, want, page, asked, subscribed, es, shown, snapshot, stream,
                 late, bye, rows, row, fits, edits, faults>>

\* resumePolling; nothing on the dashboard notices.
Show ==
  /\ page = "hidden"
  /\ page' = "visible" /\ due' = (kind = "gadget" \/ due)
  /\ UNCHANGED <<kind, want, asked, subscribed, es, shown, snapshot, stream, late,
                 bye, rows, row, fits, edits, changes, faults>>

\* A dashboard whose stream ended while it was hidden.
Offline == kind = "dashboard" /\ subscribed /\ es = NoStream /\ ~due

\* The user clicks on "Offline".
Click ==
  /\ Offline /\ page = "visible"
  /\ \E i \in Streams : Open(i)
  /\ UNCHANGED <<kind, want, page, due, asked, subscribed, shown, snapshot, late,
                 bye, rows, row, fits, edits, changes, faults>>

\* The page is closed.  The dashboard deletes its subscription on pagehide.
Leave ==
  /\ page # "left"
  /\ page' = "left" /\ es' = NoStream /\ due' = FALSE /\ asked' = {}
  /\ bye' = (kind = "dashboard" /\ subscribed)
  /\ UNCHANGED <<kind, want, subscribed, shown, snapshot, stream, late, rows, row,
                 fits, edits, changes, faults>>

-----------------------------------------------------------------------------
(* The server *)

\* _pubsub_event_stream: without a snapshot the stream ends at once.
Lookup(i) ==
  /\ stream[i].pc = "lookup"
  /\ IF snapshot = {}
     THEN /\ stream' = [stream EXCEPT ![i] = Off]
          /\ IF es = i THEN Disconnected ELSE UNCHANGED <<es, due>>
     ELSE /\ stream' = [stream EXCEPT ![i].pc = "lease", ![i].qids = snapshot]
          /\ UNCHANGED <<es, due>>
  /\ UNCHANGED <<kind, want, page, asked, subscribed, shown, snapshot, late, bye,
                 rows, row, fits, edits, changes, faults>>

\* The write guard, an asyncio lock, is held from one statement of
\* create_pubsub_session to the other.
Guarded(i) == \E j \in Streams \ {i} : stream[j].pc = "insert"

\* create_pubsub_session: the old rows go, then the new ones come.
LeaseDelete(i) ==
  /\ stream[i].pc = "lease" /\ ~Guarded(i)
  /\ rows' = {}
  /\ stream' = [stream EXCEPT ![i].pc = "insert"]
  /\ UNCHANGED <<kind, want, page, due, asked, subscribed, es, shown, snapshot,
                 late, bye, row, fits, edits, changes, faults>>

LeaseInsert(i) ==
  /\ stream[i].pc = "insert"
  /\ rows' = rows \union stream[i].qids
  /\ stream' = [stream EXCEPT ![i].pc = "poll"]
  /\ UNCHANGED <<kind, want, page, due, asked, subscribed, es, shown, snapshot,
                 late, bye, row, fits, edits, changes, faults>>

\* The rows that are not those sent last.
Changed(i, q) == q \in stream[i].qids /\ row[q] # 0 /\ row[q] # stream[i].seen[q]

\* is_disconnected, then get_many.
Read(i) ==
  /\ stream[i].pc = "poll" /\ es = i
  /\ stream' = [stream EXCEPT ![i].pc = "send",
                  ![i].read = [q \in Items |-> IF Changed(i, q) THEN row[q] ELSE 0]]
  /\ UNCHANGED <<kind, want, page, due, asked, subscribed, es, shown, snapshot,
                 late, bye, rows, row, fits, edits, changes, faults>>

\* Only the open event source is listened to.
HeardFromAny(i) == page # "left"
Heard(i) == es = i

\* What a stream has read replaces what was there of these items.
Sent(i, old) ==
  [q \in Items |-> IF stream[i].read[q] # 0 THEN stream[i].read[q] ELSE old[q]]

\* Two queries later; a stream that was closed by then is over.
Send(i) ==
  /\ stream[i].pc = "send"
  /\ shown' = IF Heard(i) THEN Sent(i, shown) ELSE shown
  /\ stream' = [stream EXCEPT ![i] =
       IF es = i
       THEN [@ EXCEPT !.pc = "poll", !.read = Unseen, !.seen = Sent(i, stream[i].seen)]
       ELSE Off]
  /\ UNCHANGED <<kind, want, page, due, asked, subscribed, es, snapshot, late, bye,
                 rows, row, fits, edits, changes, faults>>

\* The deadline, SSE_STREAM_MAX_SECONDS: stream_end.
Deadline(i) ==
  /\ stream[i].pc = "poll" /\ es = i
  /\ stream' = [stream EXCEPT ![i] = Off]
  /\ Disconnected
  /\ UNCHANGED <<kind, want, page, asked, subscribed, shown, snapshot, late, bye,
                 rows, row, fits, edits, changes, faults>>

\* A statement of the lease, or the query of refresh_interest_lease, raises.
StreamFails(i) ==
  /\ stream[i].pc \in {"lease", "insert", "poll"} /\ es = i /\ Fault
  /\ stream' = [stream EXCEPT ![i] = Off]
  /\ Disconnected
  /\ UNCHANGED <<kind, want, page, asked, subscribed, shown, snapshot, late, bye,
                 rows, row, fits, edits, changes>>

\* What a cancelled coroutine leaves running in its thread.
Orphan(i) ==
  CASE stream[i].pc = "lease" /\ ~Guarded(i) -> {[op |-> "delete", qids |-> {}]}
    [] stream[i].pc = "insert" -> {[op |-> "insert", qids |-> stream[i].qids]}
    [] OTHER -> {}

\* The page has closed the stream: it notices, or is cancelled.
Cancel(i) ==
  /\ stream[i].pc # "off" /\ es # i
  /\ late' = late \union Orphan(i)
  /\ stream' = [stream EXCEPT ![i] = Off]
  /\ UNCHANGED <<kind, want, page, due, asked, subscribed, es, shown, snapshot,
                 bye, rows, row, fits, edits, changes, faults>>

RunLate(s) ==
  /\ s \in late
  /\ late' = late \ {s}
  /\ rows' = IF s.op = "delete" THEN {} ELSE rows \union s.qids
  /\ UNCHANGED <<kind, want, page, due, asked, subscribed, es, shown, snapshot,
                 stream, bye, row, fits, edits, changes, faults>>

\* api_pubsub_delete_session; the request may be lost.
DeleteSession ==
  /\ bye /\ \A i \in Streams : stream[i].pc # "insert"
  /\ bye' = FALSE
  /\ \/ rows' = {} /\ UNCHANGED faults
     \/ Fault /\ UNCHANGED rows
  /\ UNCHANGED <<kind, want, page, due, asked, subscribed, es, shown, snapshot,
                 stream, late, row, fits, edits, changes>>

\* _purge_expired_pubsub_subscription_qids, an hour after the last POST: not
\* while a gadget posts every minute.
Expire ==
  /\ snapshot # {} /\ (kind = "dashboard" \/ page # "visible") /\ Fault
  /\ snapshot' = {}
  /\ UNCHANGED <<kind, want, page, due, asked, subscribed, es, shown, stream, late,
                 bye, rows, row, fits, edits, changes>>

\* shutdown_event and startup_event, or a crash: the table alone remains.
Restart ==
  /\ Fault
  /\ snapshot' = {} /\ stream' = [i \in Streams |-> Off] /\ late' = {}
  /\ asked' = {} /\ bye' = FALSE
  /\ es' = NoStream
  /\ LET noticed == es # NoStream \/ (asked # {} /\ kind = "gadget")
     IN due' = (due \/ (page = "visible" /\ noticed))
  /\ UNCHANGED <<kind, want, page, subscribed, shown, rows, row, fits, edits, changes>>

-----------------------------------------------------------------------------
(* Wikidata, and the workers, which refresh what somebody is interested in *)

Edit(q) ==
  /\ edits < MaxEdits /\ edits' = edits + 1
  /\ fits' = fits \ {q}
  /\ UNCHANGED <<kind, want, page, due, asked, subscribed, es, shown, snapshot,
                 stream, late, bye, rows, row, changes, faults>>

Stored(q) ==
  /\ row' = [row EXCEPT ![q] = @ + 1]
  /\ UNCHANGED <<kind, want, page, due, asked, subscribed, es, shown, snapshot,
                 stream, late, bye, rows, changes, faults>>

\* An evaluation of the page as it is, perhaps for another session or before the
\* lease was deleted.
Store(q) ==
  /\ q \notin fits
  /\ Stored(q) /\ fits' = fits \union {q}
  /\ UNCHANGED edits

\* One that was fetched before an edit, or of a redirect that the replica has
\* not caught up with.
StoreOutdated(q) ==
  /\ edits < MaxEdits /\ edits' = edits + 1
  /\ Stored(q) /\ fits' = fits \ {q}

Refresh(q) == q \in rows /\ Store(q)

Stream(i) == Lookup(i) \/ LeaseDelete(i) \/ LeaseInsert(i) \/ Read(i) \/ Send(i)

\* What the script of the page does by itself.
Script == Ask \/ AskDropped \/ Answer \/ Reconnect

Next ==
  \/ Script \/ AskFails
  \/ Hide \/ Focus \/ Show \/ Click \/ Leave
  \/ \E q \in Items : Discover(q) \/ Edit(q) \/ Store(q) \/ StoreOutdated(q)
  \/ \E i \in Streams : Stream(i) \/ Deadline(i) \/ StreamFails(i) \/ Cancel(i)
  \/ \E s \in late : RunLate(s)
  \/ DeleteSession \/ Expire \/ Restart

Spec == Init /\ [][Next]_vars

\* Timers fire, requests are answered, streams go on and end; the workers
\* refresh an item that is leased again and again (ContentPool).  Users need
\* not do anything.
FairSpec ==
  /\ Spec
  /\ WF_vars(Script)
  /\ WF_vars(\E i \in Streams : Stream(i)) /\ WF_vars(\E i \in Streams : Cancel(i))
  /\ SF_vars(\E i \in Streams : Read(i)) /\ SF_vars(\E i \in Streams : Deadline(i))
  /\ \A q \in Items : SF_vars(Refresh(q))
  /\ WF_vars((\E s \in late : RunLate(s)) \/ DeleteSession)

-----------------------------------------------------------------------------
(* Properties *)

\* What a page shows of an item is never replaced by something stored earlier,
\* although a stream sends what it read some queries ago and two streams may be
\* running.
ShownNeverRegresses == [][\A q \in Items : shown'[q] >= shown[q]]_vars

\* A page that stays open comes to show every item on it as it is: whatever
\* became of its lease, the stream ends, and the next one leases it again.
\* The dashboard, which does not post again, is promised it only if no request
\* failed, the server did not restart and the snapshot did not expire, and if
\* it was not left offline when its stream ended unseen.
Current == \A q \in want : shown[q] = row[q] /\ q \in fits
EventuallyCurrent ==
  <>[](page = "visible" /\ (kind = "gadget" \/ (faults = 0 /\ ~Offline)))
    => <>[]Current

\* content.md: "Content pulls work from active pubsub leases only."  A lease
\* ends some time after its page was left.
LeaseEnds == page = "left" ~> rows = {}
=============================================================================
