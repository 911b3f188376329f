-------------------------- MODULE ContentFreshness --------------------------
(***************************************************************************)
(* When a stored content evaluation is out of date, and who notices.       *)
(*                                                                         *)
(* A page is edited, deleted, restored or turned into a redirect on        *)
(* Wikidata; two monitors copy what they see of that into the database;    *)
(* the selection of the content worker (content/db_read.py) compares their *)
(* records with the row of the item: revisions with revisions, and times   *)
(* of events with last_updated, the time the row was WRITTEN.  A worker    *)
(* fetches the page some time before it writes.                            *)
(*                                                                         *)
(* `now` is a fine clock that every timestamped step advances;             *)
(* TicksPerSecond ticks make one second, the precision of the deletion     *)
(* log, while last_updated has microseconds.  An item is evaluated by one  *)
(* worker at a time (ContentPool).                                         *)
(***************************************************************************)
EXTENDS Naturals, Sequences

CONSTANTS
  Qids,            \* items
  None,            \* no row, no target, no evaluation under way
  TicksPerSecond,
  Alone,           \* the item of the behaviours with one subscribed item
  MaxTime,         \* bound: nothing happens to the pages after this tick
  MaxTimeAlone,    \* the same when only Alone is subscribed
  MaxRevid         \* bound: revisions of a page

VARIABLES
  now,
  subscribed, \* the items somebody is interested in; never changes here
  page,     \* the pages of Wikidata (external)
  replica,  \* revision and redirect target on the replica, which lags
  log,      \* true time of the last deletion or restoration; 0 for none
  seen,     \* recent_changes_last_revid; 0 for none
  events,   \* newest event_timestamp in content_deletion_events; 0 for none
  policy,   \* content_policy_updated_at; 0 for none
  row,      \* content_evaluation
  job       \* the evaluation of an item under way

external == <<page, replica, log>>
vars == <<now, subscribed, external, seen, events, policy, row, job>>

Targets == Qids \union {None}

Page == [rev : 1..MaxRevid, target : Targets, gone : BOOLEAN]

\* What an evaluation found: when it fetched (not stored by the code), the
\* revision (0 is NULL), the redirect target, and the revision of the page
\* whose statements were judged (not stored).
Finding == [at : Nat, gone : BOOLEAN, rev : 0..MaxRevid, target : Targets,
            basis : 0..MaxRevid, verified : BOOLEAN]

Row == [at : Nat, gone : BOOLEAN, rev : 0..MaxRevid, target : Targets,
        basis : 0..MaxRevid, upd : Nat]

ASSUME FreshnessAssumption ==
  /\ None \notin Qids \union Finding \union Row
  /\ Alone \in Qids
  /\ TicksPerSecond \in Nat \ {0}
  /\ MaxTime \in Nat /\ MaxTimeAlone \in Nat
  /\ MaxRevid \in Nat \ {0}

TypeOK ==
  /\ now \in Nat \ {0}
  /\ subscribed \subseteq Qids
  /\ page \in [Qids -> Page]
  /\ replica \in [Qids -> [rev : 1..MaxRevid, target : Targets]]
  /\ log \in [Qids -> Nat]
  /\ seen \in [Qids -> 0..MaxRevid]
  /\ events \in [Qids -> Nat]
  /\ policy \in Nat
  /\ row \in [Qids -> Row \union {None}]
  /\ job \in [Qids -> Finding \union {None}]

Init ==
  /\ now = TicksPerSecond
  /\ subscribed \in {Qids, {Alone}}
  /\ page = [q \in Qids |-> [rev |-> 1, target |-> None, gone |-> FALSE]]
  /\ replica = [q \in Qids |-> [rev |-> 1, target |-> None]]
  /\ log = [q \in Qids |-> 0]
  /\ seen = [q \in Qids |-> 0]
  /\ events = [q \in Qids |-> 0]
  /\ policy = 0
  /\ row = [q \in Qids |-> None]
  /\ job = [q \in Qids |-> None]

LastTick == IF subscribed = Qids THEN MaxTime ELSE MaxTimeAlone

Second(t) == (t \div TicksPerSecond) * TicksPerSecond

-----------------------------------------------------------------------------
(* Wikidata and its replica *)

Tick ==
  /\ now < LastTick /\ now' = now + 1
  /\ UNCHANGED <<subscribed, external, seen, events, policy, row, job>>

Edit(q, target) ==
  /\ now < LastTick
  /\ page[q].rev < MaxRevid /\ ~page[q].gone
  /\ target # q
  /\ page' = [page EXCEPT ![q].rev = @ + 1, ![q].target = target]
  /\ UNCHANGED <<subscribed, now, replica, log, seen, events, policy, row, job>>

DeleteOrRestore(q) ==
  /\ now < LastTick /\ now' = now + 1
  /\ page' = [page EXCEPT ![q].gone = ~@]
  /\ log' = [log EXCEPT ![q] = now]
  /\ UNCHANGED <<subscribed, replica, seen, events, policy, row, job>>

CatchUp(q) ==
  LET current == [rev |-> page[q].rev, target |-> page[q].target] IN
  /\ replica[q] # current
  /\ replica' = [replica EXCEPT ![q] = current]
  /\ UNCHANGED <<subscribed, now, page, log, seen, events, policy, row, job>>

-----------------------------------------------------------------------------
(* The monitors, and an operator who runs reset-main-cache *)

RecordChangeAhead(q) ==
  /\ seen[q] # page[q].rev
  /\ seen' = [seen EXCEPT ![q] = page[q].rev + 1]
  /\ UNCHANGED <<subscribed, now, external, events, policy, row, job>>

RecordChange(q) ==
  /\ seen[q] # page[q].rev
  /\ seen' = [seen EXCEPT ![q] = page[q].rev]
  /\ UNCHANGED <<subscribed, now, external, events, policy, row, job>>

\* The log has whole seconds.
RecordEvent(q) ==
  /\ events[q] # Second(log[q])
  /\ events' = [events EXCEPT ![q] = Second(log[q])]
  /\ UNCHANGED <<subscribed, now, external, seen, policy, row, job>>

SetPolicy ==
  /\ now < LastTick /\ now' = now + 1
  /\ policy' = now
  /\ UNCHANGED <<subscribed, external, seen, events, row, job>>

ResetContent ==
  /\ now < LastTick
  /\ row' = [q \in Qids |-> None]
  /\ UNCHANGED <<subscribed, now, external, seen, events, policy, job>>

-----------------------------------------------------------------------------
(* The selection *)

NeverEvaluated(q) == row[q] = None \/ (row[q] # None /\ row[q].rev = 0)

OldRevisionIgnored(q) == FALSE
OldRevision(q) == row[q] # None /\ row[q].rev # 0 /\ row[q].rev < seen[q]

NewEventOfLiveRow(q) == row[q] # None /\ ~row[q].gone /\ events[q] > row[q].upd
NewEvent(q) == row[q] # None /\ events[q] > row[q].upd

TargetIgnored(q) == FALSE

TargetNewer(q) ==
  /\ row[q] # None
  /\ row[q].target # None
  /\ row[row[q].target] # None
  /\ row[q].upd < row[row[q].target].upd

PolicyIgnored(q) == FALSE
BeforePolicy(q) == row[q] # None /\ row[q].upd < policy

CandidateByRevision(q) ==
  row[q] = None \/ (row[q] # None /\ ~row[q].gone /\ OldRevision(q))

\* list_pubsub_content_candidates
Candidate(q) ==
  /\ row[q] = None \/ (row[q] # None /\ ~row[q].gone) \/ NewEvent(q)
  /\ \/ NeverEvaluated(q) \/ OldRevision(q) \/ TargetNewer(q)
     \/ NewEvent(q) \/ BeforePolicy(q)

\* get_content_staleness_for_qids: what the badge is told
ContentStale(q) ==
  \/ NeverEvaluated(q)
  \/ row[q] # None /\ row[q].rev < seen[q]
  \/ TargetNewer(q)
  \/ NewEvent(q)
  \/ BeforePolicy(q)

\* list_stale_content_qids and its count: the same test, of stored rows
StaleRows == {q \in Qids : row[q] # None /\ ContentStale(q)}

\* _fetch_cached_snapshot: what the reports are told of a stored row.  Its
\* test of the policy casts a time in ISO format to a number, which leaves
\* the year, and no time of an evaluation is below that.
SnapshotStale(q) ==
  \/ NeverEvaluated(q)
  \/ row[q] # None /\ row[q].rev < seen[q]
  \/ TargetNewer(q)
  \/ NewEvent(q)

\* _list_pubsub_content_candidate_staleness_rows: the first reason that
\* applies to a selected item
Reasons(q) ==
  <<[reason |-> "never_evaluated", holds |-> NeverEvaluated(q)],
    [reason |-> "deletion_events", holds |-> NewEvent(q)],
    [reason |-> "content_policy", holds |-> BeforePolicy(q)],
    [reason |-> "redirect_target", holds |-> TargetNewer(q)],
    [reason |-> "recent_changes", holds |-> OldRevision(q)],
    [reason |-> "recent_changes_missing", holds |-> seen[q] = 0]>>

Reason(q) ==
  LET rank == CHOOSE i \in 1..6 :
                Reasons(q)[i].holds /\ \A j \in 1..(i - 1) : ~Reasons(q)[j].holds
  IN  IF Candidate(q) THEN Reasons(q)[rank].reason ELSE "none"

-----------------------------------------------------------------------------
(* The evaluation of one item *)

Found(q, gone, rev, target, basis, verified) ==
  job' = [job EXCEPT ![q] = [at |-> now, gone |-> gone, rev |-> rev,
            target |-> target, basis |-> basis, verified |-> verified]]

\* wbgetentities answers for the page, or for the page it redirects to.  A
\* missing or deleted entity is a result; a redirect must be checked against
\* the replica.  Double redirects and redirects to nothing are errors.  An
\* item stays a candidate until it is written, so selecting it and fetching
\* it are one step.
Fetch(q) ==
  /\ job[q] = None /\ Candidate(q)
  /\ \/ page[q].gone /\ Found(q, TRUE, 0, None, 0, TRUE)
     \/ /\ ~page[q].gone /\ page[q].target = None
        /\ Found(q, FALSE, page[q].rev, None, page[q].rev, TRUE)
     \/ /\ ~page[q].gone /\ page[q].target # None
        /\ LET target == page[page[q].target] IN
           /\ ~target.gone /\ target.target = None
           /\ Found(q, FALSE, 0, page[q].target, target.rev, FALSE)
  /\ UNCHANGED <<subscribed, now, external, seen, events, policy, row>>

\* The redirect is the one the replica has, and the row gets its revision.
Verify(q) ==
  /\ job[q] # None /\ ~job[q].verified
  /\ replica[q].target = job[q].target
  /\ job' = [job EXCEPT ![q].rev = replica[q].rev, ![q].verified = TRUE]
  /\ UNCHANGED <<subscribed, now, external, seen, events, policy, row>>

\* An error of the API or the replica, an unverified redirect, an UNKNOWN
\* level, a failed write or the end of the process: no row is written.
Abandon(q) ==
  /\ job[q] # None
  /\ job' = [job EXCEPT ![q] = None]
  /\ UNCHANGED <<subscribed, now, external, seen, events, policy, row>>

\* upsert_content_many: last_updated is CURRENT_TIMESTAMP(6) of the write.
Store(q) ==
  /\ job[q] # None /\ job[q].verified
  /\ now' = now + 1
  /\ row' = [row EXCEPT ![q] =
              [at |-> job[q].at, gone |-> job[q].gone, rev |-> job[q].rev,
               target |-> job[q].target, basis |-> job[q].basis, upd |-> now]]
  /\ job' = [job EXCEPT ![q] = None]
  /\ UNCHANGED <<subscribed, external, seen, events, policy>>

Next ==
  \/ Tick \/ SetPolicy \/ ResetContent
  \/ \E q \in subscribed :
       \/ \E target \in subscribed \union {None} : Edit(q, target)
       \/ DeleteOrRestore(q) \/ CatchUp(q)
       \/ RecordChange(q) \/ RecordEvent(q)
       \/ Fetch(q) \/ Verify(q) \/ Abandon(q) \/ Store(q)

Spec == Init /\ [][Next]_vars

(***************************************************************************)
(* Fairness: the monitors and the replica catch up; the worker fetches what*)
(* is selected, and an evaluation tried again and again is written at last.*)
(***************************************************************************)
FairSpec ==
  /\ Spec
  /\ \A q \in Qids :
       LET Of(A) == q \in subscribed /\ A IN
       /\ WF_vars(Of(CatchUp(q))) /\ WF_vars(Of(RecordChange(q)))
       /\ WF_vars(Of(RecordEvent(q))) /\ WF_vars(Of(Fetch(q)))
       /\ SF_vars(Of(Verify(q))) /\ SF_vars(Of(Store(q)))

-----------------------------------------------------------------------------
(* Properties *)

\* Both monitors have recorded what happened to the page.
Settled(q) == seen[q] = page[q].rev /\ events[q] = Second(log[q])

Accurate(q) ==
  /\ row[q] # None
  /\ row[q].gone = page[q].gone
  /\ ~page[q].gone => row[q].rev = page[q].rev /\ row[q].target = page[q].target

\* Where comparing with the time of the write is blind: the page was deleted
\* or restored after the fetch, but before the write or in its second.
Raced(q) ==
  /\ row[q] # None
  /\ row[q].at <= log[q] /\ Second(log[q]) <= row[q].upd

\* Once the monitors have caught up, a row that is wrong about its page is
\* selected again, however edits, deletions and restorations interleaved with
\* fetching and writing; the one exception is a deletion or restoration
\* between the fetch and the second of the write.
ChangeNoticed ==
  \A q \in subscribed :
    job[q] = None /\ Settled(q) /\ ~Raced(q) => Accurate(q) \/ Candidate(q)

Outdated(q, t) ==
  /\ row[q] # None /\ row[q].target = t
  /\ row[t] # None /\ ~row[t].gone /\ row[q].basis < row[t].rev

\* A row of a redirect that was judged by an older revision of the target
\* than the target's own row is selected again, except when the target's row
\* was written between the fetch and the write of the redirect's.
TargetNoticedUnlessRaced ==
  \A q, t \in Qids :
    Outdated(q, t) /\ ~(row[q].at <= row[t].upd /\ row[t].upd <= row[q].upd)
      => Candidate(q)

\* Five queries say what is stale, each in its own SQL, and they agree of a
\* row that is not deleted: the badge and the listing with the selection, and
\* the cached report too, except when only the policy made the row stale.  A
\* selected item has a reason that made it selected, never that no change of
\* it was recorded.  (Deleted rows have no revision, so the badge always
\* calls them stale.)
ReadersAgree ==
  \A q \in Qids :
    /\ row[q] = None \/ ~row[q].gone => (ContentStale(q) <=> Candidate(q))
    /\ row[q] # None /\ ~row[q].gone =>
         /\ q \in StaleRows <=> Candidate(q)
         /\ SnapshotStale(q) => Candidate(q)
         /\ Candidate(q) /\ ~SnapshotStale(q) => Reason(q) = "content_policy"
    /\ Reason(q) # "recent_changes_missing"
    /\ row[q] # None /\ Reason(q) = "never_evaluated" =>
         row[q].gone /\ events[q] > row[q].upd

Resolvable(q) ==
  \/ page[q].gone \/ page[q].target = None
  \/ ~page[page[q].target].gone /\ page[page[q].target].target = None

\* When the page is left alone its row becomes right for good, unless a
\* deletion or restoration raced with the evaluation, or the page redirects
\* to something that is not a live item.
EventuallyFresh ==
  \A q \in Qids :
    <>[](q \in subscribed =>
           job[q] = None /\ (Accurate(q) \/ Raced(q) \/ ~Resolvable(q)))

\* A policy cutoff reaches in the end every live row evaluated before it, but
\* those whose evaluation was under way when it was set, and redirects to
\* something that is not a live item.
PolicyApplied ==
  \A q \in Qids :
    <>[](q \in subscribed /\ row[q] # None /\ ~row[q].gone
           /\ row[q].at < policy
         => policy <= row[q].upd \/ ~Resolvable(q))
=============================================================================
