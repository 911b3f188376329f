---------------------------- MODULE RecentChanges ----------------------------
(***************************************************************************)
(* The recent-changes scan (wd_notability/metadata/worker.py, write.py,    *)
(* read.py): it pages through the changes of Wikidata from a start time,   *)
(* and records the newest revision of every item, which is what makes the  *)
(* content worker notice an edit.                                          *)
(*                                                                         *)
(* A change gets its time when it is made and appears on the replica       *)
(* later, at most MaxLag after it.  Times are whole seconds; Rewind is the *)
(* day a scan goes back at most, OverlapTime the seconds it goes back from *)
(* the newest change it saw.  A pass reads pages of PageSize rows, writes  *)
(* revisions and creations, and saves its position.                        *)
(***************************************************************************)
EXTENDS Naturals, FiniteSets, FiniteSetsExt

CONSTANTS
  Qids,
  MaxChanges,   \* bound: changes, whose rc_id and revision are 1..MaxChanges
  MaxTime,      \* bound: the last second
  MaxLag,       \* the replica's lag
  Rewind,       \* RECENT_CHANGES_WORKER_REWIND_SECONDS
  OverlapTime,  \* RECENT_CHANGES_WORKER_OVERLAP_SECONDS
  PageSize,     \* RECENT_CHANGES_REPLICA_QUERY_LIMIT
  None

ASSUME ScanAssumption ==
  /\ MaxChanges \in Nat /\ MaxTime \in Nat /\ MaxLag \in Nat
  /\ Rewind \in Nat /\ OverlapTime \in Nat
  /\ PageSize \in Nat \ {0}
  /\ None \notin Nat /\ None \notin Qids

Ids == 1..MaxChanges
Times == 0..MaxTime

VARIABLES
  now,
  change,    \* the changes made: [at, qid, new] by rc_id; qid is None for a row
             \* that names no item (external)
  visible,   \* those on the replica (external)
  seen,      \* recent_changes_last_revid; 0 for none
  created,   \* items with creation_time and creator_actor_id
  saved,     \* rc_timestamp of the saved cursor, or None
  pc,
  start,     \* start_epoch of the pass
  at, after, \* cursor_timestamp and cursor_id within the pass
  latest,    \* latest_seen
  read       \* the changes read in the pass, in qid_to_revid once per item

scan == <<pc, start, at, after, latest, read>>
vars == <<now, change, visible, seen, created, saved, scan>>

Made == DOMAIN change

TypeOK ==
  /\ now \in Times
  /\ Made \subseteq Ids
  /\ \A i \in Made : change[i] \in
       [at : Times, qid : Qids \union {None}, new : BOOLEAN]
  /\ visible \subseteq Made
  /\ seen \in [Qids -> 0..MaxChanges]
  /\ created \subseteq Qids
  /\ saved \in Times \union {None}
  /\ pc \in {"load", "fetch", "revids", "creations", "save"}
  /\ start \in Times /\ at \in Times /\ after \in 0..MaxChanges
  /\ latest \in Times
  /\ read \subseteq Ids

Init ==
  /\ now = 0
  /\ change = [i \in {} |-> None] /\ visible = {}
  /\ seen = [q \in Qids |-> 0] /\ created = {}
  /\ saved = None
  /\ pc = "load" /\ start = 0 /\ at = 0 /\ after = 0 /\ latest = 0
  /\ read = {}

Later(a, b) == IF a < b THEN b ELSE a

\* Subtraction that stops at the epoch, as max(0.0, ...) does.
Before(t, d) == IF t < d THEN 0 ELSE t - d

-----------------------------------------------------------------------------
(* Wikidata and its replica *)

\* A second passes once nothing is overdue on the replica.
Tick ==
  /\ now < MaxTime
  /\ \A i \in Made \ visible : now < change[i].at + MaxLag
  /\ now' = now + 1
  /\ UNCHANGED <<change, visible, seen, created, saved, scan>>

Make(q, new) ==
  LET id == Cardinality(Made) + 1 IN
  /\ id \in Ids
  /\ q = None => ~new
  /\ new <=> q # None /\ \A i \in Made : change[i].qid # q
  /\ change' = [i \in Made \union {id} |->
                  IF i = id THEN [at |-> now, qid |-> q, new |-> new]
                  ELSE change[i]]
  /\ UNCHANGED <<now, visible, seen, created, saved, scan>>

Appear(i) ==
  /\ i \in Made \ visible
  /\ visible' = visible \union {i}
  /\ UNCHANGED <<now, change, seen, created, saved, scan>>

-----------------------------------------------------------------------------
(* The scan *)

StartWithoutRewind(position) ==
  IF position = None THEN now ELSE Before(position, OverlapTime)

\* max of the rewind limit and of the position less the overlap
StartFrom(position) ==
  IF position = None THEN Before(now, Rewind)
  ELSE Later(Before(now, Rewind), Before(position, OverlapTime))

Begin(position) ==
  LET from == StartFrom(position) IN
  /\ start' = from /\ at' = from /\ latest' = from
  /\ after' = 0 /\ read' = {}
  /\ pc' = "fetch"

\* The start of the loop, in a new process.
Load ==
  /\ pc = "load"
  /\ Begin(saved)
  /\ UNCHANGED <<now, change, visible, seen, created, saved>>

FollowsInTime(i) == change[i].at > at

Follows(i) == change[i].at > at \/ (change[i].at = at /\ i > after)

IsPrecededBy(i, j) ==
  \/ change[i].at < change[j].at
  \/ change[i].at = change[j].at /\ i < j

Items(S) == {i \in S : change[i].qid # None}

\* The source writes the time of a row as an ISO text, and the pass reads it
\* back as a replica timestamp, which it is not: every row is without a time.
TimeKnown(i) == FALSE

Known(S) == {change[i].at : i \in {j \in S : TimeKnown(j)}}

\* One page.  Rows that name no item are dropped from it, and a page that is
\* not full ends the pass.
Fetch ==
  /\ pc = "fetch"
  /\ LET rest == {i \in visible : Follows(i)} IN
     \E page \in SUBSET rest :
       /\ Cardinality(page) = IF Cardinality(rest) < PageSize
                              THEN Cardinality(rest) ELSE PageSize
       /\ \A i \in page, j \in rest \ page : IsPrecededBy(i, j)
       /\ read' = read \union Items(page)
       /\ latest' = Max(Known(Items(page)) \union {latest})
       /\ IF Items(page) = {} THEN UNCHANGED <<at, after>>
          ELSE \E last \in Items(page) :
                 /\ \A i \in Items(page) \ {last} : IsPrecededBy(i, last)
                 /\ at' = change[last].at /\ after' = last
       /\ pc' = IF Cardinality(Items(page)) < PageSize THEN "revids"
                ELSE "fetch"
  /\ UNCHANGED <<now, change, visible, seen, created, saved, start>>

RevidsOfAny(q) == read
RevidsOf(q) == {i \in read : change[i].qid = q}

NewestOffByOne(old, S) == Max(S \union {old}) + 1
Replaced(old, S) == IF S = {} THEN old ELSE Max(S)

\* The row keeps the newer revision.
Newest(old, S) == Max(S \union {old})

WriteRevids ==
  /\ pc = "revids"
  /\ seen' = [q \in Qids |-> Newest(seen[q], RevidsOf(q))]
  /\ pc' = "creations"
  /\ UNCHANGED <<now, change, visible, created, saved, start, at, after,
                 latest, read>>

Creations == {i \in read : change[i].new /\ TimeKnown(i)}

WriteCreations ==
  /\ pc = "creations"
  /\ created' = created \union {change[i].qid : i \in Creations}
  /\ pc' = "save"
  /\ UNCHANGED <<now, change, visible, seen, saved, start, at, after, latest,
                 read>>

\* The position is saved, and the next pass starts from it.
Save ==
  /\ pc = "save"
  /\ saved' = latest
  /\ Begin(latest)
  /\ UNCHANGED <<now, change, visible, seen, created>>

\* An exception: the loop logs it and runs the same pass again.
Fails ==
  /\ pc # "load"
  /\ at' = start /\ latest' = start /\ after' = 0 /\ read' = {}
  /\ pc' = "fetch"
  /\ UNCHANGED <<now, change, visible, seen, created, saved, start>>

\* The process ends; another one loads the saved position.
Restart ==
  /\ pc # "load"
  /\ pc' = "load"
  /\ start' = 0 /\ at' = 0 /\ latest' = 0 /\ after' = 0 /\ read' = {}
  /\ UNCHANGED <<now, change, visible, seen, created, saved>>

Pass == Load \/ Fetch \/ WriteRevids \/ WriteCreations \/ Save

Next ==
  \/ Tick
  \/ \E q \in Qids \union {None}, new \in BOOLEAN : Make(q, new)
  \/ \E i \in Ids : Appear(i)
  \/ Pass \/ Fails \/ Restart

Spec == Init /\ [][Next]_vars

(***************************************************************************)
(* Fairness: the replica delivers, and the scan goes on.  Passes may fail  *)
(* and processes end any number of times, but not for ever: the scan has   *)
(* no bound on its retries, and nothing else would let a long pass end.    *)
(* (A saved pass may lead where a failed one does, so it is named.)        *)
(***************************************************************************)
FairSpec ==
  /\ Spec
  /\ \A i \in Ids : WF_vars(Appear(i))
  /\ WF_vars(Pass)
  /\ <>[][(Fails => Save) /\ ~Restart]_vars

-----------------------------------------------------------------------------
(* Properties *)

TooOld(i) == change[i].at < Before(now, Rewind)

Recorded(i) == seen[change[i].qid] >= i

\* The recorded revision of an item never goes back, although passes overlap
\* and are repeated.
SeenNeverRegresses == [][\A q \in Qids : seen'[q] >= seen[q]]_vars

\* A revision that is recorded for an item is one of the item's, between what
\* was recorded before and the newest: what the content workers rely on.
LastRevid == [q \in Qids |-> Newest(0, {i \in Made : change[i].qid = q})]
Published ==
  INSTANCE StoredCopies WITH Documents <- Qids, newest <- LastRevid, copy <- seen
RecordsRevisions == Published!CopiesSpec

\* What a later pass will not read again has been recorded: a change that has
\* appeared and is not recorded lies after the position the next pass, in
\* this process or the next, will start from, unless it is a day old.
NoGap ==
  \A i \in Items(visible) :
    \/ Recorded(i) \/ TooOld(i)
    \/ change[i].at >= StartFrom(saved) /\ change[i].at >= start

\* Every change that appears is recorded in the end, or it was a day old
\* before the scan could read it; a page with a row that names no item, which
\* ends the pass early, may hold up those after it.
EveryChangeSeen ==
  \A i \in Ids :
    i \in Items(visible) ~>
      \/ i \in Items(Made) /\ (Recorded(i) \/ TooOld(i))
      \/ Items(visible) # visible

\* The creation of every new item that a pass has read is recorded by it.
CreationsSeeded ==
  pc = "save" => \A i \in read : change[i].new => change[i].qid \in created
=============================================================================
