-------------------------- MODULE InlinksPipeline --------------------------
(***************************************************************************)
(* The inlinks worker (wd_notability/inlinks/pipeline.py, blackboard.py,   *)
(* source.py, db_read.py): five coroutines around one blackboard of the    *)
(* items some client wants inlinks for (targets).  They copy interest into *)
(* the board, count the items that link to a target, fetch which they are, *)
(* evaluate the target from their content levels, and publish an interest  *)
(* of their own in the linking items.                                      *)
(*                                                                         *)
(* Each await ends an action.  The ages that make a count or a graph stale *)
(* are left out: a pass takes all that is missing and any part of what is  *)
(* known.  Of a count only its sign matters.  Whether two whole-second     *)
(* stamps are equal matters in one place, and is kept in graphing.same.    *)
(***************************************************************************)
EXTENDS Naturals, FiniteSets, FiniteSetsExt, Functions

CONSTANTS
  Targets,
  Items,       \* other items that may link to a target
  Limit,       \* INLINKS_CONTEXT_LIMIT
  Levels,      \* the content levels an item may get
  MaxChanges,  \* bound: edits, new levels, changes of interest, failures, restarts
  Absent

None == 0      \* NotabilityLevel
Unknown == 4
Strong == 5

VARIABLES
  links,       \* what links to each target, itself perhaps, on the replica (external)
  level,       \* n12 of each item, Unknown when it has no content row
  pushed,      \* targets a content batch has still to write as STRONG
  interested,  \* targets with a row in interest (external)
  changes,     \* those made so far
  board,       \* InlinksBlackboard._entries
  row,         \* inlinks_cache
  published,   \* what the publisher's session is interested in
  last,        \* _last_published_qids
  read,        \* rows in the hands of interest_fetcher, or Absent
  counting, graphing, evaluating  \* what each of the other three is doing

world == <<links, level, pushed, interested>>
vars == <<world, changes, board, row, published, last, read, counting, graphing, evaluating>>

Known == {t \in Targets : board[t] # Absent}

Entry == [count : {0, 1, Absent}, inlinks : SUBSET Items, fetched : BOOLEAN,
          truncated : BOOLEAN, evaluated : BOOLEAN]
Row == [level : 0..5, count : 0..1]

ASSUME InlinksAssumption ==
  /\ Limit \in Nat \ {0}
  /\ Levels \subseteq 0..5 /\ Unknown \in Levels
  /\ MaxChanges \in Nat
  /\ Absent \notin Nat \union Entry \union Row

TypeOK ==
  /\ \A t \in Targets : links[t] \subseteq Items \union {t}
  /\ level \in [Items -> Levels]
  /\ pushed \subseteq Targets /\ interested \subseteq Targets
  /\ changes \in 0..MaxChanges
  /\ board \in [Targets -> Entry \union {Absent}]
  /\ row \in [Targets -> Row \union {Absent}]
  /\ published \subseteq Items
  /\ Range(last) \subseteq Targets
  /\ read = Absent \/ DOMAIN read \subseteq Targets
  /\ counting.at \in {"idle", "record", "write"}
  /\ graphing.at \in {"idle", "record", "write"}
  /\ evaluating.at \in {"idle", "levels", "write", "delete"}
  /\ \A task \in {<<counting.at, DOMAIN counting.found>>, <<graphing.at, DOMAIN graphing.found>>,
                  <<evaluating.at, DOMAIN evaluating.entries>>} :
       task[2] \subseteq Targets /\ (task[1] = "idle" <=> task[2] = {})
  /\ graphing.same \subseteq DOMAIN graphing.found

Nobody == [t \in {} |-> 0]
IdleCounting == [at |-> "idle", found |-> Nobody]
IdleGraphing == [at |-> "idle", found |-> Nobody, same |-> {}]
IdleEvaluating == [at |-> "idle", entries |-> Nobody, result |-> Nobody]

Init ==
  /\ links \in [Targets -> SUBSET Items]
  /\ level = [i \in Items |-> Unknown]
  /\ interested \in SUBSET Targets
  /\ pushed = {} /\ changes = 0
  /\ board = [t \in Targets |-> Absent]
  /\ row = [t \in Targets |-> Absent]
  /\ published = {} /\ last = <<>>
  /\ read = Absent
  /\ counting = IdleCounting /\ graphing = IdleGraphing /\ evaluating = IdleEvaluating

-----------------------------------------------------------------------------
(* Blackboard entries *)

\* apply_interest_rows of a target the board does not have: what the database
\* knows of it, and no graph.
NewEntry(r) ==
  [count |-> IF r = Absent THEN Absent ELSE r.count, inlinks |-> {}, fetched |-> FALSE,
   truncated |-> FALSE, evaluated |-> r # Absent]

\* apply_interest_rows of a target it has: fills only what is missing.
Filled(entry, r) ==
  IF r = Absent THEN entry
  ELSE [entry EXCEPT !.count = IF @ = Absent THEN r.count ELSE @, !.evaluated = TRUE]

\* record_empty_graph after record_count: nothing more when the entry's last
\* evaluation carries the stamp of this pass.
Emptied(entry, sameStamp) ==
  IF sameStamp THEN [entry EXCEPT !.count = 0]
  ELSE [entry EXCEPT !.count = 0, !.inlinks = {}, !.fetched = TRUE, !.evaluated = TRUE]

\* record_count and record_graph
Linked(entry, context) ==
  [entry EXCEPT !.count = 1, !.inlinks = context.inlinks, !.fetched = TRUE,
                !.truncated = context.truncated]

\* The passes over what is missing and part of what is known.
StaleOrNone(missing, known) == {missing \union T : T \in SUBSET known}
Stale(missing, known) == {missing \union T : T \in SUBSET known} \ {{}}

CountCandidates ==
  Stale({t \in Known : board[t].count = Absent}, {t \in Known : board[t].count = 0})

GraphCandidatesOnce ==
  Stale({t \in Known : board[t].count = 1 /\ ~board[t].fetched}, {})
GraphCandidatesAgain ==
  LET counted == {t \in Known : board[t].count = 1}
  IN  Stale({t \in counted : ~board[t].fetched}, {t \in counted : board[t].fetched})

GraphCandidates ==
  LET counted == {t \in Known : board[t].count = 1}
  IN  Stale({t \in counted : ~board[t].fetched},
            {t \in counted : board[t].fetched /\ ~board[t].truncated})

EvaluationCandidates ==
  LET ready == {t \in Known : board[t].count = 0 \/ (board[t].count = 1 /\ board[t].fetched)}
  IN  Stale({t \in ready : ~board[t].evaluated},
            {t \in ready : board[t].evaluated /\ ~board[t].truncated})

\* What graphing.same may become when the targets of T get a new evaluated_at:
\* it may or may not be the second in which the graph pass began.
Stamped(T) ==
  IF graphing.at = "record"
  THEN {[graphing EXCEPT !.same = (@ \ T) \union S] : S \in SUBSET (T \intersect DOMAIN graphing.found)}
  ELSE {graphing}

-----------------------------------------------------------------------------
(* interest_fetcher *)

\* prune_stale_interest of an entry the rows do not have: a pass comes a second
\* after the one that saw it last.
Kept(entry) == entry
Pruned(entry) == Absent

ReadInterest ==
  /\ read = Absent
  /\ read' = [t \in interested |-> row[t]]
  /\ UNCHANGED <<world, changes, board, row, published, last, counting, graphing, evaluating>>

ApplyInterest ==
  /\ read # Absent
  /\ board' = [t \in Targets |->
                 IF t \notin DOMAIN read THEN Pruned(board[t])
                 ELSE IF board[t] = Absent THEN NewEntry(read[t])
                 ELSE Filled(board[t], read[t])]
  /\ graphing' \in Stamped({t \in DOMAIN read : board[t] = Absent \/ ~board[t].evaluated})
  /\ read' = Absent
  /\ UNCHANGED <<world, changes, row, published, last, counting, evaluating>>

-----------------------------------------------------------------------------
(* counts_fetcher *)

\* count_inlinks counts a link of the target to itself.
Count(t) == IF links[t] = {} THEN 0 ELSE 1

ReadCounts(T) ==
  /\ counting.at = "idle"
  /\ counting' = [at |-> "record", found |-> [t \in T |-> Count(t)]]
  /\ UNCHANGED <<world, changes, board, row, published, last, read, graphing, evaluating>>

ZeroCounts == {t \in DOMAIN counting.found : counting.found[t] = 0}

\* record_count, and mark_evaluated of those with none, unless pruned since.
RecordCounts ==
  /\ counting.at = "record"
  /\ board' = [t \in Targets |->
                 IF t \notin Known \intersect DOMAIN counting.found THEN board[t]
                 ELSE [board[t] EXCEPT !.count = counting.found[t],
                                       !.evaluated = @ \/ t \in ZeroCounts]]
  /\ graphing' \in Stamped(ZeroCounts \intersect Known)
  /\ counting' = IF ZeroCounts = {} THEN IdleCounting ELSE [counting EXCEPT !.at = "write"]
  /\ UNCHANGED <<world, changes, row, published, last, read, evaluating>>

ZeroRow == [level |-> None, count |-> 0]

WriteZeroCounts ==
  /\ counting.at = "write"
  /\ row' = [t \in Targets |-> IF t \in ZeroCounts THEN ZeroRow ELSE row[t]]
  /\ counting' = IdleCounting
  /\ UNCHANGED <<world, changes, board, published, last, read, graphing, evaluating>>

-----------------------------------------------------------------------------
(* graph_fetcher: _fetch_graph_candidates, whose batch is the whole pass *)

\* get_contexts excludes a link of the target to itself.
Others(t) == links[t] \ {t}
Contexts(t) ==
  IF Cardinality(Others(t)) > Limit
  THEN [inlinks : kSubset(Limit, Others(t)), truncated : {TRUE}]
  ELSE {[inlinks |-> Others(t), truncated |-> FALSE]}

ReadGraphs(T) ==
  /\ graphing.at = "idle"
  /\ \E found \in [T -> UNION {Contexts(t) : t \in T}],
        same \in SUBSET {t \in T : board[t].evaluated} :
       /\ \A t \in T : found[t] \in Contexts(t)
       /\ graphing' = [at |-> "record", found |-> found, same |-> same]
  /\ UNCHANGED <<world, changes, board, row, published, last, read, counting, evaluating>>

EmptyGraphs == {t \in DOMAIN graphing.found : graphing.found[t].inlinks = {}}

RecordGraphs ==
  /\ graphing.at = "record"
  /\ board' = [t \in Targets |->
                 IF t \notin Known \intersect DOMAIN graphing.found THEN board[t]
                 ELSE IF t \in EmptyGraphs THEN Emptied(board[t], t \in graphing.same)
                 ELSE Linked(board[t], graphing.found[t])]
  /\ graphing' = IF EmptyGraphs = {} THEN IdleGraphing ELSE [graphing EXCEPT !.at = "write"]
  /\ UNCHANGED <<world, changes, row, published, last, read, counting, evaluating>>

WriteEmptyGraphs ==
  /\ graphing.at = "write"
  /\ row' = [t \in Targets |-> IF t \in EmptyGraphs THEN ZeroRow ELSE row[t]]
  /\ graphing' = IdleGraphing
  /\ UNCHANGED <<world, changes, board, published, last, read, counting, evaluating>>

-----------------------------------------------------------------------------
(* evaluator *)

TakeEntries(T) ==
  /\ evaluating.at = "idle"
  /\ evaluating' = [at |-> "levels", entries |-> [t \in T |-> board[t]], result |-> Nobody]
  /\ UNCHANGED <<world, changes, board, row, published, last, read, counting, graphing>>

EvaluateWhole(entry) ==
  LET found == {level[i] : i \in entry.inlinks}
  IN  IF entry.inlinks = {} THEN None
      ELSE IF Strong \in found THEN Strong
      ELSE IF Unknown \in found THEN Unknown
      ELSE Max(found)

\* _evaluate_target
EvaluateTarget(entry) ==
  LET found == {level[i] : i \in entry.inlinks}
  IN  IF entry.inlinks = {} THEN None
      ELSE IF Strong \in found THEN Strong
      ELSE IF Unknown \in found \/ entry.truncated THEN Unknown
      ELSE Max(found)

\* _get_inlinks_n12_many, and mark_evaluated of what is still on the board.
ReadLevels ==
  LET T == DOMAIN evaluating.entries
  IN  /\ evaluating.at = "levels"
      /\ evaluating' = [evaluating EXCEPT !.at = "write",
                          !.result = [t \in T |-> EvaluateTarget(evaluating.entries[t])]]
      /\ board' = [t \in Targets |-> IF t \in T \intersect Known
                                     THEN [board[t] EXCEPT !.evaluated = TRUE] ELSE board[t]]
      /\ graphing' \in Stamped(T \intersect Known)
      /\ UNCHANGED <<world, changes, row, published, last, read, counting>>

UnknownOfCut ==
  {t \in DOMAIN evaluating.result :
     evaluating.entries[t].truncated /\ evaluating.result[t] = Unknown}
UnknownResults == {t \in DOMAIN evaluating.result : evaluating.result[t] = Unknown}

Evaluated(t) ==
  [level |-> evaluating.result[t],
   count |-> IF evaluating.entries[t].count = 0 /\ evaluating.entries[t].inlinks = {}
             THEN 0 ELSE 1]

WriteLevels ==
  /\ evaluating.at = "write"
  /\ row' = [t \in Targets |->
               IF t \in DOMAIN evaluating.result THEN Evaluated(t) ELSE row[t]]
  /\ evaluating' = IF UnknownResults = {} THEN IdleEvaluating ELSE [evaluating EXCEPT !.at = "delete"]
  /\ UNCHANGED <<world, changes, board, published, last, read, counting, graphing>>

\* delete_inlinks_many
DeleteUnknown ==
  /\ evaluating.at = "delete"
  /\ row' = [t \in Targets |-> IF t \in UnknownResults THEN Absent ELSE row[t]]
  /\ evaluating' = IdleEvaluating
  /\ UNCHANGED <<world, changes, board, published, last, read, counting, graphing>>

-----------------------------------------------------------------------------
(* interest_publisher: nothing new unless the list of targets, or its order, is.
   Priorities, levels and times give any order. *)

PublishNothing ==
  /\ Known = {}
  /\ last' = <<>> /\ published' = {}
  /\ UNCHANGED <<world, changes, board, row, read, counting, graphing, evaluating>>

Publish ==
  /\ Known # {}
  /\ last' \in Bijection(1..Cardinality(Known), Known) \ {last}
  /\ published' = UNION {board[t].inlinks : t \in Known}
  /\ UNCHANGED <<world, changes, board, row, read, counting, graphing, evaluating>>

-----------------------------------------------------------------------------
(* What happens around the pipeline *)

Changes == changes < MaxChanges /\ changes' = changes + 1
pipeline == <<board, row, published, last, read, counting, graphing, evaluating>>

Edit(t, i) ==
  /\ Changes
  /\ links' = [links EXCEPT ![t] = IF i \in @ THEN @ \ {i} ELSE @ \union {i}]
  /\ UNCHANGED <<level, pushed, interested, pipeline>>

ToggleInterest(t) ==
  /\ Changes
  /\ interested' = IF t \in interested THEN interested \ {t} ELSE interested \union {t}
  /\ UNCHANGED <<links, level, pushed, pipeline>>

\* The content worker writes an item's level; if STRONG, the items it links to
\* are to be written as STRONG when the batch ends.
Resolve(i, n) ==
  /\ Changes
  /\ level[i] # n
  /\ level' = [level EXCEPT ![i] = n]
  /\ pushed' = pushed \union {t \in Targets : n = Strong /\ i \in links[t]}
  /\ UNCHANGED <<links, interested, pipeline>>

StrongRow == [level |-> Strong, count |-> 1]

\* upsert_inlinks_strong_many, which may skip those without a content row.
PushStrong(T) ==
  /\ pushed # {} /\ T \subseteq pushed
  /\ pushed' = {}
  /\ row' = [t \in Targets |-> IF t \in T THEN StrongRow ELSE row[t]]
  /\ UNCHANGED <<links, level, interested, changes, board, published, last, read,
                 counting, graphing, evaluating>>

\* A query for counts or graphs fails: its chunk is dropped.
CountsFail ==
  /\ counting.at = "record" /\ Changes
  /\ counting' = IdleCounting
  /\ UNCHANGED <<world, board, row, published, last, read, graphing, evaluating>>

GraphsFail ==
  /\ graphing.at = "record" /\ Changes
  /\ graphing' = IdleGraphing
  /\ UNCHANGED <<world, board, row, published, last, read, counting, evaluating>>

\* Any other failure ends the gather, and with it the process; the publisher's
\* manager closes with its rows deleted.
Restart ==
  /\ Changes
  /\ board' = [t \in Targets |-> Absent]
  /\ published' = {} /\ last' = <<>> /\ read' = Absent
  /\ counting' = IdleCounting /\ graphing' = IdleGraphing /\ evaluating' = IdleEvaluating
  /\ UNCHANGED <<world, row>>

Disturb ==
  \/ \E t \in Targets : \E i \in Items \union {t} : Edit(t, i)
  \/ \E t \in Targets : ToggleInterest(t)
  \/ \E i \in Items, n \in Levels : Resolve(i, n)
  \/ CountsFail \/ GraphsFail \/ Restart

CountPass == \E T \in CountCandidates : ReadCounts(T)
GraphPass == \E T \in GraphCandidates : ReadGraphs(T)
EvaluationPass == \E T \in EvaluationCandidates : TakeEntries(T)

Next ==
  \/ ReadInterest \/ ApplyInterest
  \/ CountPass \/ GraphPass \/ EvaluationPass
  \/ RecordCounts \/ WriteZeroCounts
  \/ RecordGraphs \/ WriteEmptyGraphs
  \/ ReadLevels \/ WriteLevels \/ DeleteUnknown
  \/ PublishNothing \/ Publish
  \/ \E T \in SUBSET Targets : PushStrong(T)
  \/ Disturb

Spec == Init /\ [][Next]_vars

\* Every coroutine loops, every await returns, and a target whose count, graph
\* or level keeps being missing or stale is in some later pass, since what is
\* stale stays so until a pass takes it.
FairSpec ==
  /\ Spec
  /\ WF_vars(ReadInterest) /\ WF_vars(ApplyInterest)
  /\ WF_vars(RecordCounts) /\ WF_vars(WriteZeroCounts)
  /\ WF_vars(RecordGraphs) /\ WF_vars(WriteEmptyGraphs)
  /\ WF_vars(ReadLevels) /\ WF_vars(WriteLevels) /\ WF_vars(DeleteUnknown)
  /\ WF_vars(PublishNothing) /\ WF_vars(Publish /\ Range(last) # Known)
  /\ WF_vars(\E T \in SUBSET Targets : PushStrong(T))
  /\ \A t \in Targets :
       /\ SF_vars(\E T \in CountCandidates : t \in T /\ ReadCounts(T))
       /\ SF_vars(\E T \in GraphCandidates : t \in T /\ ReadGraphs(T))
       /\ SF_vars(\E T \in EvaluationCandidates : t \in T /\ TakeEntries(T))

-----------------------------------------------------------------------------
(* Properties *)

\* What the graph says of a target: NONE without links, STRONG with a strong
\* one, and otherwise the best level once all are known.
Expected(t) ==
  LET found == {level[i] : i \in Others(t)}
  IN  CASE found = {} -> None
        [] Strong \in found -> Strong
        [] Unknown \in found /\ Strong \notin found -> Unknown
        [] OTHER -> Max(found)

RowLevel(t) == IF row[t] = Absent THEN Unknown ELSE row[t].level

\* The board's entry can still follow the graph: it was not cut at the limit,
\* it does not hold links together with a count of zero, and no link to itself
\* makes the target counted and emptied over and over.
Follows(t) ==
  /\ board[t] # Absent
  /\ t \notin links[t]
  /\ ~board[t].truncated
  /\ board[t].count = 0 => board[t].inlinks = {}

\* An entry that counts as cut holds as many links as the limit allows: no pass
\* over counts or graphs, however late it records, empties an entry and leaves
\* it cut, which no pass would take up again.
CutHoldsLimit ==
  \A t \in Known : board[t].truncated => Cardinality(board[t].inlinks) = Limit

\* Of a target not all of whose links were downloaded nothing is concluded but
\* that it is strong: whatever passes record on its entry and in which order,
\* no level is found for it from a part of its links, nor from an entry that
\* lost them and still counts as cut.
PartNeverDecides ==
  \A t \in DOMAIN evaluating.result :
    evaluating.entries[t].truncated => evaluating.result[t] \in {Strong, Unknown}

\* UNKNOWN is stored only until the evaluator deletes it.  Only a stop between
\* its write and its delete leaves such a row behind, whatever else is written
\* to the table meanwhile.
Left(t) ==
  /\ row[t] # Absent /\ row[t].level = Unknown
  /\ ~(evaluating.at = "delete" /\ t \in UnknownResults)
NoneLeft == \A t \in Targets : ~Left(t)
OnlyStopsLeaveUnknown == [][NoneLeft /\ ~Restart => NoneLeft']_vars

\* Whatever counts, graphs, evaluations, deletions and strong writes were under
\* way, once links and levels stay the row of an item in interest comes to be
\* what its links and their levels say.
SettledAgrees ==
  \A t \in Targets : <>[](t \in interested /\ Follows(t) => RowLevel(t) = Expected(t))

\* When nobody wants inlinks any more, the worker's own interest in the items
\* that link to them ends.
InterestReleased == <>[](interested = {}) => <>[](published = {})
=============================================================================
