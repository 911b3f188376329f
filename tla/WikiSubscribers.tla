-------------------------- MODULE WikiSubscribers --------------------------
(***************************************************************************)
(* The table of items that other wikis use (wiki_subscribers) and the mark *)
(* that says how far wb_changes_subscription has been copied into it.      *)
(*                                                                         *)
(* Two jobs write both.  The builder rebuilds the table every day: it      *)
(* scans the whole log up to the row that was last when it began, swaps    *)
(* the result in and sets the mark.  The worker copies, once a minute, the *)
(* rows beyond the mark, block after block, and sets the mark when it is   *)
(* through.  A lock file keeps one of them out while the other runs, if    *)
(* they see the same file system; each Toolforge job may have a /tmp of    *)
(* its own (`shared`).                                                     *)
(***************************************************************************)
EXTENDS Naturals, FiniteSetsExt

CONSTANTS
  UsedItems,       \* items that other wikis subscribe to
  NoItem,          \* no row under this id, or none any more
  LastRow,         \* bound: ids of rows
  BlockSize,       \* ids per query
  MaxBreakdowns    \* bound: runs that fail or are killed

ASSUME SubscribersAssumption ==
  /\ NoItem \notin UsedItems
  /\ LastRow \in Nat /\ MaxBreakdowns \in Nat
  /\ BlockSize \in Nat \ {0}

VARIABLES
  rows,        \* wb_changes_subscription on the replica (external)
  assigned,    \* ids that some row has had (external)
  late,        \* of those, the ones that appeared after a higher one (external)
  subscribers, \* wiki_subscribers
  mark,        \* wikisub_high_water_mark
  builder,     \* a run of the builder; `at` is the next block, `staged` the
               \* temporary table
  updater,     \* a pass of the worker
  shared,      \* both jobs see the same lock file; never changes
  breakdowns

subscription == <<rows, assigned, late>>
subscribersVars ==
  <<subscription, subscribers, mark, builder, updater, shared, breakdowns>>

Ids == 1..LastRow
IdleBuilder == [pc |-> "off", limit |-> 0, at |-> 0, staged |-> {}]
IdleUpdater == [pc |-> "off", limit |-> 0, at |-> 0]

SubscribersTypeOK ==
  /\ rows \in [Ids -> UsedItems \union {NoItem}]
  /\ late \subseteq assigned /\ assigned \subseteq Ids
  /\ subscribers \subseteq UsedItems
  /\ mark \in 0..LastRow
  /\ builder \in [pc : {"off", "scan", "swap", "mark"}, limit : 0..LastRow,
                  at : 0..(LastRow + BlockSize), staged : SUBSET UsedItems]
  /\ updater \in [pc : {"off", "scan", "mark"}, limit : 0..LastRow,
                  at : 0..(LastRow + BlockSize)]
  /\ shared \in BOOLEAN
  /\ breakdowns \in 0..MaxBreakdowns

SubscribersInit ==
  /\ rows = [i \in Ids |-> NoItem]
  /\ assigned = {} /\ late = {}
  /\ subscribers = {}
  /\ mark = 0
  /\ builder = IdleBuilder /\ updater = IdleUpdater
  /\ shared \in BOOLEAN
  /\ breakdowns = 0

Present == {i \in Ids : rows[i] # NoItem}

\* _fetch_scalar of MAX(cs_row_id): 0 for an empty table.
NewestRow == IF Present = {} THEN 0 ELSE Max(Present)

\* _fetch_block: the items of the rows in [start, start + BlockSize), up to
\* the limit of the scan.
Block(start, limit) ==
  {rows[i] : i \in {j \in Present : start <= j /\ j < start + BlockSize
                                               /\ j <= limit}}

-----------------------------------------------------------------------------
(* The log of subscriptions *)

\* Transactions commit in any order, so a row may appear below the newest.
Subscribe(i, item) ==
  /\ i \notin assigned
  /\ rows' = [rows EXCEPT ![i] = item]
  /\ assigned' = assigned \union {i}
  /\ late' = IF \E j \in assigned : j > i THEN late \union {i} ELSE late
  /\ UNCHANGED <<subscribers, mark, builder, updater, shared, breakdowns>>

Unsubscribe(i) ==
  /\ rows[i] # NoItem
  /\ rows' = [rows EXCEPT ![i] = NoItem]
  /\ UNCHANGED <<assigned, late, subscribers, mark, builder, updater, shared,
                 breakdowns>>

-----------------------------------------------------------------------------
(* The daily rebuild *)

\* An empty log resets the mark and fails the run, which leaves the table.
StartRebuild ==
  /\ builder.pc = "off"
  /\ shared => updater.pc = "off"
  /\ IF NewestRow = 0
       THEN mark' = 0 /\ UNCHANGED builder
       ELSE /\ builder' = [IdleBuilder EXCEPT !.pc = "scan", !.limit = NewestRow]
            /\ UNCHANGED mark
  /\ UNCHANGED <<subscription, subscribers, updater, shared, breakdowns>>

ScanBlock ==
  /\ builder.pc = "scan"
  /\ builder' =
       [builder EXCEPT
          !.staged = @ \union Block(builder.at, builder.limit),
          !.at = @ + BlockSize,
          !.pc = IF builder.at + BlockSize > builder.limit THEN "swap" ELSE @]
  /\ UNCHANGED <<subscription, subscribers, mark, updater, shared, breakdowns>>

AddStaged ==
  /\ builder.pc = "swap"
  /\ subscribers' = subscribers \union builder.staged
  /\ builder' = [builder EXCEPT !.pc = "mark", !.staged = {}]
  /\ UNCHANGED <<subscription, mark, updater, shared, breakdowns>>

\* DELETE and INSERT in one transaction.
SwapSubscribers ==
  /\ builder.pc = "swap"
  /\ subscribers' = builder.staged
  /\ builder' = [builder EXCEPT !.pc = "mark", !.staged = {}]
  /\ UNCHANGED <<subscription, mark, updater, shared, breakdowns>>

MarkNewest ==
  /\ builder.pc = "mark"
  /\ mark' = NewestRow
  /\ builder' = IdleBuilder
  /\ UNCHANGED <<subscription, subscribers, updater, shared, breakdowns>>

MarkRebuilt ==
  /\ builder.pc = "mark"
  /\ mark' = builder.limit
  /\ builder' = IdleBuilder
  /\ UNCHANGED <<subscription, subscribers, updater, shared, breakdowns>>

-----------------------------------------------------------------------------
(* The worker's pass *)

\* Nothing beyond the mark: the pass ends at once and is not a step.
StartPass ==
  /\ updater.pc = "off"
  /\ shared => builder.pc = "off"
  /\ NewestRow > mark
  /\ updater' = [pc |-> "scan", limit |-> NewestRow, at |-> mark + 1]
  /\ UNCHANGED <<subscription, subscribers, mark, builder, shared, breakdowns>>

\* upsert_wiki_subscribers commits block by block.
CopyBlock ==
  /\ updater.pc = "scan"
  /\ subscribers' = subscribers \union Block(updater.at, updater.limit)
  /\ updater' =
       [updater EXCEPT
          !.at = @ + BlockSize,
          !.pc = IF updater.at + BlockSize > updater.limit THEN "mark" ELSE @]
  /\ UNCHANGED <<subscription, mark, builder, shared, breakdowns>>

MarkBlockEnd ==
  /\ updater.pc = "mark"
  /\ mark' = updater.at - 1
  /\ updater' = IdleUpdater
  /\ UNCHANGED <<subscription, subscribers, builder, shared, breakdowns>>

MarkCopied ==
  /\ updater.pc = "mark"
  /\ mark' = updater.limit
  /\ updater' = IdleUpdater
  /\ UNCHANGED <<subscription, subscribers, builder, shared, breakdowns>>

-----------------------------------------------------------------------------
(* An error of the replica or the database, or the end of the process, at  *)
(* any point: what was committed stays, and the lock is released.          *)

BreakDown ==
  /\ breakdowns < MaxBreakdowns
  /\ breakdowns' = breakdowns + 1
  /\ \/ builder.pc # "off" /\ builder' = IdleBuilder /\ UNCHANGED updater
     \/ updater.pc # "off" /\ updater' = IdleUpdater /\ UNCHANGED builder
  /\ UNCHANGED <<subscription, subscribers, mark, shared>>

SubscribersNext ==
  \/ \E i \in Ids :
       (\E item \in UsedItems : Subscribe(i, item)) \/ Unsubscribe(i)
  \/ StartRebuild \/ ScanBlock \/ SwapSubscribers \/ MarkRebuilt
  \/ StartPass \/ CopyBlock \/ MarkCopied
  \/ BreakDown

-----------------------------------------------------------------------------
(* Properties *)

\* The mark is backed by the table: while the lock keeps the jobs apart, the
\* item of every row up to the mark is in the table, whatever was committed
\* when a run broke down, except for rows that appeared below a newer one.
MarkCovers ==
  shared => \A i \in Present \ late : i <= mark => rows[i] \in subscribers

\* What the rebuild is for: when the log rests, the table comes to hold
\* exactly the items the log still has, although the worker never removes
\* one, misses late rows and may lose its rows to a rebuild beside it.  The
\* rebuild refuses an empty log, which leaves the table as it was.
SubscribersCurrent == Present # {} => subscribers = {rows[i] : i \in Present}

SubscribersSpec == SubscribersInit /\ [][SubscribersNext]_subscribersVars
=============================================================================
