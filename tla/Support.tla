------------------------------- MODULE Support -------------------------------
(***************************************************************************)
(* What stands beside the content, inlinks and recent-changes workers: the *)
(* wiki subscribers' builder and worker, the builders of the other lookup  *)
(* tables, the backfill of creations, the item trace, the evaluation of    *)
(* one item, and the launcher.  They share no state, so a behaviour is one *)
(* of any of them and the others stay where they began: together they have *)
(* the sum of their states, not the product.                               *)
(***************************************************************************)
EXTENDS WikiSubscribers, LookupTables, CreationBackfill, ItemTrace,
        Evaluation, Launcher

VARIABLE part  \* the one that runs

supportVars == <<part, subscribersVars, lookupVars, creationVars, traceVars,
                 evaluationVars, launcherVars>>

SupportInit ==
  /\ part \in {"subscribers", "lookups", "creations", "trace", "evaluation",
               "launcher"}
  /\ SubscribersInit /\ LookupInit /\ CreationInit /\ TraceInit
  /\ EvaluationInit /\ LauncherInit
  /\ shared \/ part = "subscribers"
  /\ kind = "sdc" \/ part = "lookups"
  /\ lookups \/ part = "evaluation"

Subscribers ==
  /\ part = "subscribers" /\ SubscribersNext
  /\ UNCHANGED <<lookupVars, creationVars, traceVars, evaluationVars,
                 launcherVars, part>>

Lookups ==
  /\ part = "lookups" /\ LookupNext
  /\ UNCHANGED <<subscribersVars, creationVars, traceVars, evaluationVars,
                 launcherVars, part>>

Creating ==
  /\ part = "creations" /\ CreationNext
  /\ UNCHANGED <<subscribersVars, lookupVars, traceVars, evaluationVars,
                 launcherVars, part>>

Tracing ==
  /\ part = "trace" /\ TraceNext
  /\ UNCHANGED <<subscribersVars, lookupVars, creationVars, evaluationVars,
                 launcherVars, part>>

OneEvaluation ==
  /\ part = "evaluation" /\ EvaluationNext
  /\ UNCHANGED <<subscribersVars, lookupVars, creationVars, traceVars,
                 launcherVars, part>>

Launching ==
  /\ part = "launcher" /\ LauncherNext
  /\ UNCHANGED <<subscribersVars, lookupVars, creationVars, traceVars,
                 evaluationVars, part>>

SupportNext ==
  Subscribers \/ Lookups \/ Creating \/ Tracing \/ OneEvaluation \/ Launching

\* The daily rebuild of the subscriptions and the jobs that build the other
\* tables run again and again, sources answer in the end, and each step of a
\* run or pass is taken; so is the backfill of subscribed items, whose loop
\* never ends.  Nothing makes a user ask, an evaluation go on or a launcher act.
SupportFairness ==
  LET Rebuilding(A) == part = "subscribers" /\ A
      Building(A) == part = "lookups" /\ A
      Backfilling(A) == part = "creations" /\ A
  IN /\ WF_subscribersVars(Rebuilding(StartRebuild))
     /\ WF_subscribersVars(Rebuilding(ScanBlock))
     /\ WF_subscribersVars(Rebuilding(SwapSubscribers))
     /\ WF_subscribersVars(Rebuilding(MarkRebuilt))
     /\ WF_subscribersVars(Rebuilding(CopyBlock \/ MarkCopied))
     /\ WF_lookupVars(Building(\/ StartSdc \/ StartOsm
                               \/ StartNamespaces \/ StartProperties))
     /\ WF_lookupVars(Building(\E p \in Parts : CountChunk(p) \/ FetchPage(p)
                                             \/ FetchSite(p) \/ FetchClass(p)))
     /\ WF_lookupVars(Building(\/ SwapSdc \/ SwapOsm
                               \/ SwapNamespaces \/ SwapProperties))
     /\ WF_lookupVars(Building(StampDump))
     /\ WF_creationVars(Backfilling(ListTargets))
     /\ WF_creationVars(Backfilling(FetchTargets))
     /\ WF_creationVars(Backfilling(\E f \in NewRows : WriteFound(f)))

SupportSpec ==
  SupportInit /\ [][SupportNext]_supportVars /\ SupportFairness

-----------------------------------------------------------------------------
(* Properties *)

\* Types, and that ids, versions, levels and processes stay within what the
\* parts can produce.
SupportTypeOK ==
  /\ SubscribersTypeOK /\ LookupTypeOK /\ CreationTypeOK /\ TraceTypeOK
  /\ EvaluationTypeOK /\ LauncherTypeOK

\* What the tables hold can be relied on while they are rebuilt, marked,
\* backfilled and pruned by processes that fail at any step: a mark is never
\* ahead of the table it describes, no table is a partial build, a creation is
\* one of its item, and a traced event is kept once.
TablesSound ==
  MarkCovers /\ StampedIsCurrent /\ NeverPartial /\ CreationGenuine /\ TraceKept

\* The levels of a finished evaluation, and those that are read from what it
\* stored, are those the evidence deserves.
LevelsSound == ReportSound /\ ReadsAgree

\* Unless the source goes away or the jobs fail for good, the subscriptions,
\* the lookup tables and the creations come to follow their sources.
TablesFollow ==
  <>[](/\ part = "subscribers" => SubscribersCurrent
       /\ part = "lookups" => TableCurrent
       /\ part = "creations" => WantedStored)
=============================================================================
