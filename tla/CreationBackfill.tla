--------------------------- MODULE CreationBackfill ---------------------------
(***************************************************************************)
(* Who created an item, and when: creator_actor_id and creation_time in    *)
(* recent_changes_cache.  Two loops of the recent-changes worker fetch     *)
(* them from the replica (wd_notability/creations.py): one for items that  *)
(* somebody subscribed to and that have none, the best FetchLimit of them  *)
(* at a time; one for all creations of a user in a window.  (The scan of   *)
(* RecentChanges would be a third, but finds no creation.)                 *)
(*                                                                         *)
(* An item's first revisions are those without a parent, of the page or of *)
(* the archive; imports and undeletions may leave it several.  An item may *)
(* have none on the replica: it does not exist, or its creator is hidden.  *)
(***************************************************************************)
EXTENDS Naturals, FiniteSets

CONSTANTS
  History,        \* by item: [priority, firsts], where firsts are the first
                  \* revisions [at, by] that the replica comes to show
  FetchLimit,     \* RECENT_CHANGES_CREATION_BACKFILL_LIMIT
  NoCreation,
  MaxSetbacks     \* bound: failures and cancelled subscriptions

NewItems == DOMAIN History

\* Items are their numbers.
ASSUME BackfillAssumption ==
  /\ FetchLimit \in Nat \ {0} /\ MaxSetbacks \in Nat
  /\ NewItems \subseteq Nat /\ IsFiniteSet(NewItems)
  /\ \A q \in NewItems : History[q].priority \in Nat

FirstRevisions == UNION {History[q].firsts : q \in NewItems}

VARIABLES
  wanted,     \* items with an interest row that has wants_creation
  firsts,     \* first revisions on the replica
  creation,   \* the row's creation_time and creator_actor_id, or NoCreation
  pass,       \* locals of the backfill of subscribed items
  request,    \* locals of the backfill of a user
  setbacks

creationVars == <<wanted, firsts, creation, pass, request, setbacks>>

NewRows == [item : NewItems, first : FirstRevisions]
IdlePass == [step |-> "list", targets |-> {}, found |-> {}]
IdleRequest == [step |-> "list", revisions |-> {}, found |-> {}]

CreationTypeOK ==
  /\ wanted \subseteq NewItems
  /\ \A q \in NewItems : firsts[q] \subseteq History[q].firsts
  /\ creation \in [NewItems -> FirstRevisions \union {NoCreation}]
  /\ pass.step \in {"list", "fetch", "write"}
  /\ pass.targets \subseteq NewItems /\ Cardinality(pass.targets) <= FetchLimit
  /\ pass.found \subseteq NewRows
  /\ request.step \in {"list", "fetch", "write"}
  /\ request.revisions \subseteq FirstRevisions
  /\ request.found \subseteq NewRows
  /\ setbacks \in 0..MaxSetbacks

CreationInit ==
  /\ wanted = {}
  /\ firsts = [q \in NewItems |-> {}]
  /\ creation = [q \in NewItems |-> NoCreation]
  /\ pass = IdlePass /\ request = IdleRequest
  /\ setbacks = 0

-----------------------------------------------------------------------------
(* Subscribers and the replica *)

Want(q) ==
  /\ q \notin wanted
  /\ wanted' = wanted \union {q}
  /\ UNCHANGED <<firsts, creation, pass, request, setbacks>>

Unwant(q) ==
  /\ q \in wanted /\ setbacks < MaxSetbacks
  /\ setbacks' = setbacks + 1
  /\ wanted' = wanted \ {q}
  /\ UNCHANGED <<firsts, creation, pass, request>>

ShowFirst(q, r) ==
  /\ r \in History[q].firsts \ firsts[q]
  /\ firsts' = [firsts EXCEPT ![q] = @ \union {r}]
  /\ UNCHANGED <<wanted, creation, pass, request, setbacks>>

-----------------------------------------------------------------------------
(* The rows *)

EarliestByAnyone(rs) ==
  {[at |-> r.at, by |-> s.by] :
     r \in {t \in rs : \A u \in rs : t.at <= u.at}, s \in rs}

\* Rows come in the order of their times, and the first one of an item stays.
Earliest(rs) == {r \in rs : \A s \in rs : r.at <= s.at}

\* One row for each item of `from` that has first revisions.
Rows(from) ==
  LET items == {q \in NewItems : from[q] # {}}
      chosen == {c \in [items -> FirstRevisions] :
                   \A q \in items : c[q] \in Earliest(from[q])}
  IN {{[item |-> q, first |-> c[q]] : q \in items} : c \in chosen}

\* upsert_creation_metadata_many, whose chunks are committed one by one: what
\* it writes replaces what is there.
Upsert(f) == creation' = [creation EXCEPT ![f.item] = f.first]

-----------------------------------------------------------------------------
(* Subscribed items without a creation *)

LackingOrNot(q) == q \in wanted
Lacking(q) == q \in wanted /\ creation[q] = NoCreation

IsRankedBefore(p, q) ==
  \/ History[p].priority > History[q].priority
  \/ History[p].priority = History[q].priority /\ p < q

Better(q) == {p \in NewItems : Lacking(p) /\ IsRankedBefore(p, q)}

ListTargets ==
  /\ pass.step = "list"
  /\ \E q \in NewItems : Lacking(q)
  /\ pass' = [pass EXCEPT !.step = "fetch",
                          !.targets = {q \in NewItems :
                             Lacking(q) /\ Cardinality(Better(q)) < FetchLimit}]
  /\ UNCHANGED <<wanted, firsts, creation, request, setbacks>>

FetchTargets ==
  /\ pass.step = "fetch"
  /\ \E found \in Rows([q \in NewItems |-> IF q \in pass.targets
                                            THEN firsts[q] ELSE {}]) :
       pass' = IF found = {} THEN IdlePass
               ELSE [pass EXCEPT !.step = "write", !.found = found]
  /\ UNCHANGED <<wanted, firsts, creation, request, setbacks>>

WriteFound(f) ==
  /\ pass.step = "write" /\ f \in pass.found
  /\ Upsert(f)
  /\ pass' = IF pass.found = {f} THEN IdlePass
             ELSE [pass EXCEPT !.found = @ \ {f}]
  /\ UNCHANGED <<wanted, firsts, request, setbacks>>

\* The loop logs the failure and begins again; or another process does.
FailPass ==
  /\ pass.step # "list" /\ setbacks < MaxSetbacks
  /\ setbacks' = setbacks + 1
  /\ pass' = IdlePass
  /\ UNCHANGED <<wanted, firsts, creation, request>>

-----------------------------------------------------------------------------
(* All creations of a user in a window *)

StartRequest(c, from, to) ==
  /\ request.step = "list"
  /\ request' = [request EXCEPT !.step = "fetch", !.revisions =
                   {r \in FirstRevisions : r.by = c /\ r.at >= from /\ r.at < to}]
  /\ UNCHANGED <<wanted, firsts, creation, pass, setbacks>>

FetchUser ==
  /\ request.step = "fetch"
  /\ \E found \in Rows([q \in NewItems |-> firsts[q] \intersect
                                             request.revisions]) :
       request' = IF found = {} THEN IdleRequest
                  ELSE [request EXCEPT !.step = "write", !.found = found]
  /\ UNCHANGED <<wanted, firsts, creation, pass, setbacks>>

WriteUser(f) ==
  /\ request.step = "write" /\ f \in request.found
  /\ Upsert(f)
  /\ request' = IF request.found = {f} THEN IdleRequest
                ELSE [request EXCEPT !.found = @ \ {f}]
  /\ UNCHANGED <<wanted, firsts, pass, setbacks>>

FailRequest ==
  /\ request.step # "list" /\ setbacks < MaxSetbacks
  /\ setbacks' = setbacks + 1
  /\ request' = IdleRequest
  /\ UNCHANGED <<wanted, firsts, creation, pass>>

CreationNext ==
  \/ \E q \in NewItems :
       \/ Want(q) \/ Unwant(q) \/ \E r \in FirstRevisions : ShowFirst(q, r)
  \/ ListTargets \/ FetchTargets \/ FailPass
  \/ \E r, s \in FirstRevisions : StartRequest(r.by, r.at, s.at + 1)
  \/ FetchUser \/ FailRequest
  \/ \E f \in NewRows : WriteFound(f) \/ WriteUser(f)

-----------------------------------------------------------------------------
(* Properties *)

\* Whatever two backfills overwrite of each other, what is stored for an item
\* is a first revision of that item, with its own time and creator.
CreationGenuine ==
  \A q \in NewItems : creation[q] \in firsts[q] \union {NoCreation}

\* The items before it that the replica cannot answer for fill every list.
Starved(q) == Cardinality({p \in Better(q) : firsts[p] = {}}) >= FetchLimit

\* A subscribed item with a first revision on the replica has its creation
\* stored, or is starved.
WantedStored ==
  \A q \in NewItems :
    q \in wanted /\ creation[q] = NoCreation /\ firsts[q] # {} => Starved(q)

CreationSpec == CreationInit /\ [][CreationNext]_creationVars
=============================================================================
