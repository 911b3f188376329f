---------------------------- MODULE SingleFlight ----------------------------
(***************************************************************************)
(* What a pool that refreshes the stored copies of documents promises,     *)
(* whatever it queues, batches and repeats to keep the promise: a document *)
(* is taken before it is fetched; while something found of it is in the    *)
(* air nobody fetches it again; and a copy is replaced only by what was    *)
(* found, which comes down with it, or is dropped.                         *)
(*                                                                         *)
(* A document is found as it is, or gone, or as somebody else has it who   *)
(* may lag behind.  Nothing FlightNext does compares one with another.     *)
(* That a copy overtakes nothing all the same, and seldom goes back, are   *)
(* consequences (ContentPoolProofs, CopiesNeverRegress).                   *)
(***************************************************************************)
EXTENDS Findings

CONSTANTS Documents

VARIABLES
  newest,   \* version of each document
  copy,     \* its stored copy, what was once found of it
  taken,    \* documents the pool has taken
  flying    \* pairs of a document and what was found of it

flightVars == <<newest, copy, taken, flying>>

FlightInit ==
  /\ newest = [d \in Documents |-> 1]
  /\ copy = [d \in Documents |-> Nothing]
  /\ taken = {} /\ flying = {}

Revise(d) ==
  /\ newest' = [newest EXCEPT ![d] = @ + 1]
  /\ UNCHANGED <<copy, taken, flying>>

Take(S) ==
  /\ S \intersect taken = {}
  /\ taken' = taken \union S
  /\ UNCHANGED <<newest, copy, flying>>

Fetch(S) ==
  /\ S \subseteq taken
  /\ \A f \in flying : f[1] \notin S
  /\ \E found \in [S -> UNION {Answers(newest[d]) : d \in S}] :
       /\ \A d \in S : found[d] \in Answers(newest[d])
       /\ flying' = flying \union {<<d, found[d]>> : d \in S}
  /\ UNCHANGED <<newest, copy, taken>>

FoundOf(S, d) == {f[2] : f \in {g \in S : g[1] = d}}

\* Of what comes down, S is stored and the rest is lost.
Land(S, down) ==
  /\ S \subseteq down
  /\ flying' = flying \ down
  /\ copy' = [d \in Documents |-> IF FoundOf(S, d) = {} THEN copy[d]
                                 ELSE CHOOSE f \in FoundOf(S, d) : TRUE]
  /\ UNCHANGED <<newest, taken>>

LetGo(S) ==
  /\ taken' = taken \ S
  /\ flying' = {f \in flying : f[1] \notin S}
  /\ UNCHANGED <<newest, copy>>

FlightNext ==
  \/ \E d \in Documents : Revise(d)
  \/ \E S \in SUBSET Documents : Take(S) \/ Fetch(S) \/ LetGo(S)
  \/ \E down \in SUBSET flying : \E S \in SUBSET down : Land(S, down)

FlightSpec == FlightInit /\ [][FlightNext]_flightVars

\* What follows from taking turns: of each document at most one finding is in
\* the air, and when that is the document itself, no copy is newer.
FlightInv ==
  /\ newest \in [Documents -> Nat \ {0}]
  /\ copy \in [Documents -> Finding]
  /\ \A d \in Documents : copy[d].rev <= newest[d]
  /\ flying \subseteq Documents \X Finding
  /\ \A f \in flying :
       /\ f[2].kind # "none" /\ f[2].rev <= newest[f[1]]
       /\ f[2].kind = "page" => copy[f[1]].rev <= f[2].rev
  /\ \A f, g \in flying : f[1] = g[1] => f = g

\* A copy that is replaced leaves nothing in the air that was found earlier, so
\* an unconditional write does what a compare-and-swap would.
Overtakes ==
  \A d \in Documents : copy'[d] # copy[d] => \A f \in flying' : f[1] # d

NothingOvertaken == [][Overtakes]_flightVars

\* A copy goes back to an older version only if somebody who lags behind was
\* asked, or the document is gone.
Onwards ==
  \A d \in Documents :
    copy'[d].rev < copy[d].rev => copy'[d].kind \in {"late", "gone"}

CopyNeverRegresses == [][Onwards]_flightVars
=============================================================================
