---------------------------- MODULE StoredCopies ----------------------------
(***************************************************************************)
(* What those who read stored versions of documents may take for granted, *)
(* and those who store them must keep: a version is replaced only by one   *)
(* between itself and the newest.  Several may be replaced at once, and    *)
(* none need ever be.                                                      *)
(*                                                                         *)
(* This is where the scan and the content workers meet: the revisions that *)
(* the one records (RecentChanges) tell the others what to refresh         *)
(* (ContentPool).  The rows that the workers write are no such copies, as  *)
(* a replica may lag and an item be deleted (SingleFlight).                *)
(***************************************************************************)
EXTENDS Naturals

CONSTANTS Documents

VARIABLES
  newest,   \* version of each document
  copy      \* version of its stored copy, 0 if there is none

copiesVars == <<newest, copy>>

CopiesInit ==
  /\ newest \in [Documents -> Nat]
  /\ copy = [d \in Documents |-> 0]

Revise(d) ==
  /\ newest' \in [Documents -> Nat] /\ newest'[d] > newest[d]
  /\ newest' = [newest EXCEPT ![d] = newest'[d]]
  /\ UNCHANGED copy

Renew ==
  /\ copy' \in [Documents -> Nat]
  /\ \A d \in Documents : copy[d] <= copy'[d] /\ copy'[d] <= newest[d]
  /\ UNCHANGED newest

CopiesNext == Renew \/ \E d \in Documents : Revise(d)

CopiesSpec == CopiesInit /\ [][CopiesNext]_copiesVars
=============================================================================
