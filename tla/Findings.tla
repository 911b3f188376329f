------------------------------ MODULE Findings ------------------------------
(***************************************************************************)
(* What an evaluation of an item may find, and what is stored of it.       *)
(*                                                                         *)
(* wbgetentities answers with the newest revision of a page.  Of a page    *)
(* that redirects it answers with the target, so the row gets the revision *)
(* that the replica has of the page itself.  That may be an older one, and *)
(* only then is a redirect told apart from another page here.  (A pool to  *)
(* which no replica is configured would store the target's; that is left   *)
(* out.)  A deleted item has no revision.                                  *)
(***************************************************************************)
EXTENDS Naturals

\* No answer; no row.
Nothing == [kind |-> "none", rev |-> 0]
Gone == [kind |-> "gone", rev |-> 0]
Page(r) == [kind |-> "page", rev |-> r]
LateRedirect(r) == [kind |-> "late", rev |-> r]

Finding == [kind : {"none", "gone", "page", "late"}, rev : Nat]

\* What may be found while r is the newest revision.  How far the replica has
\* come is not kept: any older revision may have been a redirect and be there.
Answers(r) == {Gone, Page(r)} \union {LateRedirect(s) : s \in 1 .. r - 1}
=============================================================================
