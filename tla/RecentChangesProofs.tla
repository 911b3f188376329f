------------------------ MODULE RecentChangesProofs ------------------------
(***************************************************************************)
(* Safety of two jobs of the recent-changes worker: its scan, for any      *)
(* items, number of changes, page size, lag and rewind; and the histories  *)
(* of users, for any number of requests at once, any days and any clock.   *)
(*                                                                         *)
(* Of the scan:                                                            *)
(* That revisions never go back follows from the maximum each write takes. *)
(* That nothing falls behind the start unrecorded (NoGap) follows, for the *)
(* scan as it is, from a fact its authors did not intend: no time of a row *)
(* is known, so no pass ever starts later than the rewind allows (Stuck).  *)
(* The overlap has no part in the proof; were times known, it would not    *)
(* be enough, whatever the lag, for a pass of several pages.               *)
(***************************************************************************)
EXTENDS RecentChanges, UserHistory, FiniteSetTheorems, WellFoundedInduction, TLAPS

\* The start of a pass and the position saved are never later than the rewind
\* from now, because the newest time seen is that of the start.
Stuck ==
  /\ start <= Before(now, Rewind)
  /\ latest = start
  /\ saved # None => saved <= Before(now, Rewind)

IInv == TypeOK /\ Stuck

-----------------------------------------------------------------------------
(* Lemmas about times and the maximum *)

\* A nonempty set of numbers up to n has its Max as greatest element.
LEMMA Greatest ==
  ASSUME NEW n \in Nat, NEW S \in SUBSET (0..n), S # {}
  PROVE  Max(S) \in S /\ \A y \in S : y <= Max(S)
<1> DEFINE Less == OpToRel(<, Nat)
           Gaps == {n - x : x \in S}
<1>1. \A x \in S : x \in Nat /\ n - x \in Nat
  OBVIOUS
<1>2. Gaps \subseteq Nat /\ Gaps # {}
  BY <1>1
<1>3. PICK g \in Gaps : \A h \in Gaps : ~(<<h, g>> \in Less)
  <2>1. IsWellFoundedOn(Less, Nat)
    BY NatLessThanWellFounded
  <2> HIDE DEF Less, Gaps
  <2> QED
    BY <1>2, <2>1, WFMin
<1>4. \A h \in Gaps : ~(h < g)
  BY <1>2, <1>3 DEF OpToRel
<1>5. PICK x \in S : g = n - x
  OBVIOUS
<1>6. \A y \in S : ~(n - y < n - x)
  BY <1>4, <1>5
<1>7. \A y \in S : y <= x
  <2> TAKE y \in S
  <2>1. ~(n - y < n - x)
    BY <1>6
  <2> HIDE DEF Less, Gaps
  <2> QED
    BY <1>1, <2>1
<1>8. \A y \in S : x >= y
  <2> HIDE DEF Less, Gaps
  <2> QED
    BY <1>1, <1>7
<1>9. Max(S) \in S /\ \A y \in S : Max(S) >= y
  <2> HIDE DEF Less, Gaps
  <2> QED
    BY <1>8 DEF Max
<1> QED
  <2> HIDE DEF Less, Gaps
  <2> QED
    BY <1>1, <1>9

\* Newest keeps a revision or takes a newer one.
LEMMA NewestGrows ==
  ASSUME NEW old \in 0..MaxChanges, NEW S \in SUBSET Ids
  PROVE  /\ Newest(old, S) \in 0..MaxChanges
         /\ old <= Newest(old, S)
         /\ \A i \in S : i <= Newest(old, S)
<1>1. S \union {old} \in SUBSET (0..MaxChanges) /\ S \union {old} # {}
  BY ScanAssumption DEF Ids
<1>2. MaxChanges \in Nat
  BY ScanAssumption
<1>3. /\ Max(S \union {old}) \in S \union {old}
      /\ \A y \in S \union {old} : y <= Max(S \union {old})
  BY <1>1, <1>2, Greatest
<1> QED
  BY <1>1, <1>3 DEF Newest

LEMMA BeforeType ==
  ASSUME NEW t \in Nat, NEW d \in Nat
  PROVE  Before(t, d) \in Nat /\ Before(t, d) <= t
  BY DEF Before

LEMMA BeforeGrows ==
  ASSUME NEW t \in Nat, NEW u \in Nat, t <= u, NEW d \in Nat
  PROVE  Before(t, d) <= Before(u, d)
  BY DEF Before

\* From a position that is no later than the rewind, a pass starts at the
\* rewind.
LEMMA StartIsRewind ==
  ASSUME NEW p \in Times \union {None}, now \in Times,
         p # None => p <= Before(now, Rewind)
  PROVE  /\ StartFrom(p) = Before(now, Rewind)
         /\ StartFrom(p) \in Times
<1>1. MaxTime \in Nat /\ Rewind \in Nat /\ OverlapTime \in Nat /\ None \notin Nat
  BY ScanAssumption
<1>2. now \in Nat /\ now <= MaxTime
  BY <1>1 DEF Times
<1>3. Before(now, Rewind) \in Nat /\ Before(now, Rewind) <= now
  BY <1>1, <1>2, BeforeType
<1>4. Before(now, Rewind) \in Times
  BY <1>1, <1>2, <1>3 DEF Times
<1>5. CASE p = None
  BY <1>4, <1>5 DEF StartFrom
<1>6. CASE p # None
  <2>1. p \in Nat /\ p <= Before(now, Rewind)
    BY <1>1, <1>6 DEF Times
  <2>2. Before(p, OverlapTime) \in Nat /\ Before(p, OverlapTime) <= p
    BY <1>1, <2>1, BeforeType
  <2>3. StartFrom(p) = Later(Before(now, Rewind), Before(p, OverlapTime))
    BY <1>6 DEF StartFrom
  <2> QED
    BY <1>3, <1>4, <2>1, <2>2, <2>3 DEF Later
<1> QED
  BY <1>5, <1>6

-----------------------------------------------------------------------------
(* The invariant *)

LEMMA Establishes == Init => IInv
<1> SUFFICES ASSUME Init PROVE IInv
  OBVIOUS
<1>1. MaxTime \in Nat /\ MaxChanges \in Nat /\ Rewind \in Nat
  BY ScanAssumption
<1>2. TypeOK
  BY <1>1 DEF Init, TypeOK, Made, Times, Ids
<1>3. Before(0, Rewind) = 0
  BY <1>1 DEF Before
<1>4. Stuck
  BY <1>3, ScanAssumption DEF Init, Stuck
<1> QED
  BY <1>2, <1>4 DEF IInv

\* Wikidata and the replica only add changes; time only moves the rewind on.
LEMMA SurroundingsStep ==
  ASSUME IInv,
         \/ Tick
         \/ \E q \in Qids \union {None}, new \in BOOLEAN : Make(q, new)
         \/ \E i \in Ids : Appear(i)
  PROVE  IInv'
<1>1. MaxTime \in Nat /\ MaxChanges \in Nat /\ Rewind \in Nat /\ None \notin Nat
  BY ScanAssumption
<1>2. now \in Nat /\ start \in Nat
  BY <1>1 DEF IInv, TypeOK, Times
<1>3. CASE Tick
  <2>1. now' = now + 1 /\ now < MaxTime
    BY <1>3 DEF Tick
  <2>2. now' \in Times
    BY <1>1, <1>2, <2>1 DEF Times
  <2>3. /\ Before(now, Rewind) \in Nat /\ Before(now', Rewind) \in Nat
        /\ Before(now, Rewind) <= Before(now', Rewind)
    BY <1>1, <1>2, <2>1, BeforeGrows, BeforeType
  <2>4. TypeOK'
    BY <1>3, <2>2 DEF Tick, scan, IInv, TypeOK, Made
  <2>5. Stuck'
    <3>1. start' <= Before(now', Rewind)
      BY <1>2, <1>3, <2>3 DEF Tick, scan, IInv, Stuck
    <3>2. saved # None => saved \in Nat
      BY <1>1 DEF IInv, TypeOK, Times
    <3>3. saved' # None => saved' <= Before(now', Rewind)
      BY <1>3, <2>3, <3>2 DEF Tick, IInv, Stuck
    <3> QED
      BY <1>3, <3>1, <3>3 DEF Tick, scan, IInv, Stuck
  <2> QED
    BY <2>4, <2>5 DEF IInv
<1>4. CASE \E q \in Qids \union {None}, new \in BOOLEAN : Make(q, new)
  <2>1. PICK q \in Qids \union {None}, new \in BOOLEAN : Make(q, new)
    BY <1>4
  <2> DEFINE id == Cardinality(Made) + 1
             made == [at |-> now, qid |-> q, new |-> new]
  <2>2. /\ id \in Ids
        /\ change' = [i \in Made \union {id} |-> IF i = id THEN made ELSE change[i]]
        /\ UNCHANGED <<now, visible, seen, created, saved, scan>>
    BY <2>1 DEF Make
  <2>3. made \in [at : Times, qid : Qids \union {None}, new : BOOLEAN]
    BY DEF IInv, TypeOK
  <2>4. Made' = Made \union {id}
    BY <2>2 DEF Made
  <2>5. \A i \in Made' : change'[i] \in
          [at : Times, qid : Qids \union {None}, new : BOOLEAN]
    <3> HIDE DEF id, made
    <3> QED
      BY <2>2, <2>3, <2>4 DEF IInv, TypeOK
  <2>6. TypeOK'
    <3> HIDE DEF id, made
    <3> QED
      BY <2>2, <2>4, <2>5 DEF IInv, TypeOK, scan
  <2> QED
    BY <2>2, <2>6 DEF IInv, Stuck, scan
<1>5. CASE \E i \in Ids : Appear(i)
  BY <1>5 DEF Appear, scan, IInv, TypeOK, Made, Stuck
<1> QED
  BY <1>3, <1>4, <1>5

\* What Begin leaves when the position is no later than the rewind.
LEMMA BeginsStuck ==
  ASSUME IInv, NEW p \in Times \union {None},
         p # None => p <= Before(now, Rewind),
         Begin(p), UNCHANGED <<now, change, visible, seen, created>>,
         saved' \in {saved, p}
  PROVE  IInv'
<1>1. now \in Times
  BY DEF IInv, TypeOK
<1>2. StartFrom(p) = Before(now, Rewind) /\ StartFrom(p) \in Times
  BY <1>1, StartIsRewind
<1>3. Before(now, Rewind) \in Nat
  BY <1>1, BeforeType, ScanAssumption DEF Times
<1>4. TypeOK'
  BY <1>2, ScanAssumption DEF Begin, IInv, TypeOK, Made
<1>5. Stuck'
  BY <1>2, <1>3 DEF Begin, IInv, Stuck
<1> QED
  BY <1>4, <1>5 DEF IInv

\* A page moves the cursor to a row of it, and the newest time seen nowhere,
\* as no time is known.
LEMMA FetchStep ==
  ASSUME IInv, Fetch
  PROVE  IInv'
<1>1. \A S \in SUBSET Made : Known(S) = {}
  BY DEF Known, TimeKnown
<1>2. PICK page \in SUBSET visible :
        /\ read' = read \union Items(page)
        /\ latest' = Max(Known(Items(page)) \union {latest})
        /\ \/ UNCHANGED <<at, after>>
           \/ \E last \in Items(page) : at' = change[last].at /\ after' = last
        /\ pc' \in {"revids", "fetch"}
  BY DEF Fetch
<1>3. visible \subseteq Made /\ Items(page) \subseteq Made /\ Made \subseteq Ids
  BY DEF IInv, TypeOK, Items
<1>4. latest \in Nat
  BY ScanAssumption DEF IInv, TypeOK, Times
<1>5. latest' = latest
  <2>1. Known(Items(page)) = {}
    BY <1>1, <1>3
  <2>2. {latest} \in SUBSET (0..latest) /\ {latest} # {}
    BY <1>4
  <2>3. Max({latest}) \in {latest}
    BY <1>4, <2>2, Greatest
  <2>4. Known(Items(page)) \union {latest} = {latest}
    BY <2>1
  <2> QED
    BY <1>2, <2>3, <2>4
<1>6. at' \in Times /\ after' \in 0..MaxChanges
  <2>1. CASE UNCHANGED <<at, after>>
    BY <2>1 DEF IInv, TypeOK
  <2>2. CASE \E last \in Items(page) : at' = change[last].at /\ after' = last
    <3>1. PICK last \in Items(page) : at' = change[last].at /\ after' = last
      BY <2>2
    <3>2. last \in Made /\ last \in 1..MaxChanges
      BY <1>3, <3>1 DEF Ids
    <3>3. change[last].at \in Times
      BY <3>2 DEF IInv, TypeOK
    <3> QED
      BY <3>1, <3>2, <3>3, ScanAssumption
  <2> QED
    BY <1>2, <2>1, <2>2
<1>7. TypeOK'
  BY <1>2, <1>3, <1>5, <1>6 DEF Fetch, IInv, TypeOK, Made
<1> QED
  BY <1>5, <1>7 DEF Fetch, IInv, Stuck

LEMMA PassStep ==
  ASSUME IInv, Pass \/ Fails \/ Restart
  PROVE  IInv'
<1>1. CASE Load
  BY <1>1, BeginsStuck DEF Load, IInv, TypeOK, Stuck
<1>2. CASE Fetch
  BY <1>2, FetchStep
<1>3. CASE WriteRevids
  <2>1. \A q \in Qids : RevidsOf(q) \in SUBSET Ids /\ seen[q] \in 0..MaxChanges
    BY DEF IInv, TypeOK, RevidsOf
  <2>2. \A q \in Qids : Newest(seen[q], RevidsOf(q)) \in 0..MaxChanges
    BY <2>1, NewestGrows
  <2>3. seen' \in [Qids -> 0..MaxChanges]
    BY <1>3, <2>2 DEF WriteRevids
  <2>4. TypeOK'
    BY <1>3, <2>3 DEF WriteRevids, IInv, TypeOK, Made
  <2> QED
    BY <1>3, <2>4 DEF WriteRevids, IInv, Stuck
<1>4. CASE WriteCreations
  <2>1. Creations = {}
    BY DEF Creations, TimeKnown
  <2>2. created' = created
    BY <1>4, <2>1 DEF WriteCreations
  <2> QED
    BY <1>4, <2>2 DEF WriteCreations, IInv, TypeOK, Made, Stuck
<1>5. CASE Save
  <2>1. latest \in Times /\ latest <= Before(now, Rewind)
    BY DEF IInv, TypeOK, Stuck
  <2> QED
    BY <1>5, <2>1, BeginsStuck DEF Save
<1>6. CASE Fails
  BY <1>6, ScanAssumption DEF Fails, IInv, TypeOK, Made, Stuck
<1>7. CASE Restart
  <2>1. 0 <= Before(now, Rewind) /\ 0 \in Times
    BY BeforeType, ScanAssumption DEF IInv, TypeOK, Times
  <2> QED
    BY <1>7, <2>1, ScanAssumption DEF Restart, IInv, TypeOK, Made, Stuck
<1> QED
  BY <1>1, <1>2, <1>3, <1>4, <1>5, <1>6, <1>7 DEF Pass

LEMMA Preserves == IInv /\ [Next]_vars => IInv'
<1> SUFFICES ASSUME IInv, [Next]_vars PROVE IInv'
  OBVIOUS
<1>1. CASE UNCHANGED vars
  BY <1>1 DEF vars, scan, IInv, TypeOK, Made, Stuck
<1> QED
  BY <1>1, SurroundingsStep, PassStep DEF Next

\* The inductive invariant holds in every reachable state of the scan.
THEOREM Invariance == Spec => []IInv
  BY Establishes, Preserves, PTL DEF Spec

\* Positions stay times, and recorded revisions those of changes made.
THEOREM TypeCorrect == Spec => []TypeOK
<1>1. IInv => TypeOK
  BY DEF IInv
<1> QED
  BY Invariance, <1>1, PTL

\* No pass starts later than the rewind from now: the position a pass saves
\* is the one it started from.
THEOREM PositionStuck == Spec => []Stuck
<1>1. IInv => Stuck
  BY DEF IInv
<1> QED
  BY Invariance, <1>1, PTL

\* A change that has appeared and is not recorded is a day old, or lies where
\* this pass and the next will read.
THEOREM NothingFallsBehind == Spec => []NoGap
<1>1. IInv => NoGap
  <2> SUFFICES ASSUME IInv, NEW i \in Items(visible),
                      ~(change[i].at < Before(now, Rewind))
               PROVE  /\ change[i].at >= StartFrom(saved)
                      /\ change[i].at >= start
    BY DEF NoGap, TooOld
  <2>1. i \in Made /\ change[i].at \in Nat
    BY ScanAssumption DEF IInv, TypeOK, Items, Times
  <2>2. StartFrom(saved) = Before(now, Rewind)
    BY StartIsRewind DEF IInv, TypeOK, Stuck
  <2>3. Before(now, Rewind) \in Nat /\ start \in Nat
    BY BeforeType, ScanAssumption DEF IInv, TypeOK, Times
  <2> QED
    BY <2>1, <2>2, <2>3 DEF IInv, Stuck
<1> QED
  BY Invariance, <1>1, PTL

\* No write sets the recorded revision of an item back, however passes
\* overlap, fail and are repeated.
THEOREM RevisionsNeverGoBack == Spec => SeenNeverRegresses
<1>1. IInv /\ [Next]_vars => [\A q \in Qids : seen'[q] >= seen[q]]_vars
  <2> SUFFICES ASSUME IInv, Next, NEW q \in Qids
               PROVE  seen'[q] >= seen[q]
    OBVIOUS
  <2>1. seen[q] \in 0..MaxChanges /\ RevidsOf(q) \in SUBSET Ids
    BY DEF IInv, TypeOK, RevidsOf
  <2>2. CASE WriteRevids
    <3>1. seen'[q] = Newest(seen[q], RevidsOf(q))
      BY <2>2 DEF WriteRevids
    <3>2. /\ Newest(seen[q], RevidsOf(q)) \in 0..MaxChanges
          /\ seen[q] <= Newest(seen[q], RevidsOf(q))
      BY <2>1, NewestGrows
    <3> QED
      BY <2>1, <3>1, <3>2
  <2>3. CASE UNCHANGED seen
    BY <2>1, <2>3
  <2> QED
    BY <2>2, <2>3
    DEF Next, Tick, Make, Appear, Pass, Load, Fetch, WriteCreations, Save,
        Fails, Restart
<1> QED
  BY Invariance, <1>1, PTL DEF Spec, SeenNeverRegresses

-----------------------------------------------------------------------------
(* Recorded revisions are the items' own *)

OwnChanges(q) == {i \in Made : change[i].qid = q}

\* Changes are numbered without gaps, a pass reads changes that were made, and
\* no item has a recorded revision that is newer than its last change.
Recording ==
  /\ Made = 1 .. Cardinality(Made)
  /\ read \subseteq Made
  /\ \A q \in Qids : seen[q] <= LastRevid[q]

RInv == IInv /\ Recording

LEMMA NewestIsOne ==
  ASSUME NEW old \in 0..MaxChanges, NEW S \in SUBSET Ids
  PROVE  Newest(old, S) \in S \union {old}
<1>1. S \union {old} \in SUBSET (0..MaxChanges) /\ S \union {old} # {}
  BY ScanAssumption DEF Ids
<1>2. MaxChanges \in Nat
  BY ScanAssumption
<1> QED
  BY <1>1, <1>2, Greatest DEF Newest

\* The last of some changes is not older than any of them, and is one of them
\* if there are any.
LEMMA LastOfSome ==
  ASSUME NEW S \in SUBSET Ids
  PROVE  /\ Newest(0, S) \in Nat
         /\ Newest(0, S) \in S \union {0}
         /\ \A i \in S : i <= Newest(0, S)
<1>1. 0 \in 0..MaxChanges /\ MaxChanges \in Nat
  BY ScanAssumption
<1> QED
  BY <1>1, NewestGrows, NewestIsOne

LEMMA LastIsLast ==
  ASSUME IInv, NEW q \in Qids
  PROVE  /\ LastRevid[q] \in Nat
         /\ LastRevid[q] \in OwnChanges(q) \union {0}
         /\ \A i \in OwnChanges(q) : i <= LastRevid[q]
<1>1. OwnChanges(q) \in SUBSET Ids
  BY DEF OwnChanges, IInv, TypeOK
<1>2. LastRevid[q] = Newest(0, OwnChanges(q))
  BY DEF LastRevid, OwnChanges
<1> QED
  BY <1>1, <1>2, LastOfSome

LEMMA LastRevidType ==
  ASSUME IInv
  PROVE  LastRevid \in [Qids -> Nat] /\ seen \in [Qids -> Nat]
<1>1. MaxChanges \in Nat
  BY ScanAssumption
<1>2. \A q \in Qids : LastRevid[q] \in Nat
  BY <1>1, LastIsLast
<1>3. LastRevid \in [Qids -> Nat]
  BY <1>2 DEF LastRevid
<1> QED
  BY <1>1, <1>3 DEF IInv, TypeOK

\* What a write records is what was recorded, or a change of the item.
LEMMA WriteRecords ==
  ASSUME RInv, IInv', WriteRevids, NEW q \in Qids
  PROVE  /\ seen[q] <= seen'[q]
         /\ seen'[q] <= LastRevid[q]
<1>1. seen'[q] = Newest(seen[q], RevidsOf(q))
  BY DEF WriteRevids
<1>2. seen[q] \in 0..MaxChanges /\ RevidsOf(q) \in SUBSET Ids
  BY DEF RInv, IInv, TypeOK, RevidsOf
<1>3. /\ seen'[q] \in RevidsOf(q) \union {seen[q]}
      /\ seen[q] <= seen'[q]
  BY <1>1, <1>2, NewestGrows, NewestIsOne
<1>4. RevidsOf(q) \subseteq OwnChanges(q)
  BY DEF RInv, Recording, RevidsOf, OwnChanges
<1>5. \A i \in RevidsOf(q) \union {seen[q]} : i <= LastRevid[q]
  BY <1>4, LastIsLast DEF RInv, Recording
<1> QED
  BY <1>3, <1>5

\* A change made gets the next number, and is the last of its item.
LEMMA MakeRevises ==
  ASSUME RInv, IInv', NEW r \in Qids \union {None}, NEW new \in BOOLEAN,
         Make(r, new)
  PROVE  /\ Recording'
         /\ \A q \in Qids \ {r} : LastRevid'[q] = LastRevid[q]
         /\ r \in Qids => LastRevid'[r] > LastRevid[r]
<1> DEFINE id == Cardinality(Made) + 1
           made == [at |-> now, qid |-> r, new |-> new]
<1>1. /\ id \in Ids
      /\ change' = [i \in Made \union {id} |-> IF i = id THEN made ELSE change[i]]
      /\ seen' = seen /\ read' = read
  BY DEF Make, scan
<1>2. made.qid = r
  OBVIOUS
<1> HIDE DEF made
<1>3. Made = 1 .. Cardinality(Made) /\ Cardinality(Made) \in Nat
  <2>1. MaxChanges \in Nat /\ Made \in SUBSET (1..MaxChanges)
    BY ScanAssumption DEF RInv, IInv, TypeOK, Ids
  <2>2. 1 \in Int /\ MaxChanges \in Int
    BY <2>1
  <2>3. IsFiniteSet(1..MaxChanges)
    BY <2>2, FS_Interval
  <2>4. IsFiniteSet(Made)
    BY <2>1, <2>3, FS_Subset
  <2> QED
    BY <2>4, FS_CardinalityType DEF RInv, Recording
<1>4. Made' = Made \union {id}
  BY <1>1 DEF Made
<1>5. /\ Made' = 1 .. id /\ id \in Nat
      /\ \A i \in Made : i < id
  BY <1>3, <1>4
<1>6. Cardinality(Made') = id
  <2>1. 1 \in Int /\ id \in Int /\ ~(1 > id)
    BY <1>3
  <2>2. Cardinality(1 .. id) = id - 1 + 1
    BY <2>1, FS_Interval
  <2> QED
    BY <1>5, <2>2
<1>7. 0 < id
  BY <1>3
<1> HIDE DEF id
<1>8. /\ \A q \in Qids \ {r} : OwnChanges(q)' = OwnChanges(q)
      /\ OwnChanges(r)' = OwnChanges(r) \union {id}
  <2>1. \A i \in Made : change'[i] = change[i]
    BY <1>1, <1>5
  <2>2. change'[id].qid = r
    BY <1>1, <1>2
  <2> QED
    BY <1>4, <2>1, <2>2 DEF OwnChanges
<1>9. \A q \in Qids : /\ LastRevid'[q] = Newest(0, OwnChanges(q)')
                      /\ LastRevid[q] = Newest(0, OwnChanges(q))
                      /\ OwnChanges(q)' \in SUBSET Ids
  BY DEF LastRevid, OwnChanges, IInv, TypeOK
<1>10. \A q \in Qids : LastRevid[q] \in Nat /\ LastRevid'[q] \in Nat
  BY <1>9, LastOfSome, LastIsLast DEF RInv
<1>11. \A q \in Qids \ {r} : LastRevid'[q] = LastRevid[q]
  BY <1>8, <1>9
<1>12. ASSUME r \in Qids PROVE LastRevid'[r] > LastRevid[r]
  <2>1. id <= LastRevid'[r]
    BY <1>8, <1>12, <1>9, LastOfSome
  <2>2. LastRevid[r] < id
    <3>1. LastRevid[r] \in OwnChanges(r) \union {0}
      BY <1>12, LastIsLast DEF RInv
    <3>2. 0 < id /\ \A i \in OwnChanges(r) : i < id
      BY <1>5, <1>7 DEF OwnChanges
    <3> QED
      BY <3>1, <3>2
  <2> QED
    BY <1>5, <1>12, <1>10, <2>1, <2>2
<1>13. \A q \in Qids : seen'[q] <= LastRevid'[q]
  <2>1. \A q \in Qids : /\ seen[q] \in Nat /\ LastRevid[q] \in Nat
                        /\ LastRevid'[q] \in Nat
    BY <1>10 DEF RInv, IInv, TypeOK
  <2> QED
    BY <1>1, <1>11, <1>12, <2>1 DEF RInv, Recording
<1>14. read' \subseteq Made'
  BY <1>1, <1>4 DEF RInv, Recording
<1> QED
  BY <1>5, <1>6, <1>11, <1>12, <1>13, <1>14 DEF Recording

LEMMA RecordingStarts == Init => Recording
<1> SUFFICES ASSUME Init PROVE Recording
  OBVIOUS
<1>1. Made = {} /\ Cardinality({}) = 0
  BY FS_EmptySet DEF Init, Made
<1>2. \A q \in Qids : seen[q] = 0 /\ LastRevid[q] \in Nat
  <2>1. IInv
    BY Establishes
  <2> QED
    BY <2>1, LastIsLast DEF Init
<1>3. Made = 1 .. Cardinality(Made)
  BY <1>1
<1> QED
  BY <1>2, <1>3 DEF Recording, Init

\* Nothing else makes a change, and only a write of revisions records any.
LEMMA RecordingStep ==
  ASSUME RInv, IInv', [Next]_vars
  PROVE  /\ Recording'
         /\ [Published!CopiesNext]_(Published!copiesVars)
<1>1. ASSUME change' = change
      PROVE  /\ Made' = Made /\ LastRevid' = LastRevid
             /\ Cardinality(Made') = Cardinality(Made)
  BY <1>1 DEF Made, LastRevid
<1>2. ASSUME NEW r \in Qids \union {None}, NEW new \in BOOLEAN, Make(r, new)
      PROVE  /\ Recording'
             /\ [Published!CopiesNext]_(Published!copiesVars)
  <2>1. Recording'
    BY <1>2, MakeRevises
  <2>2. LastRevid \in [Qids -> Nat] /\ LastRevid' \in [Qids -> Nat]
    <3>1. \A q \in Qids : OwnChanges(q)' \in SUBSET Ids
      BY DEF OwnChanges, IInv, TypeOK
    <3>2. LastRevid' = [q \in Qids |-> Newest(0, OwnChanges(q)')]
      BY DEF LastRevid, OwnChanges
    <3>3. LastRevid' \in [Qids -> Nat]
      BY <3>1, <3>2, LastOfSome
    <3> QED
      BY <3>3, LastRevidType DEF RInv
  <2>3. seen' = seen
    BY <1>2 DEF Make
  <2>4. CASE r \in Qids
    <3>1. LastRevid' = [LastRevid EXCEPT ![r] = LastRevid'[r]]
      BY <1>2, <2>2, <2>4, MakeRevises
    <3>2. Published!Revise(r)
      BY <1>2, <2>2, <2>3, <2>4, <3>1, MakeRevises DEF Published!Revise
    <3> QED
      BY <2>1, <2>4, <3>2 DEF Published!CopiesNext
  <2>5. CASE r = None
    <3>1. \A q \in Qids : LastRevid'[q] = LastRevid[q]
      BY <1>2, <2>5, MakeRevises, ScanAssumption
    <3>2. LastRevid' = LastRevid
      BY <2>2, <3>1
    <3> QED
      BY <2>1, <2>3, <3>2 DEF Published!copiesVars
  <2> QED
    BY <2>4, <2>5
<1>3. CASE WriteRevids
  <2>1. change' = change /\ read' = read
    BY <1>3 DEF WriteRevids
  <2>2. seen' \in [Qids -> Nat]
    BY ScanAssumption DEF IInv, TypeOK
  <2>3. Published!Renew
    BY <1>1, <1>3, <2>1, <2>2, WriteRecords DEF Published!Renew
  <2>4. Recording'
    BY <1>1, <1>3, <2>1, WriteRecords DEF RInv, Recording
  <2> QED
    BY <2>3, <2>4 DEF Published!CopiesNext
<1>4. ASSUME change' = change, seen' = seen, read' \subseteq Made
      PROVE  /\ Recording'
             /\ [Published!CopiesNext]_(Published!copiesVars)
  BY <1>1, <1>4 DEF RInv, Recording, Published!copiesVars
<1>5. CASE Fetch
  <2>1. read' \subseteq read \union visible
    BY <1>5 DEF Fetch, Items
  <2> QED
    BY <1>4, <1>5, <2>1 DEF Fetch, RInv, Recording, IInv, TypeOK
<1>6. CASE \/ Tick \/ \E i \in Ids : Appear(i)
           \/ Load \/ WriteCreations \/ Save \/ Fails \/ Restart
           \/ UNCHANGED vars
  <2>1. change' = change /\ seen' = seen
    BY <1>6 DEF Tick, Appear, Load, WriteCreations, Save, Fails, Restart, vars
  <2>2. read' = read \/ read' = {}
    BY <1>6 DEF Tick, Appear, Load, Begin, WriteCreations, Save, Fails,
                Restart, vars, scan
  <2> QED
    BY <1>4, <2>1, <2>2 DEF RInv, Recording
<1> QED
  BY <1>2, <1>3, <1>5, <1>6 DEF Next, Pass

\* What a pass records for an item (upsert_recent_changes_last_revids) is a
\* revision of that item, no older than the one recorded: however late changes
\* appear, and however passes overlap and fail, the scan keeps what StoredCopies
\* promises the content workers.
THEOREM ScanRecordsRevisions == Spec => RecordsRevisions
<1>1. Init => Published!CopiesInit
  <2> SUFFICES ASSUME Init PROVE Published!CopiesInit
    OBVIOUS
  <2>1. IInv
    BY Establishes
  <2> QED
    BY <2>1, LastRevidType DEF Init, Published!CopiesInit
<1>2. RInv /\ IInv' /\ [Next]_vars
        => Recording' /\ [Published!CopiesNext]_(Published!copiesVars)
  BY RecordingStep
<1>3. Init => RInv
  BY Establishes, RecordingStarts DEF RInv
<1>4. RInv /\ [Next]_vars => RInv' /\ [Published!CopiesNext]_(Published!copiesVars)
  BY <1>2, Preserves DEF RInv
<1> QED
  BY <1>1, <1>3, <1>4, PTL DEF Spec, RecordsRevisions, Published!CopiesSpec

-----------------------------------------------------------------------------
(* The user histories *)

(***************************************************************************)
(* A row becomes finished in one place only, and what the worker writes    *)
(* there is the window it listed, however often the row was replaced since. *)
(* So the strengthening speaks of the worker: between its store and its    *)
(* finish, the window it listed is stored.                                 *)
(***************************************************************************)
Backed ==
  /\ wpc \in {"start", "fetch", "store", "finish", "fail"} => rec # NoRow
  /\ wpc = "finish" => DaysOf(rec) \subseteq stored

\* A client about to write knows what it was asked.
Asking == \A c \in Clients : cpc[c] # "idle" => asked[c] # NoRow

HistoryInv == HistoryTypeOK /\ Backed /\ Asking /\ FinishedBacked

LEMMA SecondType ==
  ASSUME NEW t \in Nat
  PROVE  Second(t) \in Nat
<1> DEFINE n == TicksPerSecond
<1>1. n \in Nat \ {0}
  BY HistoryAssumption
<1>2. \A k \in Nat \ {0} : t \div k \in Nat
  BY SMT
<1>3. t \div n \in Nat
  BY <1>1, <1>2
<1>4. \A a, b \in Nat : a * b \in Nat
  BY SMT
<1> QED
  BY <1>1, <1>3, <1>4 DEF Second

\* The hull of two windows of days is a window of days.
LEMMA WidenedType ==
  ASSUME NEW w \in Questions,
         NEW r \in Record \union {NoRow}
  PROVE  /\ Widened(w, r).lo \in 1..Days
         /\ Widened(w, r).hi \in 1..Days
<1>1. Days \in Nat
  BY HistoryAssumption
<1>2. CASE r = NoRow
  BY <1>1, <1>2 DEF Widened, Questions
<1>3. CASE r # NoRow
  <2>1. r \in Record
    BY <1>3
  <2> QED
    BY <1>1, <1>3, <2>1 DEF Widened, Smaller, Larger, Record, Questions
<1> QED
  BY <1>2, <1>3

LEMMA HistoryEstablishes == HistoryInit => HistoryInv
<1> SUFFICES ASSUME HistoryInit PROVE HistoryInv
  OBVIOUS
<1>1. HistoryTypeOK
  BY HistoryAssumption DEF HistoryInit, HistoryTypeOK
<1> QED
  BY <1>1 DEF HistoryInit, HistoryInv, Backed, Asking, FinishedBacked

\* What a request does leaves the worker alone, and the row it writes is not
\* finished.
LEMMA RequestStep ==
  ASSUME HistoryInv, NEW c \in Clients,
         \/ \E w \in Windows, force \in BOOLEAN : Ask(c, w, force)
         \/ Read(c) \/ Write(c) \/ GiveUp(c)
  PROVE  HistoryInv'
<1> USE DEF HistoryInv
<1>1. CASE \E w \in Windows, force \in BOOLEAN : Ask(c, w, force)
  <2>1. PICK w \in Windows, force \in BOOLEAN : Ask(c, w, force)
    BY <1>1
  <2>2. [lo |-> w.lo, hi |-> w.hi, force |-> force]
          \in Questions
    BY DEF Windows, Questions
  <2>3. HistoryTypeOK'
    BY <2>1, <2>2 DEF Ask, HistoryTypeOK
  <2>4. Asking'
    BY <2>1, <2>2, HistoryAssumption DEF Ask, Asking, HistoryTypeOK
  <2>5. Backed' /\ FinishedBacked'
    BY <2>1 DEF Ask, Backed, FinishedBacked
  <2> QED
    BY <2>3, <2>4, <2>5
<1>2. CASE Read(c)
  <2>1. HistoryTypeOK'
    BY <1>2 DEF Read, HistoryTypeOK
  <2>2. Asking'
    BY <1>2 DEF Read, Asking, HistoryTypeOK
  <2>3. Backed' /\ FinishedBacked'
    BY <1>2 DEF Read, Backed, FinishedBacked
  <2> QED
    BY <2>1, <2>2, <2>3
<1>3. CASE Write(c)
  <2>1. asked[c] \in Questions
    BY <1>3 DEF Write, Asking, HistoryTypeOK
  <2>2. got[c] \in Record \union {NoRow}
    BY DEF HistoryTypeOK
  <2> DEFINE w == Widened(asked[c], got[c])
  <2>3. w.lo \in 1..Days /\ w.hi \in 1..Days
    BY <2>1, <2>2, WidenedType
  <2>4. hist' = [lo |-> w.lo, hi |-> w.hi, requested |-> tick, finished |-> 0,
                 error |-> FALSE]
    BY <1>3 DEF Write
  <2>5. hist' \in Record
    BY <2>3, <2>4 DEF Record, HistoryTypeOK
  <2>6. DaysOf(asked[c]) \subseteq 1..Days
    BY <2>1, HistoryAssumption DEF DaysOf, Questions
  <2>7. tick' \in Nat \ {0}
    BY <1>3 DEF Write, HistoryTypeOK
  <2>8. lost' \in BOOLEAN
    BY <1>3, Zenon DEF Write, Replaces, HistoryTypeOK
  <2>9. HistoryTypeOK'
    BY <1>3, <2>5, <2>6, <2>7, <2>8 DEF Write, HistoryTypeOK
  <2>10. Asking'
    BY <1>3 DEF Write, Asking, HistoryTypeOK
  <2>11. Backed' /\ FinishedBacked'
    BY <1>3, <2>4 DEF Write, Backed, FinishedBacked
  <2> QED
    BY <2>9, <2>10, <2>11
<1>4. CASE GiveUp(c)
  BY <1>4 DEF GiveUp, HistoryTypeOK, Asking, Backed, FinishedBacked
<1> QED
  BY <1>1, <1>2, <1>3, <1>4

\* The worker stores the window it listed before it writes it as finished; an
\* error is written as an error.
LEMMA WorkerStep ==
  ASSUME HistoryInv, Backfill \/ Raise \/ WorkerDies
  PROVE  HistoryInv'
<1> USE DEF HistoryInv
<1>1. CASE List
  <2>1. rec' \in Record /\ rec' # NoRow
    BY <1>1, HistoryAssumption DEF List, HistoryTypeOK
  <2> QED
    BY <1>1, <2>1 DEF List, HistoryTypeOK, Asking, Backed, FinishedBacked
<1>2. CASE Start
  <2>1. rec \in Record
    BY <1>2 DEF Start, Backed, HistoryTypeOK
  <2>2. StartedRow \in Record /\ StartedRow.finished = 0
    BY <2>1 DEF StartedRow, Record
  <2>3. lost' \in BOOLEAN
    BY <1>2, Zenon DEF Start, Replaces, HistoryTypeOK
  <2>4. HistoryTypeOK'
    BY <1>2, <2>1, <2>2, <2>3 DEF Start, HistoryTypeOK
  <2> QED
    BY <1>2, <2>2, <2>4 DEF Start, Asking, Backed, FinishedBacked
<1>3. CASE FetchCreations
  BY <1>3 DEF FetchCreations, HistoryTypeOK, Asking, Backed, FinishedBacked
<1>4. CASE Store
  <2>1. rec \in Record
    BY <1>4 DEF Store, Backed, HistoryTypeOK
  <2>2. DaysOf(rec) \subseteq 1..Days
    BY <2>1, HistoryAssumption DEF DaysOf, Record
  <2>3. stored' = stored \union DaysOf(rec)
    BY <1>4 DEF Store, StoreWindow
  <2>4. HistoryTypeOK'
    BY <1>4, <2>2, <2>3 DEF Store, HistoryTypeOK
  <2>5. Backed' /\ FinishedBacked'
    BY <1>4, <2>3 DEF Store, Backed, FinishedBacked
  <2> QED
    BY <1>4, <2>4, <2>5 DEF Store, Asking
<1>5. CASE Finish
  <2>1. rec \in Record /\ DaysOf(rec) \subseteq stored
    BY <1>5 DEF Finish, Backed, HistoryTypeOK
  <2>2. Second(tick) \in Nat
    BY SecondType DEF HistoryTypeOK
  <2>3. hist' = [rec EXCEPT !.finished = Second(tick), !.error = FALSE]
    BY <1>5 DEF Finish
  <2>4. hist' \in Record /\ hist'.lo = rec.lo /\ hist'.hi = rec.hi
    BY <2>1, <2>2, <2>3 DEF Record
  <2>5. lost' \in BOOLEAN
    BY <1>5, Zenon DEF Finish, Replaces, HistoryTypeOK
  <2>6. HistoryTypeOK'
    BY <1>5, <2>4, <2>5 DEF Finish, Idle, HistoryTypeOK
  <2>7. FinishedBacked'
    BY <1>5, <2>1, <2>4 DEF Finish, FinishedBacked, DaysOf
  <2> QED
    BY <1>5, <2>6, <2>7 DEF Finish, Idle, Asking, Backed
<1>6. CASE RecordError
  <2>1. rec \in Record
    BY <1>6 DEF RecordError, Backed, HistoryTypeOK
  <2>2. Second(tick) \in Nat
    BY SecondType DEF HistoryTypeOK
  <2>3. CASE hist' = [rec EXCEPT !.finished = Second(tick), !.error = TRUE]
             /\ lost' = (lost \/ hist \notin {rec, StartedRow})
    <3>1. hist' \in Record /\ hist'.error
      BY <2>1, <2>2, <2>3 DEF Record
    <3>2. lost' \in BOOLEAN
      BY <2>3, Zenon DEF HistoryTypeOK
    <3>3. HistoryTypeOK'
      BY <1>6, <3>1, <3>2 DEF RecordError, Idle, HistoryTypeOK
    <3> QED
      BY <1>6, <3>1, <3>3
      DEF RecordError, Idle, Asking, Backed, FinishedBacked
  <2>4. CASE UNCHANGED <<hist, lost>>
    BY <1>6, <2>4
    DEF RecordError, Idle, HistoryTypeOK, Asking, Backed, FinishedBacked
  <2> QED
    BY <1>6, <2>3, <2>4 DEF RecordError
<1>7. CASE Raise
  BY <1>7 DEF Raise, HistoryTypeOK, Asking, Backed, FinishedBacked
<1>8. CASE WorkerDies
  BY <1>8 DEF WorkerDies, Idle, HistoryTypeOK, Asking, Backed, FinishedBacked
<1> QED
  BY <1>1, <1>2, <1>3, <1>4, <1>5, <1>6, <1>7, <1>8 DEF Backfill

LEMMA HistoryPreserves == HistoryInv /\ [HistoryNext]_historyVars => HistoryInv'
<1> SUFFICES ASSUME HistoryInv, [HistoryNext]_historyVars PROVE HistoryInv'
  OBVIOUS
<1>1. CASE HistoryTick
  BY <1>1 DEF HistoryTick, HistoryInv, HistoryTypeOK, Asking, Backed, FinishedBacked
<1>2. CASE Clear
  BY <1>2 DEF Clear, HistoryInv, HistoryTypeOK, Asking, Backed, FinishedBacked
<1>3. CASE \E c \in Clients :
             \/ \E w \in Windows, force \in BOOLEAN : Ask(c, w, force)
             \/ Request(c) \/ GiveUp(c)
  BY <1>3, RequestStep DEF Request
<1>4. CASE Backfill \/ Raise \/ WorkerDies
  BY <1>4, WorkerStep
<1>5. CASE UNCHANGED historyVars
  BY <1>5 DEF historyVars, HistoryInv, HistoryTypeOK, Asking, Backed, FinishedBacked
<1> QED
  BY <1>1, <1>2, <1>3, <1>4, <1>5 DEF HistoryNext

\* The inductive invariant holds in every reachable state of requests and the
\* worker.
THEOREM HistoryInvariance == HistorySpec => []HistoryInv
  BY HistoryEstablishes, HistoryPreserves, PTL DEF HistorySpec

\* Windows stay within the days, and the worker's place is one of its places.
THEOREM HistoryTypeCorrect == HistorySpec => []HistoryTypeOK
<1>1. HistoryInv => HistoryTypeOK
  BY DEF HistoryInv
<1> QED
  BY HistoryInvariance, <1>1, PTL

\* A row that says finished without an error has its whole window stored, for
\* any number of requests that write over the job's row.
THEOREM FinishedIsBacked == HistorySpec => []FinishedBacked
<1>1. HistoryInv => FinishedBacked
  BY DEF HistoryInv
<1> QED
  BY HistoryInvariance, <1>1, PTL
=============================================================================
