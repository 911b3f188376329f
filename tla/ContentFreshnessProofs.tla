---------------------- MODULE ContentFreshnessProofs ----------------------
(***************************************************************************)
(* Safety of the selection of stale content, for any items, any clock and  *)
(* any number of revisions.                                                *)
(*                                                                         *)
(* None of the properties is inductive: they speak of rows only, and a row *)
(* is what an evaluation found some time before.  The strengthening says   *)
(* of a row and of an evaluation under way alike what is known of a        *)
(* finding once the page, the replica and the rows of other items may have *)
(* moved on (Sound).                                                       *)
(***************************************************************************)
EXTENDS ContentFreshness, TLAPS

\* A finding f about item q: nothing happened to the page's existence since,
\* unless the log says so; its revision is the page's, or an older one; and a
\* row of its target that was written before it was fetched is no newer than
\* what it was judged by.
Sound(q, f) ==
  /\ f.at <= now
  /\ f.gone => f.rev = 0 /\ f.target = None
  /\ log[q] < f.at => (f.gone <=> page[q].gone)
  /\ f.rev <= page[q].rev
  /\ f.rev = page[q].rev => f.target = page[q].target
  /\ \A t \in Qids :
       f.target = t /\ row[t] # None /\ ~row[t].gone /\ row[t].upd < f.at
         => row[t].rev <= f.basis

\* Only a live page has a revision in its row.
Stored(q) ==
  row[q] # None =>
    /\ Sound(q, row[q])
    /\ row[q].upd < now
    /\ ~row[q].gone => row[q].rev # 0

UnderWay(q) ==
  job[q] # None =>
    /\ Sound(q, job[q])
    /\ job[q].verified /\ ~job[q].gone => job[q].rev # 0
    /\ ~job[q].verified => job[q].rev = 0 /\ ~job[q].gone

\* The replica shows the page or an earlier revision of it, and the log lies
\* in the past.
Surroundings(q) ==
  /\ replica[q].rev <= page[q].rev
  /\ replica[q].rev = page[q].rev => replica[q].target = page[q].target
  /\ log[q] < now

IInv ==
  /\ TypeOK
  /\ \A q \in Qids : Surroundings(q) /\ Stored(q) /\ UnderWay(q)

-----------------------------------------------------------------------------
(* Lemmas *)

\* Truncating to seconds gives a time again.
LEMMA SecondType ==
  ASSUME NEW t \in Nat
  PROVE  Second(t) \in Nat
<1>1. TicksPerSecond \in Nat \ {0}
  BY FreshnessAssumption
<1>2. \A k \in Nat \ {0} : t \div k \in Nat
  BY SMT
<1>3. t \div TicksPerSecond \in Nat
  BY <1>1, <1>2
<1>4. \A a, b \in Nat : a * b \in Nat
  BY SMT
<1> QED
  BY <1>1, <1>3, <1>4 DEF Second

\* What the parts of a state are.
LEMMA Parts ==
  ASSUME TypeOK, NEW q \in Qids
  PROVE  /\ now \in Nat /\ log[q] \in Nat /\ policy \in Nat
         /\ seen[q] \in Nat /\ events[q] \in Nat
         /\ page[q] \in Page
         /\ page[q].rev \in Nat /\ page[q].rev >= 1 /\ page[q].gone \in BOOLEAN
         /\ row[q] # None =>
              /\ row[q] \in Row
              /\ row[q].at \in Nat /\ row[q].rev \in Nat
              /\ row[q].basis \in Nat /\ row[q].upd \in Nat
              /\ row[q].gone \in BOOLEAN /\ row[q].target \in Targets
         /\ job[q] # None =>
              /\ job[q] \in Finding
              /\ job[q].at \in Nat /\ job[q].rev \in Nat
              /\ job[q].basis \in Nat
              /\ job[q].gone \in BOOLEAN /\ job[q].verified \in BOOLEAN
              /\ job[q].target \in Targets
<1>1. MaxRevid \in Nat \ {0}
  BY FreshnessAssumption
<1>2. row[q] # None => row[q] \in Row
  BY DEF TypeOK
<1>3. job[q] # None => job[q] \in Finding
  BY DEF TypeOK
<1>4. page[q] \in Page
  BY DEF TypeOK
<1>5. now \in Nat /\ log[q] \in Nat /\ policy \in Nat
      /\ seen[q] \in 0..MaxRevid /\ events[q] \in Nat
  BY DEF TypeOK
<1> QED
  BY <1>1, <1>2, <1>3, <1>4, <1>5 DEF Row, Finding, Page

LEMMA Establishes == Init => IInv
<1> SUFFICES ASSUME Init PROVE IInv
  OBVIOUS
<1>1. TicksPerSecond \in Nat \ {0} /\ MaxRevid \in Nat \ {0} /\ Alone \in Qids
  BY FreshnessAssumption
<1>2. TypeOK
  BY <1>1 DEF Init, TypeOK, Page, Targets
<1>3. \A q \in Qids : Surroundings(q) /\ Stored(q) /\ UnderWay(q)
  <2>1. now \in Nat /\ now > 0
    BY <1>1 DEF Init
  <2>2. \A q \in Qids :
          /\ replica[q].rev = 1 /\ replica[q].target = None
          /\ page[q].rev = 1 /\ page[q].target = None
          /\ log[q] = 0 /\ row[q] = None /\ job[q] = None
    BY DEF Init
  <2>3. \A q \in Qids : Stored(q) /\ UnderWay(q)
    BY <2>2 DEF Stored, UnderWay
  <2>4. ASSUME NEW q \in Qids
        PROVE  Surroundings(q)
    <3>1. /\ replica[q].rev = 1 /\ page[q].rev = 1
          /\ replica[q].target = page[q].target
          /\ log[q] = 0
      BY <2>2
    <3> QED
      BY <2>1, <3>1 DEF Surroundings
  <2> QED
    BY <2>3, <2>4
<1> QED
  BY <1>2, <1>3 DEF IInv

-----------------------------------------------------------------------------
(* The actions, one lemma each *)

\* Time passes, or a monitor or an operator writes: findings are as sound as
\* before.
LEMMA QuietStep ==
  ASSUME IInv, now' \in Nat, now <= now',
         UNCHANGED <<subscribed, page, replica, log, row, job>>,
         seen' \in [Qids -> 0..MaxRevid], events' \in [Qids -> Nat],
         policy' \in Nat
  PROVE  IInv'
<1>1. now' \in Nat \ {0}
  BY DEF IInv, TypeOK
<1>2. TypeOK'
  BY <1>1 DEF IInv, TypeOK
<1>3. ASSUME NEW q \in Qids
      PROVE  (Surroundings(q) /\ Stored(q) /\ UnderWay(q))'
  <2>1. Surroundings(q) /\ Stored(q) /\ UnderWay(q)
    BY DEF IInv
  <2>2. Surroundings(q)'
    BY <2>1, Parts DEF Surroundings, IInv
  <2>3. Stored(q)'
    BY <2>1, Parts DEF Stored, Sound, IInv
  <2>4. UnderWay(q)'
    BY <2>1, Parts DEF UnderWay, Sound, IInv
  <2> QED
    BY <2>2, <2>3, <2>4
<1> QED
  BY <1>2, <1>3 DEF IInv

LEMMA MonitorStep ==
  ASSUME IInv, NEW q \in Qids,
         Tick \/ SetPolicy \/ RecordChange(q) \/ RecordEvent(q)
  PROVE  IInv'
<1>1. now \in Nat /\ policy \in Nat
  BY DEF IInv, TypeOK
<1>2. CASE Tick
  BY <1>1, <1>2, QuietStep DEF Tick, external, IInv, TypeOK
<1>3. CASE SetPolicy
  BY <1>1, <1>3, QuietStep DEF SetPolicy, external, IInv, TypeOK
<1>4. CASE RecordChange(q)
  <2>1. page[q].rev \in 0..MaxRevid
    BY FreshnessAssumption DEF IInv, TypeOK, Page
  <2>2. seen' \in [Qids -> 0..MaxRevid]
    BY <1>4, <2>1 DEF RecordChange, IInv, TypeOK
  <2> QED
    BY <1>1, <1>4, <2>2, QuietStep DEF RecordChange, external, IInv, TypeOK
<1>5. CASE RecordEvent(q)
  <2>1. Second(log[q]) \in Nat
    BY SecondType, Parts DEF IInv
  <2>2. events' \in [Qids -> Nat]
    BY <1>5, <2>1 DEF RecordEvent, IInv, TypeOK
  <2> QED
    BY <1>1, <1>5, <2>2, QuietStep DEF RecordEvent, external, IInv, TypeOK
<1> QED
  BY <1>2, <1>3, <1>4, <1>5

\* An edit makes findings older, never wrong of a newer revision.
LEMMA EditStep ==
  ASSUME IInv, NEW q \in Qids, NEW target \in Targets, Edit(q, target)
  PROVE  IInv'
<1>1. /\ page' = [page EXCEPT ![q].rev = page[q].rev + 1, ![q].target = target]
      /\ page[q].rev < MaxRevid
      /\ UNCHANGED <<subscribed, now, replica, log, seen, events, policy, row,
                     job>>
  BY DEF Edit
<1>2. page \in [Qids -> Page] /\ MaxRevid \in Nat
  BY FreshnessAssumption DEF IInv, TypeOK
<1>3. \A s \in Qids :
        page'[s] = IF s = q
                   THEN [page[q] EXCEPT !.rev = page[q].rev + 1, !.target = target]
                   ELSE page[s]
  BY <1>1, <1>2
<1>4. page[q].rev \in Nat /\ page[q].rev >= 1
  BY <1>2 DEF Page
<1>5. [page[q] EXCEPT !.rev = page[q].rev + 1, !.target = target] \in Page
  <2>1. page[q].rev + 1 \in 1..MaxRevid
    BY <1>1, <1>2, <1>4
  <2>2. page[q] \in Page
    BY <1>2
  <2> QED
    BY <2>1, <2>2 DEF Page
<1>6. page' \in [Qids -> Page]
  BY <1>1, <1>2, <1>3, <1>5
<1>7. TypeOK'
  BY <1>1, <1>6 DEF IInv, TypeOK
<1>8. ASSUME NEW s \in Qids
      PROVE  /\ page'[s].gone = page[s].gone
             /\ \/ page'[s] = page[s]
                \/ page'[s].rev = page[s].rev + 1
  BY <1>2, <1>3 DEF Page
<1>9. ASSUME NEW s \in Qids
      PROVE  (Surroundings(s) /\ Stored(s) /\ UnderWay(s))'
  <2>1. Surroundings(s) /\ Stored(s) /\ UnderWay(s)
    BY DEF IInv
  <2>2. page[s].rev \in Nat /\ replica[s].rev \in Nat
    BY <1>2 DEF Page, IInv, TypeOK
  <2>3. Surroundings(s)'
    <3>1. CASE page'[s] = page[s]
      BY <1>1, <2>1, <3>1 DEF Surroundings
    <3>2. CASE page'[s].rev = page[s].rev + 1
      BY <1>1, <2>1, <2>2, <3>2 DEF Surroundings
    <3> QED
      BY <1>8, <3>1, <3>2
  <2>4. \A f : Sound(s, f) /\ f.rev \in Nat => Sound(s, f)'
    <3> SUFFICES ASSUME NEW f, Sound(s, f), f.rev \in Nat
                 PROVE  Sound(s, f)'
      OBVIOUS
    <3>1. CASE page'[s] = page[s]
      BY <1>1, <3>1 DEF Sound
    <3>2. CASE page'[s].rev = page[s].rev + 1
      <4>1. f.rev <= page'[s].rev /\ f.rev # page'[s].rev
        BY <2>2, <3>2 DEF Sound
      <4>2. page'[s].gone = page[s].gone
        BY <1>8
      <4> QED
        BY <1>1, <4>1, <4>2 DEF Sound
    <3> QED
      BY <1>8, <3>1, <3>2
  <2>5. Stored(s)' /\ UnderWay(s)'
    <3>1. row[s] # None => row[s].rev \in Nat
      BY Parts DEF IInv
    <3>2. job[s] # None => job[s].rev \in Nat
      BY Parts DEF IInv
    <3>3. Stored(s)'
      BY <1>1, <2>1, <2>4, <3>1 DEF Stored, Sound
    <3>4. job[s] # None => Sound(s, job[s])'
      BY <1>1, <2>1, <2>4, <3>2 DEF UnderWay, Sound
    <3>5. UnderWay(s)'
      BY <1>1, <2>1, <3>4 DEF UnderWay
    <3> QED
      BY <3>3, <3>5
  <2> QED
    BY <2>3, <2>5
<1> QED
  BY <1>7, <1>9 DEF IInv

\* A deletion or restoration gets a time at which no finding is older.
LEMMA DeleteStep ==
  ASSUME IInv, NEW q \in Qids, DeleteOrRestore(q)
  PROVE  IInv'
<1>1. /\ page' = [page EXCEPT ![q].gone = ~page[q].gone]
      /\ log' = [log EXCEPT ![q] = now]
      /\ now' = now + 1
      /\ UNCHANGED <<subscribed, replica, seen, events, policy, row, job>>
  BY DEF DeleteOrRestore
<1>2. page \in [Qids -> Page] /\ log \in [Qids -> Nat] /\ now \in Nat \ {0}
  BY DEF IInv, TypeOK
<1>3. ASSUME NEW s \in Qids
      PROVE  /\ page'[s] \in Page
             /\ page'[s].rev = page[s].rev /\ page'[s].target = page[s].target
             /\ s # q => page'[s] = page[s] /\ log'[s] = log[s]
             /\ s = q => log'[s] = now
  BY <1>1, <1>2 DEF Page
<1>4. page' \in [Qids -> Page] /\ log' \in [Qids -> Nat]
  BY <1>1, <1>2, <1>3
<1>5. TypeOK'
  BY <1>1, <1>2, <1>4 DEF IInv, TypeOK
<1>6. ASSUME NEW s \in Qids
      PROVE  (Surroundings(s) /\ Stored(s) /\ UnderWay(s))'
  <2>1. Surroundings(s) /\ Stored(s) /\ UnderWay(s)
    BY DEF IInv
  <2>2. Surroundings(s)'
    BY <1>1, <1>2, <1>3, <2>1, Parts DEF Surroundings, IInv
  <2>3. Stored(s)'
    BY <1>1, <1>2, <1>3, <2>1, Parts DEF Stored, Sound, IInv
  <2>4. UnderWay(s)'
    BY <1>1, <1>2, <1>3, <2>1, Parts DEF UnderWay, Sound, IInv
  <2> QED
    BY <2>2, <2>3, <2>4
<1> QED
  BY <1>5, <1>6 DEF IInv

LEMMA CatchUpStep ==
  ASSUME IInv, NEW q \in Qids, CatchUp(q)
  PROVE  IInv'
<1> DEFINE current == [rev |-> page[q].rev, target |-> page[q].target]
<1>1. /\ replica' = [replica EXCEPT ![q] = current]
      /\ UNCHANGED <<subscribed, now, page, log, seen, events, policy, row, job>>
  BY DEF CatchUp
<1>2. current \in [rev : 1..MaxRevid, target : Targets]
  BY DEF IInv, TypeOK, Page
<1>3. TypeOK'
  <2> HIDE DEF current
  <2> QED
    BY <1>1, <1>2 DEF IInv, TypeOK
<1>4. ASSUME NEW s \in Qids
      PROVE  (Surroundings(s) /\ Stored(s) /\ UnderWay(s))'
  <2>1. Surroundings(s) /\ Stored(s) /\ UnderWay(s)
    BY DEF IInv
  <2>2. replica'[s] = IF s = q THEN current ELSE replica[s]
    <3> HIDE DEF current
    <3> QED
      BY <1>1 DEF IInv, TypeOK
  <2>3. Surroundings(s)'
    BY <1>1, <2>1, <2>2, Parts DEF Surroundings, IInv
  <2>4. Stored(s)' /\ UnderWay(s)'
    BY <1>1, <2>1 DEF Stored, UnderWay, Sound
  <2> QED
    BY <2>3, <2>4
<1> QED
  BY <1>3, <1>4 DEF IInv

LEMMA ResetStep ==
  ASSUME IInv, ResetContent
  PROVE  IInv'
<1>1. /\ row' = [q \in Qids |-> None]
      /\ UNCHANGED <<subscribed, now, external, seen, events, policy, job>>
  BY DEF ResetContent
<1>2. TypeOK'
  BY <1>1 DEF external, IInv, TypeOK
<1>3. \A q \in Qids : (Surroundings(q) /\ Stored(q) /\ UnderWay(q))'
  BY <1>1 DEF external, IInv, Surroundings, Stored, UnderWay, Sound
<1> QED
  BY <1>2, <1>3 DEF IInv

-----------------------------------------------------------------------------
(* The evaluation *)

\* The evaluation of q changes and nothing else does: what is left to show is
\* that the new finding is sound.
LEMMA JobStep ==
  ASSUME IInv, NEW q \in Qids, NEW f \in Finding \union {None},
         job' = [job EXCEPT ![q] = f],
         UNCHANGED <<subscribed, now, external, seen, events, policy, row>>,
         f # None => /\ Sound(q, f)
                     /\ f.verified /\ ~f.gone => f.rev # 0
                     /\ ~f.verified => f.rev = 0 /\ ~f.gone
  PROVE  IInv'
<1>1. job \in [Qids -> Finding \union {None}]
  BY DEF IInv, TypeOK
<1>2. \A s \in Qids : job'[s] = IF s = q THEN f ELSE job[s]
  BY <1>1
<1>3. job' \in [Qids -> Finding \union {None}]
  BY <1>1
<1>4. TypeOK'
  BY <1>3 DEF external, IInv, TypeOK
<1>5. ASSUME NEW s \in Qids
      PROVE  (Surroundings(s) /\ Stored(s) /\ UnderWay(s))'
  <2>1. Surroundings(s)' /\ Stored(s)'
    BY DEF external, IInv, Surroundings, Stored, Sound
  <2>2. CASE s # q
    BY <1>2, <2>1, <2>2 DEF external, IInv, UnderWay, Sound
  <2>3. CASE s = q
    BY <1>2, <2>1, <2>3 DEF external, UnderWay, Sound
  <2> QED
    BY <2>1, <2>2, <2>3
<1> QED
  BY <1>4, <1>5 DEF IInv

\* What is fetched is the page as it is: of a redirect its target, whose row
\* no write has made newer than the page.
LEMMA FetchStep ==
  ASSUME IInv, NEW q \in Qids, Fetch(q)
  PROVE  IInv'
<1>1. /\ now \in Nat /\ log[q] < now /\ MaxRevid \in Nat \ {0}
      /\ page[q] \in Page /\ page[q].rev \in 1..MaxRevid
  BY FreshnessAssumption DEF IInv, TypeOK, Surroundings, Page
<1>2. None \notin Qids
  BY FreshnessAssumption
<1>3. CASE page[q].gone /\ Found(q, TRUE, 0, None, 0, TRUE)
  <2> DEFINE f == [at |-> now, gone |-> TRUE, rev |-> 0, target |-> None,
                   basis |-> 0, verified |-> TRUE]
  <2>1. f \in Finding
    BY <1>1 DEF Finding, Targets
  <2>2. Sound(q, f)
    BY <1>1, <1>2, <1>3 DEF Sound
  <2>3. job' = [job EXCEPT ![q] = f]
    BY <1>3 DEF Found
  <2>4. f.verified /\ f.gone
    OBVIOUS
  <2> HIDE DEF f
  <2> QED
    BY <2>1, <2>2, <2>3, <2>4, JobStep DEF Fetch
<1>4. CASE /\ ~page[q].gone /\ page[q].target = None
           /\ Found(q, FALSE, page[q].rev, None, page[q].rev, TRUE)
  <2> DEFINE f == [at |-> now, gone |-> FALSE, rev |-> page[q].rev,
                   target |-> None, basis |-> page[q].rev, verified |-> TRUE]
  <2>1. f \in Finding
    BY <1>1 DEF Finding, Targets
  <2>2. Sound(q, f)
    BY <1>1, <1>2, <1>4 DEF Sound
  <2>3. job' = [job EXCEPT ![q] = f]
    BY <1>4 DEF Found
  <2>4. f.verified /\ f.rev # 0
    BY <1>1
  <2> HIDE DEF f
  <2> QED
    BY <2>1, <2>2, <2>3, <2>4, JobStep DEF Fetch
<1>5. CASE /\ ~page[q].gone /\ page[q].target # None
           /\ Found(q, FALSE, 0, page[q].target, page[page[q].target].rev, FALSE)
  <2> DEFINE t == page[q].target
             f == [at |-> now, gone |-> FALSE, rev |-> 0, target |-> t,
                   basis |-> page[t].rev, verified |-> FALSE]
  <2>1. t \in Qids
    BY <1>1, <1>5 DEF Page, Targets
  <2>2. page[t].rev \in 1..MaxRevid
    BY <2>1 DEF IInv, TypeOK, Page
  <2>3. f \in Finding
    BY <1>1, <2>1, <2>2 DEF Finding, Targets
  <2>4. row[t] # None => row[t].rev <= page[t].rev
    BY <2>1 DEF IInv, Stored, Sound
  <2>5. f.at = now /\ ~f.gone /\ f.rev = 0 /\ f.target = t
        /\ f.basis = page[t].rev /\ ~f.verified
    OBVIOUS
  <2>6. job' = [job EXCEPT ![q] = f]
    BY <1>5 DEF Found
  <2> HIDE DEF f
  <2>7. Sound(q, f)
    BY <1>1, <1>5, <2>1, <2>4, <2>5 DEF Sound
  <2> QED
    BY <2>3, <2>5, <2>6, <2>7, JobStep DEF Fetch
<1> QED
  BY <1>3, <1>4, <1>5 DEF Fetch

\* A verified redirect gets the revision at which the replica knew it.
LEMMA VerifyStep ==
  ASSUME IInv, NEW q \in Qids, Verify(q)
  PROVE  IInv'
<1> DEFINE f == [job[q] EXCEPT !.rev = replica[q].rev, !.verified = TRUE]
<1>1. job[q] \in Finding /\ replica[q].rev \in 1..MaxRevid
  BY DEF Verify, IInv, TypeOK
<1>2. f \in Finding
  <2>1. replica[q].rev \in 0..MaxRevid
    BY <1>1, FreshnessAssumption
  <2> QED
    BY <1>1, <2>1 DEF Finding
<1>3. /\ f.at = job[q].at /\ f.gone = job[q].gone /\ f.target = job[q].target
      /\ f.basis = job[q].basis /\ f.rev = replica[q].rev /\ f.verified
  BY <1>1 DEF Finding
<1>4. job' = [job EXCEPT ![q] = f]
  BY <1>1 DEF Verify, IInv, TypeOK
<1> HIDE DEF f
<1>5. job[q] # None /\ ~job[q].verified /\ replica[q].target = job[q].target
  BY DEF Verify
<1>6. Surroundings(q) /\ Sound(q, job[q]) /\ ~job[q].gone
  BY <1>5 DEF IInv, UnderWay
<1>7. f.rev # 0
  BY <1>1, <1>3
<1>8. Sound(q, f)
  BY <1>3, <1>5, <1>6 DEF Sound, Surroundings
<1> QED
  BY <1>2, <1>3, <1>4, <1>7, <1>8, JobStep DEF Verify

\* What is written is the finding, with the time of the write: later than
\* every fetch, so that no finding has yet seen this row.
LEMMA StoreStep ==
  ASSUME IInv, NEW q \in Qids, Store(q)
  PROVE  IInv'
<1> DEFINE new == [at |-> job[q].at, gone |-> job[q].gone, rev |-> job[q].rev,
                   target |-> job[q].target, basis |-> job[q].basis,
                   upd |-> now]
<1>1. /\ job[q] # None /\ job[q].verified
      /\ now' = now + 1
      /\ row' = [row EXCEPT ![q] = new]
      /\ job' = [job EXCEPT ![q] = None]
      /\ UNCHANGED <<subscribed, page, replica, log, seen, events, policy>>
  BY DEF Store, external
<1>2. job[q] \in Finding /\ now \in Nat \ {0}
  BY <1>1 DEF IInv, TypeOK
<1>3. new \in Row
  BY <1>2 DEF Finding, Row
<1>4. /\ new.at = job[q].at /\ new.gone = job[q].gone
      /\ new.rev = job[q].rev /\ new.target = job[q].target
      /\ new.basis = job[q].basis /\ new.upd = now
  OBVIOUS
<1> HIDE DEF new
<1>5. \A s \in Qids : /\ row'[s] = IF s = q THEN new ELSE row[s]
                      /\ job'[s] = IF s = q THEN None ELSE job[s]
  BY <1>1 DEF IInv, TypeOK
<1>6. row' \in [Qids -> Row \union {None}]
      /\ job' \in [Qids -> Finding \union {None}]
  BY <1>1, <1>3 DEF IInv, TypeOK
<1>7. TypeOK'
  BY <1>1, <1>2, <1>6 DEF IInv, TypeOK
<1>8. ASSUME NEW s \in Qids, NEW f, Sound(s, f), f.at \in Nat
      PROVE  /\ f.at <= now + 1
             /\ \A t \in Qids :
                  f.target = t /\ row'[t] # None /\ ~row'[t].gone
                  /\ row'[t].upd < f.at => row'[t].rev <= f.basis
  <2>1. f.at <= now
    BY <1>8 DEF Sound
  <2>2. ASSUME NEW t \in Qids, f.target = t, row'[t] # None, ~row'[t].gone,
               row'[t].upd < f.at
        PROVE  row'[t].rev <= f.basis
    <3>1. CASE t = q
      BY <1>2, <1>4, <1>5, <1>8, <2>1, <2>2, <3>1
    <3>2. CASE t # q
      BY <1>5, <1>8, <2>2, <3>2 DEF Sound
    <3> QED
      BY <3>1, <3>2
  <2> QED
    BY <1>2, <1>8, <2>1, <2>2
<1>9. ASSUME NEW s \in Qids
      PROVE  (Surroundings(s) /\ Stored(s) /\ UnderWay(s))'
  <2>1. Surroundings(s) /\ Stored(s) /\ UnderWay(s) /\ UnderWay(q)
    BY DEF IInv
  <2>2. Surroundings(s)'
    BY <1>1, <1>2, <2>1, Parts DEF Surroundings, IInv
  <2>3. CASE s = q
    <3>1. Sound(q, job[q]) /\ job[q].at \in Nat
      BY <1>1, <2>1, Parts DEF UnderWay, IInv
    <3>2. /\ job[q].at <= now + 1
          /\ \A t \in Qids :
               job[q].target = t /\ row'[t] # None /\ ~row'[t].gone
               /\ row'[t].upd < job[q].at => row'[t].rev <= job[q].basis
      BY <1>8, <3>1
    <3>3. row'[q] = new /\ job'[q] = None
      BY <1>5
    <3>4. Sound(q, row[q])'
      BY <1>1, <1>4, <3>1, <3>2, <3>3 DEF Sound
    <3>5. ~new.gone => new.rev # 0
      BY <1>1, <1>4, <2>1 DEF UnderWay
    <3>6. Stored(q)'
      BY <1>1, <1>2, <1>4, <3>3, <3>4, <3>5 DEF Stored
    <3> QED
      BY <2>2, <2>3, <3>3, <3>6 DEF UnderWay
  <2>4. CASE s # q
    <3>1. row'[s] = row[s] /\ job'[s] = job[s]
      BY <1>5, <2>4
    <3>2. row[s] # None => Sound(s, row[s])'
      <4> SUFFICES ASSUME row[s] # None PROVE Sound(s, row[s])'
        OBVIOUS
      <4>1. Sound(s, row[s]) /\ row[s].at \in Nat
        BY <2>1, Parts DEF Stored, IInv
      <4>2. /\ row[s].at <= now + 1
            /\ \A t \in Qids :
                 row[s].target = t /\ row'[t] # None /\ ~row'[t].gone
                 /\ row'[t].upd < row[s].at => row'[t].rev <= row[s].basis
        BY <1>8, <4>1
      <4> QED
        BY <1>1, <3>1, <4>1, <4>2 DEF Sound
    <3>3. job[s] # None => Sound(s, job[s])'
      <4> SUFFICES ASSUME job[s] # None PROVE Sound(s, job[s])'
        OBVIOUS
      <4>1. Sound(s, job[s]) /\ job[s].at \in Nat
        BY <2>1, Parts DEF UnderWay, IInv
      <4>2. /\ job[s].at <= now + 1
            /\ \A t \in Qids :
                 job[s].target = t /\ row'[t] # None /\ ~row'[t].gone
                 /\ row'[t].upd < job[s].at => row'[t].rev <= job[s].basis
        BY <1>8, <4>1
      <4> QED
        BY <1>1, <3>1, <4>1, <4>2 DEF Sound
    <3>4. Stored(s)'
      BY <1>1, <1>2, <2>1, <3>1, <3>2, Parts DEF Stored, IInv
    <3>5. UnderWay(s)'
      BY <2>1, <3>1, <3>3 DEF UnderWay
    <3> QED
      BY <2>2, <3>4, <3>5
  <2> QED
    BY <2>3, <2>4
<1> QED
  BY <1>7, <1>9 DEF IInv

LEMMA Preserves == IInv /\ [Next]_vars => IInv'
<1> SUFFICES ASSUME IInv, [Next]_vars PROVE IInv'
  OBVIOUS
<1>1. subscribed \subseteq Qids
  BY DEF IInv, TypeOK
<1>2. CASE Tick \/ SetPolicy
  BY <1>2, MonitorStep, FreshnessAssumption
<1>3. CASE ResetContent
  BY <1>3, ResetStep
<1>4. ASSUME NEW q \in subscribed, NEW target \in subscribed \union {None},
             Edit(q, target)
      PROVE  IInv'
  BY <1>1, <1>4, EditStep DEF Targets
<1>5. ASSUME NEW q \in subscribed,
             \/ DeleteOrRestore(q) \/ CatchUp(q)
             \/ RecordChange(q) \/ RecordEvent(q)
             \/ Fetch(q) \/ Verify(q) \/ Abandon(q) \/ Store(q)
      PROVE  IInv'
  <2>1. q \in Qids
    BY <1>1
  <2>2. CASE Abandon(q)
    BY <2>1, <2>2, JobStep DEF Abandon
  <2> QED
    BY <1>5, <2>1, <2>2, DeleteStep, CatchUpStep, MonitorStep, FetchStep,
       VerifyStep, StoreStep
<1>6. CASE UNCHANGED vars
  <2>1. TypeOK'
    BY <1>6 DEF vars, external, IInv, TypeOK
  <2>2. \A q \in Qids : (Surroundings(q) /\ Stored(q) /\ UnderWay(q))'
    BY <1>6 DEF vars, external, IInv, Surroundings, Stored, UnderWay, Sound
  <2> QED
    BY <2>1, <2>2 DEF IInv
<1> QED
  BY <1>2, <1>3, <1>4, <1>5, <1>6 DEF Next

\* The inductive invariant holds in every reachable state of pages, monitors
\* and evaluations.
THEOREM Invariance == Spec => []IInv
  BY Establishes, Preserves, PTL DEF Spec

\* Revisions stay within those of the pages, and rows and findings keep their
\* fields.
THEOREM TypeCorrect == Spec => []TypeOK
<1>1. IInv => TypeOK
  BY DEF IInv
<1> QED
  BY Invariance, <1>1, PTL

-----------------------------------------------------------------------------
(* What the queries make of a row *)

\* A row that is not of a deleted page has a revision, so all queries ask the
\* same about it.
LEMMA LiveRow ==
  ASSUME IInv, NEW q \in Qids, row[q] # None, ~row[q].gone
  PROVE  /\ ~NeverEvaluated(q)
         /\ OldRevision(q) <=> row[q].rev < seen[q]
  BY DEF IInv, Stored, NeverEvaluated, OldRevision

\* Once the monitors have caught up, a row that is wrong about its page is a
\* candidate, unless a deletion or restoration raced with its evaluation.
THEOREM ChangesAreNoticed == Spec => []ChangeNoticed
<1>1. IInv => ChangeNoticed
  <2> SUFFICES ASSUME IInv, NEW q \in subscribed, Settled(q), ~Raced(q)
               PROVE  Accurate(q) \/ Candidate(q)
    BY DEF ChangeNoticed
  <2>1. q \in Qids
    BY DEF IInv, TypeOK
  <2>2. CASE row[q] = None
    BY <2>2 DEF Candidate, NeverEvaluated
  <2>3. CASE row[q] # None /\ log[q] < row[q].at
    <3>1. /\ row[q].gone <=> page[q].gone
          /\ row[q].rev <= page[q].rev
          /\ row[q].rev = page[q].rev => row[q].target = page[q].target
      BY <2>1, <2>3 DEF IInv, Stored, Sound
    <3>2. row[q].gone \in BOOLEAN /\ page[q].gone \in BOOLEAN
      BY <2>1, <2>3, Parts DEF IInv
    <3>3. row[q].gone = page[q].gone
      BY <3>1, <3>2
    <3>4. CASE page[q].gone \/ row[q].rev = page[q].rev
      BY <2>3, <3>1, <3>3, <3>4 DEF Accurate
    <3>5. CASE ~page[q].gone /\ row[q].rev # page[q].rev
      <4>1. row[q].rev < seen[q]
        <5>1. row[q].rev \in Nat /\ page[q].rev \in Nat
          BY <2>1, <2>3, Parts DEF IInv
        <5> QED
          BY <3>1, <3>5, <5>1 DEF Settled
      <4>2. OldRevision(q)
        BY <2>1, <2>3, <3>1, <3>5, <4>1, LiveRow
      <4> QED
        BY <2>3, <3>1, <3>5, <4>2 DEF Candidate
    <3> QED
      BY <3>4, <3>5
  <2>4. CASE row[q] # None /\ ~(log[q] < row[q].at)
    <3>1. /\ row[q].at \in Nat /\ log[q] \in Nat /\ row[q].upd \in Nat
          /\ Second(log[q]) \in Nat
      BY <2>1, <2>4, Parts, SecondType DEF IInv
    <3>2. row[q].at <= log[q]
      BY <2>4, <3>1
    <3>3. events[q] > row[q].upd
      BY <2>4, <3>1, <3>2 DEF Raced, Settled
    <3> QED
      BY <2>4, <3>3 DEF Candidate, NewEvent
  <2> QED
    BY <2>2, <2>3, <2>4
<1> QED
  BY Invariance, <1>1, PTL

\* A redirect judged by an older revision than its target's row is a
\* candidate, unless that row was written while the redirect was evaluated:
\* a row written before the fetch is no newer than what was fetched.
THEOREM TargetsAreNoticed == Spec => []TargetNoticedUnlessRaced
<1>1. IInv => TargetNoticedUnlessRaced
  <2> SUFFICES ASSUME IInv, NEW q \in Qids, NEW t \in Qids, Outdated(q, t),
                      ~(row[q].at <= row[t].upd /\ row[t].upd <= row[q].upd)
               PROVE  Candidate(q)
    BY DEF TargetNoticedUnlessRaced
  <2>1. /\ row[q] # None /\ row[q].target = t
        /\ row[t] # None /\ ~row[t].gone /\ row[q].basis < row[t].rev
    BY DEF Outdated
  <2>2. /\ row[q].at \in Nat /\ row[q].upd \in Nat /\ row[t].upd \in Nat
        /\ row[q].basis \in Nat /\ row[t].rev \in Nat
    BY <2>1, Parts DEF IInv
  <2>3. Sound(q, row[q])
    BY <2>1 DEF IInv, Stored
  <2>4. ~(row[t].upd < row[q].at)
    BY <2>1, <2>2, <2>3 DEF Sound
  <2>5. row[q].upd < row[t].upd
    BY <2>2, <2>4
  <2>6. t # None
    BY FreshnessAssumption
  <2>7. TargetNewer(q)
    BY <2>1, <2>5, <2>6 DEF TargetNewer
  <2>8. ~row[q].gone
    BY <2>1, <2>3, <2>6 DEF Sound
  <2> QED
    BY <2>1, <2>7, <2>8 DEF Candidate
<1> QED
  BY Invariance, <1>1, PTL

\* The first reason of a candidate is one of the five that select it.
LEMMA ReasonOfCandidate ==
  ASSUME NEW q \in Qids, Candidate(q)
  PROVE  \/ NeverEvaluated(q) /\ Reason(q) = "never_evaluated"
         \/ NewEvent(q) /\ Reason(q) = "deletion_events"
         \/ BeforePolicy(q) /\ Reason(q) = "content_policy"
         \/ TargetNewer(q) /\ Reason(q) = "redirect_target"
         \/ OldRevision(q) /\ Reason(q) = "recent_changes"
<1> DEFINE First(i) == /\ Reasons(q)[i].holds
                       /\ \A j \in 1..(i - 1) : ~Reasons(q)[j].holds
           rank == CHOOSE i \in 1..6 : First(i)
<1>1. /\ Reasons(q)[1] = [reason |-> "never_evaluated", holds |-> NeverEvaluated(q)]
      /\ Reasons(q)[2] = [reason |-> "deletion_events", holds |-> NewEvent(q)]
      /\ Reasons(q)[3] = [reason |-> "content_policy", holds |-> BeforePolicy(q)]
      /\ Reasons(q)[4] = [reason |-> "redirect_target", holds |-> TargetNewer(q)]
      /\ Reasons(q)[5] = [reason |-> "recent_changes", holds |-> OldRevision(q)]
  BY DEF Reasons
<1>2. /\ Reasons(q)[1].holds <=> NeverEvaluated(q)
      /\ Reasons(q)[2].holds <=> NewEvent(q)
      /\ Reasons(q)[3].holds <=> BeforePolicy(q)
      /\ Reasons(q)[4].holds <=> TargetNewer(q)
      /\ Reasons(q)[5].holds <=> OldRevision(q)
  BY <1>1
<1>3. Reason(q) = Reasons(q)[rank].reason
  BY DEF Reason
<1>4. \E i \in 1..5 : First(i)
  <2>1. \E i \in 1..5 : Reasons(q)[i].holds
    BY <1>2 DEF Candidate
  <2>2. CASE Reasons(q)[1].holds
    <3>1. First(1)
      BY <2>2
    <3> QED
      BY <3>1
  <2>3. CASE ~Reasons(q)[1].holds /\ Reasons(q)[2].holds
    <3>1. First(2)
      BY <2>3
    <3> QED
      BY <3>1
  <2>4. CASE ~Reasons(q)[1].holds /\ ~Reasons(q)[2].holds /\ Reasons(q)[3].holds
    <3>1. First(3)
      BY <2>4
    <3> QED
      BY <3>1
  <2>5. CASE /\ ~Reasons(q)[1].holds /\ ~Reasons(q)[2].holds
             /\ ~Reasons(q)[3].holds /\ Reasons(q)[4].holds
    <3>1. First(4)
      BY <2>5
    <3> QED
      BY <3>1
  <2>6. CASE /\ ~Reasons(q)[1].holds /\ ~Reasons(q)[2].holds
             /\ ~Reasons(q)[3].holds /\ ~Reasons(q)[4].holds
             /\ Reasons(q)[5].holds
    <3>1. First(5)
      BY <2>6
    <3> QED
      BY <3>1
  <2>7. \A i \in 1..5 : i = 1 \/ i = 2 \/ i = 3 \/ i = 4 \/ i = 5
    OBVIOUS
  <2> HIDE DEF First
  <2> QED
    BY <2>1, <2>2, <2>3, <2>4, <2>5, <2>6, <2>7
<1>5. rank \in 1..6 /\ First(rank)
  <2> HIDE DEF First
  <2> QED
    BY <1>4
<1>6. rank # 6
  <2>1. PICK i \in 1..5 : First(i)
    BY <1>4
  <2>2. First(6) => ~Reasons(q)[i].holds
    BY <2>1
  <2> HIDE DEF rank
  <2> QED
    BY <1>5, <2>1, <2>2
<1>7. rank = 1 \/ rank = 2 \/ rank = 3 \/ rank = 4 \/ rank = 5
  <2> HIDE DEF rank, First
  <2> QED
    BY <1>5, <1>6
<1> HIDE DEF rank
<1> QED
  BY <1>1, <1>2, <1>3, <1>5, <1>7

\* The five queries agree of a row that is not deleted, but for the cached
\* report's test of the policy; and a selected row has a reason that applies.
THEOREM ReadersAlwaysAgree == Spec => []ReadersAgree
<1>1. IInv => ReadersAgree
  <2> SUFFICES ASSUME IInv, NEW q \in Qids
               PROVE
        /\ row[q] = None \/ ~row[q].gone => (ContentStale(q) <=> Candidate(q))
        /\ row[q] # None /\ ~row[q].gone =>
             /\ q \in StaleRows <=> Candidate(q)
             /\ SnapshotStale(q) => Candidate(q)
             /\ Candidate(q) /\ ~SnapshotStale(q) => Reason(q) = "content_policy"
        /\ Reason(q) # "recent_changes_missing"
        /\ row[q] # None /\ Reason(q) = "never_evaluated" =>
             row[q].gone /\ events[q] > row[q].upd
    BY DEF ReadersAgree
  <2>1. CASE row[q] = None
    <3>1. ContentStale(q) /\ Candidate(q)
      BY <2>1 DEF ContentStale, Candidate, NeverEvaluated
    <3>2. Reason(q) # "recent_changes_missing"
      BY <3>1, ReasonOfCandidate
    <3> QED
      BY <2>1, <3>1, <3>2
  <2>2. CASE row[q] # None /\ ~row[q].gone
    <3>1. ~NeverEvaluated(q) /\ (OldRevision(q) <=> row[q].rev < seen[q])
      BY <2>2, LiveRow
    <3>2. ContentStale(q) <=> Candidate(q)
      BY <2>2, <3>1 DEF ContentStale, Candidate
    <3>3. q \in StaleRows <=> Candidate(q)
      BY <2>2, <3>2 DEF StaleRows
    <3>4. SnapshotStale(q) => Candidate(q)
      BY <2>2, <3>1 DEF SnapshotStale, Candidate
    <3>5. Candidate(q) /\ ~SnapshotStale(q) => Reason(q) = "content_policy"
      <4> SUFFICES ASSUME Candidate(q), ~SnapshotStale(q)
                   PROVE  Reason(q) = "content_policy"
        OBVIOUS
      <4>1. ~NeverEvaluated(q) /\ ~OldRevision(q) /\ ~TargetNewer(q) /\ ~NewEvent(q)
        BY <2>2, <3>1 DEF SnapshotStale
      <4> QED
        BY <4>1, ReasonOfCandidate
    <3>6. Reason(q) \notin {"recent_changes_missing", "never_evaluated"}
      <4>1. CASE Candidate(q)
        BY <3>1, <4>1, ReasonOfCandidate
      <4>2. CASE ~Candidate(q)
        BY <4>2 DEF Reason
      <4> QED
        BY <4>1, <4>2
    <3> QED
      BY <2>2, <3>2, <3>3, <3>4, <3>5, <3>6
  <2>3. CASE row[q] # None /\ row[q].gone
    <3>1. CASE Candidate(q)
      <4>1. events[q] > row[q].upd
        BY <2>3, <3>1 DEF Candidate, NewEvent
      <4>2. Reason(q) # "recent_changes_missing"
        BY <3>1, ReasonOfCandidate
      <4> QED
        BY <2>3, <4>1, <4>2
    <3>2. CASE ~Candidate(q)
      <4>1. Reason(q) = "none"
        BY <3>2 DEF Reason
      <4> QED
        BY <2>3, <4>1
    <3> QED
      BY <3>1, <3>2
  <2> QED
    BY <2>1, <2>2, <2>3
<1> QED
  BY Invariance, <1>1, PTL
=============================================================================
