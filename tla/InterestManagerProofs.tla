----------------------- MODULE InterestManagerProofs -----------------------
(***************************************************************************)
(* Proofs about InterestManager.  The invariant has four parts beside the  *)
(* types: what a process that is down holds; which sessions and messages   *)
(* can be; how the queue relates the sessions to `current`; and how the    *)
(* table relates to `persisted` and `current` at each step of a flush.     *)
(***************************************************************************)
EXTENDS InterestManager, SequenceTheorems, TLAPS

Down ==
  mpc = "down" => /\ mine = Nobody /\ queue = <<>>
                  /\ current = {} /\ persisted = {}

Apart ==
  ~Overlap => \A s, t \in Sessions : s # t => mine[s] \intersect mine[t] = {}

Clean == \A i \in 1..Len(queue) : queue[i].add \intersect queue[i].del = {}

Following ==
  ~Overlap /\ ~stop => \A q \in Qids : q \in Wanted <=> WillHold(q)

Backed ==
  faults \intersect {"ack", "clear"} = {} =>
    /\ mpc \notin {"record", "dead"} => persisted \subseteq rows
    /\ mpc \in {"delete", "record"} => current \subseteq rows

Exact ==
  faults = {} =>
    /\ mpc \in {"idle", "drain", "upsert"} => rows = persisted
    /\ mpc = "idle" => persisted = current
    /\ mpc = "delete" => rows = persisted \union current
    /\ mpc = "record" => rows = current

Flushing == Down /\ Backed /\ Exact
Queueing == Apart /\ Clean /\ Following

IInv == TypeOK /\ Flushing /\ Queueing

-----------------------------------------------------------------------------
(* The types *)

LEMMA NoMessages == <<>> \in Seq(Message) /\ Len(<<>>) <= MaxMessages
<1>1. <<>> \in Seq(Message) /\ Len(<<>>) = 0 BY EmptySeq
<1> QED BY <1>1, InterestAssumption

LEMMA Initially == Init => IInv
<1>1. Init => TypeOK
  BY NoMessages DEF Init, TypeOK, Nobody
<1>2. Init => Flushing
  BY DEF Init, Flushing, Down, Backed, Exact, Nobody
<1>3. Init => Queueing
  <2> SUFFICES ASSUME Init PROVE Queueing OBVIOUS
  <2>1. 1..Len(queue) = {} BY EmptySeq DEF Init
  <2>2. \A q \in Qids : q \notin Wanted BY DEF Init, Nobody, Wanted
  <2>3. \A q \in Qids : ~WillHold(q) BY <2>1 DEF Init, WillHold, Outcome
  <2>4. Apart BY DEF Init, Nobody, Apart
  <2> QED BY <2>1, <2>2, <2>3, <2>4 DEF Queueing, Clean, Following
<1> QED BY <1>1, <1>2, <1>3 DEF IInv

\* What a step does to the queue keeps it within its bound.
LEMMA EnqueueType ==
  ASSUME TypeOK, NEW add \in SUBSET Qids, NEW del \in SUBSET Qids,
         Len(queue) < MaxMessages, Enqueue(add, del)
  PROVE  queue' \in Seq(Message) /\ Len(queue') <= MaxMessages
<1> DEFINE m == [add |-> add, del |-> del]
<1>1. m \in Message BY DEF Message
<1>2. queue \in Seq(Message) /\ Len(queue) <= MaxMessages BY DEF TypeOK
<1>3. CASE stop BY <1>2, <1>3 DEF Enqueue
<1>4. CASE ~stop
  <2>1. queue' = Append(queue, m) BY <1>4 DEF Enqueue
  <2>2. Append(queue, m) \in Seq(Message) /\ Len(Append(queue, m)) = Len(queue) + 1
    BY <1>1, <1>2, AppendProperties
  <2>3. Len(queue) \in Nat BY <1>2, LenProperties
  <2> QED BY <2>1, <2>2, <2>3, InterestAssumption
<1> QED BY <1>3, <1>4

LEMMA TypeStep == TypeOK /\ [Next]_vars => TypeOK'
<1> SUFFICES ASSUME TypeOK, [Next]_vars PROVE TypeOK' OBVIOUS
<1>1. CASE UNCHANGED vars BY <1>1 DEF vars, TypeOK
<1>2. ASSUME NEW s \in Sessions, NEW wanted \in SUBSET Qids, Replace(s, wanted)
      PROVE  TypeOK'
  <2>1. wanted \ mine[s] \in SUBSET Qids /\ mine[s] \ wanted \in SUBSET Qids
    BY DEF TypeOK
  <2>2. queue' \in Seq(Message) /\ Len(queue') <= MaxMessages
    BY <1>2, <2>1, EnqueueType DEF Replace
  <2> QED BY <1>2, <2>2 DEF Replace, TypeOK
<1>3. ASSUME NEW s \in Sessions, Clear(s) PROVE TypeOK'
  <2>1. mine[s] \in SUBSET Qids BY DEF TypeOK
  <2>2. queue' \in Seq(Message) /\ Len(queue') <= MaxMessages
    BY <1>3, <2>1, EnqueueType DEF Clear
  <2> QED BY <1>3, <2>2 DEF Clear, TypeOK
<1>4. CASE Apply
  <2>1. queue \in Seq(Message) /\ queue # <<>> BY <1>4 DEF TypeOK, Apply
  <2>2. Head(queue) \in Message /\ Tail(queue) \in Seq(Message)
        /\ Len(Tail(queue)) = Len(queue) - 1
    BY <2>1, HeadTailProperties
  <2>3. Len(queue) \in Nat /\ Len(queue) <= MaxMessages
    BY <2>1, LenProperties DEF TypeOK
  <2>4. Len(queue') <= MaxMessages
    BY <1>4, <2>2, <2>3, InterestAssumption DEF Apply
  <2>5. current' \in SUBSET Qids BY <1>4, <2>2 DEF Apply, TypeOK, Message
  <2> QED BY <1>4, <2>2, <2>4, <2>5 DEF Apply, TypeOK
<1>5. CASE BeginFlush BY <1>5 DEF BeginFlush, Resume, TypeOK
<1>6. CASE BeginFinalFlush BY <1>6 DEF BeginFinalFlush, Resume, TypeOK
<1>7. CASE Upsert BY <1>7 DEF Upsert, Adds, TypeOK
<1>8. CASE UpsertFails
  BY <1>8 DEF UpsertFails, BelieveNothingNew, Fails, Resume, Adds, TypeOK
<1>9. CASE Delete BY <1>9 DEF Delete, Deletes, TypeOK
<1>10. CASE DeleteFails
  BY <1>10 DEF DeleteFails, BelieveNothingNew, Fails, Resume, Deletes, TypeOK
<1>11. CASE Record BY <1>11 DEF Record, BelieveCurrent, Resume, TypeOK
<1>12. CASE RecordFails BY <1>12 DEF RecordFails, Fails, TypeOK
<1>13. CASE Start BY <1>13 DEF Start, Purge, TypeOK
<1>14. CASE Close BY <1>14 DEF Close, TypeOK
<1>15. CASE Closed
  BY <1>15, NoMessages DEF Closed, Forget, Nobody, TypeOK
<1>16. CASE Crash
  BY <1>16, NoMessages DEF Crash, Forget, Nobody, TypeOK
<1>17. CASE ClearInterest BY <1>17 DEF ClearInterest, Fails, TypeOK
<1> QED
  BY <1>1, <1>2, <1>3, <1>4, <1>5, <1>6, <1>7, <1>8, <1>9, <1>10, <1>11,
     <1>12, <1>13, <1>14, <1>15, <1>16, <1>17 DEF Next, Run, Session
-----------------------------------------------------------------------------
(* A flush and the table *)

LEMMA FlushStep == TypeOK /\ Flushing /\ [Next]_vars => Flushing'
<1> SUFFICES ASSUME TypeOK, Flushing, [Next]_vars PROVE Flushing' OBVIOUS
<1> USE DEF Flushing, Down, Backed, Exact
<1>1. CASE UNCHANGED vars BY <1>1 DEF vars
<1>2. ASSUME NEW s \in Sessions, Session(s) PROVE Flushing'
  BY <1>2 DEF Session, Replace, Clear
<1>3. CASE Apply BY <1>3 DEF Apply
<1>4. CASE BeginFlush BY <1>4 DEF BeginFlush, Resume, Adds, Deletes
<1>5. CASE BeginFinalFlush BY <1>5 DEF BeginFinalFlush, Resume
<1>6. CASE Upsert BY <1>6 DEF Upsert, Adds, Deletes
<1>7. CASE UpsertFails
  BY <1>7 DEF UpsertFails, BelieveNothingNew, Fails, Resume, Adds
<1>8. CASE Delete BY <1>8 DEF Delete, Deletes
<1>9. CASE DeleteFails
  BY <1>9 DEF DeleteFails, BelieveNothingNew, Fails, Resume, Deletes
<1>10. CASE Record BY <1>10 DEF Record, BelieveCurrent, Resume
<1>11. CASE RecordFails BY <1>11 DEF RecordFails, Fails
<1>12. CASE Start BY <1>12 DEF Start, Purge
<1>13. CASE Close BY <1>13 DEF Close
<1>14. CASE Closed BY <1>14 DEF Closed, Forget
<1>15. CASE Crash BY <1>15 DEF Crash, Forget
<1>16. CASE ClearInterest BY <1>16 DEF ClearInterest, Fails
<1> QED
  BY <1>1, <1>2, <1>3, <1>4, <1>5, <1>6, <1>7, <1>8, <1>9, <1>10, <1>11,
     <1>12, <1>13, <1>14, <1>15, <1>16 DEF Next, Run

-----------------------------------------------------------------------------
(* The queue and the sessions *)

\* A message appended to the queue decides what will be held of the items it
\* mentions, and leaves the others alone.
LEMMA AppendDecides ==
  ASSUME NEW messages \in Seq(Message), NEW m \in Message,
         m.add \intersect m.del = {}, NEW held, NEW q \in Qids
  PROVE  Outcome(Append(messages, m), held, q)
           <=> q \in m.add \/ (q \notin m.del /\ Outcome(messages, held, q))
<1> DEFINE after == Append(messages, m)
<1>1. PICK n \in Nat : n = Len(messages) BY LenProperties
<1>2. /\ Len(after) = n + 1
      /\ after[n + 1] = m
      /\ \A i \in 1..n : after[i] = messages[i]
  BY <1>1, AppendProperties
<1> HIDE DEF after
<1>3. 1..n + 1 = (1..n) \union {n + 1} BY <1>1
<1>4. \A i \in 1..n :
        i + 1..n + 1 = (i + 1..n) \union {n + 1} /\ i + 1..n \subseteq 1..n
  BY <1>1
<1>5. n + 1 + 1..n + 1 = {} BY <1>1
<1> DEFINE LastIn(s, i, k) ==
             q \in s[i].add /\ \A j \in i + 1..k : ~Mentions(s[j], q)
           Silent(s, k) == \A i \in 1..k : ~Mentions(s[i], q)
<1>6. Outcome(after, held, q) <=>
        (\E i \in 1..n + 1 : LastIn(after, i, n + 1))
          \/ (q \in held /\ Silent(after, n + 1))
  BY <1>2 DEF Outcome
<1>7. Outcome(messages, held, q) <=>
        (\E i \in 1..n : LastIn(messages, i, n)) \/ (q \in held /\ Silent(messages, n))
  BY <1>1 DEF Outcome
<1>8. LastIn(after, n + 1, n + 1) <=> q \in m.add BY <1>2, <1>5
<1>9. \A i \in 1..n :
        LastIn(after, i, n + 1) <=> LastIn(messages, i, n) /\ ~Mentions(m, q)
  BY <1>2, <1>4
<1>10. Silent(after, n + 1) <=> Silent(messages, n) /\ ~Mentions(m, q)
  BY <1>2, <1>3
<1>11. Mentions(m, q) <=> q \in m.add \/ q \in m.del BY DEF Mentions
<1> HIDE DEF LastIn, Silent
<1> QED BY <1>3, <1>6, <1>7, <1>8, <1>9, <1>10, <1>11 DEF after

\* Reading the first message does not change what will be held.
LEMMA ApplyKeeps ==
  ASSUME NEW messages \in Seq(Message), messages # <<>>,
         messages[1].add \intersect messages[1].del = {},
         NEW held, NEW q \in Qids
  PROVE  Outcome(Tail(messages), (held \union messages[1].add) \ messages[1].del, q)
           <=> Outcome(messages, held, q)
<1> DEFINE rest == Tail(messages)
           m == messages[1]
           after == (held \union m.add) \ m.del
<1>1. PICK n \in Nat : n = Len(messages) /\ n # 0 BY LenProperties, EmptySeq
<1>2. Len(rest) = n - 1 /\ \A i \in 1..n - 1 : rest[i] = messages[i + 1]
  BY <1>1, HeadTailProperties
<1>3. m \in Message BY <1>1, ElementOfSeq
<1> HIDE DEF rest
<1>4. 1..n = {1} \union 2..n BY <1>1
<1>5. \A i \in 2..n : i - 1 \in 1..n - 1 /\ (i - 1) + 1 = i BY <1>1
<1>6. \A i \in 1..n - 1 : i + 1 \in 2..n BY <1>1
<1> DEFINE LastIn(s, i, k) ==
             q \in s[i].add /\ \A j \in i + 1..k : ~Mentions(s[j], q)
           Silent(s, j, k) == \A i \in j..k : ~Mentions(s[i], q)
<1>7. Outcome(rest, after, q) <=>
        (\E i \in 1..n - 1 : LastIn(rest, i, n - 1))
          \/ (q \in after /\ Silent(rest, 1, n - 1))
  BY <1>2 DEF Outcome
<1>8. Outcome(messages, held, q) <=>
        (\E i \in 1..n : LastIn(messages, i, n)) \/ (q \in held /\ Silent(messages, 1, n))
  BY <1>1, Zenon DEF Outcome
<1>9. \A i \in 1..n - 1 : LastIn(rest, i, n - 1) <=> LastIn(messages, i + 1, n)
  <2> TAKE i \in 1..n - 1
  <2>1. \A j \in i + 1 + 1..n :
          j - 1 \in i + 1..n - 1 /\ j - 1 \in 1..n - 1 /\ (j - 1) + 1 = j
    BY <1>1
  <2>2. \A j \in i + 1..n - 1 : j + 1 \in i + 1 + 1..n /\ j \in 1..n - 1 BY <1>1
  <2>3. (\A j \in i + 1..n - 1 : ~Mentions(rest[j], q))
          <=> \A j \in i + 1 + 1..n : ~Mentions(messages[j], q)
    BY <1>2, <2>1, <2>2
  <2> QED BY <1>2, <2>3
<1>10. Silent(rest, 1, n - 1) <=> Silent(messages, 2, n) BY <1>2, <1>5, <1>6
<1>11. Silent(messages, 1, n) <=> ~Mentions(m, q) /\ Silent(messages, 2, n)
  BY <1>4
<1>12. LastIn(messages, 1, n) <=> q \in m.add /\ Silent(messages, 2, n)
  BY <1>1
<1>13. Mentions(m, q) <=> q \in m.add \/ q \in m.del BY DEF Mentions
<1> HIDE DEF LastIn, Silent
<1>14. (\E i \in 1..n - 1 : LastIn(rest, i, n - 1))
         <=> \E i \in 2..n : LastIn(messages, i, n)
  <2>1. ASSUME NEW i \in 1..n - 1, LastIn(rest, i, n - 1)
        PROVE  \E k \in 2..n : LastIn(messages, k, n)
    <3>1. i + 1 \in 2..n /\ LastIn(messages, i + 1, n) BY <1>6, <1>9, <2>1
    <3> QED BY <3>1
  <2>2. ASSUME NEW i \in 2..n, LastIn(messages, i, n)
        PROVE  \E k \in 1..n - 1 : LastIn(rest, k, n - 1)
    <3>1. PICK k \in 1..n - 1 : k + 1 = i BY <1>5
    <3>2. LastIn(rest, k, n - 1) BY <1>9, <2>2, <3>1
    <3> QED BY <3>2
  <2> QED BY <2>1, <2>2
<1>15. (\E i \in 1..n : LastIn(messages, i, n))
         <=> LastIn(messages, 1, n) \/ \E i \in 2..n : LastIn(messages, i, n)
  BY <1>4
<1> QED BY <1>7, <1>8, <1>10, <1>11, <1>12, <1>13, <1>14, <1>15 DEF rest

\* A message that a session sends, and what it does to Queueing.
LEMMA SendKeeps ==
  ASSUME TypeOK, Queueing, NEW s \in Sessions, NEW wanted \in SUBSET Qids,
         Overlap \/ \A t \in Sessions \ {s} : wanted \intersect mine[t] = {},
         mine' = [mine EXCEPT ![s] = wanted],
         Enqueue(wanted \ mine[s], mine[s] \ wanted),
         stop' = stop, current' = current
  PROVE  Queueing'
<1> DEFINE m == [add |-> wanted \ mine[s], del |-> mine[s] \ wanted]
<1>1. /\ mine \in [Sessions -> SUBSET Qids]
      /\ queue \in Seq(Message)
      /\ m \in Message
  BY DEF TypeOK, Message
<1>2. \A t \in Sessions : mine'[t] = IF t = s THEN wanted ELSE mine[t]
  BY <1>1
<1>3. Apart' BY <1>2 DEF Queueing, Apart
<1>4. CASE stop
  BY <1>3, <1>4 DEF Enqueue, Queueing, Clean, Following
<1>5. CASE ~stop
  <2>1. queue' = Append(queue, m) BY <1>5 DEF Enqueue
  <2>2. PICK n \in Nat : n = Len(queue) BY <1>1, LenProperties
  <2>3. Len(queue') = n + 1 /\ queue'[n + 1] = m
        /\ \A i \in 1..n : queue'[i] = queue[i]
    BY <1>1, <2>1, <2>2, AppendProperties
  <2>4. Clean'
    <3>1. 1..n + 1 = (1..n) \union {n + 1} BY <2>2
    <3>2. m.add \intersect m.del = {} OBVIOUS
    <3> QED BY <2>2, <2>3, <3>1, <3>2 DEF Queueing, Clean
  <2>5. ASSUME NEW q \in Qids, ~Overlap PROVE q \in Wanted' <=> WillHold(q)'
    <3>1. WillHold(q)' <=> q \in m.add \/ (q \notin m.del /\ WillHold(q))
      BY <1>1, <2>1, AppendDecides DEF WillHold
    <3>2. q \in Wanted <=> WillHold(q) BY <1>5, <2>5 DEF Queueing, Following
    <3>3. q \in Wanted' <=> \E t \in Sessions : q \in mine'[t] BY DEF Wanted
    <3>4. q \in Wanted <=> \E t \in Sessions : q \in mine[t] BY DEF Wanted
    <3>5. q \in mine[s] => \A t \in Sessions : t # s => q \notin mine[t]
      BY <2>5 DEF Queueing, Apart
    <3>6. q \in Wanted' <=> q \in m.add \/ (q \notin m.del /\ q \in Wanted)
      BY <1>2, <3>3, <3>4, <3>5
    <3> QED BY <3>1, <3>2, <3>6
  <2> QED BY <1>3, <2>4, <2>5 DEF Queueing, Following
<1> QED BY <1>4, <1>5

LEMMA QueueStep == TypeOK /\ Down /\ Queueing /\ [Next]_vars => Queueing'
<1> SUFFICES ASSUME TypeOK, Down, Queueing, [Next]_vars PROVE Queueing'
  OBVIOUS
<1>1. ASSUME UNCHANGED <<mine, queue, current>>, stop => stop' PROVE Queueing'
  BY <1>1 DEF Queueing, Apart, Clean, Following, Wanted, WillHold
<1>2. ASSUME NEW s \in Sessions, NEW wanted \in SUBSET Qids, Replace(s, wanted)
      PROVE  Queueing'
  BY <1>2, SendKeeps DEF Replace
<1>3. ASSUME NEW s \in Sessions, Clear(s) PROVE Queueing'
  <2>1. {} \ mine[s] = {} /\ mine[s] \ {} = mine[s] OBVIOUS
  <2> QED BY <1>3, <2>1, SendKeeps DEF Clear
<1>4. CASE Apply
  <2>1. queue \in Seq(Message) /\ queue # <<>> BY <1>4 DEF TypeOK, Apply
  <2>2. PICK n \in Nat : n = Len(queue) /\ n # 0
    BY <2>1, LenProperties, EmptySeq
  <2>3. /\ Head(queue) = queue[1]
        /\ Len(Tail(queue)) = n - 1
        /\ \A i \in 1..n - 1 : Tail(queue)[i] = queue[i + 1]
    BY <2>1, <2>2, HeadTailProperties
  <2>4. \A i \in 1..n : queue[i].add \intersect queue[i].del = {}
    BY <2>2 DEF Queueing, Clean
  <2>5. Clean'
    <3>1. \A i \in 1..n - 1 : i + 1 \in 1..n BY <2>2
    <3> QED BY <1>4, <2>3, <2>4, <3>1 DEF Apply, Clean
  <2>6. \A q \in Qids : WillHold(q)' <=> WillHold(q)
    BY <1>4, <2>1, <2>2, <2>3, <2>4, ApplyKeeps DEF Apply, WillHold
  <2>7. Wanted' = Wanted BY <1>4 DEF Apply, Wanted
  <2> QED BY <1>4, <2>5, <2>6, <2>7 DEF Apply, Queueing, Apart, Following
<1>5. CASE Forget
  <2>1. 1..Len(queue)' = {} BY <1>5, EmptySeq DEF Forget
  <2>2. \A q \in Qids : q \notin Wanted' BY <1>5 DEF Forget, Nobody, Wanted
  <2>3. \A q \in Qids : ~WillHold(q)' BY <1>5, <2>1 DEF Forget, WillHold, Outcome
  <2>4. Apart' BY <1>5 DEF Forget, Nobody, Apart
  <2> QED BY <2>1, <2>2, <2>3, <2>4 DEF Queueing, Clean, Following
<1>6. CASE UNCHANGED vars BY <1>1, <1>6 DEF vars
<1>7. CASE Run /\ ~Apply
  BY <1>1, <1>7 DEF Run, BeginFlush, BeginFinalFlush, Upsert, UpsertFails,
     Delete, DeleteFails, Record, RecordFails
<1>8. CASE Start \/ Close \/ ClearInterest
  BY <1>1, <1>8 DEF Start, Close, ClearInterest
<1>9. CASE Closed \/ Crash BY <1>5, <1>9 DEF Closed, Crash
<1> QED
  BY <1>2, <1>3, <1>4, <1>6, <1>7, <1>8, <1>9 DEF Next, Session

-----------------------------------------------------------------------------
(* The theorems *)

\* The inductive invariant holds of every behaviour of the manager.
THEOREM Invariance == Spec => []IInv
<1>1. IInv /\ [Next]_vars => IInv'
  BY TypeStep, FlushStep, QueueStep DEF IInv, Flushing
<1> QED BY <1>1, Initially, PTL DEF Spec

\* Every variable keeps its type, and the queue its bound.
THEOREM TypeCorrect == Spec => []TypeOK
<1>1. IInv => TypeOK BY DEF IInv
<1> QED BY <1>1, Invariance, PTL

\* However many sessions there are and however the queue is read, no change
\* of a subscription is lost or overtaken on its way to the manager.
THEOREM NoChangeLost == Spec => []NothingLost
<1>1. IInv => NothingLost BY DEF IInv, Queueing, Following, NothingLost
<1> QED BY <1>1, Invariance, PTL

\* Between flushes the manager's belief is backed by rows, whatever failed.
THEOREM BeliefBacked == Spec => []PersistedBacked
<1>1. IInv => PersistedBacked BY DEF IInv, Flushing, Backed, PersistedBacked
<1> QED BY <1>1, Invariance, PTL

\* As long as no two sessions share an item, an idle manager that met no
\* failure has published exactly the subscriptions.
THEOREM QuietPublished ==
  ASSUME Overlap = FALSE
  PROVE  Spec => []PublishedWhenQuiet
<1>1. IInv => PublishedWhenQuiet
  <2> SUFFICES ASSUME IInv, mpc = "idle", queue = <<>>, ~stop, faults = {}
               PROVE  rows = Wanted
    BY DEF PublishedWhenQuiet
  <2>1. rows = persisted /\ persisted = current
    BY DEF IInv, Flushing, Exact
  <2>2. 1..Len(queue) = {} BY EmptySeq
  <2>3. \A q \in Qids : WillHold(q) <=> q \in current
    BY <2>2 DEF WillHold, Outcome
  <2>4. \A q \in Qids : q \in Wanted <=> q \in current
    BY <2>3 DEF IInv, Queueing, Following
  <2>5. current \subseteq Qids /\ Wanted \subseteq Qids
    BY DEF IInv, TypeOK, Wanted
  <2> QED BY <2>1, <2>4, <2>5
<1> QED BY <1>1, Invariance, PTL
=============================================================================
