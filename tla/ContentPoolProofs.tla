-------------------------- MODULE ContentPoolProofs --------------------------
(***************************************************************************)
(* What ContentPool guarantees for every number of items, workers, slots   *)
(* and batch sizes.  Exclusive claims are not inductive alone: they need   *)
(* what the dispatcher remembers across its query (the claims it copied,   *)
(* the slots it counted).  The last sections show that the pool implements *)
(* SingleFlight, and that SingleFlight alone keeps a write from overtaking *)
(* another, and copies from going back except where somebody lags behind.  *)
(***************************************************************************)
EXTENDS ContentPool, SequenceTheorems, FiniteSetTheorems, FunctionTheorems, TLAPS

\* A worker works on what it holds, and has findings only while it persists.
WorkersClaim ==
  \A w \in Workers :
    /\ held[w] \subseteq inflight
    /\ todo[w] \subseteq held[w]
    /\ wpc[w] \in {"get", "idle"} => held[w] = {}
    /\ \A q \in Qids : fetched[w][q] # Nothing => wpc[w] = "persist" /\ q \in held[w]

QueueClaims == \A i \in 1..Len(queue) : queue[i] \subseteq inflight

\* Every claim has a batch.
NoOrphan ==
  \A q \in inflight : \/ \E i \in 1..Len(queue) : q \in queue[i]
                      \/ \E w \in Workers : q \in held[w]

\* While the query runs, claims can only disappear, and slots only appear.
WhileSelecting ==
  dpc = "select" => /\ inflight \subseteq exclude
                    /\ free + Len(queue) <= QueueMaxSize

\* Selected batches are disjoint, unclaimed, and there is room for them.
WhileEnqueueing ==
  dpc = "enqueue" =>
    /\ pending # <<>>
    /\ Len(pending) + Len(queue) <= QueueMaxSize
    /\ \A i \in 1..Len(pending) : pending[i] \intersect inflight = {}
    /\ \A i, j \in 1..Len(pending) :
          i # j => pending[i] \intersect pending[j] = {}

Inv ==
  /\ TypeOK
  /\ WorkersClaim
  /\ QueueClaims
  /\ NoOrphan
  /\ ExclusiveClaims
  /\ WhileSelecting
  /\ WhileEnqueueing
  /\ NoOverflow
  /\ BatchesSized
-----------------------------------------------------------------------------
(* Splitting a selection. *)

LEMMA Products ==
  ASSUME NEW a \in Nat, NEW b \in Nat, NEW c \in Nat, a <= b
  PROVE  a * c \in Nat /\ b * c \in Nat /\ a * c <= b * c
<1>1. \A x, y \in Nat : x * y \in Nat
  OBVIOUS
<1>2. b * c = a * c + (b - a) * c /\ b - a \in Nat
  OBVIOUS
<1> QED
  BY <1>1, <1>2

LEMMA Division ==
  ASSUME NEW a \in Nat, NEW b \in Nat \ {0}
  PROVE  /\ a \div b \in Nat
         /\ a % b \in 0..b-1
         /\ a = (a \div b) * b + (a % b)
<1>1. a % b \in 0..b-1
  OBVIOUS
<1>2. a = b * (a \div b) + (a % b) /\ a \div b \in Int
  OBVIOUS
<1>3. a \div b \in Nat
  OBVIOUS
<1> QED
  BY <1>1, <1>2, <1>3

\* No more batches than items, and batches enough for all of them.
LEMMA CountSuffices ==
  ASSUME NEW s \in Nat \ {0}, NEW b \in Nat \ {0}
  PROVE  LET c == (s + b - 1) \div b IN c \in 1..s /\ s <= c * b
<1> DEFINE a == s + b - 1
           c == a \div b
           m == a % b
<1>0. a \in Nat /\ a = s + b - 1
  OBVIOUS
<1> HIDE DEF a
<1>1. c \in Nat /\ m \in 0..b-1 /\ a = c * b + m
  BY <1>0, Division
<1> HIDE DEF c, m
<1>2. s <= c * b
  BY <1>0, <1>1, Products
<1>3. c # 0
  BY <1>2
<1>4. ASSUME c > s PROVE FALSE
  <2>1. (s + 1) * b <= c * b
    BY <1>1, <1>4, Products
  <2>2. (s + 1) * b = s * b + b /\ 1 * s <= b * s /\ b * s = s * b
    BY Products
  <2> QED
    BY <1>0, <1>1, <2>1, <2>2
<1>5. c \in 1..s /\ s <= c * b
  BY <1>1, <1>2, <1>3, <1>4
<1> QED
  BY <1>5 DEF c, a

LEMMA UpToSteps ==
  ASSUME NEW k \in Nat, NEW n \in Nat \ {0}, NEW i \in Nat
  PROVE  /\ UpTo(i, k, n) \in Nat
         /\ UpTo(i + 1, k, n) =
              UpTo(i, k, n) + (k \div n) + (IF i < k % n THEN 1 ELSE 0)
<1> DEFINE base == k \div n
           extra == k % n
<1>1. base \in Nat /\ extra \in Nat
  BY Division
<1> HIDE DEF base, extra
<1>2. (i + 1) * base = i * base + base /\ i * base \in Nat
  BY <1>1, Products
<1>3. /\ Smaller(i, extra) \in Nat
      /\ Smaller(i + 1, extra) = Smaller(i, extra) + (IF i < extra THEN 1 ELSE 0)
  BY <1>1 DEF Smaller
<1>4. /\ UpTo(i, k, n) = i * base + Smaller(i, extra)
      /\ UpTo(i + 1, k, n) = (i + 1) * base + Smaller(i + 1, extra)
  BY DEF UpTo, base, extra
<1>5. UpTo(i + 1, k, n) = UpTo(i, k, n) + base + (IF i < extra THEN 1 ELSE 0)
  BY <1>1, <1>2, <1>3, <1>4
<1> QED
  BY <1>2, <1>3, <1>4, <1>5 DEF base, extra

LEMMA UpToGrows ==
  ASSUME NEW k \in Nat, NEW n \in Nat \ {0}, NEW i \in Nat, NEW j \in Nat, i <= j
  PROVE  UpTo(i, k, n) <= UpTo(j, k, n)
<1> DEFINE base == k \div n
           extra == k % n
<1>1. base \in Nat /\ extra \in Nat
  BY Division
<1> HIDE DEF base, extra
<1>2. i * base \in Nat /\ j * base \in Nat /\ i * base <= j * base
  BY <1>1, Products
<1>3. /\ Smaller(i, extra) \in Nat /\ Smaller(j, extra) \in Nat
      /\ Smaller(i, extra) <= Smaller(j, extra)
  BY <1>1 DEF Smaller
<1>4. /\ UpTo(i, k, n) = i * base + Smaller(i, extra)
      /\ UpTo(j, k, n) = j * base + Smaller(j, extra)
  BY DEF UpTo, base, extra
<1> QED
  BY <1>2, <1>3, <1>4

LEMMA UpToEnds ==
  ASSUME NEW k \in Nat, NEW n \in Nat \ {0}
  PROVE  UpTo(0, k, n) = 0 /\ UpTo(n, k, n) = k
<1> DEFINE base == k \div n
           extra == k % n
<1>1. base \in Nat /\ extra \in 0..n-1 /\ k = base * n + extra
  BY Division
<1> HIDE DEF base, extra
<1>2. Smaller(0, extra) = 0 /\ Smaller(n, extra) = extra
  BY <1>1 DEF Smaller
<1>3. 0 * base = 0 /\ n * base = base * n
  BY <1>1
<1>4. /\ UpTo(0, k, n) = 0 * base + Smaller(0, extra)
      /\ UpTo(n, k, n) = n * base + Smaller(n, extra)
  BY DEF UpTo, base, extra
<1> QED
  BY <1>1, <1>2, <1>3, <1>4

\* Every position lies in one of the slices.
LEMMA InSomeSlice ==
  ASSUME NEW k \in Nat, NEW n \in Nat \ {0}, NEW j \in 1..k
  PROVE  \E i \in 1..n : j \in (UpTo(i - 1, k, n) + 1) .. UpTo(i, k, n)
<1> DEFINE Reached == {i \in Nat : j <= UpTo(i, k, n)}
<1>1. n \in Reached /\ 0 \notin Reached /\ Reached \subseteq Nat
  BY UpToEnds
<1>2. PICK i \in Reached : \A h \in Reached : ~(<<h, i>> \in OpToRel(<, Nat))
  BY <1>1, WFMin, NatLessThanWellFounded
<1>3. \A h \in Reached : ~(h < i)
  BY <1>2 DEF OpToRel
<1>4. i \in 1..n /\ i - 1 \in Nat
  BY <1>1, <1>3
<1>5. i - 1 \notin Reached
  BY <1>3, <1>4
<1>6. UpTo(i - 1, k, n) \in Nat /\ UpTo(i, k, n) \in Nat
  BY <1>4, UpToSteps
<1> QED
  BY <1>4, <1>5, <1>6

LEMMA SliceSize ==
  ASSUME NEW S, NEW k \in Nat, NEW order \in Bijection(1..k, S),
         NEW n \in Nat \ {0}, NEW i \in 1..n
  PROVE  Cardinality(Split(order, n)[i]) =
           (k \div n) + (IF i - 1 < k % n THEN 1 ELSE 0)
<1> DEFINE a == UpTo(i - 1, k, n)
           b == UpTo(i, k, n)
           T == {order[j] : j \in (a + 1) .. b}
           g == [j \in (a + 1) .. b |-> order[j]]
           base == k \div n
           extra == k % n
<1>1. i - 1 \in Nat /\ (i - 1) + 1 = i /\ i <= n /\ n \in Nat
  OBVIOUS
<1>2. /\ a \in Nat /\ b \in Nat /\ base \in Nat
      /\ b = a + base + (IF i - 1 < extra THEN 1 ELSE 0)
  <2>1. base \in Nat
    BY Division
  <2>2. /\ UpTo(i - 1, k, n) \in Nat
        /\ UpTo((i - 1) + 1, k, n) = UpTo(i - 1, k, n) + base
                                       + (IF i - 1 < extra THEN 1 ELSE 0)
    BY <1>1, UpToSteps
  <2> HIDE DEF base, extra
  <2> QED
    BY <1>1, <2>1, <2>2
<1>3. b <= k
  BY <1>1, UpToGrows, UpToEnds
<1>4. /\ order \in [1..k -> S]
      /\ \A x, y \in 1..k : order[x] = order[y] => x = y
  BY Fun_BijectionProperties, Fun_InjectionProperties
<1>5. Len(order) = k
  BY <1>4
<1>6. Split(order, n)[i] = T
  BY <1>5 DEF Split
<1> HIDE DEF a, b, base, extra
<1>7. (a + 1) .. b \subseteq 1..k
  BY <1>2, <1>3
<1>8. g \in Bijection((a + 1) .. b, T)
  <2>1. g \in [(a + 1) .. b -> T]
    OBVIOUS
  <2>2. \A x, y \in (a + 1) .. b : g[x] = g[y] => x = y
    BY <1>4, <1>7
  <2>3. \A t \in T : \E x \in (a + 1) .. b : g[x] = t
    OBVIOUS
  <2> HIDE DEF g, T
  <2> QED
    BY <2>1, <2>2, <2>3, Fun_IsBij
<1>9. Cardinality(T) = Cardinality((a + 1) .. b)
  <2> HIDE DEF g, T
  <2>1. ExistsBijection((a + 1) .. b, T)
    BY <1>8 DEF ExistsBijection
  <2>2. IsFiniteSet((a + 1) .. b)
    BY <1>2, FS_Interval
  <2> QED
    BY <2>1, <2>2, FS_Bijection
<1>10. Cardinality((a + 1) .. b) = b - a
  <2>1. a \in Nat /\ b \in Nat /\ a <= b /\ a + 1 \in Int
    BY <1>2
  <2>2. Cardinality((a + 1) .. b) = IF a + 1 > b THEN 0 ELSE b - (a + 1) + 1
    BY <2>1, FS_Interval
  <2> QED
    BY <2>1, <2>2
<1> HIDE DEF T
<1>11. Cardinality(T) = base + (IF i - 1 < extra THEN 1 ELSE 0)
  BY <1>2, <1>9, <1>10
<1> QED
  BY <1>6, <1>11 DEF base, extra

\* The slices of a selection in some order hold every item once, and at most one
\* more in one than in another.
LEMMA SplitShares ==
  ASSUME NEW S, NEW k \in Nat, NEW order \in Bijection(1..k, S),
         NEW n \in 1..k
  PROVE  /\ Split(order, n) \in [1..n -> SUBSET S]
         /\ Shares(Split(order, n), S)
<1> DEFINE B == Split(order, n)
           base == k \div n
           extra == k % n
           Slice(i) == (UpTo(i - 1, k, n) + 1) .. UpTo(i, k, n)
<1>1. n \in Nat \ {0}
  OBVIOUS
<1>2. /\ order \in [1..k -> S]
      /\ \A x, y \in 1..k : order[x] = order[y] => x = y
      /\ \A s \in S : \E x \in 1..k : order[x] = s
  BY Fun_BijectionProperties, Fun_InjectionProperties, Fun_SurjectionProperties
<1>3. Len(order) = k
  BY <1>2
<1>4. B = [i \in 1..n |-> {order[j] : j \in Slice(i)}] /\ Len(B) = n
  BY <1>1, <1>3 DEF Split
<1>5. ASSUME NEW i \in 1..n
      PROVE  /\ UpTo(i - 1, k, n) \in Nat /\ UpTo(i, k, n) \in Nat
             /\ UpTo(i, k, n) <= k
  <2>1. i - 1 \in Nat /\ i \in Nat /\ n \in Nat /\ i <= n
    OBVIOUS
  <2>2. UpTo(i - 1, k, n) \in Nat /\ UpTo(i, k, n) \in Nat
    BY <1>1, <2>1, UpToSteps
  <2>3. UpTo(i, k, n) <= UpTo(n, k, n)
    BY <1>1, <2>1, UpToGrows
  <2> QED
    BY <1>1, <2>2, <2>3, UpToEnds
<1>6. \A i \in 1..n : Slice(i) \subseteq 1..k
  BY <1>5
<1>7. ASSUME NEW i \in 1..n, NEW j \in 1..n, i < j
      PROVE  UpTo(i, k, n) <= UpTo(j - 1, k, n)
  BY <1>1, <1>7, UpToGrows
<1>8. ASSUME NEW i \in 1..n, NEW j \in 1..n, i < j
      PROVE  \A x \in Slice(i), y \in Slice(j) : x # y
  <2>1. UpTo(i, k, n) <= UpTo(j - 1, k, n)
    BY <1>7, <1>8
  <2> QED
    BY <1>5, <2>1
<1>9. \A x \in 1..k : \E i \in 1..n : x \in Slice(i)
  BY <1>1, InSomeSlice
<1> HIDE DEF Slice
<1>10. B \in [1..n -> SUBSET S]
  BY <1>2, <1>4, <1>6
<1>11. UNION {B[i] : i \in 1..n} = S
  <2>1. ASSUME NEW s \in S PROVE \E i \in 1..n : s \in B[i]
    <3>1. PICK x \in 1..k : order[x] = s
      BY <1>2
    <3>2. PICK i \in 1..n : x \in Slice(i)
      BY <1>9
    <3> QED
      BY <1>4, <3>1, <3>2
  <2> HIDE DEF B
  <2> QED
    BY <1>10, <2>1
<1>12. ASSUME NEW i \in 1..n, NEW j \in 1..n, i # j
       PROVE  B[i] \intersect B[j] = {}
  <2>1. ASSUME NEW x \in Slice(i), NEW y \in Slice(j) PROVE x # y
    <3>1. i < j \/ j < i
      BY <1>12
    <3> QED
      BY <1>8, <3>1
  <2> QED
    BY <1>2, <1>4, <1>6, <2>1
<1>13. ASSUME NEW i \in 1..n
       PROVE  Cardinality(B[i]) = base + (IF i - 1 < extra THEN 1 ELSE 0)
  BY <1>1, SliceSize
<1>14. base \in Nat
  BY <1>1, Division
<1> HIDE DEF B, base, extra
<1>15. \A i, j \in 1..n : Cardinality(B[i]) <= Cardinality(B[j]) + 1
  BY <1>13, <1>14
<1>16. Shares(B, S)
  BY <1>4, <1>11, <1>12, <1>15 DEF Shares
<1> QED
  BY <1>10, <1>16 DEF B

\* With batches enough for all, none is too large; with no more batches than
\* items, none is empty.
LEMMA SplitSized ==
  ASSUME NEW S, NEW k \in Nat, NEW order \in Bijection(1..k, S),
         NEW n \in 1..k, NEW size \in Nat \ {0}, k <= n * size, NEW i \in 1..n
  PROVE  Cardinality(Split(order, n)[i]) \in 1..size
<1> DEFINE base == k \div n
           extra == k % n
<1>1. n \in Nat \ {0}
  OBVIOUS
<1>2. base \in Nat /\ extra \in 0..n-1 /\ k = base * n + extra
  BY <1>1, Division
<1>3. Cardinality(Split(order, n)[i]) = base + (IF i - 1 < extra THEN 1 ELSE 0)
  BY <1>1, SliceSize
<1> HIDE DEF base, extra
<1>4. base <= size
  <2> SUFFICES ASSUME size + 1 <= base PROVE FALSE
    BY <1>2
  <2>1. (size + 1) * n <= base * n /\ base * n \in Nat
    BY <1>1, <1>2, Products
  <2>2. (size + 1) * n = n * size + n /\ n * size \in Nat
    BY <1>1, Products
  <2> QED
    BY <1>1, <1>2, <2>1, <2>2
<1>5. base = size => extra = 0
  <2> SUFFICES ASSUME base = size PROVE extra = 0
    OBVIOUS
  <2>1. base * n = n * size /\ n * size \in Nat
    BY <1>1, Products
  <2> QED
    BY <1>1, <1>2, <2>1
<1>6. base # 0
  <2> SUFFICES ASSUME base = 0 PROVE FALSE
    OBVIOUS
  <2>1. base * n = 0
    OBVIOUS
  <2> QED
    BY <1>1, <1>2, <2>1
<1> QED
  BY <1>2, <1>3, <1>4, <1>5, <1>6

\* What the dispatcher selects it splits into batches for the slots it counted:
\* together they are the selection, and none is empty or too long.
LEMMA SelectSplits ==
  ASSUME TypeOK, DispatcherSelect, dpc' # "wait"
  PROVE  \E S \in SUBSET (Qids \ exclude), n \in 1..free :
           /\ selected' = S /\ dpc' = "enqueue"
           /\ pending' \in [1..n -> SUBSET S]
           /\ Shares(pending', S)
           /\ \A i \in 1..n : Cardinality(pending'[i]) \in 1..BatchSize
<1>1. PICK S \in SUBSET (Qids \ exclude), n \in 1..free :
        /\ S # {} /\ selected' = S /\ dpc' = "enqueue"
        /\ \E R \in SUBSET Qids :
             Cardinality(S) = Smaller(free * BatchSize, Cardinality(R))
        /\ n = BatchCount(S, free)
        /\ \E order \in Bijection(1..Cardinality(S), S) : pending' = Split(order, n)
  BY DEF DispatcherSelect
<1> DEFINE k == Cardinality(S)
           enough == (k + BatchSize - 1) \div BatchSize
<1>2. free \in Nat /\ BatchSize \in Nat \ {0} /\ n \in Nat \ {0}
  BY PoolAssumption DEF TypeOK
<1>3. k \in Nat \ {0}
  <2>1. IsFiniteSet(S)
    BY PoolAssumption, FS_Subset
  <2> QED
    BY <1>1, <2>1, FS_CardinalityType, FS_EmptySet
<1>4. k <= free * BatchSize
  <2>1. PICK R \in SUBSET Qids : k = Smaller(free * BatchSize, Cardinality(R))
    BY <1>1
  <2>2. Cardinality(R) \in Nat
    BY PoolAssumption, FS_Subset, FS_CardinalityType
  <2>3. free * BatchSize \in Nat
    BY <1>2, Products
  <2> HIDE DEF k
  <2> QED
    BY <2>1, <2>2, <2>3 DEF Smaller
<1>5. n = Smaller(free, enough)
  BY <1>1 DEF BatchCount
<1> HIDE DEF k
<1>6. enough \in 1..k /\ k <= enough * BatchSize
  BY <1>2, <1>3, CountSuffices
<1> HIDE DEF enough
<1>7. n \in 1..k /\ k <= n * BatchSize
  BY <1>2, <1>3, <1>4, <1>5, <1>6 DEF Smaller
<1>8. PICK order \in Bijection(1..k, S) : pending' = Split(order, n)
  BY <1>1 DEF k
<1>9. pending' \in [1..n -> SUBSET S] /\ Shares(pending', S)
  BY <1>3, <1>7, <1>8, SplitShares
<1>10. \A i \in 1..n : Cardinality(pending'[i]) \in 1..BatchSize
  BY <1>2, <1>3, <1>7, <1>8, SplitSized
<1> QED
  BY <1>1, <1>9, <1>10

-----------------------------------------------------------------------------
(* Findings. *)

LEMMA NothingFound == Nothing \in Finding /\ Nothing.kind = "none" /\ Nothing.rev = 0
BY DEF Nothing, Finding

\* An answer is a finding, not newer than the page; one that is the page is not
\* older either.
LEMMA AnswersFound ==
  ASSUME NEW r \in Nat \ {0}, NEW f \in Answers(r)
  PROVE  /\ f \in Finding /\ f # Nothing /\ f.rev <= r
         /\ f.kind = "page" => f.rev = r
BY DEF Answers, Gone, Page, LateRedirect, Finding, Nothing

-----------------------------------------------------------------------------
(* Type correctness. *)

LEMMA InitType == Init => TypeOK
<1> SUFFICES ASSUME Init PROVE TypeOK
  OBVIOUS
<1>1. NoUpdates \in [Qids -> Finding]
  BY NothingFound DEF NoUpdates
<1>2. event \in BOOLEAN
  BY Zenon DEF Init
<1>3. updated \in [Workers -> BOOLEAN]
  BY Zenon DEF Init
<1>4. queue \in Seq(SUBSET Qids) /\ Len(queue) <= QueueMaxSize
      /\ pending \in Seq(SUBSET Qids)
  BY PoolAssumption DEF Init
<1>5. fetched \in [Workers -> [Qids -> Finding]]
  BY <1>1 DEF Init
<1>6. live \in [Qids -> Nat \ {0}]
  BY DEF Init
<1> QED BY <1>1, <1>2, <1>3, <1>4, <1>5, <1>6 DEF Init, TypeOK

LEMMA DispatchType == TypeOK /\ Dispatch => TypeOK'
<1> SUFFICES ASSUME TypeOK, Dispatch PROVE TypeOK'
  OBVIOUS
<1>1. CASE DispatcherWake
  <2>1. event' \in BOOLEAN
    BY <1>1, Zenon DEF DispatcherWake
  <2>2. free' \in Nat
    BY <1>1, PoolAssumption DEF DispatcherWake, FreeSlots, TypeOK
  <2> QED BY <1>1, <2>1, <2>2
          DEF DispatcherWake, ClaimsSnapshot, TypeOK, db, workerVars
<1>2. CASE DispatcherSelect
  <2>1. CASE dpc' = "wait"
    <3>1. UNCHANGED <<selected, pending>>
      BY <1>2, <2>1 DEF DispatcherSelect
    <3> QED
      BY <1>2, <2>1, <3>1 DEF DispatcherSelect, TypeOK, db, workerVars
  <2>2. CASE dpc' # "wait"
    <3>1. PICK S \in SUBSET (Qids \ exclude), n \in 1..free :
            /\ selected' = S /\ dpc' = "enqueue"
            /\ pending' \in [1..n -> SUBSET S]
      BY <1>2, <2>2, SelectSplits
    <3>2. pending' \in Seq(SUBSET Qids)
      <4>1. n \in Nat /\ pending' \in [1..n -> SUBSET Qids]
        BY <3>1 DEF TypeOK
      <4> QED BY <4>1
    <3> QED BY <1>2, <3>1, <3>2 DEF DispatcherSelect, TypeOK, db, workerVars
  <2> QED BY <2>1, <2>2
<1>3. CASE DispatcherSelectFails
  BY <1>3 DEF DispatcherSelectFails, TypeOK, db, workerVars
<1>4. CASE DispatcherEnqueue
  <2>1. CASE Len(queue) < QueueMaxSize
    <3>1. /\ Head(pending) \in SUBSET Qids
          /\ Tail(pending) \in Seq(SUBSET Qids)
      <4>1. pending \in Seq(SUBSET Qids) /\ pending # <<>>
        BY <1>4 DEF DispatcherEnqueue, TypeOK
      <4> QED BY <4>1, HeadTailProperties
    <3>2. queue' = Append(queue, Head(pending))
      BY <1>4, <2>1 DEF DispatcherEnqueue
    <3>3. queue \in Seq(SUBSET Qids)
      BY DEF TypeOK
    <3>4. queue' \in Seq(SUBSET Qids) /\ Len(queue') = Len(queue) + 1
      BY <3>1, <3>2, <3>3
    <3>5. Len(queue') <= QueueMaxSize
      BY <2>1, <3>3, <3>4, PoolAssumption
    <3> QED BY <1>4, <2>1, <3>1, <3>4, <3>5
            DEF DispatcherEnqueue, ClaimsWith, TypeOK, db, workerVars
  <2>2. CASE ~(Len(queue) < QueueMaxSize)
    BY <1>4, <2>2 DEF DispatcherEnqueue, TypeOK, db, workerVars
  <2> QED BY <2>1, <2>2
<1> QED BY <1>1, <1>2, <1>3, <1>4 DEF Dispatch
LEMMA EnvironmentType == TypeOK /\ Environment => TypeOK'
<1> SUFFICES ASSUME TypeOK, NEW q \in Qids,
                    Edit(q) \/ RecordChange(q) \/ ChangeInterest(q)
             PROVE TypeOK'
  BY DEF Environment
<1> USE DEF TypeOK, db, dispatcherVars, workerVars
<1>1. CASE Edit(q)
  BY <1>1 DEF Edit
<1>2. CASE RecordChange(q)
  BY <1>2 DEF RecordChange
<1>3. CASE ChangeInterest(q)
  BY <1>3 DEF ChangeInterest
<1> QED BY <1>1, <1>2, <1>3

\* An evaluation finds an answer of each good item, and nothing of the others.
LEMMA EvaluateFinds ==
  ASSUME TypeOK, NEW w \in Workers, NEW good \in SUBSET todo[w],
         WorkerEvaluate(w, good)
  PROVE  /\ fetched' = [fetched EXCEPT ![w] = fetched'[w]]
         /\ fetched'[w] \in [Qids -> Finding]
         /\ \A v \in Workers \ {w} : fetched'[v] = fetched[v]
         /\ \A q \in good : fetched'[w][q] \in Answers(live[q]) /\ fetched'[w][q] # Nothing
         /\ \A q \in Qids \ good : fetched'[w][q] = Nothing
<1>1. PICK found \in [good -> UNION {Answers(live[q]) : q \in good}] :
        /\ \A q \in good : found[q] \in Answers(live[q])
        /\ fetched' = [fetched EXCEPT ![w] =
                         [q \in Qids |-> IF q \in good THEN found[q] ELSE Nothing]]
  BY DEF WorkerEvaluate
<1>2. /\ good \subseteq Qids
      /\ live \in [Qids -> Nat \ {0}]
      /\ fetched \in [Workers -> [Qids -> Finding]]
  BY DEF TypeOK
<1>3. fetched'[w] = [q \in Qids |-> IF q \in good THEN found[q] ELSE Nothing]
  BY <1>1, <1>2
<1>4. \A q \in good : found[q] \in Finding /\ found[q] # Nothing
  BY <1>1, <1>2, AnswersFound
<1>5. fetched'[w] \in [Qids -> Finding]
  BY <1>3, <1>4, NothingFound
<1> QED
  BY <1>1, <1>2, <1>3, <1>4, <1>5

LEMMA WorkType == ASSUME NEW w \in Workers PROVE TypeOK /\ Work(w) => TypeOK'
<1> SUFFICES ASSUME TypeOK, Work(w) PROVE TypeOK'
  OBVIOUS
<1>0. NoUpdates \in [Qids -> Finding]
  BY NothingFound DEF NoUpdates
<1>1. CASE WorkerTake(w)
  <2>1. event' \in BOOLEAN
    BY <1>1, Zenon DEF WorkerTake
  <2>2. updated' \in [Workers -> BOOLEAN]
    BY <1>1 DEF WorkerTake, TypeOK
  <2>3. /\ Head(queue) \in SUBSET Qids
        /\ queue' \in Seq(SUBSET Qids) /\ Len(queue') <= QueueMaxSize
    BY <1>1, PoolAssumption, HeadTailProperties DEF WorkerTake, TypeOK
  <2> QED BY <1>1, <2>1, <2>2, <2>3
          DEF WorkerTake, TypeOK, db, dispatcherVars
<1>2. ASSUME NEW good \in SUBSET todo[w], WorkerEvaluate(w, good)
      PROVE TypeOK'
  <2>1. fetched' \in [Workers -> [Qids -> Finding]]
    BY <1>2, EvaluateFinds, NothingFound DEF TypeOK
  <2> QED BY <1>2, <2>1 DEF WorkerEvaluate, TypeOK, db, dispatcherVars
<1>3. CASE WorkerPersist(w)
  BY <1>0, <1>3 DEF WorkerPersist, Write, TypeOK, dispatcherVars
<1>4. CASE WorkerRaise(w)
  <2>1. row' \in [Qids -> Finding]
    <3>1. CASE row' = row
      BY <3>1 DEF TypeOK
    <3>2. ASSUME NEW written \in SUBSET Qids, Write(w, written)
          PROVE row' \in [Qids -> Finding]
      <4>1. \A q \in Qids : row[q] \in Finding /\ fetched[w][q] \in Finding
        BY DEF TypeOK
      <4> QED BY <3>2, <4>1 DEF Write
    <3> QED BY <1>4, <3>1, <3>2 DEF WorkerRaise
  <2> QED BY <1>0, <1>4, <2>1 DEF WorkerRaise, TypeOK, dispatcherVars
<1>5. CASE WorkerFinish(w)
  BY <1>5 DEF WorkerFinish, Release, TypeOK, db, dispatcherVars
<1>6. CASE WorkerGiveUp(w)
  BY <1>6 DEF WorkerGiveUp, Release, TypeOK, db, dispatcherVars
<1>7. CASE WorkerAwake(w)
  BY <1>7 DEF WorkerAwake, TypeOK, db, dispatcherVars
<1> QED BY <1>1, <1>2, <1>3, <1>4, <1>5, <1>6, <1>7 DEF Work

LEMMA CrashType == TypeOK /\ Crash => TypeOK'
<1> SUFFICES ASSUME TypeOK, Crash PROVE TypeOK'
  OBVIOUS
<1>1. NoUpdates \in [Qids -> Finding]
  BY NothingFound DEF NoUpdates
<1>2. event' \in BOOLEAN /\ updated' \in [Workers -> BOOLEAN]
  BY Zenon DEF Crash
<1>3. queue' \in Seq(SUBSET Qids) /\ Len(queue') <= QueueMaxSize
      /\ pending' \in Seq(SUBSET Qids)
  BY PoolAssumption DEF Crash
<1> QED BY <1>1, <1>2, <1>3 DEF Crash, TypeOK, db
-----------------------------------------------------------------------------
(* The inductive invariant, action by action. *)

LEMMA InitInv == Init => Inv
<1> SUFFICES ASSUME Init PROVE Inv
  OBVIOUS
<1>1. TypeOK
  BY InitType
<1>2. WorkersClaim
  BY DEF Init, NoUpdates, WorkersClaim
<1>3. QueueClaims /\ NoOrphan /\ ExclusiveClaims
  BY DEF Init, QueueClaims, NoOrphan, ExclusiveClaims
<1>4. WhileSelecting /\ WhileEnqueueing /\ NoOverflow /\ BatchesSized
  BY DEF Init, WhileSelecting, WhileEnqueueing, NoOverflow, BatchesSized
<1> QED BY <1>1, <1>2, <1>3, <1>4 DEF Inv

\* Claims, queue and what the coroutines hold stay as they are.
PoolUnchanged == UNCHANGED <<queue, inflight, dispatcherVars, workerVars>>

LEMMA PoolUnchangedInv ==
  ASSUME Inv, PoolUnchanged, TypeOK'
  PROVE  Inv'
<1> USE DEF PoolUnchanged, dispatcherVars, workerVars
<1>1. WorkersClaim' /\ QueueClaims' /\ NoOrphan'
  BY DEF Inv, WorkersClaim, QueueClaims, NoOrphan
<1>2. ExclusiveClaims'
  BY DEF Inv, ExclusiveClaims
<1>3. WhileSelecting' /\ WhileEnqueueing' /\ NoOverflow'
  BY DEF Inv, WhileSelecting, WhileEnqueueing, NoOverflow
<1>4. BatchesSized'
  BY DEF Inv, BatchesSized
<1> QED BY <1>1, <1>2, <1>3, <1>4 DEF Inv

LEMMA EnvironmentInv == Inv /\ Environment => Inv'
<1> SUFFICES ASSUME Inv, NEW q \in Qids,
                    Edit(q) \/ RecordChange(q) \/ ChangeInterest(q)
             PROVE Inv'
  BY DEF Environment
<1>1. TypeOK'
  BY EnvironmentType DEF Inv, Environment
<1>2. PoolUnchanged
  BY DEF Edit, RecordChange, ChangeInterest, PoolUnchanged
<1> QED BY <1>1, <1>2, PoolUnchangedInv

LEMMA DispatchInv == Inv /\ Dispatch => Inv'
<1> SUFFICES ASSUME Inv, Dispatch PROVE Inv'
  OBVIOUS
<1>0. TypeOK /\ TypeOK'
  BY DispatchType DEF Inv
<1>2. CASE DispatcherWake
  <2> USE <1>2 DEF DispatcherWake, workerVars, db
  <2>1. WorkersClaim' /\ QueueClaims' /\ NoOrphan' /\ ExclusiveClaims'
    BY DEF Inv, WorkersClaim, QueueClaims, NoOrphan, ExclusiveClaims
  <2>2. WhileSelecting'
    BY <1>0, PoolAssumption DEF WhileSelecting, FreeSlots, ClaimsSnapshot, TypeOK
  <2>3. WhileEnqueueing' /\ NoOverflow'
    BY DEF WhileEnqueueing, NoOverflow
  <2>4. BatchesSized'
    BY DEF Inv, BatchesSized
  <2> QED BY <1>0, <2>1, <2>2, <2>3, <2>4 DEF Inv
<1>3. CASE DispatcherSelect
  <2> USE <1>3 DEF DispatcherSelect, workerVars, db
  <2>1. WorkersClaim' /\ QueueClaims' /\ NoOrphan' /\ ExclusiveClaims'
    BY DEF Inv, WorkersClaim, QueueClaims, NoOrphan, ExclusiveClaims
  <2>2. WhileSelecting' /\ NoOverflow'
    BY DEF WhileSelecting, NoOverflow
  <2>3. WhileEnqueueing'
    <3>0. SUFFICES ASSUME dpc' # "wait" PROVE WhileEnqueueing'
      BY DEF WhileEnqueueing
    <3>1. PICK S \in SUBSET (Qids \ exclude), n \in 1..free :
            pending' \in [1..n -> SUBSET S] /\ Shares(pending', S)
      BY <1>0, <3>0, SelectSplits
    <3>2. free \in Nat /\ n \in Nat /\ n # 0 /\ Len(pending') = n
      BY <1>0, <3>1 DEF TypeOK
    <3>3. Len(pending') + Len(queue') <= QueueMaxSize
      BY <1>0, <3>1, <3>2, PoolAssumption DEF Inv, WhileSelecting, TypeOK
    <3>4. \A i \in 1..n : pending'[i] \intersect inflight' = {}
      BY <3>1 DEF Inv, WhileSelecting
    <3>5. \A i, j \in 1..n : i # j => pending'[i] \intersect pending'[j] = {}
      BY <3>1, <3>2 DEF Shares
    <3> QED BY <3>2, <3>3, <3>4, <3>5 DEF WhileEnqueueing
  <2>4. BatchesSized'
    <3>1. CASE dpc' = "wait"
      BY <3>1 DEF Inv, BatchesSized
    <3>2. CASE dpc' # "wait"
      <4>1. PICK S \in SUBSET (Qids \ exclude), n \in 1..free :
              /\ pending' \in [1..n -> SUBSET S]
              /\ \A i \in 1..n : Cardinality(pending'[i]) \in 1..BatchSize
        BY <1>0, <3>2, SelectSplits
      <4>2. n \in Nat /\ Len(pending') = n
        BY <1>0, <4>1 DEF TypeOK
      <4> QED
        BY <4>1, <4>2 DEF Inv, BatchesSized
    <3> QED BY <3>1, <3>2
  <2> QED BY <1>0, <2>1, <2>2, <2>3, <2>4 DEF Inv
<1>4. CASE DispatcherSelectFails
  <2> USE <1>4 DEF DispatcherSelectFails, workerVars, db
  <2>1. WorkersClaim' /\ QueueClaims' /\ NoOrphan' /\ ExclusiveClaims'
    BY DEF Inv, WorkersClaim, QueueClaims, NoOrphan, ExclusiveClaims
  <2>2. WhileSelecting' /\ WhileEnqueueing' /\ NoOverflow'
    BY DEF WhileSelecting, WhileEnqueueing, NoOverflow
  <2>3. BatchesSized'
    BY DEF Inv, BatchesSized
  <2> QED BY <1>0, <2>1, <2>2, <2>3 DEF Inv
<1>5. CASE DispatcherEnqueue
  <2> DEFINE b == Head(pending)
             n == Len(queue)
  <2>1. /\ n \in Nat /\ n < QueueMaxSize
        /\ dpc = "enqueue" /\ pending # <<>>
        /\ pending \in Seq(SUBSET Qids) /\ queue \in Seq(SUBSET Qids)
    BY <1>0, <1>5, PoolAssumption
       DEF Inv, WhileEnqueueing, DispatcherEnqueue, TypeOK
  <2>2. /\ inflight' = inflight \union b
        /\ queue' = Append(queue, b)
        /\ pending' = Tail(pending)
        /\ dpc' = IF pending' = <<>> THEN "wait" ELSE "enqueue"
        /\ UNCHANGED <<row, live, held, todo, fetched, wpc>>
    BY <1>5, <2>1 DEF DispatcherEnqueue, ClaimsWith, workerVars, db
  <2>3. /\ b = pending[1] /\ 1 \in 1..Len(pending)
        /\ Len(pending) \in Nat /\ Len(pending') = Len(pending) - 1
        /\ \A i \in 1..Len(pending') :
              i + 1 \in 1..Len(pending) /\ pending'[i] = pending[i + 1]
    BY <2>1, <2>2
  <2>4. /\ Len(queue') = n + 1
        /\ \A i \in 1..n : queue'[i] = queue[i]
        /\ queue'[n + 1] = b
    BY <2>1, <2>2
  <2>5. b \intersect inflight = {}
    BY <2>1, <2>3 DEF Inv, WhileEnqueueing
  <2>6. WorkersClaim'
    BY <2>2 DEF Inv, WorkersClaim
  <2>7. QueueClaims'
    BY <2>1, <2>2, <2>4 DEF Inv, QueueClaims
  <2>8. NoOrphan'
    <3>1. SUFFICES ASSUME NEW q \in inflight'
                   PROVE \/ \E i \in 1..Len(queue') : q \in queue'[i]
                         \/ \E v \in Workers : q \in held[v]
      BY <2>2 DEF NoOrphan
    <3>2. n + 1 \in 1..Len(queue') /\ \A i \in 1..n : i \in 1..Len(queue')
      BY <2>1, <2>4
    <3>3. CASE q \in b
      BY <2>4, <3>2, <3>3
    <3>4. CASE q \in inflight
      BY <2>4, <3>2, <3>4 DEF Inv, NoOrphan
    <3> QED BY <2>2, <3>3, <3>4
  <2>9. ExclusiveClaims'
    BY <2>1, <2>2, <2>4, <2>5
       DEF Inv, ExclusiveClaims, QueueClaims, WorkersClaim
  <2>10. WhileSelecting' /\ NoOverflow'
    BY <2>2 DEF WhileSelecting, NoOverflow
  <2>11. WhileEnqueueing'
    <3>1. \A i, j \in 1..Len(pending) :
             i # j => pending[i] \intersect pending[j] = {}
      BY <2>1 DEF Inv, WhileEnqueueing
    <3>2. \A i \in 1..Len(pending) : pending[i] \intersect inflight = {}
      BY <2>1 DEF Inv, WhileEnqueueing
    <3>3. ASSUME NEW i \in 1..Len(pending')
          PROVE pending'[i] \intersect inflight' = {}
      <4>1. i + 1 # 1 /\ i + 1 \in 1..Len(pending)
        BY <2>3, <3>3
      <4>2. pending[i + 1] \intersect b = {}
        BY <2>3, <3>1, <4>1
      <4> QED BY <2>2, <2>3, <3>2, <4>1, <4>2
    <3>4. ASSUME NEW i \in 1..Len(pending'), NEW j \in 1..Len(pending'), i # j
          PROVE pending'[i] \intersect pending'[j] = {}
      <4>1. i + 1 # j + 1
        BY <3>4, <2>3
      <4> QED BY <2>3, <3>1, <4>1
    <3>5. Len(pending') + Len(queue') <= QueueMaxSize
      BY <2>1, <2>3, <2>4, PoolAssumption DEF Inv, WhileEnqueueing
    <3> QED BY <2>2, <3>3, <3>4, <3>5 DEF WhileEnqueueing
  <2>12. BatchesSized'
    <3>1. \A i \in 1..Len(queue') : Cardinality(queue'[i]) \in 1..BatchSize
      BY <2>1, <2>3, <2>4 DEF Inv, BatchesSized
    <3>2. \A i \in 1..Len(pending') : Cardinality(pending'[i]) \in 1..BatchSize
      BY <2>3 DEF Inv, BatchesSized
    <3> QED BY <3>1, <3>2 DEF BatchesSized
  <2> QED BY <1>0, <2>6, <2>7, <2>8, <2>9, <2>10, <2>11, <2>12 DEF Inv
<1> QED BY <1>2, <1>3, <1>4, <1>5 DEF Dispatch

LEMMA WorkInv == ASSUME NEW w \in Workers PROVE Inv /\ Work(w) => Inv'
<1> SUFFICES ASSUME Inv, Work(w) PROVE Inv'
  OBVIOUS
<1>0. TypeOK /\ TypeOK'
  BY WorkType DEF Inv
<1>1. CASE WorkerTake(w)
  <2> DEFINE n == Len(queue)
             b == Head(queue)
  <2>1. /\ queue \in Seq(SUBSET Qids) /\ queue # <<>>
        /\ n \in Nat /\ n # 0
    BY <1>0, <1>1 DEF WorkerTake, TypeOK
  <2>2. /\ queue' = Tail(queue)
        /\ held' = [held EXCEPT ![w] = b]
        /\ todo' = [todo EXCEPT ![w] = b]
        /\ UNCHANGED <<row, live, inflight, dpc, free, exclude, pending, fetched>>
    BY <1>1 DEF WorkerTake, db, dispatcherVars
  <2>3. /\ b = queue[1] /\ 1 \in 1..n
        /\ Len(queue') = n - 1
        /\ \A i \in 1..Len(queue') :
              i + 1 \in 1..n /\ i + 1 # 1 /\ queue'[i] = queue[i + 1]
    BY <2>1, <2>2
  <2>4. b \subseteq inflight /\ \A v \in Workers : b \intersect held[v] = {}
    BY <2>3 DEF Inv, QueueClaims, ExclusiveClaims
  <2>5. /\ held'[w] = b /\ todo'[w] = b
        /\ wpc'[w] = "evaluate"
        /\ \A v \in Workers : v # w => /\ held'[v] = held[v]
                                       /\ todo'[v] = todo[v]
                                       /\ wpc'[v] = wpc[v]
    BY <1>0, <1>1, <2>2 DEF TypeOK, WorkerTake
  <2>7. held[w] = {} /\ \A q \in Qids : fetched[w][q] = Nothing
    BY <1>1 DEF WorkerTake, Inv, WorkersClaim
  <2>8. WorkersClaim'
    BY <2>2, <2>4, <2>5, <2>7 DEF Inv, WorkersClaim
  <2>9. QueueClaims'
    BY <2>2, <2>3 DEF Inv, QueueClaims
  <2>10. NoOrphan'
    <3>1. SUFFICES ASSUME NEW q \in inflight
                   PROVE \/ \E i \in 1..Len(queue') : q \in queue'[i]
                         \/ \E v \in Workers : q \in held'[v]
      BY <2>2 DEF NoOrphan
    <3>2. CASE \E v \in Workers : q \in held[v]
      BY <2>5, <2>7, <3>2
    <3>3. ASSUME NEW i \in 1..n, q \in queue[i]
          PROVE \/ \E k \in 1..Len(queue') : q \in queue'[k]
                \/ \E v \in Workers : q \in held'[v]
      <4>1. CASE i = 1
        BY <2>3, <2>5, <3>3, <4>1
      <4>2. CASE i # 1
        <5>1. i - 1 \in 1..Len(queue') /\ (i - 1) + 1 = i
          BY <2>1, <2>3, <4>2
        <5>2. queue'[i - 1] = queue[i]
          BY <2>3, <5>1
        <5> QED BY <3>3, <5>1, <5>2
      <4> QED BY <4>1, <4>2
    <3> QED BY <3>2, <3>3 DEF Inv, NoOrphan
  <2>11. ExclusiveClaims'
    BY <2>2, <2>3, <2>4, <2>5 DEF Inv, ExclusiveClaims
  <2>12. WhileSelecting' /\ WhileEnqueueing' /\ NoOverflow'
    BY <2>1, <2>2, <2>3, <1>0, PoolAssumption
       DEF Inv, WhileSelecting, WhileEnqueueing, NoOverflow, TypeOK
  <2>13. BatchesSized'
    BY <2>2, <2>3 DEF Inv, BatchesSized
  <2> QED BY <1>0, <2>8, <2>9, <2>10, <2>11, <2>12, <2>13 DEF Inv
<1>2. ASSUME NEW good \in SUBSET todo[w], WorkerEvaluate(w, good)
      PROVE Inv'
  <2>1. /\ wpc[w] = "evaluate"
        /\ UNCHANGED <<queue, inflight, row, live, held, dpc, free, exclude,
                       pending>>
    BY <1>2 DEF WorkerEvaluate, db, dispatcherVars
  <2>2. /\ todo'[w] \subseteq todo[w]
        /\ wpc'[w] = IF good = {} THEN "evaluate" ELSE "persist"
        /\ \A v \in Workers : v # w => /\ todo'[v] = todo[v]
                                       /\ wpc'[v] = wpc[v]
    BY <1>0, <1>2 DEF TypeOK, WorkerEvaluate
  <2>3. good \subseteq held[w]
    BY DEF Inv, WorkersClaim
  <2>4. /\ \A q \in Qids : fetched'[w][q] # Nothing => q \in good
        /\ \A v \in Workers : v # w => fetched'[v] = fetched[v]
    BY <1>0, <1>2, EvaluateFinds
  <2>5. WorkersClaim'
    BY <2>1, <2>2, <2>3, <2>4 DEF Inv, WorkersClaim
  <2>6. QueueClaims' /\ NoOrphan' /\ ExclusiveClaims'
    BY <2>1 DEF Inv, QueueClaims, NoOrphan, ExclusiveClaims
  <2>7. WhileSelecting' /\ WhileEnqueueing' /\ NoOverflow'
    BY <2>1 DEF Inv, WhileSelecting, WhileEnqueueing, NoOverflow
  <2>8. BatchesSized'
    BY <2>1 DEF Inv, BatchesSized
  <2> QED BY <1>0, <2>5, <2>6, <2>7, <2>8 DEF Inv
<1>3. CASE WorkerPersist(w) \/ WorkerRaise(w)
  <2>1. /\ UNCHANGED <<queue, inflight, live, held, todo, dpc, free, exclude,
                       pending>>
        /\ wpc[w] \in {"evaluate", "persist"}
        /\ wpc'[w] \in {"evaluate", "failed"}
        /\ \A q \in Qids : fetched'[w][q] = Nothing
        /\ \A v \in Workers : v # w => /\ wpc'[v] = wpc[v]
                                       /\ fetched'[v] = fetched[v]
    BY <1>0, <1>3
       DEF TypeOK, WorkerPersist, WorkerRaise, NoUpdates, dispatcherVars
  <2>4. WorkersClaim'
    BY <2>1 DEF Inv, WorkersClaim
  <2>5. QueueClaims' /\ NoOrphan' /\ ExclusiveClaims'
    BY <2>1 DEF Inv, QueueClaims, NoOrphan, ExclusiveClaims
  <2>6. WhileSelecting' /\ WhileEnqueueing' /\ NoOverflow'
    BY <2>1 DEF Inv, WhileSelecting, WhileEnqueueing, NoOverflow
  <2>7. BatchesSized'
    BY <2>1 DEF Inv, BatchesSized
  <2> QED BY <1>0, <2>4, <2>5, <2>6, <2>7 DEF Inv
<1>4. CASE WorkerFinish(w) \/ WorkerGiveUp(w)
  <2>1. /\ UNCHANGED <<queue, live, row, fetched, dpc, free, exclude, pending>>
        /\ inflight' = inflight \ held[w]
        /\ wpc[w] \in {"evaluate", "failed"}
        /\ held'[w] = {} /\ todo'[w] = {}
        /\ \A v \in Workers : v # w => /\ held'[v] = held[v]
                                       /\ todo'[v] = todo[v]
                                       /\ wpc'[v] = wpc[v]
    BY <1>0, <1>4
       DEF TypeOK, WorkerFinish, WorkerGiveUp, Release, db, dispatcherVars
  <2>3. \A v \in Workers : v # w => held[v] \intersect held[w] = {}
    BY DEF Inv, ExclusiveClaims
  <2>4. WorkersClaim'
    <3>1. \A q \in Qids : fetched[w][q] = Nothing
      BY <2>1 DEF Inv, WorkersClaim
    <3> QED BY <2>1, <2>3, <3>1 DEF Inv, WorkersClaim
  <2>5. QueueClaims'
    BY <2>1 DEF Inv, QueueClaims, ExclusiveClaims
  <2>6. NoOrphan'
    BY <2>1 DEF Inv, NoOrphan
  <2>7. ExclusiveClaims'
    BY <2>1 DEF Inv, ExclusiveClaims
  <2>8. WhileSelecting' /\ WhileEnqueueing' /\ NoOverflow'
    BY <2>1 DEF Inv, WhileSelecting, WhileEnqueueing, NoOverflow
  <2>9. BatchesSized'
    BY <2>1 DEF Inv, BatchesSized
  <2> QED BY <1>0, <2>4, <2>5, <2>6, <2>7, <2>8, <2>9 DEF Inv
<1>5. CASE WorkerAwake(w)
  <2>1. UNCHANGED <<queue, inflight, live, row, held, todo, fetched, dpc, free,
                    exclude, pending>>
    BY <1>5 DEF WorkerAwake, db, dispatcherVars
  <2>2. /\ wpc[w] = "idle"
        /\ \A v \in Workers : v # w => wpc'[v] = wpc[v]
    BY <1>0, <1>5 DEF WorkerAwake, TypeOK
  <2>3. WorkersClaim'
    BY <2>1, <2>2 DEF Inv, WorkersClaim
  <2>4. QueueClaims' /\ NoOrphan' /\ ExclusiveClaims'
    BY <2>1 DEF Inv, QueueClaims, NoOrphan, ExclusiveClaims
  <2>5. WhileSelecting' /\ WhileEnqueueing' /\ NoOverflow'
    BY <2>1 DEF Inv, WhileSelecting, WhileEnqueueing, NoOverflow
  <2>6. BatchesSized'
    BY <2>1 DEF Inv, BatchesSized
  <2> QED BY <1>0, <2>3, <2>4, <2>5, <2>6 DEF Inv
<1> QED BY <1>1, <1>2, <1>3, <1>4, <1>5 DEF Work

LEMMA CrashInv == Inv /\ Crash => Inv'
<1> SUFFICES ASSUME Inv, Crash PROVE Inv'
  OBVIOUS
<1>1. TypeOK'
  BY CrashType DEF Inv
<1>3. WorkersClaim'
  BY DEF Inv, TypeOK, Crash, NoUpdates, WorkersClaim
<1>4. QueueClaims' /\ NoOrphan' /\ ExclusiveClaims'
  BY DEF Crash, QueueClaims, NoOrphan, ExclusiveClaims
<1>5. WhileSelecting' /\ WhileEnqueueing' /\ NoOverflow'
  BY DEF Crash, WhileSelecting, WhileEnqueueing, NoOverflow
<1>6. BatchesSized'
  BY DEF Crash, BatchesSized
<1> QED BY <1>1, <1>3, <1>4, <1>5, <1>6 DEF Inv

LEMMA NextInv == Inv /\ [Next]_vars => Inv'
<1> SUFFICES ASSUME Inv, [Next]_vars PROVE Inv'
  OBVIOUS
<1>1. CASE UNCHANGED vars
  <2>1. TypeOK' /\ PoolUnchanged
    BY <1>1 DEF vars, db, dispatcherVars, workerVars, PoolUnchanged, Inv, TypeOK
  <2> QED BY <2>1, PoolUnchangedInv
<1> QED BY <1>1, EnvironmentInv, DispatchInv, WorkInv, CrashInv DEF Next

-----------------------------------------------------------------------------
(* The theorems. *)

\* The inductive invariant holds throughout.
THEOREM Invariance == Spec => []Inv
BY InitInv, NextInv, PTL DEF Spec

\* Every variable keeps its type, and the queue its bound.
THEOREM TypeCorrect == Spec => []TypeOK
<1>1. Inv => TypeOK
  BY DEF Inv
<1> QED BY <1>1, Invariance, PTL

\* No item is ever in two batches (worker.py, _dispatcher_loop).
THEOREM ClaimsExclusive == Spec => []ExclusiveClaims
<1>1. Inv => ExclusiveClaims
  BY DEF Inv
<1> QED BY <1>1, Invariance, PTL

\* No claim outlives its batch (worker.py, worker_loop's finally clause).
THEOREM NoClaimLeaks == Spec => []ClaimsAccounted
<1>1. Inv => ClaimsAccounted
  <2> SUFFICES ASSUME Inv PROVE ClaimsAccounted
    OBVIOUS
  <2>1. UNION {queue[i] : i \in 1..Len(queue)} \subseteq inflight
    BY DEF Inv, QueueClaims
  <2>2. UNION {held[w] : w \in Workers} \subseteq inflight
    BY DEF Inv, WorkersClaim
  <2>3. ASSUME NEW q \in inflight
        PROVE  \/ q \in UNION {queue[i] : i \in 1..Len(queue)}
               \/ q \in UNION {held[w] : w \in Workers}
    BY DEF Inv, NoOrphan
  <2> QED BY <2>1, <2>2, <2>3, Zenon DEF ClaimsAccounted
<1> QED BY <1>1, Invariance, PTL

\* put_nowait never raises QueueFull (worker.py, _dispatcher_loop).
THEOREM QueueNeverFull == Spec => []NoOverflow
<1>1. Inv => NoOverflow
  BY DEF Inv
<1> QED BY <1>1, Invariance, PTL

\* Batches are never empty nor longer than DEFAULT_BATCH_SIZE, whatever the
\* number of candidates and slots (worker.py, _select_content_batches).
THEOREM NoBatchTooLong == Spec => []BatchesSized
<1>1. Inv => BatchesSized
  BY DEF Inv
<1> QED BY <1>1, Invariance, PTL

\* The batches of a selection are a partition of it into equal shares
\* (worker.py, _split_content_qids).
THEOREM SelectionIsShared == Spec => SelectionShared
<1>1. ASSUME Inv, Next, dpc = "select", dpc' = "enqueue"
      PROVE  Shares(pending', selected')
  <2>1. DispatcherSelect
    BY <1>1 DEF Next, Environment, Edit, RecordChange, ChangeInterest, Dispatch,
                DispatcherWake, DispatcherSelectFails, DispatcherEnqueue, Work,
                WorkerTake, WorkerEvaluate, WorkerPersist, WorkerRaise, WorkerFinish,
                WorkerGiveUp, WorkerAwake, Crash, dispatcherVars
  <2> QED
    BY <1>1, <2>1, SelectSplits DEF Inv
<1>2. Inv /\ [Next]_vars
        => [dpc = "select" /\ dpc' = "enqueue" => Shares(pending', selected')]_vars
  BY <1>1
<1> QED BY <1>2, Invariance, PTL DEF Spec, SelectionShared

-----------------------------------------------------------------------------
(* The refinement: the pool implements SingleFlight. *)

\* SingleFlight speaks of the same findings.
LEMMA SameFindings ==
  /\ Flight!Finding = Finding /\ Flight!Nothing = Nothing
  /\ \A r : Flight!Answers(r) = Answers(r)
BY DEF Flight!Finding, Finding, Flight!Nothing, Nothing, Flight!Answers, Answers,
       Flight!Gone, Gone, Flight!Page, Page, Flight!LateRedirect, LateRedirect

\* A finding in the air is that of a worker that holds the item.
LEMMA InFlightHeld ==
  ASSUME WorkersClaim, NEW f \in InFlight
  PROVE  \E w \in Workers, q \in Qids :
           /\ f = <<q, fetched[w][q]>> /\ fetched[w][q] # Nothing
           /\ q \in held[w] /\ wpc[w] = "persist"
BY DEF InFlight, WorkersClaim

\* What a worker is about to write.
Carried(w) == {<<q, fetched[w][q]>> : q \in {p \in Qids : fetched[w][p] # Nothing}}

LEMMA CarriedInFlight ==
  ASSUME NEW w \in Workers
  PROVE  Carried(w) \subseteq InFlight
BY DEF Carried, InFlight

\* When a worker has nothing in its hands any more, what it carried is gone from
\* the air, and nothing else: no other worker carries one of its items.
LEMMA CarriedGone ==
  ASSUME TypeOK, WorkersClaim, ExclusiveClaims, NEW w \in Workers,
         fetched' = [fetched EXCEPT ![w] = NoUpdates]
  PROVE  InFlight' = InFlight \ Carried(w)
<1>1. /\ \A q \in Qids : fetched'[w][q] = Nothing
      /\ \A v \in Workers \ {w} : fetched'[v] = fetched[v]
  BY DEF TypeOK, NoUpdates
<1>2. ASSUME NEW f \in InFlight' PROVE f \in InFlight \ Carried(w)
  <2>1. PICK v \in Workers, q \in Qids : f = <<q, fetched'[v][q]>> /\ fetched'[v][q] # Nothing
    BY <1>2 DEF InFlight
  <2>2. v # w /\ fetched'[v][q] = fetched[v][q]
    BY <1>1, <2>1
  <2>3. q \in held[v]
    BY <2>1, <2>2 DEF WorkersClaim
  <2>4. fetched[w][q] = Nothing
    BY <2>2, <2>3 DEF ExclusiveClaims, WorkersClaim
  <2> QED
    BY <2>1, <2>2, <2>4 DEF InFlight, Carried
<1>3. ASSUME NEW f \in InFlight, f \notin Carried(w) PROVE f \in InFlight'
  <2>1. PICK v \in Workers, q \in Qids : f = <<q, fetched[v][q]>> /\ fetched[v][q] # Nothing
    BY DEF InFlight
  <2>2. v # w
    BY <1>3, <2>1 DEF Carried
  <2> QED
    BY <1>1, <2>1, <2>2 DEF InFlight
<1> QED
  BY <1>2, <1>3

\* Writing some of what a worker carries, and losing the rest, is a landing.
LEMMA WriteLands ==
  ASSUME Inv, NEW w \in Workers, NEW written \in SUBSET Qids, Write(w, written),
         fetched' = [fetched EXCEPT ![w] = NoUpdates], UNCHANGED <<live, inflight>>
  PROVE  Flight!FlightNext
<1> DEFINE S == {<<q, fetched[w][q]>> : q \in {p \in written : fetched[w][p] # Nothing}}
           down == Carried(w)
<1>1. S \subseteq down /\ down \subseteq InFlight
  BY CarriedInFlight DEF Carried
<1>2. InFlight' = InFlight \ down
  BY CarriedGone DEF Inv
<1>3. ASSUME NEW q \in Qids
      PROVE  Flight!FoundOf(S, q) = IF q \in written /\ fetched[w][q] # Nothing
                                     THEN {fetched[w][q]} ELSE {}
  <2>1. ASSUME NEW g \in S, g[1] = q
        PROVE  q \in written /\ fetched[w][q] # Nothing /\ g[2] = fetched[w][q]
    <3>1. PICK p \in written : fetched[w][p] # Nothing /\ g = <<p, fetched[w][p]>>
      OBVIOUS
    <3> QED
      BY <2>1, <3>1
  <2>2. ASSUME q \in written, fetched[w][q] # Nothing
        PROVE  \E g \in S : g[1] = q /\ g[2] = fetched[w][q]
    <3>1. <<q, fetched[w][q]>> \in S
      BY <2>2
    <3> QED
      BY <3>1
  <2> HIDE DEF S
  <2>3. CASE q \in written /\ fetched[w][q] # Nothing
    BY <2>1, <2>2, <2>3 DEF Flight!FoundOf
  <2>4. CASE ~(q \in written /\ fetched[w][q] # Nothing)
    BY <2>1, <2>4 DEF Flight!FoundOf
  <2> QED
    BY <2>3, <2>4
<1>4. row' = [q \in Qids |-> IF Flight!FoundOf(S, q) = {} THEN row[q]
                             ELSE CHOOSE v \in Flight!FoundOf(S, q) : TRUE]
  <2> SUFFICES ASSUME NEW q \in Qids
               PROVE  (IF q \in written /\ fetched[w][q] # Nothing THEN fetched[w][q] ELSE row[q])
                        = IF Flight!FoundOf(S, q) = {} THEN row[q]
                          ELSE CHOOSE v \in Flight!FoundOf(S, q) : TRUE
    BY DEF Write
  <2> HIDE DEF S
  <2>1. CASE q \in written /\ fetched[w][q] # Nothing
    <3>1. Flight!FoundOf(S, q) = {fetched[w][q]}
      BY <1>3, <2>1
    <3>2. (CHOOSE v \in {fetched[w][q]} : TRUE) = fetched[w][q]
      OBVIOUS
    <3> QED
      BY <2>1, <3>1, <3>2
  <2>2. CASE ~(q \in written /\ fetched[w][q] # Nothing)
    BY <1>3, <2>2
  <2> QED
    BY <2>1, <2>2
<1> HIDE DEF S, down
<1>5. Flight!Land(S, down)
  BY <1>1, <1>2, <1>4 DEF Flight!Land
<1> QED
  BY <1>1, <1>5 DEF Flight!FlightNext

LEMMA EnvironmentFlies ==
  ASSUME Inv, Environment
  PROVE  Flight!FlightNext \/ UNCHANGED Flight!flightVars
<1>1. PICK q \in Qids : Edit(q) \/ RecordChange(q) \/ ChangeInterest(q)
  BY DEF Environment
<1>2. UNCHANGED <<row, inflight, InFlight>>
  BY <1>1 DEF Edit, RecordChange, ChangeInterest, db, workerVars, InFlight
<1>3. CASE Edit(q)
  <2>1. Flight!Revise(q)
    BY <1>2, <1>3 DEF Edit, Flight!Revise
  <2> QED
    BY <2>1 DEF Flight!FlightNext
<1>4. CASE RecordChange(q) \/ ChangeInterest(q)
  BY <1>2, <1>4 DEF RecordChange, ChangeInterest, Flight!flightVars
<1> QED
  BY <1>1, <1>3, <1>4

\* Reserving a batch is the pool's only way to take items, and it takes none
\* twice: the selection excluded the claims, and no other claims were made.
LEMMA DispatchFlies ==
  ASSUME Inv, Inv', Dispatch
  PROVE  Flight!FlightNext \/ UNCHANGED Flight!flightVars
<1>1. UNCHANGED <<live, row, InFlight>>
  BY DEF Dispatch, DispatcherWake, DispatcherSelect, DispatcherSelectFails,
         DispatcherEnqueue, db, workerVars, InFlight
<1>2. CASE DispatcherWake \/ DispatcherSelect \/ DispatcherSelectFails
  BY <1>1, <1>2 DEF DispatcherWake, DispatcherSelect, DispatcherSelectFails,
                    Flight!flightVars
<1>3. CASE DispatcherEnqueue
  <2> DEFINE b == Head(pending)
  <2>1. dpc' # "overflow"
    BY DEF Inv, NoOverflow
  <2>2. inflight' = inflight \union b
    BY <1>3, <2>1 DEF DispatcherEnqueue, ClaimsWith
  <2>3. /\ pending \in Seq(SUBSET Qids) /\ pending # <<>>
        /\ \A i \in 1..Len(pending) : pending[i] \intersect inflight = {}
    BY <1>3 DEF DispatcherEnqueue, Inv, TypeOK, WhileEnqueueing
  <2>4. b \in SUBSET Qids /\ b \intersect inflight = {}
    BY <2>3
  <2> HIDE DEF b
  <2>5. Flight!Take(b)
    BY <1>1, <2>2, <2>4 DEF Flight!Take
  <2> QED
    BY <2>4, <2>5 DEF Flight!FlightNext
<1> QED
  BY <1>2, <1>3 DEF Dispatch

\* An evaluation fetches what the worker holds, with nothing of it in the air.
LEMMA EvaluateFlies ==
  ASSUME Inv, NEW w \in Workers, NEW good \in SUBSET todo[w],
         WorkerEvaluate(w, good)
  PROVE  Flight!FlightNext
<1> DEFINE new == {<<q, fetched'[w][q]>> : q \in good}
<1>1. /\ UNCHANGED <<live, row, inflight>>
      /\ \A q \in good : fetched'[w][q] \in Answers(live[q]) /\ fetched'[w][q] # Nothing
      /\ \A q \in Qids \ good : fetched'[w][q] = Nothing
      /\ \A v \in Workers \ {w} : fetched'[v] = fetched[v]
  BY EvaluateFinds DEF Inv, WorkerEvaluate, db
<1>2. /\ good \subseteq held[w] /\ good \subseteq inflight
      /\ good \in SUBSET Qids
  BY DEF Inv, TypeOK, WorkersClaim
<1>3. \A q \in Qids : fetched[w][q] = Nothing
  BY DEF Inv, WorkersClaim, WorkerEvaluate
<1>4. ASSUME NEW f \in InFlight PROVE f[1] \notin good
  <2>1. PICK v \in Workers, q \in Qids :
          f = <<q, fetched[v][q]>> /\ fetched[v][q] # Nothing /\ q \in held[v]
    BY InFlightHeld DEF Inv
  <2>2. v # w
    BY <1>3, <2>1
  <2> QED
    BY <1>2, <2>1, <2>2 DEF Inv, ExclusiveClaims
<1>6. ASSUME NEW f \in InFlight' PROVE f \in InFlight \union new
  <2>1. PICK v \in Workers, q \in Qids : f = <<q, fetched'[v][q]>> /\ fetched'[v][q] # Nothing
    BY <1>6 DEF InFlight
  <2>2. CASE v = w
    BY <1>1, <2>1, <2>2
  <2>3. CASE v # w
    BY <1>1, <2>1, <2>3 DEF InFlight
  <2> QED
    BY <2>2, <2>3
<1>7. ASSUME NEW f \in InFlight PROVE f \in InFlight'
  <2>1. PICK v \in Workers, q \in Qids : f = <<q, fetched[v][q]>> /\ fetched[v][q] # Nothing
    BY DEF InFlight
  <2>2. v # w
    BY <1>3, <2>1
  <2> QED
    BY <1>1, <2>1, <2>2 DEF InFlight
<1>8. ASSUME NEW f \in new PROVE f \in InFlight'
  <2>1. PICK q \in good : f = <<q, fetched'[w][q]>>
    BY <1>8
  <2>2. q \in Qids /\ fetched'[w][q] # Nothing
    BY <1>1, <1>2
  <2> QED
    BY <2>1, <2>2 DEF InFlight
<1>9. InFlight' = InFlight \union new
  BY <1>6, <1>7, <1>8
<1> DEFINE found == [q \in good |-> fetched'[w][q]]
<1>10. /\ found \in [good -> UNION {Answers(live[q]) : q \in good}]
       /\ \A q \in good : found[q] \in Answers(live[q])
       /\ new = {<<q, found[q]>> : q \in good}
  BY <1>1
<1> HIDE DEF found, new
<1>11. Flight!Fetch(good)
  BY <1>1, <1>2, <1>4, <1>9, <1>10, SameFindings DEF Flight!Fetch
<1> QED
  BY <1>2, <1>11 DEF Flight!FlightNext

\* A worker releases its batch with nothing of it in the air.
LEMMA ReleaseFlies ==
  ASSUME Inv, NEW w \in Workers, wpc[w] # "persist", Release(w),
         UNCHANGED <<live, row, fetched>>
  PROVE  Flight!FlightNext
<1>1. UNCHANGED InFlight
  BY DEF InFlight
<1>2. ASSUME NEW f \in InFlight PROVE f[1] \notin held[w]
  <2>1. PICK v \in Workers, q \in Qids :
          f = <<q, fetched[v][q]>> /\ q \in held[v] /\ wpc[v] = "persist"
    BY InFlightHeld DEF Inv
  <2> QED
    BY <2>1 DEF Inv, ExclusiveClaims
<1>3. held[w] \in SUBSET Qids
  BY DEF Inv, TypeOK
<1>4. Flight!LetGo(held[w])
  BY <1>1, <1>2 DEF Release, Flight!LetGo
<1> QED
  BY <1>3, <1>4 DEF Flight!FlightNext

LEMMA WorkFlies ==
  ASSUME Inv, NEW w \in Workers, Work(w)
  PROVE  Flight!FlightNext \/ UNCHANGED Flight!flightVars
<1>1. CASE WorkerTake(w) \/ WorkerAwake(w)
  BY <1>1 DEF WorkerTake, WorkerAwake, db, Flight!flightVars, InFlight
<1>2. CASE \E good \in SUBSET todo[w] : WorkerEvaluate(w, good)
  BY <1>2, EvaluateFlies
<1>3. CASE WorkerPersist(w)
  BY <1>3, WriteLands DEF WorkerPersist
<1>4. CASE WorkerRaise(w)
  <2>1. CASE wpc[w] = "evaluate"
    <3>1. \A q \in Qids : fetched[w][q] = Nothing
      BY <2>1 DEF Inv, WorkersClaim
    <3>2. Carried(w) = {}
      BY <3>1 DEF Carried
    <3>3. InFlight' = InFlight \ Carried(w)
      BY <1>4, CarriedGone DEF Inv, WorkerRaise
    <3> QED
      BY <1>4, <2>1, <3>2, <3>3 DEF WorkerRaise, Flight!flightVars
  <2>2. CASE wpc[w] # "evaluate"
    <3>1. PICK written \in SUBSET Qids : Write(w, written)
      BY <1>4, <2>2 DEF WorkerRaise
    <3> QED
      BY <1>4, <3>1, WriteLands DEF WorkerRaise
  <2> QED
    BY <2>1, <2>2
<1>5. CASE WorkerFinish(w) \/ WorkerGiveUp(w)
  BY <1>5, ReleaseFlies DEF WorkerFinish, WorkerGiveUp, db
<1> QED
  BY <1>1, <1>2, <1>3, <1>4, <1>5 DEF Work

\* The death of the process lets everything go at once.
LEMMA CrashFlies ==
  ASSUME Inv, Crash
  PROVE  Flight!FlightNext
<1>1. inflight' = {} /\ UNCHANGED <<live, row>>
  BY DEF Crash, db
<1>2. InFlight' = {}
  BY DEF Crash, NoUpdates, InFlight
<1>3. \A f \in InFlight : f[1] \in Qids
  BY DEF InFlight
<1>4. Flight!LetGo(Qids)
  BY <1>1, <1>2, <1>3 DEF Inv, TypeOK, Flight!LetGo
<1> QED
  BY <1>4 DEF Flight!FlightNext

LEMMA StepFlies ==
  Inv /\ Inv' /\ [Next]_vars => [Flight!FlightNext]_(Flight!flightVars)
<1> SUFFICES ASSUME Inv, Inv', [Next]_vars
             PROVE  Flight!FlightNext \/ UNCHANGED Flight!flightVars
  OBVIOUS
<1>1. CASE UNCHANGED vars
  BY <1>1 DEF vars, db, workerVars, Flight!flightVars, InFlight
<1> QED
  BY <1>1, EnvironmentFlies, DispatchFlies, WorkFlies, CrashFlies DEF Next

LEMMA InitFlies == Init => Flight!FlightInit
BY SameFindings DEF Init, NoUpdates, InFlight, Flight!FlightInit

\* Items are taken before they are fetched, fetched at most once at a time and
\* written as they were fetched, whatever fails (worker.py, _dispatcher_loop and
\* worker_loop): every step of the pool is a step of SingleFlight or none.
THEOREM ImplementsSingleFlight == Spec => FliesOnce
<1>1. Inv /\ Inv' /\ [Next]_vars => [Flight!FlightNext]_(Flight!flightVars)
  BY StepFlies
<1>2. Init => Flight!FlightInit
  BY InitFlies
<1> QED
  BY <1>1, <1>2, Invariance, PTL DEF Spec, FliesOnce, Flight!FlightSpec

-----------------------------------------------------------------------------
(* What SingleFlight is worth: its steps compare no versions, and still no   *)
(* write overtakes another.                                                  *)

\* What comes down is put in the place of a copy; of a document it is the only
\* finding that was in the air.
LEMMA Landed ==
  ASSUME NEW down \in SUBSET InFlight, NEW S \in SUBSET down,
         Flight!Land(S, down), NEW q \in Qids
  PROVE  \/ row'[q] = row[q]
         \/ \E f \in S : f[1] = q /\ row'[q] = f[2]
<1>1. row'[q] = IF Flight!FoundOf(S, q) = {} THEN row[q]
                ELSE CHOOSE f \in Flight!FoundOf(S, q) : TRUE
  BY DEF Flight!Land
<1>2. CASE Flight!FoundOf(S, q) = {}
  BY <1>1, <1>2
<1>3. CASE Flight!FoundOf(S, q) # {}
  <2>1. row'[q] \in Flight!FoundOf(S, q)
    BY <1>1, <1>3
  <2> QED
    BY <2>1 DEF Flight!FoundOf
<1> QED
  BY <1>2, <1>3

\* A page is not older than what it replaces.
LEMMA PagesGoOn ==
  ASSUME NEW old \in Finding, NEW new \in Finding,
         new.kind # "none", new.kind = "page" => old.rev <= new.rev
  PROVE  new.rev < old.rev => new.kind \in {"late", "gone"}
<1>1. old.rev \in Nat /\ new.rev \in Nat /\ new.kind \in {"none", "gone", "page", "late"}
  BY DEF Finding
<1> QED
  BY <1>1

LEMMA LandKeeps ==
  ASSUME Flight!FlightInv, NEW down \in SUBSET InFlight, NEW S \in SUBSET down,
         Flight!Land(S, down)
  PROVE  Flight!FlightInv' /\ Flight!Onwards /\ Flight!Overtakes
<1>1. /\ live \in [Qids -> Nat \ {0}] /\ row \in [Qids -> Finding]
      /\ InFlight \subseteq Qids \X Finding
      /\ \A q \in Qids : row[q].rev <= live[q]
      /\ \A f \in InFlight :
           /\ f[2].kind # "none" /\ f[2].rev <= live[f[1]]
           /\ f[2].kind = "page" => row[f[1]].rev <= f[2].rev
      /\ \A f, g \in InFlight : f[1] = g[1] => f = g
  BY SameFindings DEF Flight!FlightInv
<1>2. /\ live' = live
      /\ InFlight' = InFlight \ down
      /\ DOMAIN row' = Qids
      /\ row' = [q \in Qids |-> row'[q]]
  BY DEF Flight!Land
<1>3. ASSUME NEW q \in Qids
      PROVE  /\ row'[q] \in Finding /\ row'[q].rev <= live[q]
             /\ row'[q].rev < row[q].rev => row'[q].kind \in {"late", "gone"}
  <2>1. row[q] \in Finding /\ row[q].rev <= live[q] /\ row[q].rev \in Nat
    BY <1>1 DEF Finding
  <2>2. CASE row'[q] = row[q]
    BY <2>1, <2>2
  <2>3. ASSUME NEW f \in S, f[1] = q, row'[q] = f[2]
        PROVE  /\ row'[q] \in Finding /\ row'[q].rev <= live[q]
               /\ row'[q].rev < row[q].rev => row'[q].kind \in {"late", "gone"}
    <3>1. /\ f[2] \in Finding /\ f[2].kind # "none" /\ f[2].rev <= live[q]
          /\ f[2].kind = "page" => row[q].rev <= f[2].rev
      BY <1>1, <2>3
    <3> QED
      BY <2>1, <2>3, <3>1, PagesGoOn
  <2> QED
    BY <2>2, <2>3, Landed
<1>4. row' \in [Qids -> Finding]
  BY <1>2, <1>3
<1>5. ASSUME NEW f \in InFlight' PROVE f \in InFlight /\ row'[f[1]] = row[f[1]]
  <2>1. f \in InFlight /\ f \notin down /\ f[1] \in Qids
    BY <1>1, <1>2, <1>5
  <2>2. \A g \in S : g[1] # f[1]
    BY <1>1, <2>1
  <2> QED
    BY <2>1, <2>2, Landed
<1>6. Flight!FlightInv'
  BY <1>1, <1>2, <1>3, <1>4, <1>5, SameFindings DEF Flight!FlightInv
<1> QED
  BY <1>3, <1>5, <1>6 DEF Flight!Onwards, Flight!Overtakes

LEMMA FetchKeeps ==
  ASSUME Flight!FlightInv, NEW S \in SUBSET Qids, Flight!Fetch(S)
  PROVE  Flight!FlightInv'
<1>1. PICK found \in [S -> UNION {Answers(live[d]) : d \in S}] :
        /\ \A d \in S : found[d] \in Answers(live[d])
        /\ InFlight' = InFlight \union {<<d, found[d]>> : d \in S}
  BY SameFindings DEF Flight!Fetch
<1>2. /\ live \in [Qids -> Nat \ {0}] /\ row \in [Qids -> Finding]
      /\ InFlight \subseteq Qids \X Finding
      /\ \A q \in Qids : row[q].rev <= live[q]
      /\ \A f \in InFlight :
           /\ f[2].kind # "none" /\ f[2].rev <= live[f[1]]
           /\ f[2].kind = "page" => row[f[1]].rev <= f[2].rev
      /\ \A f, g \in InFlight : f[1] = g[1] => f = g
  BY SameFindings DEF Flight!FlightInv
<1>3. /\ live' = live /\ row' = row
      /\ \A f \in InFlight : f[1] \notin S
  BY DEF Flight!Fetch
<1>4. ASSUME NEW d \in S
      PROVE  /\ found[d] \in Finding /\ found[d].kind # "none"
             /\ found[d].rev <= live[d]
             /\ found[d].kind = "page" => row[d].rev <= found[d].rev
  <2>1. /\ found[d] \in Answers(live[d]) /\ live[d] \in Nat \ {0}
        /\ row[d].rev <= live[d]
    BY <1>1, <1>2
  <2>2. /\ found[d] \in Finding /\ found[d].rev <= live[d]
        /\ found[d].kind = "page" => found[d].rev = live[d]
    BY <2>1, AnswersFound
  <2>3. found[d].kind # "none"
    BY <2>1 DEF Answers, Gone, Page, LateRedirect
  <2> QED
    BY <2>1, <2>2, <2>3
<1>5. ASSUME NEW f \in InFlight'
      PROVE  \/ f \in InFlight
             \/ \E d \in S : f[1] = d /\ f[2] = found[d] /\ f = <<d, found[d]>>
  BY <1>1, <1>5
<1>6. InFlight' \subseteq Qids \X Finding
  BY <1>2, <1>4, <1>5
<1>7. ASSUME NEW f \in InFlight'
      PROVE  /\ f[2].kind # "none" /\ f[2].rev <= live[f[1]]
             /\ f[2].kind = "page" => row[f[1]].rev <= f[2].rev
  BY <1>2, <1>4, <1>5
<1>8. ASSUME NEW f \in InFlight', NEW g \in InFlight', f[1] = g[1] PROVE f = g
  BY <1>2, <1>3, <1>5, <1>8
<1> QED
  BY <1>2, <1>3, <1>6, <1>7, <1>8, SameFindings DEF Flight!FlightInv

LEMMA FlightKeeps ==
  ASSUME Flight!FlightInv, [Flight!FlightNext]_(Flight!flightVars)
  PROVE  Flight!FlightInv' /\ Flight!Onwards /\ Flight!Overtakes
<1>1. /\ live \in [Qids -> Nat \ {0}] /\ row \in [Qids -> Finding]
  BY SameFindings DEF Flight!FlightInv
<1>2. row' = row => Flight!Onwards /\ Flight!Overtakes
  <2>1. \A q \in Qids : row[q].rev \in Nat
    BY <1>1 DEF Finding
  <2> QED
    BY <2>1 DEF Flight!Onwards, Flight!Overtakes
<1>3. CASE UNCHANGED Flight!flightVars
  BY <1>2, <1>3 DEF Flight!flightVars, Flight!FlightInv
<1>4. ASSUME NEW q \in Qids, Flight!Revise(q)
      PROVE  Flight!FlightInv' /\ Flight!Onwards /\ Flight!Overtakes
  <2>1. /\ live' = [live EXCEPT ![q] = @ + 1]
        /\ row' = row /\ InFlight' = InFlight
    BY <1>4 DEF Flight!Revise
  <2>2. /\ live' \in [Qids -> Nat \ {0}]
        /\ \A p \in Qids : live'[p] >= live[p]
    BY <1>1, <2>1
  <2>3. ASSUME NEW p \in Qids, NEW n \in Nat, n <= live[p] PROVE n <= live'[p]
    BY <1>1, <2>2, <2>3
  <2>4. ASSUME NEW p \in Qids PROVE row[p].rev <= live'[p]
    <3>1. row[p].rev \in Nat /\ row[p].rev <= live[p]
      BY <1>1 DEF Flight!FlightInv, Finding
    <3> QED
      BY <2>3, <3>1
  <2>5. ASSUME NEW f \in InFlight PROVE f[2].rev <= live'[f[1]]
    <3>1. f[1] \in Qids /\ f[2] \in Finding /\ f[2].rev <= live[f[1]]
      BY SameFindings DEF Flight!FlightInv
    <3>2. f[2].rev \in Nat
      BY <3>1 DEF Finding
    <3> QED
      BY <2>3, <3>1, <3>2
  <2>6. Flight!FlightInv'
    BY <2>1, <2>2, <2>4, <2>5 DEF Flight!FlightInv
  <2> QED
    BY <1>2, <2>1, <2>6
<1>5. ASSUME NEW S \in SUBSET Qids, Flight!Take(S) \/ Flight!LetGo(S)
      PROVE  Flight!FlightInv' /\ Flight!Onwards /\ Flight!Overtakes
  <2>1. live' = live /\ row' = row /\ InFlight' \subseteq InFlight
    BY <1>5 DEF Flight!Take, Flight!LetGo
  <2> QED
    BY <1>2, <2>1 DEF Flight!FlightInv
<1>6. ASSUME NEW S \in SUBSET Qids, Flight!Fetch(S)
      PROVE  Flight!FlightInv' /\ Flight!Onwards /\ Flight!Overtakes
  <2>1. row' = row
    BY <1>6 DEF Flight!Fetch
  <2> QED
    BY <1>2, <1>6, <2>1, FetchKeeps
<1>7. ASSUME NEW down \in SUBSET InFlight, NEW S \in SUBSET down,
             Flight!Land(S, down)
      PROVE  Flight!FlightInv' /\ Flight!Onwards /\ Flight!Overtakes
  BY <1>7, LandKeeps
<1> QED
  BY <1>3, <1>4, <1>5, <1>6, <1>7 DEF Flight!FlightNext

\* Taking turns is enough: in a pool that does what SingleFlight says, no write
\* of a document overtakes another, without comparing the two
\* (upsert_content_many overwrites unconditionally).
THEOREM NoWriteOvertakes == Flight!FlightSpec => Flight!NothingOvertaken
<1>1. Flight!FlightInit => Flight!FlightInv
  BY NothingFound, SameFindings DEF Flight!FlightInit, Flight!FlightInv
<1>2. Flight!FlightInv /\ [Flight!FlightNext]_(Flight!flightVars)
        => Flight!FlightInv'
  BY FlightKeeps
<1>3. Flight!FlightInv /\ [Flight!FlightNext]_(Flight!flightVars)
        => [Flight!Overtakes]_(Flight!flightVars)
  BY FlightKeeps
<1> QED
  BY <1>1, <1>2, <1>3, PTL DEF Flight!FlightSpec, Flight!NothingOvertaken

\* ... and a copy goes back to an older version only when a replica lags behind
\* a redirect, or the document is gone.
THEOREM CopiesNeverRegress == Flight!FlightSpec => Flight!CopyNeverRegresses
<1>1. Flight!FlightInit => Flight!FlightInv
  BY NothingFound, SameFindings DEF Flight!FlightInit, Flight!FlightInv
<1>2. Flight!FlightInv /\ [Flight!FlightNext]_(Flight!flightVars)
        => Flight!FlightInv'
  BY FlightKeeps
<1>3. Flight!FlightInv /\ [Flight!FlightNext]_(Flight!flightVars)
        => [Flight!Onwards]_(Flight!flightVars)
  BY FlightKeeps
<1> QED
  BY <1>1, <1>2, <1>3, PTL DEF Flight!FlightSpec, Flight!CopyNeverRegresses

\* So no write of the pool overtakes another of the same item, whatever fails.
THEOREM WritesInOrder == Spec => NothingOvertaken
  BY ImplementsSingleFlight, NoWriteOvertakes, PTL DEF FliesOnce, NothingOvertaken

\* A row may be older than the one it replaces, but only of a redirect that the
\* replica has not caught up with (fetcher.py, lastrevid), or of a deleted item.
THEOREM RowsNeverRegress == Spec => RowNeverRegresses
<1> DEFINE Back(q) == row'[q].rev < row[q].rev => row'[q].kind \in {"late", "gone"}
<1>1. TypeOK /\ [Flight!Onwards]_(Flight!flightVars) => [\A q \in Qids : Back(q)]_vars
  <2> SUFFICES ASSUME TypeOK, [Flight!Onwards]_(Flight!flightVars), NEW q \in Qids
               PROVE  Back(q)
    OBVIOUS
  <2>1. CASE Flight!Onwards
    BY <2>1 DEF Flight!Onwards
  <2>2. CASE row' = row
    <3>1. row[q].rev \in Nat
      BY DEF TypeOK, Finding
    <3> QED
      BY <2>2, <3>1
  <2> QED
    BY <2>1, <2>2 DEF Flight!flightVars
<1> QED
  BY <1>1, ImplementsSingleFlight, CopiesNeverRegress, TypeCorrect, PTL
  DEF FliesOnce, RowNeverRegresses, Flight!CopyNeverRegresses

-----------------------------------------------------------------------------
(* What the pool takes for granted of recorded revisions                     *)

\* No revision is recorded that an item has not got.
RecordedBounded == \A q \in Qids : seen[q] <= live[q]

\* One revision that is recorded, not the first, while nothing else happens.
OneRecorded(q) ==
  /\ Recorded!Renew /\ seen'[q] # seen[q] /\ seen'[q] >= 2
  /\ \A p \in Qids \ {q} : seen'[p] = seen[p]
  /\ UNCHANGED <<live, row, interest, queue, event, inflight, dispatcherVars,
                 workerVars>>

LEMMA RecordRenewsOne ==
  ASSUME TypeOK, RecordedBounded, NEW q \in Qids, RecordChange(q)
  PROVE  OneRecorded(q) /\ RecordedBounded'
<1>1. live \in [Qids -> Nat] /\ seen \in [Qids -> Nat]
  BY DEF TypeOK
<1>2. PICK r \in 2 .. live[q] : r > seen[q] /\ seen' = [seen EXCEPT ![q] = r]
  BY DEF RecordChange
<1>3. r \in Nat /\ seen[q] < r /\ r <= live[q] /\ seen[q] # r /\ r >= 2
  BY <1>1, <1>2
<1>4. /\ seen' \in [Qids -> Nat] /\ seen'[q] = r
      /\ \A p \in Qids \ {q} : seen'[p] = seen[p]
  BY <1>1, <1>2, <1>3
<1>5. ASSUME NEW p \in Qids PROVE seen[p] <= seen'[p] /\ seen'[p] <= live[p]
  BY <1>1, <1>3, <1>4, <1>5 DEF RecordedBounded
<1>6. Recorded!Renew
  BY <1>4, <1>5 DEF Recorded!Renew, RecordChange
<1>7. RecordedBounded'
  BY <1>5 DEF RecordedBounded, RecordChange
<1> QED
  BY <1>3, <1>4, <1>6, <1>7 DEF OneRecorded, RecordChange

LEMMA OneRecordedRecords ==
  ASSUME TypeOK, NEW q \in Qids, OneRecorded(q)
  PROVE  RecordChange(q)
<1>1. /\ seen \in [Qids -> Nat] /\ live \in [Qids -> Nat]
      /\ seen' \in [Qids -> Nat]
  BY DEF TypeOK, OneRecorded, Recorded!Renew
<1>2. seen' = [seen EXCEPT ![q] = seen'[q]]
  BY <1>1 DEF OneRecorded
<1>3. seen[q] <= seen'[q] /\ seen'[q] <= live[q] /\ seen'[q] # seen[q] /\ seen'[q] >= 2
  BY DEF OneRecorded, Recorded!Renew
<1>4. seen'[q] \in 2 .. live[q] /\ seen'[q] > seen[q]
  BY <1>1, <1>3
<1> QED
  BY <1>2, <1>4 DEF RecordChange, OneRecorded

LEMMA StepRecords ==
  ASSUME TypeOK, RecordedBounded, [Next]_vars
  PROVE  RecordedBounded' /\ [Recorded!CopiesNext]_(Recorded!copiesVars)
<1>1. CASE UNCHANGED <<live, seen>>
  BY <1>1 DEF RecordedBounded, Recorded!copiesVars
<1>2. ASSUME NEW q \in Qids, Edit(q)
      PROVE  RecordedBounded' /\ Recorded!CopiesNext
  <2>1. live' = [live EXCEPT ![q] = live[q] + 1] /\ seen' = seen
    BY <1>2 DEF Edit, db
  <2>2. /\ live \in [Qids -> Nat] /\ seen \in [Qids -> Nat]
        /\ live' \in [Qids -> Nat] /\ live'[q] = live[q] + 1
    BY <2>1 DEF TypeOK
  <2>3. live' = [live EXCEPT ![q] = live'[q]] /\ live'[q] > live[q]
    BY <2>1, <2>2
  <2>4. Recorded!Revise(q)
    BY <2>1, <2>2, <2>3 DEF Recorded!Revise
  <2>5. RecordedBounded'
    BY <2>1, <2>2 DEF RecordedBounded
  <2> QED
    BY <2>4, <2>5 DEF Recorded!CopiesNext
<1>3. ASSUME NEW q \in Qids, RecordChange(q)
      PROVE  RecordedBounded' /\ Recorded!CopiesNext
  BY <1>3, RecordRenewsOne DEF OneRecorded, Recorded!CopiesNext
<1>4. ASSUME Environment
      PROVE  \/ UNCHANGED <<live, seen>>
             \/ \E q \in Qids : Edit(q) \/ RecordChange(q)
  BY <1>4 DEF Environment, ChangeInterest
<1>5. CASE Dispatch \/ Crash \/ UNCHANGED vars
  BY <1>1, <1>5
  DEF Dispatch, DispatcherWake, DispatcherSelect, DispatcherSelectFails,
      DispatcherEnqueue, Crash, vars, db
<1>6. CASE \E w \in Workers : Work(w)
  BY <1>1, <1>6
  DEF Work, WorkerTake, WorkerEvaluate, WorkerPersist, WorkerRaise,
      WorkerFinish, WorkerGiveUp, WorkerAwake, db
<1> QED
  BY <1>1, <1>2, <1>3, <1>4, <1>5, <1>6 DEF Next

\* The pool reads revisions that are recorded as StoredCopies says, ...
THEOREM RevisionsAreCopies == Spec => []RecordedBounded /\ ReadsRevisions
<1>1. Init => RecordedBounded /\ Recorded!CopiesInit
  BY DEF Init, NoUpdates, RecordedBounded, Recorded!CopiesInit
<1>2. TypeOK /\ RecordedBounded /\ [Next]_vars
        => RecordedBounded' /\ [Recorded!CopiesNext]_(Recorded!copiesVars)
  BY StepRecords
<1> QED
  BY <1>1, <1>2, TypeCorrect, PTL DEF Spec, ReadsRevisions, Recorded!CopiesSpec

\* ... and is prepared, in any reachable state, for every revision that may be
\* recorded so, but an item's first, which tells it nothing: what
\* upsert_recent_changes_last_revids may do to a row is what RecordChange does.
\* RecentChangesProofs shows that the scan does no other (ScanRecordsRevisions).
THEOREM EveryRevisionRecords ==
  ASSUME TypeOK, RecordedBounded, NEW q \in Qids
  PROVE  RecordChange(q) <=> OneRecorded(q)
BY RecordRenewsOne, OneRecordedRecords
=============================================================================
