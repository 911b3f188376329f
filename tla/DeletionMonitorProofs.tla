----------------------- MODULE DeletionMonitorProofs -----------------------
(***************************************************************************)
(* Proofs about DeletionMonitor.  The invariant says that every position   *)
(* comes from the log, that a batch has no gap and is recorded before its  *)
(* end is saved, that a start is a day back, and that what a position      *)
(* leaves behind is recorded or was passed over by a start.                *)
(***************************************************************************)
EXTENDS DeletionMonitor, FiniteSetTheorems, WellFoundedInduction, TLAPS

\* Ids are bounded, so a set of them has a greatest one.
LEMMA Greatest ==
  ASSUME NEW S, S \subseteq LogIds, S # {}
  PROVE  \E x \in S : \A y \in S : x >= y
<1> DEFINE Less == OpToRel(<, Nat)
           Gaps == {MaxLogId - x : x \in S}
<1>1. \A x \in S : x \in Nat /\ MaxLogId - x \in Nat
  BY MonitorAssumption DEF LogIds
<1>2. Gaps \subseteq Nat /\ Gaps # {} BY <1>1
<1>3. IsWellFoundedOn(Less, Nat) BY NatLessThanWellFounded
<1>4. PICK g \in Gaps : \A h \in Gaps : ~(<<h, g>> \in Less)
  <2> HIDE DEF Less, Gaps
  <2> QED BY <1>2, <1>3, WFMin
<1>5. \A h \in Gaps : ~(h < g)
  BY <1>2, <1>4 DEF OpToRel
<1>6. PICK x \in S : g = MaxLogId - x OBVIOUS
<1>7. \A y \in S : ~(MaxLogId - y < MaxLogId - x) BY <1>5, <1>6
<1>8. \A y \in S : x >= y
  <2> TAKE y \in S
  <2>1. x \in Nat /\ y \in Nat /\ MaxLogId \in Nat BY <1>1, MonitorAssumption
  <2>2. ~(MaxLogId - y < MaxLogId - x) BY <1>7
  <2> HIDE DEF Less, Gaps
  <2> QED BY <2>1, <2>2
<1> QED BY <1>6, <1>8

LEMMA NewestOf ==
  ASSUME NEW S, S \subseteq LogIds
  PROVE  /\ Newest(S) \in S \union {0}
         /\ Newest(S) \in 0..MaxLogId
         /\ \A x \in S : x <= Newest(S)
<1>1. CASE S = {} BY <1>1, MonitorAssumption DEF Newest
<1>2. CASE S # {}
  <2>1. Max(S) \in S /\ \A y \in S : Max(S) >= y BY <1>2, Greatest DEF Max
  <2>2. Newest(S) = Max(S) BY <1>2 DEF Newest
  <2>3. \A x \in S : x \in 1..MaxLogId BY DEF LogIds
  <2>4. Newest(S) \in S /\ \A y \in S : Newest(S) >= y BY <2>1, <2>2
  <2>5. Newest(S) \in 1..MaxLogId BY <2>3, <2>4
  <2> QED BY <2>3, <2>4, <2>5, MonitorAssumption
<1> QED BY <1>1, <1>2
LEMMA NewestOfTwo ==
  ASSUME NEW a \in 0..MaxLogId, NEW b \in 0..MaxLogId
  PROVE  Newest({a, b}) = IF a >= b THEN a ELSE b
<1> DEFINE m == IF a >= b THEN a ELSE b
<1>1. m \in {a, b} /\ \A y \in {a, b} : m >= y BY MonitorAssumption
<1>2. \A x \in {a, b} : (\A y \in {a, b} : x >= y) => x = m
  BY MonitorAssumption
<1>3. Max({a, b}) = m
  <2> HIDE DEF m
  <2> QED BY <1>1, <1>2 DEF Max
<1> QED BY <1>3 DEF Newest

-----------------------------------------------------------------------------
(* The invariant *)

\* Ids come from the log.
FromLog ==
  /\ old \in logging \union {0}
  /\ from \in logging \union {0} /\ statsFrom \in logging \union {0}
  /\ cursor # None => cursor \in logging \union {0}
  /\ batch \subseteq logging

Covered(n) ==
  \A id \in logging \ Unusable :
    id <= n => id \in recorded \/ id <= started

\* What a position leaves behind is recorded or was passed over.
Behind ==
  InOrder => /\ cursor # None => Covered(cursor)
             /\ pc \in {"fetch", "record", "save"} => Covered(from)

\* A batch has no gap, and is recorded before the cursor is saved.
Batching ==
  /\ pc \in {"record", "save"} =>
       /\ batch # {}
       /\ InOrder => \A id \in logging : id <= Newest(batch) =>
                        id <= from \/ id \in batch
  /\ pc = "save" => Events(batch) \subseteq recorded

Starting ==
  /\ started <= old
  /\ pc = "start" => from <= old
  /\ statsPc = "start" => statsFrom <= old

IInv == TypeOK /\ FromLog /\ Behind /\ Batching /\ Starting

-----------------------------------------------------------------------------
(* Types *)

\* A batch is no longer than asked for.
LEMMA BatchFits ==
  ASSUME NEW S, NEW T, T \subseteq LogIds, IsFirst(S, BatchSize, T)
  PROVE  S \subseteq LogIds /\ Cardinality(S) <= BatchSize
<1>1. IsFiniteSet(LogIds) BY FS_Interval, MonitorAssumption DEF LogIds
<1>2. Cardinality(T) \in Nat BY <1>1, FS_Subset, FS_CardinalityType
<1> QED BY <1>2, MonitorAssumption DEF IsFirst

LEMMA Initially == Init => IInv
<1> SUFFICES ASSUME Init PROVE IInv OBVIOUS
<1>1. Cardinality({}) = 0 BY FS_EmptySet
<1>2. TypeOK BY <1>1, MonitorAssumption DEF Init, TypeOK
<1>3. FromLog /\ Starting BY MonitorAssumption DEF Init, FromLog, Starting
<1>4. Behind /\ Batching BY DEF Init, Behind, Batching
<1> QED BY <1>2, <1>3, <1>4 DEF IInv

LEMMA KeepsTypes == TypeOK /\ [Next]_vars => TypeOK'
<1> SUFFICES ASSUME TypeOK, [Next]_vars PROVE TypeOK' OBVIOUS
<1>0. \A S \in SUBSET LogIds : Newest(S) \in 0..MaxLogId BY NewestOf
<1>1. ASSUME NEW id \in LogIds, Appear(id) PROVE TypeOK'
  BY <1>1 DEF TypeOK, Appear, monitorVars, statsVars
<1>2. CASE DayPasses BY <1>2 DEF TypeOK, DayPasses, monitorVars, statsVars, LogIds
<1>3. BootstrapCursor \in 0..MaxLogId
  <2>1. {id \in logging : id <= old} \in SUBSET LogIds BY DEF TypeOK
  <2> QED BY <1>0, <2>1 DEF BootstrapCursor
<1>4. CASE Load \/ Bootstrap
  BY <1>3, <1>4 DEF TypeOK, Load, Bootstrap, Usable, statsVars
<1>5. \A a, b \in 0..MaxLogId : Newest({a, b}) \in 0..MaxLogId
  <2> TAKE a, b \in 0..MaxLogId
  <2> QED BY NewestOfTwo
<1>6. CASE SaveStart \/ StatsSaveStart
  BY <1>5, <1>6 DEF TypeOK, SaveStart, StatsSaveStart, monitorVars, statsVars
<1>7. CASE StatsLoad \/ StatsBootstrap \/ StatsFails \/ ClearCursor
  BY <1>3, <1>7 DEF TypeOK, StatsLoad, StatsBootstrap, StatsFails, ClearCursor,
                    monitorVars, statsVars
<1>8. CASE Fetch
  <2>1. PICK S \in SUBSET Above(from) :
          IsFirst(S, BatchSize, Above(from)) /\ batch' = S
    BY <1>8 DEF Fetch
  <2>2. Above(from) \subseteq LogIds BY DEF Above, TypeOK
  <2>3. batch' \subseteq LogIds /\ Cardinality(batch') <= BatchSize
    BY <2>1, <2>2, BatchFits
  <2> QED BY <1>8, <2>3 DEF TypeOK, Fetch, statsVars
<1>9. CASE Record \/ Fails
  BY <1>9 DEF TypeOK, Record, Fails, Events, statsVars
<1>10. CASE Save
  BY <1>0, <1>10 DEF TypeOK, Save, SaveCursor, statsVars
<1>11. CASE UNCHANGED vars BY <1>11 DEF TypeOK, vars, monitorVars, statsVars
<1> QED BY <1>1, <1>2, <1>4, <1>6, <1>7, <1>8, <1>9, <1>10, <1>11
        DEF Next, Monitor, Stats

-----------------------------------------------------------------------------
(* Where ids come from, and what a start passes over *)

\* The start is an entry that is more than a day old.
LEMMA StartIsOld ==
  ASSUME TypeOK, FromLog
  PROVE  /\ BootstrapCursor \in logging \union {0}
         /\ BootstrapCursor <= old
<1> DEFINE S == {id \in logging : id <= old}
<1>1. S \subseteq LogIds BY DEF TypeOK
<1>2. Newest(S) \in S \union {0} BY <1>1, NewestOf
<1>3. 0 <= old BY MonitorAssumption DEF TypeOK
<1> QED BY <1>2, <1>3 DEF BootstrapCursor

LEMMA KeepsFromLog == TypeOK /\ FromLog /\ [Next]_vars => FromLog'
<1> SUFFICES ASSUME TypeOK, FromLog, [Next]_vars PROVE FromLog' OBVIOUS
<1>1. ASSUME NEW id \in LogIds, Appear(id) PROVE FromLog'
  BY <1>1 DEF FromLog, Appear, monitorVars, statsVars
<1>2. CASE DayPasses BY <1>2 DEF FromLog, DayPasses, monitorVars, statsVars
<1>3. CASE Load BY <1>3 DEF FromLog, Load, Usable, statsVars
<1>4. CASE Bootstrap BY <1>4, StartIsOld DEF FromLog, Bootstrap, statsVars
<1>5. CASE SaveStart BY <1>5 DEF FromLog, SaveStart, statsVars
<1>6. CASE StatsBootstrap
  BY <1>6, StartIsOld DEF FromLog, StatsBootstrap, monitorVars
<1>7. CASE StatsSaveStart BY <1>7 DEF FromLog, StatsSaveStart, monitorVars
<1>8. CASE StatsLoad \/ StatsFails \/ ClearCursor
  BY <1>8 DEF FromLog, StatsLoad, StatsFails, ClearCursor, monitorVars,
              statsVars
<1>9. CASE Fetch
  <2>1. batch' \subseteq Above(from) BY <1>9 DEF Fetch, IsFirst
  <2> QED BY <1>9, <2>1 DEF FromLog, Fetch, Above, statsVars
<1>10. CASE Record \/ Fails BY <1>10 DEF FromLog, Record, Fails, statsVars
<1>11. CASE Save
  <2>1. Newest(batch) \in batch \union {0} BY NewestOf DEF TypeOK
  <2> QED BY <1>11, <2>1 DEF FromLog, Save, SaveCursor, statsVars
<1>12. CASE UNCHANGED vars BY <1>12 DEF FromLog, vars, monitorVars, statsVars
<1> QED BY <1>1, <1>2, <1>3, <1>4, <1>5, <1>6, <1>7, <1>8, <1>9, <1>10, <1>11,
           <1>12 DEF Next, Monitor, Stats

LEMMA KeepsStarting ==
  TypeOK /\ FromLog /\ Starting /\ [Next]_vars => Starting'
<1> SUFFICES ASSUME TypeOK, FromLog, Starting, [Next]_vars PROVE Starting'
  OBVIOUS
<1> USE DEF Starting
<1>1. ASSUME NEW id \in LogIds, Appear(id) PROVE Starting'
  BY <1>1 DEF Appear, monitorVars, statsVars
<1>2. CASE DayPasses
  BY <1>2 DEF TypeOK, DayPasses, monitorVars, statsVars, LogIds
<1>3. CASE Load BY <1>3 DEF Load, statsVars
<1>4. CASE Bootstrap BY <1>4, StartIsOld DEF Bootstrap, statsVars
<1>5. CASE SaveStart
  BY <1>5, NewestOfTwo DEF SaveStart, statsVars, TypeOK
<1>6. CASE StatsBootstrap BY <1>6, StartIsOld DEF StatsBootstrap, monitorVars
<1>7. CASE StatsSaveStart
  BY <1>7, NewestOfTwo DEF StatsSaveStart, monitorVars, TypeOK
<1>8. CASE StatsLoad \/ StatsFails \/ ClearCursor
  BY <1>8 DEF StatsLoad, StatsFails, ClearCursor, monitorVars, statsVars
<1>9. CASE Fetch \/ Record \/ Fails \/ Save
  BY <1>9 DEF Fetch, Record, Fails, Save, statsVars
<1>10. CASE UNCHANGED vars BY <1>10 DEF vars, monitorVars, statsVars
<1> QED BY <1>1, <1>2, <1>3, <1>4, <1>5, <1>6, <1>7, <1>8, <1>9, <1>10
        DEF Next, Monitor, Stats

-----------------------------------------------------------------------------
(* Batches *)

\* In order, an entry that appears has a higher id than any before it.
LEMMA AppearsLast ==
  ASSUME TypeOK, InOrder, NEW id \in LogIds, Appear(id)
  PROVE  \A i \in logging \union {0} : i < id
<1>1. Newest(logging) \in 0..MaxLogId /\ \A i \in logging : i <= Newest(logging)
  BY NewestOf DEF TypeOK
<1>2. id = Newest(logging) + 1 BY DEF Appear
<1>3. \A i \in logging : i \in 1..MaxLogId BY DEF TypeOK, LogIds
<1> QED BY <1>1, <1>2, <1>3, MonitorAssumption

LEMMA KeepsBatching ==
  TypeOK /\ FromLog /\ Batching /\ [Next]_vars => Batching'
<1> SUFFICES ASSUME TypeOK, FromLog, Batching, [Next]_vars PROVE Batching'
  OBVIOUS
<1>1. ASSUME NEW id \in LogIds, Appear(id) PROVE Batching'
  <2>1. UNCHANGED <<pc, from, batch, recorded>> /\ logging' = logging \union {id}
    BY <1>1 DEF Appear, monitorVars
  <2>2. InOrder => ~(id <= Newest(batch))
    <3> SUFFICES ASSUME InOrder PROVE ~(id <= Newest(batch)) OBVIOUS
    <3>1. Newest(batch) \in batch \union {0} /\ Newest(batch) \in 0..MaxLogId
      BY NewestOf DEF TypeOK
    <3>2. Newest(batch) < id BY <1>1, <3>1, AppearsLast DEF FromLog
    <3> QED BY <3>1, <3>2, MonitorAssumption DEF LogIds
  <2> QED BY <2>1, <2>2 DEF Batching, Events, Newest
<1>2. CASE Load \/ Bootstrap \/ SaveStart \/ Save
  BY <1>2 DEF Load, Bootstrap, SaveStart, Save, Batching
<1>3. CASE Fetch
  <2>1. PICK S \in SUBSET Above(from) :
          /\ IsFirst(S, BatchSize, Above(from))
          /\ batch' = S
          /\ pc' = IF S = {} THEN "load"
                   ELSE IF Events(S) = {} THEN "save" ELSE "record"
    BY <1>3 DEF Fetch
  <2>2. UNCHANGED <<logging, from, recorded>> BY <1>3 DEF Fetch
  <2>3. \A i \in S, j \in Above(from) \ S : i < j BY <2>1 DEF IsFirst
  <2>4. S # {} => Newest(S) \in S
    <3>1. S \subseteq LogIds BY <2>1 DEF Above, TypeOK
    <3>2. \A x \in S : x \in 1..MaxLogId /\ x <= Newest(S)
      BY <3>1, NewestOf DEF LogIds
    <3>3. Newest(S) \in S \union {0} BY <3>1, NewestOf
    <3>4. ~(S # {} /\ Newest(S) = 0)
      <4> SUFFICES ASSUME NEW x \in S, Newest(S) = 0 PROVE FALSE OBVIOUS
      <4>1. x \in 1..MaxLogId /\ x <= 0 BY <3>2
      <4> QED BY <4>1, MonitorAssumption
    <3> QED BY <3>3, <3>4
  <2>5. S # {} => \A id \in logging : id <= Newest(S) => id <= from \/ id \in S
    <3> SUFFICES ASSUME S # {}, NEW id \in logging, id <= Newest(S),
                        ~(id <= from), id \notin S
                 PROVE FALSE OBVIOUS
    <3>1. id \in 1..MaxLogId /\ from \in 0..MaxLogId BY DEF TypeOK, LogIds
    <3>2. id \in Above(from) \ S BY <3>1, MonitorAssumption DEF Above
    <3>3. Newest(S) \in 1..MaxLogId BY <2>1, <2>4 DEF Above, TypeOK, LogIds
    <3>4. Newest(S) < id BY <2>3, <2>4, <3>2
    <3> QED BY <3>1, <3>3, <3>4, MonitorAssumption
  <2>6. pc' \in {"record", "save"} => S # {} BY <2>1
  <2>7. pc' = "save" => Events(S) \subseteq recorded BY <2>1
  <2> QED BY <2>1, <2>2, <2>5, <2>6, <2>7 DEF Batching
<1>4. CASE Record BY <1>4 DEF Record, Batching, Events
<1>5. CASE Fails BY <1>5 DEF Fails, Batching
<1>6. CASE DayPasses \/ Stats \/ ClearCursor
  BY <1>6 DEF DayPasses, Stats, StatsLoad, StatsBootstrap, StatsSaveStart,
              StatsFails, ClearCursor, Batching, Events, monitorVars
<1>7. CASE UNCHANGED vars
  BY <1>7 DEF vars, monitorVars, Batching, Events
<1> QED BY <1>1, <1>2, <1>3, <1>4, <1>5, <1>6, <1>7 DEF Next, Monitor

-----------------------------------------------------------------------------
(* What a position leaves behind *)

LEMMA Naturals ==
  ASSUME TypeOK
  PROVE  /\ logging \subseteq Nat /\ from \in Nat /\ started \in Nat
         /\ old \in Nat /\ statsFrom \in Nat
         /\ cursor # None => cursor \in Nat
BY MonitorAssumption DEF TypeOK, LogIds

LEMMA KeepsBehind ==
  TypeOK /\ FromLog /\ Batching /\ Behind /\ [Next]_vars => Behind'
<1> SUFFICES ASSUME InOrder, TypeOK, FromLog, Batching, Behind, [Next]_vars
             PROVE  Behind'
  BY DEF Behind
<1>0. /\ cursor # None => Covered(cursor)
      /\ pc \in {"fetch", "record", "save"} => Covered(from)
  BY DEF Behind
<1>1. ASSUME NEW id \in LogIds, Appear(id) PROVE Behind'
  <2>1. from < id /\ (cursor # None => cursor < id)
    BY <1>1, AppearsLast DEF FromLog
  <2>2. ~(id <= from) /\ (cursor # None => ~(id <= cursor))
    BY <2>1, Naturals DEF LogIds
  <2> QED BY <1>0, <1>1, <2>2 DEF Behind, Covered, Appear, monitorVars
<1>2. CASE DayPasses
  BY <1>0, <1>2 DEF Behind, Covered, DayPasses, monitorVars
<1>3. CASE Load BY <1>0, <1>3 DEF Behind, Covered, Load, Usable
<1>4. CASE Bootstrap BY <1>0, <1>4 DEF Behind, Covered, Bootstrap
<1>5. CASE SaveStart
  <2>1. from <= started' /\ started <= started' /\ started' \in Nat
    BY <1>5, NewestOfTwo, Naturals DEF SaveStart, TypeOK
  <2>2. \A id \in logging : id <= from => id <= started' BY <2>1, Naturals
  <2> QED BY <1>5, <2>2 DEF Behind, Covered, SaveStart
<1>6. CASE StatsSaveStart
  <2>1. statsFrom <= started' /\ started <= started' /\ started' \in Nat
    BY <1>6, NewestOfTwo, Naturals DEF StatsSaveStart, TypeOK
  <2>2. \A id \in logging : \/ id <= statsFrom \/ id <= started => id <= started'
    BY <2>1, Naturals
  <2> QED BY <1>0, <1>6, <2>2 DEF Behind, Covered, StatsSaveStart, monitorVars
<1>7. CASE StatsLoad \/ StatsBootstrap \/ StatsFails \/ ClearCursor
  BY <1>0, <1>7 DEF Behind, Covered, StatsLoad, StatsBootstrap, StatsFails,
                    ClearCursor, monitorVars
<1>8. CASE Fetch BY <1>0, <1>8 DEF Behind, Covered, Fetch
<1>9. CASE Record \/ Fails BY <1>0, <1>9 DEF Behind, Covered, Record, Fails
<1>10. CASE Save
  <2>1. \A id \in logging \ Unusable :
          id <= Newest(batch) => id \in recorded \/ id <= started
    BY <1>0, <1>10 DEF Save, Batching, Events, Covered
  <2> QED BY <1>10, <2>1 DEF Behind, Covered, Save, SaveCursor
<1>11. CASE UNCHANGED vars
  BY <1>0, <1>11 DEF Behind, Covered, vars, monitorVars
<1> QED BY <1>1, <1>2, <1>3, <1>4, <1>5, <1>6, <1>7, <1>8, <1>9, <1>10, <1>11
        DEF Next, Monitor, Stats

-----------------------------------------------------------------------------
(* The theorems *)

\* The inductive invariant of the monitor, the statistics and the operator.
THEOREM Invariance == Spec => []IInv
<1>1. IInv /\ [Next]_vars => IInv'
  BY KeepsTypes, KeepsFromLog, KeepsStarting, KeepsBatching, KeepsBehind
     DEF IInv
<1> QED BY Initially, <1>1, PTL DEF Spec

\* The monitor's variables keep their types: no batch is longer than asked
\* for, and no cursor is beyond the log.
THEOREM TypeCorrect == Spec => []TypeOK
<1>1. IInv => TypeOK BY DEF IInv
<1> QED BY <1>1, Invariance, PTL

\* For every log, batch size and set of unusable entries, the cursor passes no
\* usable entry that was not recorded, but those a start passed over.
THEOREM SkipsNothing == Spec => []NothingSkipped
<1>1. IInv => NothingSkipped
  BY DEF IInv, Behind, Covered, NothingSkipped
<1> QED BY <1>1, Invariance, PTL

-----------------------------------------------------------------------------
(* The refinement *)

\* A step of the monitor, its statistics, the log or the operator is a step of
\* the copier or leaves its variables alone.
LEMMA StepRefines ==
  InOrder /\ IInv /\ IInv' /\ [Next]_vars =>
    [Copier!CopierNext]_(Copier!copierVars)
<1> SUFFICES ASSUME InOrder, IInv, IInv', [Next]_vars
             PROVE  [Copier!CopierNext]_(Copier!copierVars)
  OBVIOUS
<1> USE DEF Copier!copierVars
<1>0. /\ TypeOK /\ FromLog /\ Starting /\ Batching
      /\ logging \subseteq LogIds /\ None \notin Nat
  BY MonitorAssumption DEF IInv, TypeOK
<1>1. ASSUME NEW id \in LogIds, Appear(id) PROVE Copier!Append(id)
  <2>1. /\ ~(id <= old) /\ ~(id <= started)
        /\ cursor # None => ~(id <= cursor)
    <3>1. old < id /\ (cursor # None => cursor < id)
      BY <1>0, <1>1, AppearsLast DEF FromLog
    <3> QED BY <1>0, <3>1, Naturals DEF Starting, LogIds
  <2> QED BY <1>1, <2>1 DEF Appear, Copier!Append
<1>2. CASE DayPasses
  <2>1. old <= old' /\ old \in Nat /\ old' \in Nat
    BY <1>0, <1>2, Naturals DEF DayPasses
  <2>0. PICK S \in SUBSET LogIds : S = {id \in logging : id <= old'} BY <1>0
  <2>2. {id \in logging : id <= old} \subseteq S BY <1>0, <2>0, <2>1, Naturals
  <2>3. UNCHANGED <<logging, cursor, recorded, started>>
    BY <1>2 DEF DayPasses
  <2>4. Copier!Age(S) BY <2>0, <2>2, <2>3 DEF Copier!Age
  <2> QED BY <2>4 DEF Copier!CopierNext
<1>3. ASSUME NEW n \in 0..MaxLogId, n <= old, started' = Newest({started, n})
      PROVE  \A id \in logging : /\ id <= started' <=> id <= started \/ id <= n
                                 /\ id <= n => id <= old
  <2>1. started' = IF started >= n THEN started ELSE n
    BY <1>0, <1>3, NewestOfTwo DEF TypeOK
  <2>2. n \in Nat BY <1>3, MonitorAssumption
  <2> QED BY <1>0, <1>3, <2>1, <2>2, Naturals
<1>4. CASE SaveStart \/ StatsSaveStart
  <2>1. CASE SaveStart
    <3>0. PICK S \in SUBSET LogIds : S = {id \in logging : id <= from} BY <1>0
    <3>1. /\ from \in 0..MaxLogId /\ from # None /\ from <= old
          /\ cursor' = from /\ started' = Newest({started, from})
          /\ UNCHANGED <<logging, old, recorded>>
      BY <1>0, <2>1, Naturals DEF SaveStart, Starting, TypeOK
    <3>2. \A id \in logging :
            /\ id <= started' <=> id <= started \/ id <= from
            /\ id <= from => id <= old
      BY <1>3, <3>1
    <3>3. Copier!StartBehind(S) BY <3>0, <3>1, <3>2 DEF Copier!StartBehind
    <3> QED BY <3>3 DEF Copier!CopierNext
  <2>2. CASE StatsSaveStart
    <3>0. PICK S \in SUBSET LogIds : S = {id \in logging : id <= statsFrom} BY <1>0
    <3>1. /\ statsFrom \in 0..MaxLogId /\ statsFrom # None /\ statsFrom <= old
          /\ cursor' = statsFrom /\ started' = Newest({started, statsFrom})
          /\ UNCHANGED <<logging, old, recorded>>
      BY <1>0, <2>2, Naturals DEF StatsSaveStart, Starting, TypeOK
    <3>2. \A id \in logging :
            /\ id <= started' <=> id <= started \/ id <= statsFrom
            /\ id <= statsFrom => id <= old
      BY <1>3, <3>1
    <3>3. Copier!StartBehind(S) BY <3>0, <3>1, <3>2 DEF Copier!StartBehind
    <3> QED BY <3>3 DEF Copier!CopierNext
  <2> QED BY <1>4, <2>1, <2>2
<1>5. CASE Load \/ Bootstrap \/ Fetch \/ StatsLoad \/ StatsBootstrap \/ StatsFails
  BY <1>5 DEF Load, Bootstrap, Fetch, StatsLoad, StatsBootstrap, StatsFails
<1>6. CASE ClearCursor
  <2>1. Copier!PutBehind({}) BY <1>6 DEF ClearCursor, Copier!PutBehind
  <2> QED BY <2>1 DEF Copier!CopierNext
<1>7. CASE Record
  <2>1. Copier!Copy(Events(batch))
    BY <1>0, <1>7 DEF Record, Copier!Copy, Events, FromLog
  <2>2. Events(batch) \in SUBSET LogIds BY <1>0 DEF Events, FromLog
  <2> QED BY <2>1, <2>2 DEF Copier!CopierNext
<1>8. CASE Fails
  <2>1. \/ \E S \in SUBSET Events(batch) : recorded' = recorded \union S
        \/ UNCHANGED recorded
    BY <1>8 DEF Fails
  <2>2. UNCHANGED <<logging, old, cursor, started>> BY <1>8 DEF Fails
  <2>3. ASSUME NEW S \in SUBSET Events(batch), recorded' = recorded \union S
        PROVE  Copier!CopierNext
    <3>1. Copier!Copy(S)
      BY <1>0, <2>2, <2>3 DEF Copier!Copy, Events, FromLog
    <3>2. S \in SUBSET LogIds BY <1>0 DEF Events, FromLog
    <3> QED BY <3>1, <3>2 DEF Copier!CopierNext
  <2> QED BY <2>1, <2>2, <2>3
<1>9. CASE Save
  <2>0. PICK S \in SUBSET LogIds : S = {id \in logging : id <= Newest(batch)}
    BY <1>0
  <2>1. cursor' = Newest(batch) /\ UNCHANGED <<logging, old, recorded, started>>
    BY <1>9 DEF Save, SaveCursor
  <2>2. Newest(batch) \in Nat BY <1>0, NewestOf, MonitorAssumption DEF TypeOK
  <2>3. Covered(Newest(batch))
    <3>1. Behind' /\ cursor' # None BY <1>0, <2>1, <2>2 DEF IInv
    <3> QED BY <2>1, <3>1 DEF Behind, Covered
  <2>4. S \subseteq recorded \union Unusable
                    \union {id \in logging : id <= started}
    BY <2>0, <2>3 DEF Covered
  <2>5. Copier!PutBehind(S)
    BY <1>0, <2>0, <2>1, <2>2, <2>4 DEF Copier!PutBehind
  <2> QED BY <2>5 DEF Copier!CopierNext
<1>10. CASE UNCHANGED vars BY <1>10 DEF vars
<1>11. ASSUME NEW id \in LogIds, Appear(id) PROVE Copier!CopierNext
  BY <1>1, <1>11 DEF Copier!CopierNext
<1> HIDE DEF Copier!copierVars
<1> QED BY <1>2, <1>4, <1>5, <1>6, <1>7, <1>8, <1>9, <1>10, <1>11
        DEF Next, Monitor, Stats

\* If the log appears in the order of its ids, the monitor implements the
\* copier of LogCopier, for every log, batch size and set of unusable entries.
THEOREM ImplementsCopier == ASSUME InOrder PROVE Spec => CopiesTheLog
<1>1. Init => Copier!CopierInit
  BY MonitorAssumption DEF Init, Copier!CopierInit
<1>2. InOrder /\ IInv /\ IInv' /\ [Next]_vars =>
        [Copier!CopierNext]_(Copier!copierVars)
  BY StepRefines
<1> QED BY <1>1, <1>2, Invariance, PTL DEF Spec, CopiesTheLog, Copier!CopierSpec

\* The copier's promise holds after each of its steps.
LEMMA CopierKeeps ==
  ASSUME Copier!NothingMissed, [Copier!CopierNext]_(Copier!copierVars)
  PROVE  Copier!NothingMissed'
<1> USE DEF Copier!NothingMissed
<1>1. CASE UNCHANGED Copier!copierVars
  BY <1>1 DEF Copier!copierVars
<1>2. ASSUME NEW e \in LogIds, Copier!Append(e) PROVE Copier!NothingMissed'
  BY <1>2 DEF Copier!Append
<1>3. ASSUME NEW S \in SUBSET LogIds, Copier!Age(S)
      PROVE  Copier!NothingMissed'
  BY <1>3 DEF Copier!Age
<1>4. ASSUME NEW S \in SUBSET LogIds, Copier!Copy(S)
      PROVE  Copier!NothingMissed'
  BY <1>4 DEF Copier!Copy
<1>5. ASSUME NEW S \in SUBSET LogIds, Copier!PutBehind(S)
      PROVE  Copier!NothingMissed'
  BY <1>5 DEF Copier!PutBehind
<1>6. ASSUME NEW S \in SUBSET LogIds, Copier!StartBehind(S)
      PROVE  Copier!NothingMissed'
  BY <1>6 DEF Copier!StartBehind
<1> HIDE DEF Copier!NothingMissed
<1> QED BY <1>1, <1>2, <1>3, <1>4, <1>5, <1>6 DEF Copier!CopierNext

\* A copier that forgets and repeats as LogCopier lets it misses nothing: what is
\* behind it was copied, is of no use, or was a day old when a start passed over
\* it (load_cursor and save_cursor, with the bootstrap between them).
THEOREM CopiersMissNothing == Copier!CopierSpec => []Copier!NothingMissed
<1>1. Copier!CopierInit => Copier!NothingMissed
  BY DEF Copier!CopierInit, Copier!NothingMissed
<1>2. Copier!NothingMissed /\ [Copier!CopierNext]_(Copier!copierVars)
        => Copier!NothingMissed'
  BY CopierKeeps
<1> QED BY <1>1, <1>2, PTL DEF Copier!CopierSpec

\* So what the monitor leaves below its cursor is recorded, is unusable, or was
\* a day old when it or the statistics started without a cursor.
THEOREM MonitorMissesNothing ==
  ASSUME InOrder PROVE Spec => []Copier!NothingMissed
<1> QED BY ImplementsCopier, CopiersMissNothing, PTL DEF CopiesTheLog
=============================================================================
